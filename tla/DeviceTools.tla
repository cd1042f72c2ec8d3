------------------------------ MODULE DeviceTools ------------------------------
(***************************************************************************)
(* The tools of the robot itself, as the standalone server learns and      *)
(* calls them over MCP in one connection                                   *)
(* (core/providers/tools/device_mcp, the caches of the tool handler before *)
(* them, and the typed input that waits for both).                         *)
(*                                                                         *)
(* The robot answers each request when it likes. An answer names nothing   *)
(* but the request's ID. An inventory is the sequence of its pages.        *)
(***************************************************************************)
EXTENDS Integers, Sequences

CONSTANTS Tools,    \* tool calls of the model
          Pages,    \* pages of the robot's inventory
          MaxLosses \* bound: requests that cannot be sent, answers that are errors

VARIABLES
    client,     \* conn.mcp_client
    declared,   \* the tool handler's cached list, which the LLM is given
    reading,    \* what a thread has read of the client's tools, to store it there
    overtaken,  \* history: the inventory was installed while one was at that
    handler,    \* conn.func_handler has been made
    components, \* components_ready
    typed,      \* pending_typed_input
    asked,      \* requests that the robot has not answered
    resting,    \* handlers of an initialization answer, in their sleep(1)
    call,       \* the calls: where, under which ID, and what they were given
    losses

lists == <<declared, reading, overtaken>>
vars == <<client, lists, handler, components, typed, asked, resting, call, losses>>

None == "none"
Threads == {"components", "chat"}
Live == [n \in 1 .. Pages |-> n]
Older == <<1>>
Inventories == {<<>>, Older, Live}
NotCached == <<0>>
NoClient == [made |-> FALSE, ready |-> FALSE, tools |-> <<>>, partial |-> <<>>,
             cached |-> <<>>, next |-> 1]
NotCalled == [at |-> "idle", id |-> 0, got |-> None]

Initialize == [id |-> 1, what |-> "initialize", of |-> 0]
List(page) == [id |-> 2, what |-> "list", of |-> page]
Call(id, c) == [id |-> id, what |-> "call", of |-> c]
Done(c) == [what |-> "call", of |-> c]

\* The client, the lists and the calls are what the code can store.
TypeOK ==
    /\ client.made \in BOOLEAN /\ client.ready \in BOOLEAN
    /\ client.tools \in Inventories /\ client.cached \in Inventories
    /\ Len(client.partial) < Pages /\ client.next \in Nat
    /\ declared \in Inventories \cup {NotCached} /\ overtaken \in BOOLEAN
    /\ reading \in [Threads -> Inventories \cup {NotCached}]
    /\ handler \in BOOLEAN /\ components \in BOOLEAN
    /\ typed \in {None, "waiting", "started"}
    /\ \A r \in asked : r.id \in 1 .. (client.next + 2)
    /\ resting \in Nat /\ losses \in 0 .. MaxLosses
    /\ \A c \in Tools : call[c].at \in {"idle", "waits", "answered", "failed", "expired"}

Init ==
    /\ client = NoClient /\ declared = NotCached
    /\ reading = [t \in Threads |-> NotCached] /\ overtaken = FALSE
    /\ handler = FALSE /\ components = FALSE /\ typed = None
    /\ asked = {} /\ resting = 0 /\ losses = 0
    /\ call = [c \in Tools |-> NotCalled]

Lossy == losses < MaxLosses /\ losses' = losses + 1
Waiting(id) == {c \in Tools : call[c].at = "waits" /\ call[c].id = id}

-----------------------------------------------------------------------------
(* handleHelloMessage(): the client starts with the inventory of the cache *)
(* file, which shows the tools but does not make it ready. The list that   *)
(* the handler may have is dropped.                                        *)
Hello ==
    /\ ~client.made
    /\ \E cached \in Inventories :
         /\ client' = [NoClient EXCEPT !.made = TRUE, !.tools = cached, !.cached = cached]
         /\ declared' = IF cached # <<>> /\ handler THEN NotCached ELSE declared
    /\ asked' = {Initialize}
    /\ UNCHANGED <<reading, overtaken, handler, components, typed, resting, call, losses>>

(* The components are made in another thread, the tool handler with them.  *)
HandlerMade ==
    /\ ~handler /\ handler' = TRUE
    /\ UNCHANGED <<client, lists, components, typed, asked, resting, call, losses>>
ComponentsReady ==
    /\ handler /\ ~components /\ components' = TRUE
    /\ typed' = IF client.ready /\ typed = "waiting" THEN "started" ELSE typed
    /\ UNCHANGED <<client, lists, handler, asked, resting, call, losses>>

(* get_all_tools(), when the handler is initialized or the LLM is asked.   *)
(* Nothing keeps the event loop from dropping or renewing the list between *)
(* a thread's reading and its storing.                                     *)
Declares(t) ==
    /\ handler /\ declared = NotCached /\ reading[t] = NotCached
    /\ reading' = [reading EXCEPT ![t] = client.tools]
    /\ UNCHANGED <<client, declared, overtaken, handler, components, typed, asked, resting,
                   call, losses>>
Declared(t) ==
    /\ reading[t] # NotCached
    /\ declared' = reading[t] /\ reading' = [reading EXCEPT ![t] = NotCached]
    /\ UNCHANGED <<client, overtaken, handler, components, typed, asked, resting, call, losses>>

(* A typed text waits for both, and one at a time.                         *)
Types ==
    /\ client.made /\ typed = None
    /\ typed' = IF components /\ client.ready THEN "started" ELSE "waiting"
    /\ UNCHANGED <<client, lists, handler, components, asked, resting, call, losses>>

-----------------------------------------------------------------------------
(* call_mcp_tool(): only behind a live inventory. A request that cannot be *)
(* sent is waited for all the same.                                        *)
Calls(c) ==
    /\ call[c].at = "idle" /\ client.ready /\ client.tools # <<>>
    /\ call' = [call EXCEPT ![c] = [at |-> "waits", id |-> client.next, got |-> None]]
    /\ client' = [client EXCEPT !.next = @ + 1]
    /\ \/ asked' = asked \cup {Call(client.next, c)} /\ UNCHANGED losses
       \/ Lossy /\ UNCHANGED asked
    /\ UNCHANGED <<lists, handler, components, typed, resting>>

(* Its timeout, or that of all calls of an answer. The robot may be at it  *)
(* still.                                                                  *)
Expires(c) ==
    /\ call[c].at = "waits"
    /\ call' = [call EXCEPT ![c].at = "expired"]
    /\ UNCHANGED <<client, lists, handler, components, typed, asked, resting, losses>>

-----------------------------------------------------------------------------
(* handle_mcp_message(). A waiting call is looked for first, then the IDs  *)
(* of the discovery; anything else is dropped.                             *)
Resolves(r) ==
    \E c \in Waiting(r.id) :
       /\ call' = [call EXCEPT ![c].at = "answered", ![c].got = [what |-> r.what, of |-> r.of]]
       /\ asked' = asked \ {r}
       /\ UNCHANGED <<client, lists, typed, resting>>
Rests(r) ==
    /\ Waiting(r.id) = {} /\ r.id = 1 /\ resting' = resting + 1
    /\ asked' = asked \ {r}
    /\ UNCHANGED <<client, lists, typed, call>>

(* A page, and the request of the next one; or the last: the inventory is  *)
(* installed, the handler's list made anew if it differs from the cached   *)
(* one or lacks what it should have, and the typed text may start.         *)
(* Variant: only if it lacks something.                                    *)
RefreshedWhenLacking(pages) ==
    IF handler /\ declared \in {<<>>, NotCached} THEN pages ELSE declared
Refreshed(pages) ==
    IF ~handler THEN declared
    ELSE IF client.cached # pages \/ declared \in {<<>>, NotCached} THEN pages ELSE declared
Overtakes(pages) == \E t \in Threads : reading[t] \notin {NotCached, pages}
Listed(r) ==
    /\ Waiting(r.id) = {} /\ r.what = "list"
    /\ LET pages == Append(client.partial, r.of)
       IN  \/ /\ r.of < Pages
              /\ client' = [client EXCEPT !.partial = pages]
              /\ asked' = (asked \ {r}) \cup {List(r.of + 1)}
              /\ UNCHANGED <<lists, typed>>
           \/ /\ r.of = Pages
              /\ client' = [client EXCEPT !.partial = <<>>, !.tools = pages,
                                          !.cached = pages, !.ready = TRUE]
              /\ declared' = Refreshed(pages)
              /\ overtaken' = (overtaken \/ Overtakes(pages)) /\ UNCHANGED reading
              /\ typed' = IF components /\ typed = "waiting" THEN "started" ELSE typed
              /\ asked' = asked \ {r}
    /\ UNCHANGED <<resting, call>>
Dropped(r) ==
    /\ Waiting(r.id) = {} /\ r.id # 1 /\ r.what = "call"
    /\ asked' = asked \ {r} /\ UNCHANGED <<client, lists, typed, resting, call>>
Answers(r) ==
    /\ Resolves(r) \/ Rests(r) \/ Listed(r) \/ Dropped(r)
    /\ UNCHANGED <<handler, components, losses>>

(* An error: for a waiting call. Of the discovery, nothing is repeated.    *)
Refuses(r) ==
    /\ Lossy /\ asked' = asked \ {r}
    /\ call' = [c \in Tools |-> IF c \in Waiting(r.id) THEN [call[c] EXCEPT !.at = "failed"]
                                ELSE call[c]]
    /\ UNCHANGED <<client, lists, handler, components, typed, resting>>

(* A second after an initialization answer, the inventory is asked for.    *)
AsksForTools ==
    /\ resting > 0 /\ resting' = resting - 1
    /\ asked' = asked \cup {List(1)}
    /\ UNCHANGED <<client, lists, handler, components, typed, call, losses>>

Next ==
    \/ Hello \/ HandlerMade \/ ComponentsReady \/ Types \/ AsksForTools
    \/ \E t \in Threads : Declares(t) \/ Declared(t)
    \/ \E c \in Tools : Calls(c) \/ Expires(c)
    \/ \E r \in asked : Answers(r) \/ Refuses(r)

Spec == Init /\ [][Next]_vars

-----------------------------------------------------------------------------
(* Once the client is ready, it has the robot's inventory, each page once, *)
(* however often that is asked for, and no typed text waits any more when  *)
(* both have been made. The LLM is given the same, whichever of hello and  *)
(* the handler came first, unless the inventory was installed between a    *)
(* thread's reading and its storing of the tools it read.                  *)
ToolsCurrent ==
    client.ready =>
        /\ client.tools = Live
        /\ overtaken \/ declared \in {Live, NotCached}
        /\ components => typed # "waiting"

(* What a call is given is the robot's answer to it                        *)
(* (call_mcp_tool(): "wait for its correlated response"), or, if its ID is *)
(* that of the inventory and the call that has the initialization's was    *)
(* given up, a page of the inventory, which the late answer to that call   *)
(* made the server ask for; never the answer to another call.              *)
GivenUp == \E c \in Tools : call[c].at = "expired" /\ call[c].id = Initialize.id
AnswersOwn ==
    \A c \in Tools : call[c].at = "answered" =>
        \/ call[c].got = Done(c)
        \/ GivenUp /\ call[c].id = List(1).id /\ call[c].got.what = "list"

\* The robot's tools are known, and each answer belongs to its call.
ToolsAnswer == ToolsCurrent /\ AnswersOwn
=============================================================================
