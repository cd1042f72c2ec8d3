----------------------------- MODULE Reconnection -----------------------------
(***************************************************************************)
(* The robot connects to the standalone server again while its last        *)
(* connection is still there (core/connected_devices.py, the ends of       *)
(* core/connection.py), and Settings sends it a spoken notification        *)
(* meanwhile (core/notification_audio.py).                                 *)
(*                                                                         *)
(* A connection may be closed by its receive loop, its timeout task, the   *)
(* end of a conversation that it was opened for, and a task made by the    *)
(* connection that takes its place. The registry's lock is an asyncio.Lock: *)
(* who waits is served in turn. It is held while a notification is on its  *)
(* way into the socket.                                                    *)
(***************************************************************************)
EXTENDS Integers, Sequences

CONSTANTS MaxConnections, \* bound: connections of the robot
          Passing,        \* those that may be opened for one conversation
          Pushes          \* notifications

VARIABLES
    socket,    \* each connection's websocket
    receive,   \* where its receive loop is suspended
    stop,      \* stop_event
    closer,    \* where each of its close() calls is suspended
    closing,   \* who holds _close_lock
    completed, \* _close_completed
    registry,  \* the robot's connection; 0 is none
    waiting,   \* who waits for the registry's lock; the first one holds it
    push,      \* the notifications: where, for which connection
    file,      \* those whose audio can be fetched
    greeted    \* history: connections that have been registered

vars == <<socket, receive, stop, closer, closing, completed, registry, waiting, push, file,
          greeted>>

Connections == 1 .. MaxConnections
Closers == {"handler", "timeout", "replaced", "ended"}
None == "none"
NoPush == [at |-> None, conn |-> 0]
Turn(kind, of) == [kind |-> kind, of |-> of]

\* Connections, tasks and notifications are where the code can be.
TypeOK ==
    /\ socket \in [Connections -> {None, "open", "closed"}]
    /\ receive \in [Connections -> {None, "loop", "welcome", "register", "close", "done"}]
    /\ stop \in [Connections -> BOOLEAN] /\ completed \in [Connections -> BOOLEAN]
    /\ closer \in [Connections -> [Closers -> {None, "task", "lock", "body", "socket",
                                               "unregister", "done", "cancelled"}]]
    /\ closing \in [Connections -> Closers \cup {None}]
    /\ \A c \in Connections : closing[c] # None => stop[c]
    /\ registry \in 0 .. MaxConnections
    /\ push \in [Pushes -> [at : {None, "get", "generate", "send", "sending", "sent", "failed"},
                            conn : 0 .. MaxConnections]]
    /\ file \subseteq Pushes /\ greeted \subseteq Connections
    /\ \A i \in 1 .. Len(waiting) : waiting[i].kind \in {"register", "unregister", "get", "send"}

Init ==
    /\ socket = [c \in Connections |-> None] /\ receive = socket /\ closing = socket
    /\ stop = [c \in Connections |-> FALSE] /\ completed = stop
    /\ closer = [c \in Connections |-> [w \in Closers |-> None]]
    /\ registry = 0 /\ waiting = <<>> /\ push = [p \in Pushes |-> NoPush]
    /\ file = {} /\ greeted = {}

closeVars == <<stop, closer, closing, completed>>
pushVars == <<push, file>>
Waits(kind, of) == waiting' = Append(waiting, Turn(kind, of))
Holds(kind, of) == waiting # <<>> /\ Head(waiting) = Turn(kind, of)
Leaves == waiting' = Tail(waiting)

-----------------------------------------------------------------------------
(* A connection, its hello and its end. The receive loop hears nothing any *)
(* more once stop_event is set.                                            *)
Connects(c) ==
    /\ socket[c] = None /\ \A d \in 1 .. (c - 1) : socket[d] # None
    /\ socket' = [socket EXCEPT ![c] = "open"] /\ receive' = [receive EXCEPT ![c] = "loop"]
    /\ UNCHANGED <<closeVars, registry, waiting, pushVars, greeted>>
Drops(c) ==
    /\ socket[c] = "open" /\ socket' = [socket EXCEPT ![c] = "closed"]
    /\ UNCHANGED <<receive, closeVars, registry, waiting, pushVars, greeted>>

(* handleHelloMessage(): the welcome is sent, then the registry asked for. *)
Hello(c) ==
    /\ receive[c] = "loop" /\ socket[c] = "open" /\ ~stop[c] /\ c \notin greeted
    /\ receive' = [receive EXCEPT ![c] = "welcome"]
    /\ UNCHANGED <<socket, closeVars, registry, waiting, pushVars, greeted>>
Welcomed(c) ==
    /\ receive[c] = "welcome" /\ socket[c] = "open"
    /\ receive' = [receive EXCEPT ![c] = "register"] /\ Waits("register", c)
    /\ UNCHANGED <<socket, closeVars, registry, pushVars, greeted>>

(* register(): the connection that was there is closed in a task.          *)
Registers(c) ==
    /\ Holds("register", c) /\ Leaves
    /\ registry' = c /\ greeted' = greeted \cup {c}
    /\ receive' = [receive EXCEPT ![c] = "loop"]
    /\ closer' = IF registry \in {0, c} THEN closer
                 ELSE [closer EXCEPT ![registry]["replaced"] = "task"]
    /\ UNCHANGED <<socket, stop, closing, completed, pushVars>>

-----------------------------------------------------------------------------
(* close(): once, whoever comes first.                                     *)
Calls(c, w) ==
    /\ closer' = [closer EXCEPT ![c][w] = IF completed[c] THEN "done" ELSE "lock"]
    /\ stop' = [stop EXCEPT ![c] = TRUE]
    /\ UNCHANGED <<socket, closing, completed, registry, waiting, pushVars, greeted>>

LoopEnds(c) ==
    /\ socket[c] = "closed" /\ receive[c] \in {"loop", "welcome"}
    /\ receive' = [receive EXCEPT ![c] = "close"] /\ Calls(c, "handler")
TimesOut(c) ==
    /\ socket[c] # None /\ closer[c]["timeout"] = None /\ ~stop[c]
    /\ Calls(c, "timeout") /\ UNCHANGED receive
Replaced(c) ==
    /\ closer[c]["replaced"] = "task"
    /\ Calls(c, "replaced") /\ UNCHANGED receive

(* end_conversation() and reset_conversation() of a connection that is not *)
(* persistent. No notification is ever made for one of these.              *)
Ends(c) ==
    /\ c \in Passing /\ socket[c] # None /\ closer[c]["ended"] = None
    /\ \A p \in Pushes : push[p].conn # c
    /\ Calls(c, "ended") /\ UNCHANGED receive

Goes(c, w, step) == closer' = [closer EXCEPT ![c][w] = step]
Follows(c, w) ==
    /\ closer[c][w] = "lock" /\ closing[c] = None /\ completed[c] /\ Goes(c, w, "done")
    /\ UNCHANGED <<socket, receive, stop, closing, completed, registry, waiting, pushVars,
                   greeted>>

(* _close_resources(): the other tasks are cancelled and waited for, the   *)
(* timeout task among them, which may be waiting for this very lock; so    *)
(* may the conversation's end, if it is recognition's task that ends it.   *)
TimeoutEnds(c, w) ==
    IF w # "timeout" /\ closer[c]["timeout"] \in {None, "lock"}
    THEN "cancelled" ELSE closer[c]["timeout"]
EndedEnds(c, w) ==
    {closer[c]["ended"]} \cup
        IF w # "ended" /\ closer[c]["ended"] = "lock" THEN {"cancelled"} ELSE {}
Locks(c, w) ==
    /\ closer[c][w] = "lock" /\ closing[c] = None /\ ~completed[c]
    /\ closing' = [closing EXCEPT ![c] = w]
    /\ \E ended \in EndedEnds(c, w) :
         closer' = [closer EXCEPT ![c]["timeout"] = TimeoutEnds(c, w), ![c]["ended"] = ended,
                                  ![c][w] = "body"]
    /\ UNCHANGED <<socket, receive, stop, completed, registry, waiting, pushVars, greeted>>
ClosesSocket(c, w) ==
    /\ closer[c][w] = "body" /\ Goes(c, w, "socket")
    /\ socket' = [socket EXCEPT ![c] = "closed"]
    /\ UNCHANGED <<receive, stop, closing, completed, registry, waiting, pushVars, greeted>>

(* The closing handshake takes a turn of the event loop at least, so that  *)
(* a welcome under way has failed or passed before.                        *)
(* Variant: once the receive loop has returned.                            *)
AsksToLeaveLast(c, w) ==
    /\ closer[c][w] = "socket" /\ receive[c] = "done"
    /\ Goes(c, w, "unregister") /\ Waits("unregister", c)
    /\ UNCHANGED <<socket, receive, stop, closing, completed, registry, pushVars, greeted>>
AsksToLeave(c, w) ==
    /\ closer[c][w] = "socket" /\ receive[c] # "welcome"
    /\ Goes(c, w, "unregister") /\ Waits("unregister", c)
    /\ UNCHANGED <<socket, receive, stop, closing, completed, registry, pushVars, greeted>>

(* unregister(): only if it is this connection's own entry.                *)
(* Variant: the robot's entry, whoever it belongs to.                      *)
WithoutAny(c) == 0
Without(c) == IF registry = c THEN 0 ELSE registry
Unregisters(c, w) ==
    /\ closer[c][w] = "unregister" /\ Holds("unregister", c) /\ Leaves
    /\ registry' = Without(c) /\ Goes(c, w, "done")
    /\ completed' = [completed EXCEPT ![c] = TRUE] /\ closing' = [closing EXCEPT ![c] = None]
    /\ UNCHANGED <<socket, receive, stop, pushVars, greeted>>
Returns(c) ==
    /\ receive[c] = "close" /\ closer[c]["handler"] = "done"
    /\ receive' = [receive EXCEPT ![c] = "done"]
    /\ UNCHANGED <<socket, closeVars, registry, waiting, pushVars, greeted>>

-----------------------------------------------------------------------------
(* push_tts(). A connection in a conversation, or without its provider     *)
(* yet, is refused like one that is closing.                               *)
PushGoes(p, step) == push' = [push EXCEPT ![p].at = step]
Pushed(p, from, to) ==
    /\ push[p].at = from /\ PushGoes(p, to)
    /\ UNCHANGED <<socket, receive, closeVars, registry, greeted>>

Asks(p) == Pushed(p, None, "get") /\ Waits("get", p) /\ UNCHANGED file
Refuses(p) ==
    /\ Holds("get", p) /\ Leaves /\ Pushed(p, "get", "failed") /\ UNCHANGED file
Finds(p) ==
    /\ Holds("get", p) /\ Leaves /\ registry # 0 /\ ~stop[registry]
    /\ push' = [push EXCEPT ![p] = [at |-> "generate", conn |-> registry]]
    /\ UNCHANGED <<socket, receive, closeVars, registry, file, greeted>>

(* The audio is made in a thread and another process; behind it, the       *)
(* connection must not have been stopped or be in a conversation.          *)
Fails(p, from) == Pushed(p, from, "failed") /\ file' = file \ {p}
GeneratesNot(p) == Fails(p, "generate") /\ UNCHANGED waiting
Generates(p) ==
    /\ Pushed(p, "generate", "send") /\ ~stop[push[p].conn]
    /\ file' = file \cup {p} /\ Waits("send", p)

(* send_if_current(): the connection that the audio was made for.          *)
Current(p) == registry = push[p].conn /\ ~stop[push[p].conn]
GivesUp(p) == Holds("send", p) /\ Fails(p, "send") /\ ~Current(p) /\ Leaves
Sends(p) ==
    /\ Holds("send", p) /\ Pushed(p, "send", "sending") /\ Current(p)
    /\ UNCHANGED <<waiting, file>>
Sent(p) ==
    /\ Pushed(p, "sending", "sent") /\ socket[push[p].conn] = "open" /\ Leaves
    /\ UNCHANGED file
NotSent(p) == Fails(p, "sending") /\ socket[push[p].conn] = "closed" /\ Leaves

(* discard(), ten minutes after the generation, wherever the push is then. *)
Expires(p) ==
    /\ p \in file /\ file' = file \ {p}
    /\ UNCHANGED <<socket, receive, closeVars, registry, waiting, push, greeted>>

-----------------------------------------------------------------------------
Close(c, w) ==
    Follows(c, w) \/ Locks(c, w) \/ ClosesSocket(c, w) \/ AsksToLeave(c, w) \/ Unregisters(c, w)
Receive(c) == Welcomed(c) \/ Registers(c) \/ LoopEnds(c) \/ Returns(c)
Push(p) == Refuses(p) \/ Finds(p) \/ GivesUp(p) \/ Sends(p) \/ Sent(p) \/ NotSent(p)

Next ==
    \/ \E c \in Connections :
         \/ Connects(c) \/ Drops(c) \/ Hello(c) \/ TimesOut(c) \/ Ends(c) \/ Replaced(c)
         \/ Receive(c)
         \/ \E w \in Closers : Close(c, w)
    \/ \E p \in Pushes : Asks(p) \/ Generates(p) \/ GeneratesNot(p) \/ Push(p) \/ Expires(p)

Spec == Init /\ [][Next]_vars

(* What goes on by itself: the robot, the clock and the generation of      *)
(* audio are not waited for.                                               *)
Progress ==
    \/ \E c \in Connections : Replaced(c) \/ Receive(c) \/ \E w \in Closers : Close(c, w)
    \/ \E p \in Pushes : Push(p)
Settled == ~ENABLED Progress

(* Where it can: the guards of these steps.                                *)
ReceiveCan(c) ==
    \/ socket[c] = "open" /\ receive[c] = "welcome"
    \/ socket[c] = "closed" /\ receive[c] \in {"loop", "welcome"}
    \/ Holds("register", c)
    \/ receive[c] = "close" /\ closer[c]["handler"] = "done"
CloseCan(c, w) ==
    \/ closer[c][w] = "lock" /\ closing[c] = None
    \/ closer[c][w] = "body"
    \/ closer[c][w] = "socket" /\ receive[c] # "welcome"
    \/ closer[c][w] = "unregister" /\ Holds("unregister", c)
PushCan(p) ==
    \/ push[p].at = "get" /\ Holds("get", p)
    \/ push[p].at = "send" /\ Holds("send", p)
    \/ push[p].at = "sending" /\ socket[push[p].conn] # None
CanGoOn ==
    \/ \E c \in Connections :
         closer[c]["replaced"] = "task" \/ ReceiveCan(c) \/ \E w \in Closers : CloseCan(c, w)
    \/ \E p \in Pushes : PushCan(p)

-----------------------------------------------------------------------------
(* The registry has the connection that said hello last: never one that is *)
(* closed, and every other that has said hello is being closed. A          *)
(* notification goes into that connection only, and the audio of one that  *)
(* was not sent is not kept.                                               *)
NewestIsKnown ==
    /\ registry # 0 => ~completed[registry]
    /\ \A c \in greeted : registry = c \/ stop[c] \/ closer[c]["replaced"] # None
    /\ \A p \in Pushes :
         /\ push[p].at = "sending" => registry = push[p].conn
         /\ push[p].at = "failed" => p \notin file

(* Every close that has begun is complete, nobody waits for the registry,  *)
(* and of all that have said hello, one at most is open.                   *)
AllEnded ==
    /\ \A c \in Connections : stop[c] => completed[c]
    /\ waiting = <<>> /\ \A c \in greeted : c = registry \/ completed[c]

(* The robot has one connection, and the others end: four callers, two     *)
(* locks and a task that cancels another are not at rest before.           *)
OneConnection == NewestIsKnown /\ (~CanGoOn => AllEnded)

(* The same of the steps themselves: none is held up by more than its      *)
(* guard says.                                                             *)
NobodyStuck == Settled => AllEnded
===============================================================================
