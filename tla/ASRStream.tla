----------------------------- MODULE ASRStream ------------------------------
(***************************************************************************)
(* Speech recognition of one listening turn: VoiceTurn.transcribe(), which *)
(* opens one ASRClient after another, and the turns they leave behind in a *)
(* worker's ASRService. A worker turn is moved by three coroutines: its own *)
(* execute(), its lease watchdog and the one input handler of the service. *)
(* A frame is its number; decoding, voice detection and the transcript are *)
(* choices. Lease requests are one step: refreshed, or unanswered.          *)
(***************************************************************************)
EXTENDS Integers, Sequences, FiniteSets, Functions

CONSTANTS
    MaxTries,      \* bound on the admissions of one listening turn
    MaxFrames,     \* bound on the frames the user speaks
    CoreQueue,     \* VoiceTurn's input queue
    RecoveryFrames, \* RECOVERY_AUDIO_FRAMES
    WorkerQueue,   \* Turn.queue
    MaxTurns,      \* turns of a worker
    MaxFaults      \* bound on losses, lapses, failures and disconnects

ASSUME ASRAssumption ==
    /\ \A n \in {MaxTries, MaxFrames, CoreQueue, RecoveryFrames, WorkerQueue, MaxTurns} :
          n \in Nat \ {0}
    /\ RecoveryFrames < CoreQueue /\ MaxFaults \in Nat

VARIABLES
    mode,          \* of the listening turn: "manual" or "auto"
    spoken,        \* frames the client has sent
    listening,     \* ~VoiceTurn.ending
    queue,         \* VoiceTurn.queue
    core,          \* transcribe() and its present ASRClient
    sent,          \* per admission: the frames its sender has sent
    wire,          \* messages on their way to the worker
    reply,         \* the answer to the client's open, input or cancel
    inbox,         \* events on their way to the client
    turn,          \* ASRService.turns and their coroutines, by admission
    handler,       \* the input handler: the turn it is failing
    workerUp, stopping, faults

client == <<mode, spoken, listening, queue>>
net    == <<wire, reply, inbox>>
link   == <<workerUp, stopping>>
vars   == <<mode, spoken, listening, queue, core, sent, wire, reply, inbox, turn, handler,
            workerUp, stopping, faults>>

None   == "none"
End    == 0
Tries  == 1 .. MaxTries
Frames == 1 .. MaxFrames
Body   == {"start", "wait", "feed", "finish", "final"}

NoTurn == [x |-> None, watch |-> "off", hit |-> FALSE, finishing |-> FALSE,
           ending |-> FALSE, queue |-> << >>, seq |-> 0, fed |-> << >>, text |-> None,
           counted |-> FALSE, lapsed |-> FALSE]

\* Turns, frames, messages and timers stay in the states the code can store;
\* the core's and the worker's queues keep their bounds.
TypeOK ==
    /\ mode \in {"manual", "auto"} /\ spoken \in 0 .. MaxFrames /\ listening \in BOOLEAN
    /\ queue \in Seq(Frames \cup {End}) /\ Len(queue) <= CoreQueue
    /\ core \in [at : {"open", "opening", "run", "cancel", "restart", "done"}, try : Tries,
                 admitted : BOOLEAN, final : {None, "text", "empty", "soft", "hard"},
                 sender : {"off", "get", "ack"}, item : Frames \cup {End}, seq : 0 .. MaxFrames,
                 code : {None, "text", "empty", "soft", "hard", "cancelled"},
                 restarting : BOOLEAN]
    /\ \A a \in Tries : sent[a] \in Seq(Frames)
    /\ wire \in Seq([try : Tries, op : {"open", "frame", "end", "cancel"}, seq : 0 .. MaxFrames,
                     item : Frames \cup {End}])
    /\ reply \in {None, "admitted", "busy", "input", "cancel"}
    /\ inbox \in Seq({"text", "empty", "soft", "hard"})
    /\ \A a \in Tries :
          /\ turn[a].x \in Body \cup {None, "new", "failing", "gather", "close", "over"}
          /\ turn[a].watch \in {"off", "sleep", "send"} /\ turn[a].text \in {None, "text", "empty"}
          /\ turn[a].queue \in Seq(Frames \cup {End}) /\ Len(turn[a].queue) <= WorkerQueue
          /\ turn[a].seq \in 0 .. MaxFrames /\ turn[a].fed \in Seq(Frames)
    /\ Cardinality({a \in Tries : turn[a].x \notin {None, "over"}}) <= MaxTurns
    /\ handler \in Tries \cup {End} /\ faults \in 0 .. MaxFaults

Init ==
    /\ mode \in {"manual", "auto"} /\ spoken = 0 /\ listening = TRUE /\ queue = << >>
    /\ core = [at |-> "open", try |-> 1, admitted |-> FALSE, final |-> None,
               sender |-> "off", item |-> End, seq |-> 0, code |-> None, restarting |-> FALSE]
    /\ sent = [a \in Tries |-> << >>] /\ wire = << >> /\ reply = None /\ inbox = << >>
    /\ turn = [a \in Tries |-> NoTurn] /\ handler = End
    /\ workerUp = TRUE /\ stopping = FALSE /\ faults = 0

Fault == faults < MaxFaults /\ faults' = faults + 1

-----------------------------------------------------------------------------
(* The client.                                                             *)

Keep(q, n) == IF Len(q) > n THEN SubSeq(q, Len(q) - n + 1, Len(q)) ELSE q

\* audio_frame(): while recognition restarts only recent frames are kept.
Speaks ==
    /\ core.at # "done" /\ listening /\ spoken < MaxFrames
    /\ LET kept == IF core.restarting THEN Keep(queue, RecoveryFrames - 1) ELSE queue IN
       /\ Len(kept) < CoreQueue /\ queue' = Append(kept, spoken + 1)
    /\ spoken' = spoken + 1
    /\ UNCHANGED <<mode, listening, core, sent, net, turn, handler, link, faults>>

\* stop() of a manual turn.
StopsListening ==
    /\ core.at # "done" /\ listening /\ Len(queue) < CoreQueue
    /\ listening' = FALSE /\ queue' = Append(queue, End)
    /\ UNCHANGED <<mode, spoken, core, sent, net, turn, handler, link, faults>>

-----------------------------------------------------------------------------
(* The core: one admission after another.                                  *)

ClientApart == UNCHANGED <<mode, spoken, listening>>
WorkerApart == UNCHANGED <<turn, handler, link>>
Message(op, seq, item) == [try |-> core.try, op |-> op, seq |-> seq, item |-> item]

Opens ==
    /\ core.at = "open" /\ core' = [core EXCEPT !.at = "opening"]
    /\ wire' = Append(wire, Message("open", 0, End)) /\ reply' = None
    /\ UNCHANGED <<client, sent, inbox, faults>> /\ WorkerApart

\* A request that was consumed without an answer fails when its time is up,
\* and so may one whose answer is late.
Unanswered(op) ==
    /\ reply = None
    /\ IF \E i \in DOMAIN wire : wire[i].try = core.try /\ wire[i].op \in op
       THEN Fault ELSE UNCHANGED faults

\* transcribe() is over, and with it the listening turn's queue.
Returns(code) ==
    /\ core' = [core EXCEPT !.at = "done", !.admitted = FALSE, !.final = None, !.sender = "off",
                            !.item = End, !.seq = 0, !.code = code, !.restarting = FALSE]
    /\ queue' = << >>

\* Variant: the frame without an acknowledgment is sent again
AfterRequeues(code) ==
    LET again == listening /\ (code = "soft" \/ (code = "empty" /\ mode = "auto")) IN
    /\ inbox' = << >>
    /\ IF again
       THEN /\ core' = [core EXCEPT !.at = "restart", !.admitted = FALSE, !.final = None,
                          !.sender = "off", !.seq = 0, !.item = End, !.code = None,
                          !.restarting = TRUE]
            /\ queue' = Keep(IF core.sender = "ack" THEN <<core.item>> \o queue ELSE queue, RecoveryFrames)
       ELSE Returns(code)

\* What transcribe() makes of the end of an admission.
After(code) ==
    LET again == listening /\ (code = "soft" \/ (code = "empty" /\ mode = "auto")) IN
    /\ inbox' = << >>
    /\ IF again
       THEN /\ core' = [core EXCEPT !.at = "restart", !.admitted = FALSE, !.final = None,
                          !.sender = "off", !.seq = 0, !.item = End, !.code = None,
                          !.restarting = TRUE]
            /\ queue' = Keep(queue, RecoveryFrames)
       ELSE Returns(code)

\* The finally block of ASRClient.transcribe(): no cancel behind a terminal.
Leaves(code) ==
    IF core.admitted /\ core.final = None
    THEN /\ core' = [core EXCEPT !.at = "cancel", !.sender = "off", !.item = End, !.code = code]
         /\ wire' = Append(wire, Message("cancel", 0, End)) /\ reply' = None
         /\ UNCHANGED <<queue, inbox>>
    ELSE After(code) /\ reply' = None /\ UNCHANGED wire

OpenReturns ==
    /\ core.at = "opening"
    /\ \/ /\ reply = "admitted" /\ reply' = None /\ UNCHANGED faults
          /\ core' = [core EXCEPT !.at = "run", !.admitted = TRUE, !.sender = "get",
                                  !.restarting = FALSE]
          /\ UNCHANGED <<queue, wire, inbox>>
       \/ /\ (reply = "busy" /\ UNCHANGED faults) \/ Unanswered({"open"})
          /\ Leaves("soft")
    /\ UNCHANGED sent /\ ClientApart /\ WorkerApart

\* send_audio(): one item at a time; what it takes behind the end is gone.
SenderTakes ==
    /\ core.at = "run" /\ core.sender = "get" /\ queue # << >>
    /\ queue' = Tail(queue)
    /\ LET item == Head(queue) IN
       IF core.final # None
       THEN core' = [core EXCEPT !.sender = "off"] /\ UNCHANGED <<wire, sent>>
       ELSE /\ core' = [core EXCEPT !.sender = "ack", !.item = item]
            /\ wire' = Append(wire, Message(IF item = End THEN "end" ELSE "frame", core.seq, item))
            /\ sent' = IF item = End THEN sent
                       ELSE [sent EXCEPT ![core.try] = Append(@, item)]
    /\ UNCHANGED <<reply, inbox, faults>> /\ ClientApart /\ WorkerApart

SenderAcked ==
    /\ core.at = "run" /\ core.sender = "ack" /\ reply = "input" /\ reply' = None
    /\ core' = IF core.item = End
               THEN [core EXCEPT !.sender = "off", !.item = End]
               ELSE [core EXCEPT !.sender = "get", !.item = End, !.seq = @ + 1]
    /\ UNCHANGED <<queue, sent, wire, inbox, faults>> /\ ClientApart /\ WorkerApart

\* receive(): nothing counts before the admission, nor behind a terminal.
Receives ==
    /\ inbox # << >> /\ core.at \in {"opening", "run", "cancel"} /\ inbox' = Tail(inbox)
    /\ core' = IF core.admitted /\ core.final = None
               THEN [core EXCEPT !.final = Head(inbox)] ELSE core
    /\ UNCHANGED <<client, sent, wire, reply, faults>> /\ WorkerApart

\* A terminal ends the admission; so does a late sender, lease or timeout.
RunEnds ==
    /\ core.at = "run"
    /\ \/ core.final # None /\ Leaves(core.final) /\ UNCHANGED faults
       \/ /\ core.final = None /\ Leaves("soft")
          /\ \/ core.sender = "ack" /\ Unanswered({"frame", "end"})
             \/ turn[core.try].x \in {None, "over"} /\ UNCHANGED faults
             \/ handler # End /\ UNCHANGED faults
             \/ Fault
    /\ UNCHANGED sent /\ ClientApart /\ WorkerApart

CancelReturns ==
    /\ core.at = "cancel"
    /\ (reply = "cancel" /\ UNCHANGED faults) \/ Unanswered({"cancel"})
    /\ After(core.code) /\ reply' = None
    /\ UNCHANGED <<sent, wire>> /\ ClientApart /\ WorkerApart

\* Behind the backoff: an end of listening meanwhile has nothing to wait for.
Restarts ==
    /\ core.at = "restart"
    /\ \/ ~listening /\ Returns("empty")
       \/ /\ listening /\ core.try < MaxTries /\ UNCHANGED queue
          /\ core' = [core EXCEPT !.at = "open", !.try = @ + 1]
    /\ UNCHANGED <<sent, net, faults>> /\ ClientApart /\ WorkerApart

\* The turn is aborted, wherever it waits.
Cancelled ==
    /\ core.at \in {"open", "opening", "run", "cancel", "restart"}
    /\ IF core.at \in {"opening", "run"}
       THEN Leaves("cancelled")
       ELSE Returns("cancelled") /\ inbox' = << >> /\ UNCHANGED <<wire, reply>>
    /\ UNCHANGED <<sent, faults>> /\ ClientApart /\ WorkerApart

-----------------------------------------------------------------------------
(* The worker: ASRService.                                                 *)

CoreApart == UNCHANGED <<client, core, sent>>
Turns == {a \in Tries : turn[a].x \notin {None, "over"}}

\* A request is only answered while its client still waits.
Waits(a, op) ==
    /\ core.try = a
    /\ \/ op = "open" /\ core.at = "opening"
       \/ op \in {"frame", "end"} /\ core.at = "run" /\ core.sender = "ack"
       \/ op = "cancel" /\ core.at = "cancel"
Answers(a, op, what) == reply' = IF workerUp /\ Waits(a, op) THEN what ELSE reply

\* Events find their client as long as the admission's inbox is subscribed.
Publishes(a, events) ==
    inbox' = IF core.try = a /\ core.at \in {"opening", "run", "cancel"}
             THEN inbox \o events ELSE inbox

\* open(): two turns at most; and the worker may be draining.
ReceiveOpen ==
    /\ wire # << >> /\ Head(wire).op = "open" /\ wire' = Tail(wire)
    /\ LET a == Head(wire).try IN
       \/ stopping /\ UNCHANGED <<turn, reply, faults>>
       \/ ~stopping /\ Answers(a, "open", "busy") /\ UNCHANGED <<turn, faults>>
       \/ /\ ~stopping /\ Cardinality(Turns) < MaxTurns
          /\ \/ turn' = [turn EXCEPT ![a].x = "new"] /\ Answers(a, "open", "admitted")
                /\ UNCHANGED faults
             \/ turn' = [turn EXCEPT ![a].x = "new", ![a].hit = TRUE] /\ UNCHANGED reply /\ Fault
    /\ CoreApart /\ UNCHANGED <<inbox, handler, link>>

Strike(a) == turn[a].x \notin {None, "over"}

\* fail(): the first to fail a turn reports it, and cancels it only behind the
\* report, during which anything may happen. Without a connection there is
\* nothing to wait for.
HandlerFails(a) ==
    IF turn[a].finishing THEN UNCHANGED <<turn, handler>>
    ELSE /\ turn' = [turn EXCEPT ![a].finishing = TRUE, ![a].hit = ~workerUp, ![a].lapsed = FALSE]
         /\ handler' = IF workerUp THEN a ELSE handler

\* Variant: one item more than the queue has room for
ReceiveInputLate ==
    /\ wire # << >> /\ Head(wire).op \in {"frame", "end"} /\ handler = End /\ wire' = Tail(wire)
    /\ LET m == Head(wire)
           a == m.try
           frame == IF m.op = "frame" THEN 1 ELSE 0 IN
       IF turn[a].x \in {None, "over"} THEN UNCHANGED <<turn, reply, handler, faults>>
       ELSE IF m.seq # turn[a].seq
               \/ (~turn[a].ending /\ Len(turn[a].queue) > WorkerQueue)
       THEN HandlerFails(a) /\ UNCHANGED <<reply, faults>>
       ELSE LET took == [turn EXCEPT ![a].lapsed = FALSE,
                         ![a].queue = IF turn[a].ending THEN @ ELSE Append(@, m.item),
                         ![a].seq = @ + frame, ![a].ending = @ \/ frame = 0] IN
            /\ UNCHANGED handler
            /\ \/ turn' = took /\ Answers(a, m.op, "input") /\ UNCHANGED faults
               \/ turn' = [took EXCEPT ![a].hit = TRUE] /\ UNCHANGED reply /\ Fault
    /\ CoreApart /\ UNCHANGED <<inbox, link>>

\* input() of a frame or the end: in order, and acknowledged behind the end.
ReceiveInput ==
    /\ wire # << >> /\ Head(wire).op \in {"frame", "end"} /\ handler = End /\ wire' = Tail(wire)
    /\ LET m == Head(wire)
           a == m.try
           frame == IF m.op = "frame" THEN 1 ELSE 0 IN
       IF turn[a].x \in {None, "over"} THEN UNCHANGED <<turn, reply, handler, faults>>
       ELSE IF m.seq # turn[a].seq
               \/ (~turn[a].ending /\ Len(turn[a].queue) >= WorkerQueue)
       THEN HandlerFails(a) /\ UNCHANGED <<reply, faults>>
       ELSE LET took == [turn EXCEPT ![a].lapsed = FALSE,
                         ![a].queue = IF turn[a].ending THEN @ ELSE Append(@, m.item),
                         ![a].seq = @ + frame, ![a].ending = @ \/ frame = 0] IN
            /\ UNCHANGED handler
            /\ \/ turn' = took /\ Answers(a, m.op, "input") /\ UNCHANGED faults
               \/ turn' = [took EXCEPT ![a].hit = TRUE] /\ UNCHANGED reply /\ Fault
    /\ CoreApart /\ UNCHANGED <<inbox, link>>

ReceiveCancel ==
    /\ wire # << >> /\ Head(wire).op = "cancel" /\ handler = End /\ wire' = Tail(wire)
    /\ LET a == Head(wire).try IN
       IF turn[a].x \in {None, "over"} THEN UNCHANGED <<turn, reply>>
       ELSE /\ turn' = IF turn[a].finishing THEN turn
                       ELSE [turn EXCEPT ![a].finishing = TRUE, ![a].hit = TRUE]
            /\ Answers(a, "cancel", "cancel")
    /\ CoreApart /\ UNCHANGED <<inbox, handler, link, faults>>

\* The report is out, or could not be sent: now the turn is cancelled.
HandlerReports ==
    /\ handler # End /\ handler' = End
    /\ \/ Publishes(handler, <<"hard">>) /\ UNCHANGED faults
       \/ Fault /\ UNCHANGED inbox
    /\ turn' = [turn EXCEPT ![handler].hit = Strike(handler)]
    /\ CoreApart /\ UNCHANGED <<wire, reply, link>>

Expired(a) == turn[a].lapsed \/ ~workerUp

\* watch_lease(), and its report.
WatchFails(a) ==
    /\ turn[a].watch = "sleep" /\ Expired(a)
    /\ turn' = IF turn[a].finishing THEN [turn EXCEPT ![a].watch = "off"]
               ELSE IF workerUp THEN [turn EXCEPT ![a].watch = "send", ![a].finishing = TRUE]
               ELSE [turn EXCEPT ![a].watch = "off", ![a].finishing = TRUE, ![a].hit = TRUE]
    /\ CoreApart /\ UNCHANGED <<net, handler, link, faults>>

WatchReports(a) ==
    /\ turn[a].watch = "send"
    /\ turn' = [turn EXCEPT ![a].watch = "off", ![a].hit = TRUE]
    /\ \/ Publishes(a, <<"soft">>) /\ UNCHANGED faults
       \/ Fault /\ UNCHANGED inbox
    /\ CoreApart /\ UNCHANGED <<wire, reply, handler, link>>

ExecuteApart == CoreApart /\ UNCHANGED <<wire, reply, handler, link>>
Goes(a, x) == turn' = [turn EXCEPT ![a].x = x]

\* The finally block first ends the watchdog. One that is reporting cancels
\* execute() once more as it goes, its report may be out or not.
Unwinds(a, events) ==
    LET reports == turn[a].watch = "send" IN
    /\ turn' = [turn EXCEPT ![a].x = "gather", ![a].watch = "off", ![a].hit = reports,
                            ![a].queue = << >>, ![a].lapsed = FALSE, ![a].text = None]
    /\ Publishes(a, events) \/ (reports /\ Publishes(a, <<"soft">> \o events))

\* execute() fails its own turn, unless another is at it.
Fails(a) ==
    IF turn[a].finishing \/ ~workerUp THEN Unwinds(a, << >>)
    ELSE /\ turn' = [turn EXCEPT ![a].x = "failing", ![a].finishing = TRUE] /\ UNCHANGED inbox

\* Variant: nobody removes a turn that was cancelled before its first step
StartsOnly(a) ==
    /\ turn[a].x = "new" /\ ~turn[a].hit /\ ExecuteApart /\ UNCHANGED <<inbox, faults>>
    /\ turn' = [turn EXCEPT ![a].x = "start", ![a].counted = TRUE, ![a].watch = "sleep"]

Starts(a) ==
    /\ turn[a].x = "new" /\ ExecuteApart /\ UNCHANGED <<inbox, faults>>
    /\ turn' = IF turn[a].hit THEN [turn EXCEPT ![a] = [NoTurn EXCEPT !.x = "over"]]
               ELSE [turn EXCEPT ![a].x = "start", ![a].counted = TRUE, ![a].watch = "sleep"]

Started(a) ==
    /\ turn[a].x = "start" /\ ~turn[a].hit /\ Goes(a, "wait")
    /\ ExecuteApart /\ UNCHANGED <<inbox, faults>>

\* The end, or a frame for the provider.
Takes(a) ==
    /\ turn[a].x = "wait" /\ ~turn[a].hit /\ turn[a].queue # << >>
    /\ LET item == Head(turn[a].queue) IN
       turn' = IF item = End
               THEN [turn EXCEPT ![a].x = "finish", ![a].queue = Tail(@), ![a].ending = TRUE]
               ELSE [turn EXCEPT ![a].x = "feed", ![a].queue = Tail(@),
                                 ![a].fed = Append(@, item)]
    /\ ExecuteApart /\ UNCHANGED <<inbox, faults>>

\* Silence ends an automatic turn.
Fed(a) ==
    /\ turn[a].x = "feed" /\ ~turn[a].hit
    /\ \/ Goes(a, "wait")
       \/ mode = "auto" /\ turn' = [turn EXCEPT ![a].x = "finish", ![a].ending = TRUE]
    /\ ExecuteApart /\ UNCHANGED <<inbox, faults>>

Finishes(a) ==
    /\ turn[a].x = "finish" /\ ~turn[a].hit
    /\ \E text \in IF turn[a].fed = << >> THEN {"empty"} ELSE {"text", "empty"} :
          turn' = [turn EXCEPT ![a].x = "final", ![a].finishing = TRUE, ![a].text = text]
    /\ ExecuteApart /\ UNCHANGED <<inbox, faults>>

\* The final is sent, unless the connection is down or just fails.
FinalSent(a) ==
    /\ turn[a].x = "final" /\ ~turn[a].hit
    /\ \/ workerUp /\ Unwinds(a, <<turn[a].text>>) /\ UNCHANGED faults
       \/ Unwinds(a, << >>) /\ IF workerUp THEN Fault ELSE UNCHANGED faults
    /\ ExecuteApart

\* The deadline of the admission, five seconds for the final, or a provider
\* or decoder that fails; its own check of the lease where it waits.
ExecuteFails(a) ==
    /\ turn[a].x \in Body /\ ~turn[a].hit /\ Fails(a)
    /\ \/ turn[a].x = "wait" /\ Expired(a) /\ UNCHANGED faults
       \/ Fault
    /\ ExecuteApart

TimesOut(a) ==
    /\ turn[a].x \in Body /\ ~turn[a].hit /\ Fails(a)
    /\ ExecuteApart /\ UNCHANGED faults

Reports(a) ==
    /\ turn[a].x = "failing" /\ ~turn[a].hit
    /\ \/ \E event \in {"soft", "hard"} : Unwinds(a, <<event>>) /\ UNCHANGED faults
       \/ Unwinds(a, << >>) /\ Fault
    /\ ExecuteApart

ExecuteCancelled(a) ==
    /\ turn[a].x \in Body \cup {"failing"} /\ turn[a].hit
    /\ Unwinds(a, << >>) \/ (turn[a].x = "final" /\ workerUp /\ Unwinds(a, <<turn[a].text>>))
    /\ ExecuteApart /\ UNCHANGED faults

\* The turn is given up; its activity only by the last line of the block.
Over(a, counted) ==
    turn' = [turn EXCEPT ![a] = [NoTurn EXCEPT !.x = "over", !.fed = turn[a].fed,
                                               !.counted = counted]]

Closes(a) ==
    /\ turn[a].x \in {"gather", "close"} /\ ~turn[a].hit
    /\ IF turn[a].x = "gather" THEN Goes(a, "close") ELSE Over(a, FALSE)
    /\ ExecuteApart /\ UNCHANGED <<inbox, faults>>

\* A cancellation that reaches the finally block ends it there and then.
CleanupCancelled(a) ==
    /\ turn[a].x \in {"gather", "close"} /\ turn[a].hit /\ Over(a, turn[a].counted)
    /\ ExecuteApart /\ UNCHANGED <<inbox, faults>>

-----------------------------------------------------------------------------
(* Time and the network.                                                   *)

Apart == UNCHANGED <<client, core, sent>>
Attended(a) == core.try = a /\ core.at = "run"

\* The client's lease requests keep a turn alive; without them it lapses.
Lapses(a) ==
    /\ turn[a].watch = "sleep" /\ ~turn[a].lapsed /\ turn' = [turn EXCEPT ![a].lapsed = TRUE]
    /\ IF Attended(a) THEN Fault ELSE UNCHANGED faults
    /\ Apart /\ UNCHANGED <<net, handler, link>>

RequestLost ==
    /\ wire # << >> /\ wire' = Tail(wire) /\ Fault
    /\ Apart /\ UNCHANGED <<reply, inbox, turn, handler, link>>

ReplyLost ==
    /\ reply # None /\ reply' = None /\ Fault
    /\ Apart /\ UNCHANGED <<wire, inbox, turn, handler, link>>

EventLost ==
    /\ inbox # << >> /\ inbox' = Tail(inbox) /\ Fault
    /\ Apart /\ UNCHANGED <<wire, reply, turn, handler, link>>

WorkerDisconnects ==
    /\ workerUp /\ workerUp' = FALSE /\ Fault
    /\ Apart /\ UNCHANGED <<net, turn, handler, stopping>>

WorkerReconnects ==
    /\ ~workerUp /\ workerUp' = TRUE
    /\ Apart /\ UNCHANGED <<net, turn, handler, stopping, faults>>

\* stop().
WorkerStops ==
    /\ ~stopping /\ stopping' = TRUE /\ Fault
    /\ turn' = [a \in Tries |-> IF a \in Turns /\ ~turn[a].finishing
                THEN [turn[a] EXCEPT !.finishing = TRUE, !.hit = TRUE] ELSE turn[a]]
    /\ Apart /\ UNCHANGED <<net, handler, workerUp>>

-----------------------------------------------------------------------------
CoreStep == \/ Opens \/ OpenReturns \/ SenderTakes \/ SenderAcked \/ Receives \/ RunEnds
            \/ CancelReturns \/ Restarts

ServiceStep == ReceiveOpen \/ ReceiveInput \/ ReceiveCancel \/ HandlerReports

WatchStep(a) == WatchFails(a) \/ WatchReports(a)

ExecuteStep(a) == \/ Starts(a) \/ Started(a) \/ Takes(a) \/ Fed(a) \/ Finishes(a)
                  \/ FinalSent(a) \/ ExecuteFails(a) \/ TimesOut(a) \/ Reports(a)
                  \/ ExecuteCancelled(a) \/ Closes(a) \/ CleanupCancelled(a)

Next == \/ Speaks \/ StopsListening \/ Cancelled \/ CoreStep \/ ServiceStep
        \/ \E a \in Tries : WatchStep(a) \/ ExecuteStep(a) \/ Lapses(a)
        \/ RequestLost \/ ReplyLost \/ EventLost
        \/ WorkerDisconnects \/ WorkerReconnects \/ WorkerStops

(* Coroutines go on: every wait of execute() and of the core is bounded by a *)
(* timeout. Messages are delivered unless lost.                             *)
Progress == \/ CoreStep \/ ServiceStep
            \/ \E a \in Tries : WatchStep(a) \/ ExecuteStep(a)

Spec == Init /\ [][Next]_vars

-----------------------------------------------------------------------------
(* Properties.                                                             *)

\* A transcript of a manual turn rests on every frame its admission was sent,
\* in order: what could not be queued or was lost fails the turn.
WholeUtterance ==
    core.at = "done" /\ core.code = "text" /\ mode = "manual" =>
        turn[core.try].fed = sent[core.try]

\* Recovery never repeats audio that an earlier admission was sent.
NotReplayed ==
    \A a, b \in Tries : a # b => Range(sent[a]) \cap Range(sent[b]) = {}

\* What the device said is recognised once and as a whole, or not at all.
AudioOnce == WholeUtterance /\ NotReplayed

\* Nothing is left to do for the coroutines of the core and of the worker.
Settled == ~ENABLED Progress

\* Core and worker settle only when every admission is released by its worker,
\* also one nobody knows of, and when listening that has ended is answered
\* for, whatever became of the frames.
NoneLeftBehind == Settled => Turns = {} /\ (~listening => core.at = "done")

\* A turn that is released has returned its activity and closed its provider.
ReleasedIsIdle == \A a \in Tries : turn[a].x = "over" => ~turn[a].counted
=============================================================================
