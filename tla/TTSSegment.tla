---------------------------- MODULE TTSSegment ------------------------------
(***************************************************************************)
(* One segment of speech from text to PCM: TTSPool.generate() of the cores *)
(* and the single native slot of each worker's TTSService. An attempt is an *)
(* OwnedSegment with its job id and token; its messages to the worker stay *)
(* in order, any of them and any answer may be lost or late. PCM is a       *)
(* number of chunks. Which idle worker comes first is left open, and a      *)
(* worker may refuse for its own reasons (draining, active ASR).            *)
(***************************************************************************)
EXTENDS Integers, Sequences, FiniteSets

CONSTANTS
    Segments, Workers,
    Pools,             \* the cores, each with one TTSPool
    Tries,             \* attempts of a segment at a node that may be under
                       \* way at once; a forgotten one is used again
    Chunks,            \* PCM chunks of a segment
    MaxFaults          \* bound on losses, lapses, failures and disconnects

ASSUME SegmentAssumption ==
    /\ Chunks \in Nat \ {0} /\ MaxFaults \in Nat
    /\ "none" \notin Segments \cup Workers

VARIABLES
    home,        \* the core whose session speaks the segment
    at,          \* where generate() of the segment is suspended
    result, excluded,
    cand,        \* the nodes reserve() probes, then those left to try
    own,         \* the attempt it owns
    got,         \* chunks fetched
    then,        \* what follows the release of the attempt
    expired,     \* segments behind their deadline
    lost, broken, \* segments whose guard has failed; whose attempt has
    lock, reserved, up, \* of each pool; up: its core is connected
    wire,        \* attempt: its requests under way
    answer,      \* attempt: the answer under way, by the request it answers
    job, phase, offset, native, cancel, stopping, \* of each worker
    faults

coreVars   == <<at, result, excluded, cand, own, got, then, lock, reserved>>
timeVars   == <<home, expired, lost, broken, up>>
netVars    == <<wire, answer>>
workerVars == <<job, phase, offset, native, cancel, stopping>>
vars == <<home, at, result, excluded, cand, own, got, then, expired, lost, broken,
          lock, reserved, up, wire, answer, job, phase, offset, native, cancel,
          stopping, faults>>

None == "none"
Attempts == [seg : Segments, node : Workers, try : Tries]
NoAttempt == [seg |-> None, node |-> None, try |-> None]
Silent == [op |-> None, state |-> None]
Asks(op, off) == [op |-> op, off |-> off]
Pool(s) == home[s]

\* Segments, attempts, requests and slots are those the code can store.
TypeOK ==
    /\ home \in [Segments -> Pools]
    /\ at \in [Segments -> {"idle", "reserve", "lock", "probe", "pick", "admit",
                            "refuse", "fetch", "poll", "release", "done"}]
    /\ result \in [Segments -> {None, "ok", "failed", "cancelled"}]
    /\ excluded \in [Segments -> SUBSET Workers] /\ cand \in [Segments -> SUBSET Workers]
    /\ own \in [Segments -> Attempts \cup {NoAttempt}] /\ got \in [Segments -> 0 .. Chunks]
    /\ then \in [Segments -> {None, "ok", "retry", "cancel"}]
    /\ expired \subseteq Segments /\ lost \subseteq Segments /\ broken \subseteq Segments
    /\ lock \in [Pools -> Segments \cup {None}] /\ reserved \in [Pools -> SUBSET Workers]
    /\ up \in [Pools -> BOOLEAN]
    /\ \A a \in Attempts : wire[a] \in Seq([op : {"admit", "poll", "cancel"}, off : 0 .. Chunks])
    /\ answer \in [Attempts -> [op : {None, "admit", "poll", "cancel"},
                     state : {None, "admitted", "pending", "audio", "released", "error"}]]
    /\ job \in [Workers -> Attempts \cup {NoAttempt}]
    /\ phase \in [Workers -> {None, "new", "native", "ready", "error", "join"}]
    /\ offset \in [Workers -> 0 .. Chunks] /\ native \in [Workers -> BOOLEAN]
    /\ cancel \subseteq Workers /\ stopping \subseteq Workers
    /\ faults \in 0 .. MaxFaults

Init ==
    /\ home \in [Segments -> Pools]
    /\ at = [s \in Segments |-> "idle"] /\ result = [s \in Segments |-> None]
    /\ excluded = [s \in Segments |-> {}] /\ cand = [s \in Segments |-> {}]
    /\ own = [s \in Segments |-> NoAttempt] /\ got = [s \in Segments |-> 0]
    /\ then = [s \in Segments |-> None]
    /\ expired = {} /\ lost = {} /\ broken = {}
    /\ lock = [p \in Pools |-> None] /\ reserved = [p \in Pools |-> {}]
    /\ up = [p \in Pools |-> TRUE]
    /\ wire = [a \in Attempts |-> << >>] /\ answer = [a \in Attempts |-> Silent]
    /\ job = [w \in Workers |-> NoAttempt] /\ phase = [w \in Workers |-> None]
    /\ offset = [w \in Workers |-> 0] /\ native = [w \in Workers |-> FALSE]
    /\ cancel = {} /\ stopping = {} /\ faults = 0

Fault == faults < MaxFaults /\ faults' = faults + 1

-----------------------------------------------------------------------------
(* The core: TTSPool.                                                      *)

GuardLive(s) == s \notin lost /\ up[Pool(s)]
AttemptLive(s) == s \notin broken /\ up[Pool(s)] /\ s \notin expired
Node(s) == own[s].node

Unlock(s) == lock' = [lock EXCEPT ![Pool(s)] = None]
Goes(s, where) == at' = [at EXCEPT ![s] = where]
GoesOn == UNCHANGED <<result, excluded, got>>

\* generate() returns or raises; its locals are gone.
Done(s, how) ==
    /\ Goes(s, "done") /\ result' = [result EXCEPT ![s] = how]
    /\ excluded' = [excluded EXCEPT ![s] = {}] /\ got' = [got EXCEPT ![s] = 0]
Tried(s, nodes) == cand' = [cand EXCEPT ![s] = nodes]

\* A published phrase comes from the soundbank and needs no worker.
Generate(s) ==
    /\ at[s] = "idle" /\ up[Pool(s)]
    /\ \/ Goes(s, "reserve") /\ GoesOn
       \/ Done(s, "ok")
    /\ UNCHANGED <<cand, own, then, lock, reserved, timeVars,
                   netVars, workerVars, faults>>

\* The head of reserve()'s loop.
Reserve(s) ==
    /\ at[s] = "reserve"
    /\ IF GuardLive(s) /\ s \notin expired THEN Goes(s, "lock") /\ GoesOn
                         ELSE Done(s, "failed")
    /\ UNCHANGED <<cand, own, then, lock, reserved, timeVars,
                   netVars, workerVars, faults>>

\* One segment at a time probes the nodes nobody of this core uses.
TakeLock(s) ==
    /\ at[s] = "lock" /\ lock[Pool(s)] = None
    /\ LET nodes == Workers \ (reserved[Pool(s)] \cup excluded[s]) IN
       IF nodes = {} /\ excluded[s] = Workers
       THEN Done(s, "failed") /\ UNCHANGED <<cand, lock>>
       ELSE /\ Goes(s, "probe") /\ Tried(s, nodes) /\ GoesOn
            /\ lock' = [lock EXCEPT ![Pool(s)] = s]
    /\ UNCHANGED <<own, then, reserved, timeVars, netVars,
                   workerVars, faults>>

\* Which of them said they were idle: the answers may be lost or stale.
Probed(s) ==
    /\ at[s] = "probe"
    /\ \E idle \in SUBSET cand[s] :
          IF GuardLive(s)
          THEN Goes(s, "pick") /\ Tried(s, idle) /\ GoesOn /\ UNCHANGED lock
          ELSE Done(s, "failed") /\ Unlock(s) /\ Tried(s, {})
    /\ UNCHANGED <<own, then, reserved, timeVars, netVars,
                   workerVars, faults>>

Forgotten(a) == /\ wire[a] = << >> /\ \A s \in Segments : own[s] # a
                /\ \A w \in Workers : job[w] # a

\* A cancel request under the attempt's own identity, when connected.
SendsCancel(s, a) ==
    /\ wire' = IF up[Pool(s)] THEN [wire EXCEPT ![a] = Append(@, Asks("cancel", 0))] ELSE wire
    /\ answer' = [answer EXCEPT ![a] = Silent]

\* The next candidate is asked to admit a new attempt, even when the guard
\* has failed since.
Pick(s) ==
    /\ at[s] = "pick"
    /\ \/ /\ cand[s] = {} /\ Unlock(s) /\ Goes(s, "reserve")
          /\ UNCHANGED <<own, broken, netVars>>
       \/ \E a \in Attempts :
             /\ a.seg = s /\ a.node \in cand[s] /\ Forgotten(a)
             /\ own' = [own EXCEPT ![s] = a] /\ broken' = broken \ {s}
             /\ IF up[Pool(s)] /\ s \notin expired
                THEN /\ wire' = [wire EXCEPT ![a] = <<Asks("admit", 0)>>]
                     /\ answer' = [answer EXCEPT ![a] = Silent] /\ Goes(s, "admit")
                ELSE SendsCancel(s, a) /\ Goes(s, "refuse")
             /\ UNCHANGED lock
    /\ UNCHANGED <<result, excluded, cand, got, then, reserved, home,
                   expired, lost, up, workerVars, faults>>

\* No answer in time: because a message was lost, or it is only late.
TimesOut(s, op) ==
    /\ answer[own[s]].op # op
    /\ IF \E i \in DOMAIN wire[own[s]] : wire[own[s]][i].op = op
       THEN Fault ELSE UNCHANGED faults

Answered(s, op) == answer[own[s]].op = op /\ UNCHANGED faults

\* Admitted, or not: then whatever the worker did is cancelled first.
AdmitReturns(s) ==
    /\ at[s] = "admit"
    /\ \/ /\ Answered(s, "admit") /\ AttemptLive(s) /\ answer[own[s]].state = "admitted"
          /\ reserved' = [reserved EXCEPT ![Pool(s)] = @ \cup {Node(s)}]
          /\ Goes(s, "fetch") /\ Unlock(s) /\ Tried(s, {})
          /\ answer' = [answer EXCEPT ![own[s]] = Silent] /\ UNCHANGED wire
       \/ /\ \/ TimesOut(s, "admit")
             \/ Answered(s, "admit") /\ (answer[own[s]].state # "admitted" \/ ~AttemptLive(s))
          /\ SendsCancel(s, own[s]) /\ Goes(s, "refuse")
          /\ UNCHANGED <<reserved, lock, cand>>
    /\ UNCHANGED <<result, excluded, got, own, then, timeVars, workerVars>>

Refused(s) ==
    /\ at[s] = "refuse" /\ (TimesOut(s, "cancel") \/ Answered(s, "cancel"))
    /\ own' = [own EXCEPT ![s] = NoAttempt]
    /\ IF then[s] = "cancel"
       THEN Done(s, "cancelled") /\ Unlock(s) /\ Tried(s, {})
       ELSE /\ Goes(s, "pick") /\ Tried(s, cand[s] \ {Node(s)}) /\ GoesOn
            /\ UNCHANGED lock
    /\ then' = [then EXCEPT ![s] = None]
    /\ UNCHANGED <<reserved, timeVars, netVars, workerVars>>

\* The attempt is given back, with a cancel that nobody depends on.
GivesBack(s, next) ==
    /\ Goes(s, "release") /\ then' = [then EXCEPT ![s] = next]
    /\ excluded' = IF next = "retry" THEN [excluded EXCEPT ![s] = @ \cup {Node(s)}]
                                     ELSE excluded
    /\ got' = [got EXCEPT ![s] = 0] /\ SendsCancel(s, own[s])

\* fetch(): poll from the present offset.
Fetch(s) ==
    /\ at[s] = "fetch"
    /\ IF AttemptLive(s)
       THEN /\ wire' = [wire EXCEPT ![own[s]] = Append(@, Asks("poll", got[s]))]
            /\ Goes(s, "poll") /\ UNCHANGED <<then, excluded, got, answer>>
       ELSE GivesBack(s, "retry")
    /\ UNCHANGED <<result, cand, own, lock, reserved, timeVars,
                   workerVars, faults>>

PollReturns(s) ==
    /\ at[s] = "poll"
    /\ LET state == answer[own[s]].state IN
       \/ /\ Answered(s, "poll") /\ AttemptLive(s) /\ state = "pending" /\ got[s] = 0
          /\ Goes(s, "fetch") /\ answer' = [answer EXCEPT ![own[s]] = Silent]
          /\ UNCHANGED <<got, then, excluded, wire>>
       \/ /\ Answered(s, "poll") /\ AttemptLive(s) /\ state = "audio"
          /\ IF got[s] + 1 = Chunks THEN GivesBack(s, "ok")
             ELSE /\ Goes(s, "fetch") /\ got' = [got EXCEPT ![s] = @ + 1]
                  /\ answer' = [answer EXCEPT ![own[s]] = Silent]
                  /\ UNCHANGED <<then, excluded, wire>>
       \/ /\ \/ TimesOut(s, "poll")
             \/ /\ Answered(s, "poll")
                /\ ~AttemptLive(s) \/ state = "error" \/ (state = "pending" /\ got[s] > 0)
          /\ GivesBack(s, "retry")
    /\ UNCHANGED <<result, cand, own, lock, reserved, timeVars, workerVars>>

\* release() returned: the node is free for the core's other segments.
FreesNode(s) ==
    /\ reserved' = [reserved EXCEPT ![Pool(s)] = @ \ {Node(s)}]
    /\ own' = [own EXCEPT ![s] = NoAttempt]

Released(s) ==
    /\ at[s] = "release" /\ (TimesOut(s, "cancel") \/ Answered(s, "cancel"))
    /\ FreesNode(s)
    /\ \/ then[s] = "ok" /\ Done(s, "ok")
       \/ then[s] = "cancel" /\ Done(s, "cancelled")
       \/ then[s] = "retry" /\ Goes(s, "reserve") /\ GoesOn
    /\ then' = [then EXCEPT ![s] = None]
    /\ UNCHANGED <<cand, lock, timeVars, netVars, workerVars>>

\* The turn is closed: generate() is cancelled where it waits.
Cancelled(s) ==
    /\ \/ /\ at[s] \in {"reserve", "lock"} /\ Done(s, "cancelled")
          /\ UNCHANGED <<cand, lock, reserved, own, then, netVars>>
       \/ /\ at[s] = "probe" /\ Done(s, "cancelled") /\ Unlock(s) /\ Tried(s, {})
          /\ UNCHANGED <<reserved, own, then, netVars>>
       \/ /\ at[s] = "admit" /\ Goes(s, "refuse") /\ SendsCancel(s, own[s])
          /\ then' = [then EXCEPT ![s] = "cancel"] /\ GoesOn
          /\ UNCHANGED <<cand, lock, reserved, own>>
       \/ /\ at[s] = "refuse" /\ Done(s, "cancelled") /\ Unlock(s) /\ Tried(s, {})
          /\ own' = [own EXCEPT ![s] = NoAttempt] /\ then' = [then EXCEPT ![s] = None]
          /\ UNCHANGED <<reserved, netVars>>
       \/ /\ at[s] \in {"fetch", "poll"} /\ GivesBack(s, "cancel")
          /\ UNCHANGED <<result, cand, lock, reserved, own>>
       \/ /\ at[s] = "release" /\ Done(s, "cancelled") /\ FreesNode(s)
          /\ then' = [then EXCEPT ![s] = None]
          /\ UNCHANGED <<cand, lock, netVars>>
    /\ UNCHANGED <<timeVars, workerVars, faults>>

-----------------------------------------------------------------------------
(* The worker: TTSService.                                                 *)

\* An answer only reaches a core that still waits for it.
Answers(a, op, state) ==
    answer' = IF \E s \in Segments : own[s] = a
              THEN [answer EXCEPT ![a] = [op |-> op, state |-> state]] ELSE answer

\* Variant: a job is told by its segment index alone, not by job id and core
OwnedBySegment(w, a) == job[w] # NoAttempt

Owned(w, a) == job[w] = a

WorkerApart == UNCHANGED <<coreVars, timeVars, stopping, faults>>

\* receive(): admission takes the only slot before anything is published.
ReceiveAdmit(a) ==
    /\ wire[a] # << >> /\ Head(wire[a]).op = "admit"
    /\ wire' = [wire EXCEPT ![a] = Tail(@)]
    /\ LET w == a.node IN
       \/ Answers(a, "admit", "error") /\ UNCHANGED <<job, phase, offset>>
       \/ /\ job[w] = NoAttempt /\ w \notin stopping /\ a.seg \notin expired
          /\ job' = [job EXCEPT ![w] = a] /\ phase' = [phase EXCEPT ![w] = "new"]
          /\ offset' = [offset EXCEPT ![w] = 0] /\ Answers(a, "admit", "admitted")
    /\ WorkerApart /\ UNCHANGED <<native, cancel>>

\* A cancel of the attempt that has the slot; behind the deadline none is obeyed.
ReceiveCancel(a) ==
    /\ wire[a] # << >> /\ Head(wire[a]).op = "cancel"
    /\ wire' = [wire EXCEPT ![a] = Tail(@)]
    /\ LET w == a.node IN
       IF Owned(w, a) /\ a.seg \notin expired
       THEN cancel' = cancel \cup {w} /\ Answers(a, "cancel", "released")
       ELSE Answers(a, "cancel", "error") /\ UNCHANGED cancel
    /\ WorkerApart /\ UNCHANGED <<job, phase, offset, native>>

ReceivePoll(a) ==
    /\ wire[a] # << >> /\ Head(wire[a]).op = "poll"
    /\ wire' = [wire EXCEPT ![a] = Tail(@)]
    /\ LET w == a.node IN
       IF ~Owned(w, a) \/ a.seg \in expired \/ phase[w] = "error"
       THEN Answers(a, "poll", "error") /\ UNCHANGED offset
       ELSE IF phase[w] # "ready" THEN Answers(a, "poll", "pending") /\ UNCHANGED offset
       ELSE IF Head(wire[a]).off # offset[w] \/ offset[w] >= Chunks
       THEN Answers(a, "poll", "error") /\ UNCHANGED offset
       ELSE offset' = [offset EXCEPT ![w] = @ + 1] /\ Answers(a, "poll", "audio")
    /\ WorkerApart /\ UNCHANGED <<job, phase, native, cancel>>

JobApart == UNCHANGED <<coreVars, timeVars, netVars, offset, stopping>>
Phase(w, p) == phase' = [phase EXCEPT ![w] = p]
FreesSlot(w) == job' = [job EXCEPT ![w] = NoAttempt] /\ Phase(w, None)

\* execute() begins: a native thread of its own.
JobStarts(w) ==
    /\ phase[w] = "new" /\ w \notin cancel
    /\ Phase(w, "native") /\ native' = [native EXCEPT ![w] = TRUE]
    /\ JobApart /\ UNCHANGED <<job, cancel, faults>>

\* finished(): cancelled before execute() had its first turn.
NeverStarted(w) ==
    /\ phase[w] = "new" /\ w \in cancel
    /\ FreesSlot(w) /\ cancel' = cancel \ {w}
    /\ JobApart /\ UNCHANGED <<native, faults>>

\* The engine returns, or fails and is tried again or given up.
NativeEnds(w) ==
    /\ native[w]
    /\ \/ /\ native' = [native EXCEPT ![w] = FALSE]
          /\ IF phase[w] = "native" /\ w \notin cancel THEN Phase(w, "ready")
                                                       ELSE UNCHANGED phase
          /\ UNCHANGED faults
       \/ /\ phase[w] = "native" /\ w \notin cancel /\ Fault
          /\ \/ native' = [native EXCEPT ![w] = FALSE] /\ Phase(w, "error")
             \/ UNCHANGED <<native, phase>>
    /\ JobApart /\ UNCHANGED <<job, cancel>>

JobCancelled(w) ==
    /\ w \in cancel /\ phase[w] \in {"native", "ready", "error", "join"}
    /\ cancel' = cancel \ {w} /\ Phase(w, "join")
    /\ JobApart /\ UNCHANGED <<job, native, faults>>

\* The slot is free only when the thread has been joined, however often the
\* task is cancelled meanwhile.
Joined(w) ==
    /\ phase[w] = "join" /\ ~native[w]
    /\ FreesSlot(w) /\ cancel' = cancel \ {w}
    /\ JobApart /\ UNCHANGED <<native, faults>>

\* A job whose segment has moved on or expired.
Abandoned(w) == /\ job[w] # NoAttempt
                /\ \/ job[w].seg \in expired
                   \/ \A s \in Segments : own[s] # job[w]

\* The watchdog: no request for the lease, the deadline, or disconnected.
Lapses(w) ==
    /\ phase[w] \in {"native", "ready", "error"} /\ w \notin cancel
    /\ cancel' = cancel \cup {w}
    /\ IF Abandoned(w) THEN UNCHANGED faults ELSE Fault
    /\ JobApart /\ UNCHANGED <<job, phase, native>>

\* stop().
WorkerStops(w) ==
    /\ w \notin stopping /\ stopping' = stopping \cup {w} /\ Fault
    /\ cancel' = IF job[w] # NoAttempt THEN cancel \cup {w} ELSE cancel
    /\ UNCHANGED <<coreVars, timeVars, netVars, job, phase, offset, native>>

-----------------------------------------------------------------------------
(* Time and the network.                                                   *)

Apart == UNCHANGED <<home, coreVars, workerVars>>

Expires(s) ==
    /\ at[s] \notin {"idle", "done"} /\ s \notin expired /\ expired' = expired \cup {s}
    /\ Apart /\ UNCHANGED <<lost, broken, up, wire, answer, faults>>

RequestLost(a) ==
    /\ wire[a] # << >> /\ wire' = [wire EXCEPT ![a] = Tail(@)] /\ Fault
    /\ Apart /\ UNCHANGED <<timeVars, answer>>

AnswerLost(a) ==
    /\ answer[a] # Silent /\ answer' = [answer EXCEPT ![a] = Silent] /\ Fault
    /\ Apart /\ UNCHANGED <<timeVars, wire>>

\* WorkerRPC._disconnected() fails the guards and the attempts of the core.
Disconnects(p) ==
    /\ up[p] /\ up' = [up EXCEPT ![p] = FALSE] /\ Fault
    /\ lost' = lost \cup {s \in Segments : Pool(s) = p /\ at[s] \notin {"idle", "done"}}
    /\ broken' = broken \cup {s \in Segments : Pool(s) = p /\ own[s] # NoAttempt}
    /\ Apart /\ UNCHANGED <<expired, wire, answer>>

Reconnects(p) ==
    /\ ~up[p] /\ up' = [up EXCEPT ![p] = TRUE]
    /\ Apart /\ UNCHANGED <<expired, lost, broken, wire, answer, faults>>

-----------------------------------------------------------------------------
CoreStep(s) == \/ Generate(s) \/ Reserve(s) \/ TakeLock(s) \/ Probed(s) \/ Pick(s)
               \/ AdmitReturns(s) \/ Refused(s) \/ Fetch(s) \/ PollReturns(s)
               \/ Released(s)

WorkerStep(w) == \/ JobStarts(w) \/ NeverStarted(w) \/ NativeEnds(w)
                 \/ JobCancelled(w) \/ Joined(w)

Receives(a) == ReceiveAdmit(a) \/ ReceiveCancel(a) \/ ReceivePoll(a)

Next == \/ \E s \in Segments : CoreStep(s) \/ Cancelled(s) \/ Expires(s)
        \/ \E w \in Workers : WorkerStep(w) \/ Lapses(w) \/ WorkerStops(w)
        \/ \E a \in Attempts : Receives(a) \/ RequestLost(a) \/ AnswerLost(a)
        \/ \E p \in Pools : Disconnects(p) \/ Reconnects(p)

(* Coroutines go on, deadlines and leases run out, and the native engine    *)
(* returns; a message is delivered unless it is lost.                       *)
Fairness ==
    /\ \A s \in Segments : WF_vars(CoreStep(s)) /\ WF_vars(Expires(s))
    /\ \A w \in Workers : WF_vars(WorkerStep(w)) /\ WF_vars(Abandoned(w) /\ Lapses(w))
    /\ \A a \in Attempts : WF_vars(Receives(a))

Spec == Init /\ [][Next]_vars
FairSpec == Spec /\ Fairness

-----------------------------------------------------------------------------
(* Properties.                                                             *)

\* A worker's engine runs one synthesis at a time, for the job that has the
\* slot: the slot is never free while the thread of a cancelled job still runs.
OneNative == \A w \in Workers : native[w] => job[w] # NoAttempt /\ phase[w] \in {"native", "join"}

\* Two segments of a core never wait for the same worker, and a node is
\* reserved exactly as long as a segment holds it.
ReservedByHolders ==
    \A p \in Pools :
        LET holders == {s \in Segments : Pool(s) = p /\ at[s] \in {"fetch", "poll", "release"}} IN
        /\ reserved[p] = {Node(s) : s \in holders}
        /\ \A s, t \in holders : Node(s) = Node(t) => s = t

\* The lock belongs to the one segment that probes and asks, and is returned
\* on every way out.
LockOwned ==
    \A s \in Segments : (lock[Pool(s)] = s) <=> at[s] \in {"probe", "pick", "admit", "refuse"}

\* A worker has one job, a node one segment, the lock one holder.
SlotOwned == OneNative /\ ReservedByHolders /\ LockOwned

\* As long as nothing goes wrong no attempt fails: neither the late cancel of
\* another attempt nor a poll that repeats or skips a chunk disturbs a job.
Undisturbed ==
    faults = 0 => \A s \in Segments : s \notin expired => excluded[s] = {}

\* Whoever holds the slot, the node and the lock holds them alone.
SlotUndisturbed == TypeOK /\ SlotOwned /\ Undisturbed

\* Every slot is returned, also when every cancel for it was lost.
SlotFreed == \A w \in Workers : job[w] # NoAttempt ~> job[w] = NoAttempt

\* A segment is always answered for.
SegmentEnds == \A s \in Segments : at[s] = "reserve" ~> at[s] = "done"

\* Slot and segment both come free, whatever is lost between them.
BothFreed == SlotFreed /\ SegmentEnds
=============================================================================
