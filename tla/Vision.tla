-------------------------------- MODULE Vision --------------------------------
(***************************************************************************)
(* A photo: the session's camera calls (core/cluster/device_mcp.py), the   *)
(* device's upload (vision_http.py), which asks a worker (vision_client),  *)
(* and the worker's one job (vision_worker.py).                            *)
(*                                                                         *)
(* Calls are numbered in the order of the session. What the device uploads *)
(* for a call is named by the call; it may come at any time after it. An   *)
(* image is one chunk, and what the client sends is well formed. A job has *)
(* the name of its upload. A cancelled task is resumed by its cancellation *)
(* and by nothing else. A request that is lost is one that stays on its    *)
(* way: nothing makes it arrive.                                           *)
(***************************************************************************)
EXTENDS Integers, Sequences, FiniteSets

CONSTANTS Calls,      \* 1 .. how many
          Questions,  \* numbered in the order in which they first come up
          MaxFaults   \* bound: lost answers, disconnects, shutdowns, aborts

VARIABLES
    question, \* of each call
    phase,    \* of each call
    active,   \* camera_active with its camera_question: the call, or 0
    consumed, busy, closed, generation,
    upload, seen, servedFor, \* uploads: where; generation and call at arrival
    doomed,   \* upload tasks that were cancelled
    known,    \* uploads whose client knows its worker
    text,     \* uploads that have a text
    admits, wire, reply, \* requests to the queue; to the worker; the answer
    jobs, count, \* the worker's jobs, and what it has added to its activity
    task,     \* of each job
    halting,  \* tasks that were cancelled
    late,     \* jobs behind their deadline, or whose worker is disconnected
    stopping, faults

session == <<question, phase, active, consumed, closed, generation>>
uploads == <<busy, upload, seen, servedFor, doomed, known, text>>
net     == <<admits, wire, reply>>
worker  == <<jobs, count, task, halting, late, stopping>>
vars    == <<session, uploads, net, worker, faults>>

Live == {c \in Calls : upload[c] \in {"reading", "admit", "chunk", "finish", "leaving"}}

\* Every upload, job and task is where the code can have it.
TypeOK ==
    /\ question \in [Calls -> Questions \cup {0}] /\ active \in Calls \cup {0}
    /\ phase \in [Calls -> {"new", "open", "closing", "over"}]
    /\ consumed \in BOOLEAN /\ busy \in BOOLEAN /\ closed \in BOOLEAN /\ stopping \in BOOLEAN
    /\ upload \in [Calls -> {"none", "reading", "admit", "chunk", "finish", "leaving",
                             "answered", "failed"}]
    /\ generation \in Nat /\ seen \in [Calls -> Nat] /\ servedFor \in [Calls -> Calls \cup {0}]
    /\ UNION {doomed, known, text, admits, jobs, halting, late} \subseteq Calls
    /\ wire \in [Calls -> Seq({"chunk", "finish", "cancel"})]
    /\ reply \in [Calls -> {"none", "admitted", "chunk", "ok", "error"}]
    /\ count \in Int /\ task \in [Calls -> {"none", "image", "created", "running", "done", "gone"}]
    /\ faults \in 0 .. MaxFaults

Init ==
    /\ question = [c \in Calls |-> 0] /\ phase = [c \in Calls |-> "new"]
    /\ active = 0 /\ consumed = FALSE /\ busy = FALSE /\ closed = FALSE /\ generation = 0
    /\ upload = [c \in Calls |-> "none"] /\ seen = [c \in Calls |-> 0] /\ servedFor = seen
    /\ doomed = {} /\ known = {} /\ text = {}
    /\ admits = {} /\ wire = [c \in Calls |-> <<>>] /\ reply = [c \in Calls |-> "none"]
    /\ jobs = {} /\ count = 0 /\ task = [c \in Calls |-> "none"]
    /\ halting = {} /\ late = {} /\ stopping = FALSE /\ faults = 0

Faulty == faults < MaxFaults /\ faults' = faults + 1

-----------------------------------------------------------------------------
(* The session: calls one after the other, each until its answer, its      *)
(* timeout or the cancellation of its run.                                 *)

CallBegins(c) ==
    /\ phase[c] = "new" /\ ~closed /\ \A d \in Calls : d < c => phase[d] = "over"
    /\ phase' = [phase EXCEPT ![c] = "open"]
    /\ \E q \in {q \in Questions : q <= c} : question' = [question EXCEPT ![c] = q]
    /\ active' = c /\ consumed' = FALSE
    /\ UNCHANGED <<closed, generation, uploads, net, worker, faults>>

(* cancel_vision(), as far as its gather().                                *)
(* Variant: the camera is closed, and its upload goes on.                  *)
ClosesCamera == active' = 0 /\ UNCHANGED doomed
CancelVision == active' = 0 /\ doomed' = doomed \cup Live

CallReturns(c) ==
    /\ phase[c] = "open" /\ phase' = [phase EXCEPT ![c] = "closing"]
    /\ CancelVision
    /\ UNCHANGED <<question, consumed, closed, generation, busy, upload, seen, servedFor,
                   known, text, net, worker, faults>>
CallOver(c) ==
    /\ phase[c] = "closing" /\ doomed \cap Live = {}
    /\ phase' = [phase EXCEPT ![c] = "over"]
    /\ UNCHANGED <<question, active, consumed, closed, generation, uploads, net, worker, faults>>

(* VoiceTurn.abort(), before it cancels the run; close() of a session.     *)
Aborts ==
    /\ ~closed /\ Faulty /\ generation' = generation + 1 /\ CancelVision
    /\ closed' \in BOOLEAN
    /\ UNCHANGED <<question, phase, consumed, busy, upload, seen, servedFor, known, text,
                   net, worker>>

-----------------------------------------------------------------------------
(* upload(): authorized while the camera is open, once per call.           *)

May == active # 0 /\ ~closed
Arrives(c) ==
    /\ phase[c] # "new" /\ upload[c] = "none"
    /\ \/ /\ May /\ ~busy /\ ~consumed
          /\ upload' = [upload EXCEPT ![c] = "reading"]
          /\ busy' = TRUE /\ consumed' = TRUE
          /\ seen' = [seen EXCEPT ![c] = generation]
          /\ servedFor' = [servedFor EXCEPT ![c] = active]
       \/ /\ ~May \/ busy \/ consumed
          /\ upload' = [upload EXCEPT ![c] = "failed"]
          /\ UNCHANGED <<busy, consumed, seen, servedFor>>
    /\ UNCHANGED <<question, phase, active, closed, generation, doomed, known, text,
                   net, worker, faults>>

At(c, step) == upload[c] = step /\ c \notin doomed
Goes(c, step) == upload' = [upload EXCEPT ![c] = step]
Uploads == UNCHANGED <<session, servedFor, worker>>

(* The task ends in every case behind its finally block; what it knew, and *)
(* an answer on its way, is of no use any more.                            *)
Ends(c, outcome) ==
    /\ Goes(c, outcome) /\ busy' = FALSE
    /\ known' = known \ {c} /\ text' = text \ {c} /\ doomed' = doomed \ {c}
    /\ seen' = [seen EXCEPT ![c] = 0] /\ reply' = [reply EXCEPT ![c] = "none"]
Stays == UNCHANGED <<busy, seen, doomed>>

(* The question must be that of the open call.                             *)
Reads(c) ==
    /\ At(c, "reading")
    /\ \/ /\ active # 0 /\ question[c] = question[active]
          /\ Goes(c, "admit") /\ admits' = admits \cup {c}
          /\ Stays /\ UNCHANGED <<known, text, reply>>
       \/ Ends(c, "failed") /\ UNCHANGED admits
    /\ Uploads /\ UNCHANGED <<wire, faults>>

(* explain(): the next request follows the answer to the one before.       *)
Follows(c, now, then) ==
    /\ At(c, now) /\ Goes(c, then) /\ reply' = [reply EXCEPT ![c] = "none"] /\ Stays
Sends(c, op) == wire' = [wire EXCEPT ![c] = Append(@, op)]
GoesOn(c) ==
    /\ \/ /\ reply[c] = "admitted" /\ Follows(c, "admit", "chunk")
          /\ known' = known \cup {c} /\ Sends(c, "chunk") /\ UNCHANGED text
       \/ /\ reply[c] = "chunk" /\ Follows(c, "chunk", "finish")
          /\ Sends(c, "finish") /\ UNCHANGED <<known, text>>
       \/ /\ reply[c] = "ok" /\ Follows(c, "finish", "leaving")
          /\ text' = text \cup {c} /\ UNCHANGED <<wire, known>>
    /\ Uploads /\ UNCHANGED <<admits, faults>>

(* An error, no answer in time, or the cancellation arrives.               *)
GivesUp(c) ==
    /\ upload[c] \in {"reading", "admit", "chunk", "finish"}
    /\ \/ c \notin known /\ Ends(c, "failed")
       \/ /\ c \in known /\ Goes(c, "leaving") /\ Stays
          /\ reply' = [reply EXCEPT ![c] = "none"] /\ UNCHANGED <<known, text>>
    /\ Uploads /\ UNCHANGED <<admits, wire, faults>>

(* The job is cancelled, if its worker is known; what was asked for must   *)
(* still be wanted.                                                        *)
Wanted(c) == c \in text /\ c \notin doomed /\ generation = seen[c] /\ active # 0 /\ ~closed
Leaves(c) ==
    /\ upload[c] = "leaving"
    /\ \/ Sends(c, "cancel") /\ UNCHANGED faults
       \/ Faulty /\ UNCHANGED wire
    /\ Ends(c, IF Wanted(c) THEN "answered" ELSE "failed")
    /\ Uploads /\ UNCHANGED admits

(* The core's connection fails: its owners are cancelled.                  *)
CoreDisconnected ==
    /\ Faulty /\ Live # {} /\ doomed' = doomed \cup Live
    /\ UNCHANGED <<session, busy, upload, seen, servedFor, known, text, net, worker>>

-----------------------------------------------------------------------------
(* The worker.                                                             *)

Works == UNCHANGED <<session, uploads>>
Awaited(c) == upload[c] \in {"admit", "chunk", "finish"}
Answers(c, status) ==
    \/ reply' = [reply EXCEPT ![c] = IF Awaited(c) THEN status ELSE @] /\ UNCHANGED faults
    \/ Faulty /\ UNCHANGED reply

(* release(): whoever comes second finds nothing.                          *)
Releases(c) ==
    /\ jobs' = jobs \ {c} /\ late' = late \ {c}
    /\ count' = IF c \in jobs THEN count - 1 ELSE count

Admits(c) ==
    /\ c \in admits /\ admits' = admits \ {c}
    /\ \/ /\ ~stopping /\ jobs = {}
          /\ \/ /\ jobs' = jobs \cup {c} /\ count' = count + 1
                /\ Answers(c, "admitted")
             \/ Faulty /\ UNCHANGED <<jobs, count, reply>>
       \/ Answers(c, "error") /\ UNCHANGED <<jobs, count>>
    /\ Works /\ UNCHANGED <<wire, task, halting, late, stopping>>

(* receive() of what is sent to this worker, in order.                     *)
Takes(c, op) == wire[c] # <<>> /\ Head(wire[c]) = op /\ wire' = [wire EXCEPT ![c] = Tail(@)]
Runs(c) == task[c] \in {"created", "running"}
Cancels(c) ==
    \/ Runs(c) /\ halting' = halting \cup {c} /\ UNCHANGED <<jobs, late, count>>
    \/ task[c] \in {"none", "image"} /\ Releases(c) /\ UNCHANGED halting
    \/ task[c] = "done" /\ UNCHANGED <<jobs, late, count, halting>>
TargetCancel(c) ==
    /\ Takes(c, "cancel")
    /\ \/ c \in jobs /\ Cancels(c)
       \/ c \notin jobs /\ UNCHANGED <<jobs, late, count, halting>>
    /\ Works /\ UNCHANGED <<admits, reply, task, stopping, faults>>
Deaf(c) == c \notin jobs \/ stopping \/ c \in late \/ task[c] \notin {"none", "image"}
TargetChunk(c) ==
    /\ Takes(c, "chunk")
    /\ \/ Deaf(c) /\ Answers(c, "error") /\ UNCHANGED task
       \/ /\ ~Deaf(c) /\ task' = [task EXCEPT ![c] = "image"]
          /\ Answers(c, "chunk")
    /\ Works /\ UNCHANGED <<admits, jobs, count, halting, late, stopping>>
TargetFinish(c) ==
    /\ Takes(c, "finish")
    /\ \/ Deaf(c) /\ Answers(c, "error") /\ UNCHANGED task
       \/ ~Deaf(c) /\ task' = [task EXCEPT ![c] = "created"] /\ UNCHANGED <<reply, faults>>
    /\ Works /\ UNCHANGED <<admits, jobs, count, halting, late, stopping>>

(* infer(), whose finally block a task that was cancelled before its first *)
(* step never reaches, and the callback behind it.                         *)
Infers(c) ==
    /\ task[c] = "created"
    /\ task' = [task EXCEPT ![c] = IF c \in halting THEN "done" ELSE "running"]
    /\ Works /\ UNCHANGED <<net, jobs, count, halting, late, stopping, faults>>
Inferred(c) ==
    /\ task[c] = "running" /\ task' = [task EXCEPT ![c] = "done"]
    /\ Releases(c)
    /\ \/ c \in halting /\ UNCHANGED <<reply, faults>>
       \/ c \notin halting /\ \E status \in {"ok", "error"} : Answers(c, status)
    /\ Works /\ UNCHANGED <<admits, wire, halting, stopping>>
Finished(c) ==
    /\ task[c] = "done" /\ task' = [task EXCEPT ![c] = "gone"]
    /\ Releases(c) /\ halting' = halting \ {c}
    /\ Works /\ UNCHANGED <<net, stopping, faults>>
Task(c) == Infers(c) \/ Inferred(c) \/ Finished(c)

(* Its deadline, or the worker is disconnected; expire(), four times a     *)
(* second.                                                                 *)
Lapses(c) ==
    /\ c \in jobs \ late /\ late' = late \cup {c}
    /\ Works /\ UNCHANGED <<net, jobs, count, task, halting, stopping, faults>>
(* Variant: it looks after inferences only.                                *)
ExpiresTasks(c) == c \in late /\ Runs(c)
Expired(c) == c \in late
Expires(c) ==
    /\ c \in jobs /\ Expired(c) /\ Cancels(c)
    /\ Works /\ UNCHANGED <<net, task, stopping, faults>>

(* stop(): tasks first, then what is left.                                 *)
Stops ==
    /\ ~stopping /\ Faulty /\ stopping' = TRUE
    /\ halting' = halting \cup {c \in jobs : Runs(c)}
    /\ Works /\ UNCHANGED <<net, jobs, count, task, late>>
StopReleases(c) ==
    /\ stopping /\ c \in jobs /\ \A d \in jobs : ~Runs(d)
    /\ Releases(c)
    /\ Works /\ UNCHANGED <<net, task, halting, stopping, faults>>

-----------------------------------------------------------------------------
Next ==
    \/ Aborts \/ CoreDisconnected \/ Stops
    \/ \E c \in Calls :
         \/ CallBegins(c) \/ CallReturns(c) \/ CallOver(c)
         \/ Arrives(c) \/ Reads(c) \/ GoesOn(c) \/ GivesUp(c) \/ Leaves(c)
         \/ Admits(c) \/ TargetCancel(c) \/ TargetChunk(c) \/ TargetFinish(c) \/ Task(c)
         \/ Lapses(c) \/ Expires(c) \/ StopReleases(c)

Spec == Init /\ [][Next]_vars

(* What the worker owes a job: deadlines pass, the watchdog looks, and     *)
(* inferences end (their provider call is bounded by the deadline).        *)
Watched(c) == Lapses(c) \/ Expires(c)
Fairness == \A c \in Calls : WF_vars(Watched(c)) /\ WF_vars(Task(c))
FairSpec == Spec /\ Fairness

-----------------------------------------------------------------------------
(* A photo that is worked on was taken for the question of the call that   *)
(* is open now; a call gets one of them, and none survives its call, its   *)
(* turn or its session.                                                    *)
Working == Live \ doomed
CameraOwned ==
    /\ Cardinality(Working) <= 1
    /\ \A c \in Working :
         /\ active # 0 /\ servedFor[c] = active
         /\ upload[c] # "reading" => question[c] = question[active]
    /\ \A c, d \in Calls : servedFor[c] # 0 /\ servedFor[c] = servedFor[d] => c = d
    /\ (\A c \in Calls : phase[c] \in {"new", "over"}) => Live = {}

(* The worker's activity counts what it holds, however a job ended, and    *)
(* one inference runs at a time, which is the one that it holds.           *)
JobsCounted ==
    /\ count = Cardinality(jobs) /\ count <= 1
    /\ \A c \in Calls : Runs(c) => c \in jobs

(* Camera and worker belong to one photo, as long as it is wanted.         *)
PhotoOwned == CameraOwned /\ JobsCounted

(* Whatever is lost, and whoever gives up without knowing that he was      *)
(* admitted: the worker is free again.                                     *)
JobFreed == <>[](jobs = {})
=============================================================================
