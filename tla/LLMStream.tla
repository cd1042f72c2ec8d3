----------------------------- MODULE LLMStream ------------------------------
(***************************************************************************)
(* One language model answer, streamed from a worker to the core that asked *)
(* for it: LLMStreamClient.run() and LLMWorker's admission, job and         *)
(* cancellation, over Core NATS, which delivers in order, at most once.     *)
(* The queue group hands a request to one worker, and workers share only    *)
(* the cancellation broadcast: one worker stands for all. A chunk is its    *)
(* number; what provider and tools compute is left out.                     *)
(***************************************************************************)
EXTENDS Integers, Sequences, FiniteSets

CONSTANTS
    Requests,
    MaxJobs,         \* MAX_JOBS
    MaxChunks,       \* MAX_CHUNKS, and MAX_TEXT_BYTES in chunks
    MaxCalls,        \* MAX_CALLS
    MaxDisconnects   \* bound on lost connections

ASSUME StreamAssumption ==
    /\ MaxJobs \in Nat \ {0} /\ MaxChunks \in Nat \ {0}
    /\ MaxCalls \in Nat /\ MaxDisconnects \in Nat

VARIABLES
    core,        \* the LLMStreamClient of each request
    inbox,       \* its queue of events
    heard,       \* the chunks its consumer accepted
    job,         \* the worker's job for it
    request,     \* its request message
    wire,        \* events on their way to the core's inbox
    reply,       \* the event the core acknowledged last, on its way back
    hint,        \* requests with a cancellation on its way
    tombs,       \* LLMWorker.cancelled
    cancel,      \* jobs with a pending CancelledError
    coreUp, workerUp, stopping, disconnects

net  == <<request, wire, reply, hint>>
link == <<coreUp, workerUp, stopping, disconnects>>
vars == <<core, inbox, heard, job, request, wire, reply, hint, tombs, cancel, coreUp,
          workerUp, stopping, disconnects>>

MaxSeq == MaxChunks + MaxCalls + 1
Event(kind, seq, n) == [kind |-> kind, seq |-> seq, n |-> n]
None   == Event("none", 0, 0)
Events == [kind : {"none", "started", "chunk", "tools", "complete", "error"},
           seq : 0 .. MaxSeq, n : 0 .. MaxChunks]

Jobs == {r \in Requests : job[r].at \in {"new", "event", "think", "calls", "closing"}}

\* One event that waits for its acknowledgment and one error behind it: the
\* client's queue of two never overflows.
QueueSuffices(r) == Len(inbox[r]) + Len(wire[r]) <= 2

\* Requests, events, replies and jobs are those the code can send and store,
\* and the client's queue of two never overflows.
TypeOK ==
    /\ core \in [Requests -> [at : {"idle", "wait", "consume", "tools", "acking", "done"},
                              seq : 0 .. MaxSeq + 1, failed : BOOLEAN, cur : Events,
                              ran : 0 .. MaxCalls, result : {"none", "ok", "failed"}]]
    /\ \A r \in Requests : inbox[r] \in Seq(Events) /\ QueueSuffices(r)
    /\ \A r \in Requests :
          Len(heard[r]) <= MaxChunks /\ heard[r] \in Seq(1 .. MaxChunks)
    /\ job \in [Requests -> [at : {"none", "new", "event", "think", "calls",
                                   "closing", "ended"},
                             seq : 0 .. MaxSeq, sent : Events, made : 0 .. MaxChunks,
                             calls : 0 .. MaxCalls, left : 0 .. MaxCalls,
                             asked : 0 .. MaxCalls, exit : BOOLEAN]]
    /\ request \in [Requests -> {"unsent", "sent", "gone"}]
    /\ \A r \in Requests : wire[r] \in Seq(Events)
    /\ reply \in [Requests -> Events]
    /\ hint \subseteq Requests /\ tombs \subseteq Requests /\ cancel \subseteq Requests
    /\ coreUp \in BOOLEAN /\ workerUp \in BOOLEAN /\ stopping \in BOOLEAN
    /\ disconnects \in 0 .. MaxDisconnects

Init ==
    /\ core = [r \in Requests |-> [at |-> "idle", seq |-> 0, failed |-> FALSE,
                 cur |-> None, ran |-> 0, result |-> "none"]]
    /\ inbox = [r \in Requests |-> << >>] /\ heard = [r \in Requests |-> << >>]
    /\ job = [r \in Requests |-> [at |-> "none", seq |-> 0, sent |-> None,
                made |-> 0, calls |-> 0, left |-> 0, asked |-> 0, exit |-> FALSE]]
    /\ request = [r \in Requests |-> "unsent"]
    /\ wire = [r \in Requests |-> << >>] /\ reply = [r \in Requests |-> None]
    /\ hint = {} /\ tombs = {} /\ cancel = {}
    /\ coreUp = TRUE /\ workerUp = TRUE /\ stopping = FALSE /\ disconnects = 0

-----------------------------------------------------------------------------
(* The core: LLMStreamClient.                                              *)

\* require_live().
Live(r) == ~core[r].failed /\ coreUp

\* The finally block: closed, and a cancellation for whoever has the job,
\* also behind a success.
Ends(r, result) ==
    /\ core' = [core EXCEPT ![r].at = "done", ![r].result = result,
                            ![r].cur = None]
    /\ inbox' = [inbox EXCEPT ![r] = << >>]
    /\ hint' = IF coreUp THEN hint \cup {r} ELSE hint

\* Subscribed to its inbox, the core publishes the request.
Open(r) ==
    /\ core[r].at = "idle"
    /\ IF coreUp
       THEN /\ core' = [core EXCEPT ![r].at = "wait"]
            /\ request' = [request EXCEPT ![r] = "sent"] /\ UNCHANGED <<inbox, hint>>
       ELSE Ends(r, "failed") /\ UNCHANGED request
    /\ UNCHANGED <<heard, job, wire, reply, tombs, cancel, link>>

\* receive(): the subscription's callback fills a queue of two.
Receive(r) ==
    /\ wire[r] # << >> /\ coreUp
    /\ wire' = [wire EXCEPT ![r] = Tail(@)]
    /\ IF core[r].at = "done" THEN UNCHANGED <<core, inbox>>
       ELSE IF Len(inbox[r]) < 2
       THEN inbox' = [inbox EXCEPT ![r] = Append(@, Head(wire[r]))] /\ UNCHANGED core
       ELSE core' = [core EXCEPT ![r].failed = TRUE] /\ UNCHANGED inbox
    /\ UNCHANGED <<heard, job, request, reply, hint, tombs, cancel, link>>

\* An event may be taken up: next_event() returned it, and it is the next one.
Expected(r) == LET e == Head(inbox[r]) IN
    /\ Live(r) /\ e.seq = core[r].seq /\ e.kind # "error"
    /\ (e.seq = 0) = (e.kind = "started")
    /\ e.kind = "complete" => e.n = Len(heard[r])    \* bytes and digest

Take(r) ==
    /\ core[r].at = "wait" /\ ~core[r].failed /\ inbox[r] # << >>
    /\ LET e == Head(inbox[r]) IN
       IF Expected(r)
       THEN /\ inbox' = [inbox EXCEPT ![r] = Tail(@)]
            /\ core' = [core EXCEPT ![r].cur = e,
                   ![r].ran = IF e.kind = "tools" THEN @ + 1 ELSE @,
                   ![r].at = CASE e.kind = "chunk" -> "consume"
                               [] e.kind = "tools" -> "tools"
                               [] OTHER -> "acking"]
            /\ reply' = IF e.kind \in {"started", "complete"}
                        THEN [reply EXCEPT ![r] = e] ELSE reply
            /\ UNCHANGED hint
       ELSE /\ Ends(r, "failed")
            /\ reply' = IF e.kind = "error" /\ e.seq = core[r].seq /\ Live(r)
                        THEN [reply EXCEPT ![r] = e] ELSE reply
    /\ UNCHANGED <<heard, job, request, wire, tombs, cancel, link>>

\* on_chunk() returned: acknowledge, unless the stream failed meanwhile.
Consume(r) ==
    /\ core[r].at = "consume"
    /\ heard' = [heard EXCEPT ![r] = Append(@, core[r].cur.n)]
    /\ IF Live(r)
       THEN /\ reply' = [reply EXCEPT ![r] = core[r].cur]
            /\ core' = [core EXCEPT ![r].at = "acking"] /\ UNCHANGED <<inbox, hint>>
       ELSE Ends(r, "failed") /\ UNCHANGED reply
    /\ UNCHANGED <<job, request, wire, tombs, cancel, link>>

\* on_tools() returned; its results are the acknowledgment.
ToolsRun(r) ==
    /\ core[r].at = "tools"
    /\ IF Live(r)
       THEN /\ reply' = [reply EXCEPT ![r] = core[r].cur]
            /\ core' = [core EXCEPT ![r].at = "wait", ![r].cur = None,
                            ![r].seq = @ + 1]
            /\ UNCHANGED <<inbox, hint>>
       ELSE Ends(r, "failed") /\ UNCHANGED reply
    /\ UNCHANGED <<heard, job, request, wire, tombs, cancel, link>>

\* The acknowledgment is published: go on, or return the whole text.
Acked(r) ==
    /\ core[r].at = "acking"
    /\ IF ~Live(r) THEN Ends(r, "failed")
       ELSE IF core[r].cur.kind = "complete" THEN Ends(r, "ok")
       ELSE /\ core' = [core EXCEPT ![r].at = "wait", ![r].cur = None, ![r].seq = @ + 1]
            /\ UNCHANGED <<inbox, hint>>
    /\ UNCHANGED <<heard, job, request, wire, reply, tombs, cancel, link>>

\* The failure future, the deadline, a consumer that raises or is too slow,
\* or the turn is aborted: at any await.
GivesUp(r) ==
    /\ core[r].at \in {"wait", "consume", "tools", "acking"}
    /\ Ends(r, "failed")
    /\ UNCHANGED <<heard, job, request, wire, reply, tombs, cancel, link>>

-----------------------------------------------------------------------------
(* The worker: admission and cancellation.                                 *)

\* Variant: cancellations are only for running jobs.
RefusedNoTombs(r) == Cardinality(Jobs) >= MaxJobs

Refused(r) == r \in tombs \/ Cardinality(Jobs) >= MaxJobs

\* _admit(): an error is sent at once and not waited for; "expired" and
\* "revision mismatch" may refuse any request.
Admit(r) ==
    /\ request[r] = "sent" /\ workerUp
    /\ request' = [request EXCEPT ![r] = "gone"]
    /\ \/ /\ stopping /\ UNCHANGED <<job, wire>>
       \/ /\ ~stopping /\ UNCHANGED job
          /\ wire' = [wire EXCEPT ![r] = Append(@, Event("error", 0, 0))]
       \/ /\ ~stopping /\ ~Refused(r) /\ UNCHANGED wire
          /\ job' = [job EXCEPT ![r].at = "new"]
    /\ UNCHANGED <<core, inbox, heard, reply, hint, tombs, cancel, link>>

\* _cancel(): remember it for a request that is still under way.
CancelArrives(r) ==
    /\ r \in hint /\ workerUp
    /\ hint' = hint \ {r} /\ tombs' = tombs \cup {r}
    /\ cancel' = cancel \cup ({r} \cap Jobs)
    /\ UNCHANGED <<core, inbox, heard, job, request, wire, reply, link>>

-----------------------------------------------------------------------------
(* The worker's job: _execute_stream().                                    *)

\* _stream_event(): publish and wait for the acknowledgment.
Sends(r, e) ==
    /\ job' = [job EXCEPT ![r].at = "event", ![r].sent = e]
    /\ wire' = [wire EXCEPT ![r] = Append(@, e)]

At(r, where) == job[r].at = where /\ r \notin cancel
JobApart == UNCHANGED <<core, inbox, heard, request, reply, hint, tombs, cancel, link>>

JobStarts(r) ==
    /\ At(r, "new") /\ Sends(r, Event("started", 0, 0))
    /\ JobApart

\* Variant: the provider goes on before a chunk is acknowledged.
EventAckedUnasked(r) ==
    /\ At(r, "event") /\ (reply[r] = job[r].sent \/ job[r].sent.kind = "chunk")
    /\ LET kind == job[r].sent.kind IN
       \/ /\ kind \in {"complete", "error"}
          /\ job' = [job EXCEPT ![r].at = "closing"]
       \/ /\ kind = "started"
          /\ job' = [job EXCEPT ![r].at = "think", ![r].seq = @ + 1]
       \/ /\ kind = "chunk"
          /\ job' = [job EXCEPT ![r].at = "think", ![r].seq = @ + 1]
       \/ /\ kind = "tools"
          /\ \E exit \in BOOLEAN :
                job' = [job EXCEPT ![r].seq = @ + 1, ![r].exit = exit,
                           ![r].at = IF exit \/ job[r].left = 0 THEN "think" ELSE "calls",
                           ![r].left = IF exit THEN 0 ELSE @]
    /\ UNCHANGED wire /\ JobApart

\* An acknowledgment of exactly the event that waits: only now the worker
\* counts on. The exit tool ends the part it came in.
EventAcked(r) ==
    /\ At(r, "event") /\ reply[r] = job[r].sent
    /\ LET kind == job[r].sent.kind IN
       \/ /\ kind \in {"complete", "error"}
          /\ job' = [job EXCEPT ![r].at = "closing"]
       \/ /\ kind = "started"
          /\ job' = [job EXCEPT ![r].at = "think", ![r].seq = @ + 1]
       \/ /\ kind = "chunk"
          /\ job' = [job EXCEPT ![r].at = "think", ![r].seq = @ + 1]
       \/ /\ kind = "tools"
          /\ \E exit \in BOOLEAN :
                job' = [job EXCEPT ![r].seq = @ + 1, ![r].exit = exit,
                           ![r].at = IF exit \/ job[r].left = 0 THEN "think" ELSE "calls",
                           ![r].left = IF exit THEN 0 ELSE @]
    /\ UNCHANGED wire /\ JobApart

\* No acknowledgment in time, the deadline, or the provider failed: one
\* error event, which is not repeated either.
JobFails(r) ==
    /\ r \notin cancel
    /\ \/ job[r].at = "event" /\ job[r].sent.kind # "error"
       \/ job[r].at \in {"think", "calls"}
    /\ Sends(r, Event("error", job[r].seq, 0))
    /\ JobApart

\* Variant: an error event waits for its acknowledgment for ever.
ErrorUnheardNever(r) ==
    /\ At(r, "event") /\ job[r].sent.kind = "error" /\ reply[r] = job[r].sent
    /\ job' = [job EXCEPT ![r].at = "closing"]
    /\ UNCHANGED wire /\ JobApart

ErrorUnheard(r) ==
    /\ At(r, "event") /\ job[r].sent.kind = "error"
    /\ job' = [job EXCEPT ![r].at = "closing"]
    /\ UNCHANGED wire /\ JobApart

\* Variant: the length of the text is not checked.
ProviderTextUnbounded(r) ==
    /\ At(r, "think") /\ ~(job[r].exit /\ job[r].sent.kind = "chunk")
    /\ LET e == Event("chunk", job[r].seq, job[r].made + 1) IN
       /\ job' = [job EXCEPT ![r].at = "event", ![r].sent = e, ![r].made = @ + 1]
       /\ wire' = [wire EXCEPT ![r] = Append(@, e)]
    /\ JobApart

\* The provider's next part is text (behind an exit tool, the farewell), or
\* more of it than is allowed.
ProviderText(r) ==
    /\ At(r, "think") /\ ~(job[r].exit /\ job[r].sent.kind = "chunk")
    /\ IF job[r].made = MaxChunks
       THEN Sends(r, Event("error", job[r].seq, 0))
       ELSE LET e == Event("chunk", job[r].seq, job[r].made + 1) IN
            /\ job' = [job EXCEPT ![r].at = "event", ![r].sent = e, ![r].made = @ + 1]
            /\ wire' = [wire EXCEPT ![r] = Append(@, e)]
    /\ JobApart

\* The next part is a list of calls, or more of them than are allowed.
ProviderCalls(r) ==
    /\ At(r, "think") /\ ~job[r].exit
    /\ \/ \E n \in 1 .. MaxCalls - job[r].calls :
             /\ job' = [job EXCEPT ![r].at = "calls", ![r].left = n, ![r].calls = @ + n]
             /\ UNCHANGED wire
       \/ Sends(r, Event("error", job[r].seq, 0))
    /\ JobApart

\* The part's calls one after the other: a server tool here, or a device tool.
RunCall(r) ==
    /\ At(r, "calls")
    /\ \/ /\ job' = [job EXCEPT ![r].left = @ - 1,
                                ![r].at = IF job[r].left = 1 THEN "think" ELSE "calls"]
          /\ UNCHANGED wire
       \/ LET e == Event("tools", job[r].seq, 0) IN
          /\ job' = [job EXCEPT ![r].at = "event", ![r].sent = e,
                        ![r].left = @ - 1, ![r].asked = @ + 1]
          /\ wire' = [wire EXCEPT ![r] = Append(@, e)]
    /\ JobApart

\* The provider has no more to say.
ProviderEnds(r) ==
    /\ At(r, "think") /\ (job[r].exit => job[r].sent.kind = "chunk")
    /\ Sends(r, IF job[r].made = 0 THEN Event("error", job[r].seq, 0)
                ELSE Event("complete", job[r].seq, job[r].made))
    /\ JobApart

\* CancelledError; a task that never ran has no finally block, but its
\* done-callback returns the slot as well.
JobCancelled(r) ==
    /\ r \in cancel /\ cancel' = cancel \ {r}
    /\ job' = [job EXCEPT ![r].at = IF @ \in {"new", "closing"} THEN "ended" ELSE "closing"]
    /\ UNCHANGED <<core, inbox, heard, net, tombs, link>>

\* The provider's stream is closed, in four seconds or not at all.
JobCloses(r) ==
    /\ At(r, "closing") /\ job' = [job EXCEPT ![r].at = "ended"]
    /\ UNCHANGED wire /\ JobApart

-----------------------------------------------------------------------------
(* NATS, its callbacks, and the end of the worker.                         *)

NetApart == UNCHANGED <<inbox, heard, job, tombs, stopping>>

\* 503: nobody is subscribed. The message may also just be lost.
RequestLost(r) ==
    /\ request[r] = "sent" /\ request' = [request EXCEPT ![r] = "gone"]
    /\ \/ core' = [core EXCEPT ![r].failed = @ \/ (core[r].at # "done" /\ ~workerUp)]
       \/ UNCHANGED core
    /\ NetApart /\ UNCHANGED <<wire, reply, hint, cancel, coreUp, workerUp, disconnects>>

EventLost(r) ==
    /\ wire[r] # << >> /\ wire' = [wire EXCEPT ![r] = Tail(@)]
    /\ NetApart
    /\ UNCHANGED <<core, request, reply, hint, cancel, coreUp, workerUp, disconnects>>

HintLost(r) ==
    /\ r \in hint /\ hint' = hint \ {r}
    /\ NetApart
    /\ UNCHANGED <<core, request, wire, reply, cancel, coreUp, workerUp, disconnects>>

Disconnect == disconnects < MaxDisconnects /\ disconnects' = disconnects + 1

\* WorkerRPC._disconnected() fails every stream.
CoreDisconnects ==
    /\ coreUp /\ coreUp' = FALSE /\ Disconnect
    /\ core' = [r \in Requests |-> [core[r] EXCEPT
                  !.failed = @ \/ core[r].at \notin {"idle", "done"}]]
    /\ wire' = [r \in Requests |-> << >>]
    /\ NetApart /\ UNCHANGED <<request, reply, hint, cancel, workerUp>>

\* LLMWorker._disconnected() cancels every streaming job.
WorkerDisconnects ==
    /\ workerUp /\ workerUp' = FALSE /\ Disconnect
    /\ cancel' = cancel \cup Jobs
    /\ reply' = [r \in Requests |-> None]
    /\ NetApart /\ UNCHANGED <<core, request, wire, hint, coreUp>>

Reconnect ==
    /\ \/ ~coreUp /\ coreUp' = TRUE /\ UNCHANGED workerUp
       \/ ~workerUp /\ workerUp' = TRUE /\ UNCHANGED coreUp
    /\ NetApart /\ UNCHANGED <<core, net, cancel, disconnects>>

\* _shutdown().
WorkerStops ==
    /\ ~stopping /\ stopping' = TRUE /\ cancel' = cancel \cup Jobs
    /\ UNCHANGED <<core, inbox, heard, job, net, tombs, coreUp, workerUp, disconnects>>

-----------------------------------------------------------------------------
CoreStep(r) == Open(r) \/ Receive(r) \/ Take(r) \/ Consume(r) \/ ToolsRun(r)
                  \/ Acked(r) \/ GivesUp(r)

JobStep(r) == JobStarts(r) \/ EventAcked(r) \/ JobFails(r) \/ ErrorUnheard(r)
                 \/ ProviderText(r) \/ ProviderCalls(r) \/ RunCall(r)
                 \/ ProviderEnds(r) \/ JobCancelled(r) \/ JobCloses(r)

NetStep(r) == Admit(r) \/ CancelArrives(r) \/ RequestLost(r) \/ HintLost(r)
                 \/ EventLost(r)

Next == \/ \E r \in Requests : CoreStep(r) \/ JobStep(r) \/ NetStep(r)
        \/ CoreDisconnects \/ WorkerDisconnects \/ Reconnect \/ WorkerStops

(* Both ends run under deadlines of their own; nothing is asked of the      *)
(* network, which may lose whatever it carries, cancellations included.     *)
Fairness ==
    \A r \in Requests :
        /\ WF_vars(GivesUp(r) \/ Consume(r) \/ ToolsRun(r) \/ Acked(r) \/ Take(r))
        /\ WF_vars(JobStep(r))

Spec == Init /\ [][Next]_vars
FairSpec == Spec /\ Fairness

-----------------------------------------------------------------------------
(* Properties.                                                             *)

\* The caller hears a prefix of the text, chunk by chunk, the provider never
\* runs ahead of it, and only the whole text counts as a success.
Text == INSTANCE TextStream WITH
            made <- [r \in Requests |-> job[r].made],
            outcome <- [r \in Requests |-> core[r].result]
TextSpec == Text!Spec

\* A successful answer rests on every device tool it asked for, each run
\* exactly once; otherwise a tool is run at most as often as it was asked for.
ToolsOnce ==
    \A r \in Requests :
        /\ core[r].ran <= job[r].asked
        /\ core[r].result = "ok" => core[r].ran = job[r].asked

\* A cancellation that overtakes its request is not forgotten.
CancelledNeverRuns ==
    [][\A r \in Requests : r \in tombs /\ job[r].at = "none" => job'[r].at = "none"]_vars

\* A job is released however the core and its messages are lost.
JobReleased == \A r \in Requests : r \in Jobs ~> r \notin Jobs

\* A caller is always told.
CallerTold == \A r \in Requests : core[r].at = "wait" ~> core[r].at = "done"

\* Nothing is done twice or against a cancellation.
NothingTwice == []ToolsOnce /\ CancelledNeverRuns

\* Both ends of a request come to their end, whatever is lost between them.
BothEnd == JobReleased /\ CallerTold
=============================================================================
