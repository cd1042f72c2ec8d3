------------------------------ MODULE Maintenance ------------------------------
(***************************************************************************)
(* How a worker is taken out of service: the node controller asks for a    *)
(* pause in a file, the worker's admission loop closes the queues          *)
(* (core/cluster/maintenance.py), its services refuse what still arrives   *)
(* (worker_asr.py, asr_worker.py, llm_worker.py, tts_worker.py,            *)
(* vision_worker.py), and the activity file (core/cluster/activity.py)     *)
(* tells the controller when the node is at rest.                          *)
(*                                                                         *)
(* A kind is a subject with its service.  Queues are the ones that the     *)
(* loop removes; a synthesis subject is the node's own and stays.          *)
(***************************************************************************)
EXTENDS Integers, FiniteSets

CONSTANTS Kinds,
          Queues,    \* kinds subscribed through Admission.subscribe()
          Late,      \* kinds counted by their task, not by their admission
          Asks,      \* bound: requests for a pause
          Faults     \* bound: lost connections, failed rounds, deaths

VARIABLES
    request,    \* the controller's file asks for a pause that has not expired
    asks,
    taken,      \* processes whose report the controller acted on
    instance,   \* the worker's process; Activity.instance
    word,       \* history: how far its word of a pause has come since the request
    report,     \* process that the activity file shows paused and idle: at most one
    flag,       \* admission_paused as Activity.write() has read it: at most one
    pc,         \* Admission.run()
    want,       \* its local, FALSE while nothing reads it
    draining, admitPaused,     \* Activity.draining, Activity.admission_paused
    paused, dirty,             \* Admission.paused, Admission.dirty
    sub,        \* queues whose binding holds a subscription
    pong,       \* the flush under way may still be answered
    connected, routed,  \* the connection; what the server has registered
    wire,       \* queues with a message that is routed to the worker
    cb,         \* the admission callback of each kind
    job,        \* the admitted job of each kind
    faults

control == <<request, asks, taken>>
loop == <<pc, want, draining, admitPaused, paused, dirty, sub, pong>>
file == <<report, flag>>
net == <<connected, routed, wire>>
work == <<cb, job>>
vars == <<control, word, loop, file, net, work, instance, faults>>

(***************************************************************************)
(* TypeOK: types; and a loop at rest that has nothing to take up again has *)
(* brought the queues, the services and what it reports into agreement.    *)
(***************************************************************************)
TypeOK ==
    /\ request \in BOOLEAN /\ asks \in 0..Asks /\ faults \in 0..Faults
    /\ instance \in 0..Faults /\ taken \subseteq 0..Faults
    /\ \A i \in report : i \in 0..Faults /\ report = {i}
    /\ flag \in {{}, {TRUE}, {FALSE}} /\ word \in {"none", "read", "written", "taken"}
    /\ pc \in {"sleep", "decide", "bind", "flush", "settle"}
    /\ {want, draining, admitPaused, paused, dirty, pong, connected} \subseteq BOOLEAN
    /\ sub \subseteq Queues /\ routed \subseteq Queues /\ wire \subseteq Queues
    /\ cb \in [Kinds -> {"none", "called", "replying"}]
    /\ job \in [Kinds -> {"none", "created", "running"}]
    /\ (pc = "sleep" /\ ~dirty) =>
          /\ draining = paused /\ admitPaused = paused
          /\ sub = IF paused THEN {} ELSE Queues

(***************************************************************************)
(* A process that has started: _start() has subscribed everything before   *)
(* the loop reads the request for the first time.                          *)
(***************************************************************************)
Fresh ==
    [pc |-> "sleep", want |-> FALSE, draining |-> FALSE, admitPaused |-> FALSE,
     paused |-> FALSE, dirty |-> FALSE, sub |-> Queues]

Init ==
    /\ request = FALSE /\ asks = 0 /\ taken = {} /\ instance = 0 /\ faults = 0
    /\ word = "none"
    /\ report = {} /\ flag = {}
    /\ pc = Fresh.pc /\ want = Fresh.want /\ draining = Fresh.draining
    /\ admitPaused = Fresh.admitPaused /\ paused = Fresh.paused
    /\ dirty = Fresh.dirty /\ sub = Fresh.sub
    /\ pong = FALSE /\ connected = TRUE /\ routed = {} /\ wire = {}
    /\ cb = [k \in Kinds |-> "none"] /\ job = [k \in Kinds |-> "none"]

(***************************************************************************)
(* The node controller: it asks, acts on a report of a pause at rest, and  *)
(* lets go; a request also expires by itself.                              *)
(***************************************************************************)
Ask ==
    /\ ~request /\ asks < Asks
    /\ request' = TRUE /\ asks' = asks + 1 /\ taken' = {}
    /\ UNCHANGED <<word, loop, file, net, work, instance, faults>>

Take ==
    /\ request /\ ~(report \subseteq taken)
    /\ taken' = taken \union report
    /\ word' = IF word = "written" THEN "taken" ELSE word
    /\ UNCHANGED <<request, asks, loop, file, net, work, instance, faults>>

Withdraw ==
    /\ request /\ request' = FALSE /\ taken' = {} /\ word' = "none"
    /\ UNCHANGED <<asks, loop, file, net, work, instance, faults>>

(***************************************************************************)
(* Admission.run()                                                         *)
(***************************************************************************)
ReadsRequest ==
    /\ pc = "sleep" /\ pc' = "decide" /\ want' = request
    /\ UNCHANGED <<draining, admitPaused, paused, dirty, sub, pong>>
    /\ UNCHANGED <<control, word, file, net, work, instance, faults>>

\* Variant: a round that failed is not taken up again.
MustActOnce == want # paused /\ connected
MustAct == (want # paused \/ dirty) /\ connected

\* Variant: only the queues are closed, the services go on admitting.
Drains == draining
DrainsAs == want

Decides ==
    /\ pc = "decide"
    /\ IF MustAct THEN pc' = "bind" /\ draining' = DrainsAs
                  ELSE pc' = "sleep" /\ UNCHANGED draining
    /\ want' = (MustAct /\ want)
    /\ UNCHANGED <<admitPaused, paused, dirty, sub, pong>>
    /\ UNCHANGED <<control, word, file, net, work, instance, faults>>

Wanted == IF want THEN {} ELSE Queues

Binds(q) ==
    /\ pc = "bind" /\ (q \in sub) # (q \in Wanted)
    /\ sub' = IF want THEN sub \ {q} ELSE sub \union {q}
    /\ UNCHANGED <<pc, want, draining, admitPaused, paused, dirty, pong>>
    /\ UNCHANGED <<control, word, file, net, work, instance, faults>>

BeginsFlush ==
    /\ pc = "bind" /\ sub = Wanted
    /\ pc' = "flush" /\ pong' = TRUE
    /\ UNCHANGED <<want, draining, admitPaused, paused, dirty, sub>>
    /\ UNCHANGED <<control, word, file, net, work, instance, faults>>

(***************************************************************************)
(* The server answers in order: behind the registrations sent before, and  *)
(* behind the messages it had routed before it applied them.               *)
(***************************************************************************)
Answered == connected /\ pong /\ routed = sub /\ wire \subseteq sub

Flushed ==
    /\ pc = "flush" /\ Answered
    /\ pc' = "settle" /\ pong' = FALSE
    /\ UNCHANGED <<want, draining, admitPaused, paused, dirty, sub>>
    /\ UNCHANGED <<control, word, file, net, work, instance, faults>>

\* Variant: a failed round is taken for done.
FailsClean == admitPaused' = FALSE /\ UNCHANGED dirty
Retries == admitPaused' = FALSE /\ dirty' = TRUE

(***************************************************************************)
(* An (un)subscription that fails leaves its subscription as it was.  A    *)
(* flush fails of itself when the connection it waits on was lost.         *)
(***************************************************************************)
RoundFails ==
    /\ pc \in {"bind", "flush"} /\ pc' = "sleep" /\ pong' = FALSE
    /\ IF pc = "flush" /\ ~(connected /\ pong)
          THEN UNCHANGED faults
          ELSE faults < Faults /\ faults' = faults + 1
    /\ Retries /\ want' = FALSE
    /\ UNCHANGED <<draining, paused, sub>>
    /\ UNCHANGED <<control, word, file, net, work, instance>>

(***************************************************************************)
(* The acknowledgement waits for the callbacks.  The tasks they created    *)
(* take their first step before the loop resumes from its flush: the event *)
(* loop runs what is ready in order.                                       *)
(***************************************************************************)
Acknowledges ==
    /\ pc = "settle" /\ pc' = "sleep"
    /\ want => /\ \A q \in Queues : cb[q] = "none"
               /\ \A k \in Kinds : job[k] # "created"
    /\ paused' = want /\ admitPaused' = want /\ dirty' = FALSE
    /\ /\ want' = FALSE
    /\ UNCHANGED <<draining, sub, pong>>
    /\ UNCHANGED <<control, word, file, net, work, instance, faults>>

(***************************************************************************)
(* Admissions.  A message of a removed subscription is dropped by the      *)
(* client; a callback that was called goes on without its subscription,    *)
(* as Admission.subscribe() shields it.                                    *)
(***************************************************************************)
Routes(q) ==
    /\ connected /\ q \in routed /\ q \notin wire
    /\ wire' = wire \union {q}
    /\ UNCHANGED <<connected, routed, control, word, loop, file, work, instance, faults>>

Delivers(q) ==
    /\ q \in wire /\ wire' = wire \ {q}
    /\ IF q \notin sub THEN UNCHANGED cb
       ELSE cb[q] = "none" /\ cb' = [cb EXCEPT ![q] = "called"]
    /\ UNCHANGED <<connected, routed, job, control, word, loop, file, instance, faults>>

\* The way of a message whose subscription stays makes no difference.
Arrives(k) ==
    /\ connected /\ cb[k] = "none" /\ cb' = [cb EXCEPT ![k] = "called"]
    /\ UNCHANGED <<job, control, word, loop, file, net, instance, faults>>

\* Only the answers to a queue's admissions are kept track of (callbacks).
Decided(k) == IF k \in Queues THEN "replying" ELSE "none"

\* A service admits one job; others refuse for reasons that are left open too.
Admits(k) ==
    /\ cb[k] = "called" /\ ~draining /\ job[k] = "none"
    /\ cb' = [cb EXCEPT ![k] = Decided(k)]
    /\ job' = [job EXCEPT ![k] = IF k \in Late THEN "created" ELSE "running"]
    /\ UNCHANGED <<control, word, loop, file, net, instance, faults>>

Refuses(k) ==
    /\ cb[k] = "called" /\ cb' = [cb EXCEPT ![k] = Decided(k)]
    /\ UNCHANGED <<job, control, word, loop, file, net, instance, faults>>

Replies(k) ==
    /\ cb[k] = "replying" /\ cb' = [cb EXCEPT ![k] = "none"]
    /\ UNCHANGED <<job, control, word, loop, file, net, instance, faults>>

Starts(k) ==
    /\ job[k] = "created" /\ job' = [job EXCEPT ![k] = "running"]
    /\ UNCHANGED <<cb, control, word, loop, file, net, instance, faults>>

\* Done, failed or cancelled; a task cancelled before its first step counts nothing.
JobEnds(k) ==
    /\ job[k] # "none" /\ job' = [job EXCEPT ![k] = "none"]
    /\ UNCHANGED <<cb, control, word, loop, file, net, instance, faults>>

(***************************************************************************)
(* Activity.counts: a job counts from its admission or, of a Late kind,    *)
(* from the first step of its task, until that task has cleaned up.        *)
(***************************************************************************)
Idle == \A k \in Kinds : job[k] # "running"

(***************************************************************************)
(* Activity.run(): a thread reads the flag, then the counts.  The flag is  *)
(* the loop's word when the loop is shut and not about to open again.      *)
(***************************************************************************)
Shut == admitPaused /\ (pc # "sleep" => want)

ReadsFlag ==
    /\ flag = {} /\ flag' = {admitPaused}
    /\ word' = IF request /\ word = "none" /\ Shut THEN "read" ELSE word
    /\ UNCHANGED <<report, control, loop, net, work, instance, faults>>

Writes ==
    /\ flag # {} /\ flag' = {}
    /\ report' = {i \in {instance} : TRUE \in flag /\ Idle}
    /\ word' = IF word = "read" THEN "written" ELSE word
    /\ UNCHANGED <<control, loop, net, work, instance, faults>>

(***************************************************************************)
(* The connection, and the process.  The client registers the              *)
(* subscriptions it still has when it reconnects.                          *)
(***************************************************************************)
Registers(q) ==
    /\ connected /\ (q \in routed) # (q \in sub)
    /\ routed' = IF q \in sub THEN routed \union {q} ELSE routed \ {q}
    /\ UNCHANGED <<connected, wire, control, word, loop, file, work, instance, faults>>

Disconnects ==
    /\ connected /\ faults < Faults /\ faults' = faults + 1
    /\ connected' = FALSE /\ routed' = {} /\ wire' = {} /\ pong' = FALSE
    /\ UNCHANGED <<pc, want, draining, admitPaused, paused, dirty, sub>>
    /\ UNCHANGED <<control, word, file, work, instance>>

Reconnects ==
    /\ ~connected /\ connected' = TRUE
    /\ UNCHANGED <<routed, wire, control, word, loop, file, work, instance, faults>>

\* A death leaves the activity file; an orderly stop would remove it.
Dies ==
    /\ faults < Faults /\ faults' = faults + 1 /\ instance' = instance + 1
    /\ word' = "none"
    /\ pc' = Fresh.pc /\ want' = Fresh.want /\ draining' = Fresh.draining
    /\ admitPaused' = Fresh.admitPaused /\ paused' = Fresh.paused
    /\ dirty' = Fresh.dirty /\ sub' = Fresh.sub
    /\ pong' = FALSE /\ flag' = {} /\ connected' = TRUE /\ routed' = {} /\ wire' = {}
    /\ cb' = [k \in Kinds |-> "none"] /\ job' = [k \in Kinds |-> "none"]
    /\ UNCHANGED <<control, report>>

Loop ==
    \/ ReadsRequest \/ Decides \/ BeginsFlush \/ Flushed \/ RoundFails \/ Acknowledges
    \/ \E q \in Queues : Binds(q)

Service(k) == Admits(k) \/ Refuses(k) \/ Replies(k)

Next ==
    \/ Ask \/ Take \/ Withdraw \/ Loop
    \/ ReadsFlag \/ Writes \/ Disconnects \/ Reconnects \/ Dies
    \/ \E q \in Queues : Registers(q) \/ Routes(q) \/ Delivers(q)
    \/ \E k \in Kinds \ Queues : Arrives(k)
    \/ \E k \in Kinds : Service(k) \/ Starts(k) \/ JobEnds(k)

(***************************************************************************)
(* Coroutines and the writer run when they can, jobs have deadlines, the   *)
(* client reconnects for ever, and the server handles what it was sent.    *)
(* Nothing is asked of the controller or of those who send requests.       *)
(***************************************************************************)
Fairness ==
    /\ WF_vars(Loop) /\ WF_vars(ReadsFlag \/ Writes) /\ WF_vars(Reconnects)
    /\ \A q \in Queues : WF_vars(Registers(q)) /\ WF_vars(Delivers(q))
    /\ \A k \in Kinds : /\ WF_vars(Service(k)) /\ WF_vars(Starts(k))
                        /\ WF_vars(JobEnds(k))

Spec == Init /\ [][Next]_vars /\ Fairness

(***************************************************************************)
(* PauseHolds: while the controller holds a node on the word that the      *)
(* process running there gave since it was asked, nothing of it is at      *)
(* work, no admission is being answered, and no request for its queues is  *)
(* sent its way to be lost.  An older word is worth nothing: until a round *)
(* that opens the queues again is over, the report of the last pause       *)
(* stands, and whoever asks again meanwhile reads it.                      *)
(***************************************************************************)
PauseHolds ==
    word = "taken" =>
        /\ instance \in taken
        /\ \A k \in Kinds : job[k] = "none"
        /\ \A q \in Queues : cb[q] = "none" /\ q \notin routed /\ q \notin wire

(***************************************************************************)
(* Acknowledged: whoever goes on asking for a pause is told that the node  *)
(* is at rest, whatever failed on the way.                                 *)
(***************************************************************************)
Acknowledged ==
    request ~> (~request \/ report = {instance})

(***************************************************************************)
(* Resumes: a worker of which no pause is asked any more serves every      *)
(* queue again, also one whose pause or release had half failed.           *)
(***************************************************************************)
Resumes == ~request ~> (request \/ (~draining /\ sub = Queues /\ routed = Queues))

(***************************************************************************)
(* Obeys: what is asked for is done in the end, both ways.                 *)
(***************************************************************************)
Obeys == Acknowledged /\ Resumes
=============================================================================
