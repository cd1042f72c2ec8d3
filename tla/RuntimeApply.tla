---------------------------- MODULE RuntimeApply ----------------------------
(***************************************************************************)
(* Applying a saved revision to all nodes.  A control plane coordinates:  *)
(* it prepares every node, stops every core and worker, installs the new  *)
(* bundles, starts every worker, then every core, and on any failure goes *)
(* back the same way (RuntimeApply, runtime_apply.py).  On each node a    *)
(* root agent executes one command at a time, with a journal on disk      *)
(* (Installer, runtime_apply_agent.py).  A control plane or a whole node  *)
(* may fail at any step, a command may be lost, or be given up while the  *)
(* node still works on it; an operator may ask for recovery at any time,  *)
(* at any control plane.                                                  *)
(*                                                                         *)
(* A revision is a number; 0 is a stopped service and Half a set of       *)
(* bundles of which only some have been replaced.                         *)
(***************************************************************************)
EXTENDS Integers, Sequences

CONSTANTS N,          \* nodes, in the sorted order of config.nodes
          MaxRuns,    \* operations started (32-digit identifiers in the code)
          MaxSaves,   \* saves to the Cloud after the first
          MaxFaults,  \* crashes, failed services, lost commands, and saves
          Beside      \* faults that a start beside one at work counts for

ASSUME RuntimeApplyAssumption ==
    /\ N \in Nat \ {0} /\ MaxRuns \in Nat /\ MaxSaves \in Nat
    /\ MaxFaults \in Nat /\ Beside \in Nat

Nodes == 1..N
NoOne == 0
Stopped == 0
Half == -1
Revisions == 1..(2 + MaxSaves)
Terminal == {"complete", "rolled_back"}
Pausing == {"quiesced", "installed", "worker_started", "core_started",
            "restored", "old_worker_started", "old_core_started"}
JournalStates == {"idle", "prepared"} \cup Pausing \cup Terminal

Actions == {"prepare", "quiesce", "install", "worker", "core", "finish",
            "restore", "old_worker", "old_core", "rolled_back"}
Guarded == {"prepare", "install", "worker", "core"}

(* What _run() and _rollback() ask of the nodes, in their order.           *)
Then(way, act) ==
    CASE act = "quiesce" -> IF way = "apply" THEN "install" ELSE "restore"
      [] act = "install" -> "worker"
      [] act = "worker" -> "core"
      [] act = "core" -> "finish"
      [] act = "restore" -> "old_worker"
      [] act = "old_worker" -> "old_core"
      [] act = "old_core" -> "rolled_back"
      [] OTHER -> "end"

VARIABLES
    desired,    \* the revision in the Cloud
    journal,    \* on each node's disk: op, rev, prev, state
    bundle,     \* the revision of the bundles installed on a node, or Half
    worker,     \* the revision each node's worker was started with
    core,       \* the revision each node's core was started with
    accepted,   \* commands each control plane accepted and still guards
    queue,      \* commands waiting for the lock of a node's agent
    busy,       \* the command an agent works on, with the steps left
    task,       \* the background task of each control plane
    job,        \* what each control plane tells of its task
    stale,      \* control planes that look, and another has been at work
    together,   \* history: one went ahead all the same
    runs,       \* operations begun
    faults      \* faults so far

agent == <<journal, bundle, worker, core>>
wire == <<accepted, queue, busy>>
vars == <<desired, journal, bundle, worker, core, accepted, queue, busy,
          task, job, stale, together, runs, faults>>

Idle == [pc |-> "idle", way |-> "none", op |-> 0, rev |-> 0, act |-> "end",
         nodes |-> {}, left |-> {}, got |-> {}, sound |-> TRUE, waits |-> FALSE]
NoCommand == [act |-> "none", op |-> 0, rev |-> 0, from |-> NoOne, left |-> <<>>]

Init ==
    /\ desired = 2
    /\ journal = [n \in Nodes |-> [op |-> 0, rev |-> 0, prev |-> 0, state |-> "idle"]]
    /\ bundle = [n \in Nodes |-> 1]
    /\ worker = [n \in Nodes |-> 1]
    /\ core = [n \in Nodes |-> 1]
    /\ accepted = [n \in Nodes |-> <<>>]
    /\ queue = [n \in Nodes |-> <<>>]
    /\ busy = [n \in Nodes |-> NoCommand]
    /\ task = [c \in Nodes |-> Idle]
    /\ job = [c \in Nodes |-> "idle"]
    /\ stale = {}
    /\ together = FALSE
    /\ runs = 0
    /\ faults = 0

MayBegin == runs < MaxRuns
Faults(k) == faults + k <= MaxFaults /\ faults' = faults + k
Fault == Faults(1)

Serves(n, rev) == worker[n] = rev /\ core[n] = rev
Pending == {n \in Nodes : journal[n].state \notin Terminal \cup {"idle"}}

(***************************************************************************)
(* The answer of a command reaches the task that waits for it; a command  *)
(* whose task has gone or has given up has nobody to tell.                *)
(***************************************************************************)
Confirmed(t, act, n) ==
    [t EXCEPT !.waits = FALSE,
              !.left = IF @ = {n} THEN t.nodes ELSE @ \ {n},
              !.act = IF t.left = {n} THEN Then(t.way, act) ELSE @,
              !.got = IF act = "prepare" THEN @ \cup {n} ELSE @,
              !.sound = @ /\ (act = "finish" => Serves(n, t.rev))]
Failed(t) == [t EXCEPT !.waits = FALSE, !.pc = "failed"]

Tell(from, answer(_)) ==
    task' = IF from = NoOne THEN task ELSE [task EXCEPT ![from] = answer(@)]

-----------------------------------------------------------------------------
(***************************************************************************)
(* The coordinator.                                                        *)
(***************************************************************************)
(* Variant: the job keeps the state it had.                              *)
EndsSilent(c, state) ==
    /\ job' = job
    /\ task' = [task EXCEPT ![c] = Idle]

Ends(c, state) ==
    /\ job' = [job EXCEPT ![c] = state]
    /\ task' = [task EXCEPT ![c] = Idle]

(* phase(): each of the members in turn, and the next action behind them.  *)
Asks(t, way, act, members) ==
    [t EXCEPT !.pc = "working", !.way = way, !.nodes = members, !.left = members,
              !.act = IF members = {} THEN "end" ELSE act]

(* start(), up to its reading of every control plane's job and every node's *)
(* journal.  The answer of one that is at work may be late, which is taken *)
(* for no job; and what is read while another is at work may be stale.     *)
AtWork(c) == task[c].pc \in {"working", "failed"}

Looks(c) ==
    /\ task[c].pc = "idle"
    /\ Pending # {} \/ MayBegin
    /\ task' = [task EXCEPT ![c].pc = "looking", ![c].rev = desired]
    /\ stale' = IF \E d \in Nodes : AtWork(d) THEN stale \cup {c} ELSE stale
    /\ UNCHANGED <<desired, agent, wire, job, together, runs, faults>>

(* start(), behind its reading.                                            *)
Decides(c) ==
    /\ task[c].pc = "looking"
    /\ IF c \in stale THEN Faults(Beside) /\ together' = TRUE ELSE UNCHANGED <<together, faults>>

GoesAhead(c, t) ==
    /\ Decides(c)
    /\ stale' = {d \in Nodes \ {c} : task[d].pc = "looking"}
    /\ job' = [job EXCEPT ![c] = "running"]
    /\ task' = [task EXCEPT ![c] = t]

(* It applies the saved revision, or recovers the one interrupted          *)
(* operation, or refuses.  What is stale may be of different moments.      *)
Applies(c) ==
    /\ MayBegin
    /\ c \in stale \/ (Pending = {} /\ \E n \in Nodes : ~ Serves(n, task[c].rev))
    /\ runs' = runs + 1
    /\ GoesAhead(c, Asks([Idle EXCEPT !.op = runs + 1, !.rev = task[c].rev], "prepare",
                         "prepare", Nodes))
    /\ UNCHANGED <<desired, agent, wire>>

Members(op) == {n \in Nodes : journal[n].op = op}

Recovers(c) ==
    /\ \E n \in Nodes : \E members \in SUBSET Members(journal[n].op) :
        /\ journal[n].op # 0 /\ n \in members
        /\ \/ c \in stale
           \/ n \in Pending /\ Pending \subseteq members /\ members = Members(journal[n].op)
        /\ GoesAhead(c, Asks([Idle EXCEPT !.op = journal[n].op, !.rev = journal[n].rev],
                             "recover", "quiesce", members))
    /\ UNCHANGED <<desired, agent, wire, runs>>

Refuses(c) ==
    /\ task[c].pc = "looking"
    /\ \/ c \in stale
       \/ \E m, n \in Pending : journal[m].op # journal[n].op
       \/ Pending = {} /\ ~ MayBegin /\ \E n \in Nodes : ~ Serves(n, task[c].rev)
    /\ task' = [task EXCEPT ![c] = Idle]
    /\ stale' = stale \ {c}
    /\ UNCHANGED <<desired, agent, wire, job, together, runs, faults>>

AlreadyServes(c) ==
    /\ Decides(c)
    /\ c \in stale \/ (Pending = {} /\ \A n \in Nodes : Serves(n, task[c].rev))
    /\ Ends(c, "complete")
    /\ stale' = stale \ {c}
    /\ UNCHANGED <<desired, agent, wire, runs>>

(* phase() and the loop over prepare: the Cloud is checked before every   *)
(* command of an apply, and never on the way back.                        *)
Checked(t) == t.way \in {"prepare", "apply"} => desired = t.rev

Sends(c) ==
    LET t == task[c]
        command == [act |-> t.act, op |-> t.op, rev |-> t.rev, from |-> c]
    IN  /\ t.pc = "working" /\ ~ t.waits /\ t.act # "end"
        /\ Checked(t)
        /\ task' = [task EXCEPT ![c].waits = TRUE]
        /\ \E n \in t.left :
            /\ \A m \in t.left : n <= m
            /\ IF t.act \in Guarded
               THEN accepted' = [accepted EXCEPT ![n] = Append(@, command)] /\ UNCHANGED queue
               ELSE queue' = [queue EXCEPT ![n] = Append(@, command)] /\ UNCHANGED accepted
        /\ UNCHANGED <<desired, agent, busy, job, stale, together, runs, faults>>

Drifts(c) ==
    /\ task[c].pc = "working" /\ ~ task[c].waits /\ task[c].act # "end"
    /\ ~ Checked(task[c])
    /\ task' = [task EXCEPT ![c] = Failed(@)]
    /\ UNCHANGED <<desired, agent, wire, job, stale, together, runs, faults>>

(* Every candidate is valid: only now may a runtime change.  The voices   *)
(* of the candidates may turn out to differ.                              *)
Agrees(c) ==
    /\ task[c].pc = "working" /\ task[c].way = "prepare" /\ task[c].act = "end"
    /\ task' = [task EXCEPT ![c] = Asks(@, "apply", "quiesce", Nodes)]
    /\ UNCHANGED <<desired, agent, wire, job, stale, together, runs, faults>>

VoicesDiffer(c) ==
    /\ task[c].pc = "working" /\ task[c].way = "prepare" /\ task[c].act = "end"
    /\ Fault
    /\ task' = [task EXCEPT ![c] = Failed(@)]
    /\ UNCHANGED <<desired, agent, wire, job, stale, together, runs>>

Completes(c) ==
    /\ task[c].pc = "working" /\ task[c].way = "apply" /\ task[c].act = "end"
    /\ IF task[c].sound THEN Ends(c, "complete")
       ELSE task' = [task EXCEPT ![c] = Failed(@)] /\ UNCHANGED job
    /\ UNCHANGED <<desired, agent, wire, stale, together, runs, faults>>

IsBack(c) ==
    /\ task[c].pc = "working" /\ task[c].way \in {"back", "recover"} /\ task[c].act = "end"
    /\ Ends(c, IF task[c].way = "recover" THEN "rolled_back" ELSE "failed")
    /\ UNCHANGED <<desired, agent, wire, stale, together, runs, faults>>

(* The handler of a failed run asks every node whether this operation     *)
(* holds its journal, and goes back on those that say so.                 *)
GoesBack(c) ==
    LET t == task[c]
        held == {n \in Nodes : journal[n].op = t.op}
    IN  /\ t.pc = "failed" /\ t.way \in {"prepare", "apply"}
        /\ \E unreachable \in SUBSET (held \ t.got) :
            LET members == t.got \cup (held \ unreachable)
            IN  /\ IF unreachable = {} THEN UNCHANGED faults ELSE Fault
                /\ task' = [task EXCEPT ![c] =
                       Asks(@, "back", IF t.way = "apply" THEN "quiesce" ELSE "rolled_back",
                            members)]
        /\ UNCHANGED <<desired, agent, wire, job, stale, together, runs>>

NeedsRecovery(c) ==
    /\ task[c].pc = "failed" /\ task[c].way \in {"back", "recover"}
    /\ Ends(c, "recovery_required")
    /\ UNCHANGED <<desired, agent, wire, stale, together, runs, faults>>

(* A command is lost, or times out while the node still has it: then it   *)
(* goes on, and has nobody to tell.                                        *)
Orphan(c, r) == IF r.from = c THEN [r EXCEPT !.from = NoOne] ELSE r
Disown(c, guarded, waiting, working) ==
    /\ accepted' = [n \in Nodes |-> [i \in DOMAIN guarded[n] |-> Orphan(c, guarded[n][i])]]
    /\ queue' = [n \in Nodes |-> [i \in DOMAIN waiting[n] |-> Orphan(c, waiting[n][i])]]
    /\ busy' = [n \in Nodes |-> Orphan(c, working[n])]

Without(s, i) == [k \in 1..(Len(s) - 1) |-> IF k < i THEN s[k] ELSE s[k + 1]]

GivesUp(c) ==
    /\ task[c].waits /\ Fault
    /\ Disown(c, accepted, queue, busy)
    /\ task' = [task EXCEPT ![c] = Failed(@)]
    /\ UNCHANGED <<desired, agent, job, stale, together, runs>>

CommandLost(c) ==
    /\ task[c].waits /\ Fault
    /\ \E n \in Nodes :
        \/ /\ \E i \in DOMAIN accepted[n] :
                 /\ accepted[n][i].from = c
                 /\ accepted' = [accepted EXCEPT ![n] = Without(@, i)]
           /\ UNCHANGED queue
        \/ /\ \E i \in DOMAIN queue[n] :
                 /\ queue[n][i].from = c
                 /\ queue' = [queue EXCEPT ![n] = Without(@, i)]
           /\ UNCHANGED accepted
    /\ task' = [task EXCEPT ![c] = Failed(@)]
    /\ UNCHANGED <<desired, agent, busy, job, stale, together, runs>>
-----------------------------------------------------------------------------
(***************************************************************************)
(* The control plane of a node as the receiver of a command, and the agent. *)
(***************************************************************************)
(* receive() confirms the revision with the Cloud, one command after       *)
(* another, and hands the command on.                                      *)
Guards(n) ==
    LET r == Head(accepted[n])
    IN  /\ accepted[n] # <<>>
        /\ accepted' = [accepted EXCEPT ![n] = Tail(@)]
        /\ IF desired = r.rev
           THEN queue' = [queue EXCEPT ![n] = Append(@, r)] /\ UNCHANGED task
           ELSE Tell(r.from, Failed) /\ UNCHANGED queue
        /\ UNCHANGED <<desired, agent, busy, job, stale, together, runs, faults>>

(* dispatch(): what a command demands of the journal, and what it does.    *)
Phases(act) ==
    CASE act \in {"install", "restore"} -> {"quiesced"}
      [] act = "worker" -> {"installed"}
      [] act = "old_worker" -> {"restored"}
      [] act = "core" -> {"worker_started"}
      [] act = "old_core" -> {"old_worker_started"}
      [] act = "finish" -> {"core_started", "complete"}
      [] act = "rolled_back" -> {"prepared", "old_core_started", "rolled_back"}
      [] OTHER -> JournalStates

Holds(n, r) == journal[n].op = r.op /\ journal[n].rev = r.rev

(* A new operation takes the journal of a node that is done with the last  *)
(* one and serves what its bundles say, which may not be newer.            *)
Takes(n, r) ==
    /\ r.act = "prepare" /\ journal[n].op # r.op
    /\ journal[n].state \in Terminal \cup {"idle"}
    /\ Serves(n, bundle[n]) /\ bundle[n] \in 1..r.rev

(* Variant: a node can be stopped only once.                             *)
DemandsFresh(n, r) ==
    \/ Takes(n, r)
    \/ Holds(n, r) /\ journal[n].state \in Phases(r.act)
         /\ (r.act = "quiesce" => journal[n].state = "prepared")

Demands(n, r) ==
    \/ Takes(n, r)
    \/ Holds(n, r) /\ journal[n].state \in Phases(r.act)

Does(act) ==
    CASE act = "prepare" -> <<"prepare">>
      [] act = "quiesce" -> <<"save", "stop_core", "stop_worker">>
      [] act = "install" -> <<"break", "write_new", "save">>
      [] act = "restore" -> <<"break", "write_old", "save">>
      [] act \in {"worker", "old_worker"} -> <<"start_worker", "save">>
      [] act \in {"core", "old_core"} -> <<"start_core", "save">>
      [] OTHER -> <<"save">>

Reached(act) ==
    CASE act = "quiesce" -> "quiesced"
      [] act = "install" -> "installed"
      [] act = "restore" -> "restored"
      [] act = "worker" -> "worker_started"
      [] act = "core" -> "core_started"
      [] act = "old_worker" -> "old_worker_started"
      [] act = "old_core" -> "old_core_started"
      [] act = "finish" -> "complete"
      [] OTHER -> "rolled_back"

(* require_revision() reads the node's cache of the Cloud, which a save    *)
(* may have reached or not.                                                *)
MayDrift(n, r) == r.act \in {"prepare", "install", "core"} /\ desired # r.rev

Begins(n) ==
    LET r == Head(queue[n])
    IN  /\ busy[n] = NoCommand /\ queue[n] # <<>>
        /\ Demands(n, r)
        /\ queue' = [queue EXCEPT ![n] = Tail(@)]
        /\ busy' = [busy EXCEPT ![n] = [act |-> r.act, op |-> r.op, rev |-> r.rev,
                                       from |-> r.from, left |-> Does(r.act)]]
        /\ UNCHANGED <<desired, agent, accepted, task, job, stale, together, runs, faults>>

Rejects(n) ==
    LET r == Head(queue[n])
    IN  /\ busy[n] = NoCommand /\ queue[n] # <<>>
        /\ ~ Demands(n, r) \/ MayDrift(n, r)
        /\ queue' = [queue EXCEPT ![n] = Tail(@)]
        /\ Tell(r.from, Failed)
        /\ UNCHANGED <<desired, agent, accepted, busy, job, stale, together, runs, faults>>

(* The next step of the command an agent is working on.                   *)
Step(n, s) ==
    LET r == busy[n]
        answer(t) == Confirmed(t, r.act, n)
    IN  /\ r.left # <<>> /\ Head(r.left) = s
        /\ IF Len(r.left) = 1
           THEN busy' = [busy EXCEPT ![n] = NoCommand] /\ Tell(r.from, answer)
           ELSE busy' = [busy EXCEPT ![n].left = Tail(@)] /\ UNCHANGED task
        /\ UNCHANGED <<desired, accepted, queue, job, stale, together, runs, faults>>

Prepares(n) ==
    /\ Step(n, "prepare")
    /\ journal' = [journal EXCEPT ![n] =
           IF @.op = busy[n].op THEN @
           ELSE [op |-> busy[n].op, rev |-> busy[n].rev, prev |-> bundle[n],
                 state |-> "prepared"]]
    /\ UNCHANGED <<bundle, worker, core>>

(* wait_ready() stands before the save of a started service.              *)
Expected(n) == IF busy[n].act \in {"worker", "core"} THEN busy[n].rev ELSE journal[n].prev
IsReady(n) ==
    /\ busy[n].act \in {"worker", "old_worker", "core", "old_core"} => worker[n] = Expected(n)
    /\ busy[n].act \in {"core", "old_core"} => core[n] = Expected(n)

Journals(n) ==
    /\ Step(n, "save")
    /\ IsReady(n)
    /\ journal' = [journal EXCEPT ![n].state = Reached(busy[n].act)]
    /\ UNCHANGED <<bundle, worker, core>>

StopsCore(n) ==
    /\ Step(n, "stop_core")
    /\ core' = [core EXCEPT ![n] = Stopped]
    /\ UNCHANGED <<journal, bundle, worker>>

StopsWorker(n) ==
    /\ Step(n, "stop_worker")
    /\ worker' = [worker EXCEPT ![n] = Stopped]
    /\ UNCHANGED <<journal, bundle, core>>

(* install(): five files, each replaced atomically but one after another. *)
Breaks(n) ==
    /\ Step(n, "break")
    /\ bundle' = [bundle EXCEPT ![n] = Half]
    /\ UNCHANGED <<journal, worker, core>>

Writes(n) ==
    /\ \/ Step(n, "write_new") /\ bundle' = [bundle EXCEPT ![n] = busy[n].rev]
       \/ Step(n, "write_old") /\ bundle' = [bundle EXCEPT ![n] = journal[n].prev]
    /\ UNCHANGED <<journal, worker, core>>

Started(running, n) == [running EXCEPT ![n] = IF @ = Stopped THEN bundle[n] ELSE @]

StartsWorker(n) ==
    /\ Step(n, "start_worker")
    /\ worker' = Started(worker, n)
    /\ UNCHANGED <<journal, bundle, core>>

StartsCore(n) ==
    /\ Step(n, "start_core")
    /\ core' = Started(core, n)
    /\ UNCHANGED <<journal, bundle, worker>>

(* A service does not stop or start in time, or is never ready; a bundle  *)
(* is not written; or the agent is restarted: the command ends where it    *)
(* stands.  The journal itself can be written.                             *)
Abandons(n) ==
    /\ busy' = [busy EXCEPT ![n] = NoCommand]
    /\ Tell(busy[n].from, Failed)
    /\ UNCHANGED <<desired, agent, accepted, queue, job, stale, together, runs>>

StepFails(n) ==
    /\ busy[n] # NoCommand
    /\ Head(busy[n].left) = "save" =>
           busy[n].act \in {"worker", "old_worker", "core", "old_core"}
    /\ Fault /\ Abandons(n)

NotReady(n) ==
    /\ busy[n].left # <<>> /\ Head(busy[n].left) = "save" /\ ~ IsReady(n)
    /\ Abandons(n) /\ UNCHANGED faults

-----------------------------------------------------------------------------
(***************************************************************************)
(* The environment: saves, and failures of a control plane or of a node.  *)
(***************************************************************************)
Saves ==
    /\ desired < 2 + MaxSaves /\ Fault
    /\ desired' = desired + 1
    /\ UNCHANGED <<agent, wire, task, job, stale, together, runs>>

(* The task of a control plane is lost with it, and so are the commands   *)
(* it had accepted and not yet handed on.                                 *)
ControlPlaneDies(c) ==
    LET lost == {accepted[c][i].from : i \in DOMAIN accepted[c]}
    IN  /\ Fault
        /\ Disown(c, [accepted EXCEPT ![c] = <<>>], queue, busy)
        /\ task' = [d \in Nodes |-> IF d = c THEN Idle
                       ELSE IF d \in lost THEN Failed(task[d]) ELSE task[d]]
        /\ job' = [job EXCEPT ![c] = "idle"]
        /\ stale' = stale \ {c}
        /\ UNCHANGED <<desired, agent, together, runs>>

(* Variant: a stopped node may boot.                                     *)
MayBootQuiesced(n) == journal[n].state \notin Pausing \ {"quiesced"}

(* boot_guard(): an incomplete transaction keeps the services down.       *)
MayBoot(n) == journal[n].state \notin Pausing

PowerFails(n) ==
    LET lost == {accepted[n][i].from : i \in DOMAIN accepted[n]} \cup {busy[n].from}
                \cup {queue[n][i].from : i \in DOMAIN queue[n]}
    IN  /\ Fault
        /\ Disown(n, [accepted EXCEPT ![n] = <<>>], [queue EXCEPT ![n] = <<>>],
                  [busy EXCEPT ![n] = NoCommand])
        /\ task' = [c \in Nodes |-> IF c = n THEN Idle
                       ELSE IF c \in lost THEN Failed(task[c]) ELSE task[c]]
        /\ job' = [job EXCEPT ![n] = "idle"]
        /\ stale' = stale \ {n}
        /\ worker' = [worker EXCEPT ![n] = IF MayBoot(n) THEN bundle[n] ELSE Stopped]
        /\ core' = [core EXCEPT ![n] = IF MayBoot(n) THEN bundle[n] ELSE Stopped]
        /\ UNCHANGED <<desired, journal, bundle, together, runs>>

-----------------------------------------------------------------------------
Coordinator(c) ==
    \/ Applies(c) \/ Recovers(c) \/ Refuses(c) \/ AlreadyServes(c)
    \/ Sends(c) \/ Drifts(c) \/ Agrees(c) \/ Completes(c) \/ IsBack(c)
    \/ GoesBack(c) \/ NeedsRecovery(c)

Node(n) ==
    \/ Guards(n) \/ Begins(n) \/ Rejects(n)
    \/ Prepares(n) \/ Journals(n) \/ StopsCore(n) \/ StopsWorker(n)
    \/ Breaks(n) \/ Writes(n) \/ StartsWorker(n) \/ StartsCore(n) \/ NotReady(n)

Fails(n) ==
    \/ VoicesDiffer(n) \/ GivesUp(n) \/ CommandLost(n) \/ StepFails(n)
    \/ ControlPlaneDies(n) \/ PowerFails(n)

Next ==
    \/ \E c \in Nodes : Looks(c) \/ Coordinator(c)
    \/ \E n \in Nodes : Node(n)
    \/ \E n \in Nodes : Fails(n)
    \/ Saves

Spec == Init /\ [][Next]_vars

(* Tasks and agents go on; an operator looks again while a transaction is *)
(* incomplete (the control planes never do so by themselves).             *)
FairSpec ==
    /\ Spec
    /\ \A c \in Nodes : /\ WF_vars(Coordinator(c))
                        /\ WF_vars((\A d \in Nodes : ~ AtWork(d)) /\ Pending # {} /\ Looks(c))
    /\ \A n \in Nodes : WF_vars(Node(n))

-----------------------------------------------------------------------------
Suffixes(s) == {SubSeq(s, i, Len(s)) : i \in 1..(Len(s) + 1)}
Commands == [act : Actions, op : 0..MaxRuns, rev : Revisions, from : 0..N]

(* Every variable stays within the states the code can store.             *)
TypeOK ==
    /\ desired \in Revisions
    /\ journal \in [Nodes -> [op : 0..MaxRuns, rev : 0..(2 + MaxSaves),
                              prev : 0..(2 + MaxSaves), state : JournalStates]]
    /\ bundle \in [Nodes -> Revisions \cup {Half}]
    /\ worker \in [Nodes -> Revisions \cup {Half, Stopped}]
    /\ core \in [Nodes -> Revisions \cup {Half, Stopped}]
    /\ accepted \in [Nodes -> Seq(Commands)]
    /\ queue \in [Nodes -> Seq(Commands)]
    /\ busy \in [Nodes -> [act : Actions \cup {"none"}, op : 0..MaxRuns,
                            rev : Revisions \cup {0}, from : 0..N,
                            left : UNION {Suffixes(Does(a)) : a \in Actions}]]
    /\ \A c \in Nodes : /\ task[c].pc \in {"idle", "looking", "working", "failed"}
                        /\ task[c].pc \in {"working", "failed"} <=> job[c] = "running"
    /\ stale \subseteq Nodes
    /\ together \in BOOLEAN
    /\ runs \in 0..MaxRuns
    /\ faults \in 0..MaxFaults

(* "Cores stay stopped until all workers have the same revision": whatever *)
(* fails, no two cores, and no core and worker, ever run on different      *)
(* revisions, on any nodes.                                                *)
OneRuntime ==
    \A m, n \in Nodes :
        core[m] # Stopped => worker[n] \in {Stopped, core[m]} /\ core[n] \in {Stopped, core[m]}

(* No service is ever started from bundles of which only some are          *)
(* replaced, and none would be by a power failure just now.                *)
WholeBundle ==
    \A n \in Nodes : /\ worker[n] # Half /\ core[n] # Half
                     /\ MayBoot(n) => bundle[n] # Half

(* One revision, whole, is all that ever runs.                             *)
OneBundle == WholeBundle /\ (~ together => OneRuntime)

(* A job that tells of success leaves every node serving its revision.     *)
CompleteMeansServing ==
    \A c \in Nodes : job[c] # "complete" /\ job'[c] = "complete"
        => \A n \in Nodes : Serves(n, task[c].rev)

(* Nothing is ever started from bundles of which only some are replaced;   *)
(* and until a start has gone ahead beside another control plane at work,  *)
(* what runs is one revision, wherever a step leads, and who is told of    *)
(* success has it running.  start() refuses beside another only as far as  *)
(* it learns of the other's job.                                           *)
AppliesWhole == [][OneBundle' /\ (~ together' => CompleteMeansServing)]_vars

(* Whatever fails, and however often a start goes ahead beside another     *)
(* within these faults, no transaction stays incomplete, unless two        *)
(* operations are incomplete at once: start() then recovers neither.       *)
TwoPending == \E m, n \in Pending : journal[m].op # journal[n].op
Recovered == <>[](Pending = {} \/ TwoPending)
=============================================================================
