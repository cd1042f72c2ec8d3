------------------------------ MODULE CloudConfig ------------------------------
(***************************************************************************)
(* The shared configuration in the Cloud, as each node's control plane     *)
(* edits and follows it (config/google_drive_config.py with its transport, *)
(* core/cluster/config_reconciliation.py), as its conversation core boots  *)
(* from it, and as its soundbank cache follows it                          *)
(* (core/cluster/soundbank_reconciliation.py).                             *)
(*                                                                         *)
(* A configuration is the sequence of the saves it was made by; revision   *)
(* numbers are their count. An upload and a download are part of the step  *)
(* that uses them, because what they name never changes. A read of the     *)
(* manifest is one step: it is repeated unless its ETag stood still.       *)
(***************************************************************************)
EXTENDS Integers, Sequences, FiniteSets

CONSTANTS Nodes,
          Apps,      \* nodes whose conversation core is modelled
          Syncs,     \* nodes whose soundbank cache is modelled
          Hearing,   \* nodes that NATS reaches at all
          Saves,     \* bound: identities of the saves, used in order
          Faults     \* bound: crashes, lost answers, failing disks, restores

ASSUME CloudConfigAssumption ==
    /\ Apps \subseteq Nodes /\ Syncs \subseteq Nodes /\ Hearing \subseteq Nodes
    /\ IsFiniteSet(Nodes) /\ IsFiniteSet(Saves) /\ Faults \in Nat

VARIABLES
    cloud,      \* the configuration that the manifest points to
    etag,       \* the manifest's ETag
    puts,       \* conditional publications on their way, with their answers
    desired,    \* desired_snapshot of each control plane
    known,      \* active_snapshot of each control plane: at most one
    desiredFile,\* desired.json of each node
    activeFile, \* active.json of each node: at most one
    op,         \* the save that holds the node's lock: at most one
    highest,    \* _highest_hint_revision
    pending,    \* _pending_revision; not 0 when the loop has been woken
    app,        \* the conversation core: what it boots, and from where
    bank,       \* SoundbankReconciliation and its ready.json
    faults,     \* faults so far
    told,       \* what the editor of each save was told
    published,  \* history: saves that were published
    ran,        \* history: configurations that each node has served with
    restored    \* history: the Cloud has been set back by its operator

cluster == <<cloud, etag, puts, published, restored>>
control == <<desired, known, op, told>>
news == <<highest, pending>>
vars == <<cluster, control, desiredFile, activeFile, news, app, bank, faults, ran>>

Logs == UNION {[1 .. n -> Saves] : n \in 0 .. Cardinality(Saves)}
Revision(c) == Len(c) + 1

NotBooting == [run |-> <<>>, source |-> "none"]
NoBank == [target |-> {}, work |-> {}, index |-> {}, ready |-> FALSE]

\* Files, memory and services of every node hold what the code can store: only
\* published configurations, one target per service.
TypeOK ==
    /\ cloud \in Logs /\ etag \in Nat
    /\ puts \subseteq [id : Saves, etag : Nat, config : Logs, answer : {"none", "ok", "conflict"}]
    /\ desired \in [Nodes -> Logs] /\ desiredFile \in [Nodes -> Logs]
    /\ known \in [Nodes -> SUBSET Logs] /\ activeFile \in [Nodes -> SUBSET Logs]
    /\ op \in [Nodes -> SUBSET Saves]
    /\ highest \in [Nodes -> Nat] /\ pending \in [Nodes -> Nat]
    /\ app \in [Apps -> [run : Logs, source : {"none", "drive", "active_lkg"}]]
    /\ bank \in [Syncs -> [target : SUBSET Logs, work : SUBSET Logs, index : SUBSET Logs,
                           ready : BOOLEAN]]
    /\ faults \in 0 .. Faults /\ restored \in BOOLEAN
    /\ told \in [Saves -> {"none", "pending", "saved", "conflict", "unknown"}]
    /\ published \subseteq Saves /\ ran \in [Apps -> SUBSET Logs]
    /\ \A n \in Nodes : Cardinality(op[n]) <= 1 /\ Cardinality(activeFile[n]) <= 1

(* A cluster that has been provisioned, behind the first refresh of each   *)
(* control plane. No core has been started yet.                            *)
Init ==
    /\ cloud = <<>> /\ etag = 0 /\ puts = {}
    /\ desired = [n \in Nodes |-> <<>>] /\ desiredFile = desired
    /\ known = [n \in Nodes |-> {}] /\ activeFile = known
    /\ op = [n \in Nodes |-> {}]
    /\ highest = [n \in Nodes |-> 0] /\ pending = highest
    /\ app = [n \in Apps |-> NotBooting] /\ bank = [n \in Syncs |-> NoBank]
    /\ faults = 0 /\ restored = FALSE
    /\ told = [s \in Saves |-> "none"] /\ published = {}
    /\ ran = [n \in Apps |-> {}]

Faulty == faults < Faults /\ faults' = faults + 1

-----------------------------------------------------------------------------
(* Reading the Cloud.                                                      *)

(* The floor of _cloud_snapshot(): neither a lower revision than what is   *)
(* known nor another configuration under its number.                       *)
(* Variant: the number alone is compared.                                  *)
AboveByNumber(c, floor) == \A f \in floor : Revision(c) >= Revision(f)
Above(c, floor) == \A f \in floor : Revision(c) > Revision(f) \/ c = f

(* The snapshot in memory is replaced even if the disk fails.              *)
Writes(n, c) ==
    \/ desiredFile' = [desiredFile EXCEPT ![n] = c] /\ UNCHANGED faults
    \/ Faulty /\ UNCHANGED desiredFile

(* _capture() behind every operation, with the call it leaves to the loop: *)
(* the soundbank follows what is desired; the target it already has is not *)
(* requested again.                                                        *)
Requested(b, c) ==
    IF b.target = {c} THEN b ELSE [b EXCEPT !.target = {c}, !.ready = FALSE]
Captures(n, c) ==
    bank' = [m \in Syncs |-> IF m = n THEN Requested(bank[m], c) ELSE bank[m]]

Adopts(n, c) == desired' = [desired EXCEPT ![n] = c] /\ Captures(n, c) /\ Writes(n, c)

(* ConfigReconciliation._refresh() looks at the core's active.json first.  *)
Newer(n) == {a \in activeFile[n] : \A k \in known[n] : Revision(a) >= Revision(k)}
Seen(n) == IF Newer(n) = {} THEN known[n] ELSE Newer(n)
Refreshes(n) ==
    /\ op[n] = {}
    /\ known' = [known EXCEPT ![n] = Seen(n)]
    /\ Above(cloud, {desired[n]} \cup Seen(n))
    /\ Adopts(n, cloud)

-----------------------------------------------------------------------------
(* Saving: prepare_commit_unlocked() with its refresh, then the candidate  *)
(* and commit_object_unlocked(), under the node's lock.                    *)

Tells(s, answer) == told' = [told EXCEPT ![s] = answer]
(* Variant: without the lock.                                              *)
Unlocked(n) == UNCHANGED <<cloud, etag, published, restored, known, news, activeFile,
                           app, ran>>
Idle(n) == op[n] = {} /\ UNCHANGED <<cloud, etag, published, restored, known, news,
                                     activeFile, app, ran>>
Unused(s) == told[s] = "none" /\ \A t \in Saves : t < s => told[t] # "none"

(* The editor saw this node's snapshot. If the Cloud has gone on since,    *)
(* he is told to look again; otherwise the manifest is replaced, on the    *)
(* condition that it still is the one that was read. (A save that fails    *)
(* before that leaves everything as it was.)                               *)
SaveBegins(n, s) ==
    /\ Idle(n) /\ Unused(s)
    /\ Above(cloud, {desired[n]} \cup known[n])
    /\ Adopts(n, cloud)
    /\ \/ /\ Revision(desired[n]) # Revision(cloud)
          /\ Tells(s, "conflict") /\ UNCHANGED <<op, puts>>
       \/ /\ Revision(desired[n]) = Revision(cloud)
          /\ Tells(s, "pending") /\ op' = [op EXCEPT ![n] = @ \cup {s}]
          /\ puts' = puts \cup
               {[id |-> s, etag |-> etag, config |-> Append(cloud, s), answer |-> "none"]}

(* Google Drive: If-Match.                                                 *)
Matches(p) == p.etag = etag
CloudHandles(p) ==
    /\ p.answer = "none"
    /\ \/ /\ Matches(p)
          /\ cloud' = p.config /\ etag' = etag + 1 /\ published' = published \cup {p.id}
          /\ puts' = (puts \ {p}) \cup {[p EXCEPT !.answer = "ok"]}
       \/ /\ ~Matches(p)
          /\ puts' = (puts \ {p}) \cup {[p EXCEPT !.answer = "conflict"]}
          /\ UNCHANGED <<cloud, etag, published>>
    /\ UNCHANGED <<restored, control, desiredFile, activeFile, news, app, bank, faults, ran>>

(* The save whose answer has come ends.                                    *)
Ends(n, p) ==
    /\ op[n] = {p.id} /\ op' = [op EXCEPT ![n] = {}]
    /\ puts' = puts \ {p}
    /\ UNCHANGED <<cloud, etag, published, restored, known, news, activeFile, app, ran>>

Saved(n, p) ==
    /\ p.answer = "ok" /\ Ends(n, p) /\ Tells(p.id, "saved")
    /\ Adopts(n, p.config)

(* On a 412 the snapshot is refreshed, if that succeeds.                   *)
SaveConflicts(n, p) ==
    /\ p.answer = "conflict" /\ Ends(n, p) /\ Tells(p.id, "conflict")
    /\ \/ Above(cloud, {desired[n]} \cup known[n]) /\ Adopts(n, cloud)
       \/ UNCHANGED <<desired, desiredFile, bank, faults>>

(* No answer in 20 seconds: the request may still be executed.             *)
(* Variant: the editor is told that nothing was saved.                     *)
NoAnswerMeansNo == "conflict"
NoAnswer == "unknown"
SaveUncertain(n, p) ==
    /\ op[n] = {p.id} /\ Faulty
    /\ op' = [op EXCEPT ![n] = {}] /\ Tells(p.id, NoAnswer)
    /\ UNCHANGED <<cluster, desired, known, desiredFile, activeFile, news, app, bank, ran>>

Save(n) ==
    \/ \E s \in Saves : SaveBegins(n, s)
    \/ \E p \in puts : Saved(n, p) \/ SaveConflicts(n, p) \/ SaveUncertain(n, p)

-----------------------------------------------------------------------------
(* Following the Cloud.                                                    *)

(* What NATS may deliver: revisions that were published, any number of     *)
(* times, late or never. _on_hint() drops a revision that is known or was  *)
(* already announced, even if the refresh behind that has failed.          *)
Announced == 2 .. Cardinality(published) + 1
HintArrives(n, r) ==
    /\ r > Revision(desired[n]) /\ r > highest[n]
    /\ highest' = [highest EXCEPT ![n] = r]
    /\ pending' = [pending EXCEPT ![n] = r]
    /\ UNCHANGED <<cluster, control, desiredFile, activeFile, app, bank, faults, ran>>

(* One round of _reconcile_loop(): woken by a hint; at its interval; or    *)
(* woken by _reconnected(), which asks for one more than is known, so that *)
(* the round is always due. The last two are periodic here.                *)
(* Variant: only a hint is followed.                                       *)
DueByHint(n, periodic) == pending[n] > Revision(desired[n])
Due(n, periodic) == periodic \/ pending[n] > Revision(desired[n])
Round(n, periodic) ==
    /\ periodic \/ pending[n] # 0
    /\ pending' = [pending EXCEPT ![n] = 0]
    /\ UNCHANGED <<cluster, op, told, activeFile, highest, app, ran>>
Reconciles(n) == \E periodic \in BOOLEAN :
    /\ Round(n, periodic) /\ Due(n, periodic)
    /\ Refreshes(n)
ReconcileFails(n) == \E periodic \in BOOLEAN :
    /\ Round(n, periodic) /\ op[n] = {}
    /\ known' = [known EXCEPT ![n] = IF Due(n, periodic) THEN Seen(n) ELSE @]
    /\ UNCHANGED <<desired, desiredFile, bank, faults>>

-----------------------------------------------------------------------------
(* The soundbank cache. Of its status only "ready" is kept.                *)

Banks(n) ==
    UNCHANGED <<cluster, control, desiredFile, activeFile, news, app, faults, ran>>
SyncStarts(n) ==
    /\ bank[n].work = {} /\ bank[n].target # {}
    /\ bank' = [bank EXCEPT ![n].work = bank[n].target, ![n].ready = FALSE]
    /\ Banks(n)

Wanted(b) == b.work = b.target

(* The index of a target that has been superseded meanwhile is neither     *)
(* written by the worker thread nor reported by the loop.                  *)
SyncWrites(n) ==
    /\ bank[n].work # {} /\ Wanted(bank[n])
    /\ bank' = [bank EXCEPT ![n].index = bank[n].work]
    /\ Banks(n)
SyncEnds(n) ==
    /\ bank[n].work # {}
    /\ bank[n].index = bank[n].work \/ ~Wanted(bank[n])
    /\ bank' = [bank EXCEPT ![n].work = {},
                            ![n].ready = Wanted(bank[n])]
    /\ Banks(n)
SyncFails(n) ==
    /\ bank[n].work # {}
    /\ bank' = [bank EXCEPT ![n].work = {}]
    /\ Banks(n)

-----------------------------------------------------------------------------
(* The conversation core, a process of its own on the node's files. It     *)
(* uses them while it boots: down and serving are the same here.           *)

Boot(n, run, source) ==
    /\ app[n] = NotBooting /\ op[n] = {}
    /\ app' = [app EXCEPT ![n] = [run |-> run, source |-> source]]
    /\ UNCHANGED <<cluster, control, activeFile, news, bank, ran>>

(* prepare_runtime(): the Cloud's configuration, or the last that ran.     *)
BootsFromDrive(n) ==
    /\ Boot(n, cloud, "drive")
    /\ Above(cloud, {desiredFile[n]} \cup activeFile[n])
    /\ Writes(n, cloud)
LastGood(n) == activeFile[n]
BootsOffline(n) ==
    /\ \E c \in LastGood(n) : Boot(n, c, "active_lkg")
    /\ UNCHANGED <<desiredFile, faults>>

(* mark_applied(), once the server listens.                                *)
Serves(n) ==
    /\ app[n] # NotBooting /\ app' = [app EXCEPT ![n] = NotBooting]
    /\ ran' = [ran EXCEPT ![n] = @ \cup {app[n].run}]
    /\ \/ activeFile' = [activeFile EXCEPT ![n] = {app[n].run}] /\ UNCHANGED faults
       \/ Faulty /\ UNCHANGED activeFile
    /\ UNCHANGED <<cluster, control, desiredFile, news, bank>>

(* It fails to start or dies.                                              *)
AppEnds(n) ==
    /\ app[n] # NotBooting /\ app' = [app EXCEPT ![n] = NotBooting]
    /\ UNCHANGED <<cluster, control, desiredFile, activeFile, news, bank, faults, ran>>

-----------------------------------------------------------------------------
(* Faults.                                                                 *)

(* The control plane dies and starts again: _load_cache().                 *)
ControlPlaneDies(n) ==
    /\ Faulty
    /\ desired' = [desired EXCEPT ![n] = desiredFile[n]]
    /\ known' = [known EXCEPT ![n] = activeFile[n]]
    /\ op' = [op EXCEPT ![n] = {}]
    /\ told' = [s \in Saves |-> IF s \in op[n] THEN "unknown" ELSE told[s]]
    /\ highest' = [highest EXCEPT ![n] = 0] /\ pending' = [pending EXCEPT ![n] = 0]
    /\ bank' = [m \in Syncs |->
          IF m = n THEN [NoBank EXCEPT !.index = bank[m].index] ELSE bank[m]]
    /\ UNCHANGED <<cluster, desiredFile, activeFile, app, ran>>

(* Somebody restores an old manifest in Google Drive.                      *)
CloudRestored ==
    /\ Faulty /\ restored' = TRUE
    /\ \E r \in 0 .. Len(cloud) - 1 : cloud' = SubSeq(cloud, 1, r)
    /\ etag' = etag + 1
    /\ UNCHANGED <<puts, published, control, desiredFile, activeFile, news, app, bank, ran>>

-----------------------------------------------------------------------------
Core(n) == BootsFromDrive(n) \/ BootsOffline(n) \/ Serves(n) \/ AppEnds(n)
Next ==
    \/ \E n \in Nodes :
         \/ Save(n)
         \/ Reconciles(n) \/ ReconcileFails(n) \/ ControlPlaneDies(n)
    \/ \E p \in puts : CloudHandles(p)
    \/ \E n \in Hearing, r \in Announced : HintArrives(n, r)
    \/ \E n \in Syncs : SyncStarts(n) \/ SyncWrites(n) \/ SyncEnds(n) \/ SyncFails(n)
    \/ \E n \in Apps : Core(n)
    \/ CloudRestored

(* Drive answers what it has been sent. A node's refreshes and downloads   *)
(* do not fail forever, and both are repeated at an interval. Hints, the   *)
(* editors and the core owe nothing.                                       *)
Fairness ==
    /\ WF_vars(\E p \in puts : CloudHandles(p))
    /\ \A n \in Nodes :
         /\ WF_vars(\E p \in puts : Saved(n, p) \/ SaveConflicts(n, p))
         /\ SF_vars(Reconciles(n))
    /\ \A n \in Syncs :
         WF_vars(SyncStarts(n)) /\ SF_vars(SyncWrites(n)) /\ WF_vars(SyncEnds(n))

Spec == Init /\ [][Next]_vars /\ Fairness

-----------------------------------------------------------------------------
(* Saves of several nodes form one sequence, none is lost below another,   *)
(* and no editor is told anything false: what was refused as a conflict is *)
(* never published later, whatever was lost on the way (RevisionLedger).     *)
Ledger == INSTANCE RevisionLedger WITH log <- cloud
LedgerSpec == Ledger!Spec

(* A node never goes back: neither its snapshot nor the configuration it   *)
(* falls back on becomes older, or another one under the same revision,    *)
(* even if the Cloud is set back and the control plane restarts. (A control *)
(* plane that could not write its file loses what was not there; and its   *)
(* file may go back, since the core writes it too.)                        *)
Follows(c, before) == c = before \/ Len(c) > Len(before)
NeverBack ==
    [][\A n \in Nodes :
         /\ \A a \in activeFile'[n], b \in activeFile[n] : Follows(a, b)
         /\ desired[n] = desiredFile[n] => Follows(desired'[n], desired[n])]_vars

(* A core that boots without the Cloud boots what this node has served     *)
(* with, never what somebody saved and nobody has run.                     *)
OfflineHasRun ==
    \A n \in Apps : app[n].source = "active_lkg" => app[n].run \in ran[n]

(* A soundbank that reports ready for a configuration has the index of     *)
(* that configuration, whatever it was working on when it was told of it.  *)
ReadyIsCurrent ==
    \A n \in Syncs : bank[n].ready => bank[n].index = bank[n].target

(* Each node goes forward with what is its own: no step takes it back, and *)
(* neither its core nor its soundbank works with what was not meant for it. *)
WorksForward == [](OfflineHasRun /\ ReadyIsCurrent) /\ NeverBack

(* Hints may be lost, refreshes and downloads fail: in the end every node  *)
(* desires what the Cloud has, with its soundbank, unless the Cloud was    *)
(* set back, which the nodes refuse.                                       *)
Converges ==
    <>[](restored \/ /\ \A n \in Nodes : desired[n] = cloud
                     /\ \A n \in Syncs : bank[n].index = {cloud})
=============================================================================
