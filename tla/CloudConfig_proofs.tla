-------------------------- MODULE CloudConfig_proofs --------------------------
(***************************************************************************)
(* Proofs about CloudConfig for all nodes, saves and numbers of faults.    *)
(* LedgerInv says what a publication on its way carries, and what its      *)
(* editor can have been told; ServedInv says where the configurations that *)
(* a node falls back on have come from.                                    *)
(***************************************************************************)
EXTENDS CloudConfig, FiniteSetTheorems, TLAPS

\* Every entry of the log is a publication, and nobody publishes unasked.
LogInv ==
    /\ Len(cloud) <= Cardinality(published)
    /\ \A s \in published : told[s] # "none"

\* A publication extends what the manifest was when it was sent, and there is
\* one of them for a save. Until it is handled, its editor has not been refused.
PutInv ==
    /\ \A p \in puts :
         /\ told[p.id] # "none" /\ p.etag <= etag
         /\ Len(p.config) <= Cardinality(published \cup {p.id})
         /\ p.answer = "none" =>
              /\ p.id \notin published /\ told[p.id] \in {"pending", "unknown"}
              /\ Matches(p) => p.config = Append(cloud, p.id)
         /\ p.answer = "ok" => p.id \in published
         /\ p.answer = "conflict" => p.id \notin published
    /\ \A p, q \in puts : p.id = q.id => p = q

\* A save that holds a lock holds one, and waits to be answered.
OpInv ==
    /\ \A n \in Nodes : \A s, t \in op[n] : told[s] = "pending" /\ s = t
    /\ \A n, m \in Nodes : n # m => op[n] \cap op[m] = {}

LedgerInv == LogInv /\ PutInv /\ OpInv

\* What a node falls back on, and what it boots, has a history: it has been
\* served, it was compared with what is there, and a save that is going on
\* extends what its node holds.
ServedInv ==
    /\ \A n \in Apps : /\ activeFile[n] \subseteq ran[n]
                       /\ \A a, b \in activeFile[n] : a = b
    /\ \A n \in Apps : app[n] # NotBooting =>
         \A a \in activeFile[n] : Follows(app[n].run, a)
    /\ \A n \in Nodes : n \notin Apps => activeFile[n] = {}
    /\ \A n \in Nodes, p \in puts : p.id \in op[n] => p.config = Append(desired[n], p.id)

IInv == TypeOK /\ LedgerInv /\ ServedInv /\ OfflineHasRun /\ ReadyIsCurrent

-----------------------------------------------------------------------------
(* Configurations are bounded sequences of saves.                          *)

LEMMA LogsAre == \A c : c \in Logs <=> c \in Seq(Saves) /\ Len(c) <= Cardinality(Saves)
<1>1. Cardinality(Saves) \in Nat
  BY CloudConfigAssumption, FS_CardinalityType
<1> QED
  BY <1>1 DEF Logs

\* How many saves have been published, with one more or without.
LEMMA PublishedFacts ==
    ASSUME NEW P \in SUBSET Saves, NEW s \in Saves
    PROVE  /\ Cardinality(P) \in Nat /\ Cardinality(P) <= Cardinality(Saves)
           /\ Cardinality(P \cup {s}) \in Nat
           /\ Cardinality(P) <= Cardinality(P \cup {s})
           /\ Cardinality(P \cup {s}) <= Cardinality(Saves)
           /\ s \notin P => Cardinality(P \cup {s}) = Cardinality(P) + 1
           /\ Cardinality(Saves) \in Nat
<1>1. IsFiniteSet(P) /\ Cardinality(P) <= Cardinality(Saves)
  BY CloudConfigAssumption, FS_Subset
<1>2. P \cup {s} \in SUBSET Saves
  OBVIOUS
<1>3. Cardinality(P \cup {s}) <= Cardinality(Saves)
  BY <1>2, CloudConfigAssumption, FS_Subset
<1>4. /\ IsFiniteSet(P \cup {s})
      /\ Cardinality(P \cup {s}) = IF s \in P THEN Cardinality(P) ELSE Cardinality(P) + 1
  BY <1>1, FS_AddElement
<1>5. Cardinality(P) \in Nat /\ Cardinality(P \cup {s}) \in Nat /\ Cardinality(Saves) \in Nat
  BY <1>1, <1>4, CloudConfigAssumption, FS_CardinalityType
<1> QED
  BY <1>1, <1>3, <1>4, <1>5

LEMMA SetsOfOne == \A x : Cardinality({x}) = 1 /\ Cardinality({}) = 0
BY FS_EmptySet, FS_Singleton

LEMMA EmptyLog == <<>> \in Logs
<1>1. Cardinality(Saves) \in Nat
  BY CloudConfigAssumption, FS_CardinalityType
<1>2. <<>> \in Seq(Saves) /\ Len(<<>>) = 0
  OBVIOUS
<1> QED
  BY <1>1, <1>2 DEF Logs

\* A function to sets, changed at one place to a set of one.
LEMMA OneMore ==
    ASSUME NEW S, NEW T, NEW f \in [S -> SUBSET T], NEW n \in S, NEW x \in T,
           \A m \in S : Cardinality(f[m]) <= 1
    PROVE  /\ [f EXCEPT ![n] = {x}] \in [S -> SUBSET T]
           /\ \A m \in S : Cardinality([f EXCEPT ![n] = {x}][m]) <= 1
<1>1. ASSUME NEW m \in S
      PROVE  Cardinality([f EXCEPT ![n] = {x}][m]) <= 1
  <2>1. CASE m = n
    <3>1. [f EXCEPT ![n] = {x}][m] = {x}
      BY <2>1
    <3>2. Cardinality({x}) = 1
      BY SetsOfOne
    <3> QED
      BY <3>1, <3>2
  <2>2. CASE m # n
    <3>1. [f EXCEPT ![n] = {x}][m] = f[m]
      BY <2>2
    <3> QED
      BY <3>1
  <2> QED
    BY <2>1, <2>2
<1> QED
  BY <1>1

\* What a node stores, if the configuration is one.
LEMMA WritesType ==
    ASSUME TypeOK, NEW n \in Nodes, NEW c \in Logs, Writes(n, c)
    PROVE  desiredFile' \in [Nodes -> Logs] /\ faults' \in 0 .. Faults
BY CloudConfigAssumption DEF TypeOK, Writes, Faulty

LEMMA AdoptsType ==
    ASSUME TypeOK, NEW n \in Nodes, NEW c \in Logs, Adopts(n, c)
    PROVE  /\ desired' \in [Nodes -> Logs] /\ desiredFile' \in [Nodes -> Logs]
           /\ bank' \in [Syncs -> [target : SUBSET Logs, work : SUBSET Logs,
                                   index : SUBSET Logs, ready : BOOLEAN]]
           /\ faults' \in 0 .. Faults
<1>1. desiredFile' \in [Nodes -> Logs] /\ faults' \in 0 .. Faults
  BY WritesType DEF Adopts
<1>2. desired' \in [Nodes -> Logs]
  BY DEF Adopts, TypeOK
<1>3. ASSUME NEW b \in [target : SUBSET Logs, work : SUBSET Logs, index : SUBSET Logs,
                        ready : BOOLEAN]
      PROVE  Requested(b, c) \in [target : SUBSET Logs, work : SUBSET Logs,
                                  index : SUBSET Logs, ready : BOOLEAN]
  BY DEF Requested
<1>4. bank' \in [Syncs -> [target : SUBSET Logs, work : SUBSET Logs,
                           index : SUBSET Logs, ready : BOOLEAN]]
  BY <1>3 DEF Adopts, Captures, TypeOK
<1> QED
  BY <1>1, <1>2, <1>4

LEMMA SeenType ==
    ASSUME TypeOK, NEW n \in Nodes
    PROVE  Seen(n) \subseteq Logs
BY DEF TypeOK, Seen, Newer

\* A save that begins has a place in the log, and what it publishes is a log.
LEMMA AppendType ==
    ASSUME TypeOK, LogInv, NEW s \in Saves, told[s] = "none"
    PROVE  /\ s \notin published /\ Append(cloud, s) \in Logs
           /\ Len(Append(cloud, s)) <= Cardinality(published \cup {s})
<1>1. s \notin published /\ published \in SUBSET Saves /\ cloud \in Logs
  BY DEF LogInv, TypeOK
<1>2. Cardinality(published \cup {s}) = Cardinality(published) + 1
  BY <1>1, PublishedFacts
<1>3. /\ Cardinality(published) \in Nat /\ Cardinality(Saves) \in Nat
      /\ Cardinality(published \cup {s}) <= Cardinality(Saves)
  BY <1>1, PublishedFacts
<1>4. cloud \in Seq(Saves) /\ Len(cloud) <= Cardinality(published)
  BY <1>1, LogsAre DEF LogInv
<1>5. Append(cloud, s) \in Seq(Saves) /\ Len(Append(cloud, s)) = Len(cloud) + 1
  BY <1>4
<1>6. Len(Append(cloud, s)) <= Cardinality(Saves)
  BY <1>2, <1>3, <1>4, <1>5
<1>7. Append(cloud, s) \in Logs
  BY <1>5, <1>6, LogsAre
<1> QED
  BY <1>1, <1>2, <1>3, <1>4, <1>5, <1>7

\* The variables that a save, its answer and the loops leave alone keep their types.
LEMMA StepType == TypeOK /\ LedgerInv /\ [Next]_vars => TypeOK'
<1> SUFFICES ASSUME TypeOK, LedgerInv, [Next]_vars PROVE TypeOK'
  OBVIOUS
<1> USE CloudConfigAssumption
<1>1. ASSUME NEW n \in Nodes, NEW s \in Saves, SaveBegins(n, s)
      PROVE  TypeOK'
  <2>1. /\ desired' \in [Nodes -> Logs] /\ desiredFile' \in [Nodes -> Logs]
        /\ bank' \in [Syncs -> [target : SUBSET Logs, work : SUBSET Logs,
                                index : SUBSET Logs, ready : BOOLEAN]]
        /\ faults' \in 0 .. Faults
    BY <1>1, AdoptsType DEF SaveBegins, TypeOK
  <2>2. Append(cloud, s) \in Logs
    BY <1>1, AppendType DEF SaveBegins, Unused, LedgerInv
  <2>3. puts' \subseteq [id : Saves, etag : Nat, config : Logs,
                         answer : {"none", "ok", "conflict"}]
    <3>1. [id |-> s, etag |-> etag, config |-> Append(cloud, s), answer |-> "none"]
             \in [id : Saves, etag : Nat, config : Logs, answer : {"none", "ok", "conflict"}]
      BY <2>2 DEF TypeOK
    <3> QED
      BY <1>1, <3>1 DEF SaveBegins, TypeOK
  <2>4. op' \in [Nodes -> SUBSET Saves] /\ \A m \in Nodes : Cardinality(op'[m]) <= 1
    <3>1. op[n] = {} /\ (op' = op \/ op' = [op EXCEPT ![n] = @ \cup {s}])
      BY <1>1 DEF SaveBegins, Idle
    <3>2. op[n] \cup {s} = {s}
      BY <3>1
    <3>3. op' = op \/ op' = [op EXCEPT ![n] = {s}]
      BY <3>1, <3>2 DEF TypeOK
    <3> QED
      <4>1. op \in [Nodes -> SUBSET Saves] /\ \A m \in Nodes : Cardinality(op[m]) <= 1
        BY DEF TypeOK
      <4>2. /\ [op EXCEPT ![n] = {s}] \in [Nodes -> SUBSET Saves]
            /\ \A m \in Nodes : Cardinality([op EXCEPT ![n] = {s}][m]) <= 1
        BY <4>1, OneMore
      <4> QED
        BY <3>3, <4>1, <4>2
  <2>5. told' \in [Saves -> {"none", "pending", "saved", "conflict", "unknown"}]
    BY <1>1 DEF SaveBegins, Tells, TypeOK
  <2> QED
    BY <1>1, <2>1, <2>3, <2>4, <2>5 DEF SaveBegins, Idle, news, TypeOK
<1>2. ASSUME NEW n \in Nodes, NEW p \in puts, Saved(n, p) \/ SaveConflicts(n, p)
      PROVE  TypeOK'
  <2>1. p \in [id : Saves, etag : Nat, config : Logs, answer : {"none", "ok", "conflict"}]
    BY DEF TypeOK
  <2>2. /\ desired' \in [Nodes -> Logs] /\ desiredFile' \in [Nodes -> Logs]
        /\ bank' \in [Syncs -> [target : SUBSET Logs, work : SUBSET Logs,
                                index : SUBSET Logs, ready : BOOLEAN]]
        /\ faults' \in 0 .. Faults
    <3>1. CASE Saved(n, p)
      BY <2>1, <3>1, AdoptsType DEF Saved
    <3>2. CASE Adopts(n, cloud)
      BY <3>2, AdoptsType DEF TypeOK
    <3>3. CASE UNCHANGED <<desired, desiredFile, bank, faults>>
      BY <3>3 DEF TypeOK
    <3> QED
      BY <1>2, <3>1, <3>2, <3>3 DEF SaveConflicts
  <2>3. told' \in [Saves -> {"none", "pending", "saved", "conflict", "unknown"}]
    BY <1>2, <2>1 DEF Saved, SaveConflicts, Tells, TypeOK
  <2>4. Ends(n, p)
    BY <1>2 DEF Saved, SaveConflicts
  <2>5. op' \in [Nodes -> SUBSET Saves] /\ \A m \in Nodes : Cardinality(op'[m]) <= 1
    BY <2>4, SetsOfOne DEF Ends, TypeOK
  <2> QED
    BY <2>2, <2>3, <2>4, <2>5 DEF Ends, news, TypeOK
<1>3. ASSUME NEW n \in Nodes, NEW p \in puts, SaveUncertain(n, p)
      PROVE  TypeOK'
  <2>1. op' \in [Nodes -> SUBSET Saves] /\ \A m \in Nodes : Cardinality(op'[m]) <= 1
    BY <1>3, SetsOfOne DEF SaveUncertain, TypeOK
  <2>2. told' \in [Saves -> {"none", "pending", "saved", "conflict", "unknown"}]
    BY <1>3 DEF SaveUncertain, Tells, NoAnswer, TypeOK
  <2> QED
    BY <1>3, <2>1, <2>2 DEF SaveUncertain, Faulty, cluster, news, TypeOK
<1>4. ASSUME NEW n \in Nodes, Reconciles(n)
      PROVE  TypeOK'
  <2>1. /\ desired' \in [Nodes -> Logs] /\ desiredFile' \in [Nodes -> Logs]
        /\ bank' \in [Syncs -> [target : SUBSET Logs, work : SUBSET Logs,
                                index : SUBSET Logs, ready : BOOLEAN]]
        /\ faults' \in 0 .. Faults
    BY <1>4, AdoptsType DEF Reconciles, Refreshes, TypeOK
  <2>2. known' \in [Nodes -> SUBSET Logs] /\ pending' \in [Nodes -> Nat]
    BY <1>4, SeenType DEF Reconciles, Refreshes, Round, TypeOK
  <2> QED
    BY <1>4, <2>1, <2>2 DEF Reconciles, Refreshes, Round, cluster, TypeOK
<1>5. ASSUME NEW n \in Nodes, ReconcileFails(n)
      PROVE  TypeOK'
  <2>1. known' \in [Nodes -> SUBSET Logs] /\ pending' \in [Nodes -> Nat]
    BY <1>5, SeenType DEF ReconcileFails, Round, TypeOK
  <2> QED
    BY <1>5, <2>1 DEF ReconcileFails, Round, cluster, TypeOK
<1>6. ASSUME NEW n \in Nodes, ControlPlaneDies(n)
      PROVE  TypeOK'
  <2>1. op' \in [Nodes -> SUBSET Saves] /\ \A m \in Nodes : Cardinality(op'[m]) <= 1
    BY <1>6, SetsOfOne DEF ControlPlaneDies, TypeOK
  <2>2. bank' \in [Syncs -> [target : SUBSET Logs, work : SUBSET Logs,
                             index : SUBSET Logs, ready : BOOLEAN]]
    BY <1>6 DEF ControlPlaneDies, NoBank, TypeOK
  <2>3. /\ desired' \in [Nodes -> Logs] /\ known' \in [Nodes -> SUBSET Logs]
        /\ highest' \in [Nodes -> Nat] /\ pending' \in [Nodes -> Nat]
    BY <1>6 DEF ControlPlaneDies, TypeOK
  <2>4. told' \in [Saves -> {"none", "pending", "saved", "conflict", "unknown"}]
    BY <1>6 DEF ControlPlaneDies, TypeOK
  <2>5. faults' \in 0 .. Faults
    BY <1>6 DEF ControlPlaneDies, Faulty, TypeOK
  <2> QED
    BY <1>6, <2>1, <2>2, <2>3, <2>4, <2>5 DEF ControlPlaneDies, cluster, TypeOK
<1>7. ASSUME NEW p \in puts, CloudHandles(p)
      PROVE  TypeOK'
  <2>1. p \in [id : Saves, etag : Nat, config : Logs, answer : {"none", "ok", "conflict"}]
    BY DEF TypeOK
  <2>2. puts' \subseteq [id : Saves, etag : Nat, config : Logs,
                         answer : {"none", "ok", "conflict"}]
    BY <1>7, <2>1 DEF CloudHandles, TypeOK
  <2>3. cloud' \in Logs /\ etag' \in Nat /\ published' \subseteq Saves
    BY <1>7, <2>1 DEF CloudHandles, TypeOK
  <2> QED
    BY <1>7, <2>2, <2>3 DEF CloudHandles, control, news, TypeOK
<1>8. ASSUME NEW n \in Hearing, NEW r \in Announced, HintArrives(n, r)
      PROVE  TypeOK'
  <2>1. r \in Nat
    <3>1. Cardinality(published) \in Nat
      BY FS_Subset, FS_CardinalityType DEF TypeOK
    <3> QED
      BY <3>1 DEF Announced
  <2> QED
    BY <1>8, <2>1 DEF HintArrives, cluster, control, TypeOK
<1>9. ASSUME NEW n \in Syncs, SyncStarts(n) \/ SyncWrites(n) \/ SyncEnds(n) \/ SyncFails(n)
      PROVE  TypeOK'
  <2>1. bank' \in [Syncs -> [target : SUBSET Logs, work : SUBSET Logs,
                             index : SUBSET Logs, ready : BOOLEAN]]
    <3>1. bank[n] \in [target : SUBSET Logs, work : SUBSET Logs, index : SUBSET Logs,
                       ready : BOOLEAN]
      BY DEF TypeOK
    <3>2. CASE SyncStarts(n)
      BY <3>1, <3>2 DEF SyncStarts, TypeOK
    <3>3. CASE SyncWrites(n)
      BY <3>1, <3>3 DEF SyncWrites, TypeOK
    <3>4. CASE SyncEnds(n)
      <4>1. Wanted(bank[n]) \in BOOLEAN
        BY DEF Wanted
      <4> QED
        BY <3>1, <3>4, <4>1 DEF SyncEnds, TypeOK
    <3>5. CASE SyncFails(n)
      BY <3>1, <3>5 DEF SyncFails, TypeOK
    <3> QED
      BY <1>9, <3>2, <3>3, <3>4, <3>5
  <2>2. Banks(n)
    BY <1>9 DEF SyncStarts, SyncWrites, SyncEnds, SyncFails
  <2> QED
    BY <2>1, <2>2 DEF Banks, cluster, control, news, TypeOK
<1>10. ASSUME NEW n \in Apps, Core(n)
       PROVE  TypeOK'
  <2>1. CASE BootsFromDrive(n)
    <3>1. desiredFile' \in [Nodes -> Logs] /\ faults' \in 0 .. Faults
      BY <2>1, WritesType DEF BootsFromDrive, TypeOK
    <3>2. app' \in [Apps -> [run : Logs, source : {"none", "drive", "active_lkg"}]]
      BY <2>1 DEF BootsFromDrive, Boot, TypeOK
    <3> QED
      BY <2>1, <3>1, <3>2 DEF BootsFromDrive, Boot, cluster, control, news, TypeOK
  <2>2. CASE BootsOffline(n)
    <3>1. app' \in [Apps -> [run : Logs, source : {"none", "drive", "active_lkg"}]]
      BY <2>2 DEF BootsOffline, LastGood, Boot, TypeOK
    <3> QED
      BY <2>2, <3>1 DEF BootsOffline, Boot, cluster, control, news, TypeOK
  <2>3. CASE Serves(n)
    <3>1. app' \in [Apps -> [run : Logs, source : {"none", "drive", "active_lkg"}]]
      <4>1. <<>> \in Logs
        BY EmptyLog
      <4> QED
        BY <2>3, <4>1 DEF Serves, NotBooting, TypeOK
    <3>2. ran' \in [Apps -> SUBSET Logs]
      BY <2>3 DEF Serves, TypeOK
    <3>3. /\ activeFile' \in [Nodes -> SUBSET Logs] /\ faults' \in 0 .. Faults
          /\ \A m \in Nodes : Cardinality(activeFile'[m]) <= 1
      <4>1. app[n].run \in Logs
        BY DEF TypeOK
      <4>2. \/ activeFile' = [activeFile EXCEPT ![n] = {app[n].run}] /\ UNCHANGED faults
            \/ Faulty /\ UNCHANGED activeFile
        BY <2>3 DEF Serves
      <4>3. \A m \in Nodes : Cardinality(activeFile'[m]) <= 1
        <5>1. /\ activeFile \in [Nodes -> SUBSET Logs] /\ n \in Nodes
              /\ \A m \in Nodes : Cardinality(activeFile[m]) <= 1
          BY DEF TypeOK
        <5>2. PICK c \in Logs : c = app[n].run
          BY <4>1
        <5>3. \A m \in Nodes : Cardinality([activeFile EXCEPT ![n] = {c}][m]) <= 1
          BY <5>1, OneMore
        <5> QED
          BY <4>2, <5>1, <5>2, <5>3
      <4> QED
        BY <4>1, <4>2, <4>3 DEF Faulty, TypeOK
    <3> QED
      BY <2>3, <3>1, <3>2, <3>3 DEF Serves, cluster, control, news, TypeOK
  <2>4. CASE AppEnds(n)
    <3>1. app' \in [Apps -> [run : Logs, source : {"none", "drive", "active_lkg"}]]
      <4>1. <<>> \in Logs
        BY EmptyLog
      <4> QED
        BY <2>4, <4>1 DEF AppEnds, NotBooting, TypeOK
    <3> QED
      BY <2>4, <3>1 DEF AppEnds, cluster, control, news, TypeOK
  <2> QED
    BY <1>10, <2>1, <2>2, <2>3, <2>4 DEF Core
<1>11. CASE CloudRestored
  <2>1. PICK r \in 0 .. Len(cloud) - 1 : cloud' = SubSeq(cloud, 1, r)
    BY <1>11 DEF CloudRestored
  <2>2. cloud \in Seq(Saves) /\ Len(cloud) <= Cardinality(Saves) /\ Cardinality(Saves) \in Nat
    BY LogsAre, FS_CardinalityType DEF TypeOK
  <2>3. cloud' \in Seq(Saves) /\ Len(cloud') <= Len(cloud)
    BY <2>1, <2>2
  <2>4. cloud' \in Logs
    BY <2>2, <2>3, LogsAre
  <2> QED
    BY <1>11, <2>4 DEF CloudRestored, Faulty, control, news, TypeOK
<1>12. CASE UNCHANGED vars
  BY <1>12 DEF vars, cluster, control, news, TypeOK
<1> QED
  BY <1>1, <1>2, <1>3, <1>4, <1>5, <1>6, <1>7, <1>8, <1>9, <1>10, <1>11, <1>12
     DEF Next, Save

-----------------------------------------------------------------------------
(* The ledger: what is told, published and on its way.                     *)

LEMMA LedgerFrame ==
    ASSUME LedgerInv, UNCHANGED <<cloud, etag, puts, published, op, told>>
    PROVE  LedgerInv'
<1>1. LogInv' /\ OpInv'
  BY DEF LedgerInv, LogInv, OpInv
<1>2. PutInv'
  BY DEF LedgerInv, PutInv, Matches
<1> QED
  BY <1>1, <1>2 DEF LedgerInv

\* The answer of a save changes nothing but what its editor was told: it is no
\* longer on its way as a pending one, and nobody else's is the same.
LEMMA LedgerAnswers ==
    ASSUME TypeOK, LedgerInv, UNCHANGED <<cloud, etag, published>>,
           NEW n \in Nodes, NEW p \in puts, op[n] = {p.id}, op' = [op EXCEPT ![n] = {}],
           NEW a \in {"saved", "conflict", "unknown"}, Tells(p.id, a),
           \/ a = "unknown" /\ puts' \subseteq puts
           \/ puts' = puts \ {p}
    PROVE  LedgerInv'
<1>1. p.id \in Saves /\ told[p.id] = "pending"
  BY DEF LedgerInv, OpInv, TypeOK
<1>2. /\ told'[p.id] = a /\ \A s \in Saves \ {p.id} : told'[s] = told[s]
      /\ puts' \subseteq puts /\ \A q \in puts : q.id \in Saves
  BY DEF Tells, TypeOK
<1>3. LogInv'
  BY <1>2 DEF LedgerInv, LogInv, TypeOK
<1>4. OpInv'
  BY <1>1, <1>2 DEF LedgerInv, OpInv, TypeOK
<1>5. ASSUME NEW q \in puts'
      PROVE  /\ told'[q.id] # "none"
             /\ q.answer = "none" => told'[q.id] \in {"pending", "unknown"}
  <2>1. q \in puts /\ q.id \in Saves
    BY <1>2
  <2>2. CASE q.id = p.id /\ a # "unknown"
    BY <2>1, <2>2 DEF LedgerInv, PutInv
  <2> QED
    BY <1>2, <2>1, <2>2 DEF LedgerInv, PutInv
<1>6. PutInv'
  BY <1>2, <1>5 DEF LedgerInv, PutInv, Matches
<1> QED
  BY <1>3, <1>4, <1>6 DEF LedgerInv

LEMMA LedgerSaveBegins ==
    ASSUME TypeOK, LedgerInv, NEW n \in Nodes, NEW s \in Saves, SaveBegins(n, s)
    PROVE  LedgerInv'
<1>1. /\ told[s] = "none" /\ UNCHANGED <<cloud, etag, published>> /\ op[n] = {}
      /\ s \notin published /\ Len(Append(cloud, s)) <= Cardinality(published \cup {s})
  BY AppendType DEF SaveBegins, Idle, Unused, LedgerInv
<1>2. \A p \in puts : p.id \in Saves /\ p.id # s
  BY <1>1 DEF LedgerInv, PutInv, TypeOK
<1>3. \A m \in Nodes : s \notin op[m]
  BY <1>1 DEF LedgerInv, OpInv
<1>4. CASE Tells(s, "conflict") /\ UNCHANGED <<op, puts>>
  <2>1. \A t \in Saves \ {s} : told'[t] = told[t]
    BY <1>4 DEF Tells, TypeOK
  <2>2. told'[s] = "conflict"
    BY <1>4 DEF Tells, TypeOK
  <2>3. LogInv'
    BY <1>1, <2>1, <2>2 DEF LedgerInv, LogInv, TypeOK
  <2>4. PutInv'
    BY <1>1, <1>2, <1>4, <2>1 DEF LedgerInv, PutInv, Matches
  <2>5. OpInv'
    BY <1>3, <1>4, <2>1 DEF LedgerInv, OpInv, TypeOK
  <2> QED
    BY <2>3, <2>4, <2>5 DEF LedgerInv
<1>5. CASE Tells(s, "pending") /\ op' = [op EXCEPT ![n] = @ \cup {s}]
  <2> DEFINE q == [id |-> s, etag |-> etag, config |-> Append(cloud, s), answer |-> "none"]
  <2>1. puts' = puts \cup {q}
    BY <1>1, <1>5 DEF SaveBegins, Tells, TypeOK
  <2>2. /\ q.id = s /\ q.etag = etag /\ q.config = Append(cloud, s) /\ q.answer = "none"
        /\ etag \in Nat
    BY DEF TypeOK
  <2>3. told'[s] = "pending" /\ \A t \in Saves \ {s} : told'[t] = told[t]
    BY <1>5 DEF Tells, TypeOK
  <2>4. LogInv'
    BY <1>1, <2>3 DEF LedgerInv, LogInv, TypeOK
  <2>5. OpInv'
    BY <1>1, <1>3, <1>5, <2>3 DEF LedgerInv, OpInv, TypeOK
  <2> HIDE DEF q
  <2>6. PutInv'
    <3>1. ASSUME NEW p \in puts'
          PROVE  /\ told'[p.id] # "none" /\ p.etag <= etag'
                 /\ Len(p.config) <= Cardinality(published' \cup {p.id})
                 /\ p.answer = "none" =>
                      /\ p.id \notin published' /\ told'[p.id] \in {"pending", "unknown"}
                      /\ p.etag = etag' => p.config = Append(cloud', p.id)
                 /\ p.answer = "ok" => p.id \in published'
                 /\ p.answer = "conflict" => p.id \notin published'
      <4>1. CASE p = q
        <5>1. p.id = s /\ p.etag = etag /\ p.config = Append(cloud, s) /\ p.answer = "none"
          BY <2>2, <4>1
        <5>2. published' = published /\ etag' = etag /\ cloud' = cloud
          BY <1>1
        <5>3. Len(p.config) <= Cardinality(published' \cup {p.id})
          BY <1>1, <5>1, <5>2
        <5>4. p.id \notin published' /\ told'[p.id] = "pending" /\ p.etag <= etag'
          BY <1>1, <2>2, <2>3, <5>1, <5>2
        <5>5. p.config = Append(cloud', p.id)
          BY <5>1, <5>2
        <5> QED
          BY <5>1, <5>3, <5>4, <5>5
      <4>2. CASE p \in puts
        BY <1>1, <1>2, <2>3, <4>2 DEF LedgerInv, PutInv, Matches
      <4> QED
        BY <2>1, <4>1, <4>2
    <3>2. ASSUME NEW p \in puts', NEW r \in puts', p.id = r.id
          PROVE  p = r
      BY <1>2, <2>1, <2>2, <3>2 DEF LedgerInv, PutInv
    <3> QED
      BY <3>1, <3>2 DEF PutInv, Matches
  <2> QED
    BY <2>4, <2>5, <2>6 DEF LedgerInv
<1> QED
  BY <1>4, <1>5 DEF SaveBegins

\* The Cloud answers: a publication that is accepted makes the others stale.
LEMMA LedgerHandles ==
    ASSUME TypeOK, LedgerInv, NEW p \in puts, CloudHandles(p)
    PROVE  LedgerInv'
<1>1. /\ p \in [id : Saves, etag : Nat, config : Logs, answer : {"none", "ok", "conflict"}]
      /\ p.answer = "none" /\ p.id \notin published /\ told[p.id] \in {"pending", "unknown"}
      /\ p.etag <= etag /\ etag \in Nat /\ UNCHANGED <<told, op>> /\ published \in SUBSET Saves
  BY DEF LedgerInv, PutInv, TypeOK, CloudHandles, control
<1>2. OpInv'
  BY <1>1 DEF LedgerInv, OpInv
<1>3. PICK a \in {"ok", "conflict"} :
        /\ puts' = (puts \ {p}) \cup {[p EXCEPT !.answer = a]}
        /\ a = "ok" => /\ Matches(p) /\ cloud' = p.config /\ etag' = etag + 1
                       /\ published' = published \cup {p.id}
        /\ a = "conflict" => UNCHANGED <<cloud, etag, published>>
  BY DEF CloudHandles
<1> DEFINE q == [p EXCEPT !.answer = a]
<1>4. q.id = p.id /\ q.etag = p.etag /\ q.config = p.config /\ q.answer = a
  BY <1>1
<1> HIDE DEF q
<1>5. \A r \in puts \ {p} : r.id # p.id /\ r.id \in Saves
  BY DEF LedgerInv, PutInv, TypeOK
<1>6. LogInv'
  <2>1. CASE a = "ok"
    <3>1. Len(cloud') <= Cardinality(published')
      BY <1>3, <2>1 DEF LedgerInv, PutInv
    <3> QED
      BY <1>1, <1>3, <2>1, <3>1 DEF LedgerInv, LogInv
  <2>2. CASE a = "conflict"
    BY <1>1, <1>3, <2>2 DEF LedgerInv, LogInv
  <2> QED
    BY <2>1, <2>2
<1>7. ASSUME NEW r \in puts'
      PROVE  /\ told'[r.id] # "none" /\ r.etag <= etag'
             /\ Len(r.config) <= Cardinality(published' \cup {r.id})
             /\ r.answer = "none" =>
                  /\ r.id \notin published' /\ told'[r.id] \in {"pending", "unknown"}
                  /\ r.etag = etag' => r.config = Append(cloud', r.id)
             /\ r.answer = "ok" => r.id \in published'
             /\ r.answer = "conflict" => r.id \notin published'
  <2>1. CASE r = q
    <3>1. r.id = p.id /\ r.etag = p.etag /\ r.config = p.config /\ r.answer = a
      BY <1>4, <2>1
    <3>2. published' \cup {r.id} = published \cup {p.id}
      BY <1>3, <3>1
    <3>3. Len(r.config) <= Cardinality(published' \cup {r.id})
      BY <3>1, <3>2 DEF LedgerInv, PutInv
    <3>4. r.etag <= etag'
      BY <1>1, <1>3, <3>1
    <3> QED
      BY <1>1, <1>3, <3>1, <3>3, <3>4
  <2>2. CASE r \in puts \ {p}
    <3>1. r.id # p.id /\ r.id \in Saves /\ r.etag <= etag /\ r.etag \in Nat /\ p.id \in Saves
      BY <1>1, <1>5, <2>2 DEF LedgerInv, PutInv, TypeOK
    <3>2. CASE a = "ok"
      <4>1. published \cup {r.id} \in SUBSET Saves
        BY <1>1, <3>1
      <4>2. Cardinality(published \cup {r.id}) <= Cardinality((published \cup {r.id}) \cup {p.id})
        BY <3>1, <4>1, PublishedFacts
      <4>3. (published \cup {r.id}) \cup {p.id} = published' \cup {r.id}
        BY <1>3, <3>2
      <4>4. Len(r.config) <= Cardinality(published \cup {r.id}) /\ r.config \in Logs
        BY <2>2 DEF LedgerInv, PutInv, TypeOK
      <4>5. /\ Len(r.config) \in Nat /\ Cardinality(published \cup {r.id}) \in Nat
            /\ Cardinality((published \cup {r.id}) \cup {p.id}) \in Nat
        <5>1. r.config \in Seq(Saves)
          BY <4>4, LogsAre
        <5> QED
          BY <3>1, <4>1, <5>1, PublishedFacts
      <4>6. Len(r.config) <= Cardinality(published' \cup {r.id})
        <5>1. /\ Cardinality(published \cup {r.id}) <= Cardinality(published' \cup {r.id})
              /\ Cardinality(published' \cup {r.id}) \in Nat
          BY <4>2, <4>3, <4>5
        <5> QED
          BY <4>4, <4>5, <5>1
      <4>7. r.etag # etag' /\ r.etag <= etag'
        BY <1>1, <1>3, <3>1, <3>2
      <4> QED
        BY <1>1, <1>3, <2>2, <3>1, <3>2, <4>6, <4>7 DEF LedgerInv, PutInv
    <3>3. CASE a = "conflict"
      BY <1>1, <1>3, <2>2, <3>3 DEF LedgerInv, PutInv, Matches
    <3> QED
      BY <3>2, <3>3
  <2> QED
    BY <1>3, <2>1, <2>2 DEF q
<1>8. ASSUME NEW r \in puts', NEW s \in puts', r.id = s.id
      PROVE  r = s
  <2>1. \A t \in puts' : t = q \/ t \in puts \ {p}
    BY <1>3 DEF q
  <2> QED
    BY <1>4, <1>5, <1>8, <2>1 DEF LedgerInv, PutInv
<1>9. PutInv'
  BY <1>7, <1>8 DEF PutInv, Matches
<1> QED
  BY <1>2, <1>6, <1>9 DEF LedgerInv

LEMMA LedgerRestored ==
    ASSUME TypeOK, LedgerInv, CloudRestored
    PROVE  LedgerInv'
<1>1. /\ UNCHANGED <<puts, published, op, told>> /\ etag' = etag + 1 /\ etag \in Nat
  BY DEF CloudRestored, control, TypeOK
<1>2. PICK r \in 0 .. Len(cloud) - 1 : cloud' = SubSeq(cloud, 1, r)
  BY DEF CloudRestored
<1>3. /\ cloud \in Seq(Saves) /\ published \in SUBSET Saves
  BY LogsAre DEF TypeOK
<1>4. Len(cloud') <= Len(cloud) /\ Len(cloud') \in Nat /\ Len(cloud) \in Nat
  BY <1>2, <1>3
<1>5. Cardinality(published) \in Nat
  BY <1>3, CloudConfigAssumption, FS_Subset, FS_CardinalityType
<1>6. LogInv'
  BY <1>1, <1>4, <1>5 DEF LedgerInv, LogInv
<1>7. \A p \in puts : p.etag <= etag' /\ p.etag # etag'
  <2>1. \A p \in puts : p.etag \in Nat /\ p.etag <= etag
    BY DEF LedgerInv, PutInv, TypeOK
  <2> QED
    BY <1>1, <2>1
<1>8. PutInv'
  BY <1>1, <1>7 DEF LedgerInv, PutInv, Matches
<1> QED
  BY <1>1, <1>6, <1>8 DEF LedgerInv, OpInv

\* A control plane that dies leaves the editor of its save without an answer.
LEMMA LedgerDies ==
    ASSUME TypeOK, LedgerInv, NEW n \in Nodes, ControlPlaneDies(n)
    PROVE  LedgerInv'
<1>1. /\ UNCHANGED <<cloud, etag, puts, published>> /\ op' = [op EXCEPT ![n] = {}]
      /\ \A s \in Saves : told'[s] = IF s \in op[n] THEN "unknown" ELSE told[s]
  BY DEF ControlPlaneDies, cluster
<1>2. LogInv' /\ OpInv'
  BY <1>1 DEF LedgerInv, LogInv, OpInv, TypeOK
<1>3. PutInv'
  BY <1>1 DEF LedgerInv, PutInv, Matches, TypeOK
<1> QED
  BY <1>2, <1>3 DEF LedgerInv

LEMMA StepLedger == TypeOK /\ LedgerInv /\ [Next]_vars => LedgerInv'
<1> SUFFICES ASSUME TypeOK, LedgerInv, [Next]_vars PROVE LedgerInv'
  OBVIOUS
<1>1. ASSUME NEW n \in Nodes, Save(n)
      PROVE  LedgerInv'
  <2>1. ASSUME NEW s \in Saves, SaveBegins(n, s)
        PROVE  LedgerInv'
    BY <2>1, LedgerSaveBegins
  <2>2. ASSUME NEW p \in puts, Saved(n, p) \/ SaveConflicts(n, p)
        PROVE  LedgerInv'
    <3>1. /\ op[n] = {p.id} /\ op' = [op EXCEPT ![n] = {}] /\ puts' = puts \ {p}
          /\ UNCHANGED <<cloud, etag, published>>
          /\ Tells(p.id, "saved") \/ Tells(p.id, "conflict")
      BY <2>2 DEF Saved, SaveConflicts, Ends
    <3> QED
      BY <3>1, LedgerAnswers
  <2>3. ASSUME NEW p \in puts, SaveUncertain(n, p)
        PROVE  LedgerInv'
    <3>1. /\ op[n] = {p.id} /\ op' = [op EXCEPT ![n] = {}] /\ puts' \subseteq puts
          /\ UNCHANGED <<cloud, etag, published>> /\ Tells(p.id, "unknown")
      BY <2>3 DEF SaveUncertain, cluster, NoAnswer
    <3> QED
      BY <3>1, LedgerAnswers
  <2> QED
    BY <1>1, <2>1, <2>2, <2>3 DEF Save
<1>2. CASE \E n \in Nodes : Reconciles(n) \/ ReconcileFails(n)
  BY <1>2, LedgerFrame DEF Reconciles, ReconcileFails, Round, cluster
<1>3. CASE \E n \in Nodes : ControlPlaneDies(n)
  BY <1>3, LedgerDies
<1>4. CASE \E p \in puts : CloudHandles(p)
  BY <1>4, LedgerHandles
<1>5. CASE \E n \in Hearing, r \in Announced : HintArrives(n, r)
  BY <1>5, LedgerFrame DEF HintArrives, cluster, control
<1>6. CASE \E n \in Syncs : SyncStarts(n) \/ SyncWrites(n) \/ SyncEnds(n) \/ SyncFails(n)
  BY <1>6, LedgerFrame
     DEF SyncStarts, SyncWrites, SyncEnds, SyncFails, Banks, cluster, control
<1>7. CASE \E n \in Apps : Core(n)
  BY <1>7, LedgerFrame
     DEF Core, BootsFromDrive, BootsOffline, Boot, Serves, AppEnds, cluster, control
<1>8. CASE CloudRestored
  BY <1>8, LedgerRestored
<1>9. CASE UNCHANGED vars
  BY <1>9, LedgerFrame DEF vars, cluster, control
<1> QED
  BY <1>1, <1>2, <1>3, <1>4, <1>5, <1>6, <1>7, <1>8, <1>9 DEF Next

-----------------------------------------------------------------------------
(* What a node serves, falls back on and boots.                            *)

LEMMA AboveFollows ==
    ASSUME NEW c \in Logs, NEW floor \in SUBSET Logs, Above(c, floor)
    PROVE  \A f \in floor : Follows(c, f)
<1>1. \A d \in Logs : Len(d) \in Nat
  BY LogsAre
<1> QED
  BY <1>1 DEF Above, Revision, Follows

\* The core changes what is known of its own node; the others leave it alone.
LEMMA ServedFrame ==
    ASSUME ServedInv, OfflineHasRun, UNCHANGED <<activeFile, app, ran>>,
           \A n \in Nodes, p \in puts' : p.id \in op'[n] =>
               p.config = Append(desired'[n], p.id)
    PROVE  ServedInv' /\ OfflineHasRun'
BY DEF ServedInv, OfflineHasRun

LEMMA StepServed ==
    TypeOK /\ LedgerInv /\ ServedInv /\ OfflineHasRun /\ [Next]_vars
        => ServedInv' /\ OfflineHasRun'
<1> SUFFICES ASSUME TypeOK, LedgerInv, ServedInv, OfflineHasRun, [Next]_vars
             PROVE  ServedInv' /\ OfflineHasRun'
  OBVIOUS
<1> USE CloudConfigAssumption
<1>1. ASSUME NEW n \in Nodes, NEW s \in Saves, SaveBegins(n, s)
      PROVE  ServedInv' /\ OfflineHasRun'
  <2>1. op[n] = {} /\ desired' = [desired EXCEPT ![n] = cloud] /\ UNCHANGED <<activeFile, app, ran>>
    BY <1>1 DEF SaveBegins, Idle, Adopts
  <2>2. ASSUME NEW m \in Nodes, NEW p \in puts', p.id \in op'[m]
        PROVE  p.config = Append(desired'[m], p.id)
    <3>1. CASE m # n
      <4>1. op'[m] = op[m] /\ desired'[m] = desired[m]
        BY <1>1, <2>1, <3>1 DEF SaveBegins, TypeOK
      <4>2. p \in puts \/ p.id = s
        BY <1>1 DEF SaveBegins
      <4>3. s \notin op[m]
        BY <1>1 DEF SaveBegins, Unused, LedgerInv, OpInv
      <4> QED
        BY <2>2, <4>1, <4>2, <4>3 DEF ServedInv
    <3>2. CASE m = n
      <4>1. p.id = s /\ desired'[m] = cloud
        BY <1>1, <2>1, <2>2, <3>2 DEF SaveBegins, TypeOK
      <4>2. \A q \in puts : q.id # s
        BY <1>1 DEF SaveBegins, Unused, LedgerInv, PutInv
      <4>3. p = [id |-> s, etag |-> etag, config |-> Append(cloud, s), answer |-> "none"]
        BY <1>1, <4>1, <4>2 DEF SaveBegins
      <4> QED
        BY <4>1, <4>3
    <3> QED
      BY <3>1, <3>2
  <2> QED
    BY <2>1, <2>2, ServedFrame
<1>2. ASSUME NEW n \in Nodes, NEW p \in puts,
             Saved(n, p) \/ SaveConflicts(n, p) \/ SaveUncertain(n, p)
      PROVE  ServedInv' /\ OfflineHasRun'
  <2>1. op' = [op EXCEPT ![n] = {}] /\ puts' \subseteq puts /\ UNCHANGED <<activeFile, app, ran>>
    BY <1>2 DEF Saved, SaveConflicts, SaveUncertain, Ends, cluster
  <2>2. \A m \in Nodes : m # n => desired'[m] = desired[m]
    BY <1>2 DEF Saved, SaveConflicts, SaveUncertain, Adopts, TypeOK
  <2>3. ASSUME NEW m \in Nodes, NEW q \in puts', q.id \in op'[m]
        PROVE  q.config = Append(desired'[m], q.id)
    <3>1. m # n /\ op'[m] = op[m] /\ q \in puts
      BY <2>1, <2>3 DEF TypeOK
    <3> QED
      BY <2>2, <2>3, <3>1 DEF ServedInv
  <2> QED
    BY <2>1, <2>3, ServedFrame
<1>3. ASSUME NEW n \in Nodes, Reconciles(n) \/ ReconcileFails(n)
      PROVE  ServedInv' /\ OfflineHasRun'
  <2>1. UNCHANGED <<op, puts, activeFile, app, ran>> /\ op[n] = {}
    BY <1>3 DEF Reconciles, ReconcileFails, Refreshes, Round, cluster
  <2>2. \A m \in Nodes : m # n => desired'[m] = desired[m]
    BY <1>3 DEF Reconciles, ReconcileFails, Refreshes, Adopts, TypeOK
  <2> QED
    BY <2>1, <2>2, ServedFrame DEF ServedInv
<1>4. ASSUME NEW n \in Nodes, ControlPlaneDies(n)
      PROVE  ServedInv' /\ OfflineHasRun'
  BY <1>4, ServedFrame DEF ControlPlaneDies, cluster, ServedInv, TypeOK
<1>5. ASSUME NEW p \in puts, CloudHandles(p)
      PROVE  ServedInv' /\ OfflineHasRun'
  <2>1. UNCHANGED <<op, desired, activeFile, app, ran>>
    BY <1>5 DEF CloudHandles, control
  <2>2. \A q \in puts' : \E r \in puts : q.id = r.id /\ q.config = r.config
    <3>1. p \in [id : Saves, etag : Nat, config : Logs, answer : {"none", "ok", "conflict"}]
      BY DEF TypeOK
    <3>2. \A a : [p EXCEPT !.answer = a].id = p.id /\ [p EXCEPT !.answer = a].config = p.config
      BY <3>1
    <3> QED
      BY <1>5, <3>2 DEF CloudHandles
  <2> QED
    BY <2>1, <2>2, ServedFrame DEF ServedInv
<1>6. ASSUME NEW n \in Apps, BootsFromDrive(n) \/ BootsOffline(n)
      PROVE  ServedInv' /\ OfflineHasRun'
  <2>1. UNCHANGED <<op, desired, puts, activeFile, ran>>
    BY <1>6 DEF BootsFromDrive, BootsOffline, Boot, cluster, control
  <2>2. \A m \in Apps : m # n => app'[m] = app[m]
    BY <1>6 DEF BootsFromDrive, BootsOffline, Boot, TypeOK
  <2>3. CASE BootsFromDrive(n)
    <3>1. app'[n] = [run |-> cloud, source |-> "drive"]
      BY <2>3 DEF BootsFromDrive, Boot, TypeOK
    <3>2. \A a \in activeFile[n] : Follows(cloud, a)
      <4>1. cloud \in Logs /\ {desiredFile[n]} \cup activeFile[n] \in SUBSET Logs
        BY DEF TypeOK
      <4> QED
        BY <2>3, <4>1, AboveFollows DEF BootsFromDrive
    <3> QED
      BY <2>1, <2>2, <3>1, <3>2 DEF ServedInv, OfflineHasRun
  <2>4. CASE BootsOffline(n)
    <3>1. PICK c \in activeFile[n] : app'[n] = [run |-> c, source |-> "active_lkg"]
      BY <2>4 DEF BootsOffline, LastGood, Boot, TypeOK
    <3>2. \A a \in activeFile[n] : a = c
      BY <3>1 DEF ServedInv
    <3> QED
      BY <2>1, <2>2, <3>1, <3>2 DEF ServedInv, OfflineHasRun, Follows
  <2> QED
    BY <1>6, <2>3, <2>4
<1>7. ASSUME NEW n \in Apps, Serves(n)
      PROVE  ServedInv' /\ OfflineHasRun'
  <2>1. /\ UNCHANGED <<op, desired, puts>> /\ app'[n] = NotBooting
        /\ ran'[n] = ran[n] \cup {app[n].run}
        /\ activeFile'[n] = activeFile[n] \/ activeFile'[n] = {app[n].run}
    BY <1>7 DEF Serves, cluster, control, TypeOK
  <2>2. \A m \in Apps : m # n => app'[m] = app[m] /\ ran'[m] = ran[m]
    BY <1>7 DEF Serves, TypeOK
  <2>3. \A m \in Nodes : m # n => activeFile'[m] = activeFile[m]
    BY <1>7 DEF Serves, TypeOK
  <2> QED
    BY <2>1, <2>2, <2>3 DEF ServedInv, OfflineHasRun, NotBooting
<1>8. ASSUME NEW n \in Apps, AppEnds(n)
      PROVE  ServedInv' /\ OfflineHasRun'
  <2>1. /\ UNCHANGED <<op, desired, puts, activeFile, ran>> /\ app'[n] = NotBooting
        /\ \A m \in Apps : m # n => app'[m] = app[m]
    BY <1>8 DEF AppEnds, cluster, control, TypeOK
  <2> QED
    BY <2>1 DEF ServedInv, OfflineHasRun, NotBooting
<1>9. CASE \E n \in Hearing, r \in Announced : HintArrives(n, r)
  BY <1>9, ServedFrame DEF HintArrives, cluster, control, ServedInv
<1>10. CASE \E n \in Syncs : SyncStarts(n) \/ SyncWrites(n) \/ SyncEnds(n) \/ SyncFails(n)
  BY <1>10, ServedFrame
     DEF SyncStarts, SyncWrites, SyncEnds, SyncFails, Banks, cluster, control, ServedInv
<1>11. CASE CloudRestored
  BY <1>11, ServedFrame DEF CloudRestored, control, ServedInv
<1>12. CASE UNCHANGED vars
  BY <1>12, ServedFrame DEF vars, cluster, control, ServedInv
<1> QED
  BY <1>1, <1>2, <1>3, <1>4, <1>5, <1>6, <1>7, <1>8, <1>9, <1>10, <1>11, <1>12
     DEF Next, Save, Core

-----------------------------------------------------------------------------
(* The soundbank cache.                                                    *)

\* A new target takes the readiness back; the old one leaves everything.
LEMMA AdoptsReady ==
    ASSUME TypeOK, ReadyIsCurrent, NEW n \in Nodes, NEW c, Adopts(n, c)
    PROVE  ReadyIsCurrent'
<1>1. ASSUME NEW b \in [target : SUBSET Logs, work : SUBSET Logs, index : SUBSET Logs,
                        ready : BOOLEAN],
             b.ready => b.index = b.target, Requested(b, c).ready
      PROVE  Requested(b, c).index = Requested(b, c).target
  BY <1>1 DEF Requested
<1> QED
  BY <1>1 DEF ReadyIsCurrent, Adopts, Captures, TypeOK

LEMMA StepReady == TypeOK /\ ReadyIsCurrent /\ [Next]_vars => ReadyIsCurrent'
<1> SUFFICES ASSUME TypeOK, ReadyIsCurrent, [Next]_vars PROVE ReadyIsCurrent'
  OBVIOUS
<1>1. CASE bank' = bank
  BY <1>1 DEF ReadyIsCurrent
<1>2. CASE \E n \in Nodes, c \in {cloud} \cup {p.config : p \in puts} : Adopts(n, c)
  BY <1>2, AdoptsReady
<1>3. ASSUME NEW n \in Nodes, ControlPlaneDies(n)
      PROVE  ReadyIsCurrent'
  BY <1>3 DEF ControlPlaneDies, NoBank, ReadyIsCurrent, TypeOK
<1>4. ASSUME NEW n \in Syncs, SyncStarts(n)
      PROVE  ReadyIsCurrent'
  BY <1>4 DEF SyncStarts, ReadyIsCurrent, TypeOK
<1>5. ASSUME NEW n \in Syncs, SyncWrites(n)
      PROVE  ReadyIsCurrent'
  BY <1>5 DEF SyncWrites, Wanted, ReadyIsCurrent, TypeOK
<1>6. ASSUME NEW n \in Syncs, SyncEnds(n)
      PROVE  ReadyIsCurrent'
  BY <1>6 DEF SyncEnds, Wanted, ReadyIsCurrent, TypeOK
<1>7. ASSUME NEW n \in Syncs, SyncFails(n)
      PROVE  ReadyIsCurrent'
  BY <1>7 DEF SyncFails, ReadyIsCurrent, TypeOK
<1>8. ASSUME NEW n \in Nodes, Save(n) \/ Reconciles(n) \/ ReconcileFails(n)
      PROVE  bank' = bank \/ \E c \in {cloud} \cup {p.config : p \in puts} : Adopts(n, c)
  BY <1>8 DEF Save, SaveBegins, Saved, SaveConflicts, SaveUncertain,
              Reconciles, Refreshes, ReconcileFails
<1>9. ASSUME \/ \E p \in puts : CloudHandles(p)
             \/ \E n \in Hearing, r \in Announced : HintArrives(n, r)
             \/ \E n \in Apps : Core(n)
             \/ CloudRestored
             \/ UNCHANGED vars
      PROVE  bank' = bank
  BY <1>9 DEF CloudHandles, HintArrives, Core, BootsFromDrive, BootsOffline, Boot,
              Serves, AppEnds, CloudRestored, vars
<1> QED
  BY <1>1, <1>2, <1>3, <1>4, <1>5, <1>6, <1>7, <1>8, <1>9 DEF Next

-----------------------------------------------------------------------------
(* The invariant, and what follows from it.                                *)

LEMMA InitInv == Init => IInv
<1> SUFFICES ASSUME Init PROVE IInv
  OBVIOUS
<1> USE CloudConfigAssumption
<1>1. /\ cloud = <<>> /\ etag = 0 /\ puts = {} /\ published = {} /\ restored = FALSE
      /\ faults = 0 /\ Cardinality({}) = 0 /\ <<>> \in Logs /\ Len(<<>>) = 0
  BY EmptyLog, FS_EmptySet DEF Init
<1>2. TypeOK
  <2>1. /\ app \in [Apps -> [run : Logs, source : {"none", "drive", "active_lkg"}]]
        /\ ran \in [Apps -> SUBSET Logs]
    BY <1>1 DEF Init, NotBooting
  <2>2. bank \in [Syncs -> [target : SUBSET Logs, work : SUBSET Logs, index : SUBSET Logs,
                            ready : BOOLEAN]]
    BY DEF Init, NoBank
  <2>3. /\ desired \in [Nodes -> Logs] /\ desiredFile \in [Nodes -> Logs]
        /\ known \in [Nodes -> SUBSET Logs] /\ activeFile \in [Nodes -> SUBSET Logs]
        /\ op \in [Nodes -> SUBSET Saves]
        /\ highest \in [Nodes -> Nat] /\ pending \in [Nodes -> Nat]
        /\ told \in [Saves -> {"none", "pending", "saved", "conflict", "unknown"}]
    BY <1>1 DEF Init
  <2>4. \A n \in Nodes : Cardinality(op[n]) <= 1 /\ Cardinality(activeFile[n]) <= 1
    BY <1>1 DEF Init
  <2>5. /\ cloud \in Logs /\ etag \in Nat /\ faults \in 0 .. Faults /\ restored \in BOOLEAN
        /\ published \subseteq Saves
        /\ puts \subseteq [id : Saves, etag : Nat, config : Logs, answer : {"none", "ok", "conflict"}]
    <3>1. cloud \in Logs
      BY <1>1
    <3>2. faults \in 0 .. Faults /\ etag \in Nat
      BY DEF Init
    <3> QED
      BY <3>1, <3>2 DEF Init
  <2> QED
    BY <2>1, <2>2, <2>3, <2>4, <2>5 DEF TypeOK
<1>3. LedgerInv
  BY <1>1 DEF Init, LedgerInv, LogInv, PutInv, OpInv
<1>4. ServedInv /\ OfflineHasRun /\ ReadyIsCurrent
  BY <1>1 DEF Init, ServedInv, OfflineHasRun, ReadyIsCurrent, NotBooting, NoBank
<1> QED
  BY <1>2, <1>3, <1>4 DEF IInv

LEMMA StepInv == IInv /\ [Next]_vars => IInv'
BY StepType, StepLedger, StepServed, StepReady DEF IInv

LEMMA Invariance == Spec => []IInv
BY InitInv, StepInv, PTL DEF Spec

\* Files, memory and services hold what the code can store.
THEOREM TypeCorrect == Spec => []TypeOK
<1>1. IInv => TypeOK
  BY DEF IInv
<1> QED
  BY <1>1, Invariance, PTL

\* Every step at the Cloud and at its editors is one of the ledger: saves of
\* several nodes form one sequence, and no editor is told anything false.
LEMMA LedgerStep == IInv /\ [Next]_vars => [Ledger!Next]_<<cloud, published, told>>
<1> SUFFICES ASSUME IInv, [Next]_vars PROVE [Ledger!Next]_<<cloud, published, told>>
  OBVIOUS
<1> USE DEF Ledger!Next
<1>1. ASSUME NEW n \in Nodes, NEW s \in Saves, SaveBegins(n, s)
      PROVE  Ledger!Asks(s)
  BY <1>1 DEF SaveBegins, Unused, Idle, Tells, Ledger!Asks
<1>2. ASSUME NEW n \in Nodes, NEW p \in puts,
             Saved(n, p) \/ SaveConflicts(n, p) \/ SaveUncertain(n, p)
      PROVE  p.id \in Saves /\ Ledger!Tells(p.id)
  <2>1. p.id \in Saves /\ told[p.id] = "pending" /\ UNCHANGED <<cloud, published>>
    BY <1>2 DEF IInv, LedgerInv, OpInv, TypeOK, Saved, SaveConflicts, SaveUncertain,
                Ends, cluster
  <2>2. \/ p.id \in published /\ Tells(p.id, "saved")
        \/ p.id \notin published /\ Tells(p.id, "conflict")
        \/ Tells(p.id, "unknown")
    BY <1>2 DEF IInv, LedgerInv, PutInv, Saved, SaveConflicts, SaveUncertain, NoAnswer
  <2> QED
    BY <2>1, <2>2 DEF Tells, Ledger!Tells
<1>3. ASSUME NEW n \in Nodes, ControlPlaneDies(n)
      PROVE  UNCHANGED <<cloud, published, told>> \/ \E s \in Saves : Ledger!Tells(s)
  <2>1. UNCHANGED <<cloud, published>> /\ op[n] \subseteq Saves
    BY <1>3 DEF ControlPlaneDies, cluster, IInv, TypeOK
  <2>2. CASE op[n] = {}
    BY <1>3, <2>1, <2>2 DEF ControlPlaneDies, IInv, TypeOK
  <2>3. ASSUME NEW s \in op[n]
        PROVE  Ledger!Tells(s)
    <3>1. op[n] = {s} /\ told[s] = "pending"
      BY <2>3 DEF IInv, LedgerInv, OpInv
    <3>2. told' = [told EXCEPT ![s] = "unknown"]
      BY <1>3, <3>1 DEF ControlPlaneDies, IInv, TypeOK
    <3> QED
      BY <2>1, <3>1, <3>2 DEF Ledger!Tells
  <2> QED
    BY <2>1, <2>2, <2>3
<1>4. ASSUME NEW p \in puts, CloudHandles(p)
      PROVE  UNCHANGED <<cloud, published, told>> \/ (p.id \in Saves /\ Ledger!Publishes(p.id))
  <2>1. UNCHANGED told /\ p.id \in Saves /\ p.answer = "none"
    BY <1>4 DEF CloudHandles, control, IInv, TypeOK
  <2>2. p.id \notin published /\ told[p.id] \in {"pending", "unknown"}
    BY <2>1 DEF IInv, LedgerInv, PutInv
  <2>3. Matches(p) => p.config = Append(cloud, p.id)
    BY <2>1 DEF IInv, LedgerInv, PutInv
  <2> QED
    BY <1>4, <2>1, <2>2, <2>3 DEF CloudHandles, Ledger!Publishes
<1>5. ASSUME CloudRestored
      PROVE  Ledger!Restores
  <2>1. Len(cloud) \in Nat
    BY LogsAre DEF IInv, TypeOK
  <2> QED
    BY <1>5, <2>1 DEF CloudRestored, control, Ledger!Restores
<1>6. ASSUME \/ \E n \in Nodes : Reconciles(n) \/ ReconcileFails(n)
             \/ \E n \in Hearing, r \in Announced : HintArrives(n, r)
             \/ \E n \in Syncs : SyncStarts(n) \/ SyncWrites(n) \/ SyncEnds(n) \/ SyncFails(n)
             \/ \E n \in Apps : Core(n)
             \/ UNCHANGED vars
      PROVE  UNCHANGED <<cloud, published, told>>
  BY <1>6 DEF Reconciles, ReconcileFails, Round, HintArrives, SyncStarts, SyncWrites,
              SyncEnds, SyncFails, Banks, Core, BootsFromDrive, BootsOffline, Boot,
              Serves, AppEnds, cluster, control, vars
<1> QED
  BY <1>1, <1>2, <1>3, <1>4, <1>5, <1>6 DEF Next, Save, IInv, TypeOK

\* The shared configuration implements the ledger, whatever is lost on the way.
THEOREM ImplementsLedger == Spec => LedgerSpec
<1>1. Init => Ledger!Init
  BY DEF Init, Ledger!Init
<1> QED
  BY <1>1, LedgerStep, Invariance, PTL DEF Spec, LedgerSpec, Ledger!Spec

\* No step takes a node back: neither its snapshot nor what it falls back on.
LEMMA ForwardStep ==
    ASSUME IInv, [Next]_vars, NEW n \in Nodes
    PROVE  /\ \A a \in activeFile'[n], b \in activeFile[n] : Follows(a, b)
           /\ desired[n] = desiredFile[n] => Follows(desired'[n], desired[n])
<1> USE CloudConfigAssumption DEF IInv
<1>1. \A a \in activeFile'[n], b \in activeFile[n] : Follows(a, b)
  <2>1. ASSUME NEW m \in Apps, Serves(m)
        PROVE  \A a \in activeFile'[n], b \in activeFile[n] : Follows(a, b)
    <3>1. CASE activeFile'[n] = activeFile[n]
      BY <3>1 DEF ServedInv, Follows
    <3>2. CASE activeFile'[n] # activeFile[n]
      <4>1. n = m /\ activeFile'[n] = {app[n].run} /\ app[n] # NotBooting
        BY <2>1, <3>2 DEF Serves, TypeOK
      <4> QED
        BY <4>1 DEF ServedInv
    <3> QED
      BY <3>1, <3>2
  <2>2. CASE activeFile' = activeFile
    BY <2>2 DEF ServedInv, Follows
  <2>3. activeFile' = activeFile \/ \E m \in Apps : Serves(m)
    BY DEF Next, Save, SaveBegins, Idle, Saved, SaveConflicts, SaveUncertain, Ends,
           Reconciles, ReconcileFails, Round, ControlPlaneDies, CloudHandles, HintArrives,
           SyncStarts, SyncWrites, SyncEnds, SyncFails, Banks, Core, BootsFromDrive,
           BootsOffline, Boot, AppEnds, CloudRestored, vars
  <2> QED
    BY <2>1, <2>2, <2>3
<1>2. ASSUME desired[n] = desiredFile[n]
      PROVE  Follows(desired'[n], desired[n])
  <2>1. CASE desired'[n] = desired[n]
    BY <2>1 DEF Follows
  <2>2. ASSUME Above(cloud, {desired[n]} \cup Seen(n)) \/ Above(cloud, {desired[n]} \cup known[n]),
               desired'[n] = cloud
        PROVE  Follows(desired'[n], desired[n])
    <3>1. cloud \in Logs /\ {desired[n]} \in SUBSET Logs /\ Above(cloud, {desired[n]})
      BY <2>2 DEF TypeOK, Above
    <3> QED
      BY <2>2, <3>1, AboveFollows
  <2>3. ASSUME NEW p \in puts, Saved(n, p)
        PROVE  Follows(desired'[n], desired[n])
    <3>1. desired'[n] = Append(desired[n], p.id) /\ p.id \in Saves
      BY <2>3 DEF Saved, Ends, Adopts, ServedInv, TypeOK
    <3>2. desired[n] \in Seq(Saves)
      BY LogsAre DEF TypeOK
    <3> QED
      BY <3>1, <3>2 DEF Follows
  <2>4. ASSUME NEW m \in Nodes, Save(m) \/ Reconciles(m)
        PROVE  Follows(desired'[n], desired[n])
    <3>1. CASE m # n
      BY <2>1, <2>4, <3>1 DEF Save, SaveBegins, Saved, SaveConflicts, SaveUncertain,
                              Reconciles, Refreshes, Adopts, TypeOK
    <3>2. CASE m = n
      BY <2>1, <2>2, <2>3, <2>4, <3>2
         DEF Save, SaveBegins, SaveConflicts, SaveUncertain,
             Reconciles, Refreshes, Adopts, TypeOK
    <3> QED
      BY <3>1, <3>2
  <2>5. ASSUME NEW m \in Nodes, ControlPlaneDies(m)
        PROVE  desired'[n] = desired[n]
    BY <1>2, <2>5 DEF ControlPlaneDies, TypeOK
  <2>6. ASSUME \/ \E m \in Nodes : ReconcileFails(m)
               \/ \E p \in puts : CloudHandles(p)
               \/ \E m \in Hearing, r \in Announced : HintArrives(m, r)
               \/ \E m \in Syncs : SyncStarts(m) \/ SyncWrites(m) \/ SyncEnds(m) \/ SyncFails(m)
               \/ \E m \in Apps : Core(m)
               \/ CloudRestored
               \/ UNCHANGED vars
        PROVE  desired' = desired
    BY <2>6 DEF ReconcileFails, Round, CloudHandles, HintArrives, SyncStarts, SyncWrites,
                SyncEnds, SyncFails, Banks, Core, BootsFromDrive, BootsOffline, Boot,
                Serves, AppEnds, CloudRestored, control, vars
  <2> QED
    BY <2>1, <2>4, <2>5, <2>6 DEF Next
<1> QED
  BY <1>1, <1>2

\* A node goes forward with its own, and neither its core nor its soundbank
\* works with what was not meant for it.
THEOREM WorksForwardHolds == Spec => WorksForward
<1>1. IInv => OfflineHasRun /\ ReadyIsCurrent
  BY DEF IInv
<1>2. IInv /\ [Next]_vars =>
        [\A n \in Nodes :
           /\ \A a \in activeFile'[n], b \in activeFile[n] : Follows(a, b)
           /\ desired[n] = desiredFile[n] => Follows(desired'[n], desired[n])]_vars
  BY ForwardStep
<1> QED
  BY <1>1, <1>2, Invariance, PTL DEF Spec, WorksForward, NeverBack
=============================================================================
