-------------------------- MODULE CloudMemory_proofs --------------------------
(***************************************************************************)
(* Proofs about CloudMemory for all nodes, edits and numbers of faults.    *)
(* The invariant says where a request can be, so that no edit is made      *)
(* twice, and what a publication on its way carries.                       *)
(***************************************************************************)
EXTENDS CloudMemory, FiniteSetTheorems, TLAPS

\* Which sets the services hold, and that each lock has one holder.
StoreInv ==
    /\ current \in [Nodes -> SUBSET Logs] /\ file \in [Nodes -> SUBSET Logs]
    /\ jobs \in [Nodes -> SUBSET Saves] /\ op \in [Nodes -> SUBSET Saves]
    /\ \A n \in Nodes :
         /\ \A c, d \in current[n] : c = d
         /\ \A c, d \in file[n] : c = d
         /\ \A s, t \in op[n] : s = t
         /\ op[n] \subseteq jobs[n] /\ Cardinality(jobs[n]) <= MaxJobs

\* A request is at one node, which remembers it as long as it is not late.
At(s, n) == s \in jobs[n] \/ <<s, n>> \in sent
RequestInv ==
    /\ \A s \in Saves, n, m \in Nodes : At(s, n) /\ At(s, m) => n = m
    /\ \A s \in Saves, n \in Nodes : At(s, n) => told[s] # "none"
    /\ \A s \in Browser, n \in Nodes : <<s, n>> \notin sent
    /\ \A n \in Nodes : jobs[n] \ Browser \subseteq seen[n]
    /\ \A s \in late : told[s] = "unknown"

\* While it can still be executed, its editor has not been told how it went.
OpenInv ==
    \A s \in Saves, n \in Nodes :
        /\ s \in jobs[n] => told[s] \in {"pending", "unknown"}
        /\ <<s, n>> \in sent => s \in seen[n] \/ told[s] \in {"pending", "unknown"}

\* What has been sent to the Cloud is not begun again.
Spent(s) == s \in published \/ \E p \in puts : p.id = s
SpentInv ==
    \A s \in Saves : Spent(s) =>
        /\ told[s] # "none"
        /\ \A n \in Nodes :
             /\ s \in op[n] => \E p \in puts : p.id = s
             /\ s \in jobs[n] => s \in op[n] \/ s \in late \ Browser
             /\ <<s, n>> \in sent => s \in seen[n] \/ s \in late

\* A publication extends what the manifest was when it was sent: what its
\* author had seen.
PutInv ==
    /\ \A p \in puts :
         /\ p.etag <= etag
         /\ Len(p.config) <= Cardinality(published \cup {p.id})
         /\ p.answer = "none" =>
              /\ p.id \notin published /\ told[p.id] \in {"pending", "unknown"}
              /\ Matches(p) => p.config = Append(cloud, p.id) /\ Revision(cloud) = base[p.id]
         /\ p.answer = "ok" => p.id \in published
         /\ p.answer = "conflict" => p.id \notin published
    /\ \A p, q \in puts : p.id = q.id => p = q

LogInv == Len(cloud) <= Cardinality(published)

\* While an edit holds the lock of its node, what it publishes is ahead of all
\* that the node has.
AheadInv ==
    \A n \in Nodes, p \in puts : p.id \in op[n] =>
        \A c \in current[n] \cup file[n] : Len(p.config) > Len(c)

IInv == /\ TypeOK /\ StoreInv /\ RequestInv /\ OpenInv
        /\ SpentInv /\ PutInv /\ LogInv /\ AheadInv

-----------------------------------------------------------------------------
(* Documents are bounded sequences of edits.                               *)

LEMMA LogsAre == \A c : c \in Logs <=> c \in Seq(Saves) /\ Len(c) <= Cardinality(Saves)
<1>1. Cardinality(Saves) \in Nat
  BY CloudMemoryAssumption, FS_CardinalityType
<1> QED
  BY <1>1 DEF Logs

\* How many saves have been published, with one more or without.
LEMMA PublishedFacts ==
    ASSUME NEW P \in SUBSET Saves, NEW s \in Saves
    PROVE  /\ Cardinality(P) \in Nat /\ Cardinality(P) <= Cardinality(Saves)
           /\ Cardinality(P \cup {s}) \in Nat
           /\ Cardinality(P) <= Cardinality(P \cup {s})
           /\ Cardinality(P \cup {s}) <= Cardinality(Saves)
           /\ s \notin P => Cardinality(P \cup {s}) = Cardinality(P) + 1
           /\ Cardinality(Saves) \in Nat
<1>1. IsFiniteSet(P) /\ Cardinality(P) <= Cardinality(Saves)
  BY CloudMemoryAssumption, FS_Subset
<1>2. P \cup {s} \in SUBSET Saves
  OBVIOUS
<1>3. Cardinality(P \cup {s}) <= Cardinality(Saves)
  BY <1>2, CloudMemoryAssumption, FS_Subset
<1>4. /\ IsFiniteSet(P \cup {s})
      /\ Cardinality(P \cup {s}) = IF s \in P THEN Cardinality(P) ELSE Cardinality(P) + 1
  BY <1>1, FS_AddElement
<1>5. Cardinality(P) \in Nat /\ Cardinality(P \cup {s}) \in Nat /\ Cardinality(Saves) \in Nat
  BY <1>1, <1>4, CloudMemoryAssumption, FS_CardinalityType
<1> QED
  BY <1>1, <1>3, <1>4, <1>5

LEMMA SetsOfOne == \A x : Cardinality({x}) = 1 /\ Cardinality({}) = 0
BY FS_EmptySet, FS_Singleton

LEMMA EmptyLog == <<>> \in Logs
<1>1. Cardinality(Saves) \in Nat
  BY CloudMemoryAssumption, FS_CardinalityType
<1>2. <<>> \in Seq(Saves) /\ Len(<<>>) = 0
  OBVIOUS
<1> QED
  BY <1>1, <1>2 DEF Logs


LEMMA OptionalFacts ==
    ASSUME NEW S, NEW T \in SUBSET S, \A c, d \in T : c = d
    PROVE  T \in Optional(S)
<1>1. CASE T = {}
  BY <1>1, SetsOfOne DEF Optional
<1>2. CASE T # {}
  <2>1. PICK c \in T : TRUE
    BY <1>2
  <2>2. T = {c}
    BY <2>1
  <2>3. Cardinality(T) = 1
    BY <2>2, SetsOfOne
  <2> QED
    BY <2>3 DEF Optional
<1> QED
  BY <1>1, <1>2

\* The revision of a document fits what is written down of it.
LEMMA RevisionFacts ==
    ASSUME NEW c \in Logs
    PROVE  /\ Len(c) \in Nat /\ Revision(c) = Len(c) + 1
           /\ Revision(c) \in 0 .. Cardinality(Saves) + 1
<1>1. Cardinality(Saves) \in Nat
  BY CloudMemoryAssumption, FS_CardinalityType
<1>2. c \in Seq(Saves) /\ Len(c) <= Cardinality(Saves)
  BY LogsAre
<1> QED
  BY <1>1, <1>2 DEF Revision

\* The jobs of a service, with one more or one less.
LEMMA JobFacts ==
    ASSUME NEW J \in SUBSET Saves, NEW s \in Saves, Cardinality(J) <= MaxJobs
    PROVE  /\ Cardinality(J) < MaxJobs => Cardinality(J \cup {s}) <= MaxJobs
           /\ Cardinality(J \ {s}) <= MaxJobs
           /\ Cardinality({}) <= MaxJobs
<1>1. IsFiniteSet(J)
  BY CloudMemoryAssumption, FS_Subset
<1>2. Cardinality(J) \in Nat /\ MaxJobs \in Nat /\ MaxJobs > 0
  BY <1>1, CloudMemoryAssumption, FS_CardinalityType
<1>3. Cardinality(J \cup {s}) = IF s \in J THEN Cardinality(J) ELSE Cardinality(J) + 1
  BY <1>1, FS_AddElement
<1>4. Cardinality(J \ {s}) = IF s \in J THEN Cardinality(J) - 1 ELSE Cardinality(J)
  BY <1>1, FS_RemoveElement
<1>5. Cardinality({}) = 0
  BY SetsOfOne
<1> QED
  BY <1>2, <1>3, <1>4, <1>5

-----------------------------------------------------------------------------
(* Reading: neither the memory of a node nor its file goes back.           *)

LEMMA FetchedFacts ==
    ASSUME TypeOK, StoreInv, NEW n \in Nodes, NEW F \in SUBSET Logs, NEW c \in Fetched(F),
           \A d, e \in F : d = e
    PROVE  c \in Logs /\ \A f \in F : f = c \/ Len(c) > Len(f)
<1>1. cloud \in Logs
  BY DEF TypeOK
<1> QED
  BY <1>1 DEF Fetched, Above

LEMMA KnownFacts ==
    ASSUME TypeOK, StoreInv, NEW n \in Nodes, Agrees(n), NEW c,
           \A f \in Known(n) : f = c \/ Len(c) > Len(f)
    PROVE  /\ \A f \in file[n] \cup current[n] : f = c \/ Len(c) > Len(f) \/ Known(n) = {}
           /\ Known(n) = {} => file[n] \cup current[n] = {}
<1>1. \A d \in file[n] \cup current[n] : d \in Logs /\ Len(d) \in Nat
  BY RevisionFacts DEF StoreInv
<1>2. CASE \E f \in file[n] : \A d \in current[n] : Len(f) >= Len(d)
  BY <1>1, <1>2 DEF Known, Agrees, StoreInv
<1>3. CASE ~ \E f \in file[n] : \A d \in current[n] : Len(f) >= Len(d)
  BY <1>1, <1>3 DEF Known, Agrees, StoreInv
<1> QED
  BY <1>2, <1>3

LEMMA SyncsFacts ==
    ASSUME TypeOK, StoreInv, NEW n \in Nodes, Syncs(n)
    PROVE  /\ faults' \in 0 .. Faults
           /\ current' \in [Nodes -> SUBSET Logs] /\ file' \in [Nodes -> SUBSET Logs]
           /\ \A m \in Nodes : m # n => current'[m] = current[m] /\ file'[m] = file[m]
           /\ \A c, d \in current'[n] : c = d
           /\ \A c, d \in file'[n] : c = d
           /\ \A c \in current[n], d \in current'[n] : c = d \/ Len(d) > Len(c)
           /\ \A c \in file[n], d \in file'[n] : c = d \/ Len(d) > Len(c)
<1>1. PICK c \in Fetched(Known(n)) :
         \/ /\ file' = [file EXCEPT ![n] = {c}] /\ current' = [current EXCEPT ![n] = {c}]
            /\ UNCHANGED faults
         \/ Faulty /\ UNCHANGED <<file, current>>
  BY DEF Syncs
<1>2. Known(n) \in SUBSET Logs /\ \A d, e \in Known(n) : d = e
  BY DEF Known, StoreInv
<1>3. c \in Logs /\ \A f \in Known(n) : f = c \/ Len(c) > Len(f)
  BY <1>1, <1>2, FetchedFacts
<1>4. Agrees(n)
  BY DEF Syncs
<1>5. \A f \in file[n] \cup current[n] : f = c \/ Len(c) > Len(f)
  BY <1>3, <1>4, KnownFacts
<1>6. faults' \in 0 .. Faults
  BY <1>1, CloudMemoryAssumption DEF Faulty, TypeOK
<1>7. CASE UNCHANGED <<file, current>>
  BY <1>6, <1>7 DEF StoreInv
<1>8. CASE file' = [file EXCEPT ![n] = {c}] /\ current' = [current EXCEPT ![n] = {c}]
  <2>1. current'[n] = {c} /\ file'[n] = {c}
    BY <1>8 DEF StoreInv
  <2>2. current' \in [Nodes -> SUBSET Logs] /\ file' \in [Nodes -> SUBSET Logs]
    BY <1>3, <1>8 DEF StoreInv
  <2>3. \A m \in Nodes : m # n => current'[m] = current[m] /\ file'[m] = file[m]
    BY <1>8 DEF StoreInv
  <2> QED
    BY <1>5, <1>6, <2>1, <2>2, <2>3
<1> QED
  BY <1>1, <1>7, <1>8

-----------------------------------------------------------------------------
(* What an action has to show, if it leaves the rest alone.                *)

LEMMA TypeFromStore ==
    ASSUME StoreInv', cloud' \in Logs, etag' \in Nat,
           puts' \subseteq [id : Saves, etag : Nat, config : Logs,
                           answer : {"none", "ok", "conflict"}],
           sent' \subseteq Saves \X Nodes, seen' \in [Nodes -> SUBSET Saves],
           base' \in [Saves -> 0 .. Cardinality(Saves) + 1],
           late' \subseteq Saves, published' \subseteq Saves,
           told' \in [Saves -> {"none", "pending", "saved", "conflict", "unknown"}],
           faults' \in 0 .. Faults, restored' \in BOOLEAN
    PROVE  TypeOK'
<1>1. ASSUME NEW n \in Nodes
      PROVE  /\ current'[n] \in Optional(Logs) /\ file'[n] \in Optional(Logs)
             /\ op'[n] \in Optional(jobs'[n]) /\ Cardinality(jobs'[n]) <= MaxJobs
  <2>1. /\ current'[n] \in SUBSET Logs /\ \A c, d \in current'[n] : c = d
        /\ file'[n] \in SUBSET Logs /\ \A c, d \in file'[n] : c = d
        /\ op'[n] \in SUBSET (jobs'[n]) /\ \A c, d \in op'[n] : c = d
        /\ Cardinality(jobs'[n]) <= MaxJobs
    BY DEF StoreInv
  <2> QED
    BY <2>1, OptionalFacts
<1> QED
  BY <1>1 DEF TypeOK

LEMMA PutFrame ==
    ASSUME PutInv, LogInv, UNCHANGED <<cloud, etag, published>>, puts' \subseteq puts,
           \A p \in puts' : p.answer = "none" =>
               told'[p.id] \in {"pending", "unknown"} /\ base'[p.id] = base[p.id]
    PROVE  PutInv' /\ LogInv'
BY DEF PutInv, LogInv, Matches, Revision

LEMMA AheadFrame ==
    ASSUME AheadInv, puts' \subseteq puts,
           \A n \in Nodes : /\ op'[n] \subseteq op[n]
                            /\ op'[n] # {} => current'[n] = current[n] /\ file'[n] = file[n]
    PROVE  AheadInv'
BY DEF AheadInv

\* Where requests are, if fewer are left and none is forgotten or answered.
LEMMA ServiceFrame ==
    ASSUME TypeOK, StoreInv, RequestInv, OpenInv, SpentInv,
           UNCHANGED <<seen, late, told, published, puts>>, sent' \subseteq sent,
           \A n \in Nodes : jobs'[n] = jobs[n] /\ op'[n] = op[n]
    PROVE  RequestInv' /\ OpenInv' /\ SpentInv'
<1>1. \A s \in Saves, n \in Nodes : At(s, n)' => At(s, n)
  BY DEF At
<1>2. RequestInv'
  BY <1>1 DEF RequestInv
<1>3. OpenInv'
  BY DEF OpenInv
<1>4. SpentInv'
  BY DEF SpentInv, Spent
<1> QED
  BY <1>2, <1>3, <1>4

\* What an editor hears: once, and a refusal only a browser does.
LEMMA HearsFacts ==
    ASSUME TypeOK, NEW s \in Saves, NEW a \in {"saved", "conflict", "unknown"}, Hears(s, a)
    PROVE  /\ told' \in [Saves -> {"none", "pending", "saved", "conflict", "unknown"}]
           /\ \A t \in Saves : t # s => told'[t] = told[t]
           /\ told'[s] # told[s] =>
                /\ told[s] = "pending"
                /\ \/ told'[s] = "unknown"
                   \/ told'[s] = "saved" /\ a = "saved"
                   \/ told'[s] = "conflict" /\ a = "conflict" /\ s \in Browser
BY DEF Hears, Tells, Answer, TypeOK

-----------------------------------------------------------------------------
(* The actions.                                                            *)

LEMMA GivesUpInv ==
    ASSUME IInv, NEW s \in Saves, GivesUp(s)
    PROVE  IInv'
<1> USE DEF IInv
<1>1. /\ told[s] = "pending" /\ told'[s] = "unknown" /\ late' = late \cup {s}
      /\ \A t \in Saves : t # s => told'[t] = told[t]
      /\ UNCHANGED <<cluster, store, seen, op, sent, jobs, base>>
  BY DEF GivesUp, Tells, Editor, TypeOK
<1>2. TypeOK' /\ StoreInv'
  <2>1. told' \in [Saves -> {"none", "pending", "saved", "conflict", "unknown"}]
    BY DEF GivesUp, Tells, TypeOK
  <2>2. StoreInv'
    BY <1>1 DEF StoreInv, store
  <2> QED
    BY <1>1, <2>1, <2>2, TypeFromStore DEF TypeOK, cluster, store
<1>3. RequestInv'
  BY <1>1 DEF RequestInv, At, TypeOK
<1>4. OpenInv'
  BY <1>1 DEF OpenInv
<1>5. SpentInv'
  BY <1>1 DEF SpentInv, Spent, cluster
<1>6. PutInv' /\ LogInv'
  BY <1>1, PutFrame DEF PutInv, cluster, TypeOK
<1>7. AheadInv'
  BY <1>1, AheadFrame DEF cluster, store
<1> QED
  BY <1>2, <1>3, <1>4, <1>5, <1>6, <1>7

LEMMA AsksInv ==
    ASSUME IInv, NEW n \in Nodes, NEW s \in Saves, Asks(n, s) \/ BrowserEdits(n, s)
    PROVE  IInv'
<1> USE DEF IInv
<1>1. /\ told[s] = "none" /\ told'[s] = "pending" /\ UNCHANGED <<cluster, store, seen, op, late, base>>
      /\ \A t \in Saves : t # s => told'[t] = told[t]
  BY DEF Asks, BrowserEdits, Unused, Tells, Editor, TypeOK
<1>2. \/ s \notin Browser /\ sent' = sent \cup {<<s, n>>} /\ UNCHANGED jobs
      \/ /\ s \in Browser /\ UNCHANGED sent /\ jobs' = [jobs EXCEPT ![n] = jobs[n] \cup {s}]
         /\ Free(n)
  BY DEF Asks, BrowserEdits
<1>3. ~Spent(s) /\ \A m \in Nodes : ~At(s, m)
  BY <1>1 DEF SpentInv, RequestInv
<1>4. StoreInv'
  <2>1. jobs' \in [Nodes -> SUBSET Saves] /\ \A m \in Nodes : op'[m] \subseteq jobs'[m]
    BY <1>1, <1>2 DEF StoreInv
  <2>2. \A m \in Nodes : Cardinality(jobs'[m]) <= MaxJobs
    BY <1>2, JobFacts DEF StoreInv, Free
  <2> QED
    BY <1>1, <2>1, <2>2 DEF StoreInv, store
<1>5. TypeOK'
  <2>1. told' \in [Saves -> {"none", "pending", "saved", "conflict", "unknown"}]
    BY DEF Asks, BrowserEdits, Tells, TypeOK
  <2>2. sent' \subseteq Saves \X Nodes
    BY <1>2 DEF TypeOK
  <2> QED
    BY <1>1, <1>4, <2>1, <2>2, TypeFromStore DEF TypeOK, cluster, store
<1>6. \A t \in Saves, m \in Nodes : At(t, m)' => At(t, m) \/ (t = s /\ m = n)
  BY <1>2 DEF At, StoreInv
<1>7. RequestInv'
  <2>1. /\ \A t \in Saves, m, k \in Nodes : At(t, m)' /\ At(t, k)' => m = k
        /\ \A t \in Saves, m \in Nodes : At(t, m)' => told'[t] # "none"
    BY <1>1, <1>3, <1>6 DEF RequestInv
  <2>2. \A t \in Browser, m \in Nodes : <<t, m>> \notin sent'
    <3>1. \A t, m : <<t, m>> \in sent' => <<t, m>> \in sent \/ (t = s /\ s \notin Browser)
      BY <1>2
    <3> QED
      BY <3>1 DEF RequestInv
  <2>3. \A m \in Nodes : jobs'[m] \ Browser \subseteq seen'[m]
    BY <1>1, <1>2 DEF RequestInv, StoreInv
  <2>4. \A t \in late' : told'[t] = "unknown"
    BY <1>1 DEF RequestInv, TypeOK
  <2> QED
    BY <2>1, <2>2, <2>3, <2>4 DEF RequestInv
<1>8. OpenInv'
  <2>1. \A t \in Saves, m \in Nodes : t # s =>
           /\ t \in jobs'[m] => t \in jobs[m]
           /\ <<t, m>> \in sent' => <<t, m>> \in sent
    BY <1>2 DEF StoreInv
  <2> QED
    BY <1>1, <2>1 DEF OpenInv
<1>9. SpentInv'
  <2>1. \A t \in Saves : Spent(t)' => Spent(t) /\ t # s
    BY <1>1, <1>3 DEF Spent, cluster
  <2>2. \A t \in Saves, m \in Nodes : t # s =>
           /\ t \in jobs'[m] => t \in jobs[m]
           /\ <<t, m>> \in sent' => <<t, m>> \in sent
    BY <1>2 DEF StoreInv
  <2> QED
    BY <1>1, <2>1, <2>2 DEF SpentInv, cluster
<1>10. PutInv' /\ LogInv'
  BY <1>1, PutFrame DEF PutInv, cluster, TypeOK
<1>11. AheadInv'
  BY <1>1, AheadFrame DEF cluster, store
<1> QED
  BY <1>4, <1>5, <1>7, <1>8, <1>9, <1>10, <1>11

\* Reading changes the memory and the file of a node whose lock is free.
LEMMA ReadsInv ==
    ASSUME IInv, NEW n \in Nodes, op[n] = {}, UNCHANGED <<cluster, service, client>>,
           faults' \in 0 .. Faults,
           current' \in [Nodes -> SUBSET Logs], file' \in [Nodes -> SUBSET Logs],
           \A m \in Nodes : m # n => current'[m] = current[m] /\ file'[m] = file[m],
           \A c, d \in current'[n] : c = d,
           \A c, d \in file'[n] : c = d
    PROVE  IInv'
<1> USE DEF IInv
<1>1. StoreInv'
  BY DEF StoreInv, service
<1>2. TypeOK'
  BY <1>1, TypeFromStore DEF TypeOK, cluster, service, client
<1>3. RequestInv' /\ OpenInv' /\ SpentInv'
  BY ServiceFrame DEF cluster, service, client
<1>4. PutInv' /\ LogInv'
  BY PutFrame DEF PutInv, cluster, service, client
<1>5. AheadInv'
  BY AheadFrame DEF cluster, service
<1> QED
  BY <1>1, <1>2, <1>3, <1>4, <1>5

LEMMA LooksInv ==
    ASSUME IInv, NEW n \in Nodes, NEW s \in Saves, Looks(n, s)
    PROVE  IInv'
<1> USE DEF IInv
<1>1. /\ op[n] = {} /\ told[s] = "none" /\ Syncs(n) /\ current'[n] # {}
      /\ base' = [base EXCEPT ![s] = Revision(CHOOSE c \in current'[n] : TRUE)]
      /\ UNCHANGED <<cluster, seen, jobs, op, client>>
  BY DEF Looks, Unused
<1>2. StoreInv'
  BY <1>1, SyncsFacts DEF StoreInv
<1>3. TypeOK'
  <2>1. (CHOOSE c \in current'[n] : TRUE) \in Logs
    BY <1>1, <1>2 DEF StoreInv
  <2>2. base' \in [Saves -> 0 .. Cardinality(Saves) + 1]
    BY <1>1, <2>1, RevisionFacts DEF TypeOK
  <2> QED
    BY <1>1, <1>2, <2>2, SyncsFacts, TypeFromStore DEF TypeOK, cluster, client
<1>4. RequestInv' /\ OpenInv' /\ SpentInv'
  BY <1>1, ServiceFrame DEF cluster, client
<1>5. PutInv' /\ LogInv'
  <2>1. \A p \in puts : p.id \in Saves /\ p.id # s
    BY <1>1 DEF SpentInv, Spent, TypeOK
  <2> QED
    BY <1>1, <2>1, PutFrame DEF PutInv, cluster, client, TypeOK
<1>6. AheadInv'
  BY <1>1, SyncsFacts, AheadFrame DEF cluster
<1> QED
  BY <1>2, <1>3, <1>4, <1>5, <1>6

\* A request arrives: it is new to its node, or was seen and is answered.
LEMMA ReceivesInv ==
    ASSUME IInv, NEW n \in Nodes, NEW s \in Saves, Receives(n, s)
    PROVE  IInv'
<1> USE DEF IInv
<1>1. /\ <<s, n>> \in sent /\ sent' \subseteq sent /\ s \notin Browser
      /\ UNCHANGED <<cluster, file, current, op, base, late>> /\ faults' \in 0 .. Faults
  BY CloudMemoryAssumption DEF Receives, RequestInv, TypeOK, Faulty
<1>2. CASE Hears(s, "unknown") /\ UNCHANGED <<seen, jobs>>
  <2>1. /\ told' \in [Saves -> {"none", "pending", "saved", "conflict", "unknown"}]
        /\ \A t \in Saves : told'[t] = told[t] \/ (told[t] = "pending" /\ told'[t] = "unknown")
    BY <1>2, HearsFacts
  <2>2. StoreInv'
    BY <1>1, <1>2 DEF StoreInv
  <2>3. TypeOK'
    BY <1>1, <1>2, <2>1, <2>2, TypeFromStore DEF TypeOK, cluster
  <2>4. \A t \in Saves, m \in Nodes : At(t, m)' => At(t, m)
    BY <1>1, <1>2 DEF At
  <2>5. RequestInv'
    BY <1>1, <1>2, <2>1, <2>4 DEF RequestInv, TypeOK
  <2>6. OpenInv'
    BY <1>1, <1>2, <2>1 DEF OpenInv
  <2>7. SpentInv'
    BY <1>1, <1>2, <2>1 DEF SpentInv, Spent, cluster
  <2>8. PutInv' /\ LogInv'
    BY <1>1, <2>1, PutFrame DEF PutInv, cluster, TypeOK
  <2>9. AheadInv'
    BY <1>1, AheadFrame DEF cluster
  <2> QED
    BY <2>2, <2>3, <2>5, <2>6, <2>7, <2>8, <2>9
<1>3. CASE /\ s \notin seen[n] /\ Free(n)
           /\ seen' = [seen EXCEPT ![n] = @ \cup {s}]
           /\ jobs' = [jobs EXCEPT ![n] = @ \cup {s}] /\ UNCHANGED told
  <2>1. /\ seen' \in [Nodes -> SUBSET Saves] /\ seen'[n] = seen[n] \cup {s}
        /\ \A m \in Nodes : m # n => seen'[m] = seen[m]
    BY <1>3 DEF TypeOK
  <2>2. /\ jobs' \in [Nodes -> SUBSET Saves] /\ jobs'[n] = jobs[n] \cup {s}
        /\ \A m \in Nodes : m # n => jobs'[m] = jobs[m]
    BY <1>3 DEF StoreInv
  <2>3. StoreInv'
    <3>1. Cardinality(jobs'[n]) <= MaxJobs
      BY <1>3, <2>2, JobFacts DEF StoreInv, Free
    <3> QED
      BY <1>1, <2>2, <3>1 DEF StoreInv
  <2>4. TypeOK'
    BY <1>1, <1>3, <2>1, <2>3, TypeFromStore DEF TypeOK, cluster
  <2>5. \A t \in Saves, m \in Nodes : At(t, m)' => At(t, m)
    BY <1>1, <2>2 DEF At
  <2>6. RequestInv'
    <3>1. \A m \in Nodes : jobs'[m] \ Browser \subseteq seen'[m]
      BY <2>1, <2>2 DEF RequestInv
    <3> QED
      BY <1>1, <1>3, <2>5, <3>1 DEF RequestInv
  <2>7. OpenInv'
    BY <1>1, <1>3, <2>1, <2>2 DEF OpenInv
  <2>8. SpentInv'
    BY <1>1, <1>3, <2>1, <2>2 DEF SpentInv, Spent, cluster
  <2>9. PutInv' /\ LogInv'
    BY <1>1, <1>3, PutFrame DEF PutInv, cluster
  <2>10. AheadInv'
    BY <1>1, AheadFrame DEF cluster
  <2> QED
    BY <2>3, <2>4, <2>6, <2>7, <2>8, <2>9, <2>10
<1> QED
  BY <1>2, <1>3 DEF Receives, AlreadyKnown

LEMMA ForgetsInv ==
    ASSUME IInv, NEW n \in Nodes, NEW s \in Saves, Forgets(n, s)
    PROVE  IInv'
<1> USE DEF IInv
<1>1. /\ s \in late /\ s \notin jobs[n] /\ told[s] = "unknown"
      /\ UNCHANGED <<cluster, store, jobs, op, base, client>>
      /\ seen' \in [Nodes -> SUBSET Saves] /\ seen'[n] = seen[n] \ {s}
      /\ \A m \in Nodes : m # n => seen'[m] = seen[m]
  BY DEF Forgets, RequestInv, TypeOK
<1>2. StoreInv'
  BY <1>1 DEF StoreInv, store
<1>3. TypeOK'
  BY <1>1, <1>2, TypeFromStore DEF TypeOK, cluster, store, client
<1>4. RequestInv'
  BY <1>1 DEF RequestInv, At, client
<1>5. OpenInv'
  BY <1>1 DEF OpenInv, client
<1>6. SpentInv'
  BY <1>1 DEF SpentInv, Spent, cluster, client
<1>7. PutInv' /\ LogInv'
  BY <1>1, PutFrame DEF PutInv, cluster, client
<1>8. AheadInv'
  BY <1>1, AheadFrame DEF cluster, store
<1> QED
  BY <1>2, <1>3, <1>4, <1>5, <1>6, <1>7, <1>8

\* A job ends and its editor may hear of it. Whoever hears more than that
\* nothing is confirmed has no publication on its way.
LEMMA EndsInv ==
    ASSUME IInv, NEW n \in Nodes, NEW s \in jobs[n], NEW a \in {"saved", "conflict", "unknown"},
           Ends(n, s, a), op[n] \subseteq {s}, UNCHANGED <<cloud, etag, published, restored>>,
           puts' \subseteq puts, \A p \in puts : p.id # s => p \in puts',
           a # "unknown" => \A p \in puts' : p.id # s,
           faults' \in 0 .. Faults,
           current' \in [Nodes -> SUBSET Logs], file' \in [Nodes -> SUBSET Logs],
           \A m \in Nodes : m # n => current'[m] = current[m] /\ file'[m] = file[m],
           \A c, d \in current'[n] : c = d,
           \A c, d \in file'[n] : c = d
    PROVE  IInv'
<1> USE DEF IInv
<1>1. /\ s \in Saves /\ At(s, n) /\ UNCHANGED <<seen, base, sent, late>> /\ Hears(s, a)
      /\ told[s] \in {"pending", "unknown"}
  BY DEF StoreInv, Ends, At, OpenInv
<1>2. /\ jobs' \in [Nodes -> SUBSET Saves] /\ jobs'[n] = jobs[n] \ {s}
      /\ \A m \in Nodes : m # n => jobs'[m] = jobs[m]
      /\ op' \in [Nodes -> SUBSET Saves] /\ op'[n] = {}
      /\ \A m \in Nodes : m # n => op'[m] = op[m]
  BY DEF StoreInv, Ends
<1>3. \A m \in Nodes : s \notin jobs'[m] /\ s \notin op'[m]
  BY <1>1, <1>2 DEF RequestInv, At, StoreInv
<1>4. /\ told' \in [Saves -> {"none", "pending", "saved", "conflict", "unknown"}]
      /\ \A t \in Saves : t # s => told'[t] = told[t]
      /\ told'[s] \in {"pending", "unknown", "saved", "conflict"}
      /\ told[s] = "unknown" => told'[s] = "unknown"
      /\ a = "unknown" => told'[s] \in {"pending", "unknown"}
  BY <1>1, HearsFacts
<1>5. StoreInv'
  <2>1. Cardinality(jobs'[n]) <= MaxJobs
    BY <1>1, <1>2, JobFacts DEF StoreInv
  <2>2. \A m \in Nodes : op'[m] \subseteq jobs'[m]
    BY <1>2 DEF StoreInv
  <2>3. ASSUME NEW m \in Nodes
        PROVE  /\ \A c, d \in current'[m] : c = d
               /\ \A c, d \in file'[m] : c = d
               /\ \A c, d \in op'[m] : c = d
               /\ Cardinality(jobs'[m]) <= MaxJobs
    <3>1. CASE m = n
      BY <1>2, <2>1, <3>1
    <3>2. CASE m # n
      <4>1. /\ current'[m] = current[m] /\ file'[m] = file[m]
            /\ op'[m] = op[m] /\ jobs'[m] = jobs[m]
        BY <1>2, <3>2
      <4> QED
        BY <4>1 DEF StoreInv
    <3> QED
      BY <3>1, <3>2
  <2> QED
    BY <1>2, <2>2, <2>3 DEF StoreInv
<1>6. TypeOK'
  BY <1>1, <1>4, <1>5, TypeFromStore DEF TypeOK
<1>7. \A t \in Saves, m \in Nodes : At(t, m)' => At(t, m)
  BY <1>1, <1>2 DEF At
<1>8. RequestInv'
  <2>1. \A m \in Nodes : jobs'[m] \ Browser \subseteq seen'[m]
    BY <1>1, <1>2 DEF RequestInv
  <2>2. \A t \in late' : told'[t] = "unknown"
    BY <1>1, <1>4 DEF RequestInv, TypeOK
  <2> QED
    BY <1>1, <1>4, <1>7, <2>1, <2>2 DEF RequestInv
<1>9. OpenInv'
  <2>1. \A m \in Nodes : <<s, m>> \in sent => s \in seen[m]
    BY <1>1 DEF RequestInv, At
  <2>2. ASSUME NEW t \in Saves, NEW m \in Nodes
        PROVE  /\ t \in jobs'[m] => told'[t] \in {"pending", "unknown"}
               /\ <<t, m>> \in sent' => t \in seen'[m] \/ told'[t] \in {"pending", "unknown"}
    <3>1. CASE t = s
      BY <1>1, <1>3, <2>1, <3>1
    <3>2. CASE t # s
      BY <1>1, <1>2, <1>4, <3>2 DEF OpenInv
    <3> QED
      BY <3>1, <3>2
  <2> QED
    BY <2>2 DEF OpenInv
<1>10. SpentInv'
  <2>1. \A t \in Saves : Spent(t)' => Spent(t)
    BY DEF Spent
  <2>2. ASSUME NEW t \in Saves, Spent(t)', NEW m \in Nodes, t \in op'[m]
        PROVE  \E p \in puts' : p.id = t
    <3>1. t # s /\ t \in op[m]
      BY <1>2, <1>3, <2>2
    <3> QED
      BY <2>1, <2>2, <3>1 DEF SpentInv
  <2>3. ASSUME NEW t \in Saves, Spent(t)', NEW m \in Nodes, t \in jobs'[m]
        PROVE  t \in op'[m] \/ t \in late' \ Browser
    <3>1. t # s /\ t \in jobs[m] /\ (t \in op[m] => t \in op'[m])
      BY <1>2, <1>3, <2>3
    <3> QED
      BY <1>1, <2>1, <2>3, <3>1 DEF SpentInv
  <2>4. \A t \in Saves : Spent(t) => told'[t] # "none"
    BY <1>1, <1>4 DEF SpentInv
  <2> QED
    BY <1>1, <2>1, <2>2, <2>3, <2>4 DEF SpentInv
<1>11. PutInv' /\ LogInv'
  <2>1. ASSUME NEW p \in puts', p.answer = "none"
        PROVE  told'[p.id] \in {"pending", "unknown"} /\ base'[p.id] = base[p.id]
    <3>1. p \in puts /\ p.id \in Saves /\ told[p.id] \in {"pending", "unknown"}
      <4>1. p \in puts
        BY <2>1
      <4>2. p.id \in Saves
        BY <4>1 DEF TypeOK
      <4> QED
        BY <2>1, <4>1, <4>2 DEF PutInv
    <3>2. p.id = s => a = "unknown"
      BY <2>1
    <3> QED
      BY <1>1, <1>4, <3>1, <3>2
  <2> QED
    BY <2>1, PutFrame
<1>12. AheadInv'
  BY <1>2, AheadFrame
<1> QED
  BY <1>5, <1>6, <1>8, <1>9, <1>10, <1>11, <1>12

\* An edit takes the lock, and what it is for becomes its base: it has not been
\* sent before.
LEMMA TakesLockInv ==
    ASSUME IInv, NEW n \in Nodes, NEW s \in jobs[n], op[n] = {}, s \in Browser \/ s \notin late,
           op' = [op EXCEPT ![n] = {s}], UNCHANGED <<cluster, seen, jobs, client>>,
           base' \in [Saves -> 0 .. Cardinality(Saves) + 1],
           \A t \in Saves : t # s => base'[t] = base[t],
           faults' \in 0 .. Faults,
           current' \in [Nodes -> SUBSET Logs], file' \in [Nodes -> SUBSET Logs],
           \A m \in Nodes : m # n => current'[m] = current[m] /\ file'[m] = file[m],
           \A c, d \in current'[n] : c = d,
           \A c, d \in file'[n] : c = d
    PROVE  IInv'
<1> USE DEF IInv
<1>1. /\ s \in Saves /\ ~Spent(s)
  BY DEF StoreInv, SpentInv
<1>2. /\ op' \in [Nodes -> SUBSET Saves] /\ op'[n] = {s}
      /\ \A m \in Nodes : m # n => op'[m] = op[m]
  BY <1>1 DEF StoreInv
<1>3. StoreInv'
  <2>1. ASSUME NEW m \in Nodes
        PROVE  /\ \A c, d \in current'[m] : c = d
               /\ \A c, d \in file'[m] : c = d
               /\ \A c, d \in op'[m] : c = d
               /\ op'[m] \subseteq jobs'[m] /\ Cardinality(jobs'[m]) <= MaxJobs
    <3>1. CASE m = n
      BY <1>2, <3>1 DEF StoreInv
    <3>2. CASE m # n
      <4>1. current'[m] = current[m] /\ file'[m] = file[m] /\ op'[m] = op[m]
        BY <1>2, <3>2
      <4> QED
        BY <4>1 DEF StoreInv
    <3> QED
      BY <3>1, <3>2
  <2> QED
    BY <1>2, <2>1 DEF StoreInv
<1>4. TypeOK'
  BY <1>3, TypeFromStore DEF TypeOK, cluster, client
<1>5. RequestInv' /\ OpenInv'
  BY DEF RequestInv, OpenInv, At, client
<1>6. SpentInv'
  <2>1. \A t \in Saves : Spent(t)' => Spent(t) /\ t # s
    BY <1>1 DEF Spent, cluster
  <2>2. \A t \in Saves, m \in Nodes : t # s => (t \in op'[m] <=> t \in op[m])
    BY <1>2
  <2> QED
    BY <2>1, <2>2 DEF SpentInv, cluster, client
<1>7. \A p \in puts : p.id \in Saves /\ p.id # s
  BY <1>1 DEF Spent, TypeOK
<1>8. PutInv' /\ LogInv'
  BY <1>7, PutFrame DEF PutInv, cluster, client
<1>9. AheadInv'
  <2>1. ASSUME NEW m \in Nodes, NEW p \in puts', p.id \in op'[m]
        PROVE  \A c \in current'[m] \cup file'[m] : Len(p.config) > Len(c)
    <3>1. p \in puts /\ p.id # s
      BY <1>7 DEF cluster
    <3>2. m # n /\ p.id \in op[m]
      BY <1>2, <2>1, <3>1
    <3> QED
      BY <3>1, <3>2 DEF AheadInv
  <2> QED
    BY <2>1 DEF AheadInv
<1> QED
  BY <1>3, <1>4, <1>5, <1>6, <1>8, <1>9

LEMMA BeginsInv ==
    ASSUME IInv, NEW n \in Nodes, NEW s \in Saves, Begins(n, s)
    PROVE  IInv'
<1>1. s \in jobs[n] /\ op[n] = {} /\ UNCHANGED cluster /\ TypeOK /\ StoreInv
  BY DEF Begins, IInv
<1>2. CASE s \notin Browser /\ Ends(n, s, "unknown") /\ UNCHANGED store
  BY <1>1, <1>2, EndsInv DEF StoreInv, TypeOK, cluster, store
<1>3. CASE /\ s \in Browser
           /\ op' = [op EXCEPT ![n] = {s}] /\ UNCHANGED <<store, base, seen, jobs, client>>
  <2>1. /\ faults' = faults /\ current' = current /\ file' = file /\ base' = base
        /\ op' = [op EXCEPT ![n] = {s}] /\ UNCHANGED <<cluster, seen, jobs, client>>
    BY <1>1, <1>3 DEF store
  <2>2. /\ base' \in [Saves -> 0 .. Cardinality(Saves) + 1] /\ faults' \in 0 .. Faults
        /\ current' \in [Nodes -> SUBSET Logs] /\ file' \in [Nodes -> SUBSET Logs]
        /\ \A c, d \in current'[n] : c = d
        /\ \A c, d \in file'[n] : c = d
    BY <1>1, <2>1 DEF StoreInv, TypeOK
  <2> QED
    BY <1>1, <1>3, <2>1, <2>2, TakesLockInv
<1>4. CASE /\ s \notin late \cup Browser
           /\ Syncs(n) /\ current'[n] # {}
           /\ base' = [base EXCEPT ![s] = Revision(CHOOSE c \in current'[n] : TRUE)]
           /\ op' = [op EXCEPT ![n] = {s}] /\ UNCHANGED <<seen, jobs, client>>
  <2>1. (CHOOSE c \in current'[n] : TRUE) \in Logs
    BY <1>1, <1>4, SyncsFacts
  <2>2. /\ base' \in [Saves -> 0 .. Cardinality(Saves) + 1]
        /\ \A t \in Saves : t # s => base'[t] = base[t]
    BY <1>1, <1>4, <2>1, RevisionFacts DEF TypeOK
  <2> QED
    <3>1. /\ faults' \in 0 .. Faults
          /\ current' \in [Nodes -> SUBSET Logs] /\ file' \in [Nodes -> SUBSET Logs]
          /\ \A m \in Nodes : m # n => current'[m] = current[m] /\ file'[m] = file[m]
          /\ \A c, d \in current'[n] : c = d
          /\ \A c, d \in file'[n] : c = d
      BY <1>1, <1>4, SyncsFacts
    <3>2. op' = [op EXCEPT ![n] = {s}] /\ UNCHANGED <<cluster, seen, jobs, client>>
      BY <1>1, <1>4
    <3>3. s \in Browser \/ s \notin late
      BY <1>4
    <3> QED
      BY <1>1, <2>2, <3>1, <3>2, <3>3, TakesLockInv
<1> QED
  BY <1>2, <1>3, <1>4 DEF Begins

\* The publication that an edit sends extends what the manifest is, and what
\* everything at its node is below.
LEMMA EditsInv ==
    ASSUME IInv, NEW n \in Nodes, NEW s \in Saves, Edits(n, s)
    PROVE  IInv'
<1> USE DEF IInv
<1> DEFINE q == [id |-> s, etag |-> etag, config |-> Append(cloud, s), answer |-> "none"]
<1>1. /\ op[n] = {s} /\ s \in jobs[n] /\ At(s, n) /\ puts' = puts \cup {q}
      /\ \A p \in puts : p.id # s
      /\ UNCHANGED <<cloud, etag, published, restored, store, service, client>>
  BY DEF Edits, Waiting, StoreInv, At
<1>2. /\ q.id = s /\ q.etag = etag /\ q.config = Append(cloud, s) /\ q.answer = "none"
  OBVIOUS
<1>3. ~Spent(s) /\ s \notin published /\ told[s] \in {"pending", "unknown"}
  BY <1>1 DEF SpentInv, Spent, OpenInv
<1>4. /\ cloud \in Seq(Saves) /\ Len(cloud) \in Nat
      /\ Append(cloud, s) \in Seq(Saves) /\ Len(Append(cloud, s)) = Len(cloud) + 1
  BY LogsAre DEF TypeOK
<1>5. /\ Len(Append(cloud, s)) <= Cardinality(published \cup {s})
      /\ Append(cloud, s) \in Logs
  <2>1. published \in SUBSET Saves
    BY DEF TypeOK
  <2>2. /\ Cardinality(published \cup {s}) = Cardinality(published) + 1
        /\ Cardinality(published \cup {s}) <= Cardinality(Saves)
        /\ Cardinality(published) \in Nat /\ Cardinality(Saves) \in Nat
    BY <1>3, <2>1, PublishedFacts
  <2>3. Len(cloud) <= Cardinality(published)
    BY DEF LogInv
  <2>4. /\ Len(Append(cloud, s)) <= Cardinality(published \cup {s})
        /\ Len(Append(cloud, s)) <= Cardinality(Saves)
    BY <1>4, <2>2, <2>3
  <2> QED
    BY <1>4, <2>4, LogsAre
<1>6. \A c \in current[n] \cup file[n] : Len(Append(cloud, s)) > Len(c)
  <2>1. Agrees(n) /\ Above(cloud, Known(n))
    BY DEF Edits
  <2>2. \A f \in Known(n) : f = cloud \/ Len(cloud) > Len(f)
    BY <2>1 DEF Above
  <2>3. \A f \in file[n] \cup current[n] : f = cloud \/ Len(cloud) > Len(f)
    BY <2>1, <2>2, KnownFacts
  <2>4. \A f \in file[n] \cup current[n] : Len(f) \in Nat
    BY RevisionFacts DEF StoreInv
  <2> QED
    BY <1>4, <2>3, <2>4
<1>7. q \in [id : Saves, etag : Nat, config : Logs, answer : {"none", "ok", "conflict"}]
  BY <1>5 DEF TypeOK
<1>8. base[s] = Revision(cloud)
  BY DEF Edits, IsBase
<1> HIDE DEF q
<1>9. StoreInv'
  BY <1>1 DEF StoreInv, store, service
<1>10. TypeOK'
  BY <1>1, <1>7, <1>9, TypeFromStore DEF TypeOK, store, service, client
<1>11. RequestInv' /\ OpenInv'
  BY <1>1 DEF RequestInv, OpenInv, At, service, client
<1>12. SpentInv'
  <2>1. \A t \in Saves : Spent(t)' => Spent(t) \/ t = s
    BY <1>1, <1>2 DEF Spent
  <2>2. ASSUME NEW m \in Nodes
        PROVE  /\ s \in jobs[m] => s \in op[m]
               /\ <<s, m>> \in sent => s \in seen[m]
    BY <1>1 DEF RequestInv, At
  <2>3. \E p \in puts' : p.id = s
    BY <1>1, <1>2
  <2>4. /\ told' = told /\ jobs' = jobs /\ op' = op /\ late' = late
        /\ sent' = sent /\ seen' = seen /\ puts \subseteq puts'
    BY <1>1 DEF service, client
  <2>5. ASSUME NEW t \in Saves, Spent(t)'
        PROVE  /\ told'[t] # "none"
               /\ \A m \in Nodes :
                    /\ t \in op'[m] => \E p \in puts' : p.id = t
                    /\ t \in jobs'[m] => t \in op'[m] \/ t \in late' \ Browser
                    /\ <<t, m>> \in sent' => t \in seen'[m] \/ t \in late'
    <3>1. CASE t = s
      BY <1>3, <2>2, <2>3, <2>4, <3>1
    <3>2. CASE t # s
      BY <2>1, <2>4, <2>5, <3>2 DEF SpentInv
    <3> QED
      BY <3>1, <3>2
  <2> QED
    BY <2>5 DEF SpentInv
<1>13. PutInv' /\ LogInv'
  <2>1. /\ cloud' = cloud /\ etag' = etag /\ published' = published /\ told' = told
        /\ base' = base /\ etag \in Nat
    BY <1>1 DEF service, client, TypeOK
  <2>2. ASSUME NEW p \in puts'
        PROVE  /\ p.etag <= etag'
               /\ Len(p.config) <= Cardinality(published' \cup {p.id})
               /\ p.answer = "none" =>
                    /\ p.id \notin published' /\ told'[p.id] \in {"pending", "unknown"}
                    /\ p.etag = etag' => /\ p.config = Append(cloud', p.id)
                                        /\ Revision(cloud') = base'[p.id]
               /\ p.answer = "ok" => p.id \in published'
               /\ p.answer = "conflict" => p.id \notin published'
    <3>1. CASE p = q
      <4>1. p.id = s /\ p.etag = etag /\ p.config = Append(cloud, s) /\ p.answer = "none"
        BY <1>2, <3>1
      <4>2. Len(p.config) <= Cardinality(published' \cup {p.id})
        BY <1>5, <2>1, <4>1
      <4>3. p.config = Append(cloud', p.id) /\ Revision(cloud') = base'[p.id]
        BY <1>8, <2>1, <4>1 DEF Revision
      <4>4. p.id \notin published' /\ told'[p.id] \in {"pending", "unknown"} /\ p.etag <= etag'
        BY <1>3, <2>1, <4>1
      <4> QED
        BY <4>1, <4>2, <4>3, <4>4
    <3>2. CASE p \in puts
      BY <2>1, <3>2 DEF PutInv, Matches, Revision
    <3> QED
      BY <1>1, <3>1, <3>2
  <2>3. ASSUME NEW p \in puts', NEW r \in puts', p.id = r.id
        PROVE  p = r
    BY <1>1, <1>2, <2>3 DEF PutInv
  <2> QED
    BY <2>1, <2>2, <2>3 DEF PutInv, LogInv, Matches
<1>14. AheadInv'
  <2>1. current' = current /\ file' = file /\ op' = op
    BY <1>1 DEF store, service
  <2>2. ASSUME NEW m \in Nodes, NEW p \in puts', p.id \in op[m]
        PROVE  \A c \in current[m] \cup file[m] : Len(p.config) > Len(c)
    <3>1. CASE p = q
      <4>1. m = n
        BY <1>1, <1>2, <2>2, <3>1 DEF StoreInv, RequestInv, At
      <4>2. p.config = Append(cloud, s)
        BY <1>2, <3>1
      <4> QED
        BY <1>6, <4>1, <4>2
    <3>2. CASE p \in puts
      BY <2>2, <3>2 DEF AheadInv
    <3> QED
      BY <1>1, <3>1, <3>2
  <2> QED
    BY <2>1, <2>2 DEF AheadInv
<1> QED
  BY <1>9, <1>10, <1>11, <1>12, <1>13, <1>14

LEMMA DiesInv ==
    ASSUME IInv, NEW n \in Nodes, Dies(n)
    PROVE  IInv'
<1> USE DEF IInv
<1>1. /\ current' \in [Nodes -> SUBSET Logs] /\ seen' \in [Nodes -> SUBSET Saves]
      /\ jobs' \in [Nodes -> SUBSET Saves] /\ op' \in [Nodes -> SUBSET Saves]
      /\ current'[n] = {} /\ seen'[n] = {} /\ jobs'[n] = {} /\ op'[n] = {}
  BY DEF Dies, StoreInv, TypeOK
<1>2. \A m \in Nodes : m # n =>
         /\ current'[m] = current[m] /\ seen'[m] = seen[m]
         /\ jobs'[m] = jobs[m] /\ op'[m] = op[m]
  BY DEF Dies, StoreInv, TypeOK
<1>3. /\ UNCHANGED <<cloud, etag, puts, published, restored, file, base, late, told>>
      /\ faults' \in 0 .. Faults /\ sent' \subseteq sent
      /\ \A t : <<t, n>> \notin sent'
  BY CloudMemoryAssumption DEF Dies, cluster, Faulty, TypeOK
<1>4. StoreInv'
  <2>1. Cardinality(jobs'[n]) <= MaxJobs
    BY <1>1, SetsOfOne, CloudMemoryAssumption
  <2>2. ASSUME NEW m \in Nodes
        PROVE  /\ \A c, d \in current'[m] : c = d
               /\ \A c, d \in file'[m] : c = d
               /\ \A c, d \in op'[m] : c = d
               /\ op'[m] \subseteq jobs'[m] /\ Cardinality(jobs'[m]) <= MaxJobs
    <3>1. CASE m = n
      BY <1>1, <1>3, <2>1, <3>1 DEF StoreInv
    <3>2. CASE m # n
      <4>1. /\ current'[m] = current[m] /\ file'[m] = file[m]
            /\ op'[m] = op[m] /\ jobs'[m] = jobs[m]
        BY <1>2, <1>3, <3>2
      <4> QED
        BY <4>1 DEF StoreInv
    <3> QED
      BY <3>1, <3>2
  <2> QED
    BY <1>1, <1>3, <2>2 DEF StoreInv
<1>5. TypeOK'
  BY <1>1, <1>3, <1>4, TypeFromStore DEF TypeOK
<1>6. \A t \in Saves, m \in Nodes :
         /\ t \in jobs'[m] => m # n /\ t \in jobs[m]
         /\ <<t, m>> \in sent' => m # n /\ <<t, m>> \in sent
  BY <1>1, <1>2, <1>3
<1>7. RequestInv'
  <2>1. \A t \in Saves, m \in Nodes : At(t, m)' => At(t, m)
    BY <1>6 DEF At
  <2>2. \A m \in Nodes : jobs'[m] \ Browser \subseteq seen'[m]
    BY <1>1, <1>2 DEF RequestInv
  <2> QED
    BY <1>3, <2>1, <2>2 DEF RequestInv
<1>8. OpenInv'
  BY <1>2, <1>3, <1>6 DEF OpenInv
<1>9. SpentInv'
  BY <1>1, <1>2, <1>3, <1>6 DEF SpentInv, Spent
<1>10. PutInv' /\ LogInv'
  BY <1>3, PutFrame DEF PutInv
<1>11. AheadInv'
  <2>1. ASSUME NEW m \in Nodes
        PROVE  /\ op'[m] \subseteq op[m]
               /\ op'[m] # {} => current'[m] = current[m] /\ file'[m] = file[m]
    BY <1>1, <1>2, <1>3
  <2> QED
    BY <1>3, <2>1, AheadFrame
<1> QED
  BY <1>4, <1>5, <1>7, <1>8, <1>9, <1>10, <1>11

\* The Cloud answers: a publication that is accepted makes the others stale.
LEMMA HandlesInv ==
    ASSUME IInv, NEW p \in puts, CloudHandles(p)
    PROVE  IInv'
<1> USE DEF IInv
<1>1. /\ p \in [id : Saves, etag : Nat, config : Logs, answer : {"none", "ok", "conflict"}]
      /\ p.answer = "none" /\ p.id \notin published /\ told[p.id] \in {"pending", "unknown"}
      /\ p.etag <= etag /\ etag \in Nat /\ published \in SUBSET Saves
      /\ UNCHANGED <<restored, store, service, client>>
  BY DEF PutInv, TypeOK, CloudHandles
<1>2. PICK a \in {"ok", "conflict"} :
        /\ puts' = (puts \ {p}) \cup {[p EXCEPT !.answer = a]}
        /\ a = "ok" => /\ Matches(p) /\ cloud' = p.config /\ etag' = etag + 1
                       /\ published' = published \cup {p.id}
        /\ a = "conflict" => UNCHANGED <<cloud, etag, published>>
  BY DEF CloudHandles
<1> DEFINE q == [p EXCEPT !.answer = a]
<1>3. /\ q.id = p.id /\ q.etag = p.etag /\ q.config = p.config /\ q.answer = a
      /\ q \in [id : Saves, etag : Nat, config : Logs, answer : {"none", "ok", "conflict"}]
  BY <1>1
<1>4. puts' = (puts \ {p}) \cup {q}
  BY <1>2
<1> HIDE DEF q
<1>5. \A r \in puts \ {p} : r.id # p.id /\ r.id \in Saves
  BY DEF PutInv, TypeOK
<1>6. StoreInv'
  BY <1>1 DEF StoreInv, store, service
<1>7. TypeOK'
  <2>1. cloud' \in Logs /\ etag' \in Nat /\ published' \subseteq Saves
    BY <1>1, <1>2 DEF TypeOK
  <2>2. puts' \subseteq [id : Saves, etag : Nat, config : Logs, answer : {"none", "ok", "conflict"}]
    BY <1>3, <1>4 DEF TypeOK
  <2> QED
    BY <1>1, <1>6, <2>1, <2>2, TypeFromStore DEF TypeOK, store, service, client
<1>8. RequestInv' /\ OpenInv'
  BY <1>1 DEF RequestInv, OpenInv, At, service, client
<1>9. SpentInv'
  <2>1. \A t \in Saves : Spent(t)' => Spent(t)
    BY <1>2, <1>3, <1>4 DEF Spent
  <2>2. \A t : (\E r \in puts : r.id = t) => \E r \in puts' : r.id = t
    BY <1>3, <1>4
  <2> QED
    BY <1>1, <2>1, <2>2 DEF SpentInv, service, client
<1>10. LogInv'
  <2>1. CASE a = "ok"
    BY <1>2, <2>1 DEF PutInv, LogInv
  <2>2. CASE a = "conflict"
    BY <1>2, <2>2 DEF LogInv
  <2> QED
    BY <2>1, <2>2
<1>11. ASSUME NEW r \in puts'
       PROVE  /\ r.etag <= etag'
              /\ Len(r.config) <= Cardinality(published' \cup {r.id})
              /\ r.answer = "none" =>
                   /\ r.id \notin published' /\ told'[r.id] \in {"pending", "unknown"}
                   /\ r.etag = etag' => /\ r.config = Append(cloud', r.id)
                                       /\ Revision(cloud') = base'[r.id]
              /\ r.answer = "ok" => r.id \in published'
              /\ r.answer = "conflict" => r.id \notin published'
  <2>1. CASE r = q
    <3>1. r.id = p.id /\ r.etag = p.etag /\ r.config = p.config /\ r.answer = a
      BY <1>3, <2>1
    <3>2. published' \cup {r.id} = published \cup {p.id}
      BY <1>2, <3>1
    <3>3. Len(r.config) <= Cardinality(published' \cup {r.id})
      BY <3>1, <3>2 DEF PutInv
    <3>4. r.etag <= etag'
      BY <1>1, <1>2, <3>1
    <3> QED
      BY <1>1, <1>2, <3>1, <3>3, <3>4
  <2>2. CASE r \in puts \ {p}
    <3>1. r.id # p.id /\ r.id \in Saves /\ r.etag <= etag /\ r.etag \in Nat /\ p.id \in Saves
      BY <1>1, <1>5, <2>2 DEF PutInv, TypeOK
    <3>2. CASE a = "ok"
      <4>1. published \cup {r.id} \in SUBSET Saves
        BY <1>1, <3>1
      <4>2. Cardinality(published \cup {r.id}) <= Cardinality((published \cup {r.id}) \cup {p.id})
        BY <3>1, <4>1, PublishedFacts
      <4>3. (published \cup {r.id}) \cup {p.id} = published' \cup {r.id}
        BY <1>2, <3>2
      <4>4. Len(r.config) <= Cardinality(published \cup {r.id}) /\ r.config \in Logs
        BY <2>2 DEF PutInv, TypeOK
      <4>5. /\ Len(r.config) \in Nat /\ Cardinality(published \cup {r.id}) \in Nat
            /\ Cardinality((published \cup {r.id}) \cup {p.id}) \in Nat
        <5>1. r.config \in Seq(Saves)
          BY <4>4, LogsAre
        <5> QED
          BY <3>1, <4>1, <5>1, PublishedFacts
      <4>6. Len(r.config) <= Cardinality(published' \cup {r.id})
        <5>1. /\ Cardinality(published \cup {r.id}) <= Cardinality(published' \cup {r.id})
              /\ Cardinality(published' \cup {r.id}) \in Nat
          BY <4>2, <4>3, <4>5
        <5> QED
          BY <4>4, <4>5, <5>1
      <4>7. r.etag # etag' /\ r.etag <= etag'
        BY <1>1, <1>2, <3>1, <3>2
      <4> QED
        BY <1>1, <1>2, <2>2, <3>1, <3>2, <4>6, <4>7 DEF PutInv, client
    <3>3. CASE a = "conflict"
      BY <1>1, <1>2, <2>2, <3>3 DEF PutInv, Matches, Revision, service, client
    <3> QED
      BY <3>2, <3>3
  <2> QED
    BY <1>4, <2>1, <2>2
<1>12. ASSUME NEW r \in puts', NEW s \in puts', r.id = s.id
       PROVE  r = s
  BY <1>3, <1>4, <1>5, <1>12 DEF PutInv
<1>13. PutInv'
  BY <1>11, <1>12 DEF PutInv, Matches
<1>14. AheadInv'
  <2>1. \A r \in puts' : \E s \in puts : r.id = s.id /\ r.config = s.config
    BY <1>3, <1>4
  <2> QED
    BY <1>1, <2>1 DEF AheadInv, store, service
<1> QED
  BY <1>6, <1>7, <1>8, <1>9, <1>10, <1>13, <1>14

LEMMA RestoredInv ==
    ASSUME IInv, CloudRestored
    PROVE  IInv'
<1> USE DEF IInv
<1>1. /\ UNCHANGED <<puts, published, file, current, service, client>>
      /\ etag' = etag + 1 /\ etag \in Nat /\ restored' = TRUE /\ faults' \in 0 .. Faults
  BY CloudMemoryAssumption DEF CloudRestored, Faulty, TypeOK
<1>2. PICK r \in 0 .. Len(cloud) - 1 : cloud' = SubSeq(cloud, 1, r)
  BY DEF CloudRestored
<1>3. cloud \in Seq(Saves) /\ Len(cloud) <= Cardinality(Saves) /\ published \in SUBSET Saves
  BY LogsAre DEF TypeOK
<1>4. cloud' \in Seq(Saves) /\ Len(cloud') <= Len(cloud) /\ Len(cloud') \in Nat
      /\ Len(cloud) \in Nat
  BY <1>2, <1>3
<1>5. Cardinality(published) \in Nat /\ Cardinality(Saves) \in Nat
  BY <1>3, CloudMemoryAssumption, FS_Subset, FS_CardinalityType
<1>6. cloud' \in Logs
  BY <1>3, <1>4, <1>5, LogsAre
<1>7. LogInv'
  BY <1>1, <1>4, <1>5 DEF LogInv
<1>8. StoreInv'
  BY <1>1 DEF StoreInv, service
<1>9. TypeOK'
  BY <1>1, <1>6, <1>8, TypeFromStore DEF TypeOK, service, client
<1>10. RequestInv' /\ OpenInv' /\ SpentInv'
  BY <1>1, ServiceFrame DEF service, client
<1>11. \A p \in puts : p.etag <= etag' /\ p.etag # etag'
  <2>1. \A p \in puts : p.etag \in Nat /\ p.etag <= etag
    BY DEF PutInv, TypeOK
  <2> QED
    BY <1>1, <2>1
<1>12. PutInv'
  BY <1>1, <1>11 DEF PutInv, Matches, client
<1>13. AheadInv'
  BY <1>1, AheadFrame DEF service
<1> QED
  BY <1>7, <1>8, <1>9, <1>10, <1>12, <1>13

\* What ends a job: its editor never hears of a refusal that is none.
LEMMA FinishFacts ==
    ASSUME IInv, NEW n \in Nodes, NEW p \in puts, Finishes(n, p)
    PROVE  /\ p.id \in jobs[n] /\ p.id \in Saves /\ op[n] = {p.id} /\ puts' = puts \ {p}
           /\ UNCHANGED <<cloud, etag, published, restored>>
           /\ \A r \in puts : r.id # p.id => r \in puts'
           /\ \A r \in puts' : r.id # p.id
           /\ \/ p.id \in published /\ Ends(n, p.id, "saved")
              \/ p.id \notin published /\ Ends(n, p.id, "conflict")
           /\ faults' \in 0 .. Faults
           /\ current' \in [Nodes -> SUBSET Logs] /\ file' \in [Nodes -> SUBSET Logs]
           /\ \A m \in Nodes : m # n => current'[m] = current[m] /\ file'[m] = file[m]
           /\ \A c, d \in current'[n] : c = d
           /\ \A c, d \in file'[n] : c = d
           /\ current'[n] \in {current[n], {p.config}} /\ file'[n] \in {file[n], {p.config}}
<1> USE DEF IInv
<1>1. /\ op[n] = {p.id} /\ puts' = puts \ {p} /\ UNCHANGED <<cloud, etag, published, restored>>
      /\ p \in [id : Saves, etag : Nat, config : Logs, answer : {"none", "ok", "conflict"}]
  BY DEF Finishes, TypeOK
<1>2. p.id \in jobs[n]
  BY <1>1 DEF StoreInv
<1>3. \A r \in puts : r # p => r.id # p.id
  BY DEF PutInv
<1>4. \/ p.answer = "ok" /\ p.id \in published /\ Ends(n, p.id, "saved")
      \/ p.answer = "conflict" /\ p.id \notin published /\ Ends(n, p.id, "conflict")
  BY DEF Finishes, PutInv
<1>5. faults' \in 0 .. Faults
  BY CloudMemoryAssumption DEF Finishes, Faulty, store, TypeOK
<1>6. current' = current \/ current' = [current EXCEPT ![n] = {p.config}]
  BY DEF Finishes, store
<1>7. file' = file \/ file' = [file EXCEPT ![n] = {p.config}]
  BY DEF Finishes, store
<1>8. /\ current' \in [Nodes -> SUBSET Logs]
      /\ current'[n] \in {current[n], {p.config}} /\ \A c, d \in current'[n] : c = d
      /\ \A m \in Nodes : m # n => current'[m] = current[m]
  BY <1>1, <1>6 DEF StoreInv
<1>9. /\ file' \in [Nodes -> SUBSET Logs]
      /\ file'[n] \in {file[n], {p.config}} /\ \A c, d \in file'[n] : c = d
      /\ \A m \in Nodes : m # n => file'[m] = file[m]
  BY <1>1, <1>7 DEF StoreInv
<1> QED
  BY <1>1, <1>2, <1>3, <1>4, <1>5, <1>8, <1>9

\* The ends of jobs that leave everything in the Cloud and at the node alone.
LEMMA RefuseFacts ==
    ASSUME IInv, NEW n \in Nodes, NEW s \in Saves,
           \/ Refuses(n, s) \/ EditFails(n, s)
           \/ \E p \in puts : p.id = s /\ Uncertain(n, p)
    PROVE  /\ s \in jobs[n] /\ op[n] \subseteq {s} /\ UNCHANGED <<cluster, current, file>>
           /\ faults' \in 0 .. Faults
           /\ \/ Ends(n, s, "unknown")
              \/ /\ Ends(n, s, "conflict")
                 /\ s \notin published /\ \A p \in puts : p.id # s
<1> USE DEF IInv
<1>1. CASE Refuses(n, s)
  <2>1. s \in jobs[n] /\ op[n] = {s} /\ \A p \in puts : p.id # s
    BY <1>1 DEF Refuses, Waiting, StoreInv
  <2>2. s \notin published
    BY <2>1 DEF SpentInv, Spent
  <2>3. Ends(n, s, "unknown") \/ Ends(n, s, "conflict")
    BY <1>1 DEF Refuses
  <2> QED
    BY <1>1, <2>1, <2>2, <2>3 DEF Refuses, store, TypeOK
<1>2. CASE EditFails(n, s)
  BY <1>2, CloudMemoryAssumption DEF EditFails, Waiting, Faulty, StoreInv, TypeOK
<1>3. CASE \E p \in puts : p.id = s /\ Uncertain(n, p)
  BY <1>3, CloudMemoryAssumption DEF Uncertain, Faulty, StoreInv, TypeOK
<1> QED
  BY <1>1, <1>2, <1>3

LEMMA StepInv == IInv /\ [Next]_vars => IInv'
<1> SUFFICES ASSUME IInv, [Next]_vars PROVE IInv'
  OBVIOUS
<1>1. ASSUME NEW s \in Saves, GivesUp(s)
      PROVE  IInv'
  BY <1>1, GivesUpInv
<1>2. ASSUME NEW n \in Nodes, NEW s \in Saves,
             \/ Asks(n, s) \/ Looks(n, s) \/ BrowserEdits(n, s)
             \/ Receives(n, s) \/ Forgets(n, s) \/ Begins(n, s) \/ Edits(n, s)
      PROVE  IInv'
  BY <1>2, AsksInv, LooksInv, ReceivesInv, ForgetsInv, BeginsInv, EditsInv
<1>3. ASSUME NEW n \in Nodes, NEW s \in Saves,
             \/ Refuses(n, s) \/ EditFails(n, s)
             \/ \E p \in puts : p.id = s /\ Uncertain(n, p)
      PROVE  IInv'
  <2>1. /\ s \in jobs[n] /\ op[n] \subseteq {s} /\ UNCHANGED <<cluster, current, file>>
        /\ faults' \in 0 .. Faults
        /\ \/ Ends(n, s, "unknown")
           \/ /\ Ends(n, s, "conflict")
              /\ s \notin published /\ \A p \in puts : p.id # s
    BY <1>3, RefuseFacts
  <2>2. /\ UNCHANGED <<cloud, etag, published, restored>> /\ puts' = puts
        /\ current' = current /\ file' = file
        /\ current' \in [Nodes -> SUBSET Logs] /\ file' \in [Nodes -> SUBSET Logs]
        /\ \A c, d \in current'[n] : c = d
        /\ \A c, d \in file'[n] : c = d
    BY <2>1 DEF cluster, IInv, StoreInv
  <2> QED
    BY <2>1, <2>2, EndsInv
<1>4. ASSUME NEW n \in Nodes, Refreshes(n)
      PROVE  IInv'
  <2>1. op[n] = {} /\ Syncs(n) /\ UNCHANGED <<cluster, service, client>> /\ TypeOK /\ StoreInv
    BY <1>4 DEF Refreshes, IInv
  <2> QED
    BY <2>1, SyncsFacts, ReadsInv
<1>5. ASSUME NEW n \in Nodes, NEW p \in puts, Finishes(n, p)
      PROVE  IInv'
  <2>1. Ends(n, p.id, "saved") \/ Ends(n, p.id, "conflict")
    BY <1>5, FinishFacts
  <2>2. /\ p.id \in jobs[n] /\ op[n] \subseteq {p.id} /\ puts' \subseteq puts
        /\ UNCHANGED <<cloud, etag, published, restored>>
        /\ \A r \in puts : r.id # p.id => r \in puts'
        /\ \A r \in puts' : r.id # p.id
        /\ faults' \in 0 .. Faults
        /\ current' \in [Nodes -> SUBSET Logs] /\ file' \in [Nodes -> SUBSET Logs]
        /\ \A m \in Nodes : m # n => current'[m] = current[m] /\ file'[m] = file[m]
        /\ \A c, d \in current'[n] : c = d
        /\ \A c, d \in file'[n] : c = d
    BY <1>5, FinishFacts
  <2> QED
    BY <2>1, <2>2, EndsInv
<1>6. ASSUME NEW n \in Nodes, Dies(n)
      PROVE  IInv'
  BY <1>6, DiesInv
<1>7. ASSUME NEW p \in puts, CloudHandles(p)
      PROVE  IInv'
  BY <1>7, HandlesInv
<1>8. ASSUME NEW n \in Apps, AppSyncs(n)
      PROVE  IInv'
  <2>1. PICK c \in Fetched(file[n]) : file' = [file EXCEPT ![n] = {c}]
    BY <1>8 DEF AppSyncs
  <2>2. /\ op[n] = {} /\ UNCHANGED <<cluster, current, faults, service, client>>
        /\ n \in Nodes /\ TypeOK /\ StoreInv
    BY <1>8, CloudMemoryAssumption DEF AppSyncs, IInv
  <2>3. c \in Logs
    BY <2>1, <2>2, FetchedFacts DEF StoreInv
  <2>4. /\ file' \in [Nodes -> SUBSET Logs] /\ current' \in [Nodes -> SUBSET Logs]
        /\ \A m \in Nodes : m # n => current'[m] = current[m] /\ file'[m] = file[m]
        /\ \A d, e \in current'[n] : d = e
        /\ \A d, e \in file'[n] : d = e
        /\ faults' \in 0 .. Faults
    BY <2>1, <2>2, <2>3 DEF StoreInv, TypeOK
  <2> QED
    BY <2>2, <2>4, ReadsInv
<1>9. CASE CloudRestored
  BY <1>9, RestoredInv
<1>10. CASE UNCHANGED vars
  <2>1. StoreInv'
    BY <1>10 DEF vars, store, service, IInv, StoreInv
  <2>2. TypeOK'
    BY <1>10 DEF vars, cluster, store, service, client, IInv, TypeOK
  <2>3. RequestInv' /\ OpenInv' /\ SpentInv'
    BY <1>10, ServiceFrame DEF vars, cluster, service, client, IInv
  <2>4. PutInv' /\ LogInv'
    BY <1>10, PutFrame DEF vars, cluster, service, client, IInv, PutInv
  <2>5. AheadInv'
    BY <1>10, AheadFrame DEF vars, cluster, store, service, IInv
  <2> QED
    BY <2>1, <2>2, <2>3, <2>4, <2>5 DEF IInv
<1>11. \A p \in puts : p.id \in Saves
  BY DEF IInv, TypeOK
<1> QED
  BY <1>1, <1>2, <1>3, <1>4, <1>5, <1>6, <1>7, <1>8, <1>9, <1>10, <1>11 DEF Next, Works

LEMMA InitInv == Init => IInv
<1> SUFFICES ASSUME Init PROVE IInv
  OBVIOUS
<1>1. cloud = <<>> /\ <<>> \in Logs /\ Len(cloud) = 0 /\ Cardinality({}) = 0
  BY EmptyLog, SetsOfOne DEF Init
<1>2. StoreInv
  BY <1>1, CloudMemoryAssumption DEF Init, StoreInv
<1>3. TypeOK
  <2>1. ASSUME NEW n \in Nodes
        PROVE  /\ current[n] \in Optional(Logs) /\ file[n] \in Optional(Logs)
               /\ op[n] \in Optional(jobs[n]) /\ Cardinality(jobs[n]) <= MaxJobs
    BY <1>2, OptionalFacts DEF StoreInv
  <2>2. /\ cloud \in Logs /\ etag \in Nat /\ faults \in 0 .. Faults /\ restored \in BOOLEAN
        /\ puts = {} /\ sent = {} /\ late = {} /\ published = {}
    <3>1. cloud \in Logs
      BY <1>1
    <3>2. faults \in 0 .. Faults /\ etag \in Nat
      BY CloudMemoryAssumption DEF Init
    <3> QED
      BY <3>1, <3>2 DEF Init
  <2>4. seen \in [Nodes -> SUBSET Saves]
    BY DEF Init
  <2>5. told \in [Saves -> {"none", "pending", "saved", "conflict", "unknown"}]
    BY DEF Init
  <2>3. base \in [Saves -> 0 .. Cardinality(Saves) + 1]
    <3>1. Cardinality(Saves) \in Nat
      BY CloudMemoryAssumption, FS_CardinalityType
    <3> QED
      BY <3>1 DEF Init
  <2> QED
    BY <2>1, <2>2, <2>3, <2>4, <2>5 DEF TypeOK
<1>4. RequestInv /\ OpenInv /\ SpentInv
  BY DEF Init, RequestInv, OpenInv, SpentInv, Spent, At
<1>5. PutInv /\ LogInv /\ AheadInv
  BY <1>1 DEF Init, PutInv, LogInv, AheadInv
<1> QED
  BY <1>2, <1>3, <1>4, <1>5 DEF IInv

LEMMA Invariance == Spec => []IInv
BY InitInv, StepInv, PTL DEF Spec

-----------------------------------------------------------------------------
(* The theorems.                                                           *)

\* Caches, jobs and publications hold what the code can store.
THEOREM TypeCorrect == Spec => []TypeOK
<1>1. IInv => TypeOK
  BY DEF IInv
<1> QED
  BY <1>1, Invariance, PTL

LEMMA LedgerHears ==
    ASSUME IInv, NEW s \in Saves, NEW a \in {"saved", "conflict", "unknown"}, Hears(s, a),
           UNCHANGED <<cloud, published>>,
           a = "saved" => s \in published, a = "conflict" => s \notin published
    PROVE  UNCHANGED <<cloud, published, told>> \/ Ledger!Tells(s)
BY DEF Hears, Tells, Answer, Ledger!Tells

\* Every step at the Cloud and at the editors is one of the ledger.
LEMMA LedgerStep == IInv /\ [Next]_vars => [Ledger!Next]_<<cloud, published, told>>
<1> SUFFICES ASSUME IInv, [Next]_vars PROVE [Ledger!Next]_<<cloud, published, told>>
  OBVIOUS
<1> USE DEF Ledger!Next
<1>1. ASSUME NEW s \in Saves, GivesUp(s)
      PROVE  Ledger!Tells(s)
  BY <1>1 DEF GivesUp, Tells, Editor, cluster, Ledger!Tells
<1>2. ASSUME NEW n \in Nodes, NEW s \in Saves, Asks(n, s) \/ BrowserEdits(n, s)
      PROVE  Ledger!Asks(s)
  BY <1>2 DEF Asks, BrowserEdits, Unused, Tells, Editor, cluster, Ledger!Asks
<1>3. ASSUME NEW n \in Nodes, NEW s \in Saves, Receives(n, s)
      PROVE  UNCHANGED <<cloud, published, told>> \/ Ledger!Tells(s)
  BY <1>3, LedgerHears DEF Receives, cluster
<1>4. ASSUME NEW n \in Nodes, NEW s \in Saves,
             \/ Refuses(n, s) \/ EditFails(n, s)
             \/ \E p \in puts : p.id = s /\ Uncertain(n, p)
      PROVE  UNCHANGED <<cloud, published, told>> \/ Ledger!Tells(s)
  <2>1. UNCHANGED <<cloud, published>>
    BY <1>4, RefuseFacts DEF cluster
  <2>2. Hears(s, "unknown") \/ (Hears(s, "conflict") /\ s \notin published)
    BY <1>4, RefuseFacts DEF Ends
  <2> QED
    BY <2>1, <2>2, LedgerHears
<1>5. ASSUME NEW n \in Nodes, NEW s \in Saves, Begins(n, s)
      PROVE  UNCHANGED <<cloud, published, told>> \/ Ledger!Tells(s)
  BY <1>5, LedgerHears DEF Begins, Ends, cluster, client
<1>6. ASSUME NEW n \in Nodes, NEW p \in puts, Finishes(n, p)
      PROVE  UNCHANGED <<cloud, published, told>> \/ (p.id \in Saves /\ Ledger!Tells(p.id))
  <2>1. /\ p.id \in Saves /\ UNCHANGED <<cloud, published>>
        /\ \/ p.id \in published /\ Ends(n, p.id, "saved")
           \/ p.id \notin published /\ Ends(n, p.id, "conflict")
    BY <1>6, FinishFacts
  <2>2. \/ p.id \in published /\ Hears(p.id, "saved")
        \/ p.id \notin published /\ Hears(p.id, "conflict")
    BY <2>1 DEF Ends
  <2> QED
    BY <2>1, <2>2, LedgerHears
<1>7. ASSUME NEW p \in puts, CloudHandles(p)
      PROVE  UNCHANGED <<cloud, published, told>> \/ (p.id \in Saves /\ Ledger!Publishes(p.id))
  <2>1. UNCHANGED told /\ p.id \in Saves /\ p.answer = "none"
    BY <1>7 DEF CloudHandles, client, IInv, TypeOK
  <2>2. p.id \notin published /\ told[p.id] \in {"pending", "unknown"}
    BY <2>1 DEF IInv, PutInv
  <2>3. Matches(p) => p.config = Append(cloud, p.id)
    BY <2>1 DEF IInv, PutInv
  <2> QED
    BY <1>7, <2>1, <2>2, <2>3 DEF CloudHandles, Ledger!Publishes
<1>8. ASSUME CloudRestored
      PROVE  Ledger!Restores
  <2>1. Len(cloud) \in Nat
    BY LogsAre DEF IInv, TypeOK
  <2> QED
    BY <1>8, <2>1 DEF CloudRestored, client, Ledger!Restores
<1>9. ASSUME \/ \E n \in Nodes, s \in Saves : Looks(n, s) \/ Forgets(n, s) \/ Edits(n, s)
             \/ \E n \in Nodes : Refreshes(n) \/ Dies(n)
             \/ \E n \in Apps : AppSyncs(n)
             \/ UNCHANGED vars
      PROVE  UNCHANGED <<cloud, published, told>>
  BY <1>9 DEF Looks, Forgets, Edits, Refreshes, Dies, AppSyncs, vars, cluster, client
<1>10. \A p \in puts : p.id \in Saves
  BY DEF IInv, TypeOK
<1> QED
  BY <1>1, <1>2, <1>3, <1>4, <1>5, <1>6, <1>7, <1>8, <1>9, <1>10 DEF Next, Works

\* The shared memory implements the ledger: no edit is lost or made twice, and
\* nobody is told anything false.
THEOREM ImplementsLedger == Spec => LedgerSpec
<1>1. Init => Ledger!Init
  BY DEF Init, Ledger!Init
<1> QED
  BY <1>1, LedgerStep, Invariance, PTL DEF Spec, LedgerSpec, Ledger!Spec

\* Only the Cloud publishes, and what it publishes is for what it holds.
LEMMA UnseenStep ==
    ASSUME IInv, [Next]_vars, NEW s \in published' \ published
    PROVE  Revision(cloud) = base[s]
<1>1. ASSUME NEW p \in puts, CloudHandles(p)
      PROVE  Revision(cloud) = base[s]
  <2>1. s = p.id /\ Matches(p) /\ p.answer = "none"
    BY <1>1 DEF CloudHandles
  <2> QED
    BY <2>1 DEF IInv, PutInv
<1>2. (\E p \in puts : CloudHandles(p)) \/ published' = published
  <2>1. ASSUME NEW n \in Nodes, NEW x \in Saves,
               \/ Refuses(n, x) \/ EditFails(n, x)
               \/ \E p \in puts : p.id = x /\ Uncertain(n, p)
        PROVE  published' = published
    BY <2>1, RefuseFacts DEF cluster
  <2>2. ASSUME NEW n \in Nodes, NEW x \in Saves,
               Asks(n, x) \/ Looks(n, x) \/ BrowserEdits(n, x)
        PROVE  published' = published
    BY <2>2 DEF Asks, Looks, BrowserEdits, Editor, cluster
  <2>3. ASSUME NEW n \in Nodes, NEW x \in Saves,
               Receives(n, x) \/ Forgets(n, x) \/ Begins(n, x) \/ Edits(n, x)
        PROVE  published' = published
    BY <2>3 DEF Receives, Forgets, Begins, Edits, cluster
  <2>4. ASSUME NEW n \in Nodes,
               Refreshes(n) \/ Dies(n) \/ (\E p \in puts : Finishes(n, p)) \/ AppSyncs(n)
        PROVE  published' = published
    BY <2>4 DEF Refreshes, Dies, Finishes, AppSyncs, cluster
  <2>5. ASSUME \/ \E x \in Saves : GivesUp(x)
               \/ CloudRestored
               \/ UNCHANGED vars
        PROVE  published' = published
    BY <2>5 DEF GivesUp, CloudRestored, Editor, vars, cluster
  <2>6. \A p \in puts : p.id \in Saves
    BY DEF IInv, TypeOK
  <2>7. Apps \subseteq Nodes
    BY CloudMemoryAssumption
  <2> QED
    BY <2>1, <2>2, <2>3, <2>4, <2>5, <2>6, <2>7 DEF Next, Works
<1> QED
  BY <1>1, <1>2

\* Neither the memory of a node nor its file goes back.
LEMMA ForwardStep ==
    ASSUME IInv, [Next]_vars, NEW n \in Nodes
    PROVE  /\ \A f \in file[n], g \in file'[n] : f = g \/ Len(g) > Len(f)
           /\ \A f \in current[n], g \in current'[n] : f = g \/ Len(g) > Len(f)
<1> USE DEF IInv
<1> DEFINE Goal == /\ \A f \in file[n], g \in file'[n] : f = g \/ Len(g) > Len(f)
                   /\ \A f \in current[n], g \in current'[n] : f = g \/ Len(g) > Len(f)
<1>1. CASE file'[n] = file[n] /\ (current'[n] = current[n] \/ current'[n] = {})
  BY <1>1 DEF StoreInv
<1>2. ASSUME NEW m \in Nodes, Syncs(m)
      PROVE  Goal
  <2>1. CASE m = n
    BY <1>2, <2>1, SyncsFacts
  <2>2. CASE m # n
    BY <1>1, <1>2, <2>2, SyncsFacts
  <2> QED
    BY <2>1, <2>2
<1>3. ASSUME NEW m \in Nodes, NEW p \in puts, Finishes(m, p)
      PROVE  Goal
  <2>1. CASE m # n
    BY <1>1, <1>3, <2>1, FinishFacts
  <2>2. CASE m = n
    <3>1. \A c \in current[n] \cup file[n] : Len(p.config) > Len(c)
      BY <1>3, <2>2, FinishFacts DEF AheadInv
    <3>2. current'[n] \in {current[n], {p.config}} /\ file'[n] \in {file[n], {p.config}}
      BY <1>3, <2>2, FinishFacts
    <3> QED
      BY <3>1, <3>2 DEF StoreInv
  <2> QED
    BY <2>1, <2>2
<1>4. ASSUME NEW m \in Apps, AppSyncs(m)
      PROVE  Goal
  <2>1. PICK c \in Fetched(file[m]) : file' = [file EXCEPT ![m] = {c}]
    BY <1>4 DEF AppSyncs
  <2>2. m \in Nodes /\ current' = current
    BY <1>4, CloudMemoryAssumption DEF AppSyncs
  <2>3. CASE m # n
    BY <1>1, <2>1, <2>2, <2>3 DEF StoreInv
  <2>4. CASE m = n
    <3>1. \A f \in file[n] : f = c \/ Len(c) > Len(f)
      BY <2>1, <2>2, <2>4, FetchedFacts DEF StoreInv
    <3> QED
      BY <2>1, <2>2, <2>4, <3>1 DEF StoreInv
  <2> QED
    BY <2>3, <2>4
<1>5. ASSUME NEW m \in Nodes, NEW s \in Saves,
             \/ Refuses(m, s) \/ EditFails(m, s)
             \/ \E p \in puts : p.id = s /\ Uncertain(m, p)
      PROVE  Goal
  BY <1>1, <1>5, RefuseFacts
<1>6. ASSUME NEW m \in Nodes, NEW s \in Saves, Begins(m, s)
      PROVE  Goal
  BY <1>1, <1>2, <1>6 DEF Begins, store
<1>7. ASSUME NEW m \in Nodes, Dies(m)
      PROVE  Goal
  BY <1>1, <1>7 DEF Dies, StoreInv
<1>8. ASSUME NEW m \in Nodes, Refreshes(m) \/ \E s \in Saves : Looks(m, s)
      PROVE  Goal
  BY <1>2, <1>8 DEF Refreshes, Looks
<1>9. ASSUME \/ \E s \in Saves : GivesUp(s)
             \/ \E m \in Nodes, s \in Saves :
                  \/ Asks(m, s) \/ BrowserEdits(m, s)
                  \/ Receives(m, s) \/ Forgets(m, s) \/ Edits(m, s)
             \/ \E p \in puts : CloudHandles(p)
             \/ CloudRestored \/ UNCHANGED vars
      PROVE  Goal
  <2>1. current' = current /\ file' = file
    BY <1>9 DEF GivesUp, Asks, BrowserEdits, Receives, Forgets, Edits, CloudHandles,
                CloudRestored, Editor, vars, store
  <2> QED
    BY <1>1, <2>1
<1>10. \A p \in puts : p.id \in Saves
  BY DEF TypeOK
<1> HIDE DEF Goal
<1>11. Goal
  BY <1>2, <1>3, <1>4, <1>5, <1>6, <1>7, <1>8, <1>9, <1>10 DEF Next, Works
<1> QED
  BY <1>11 DEF Goal

\* Nothing that somebody has written is overwritten unseen, in the Cloud or at
\* a node.
THEOREM NothingIsOverwritten == Spec => NothingOverwritten
<1>1. IInv /\ [Next]_vars => [\A s \in published' \ published : Revision(cloud) = base[s]]_vars
  BY UnseenStep
<1>2. IInv /\ [Next]_vars =>
        [\A n \in Nodes :
           /\ \A f \in file[n], g \in file'[n] : f = g \/ Len(g) > Len(f)
           /\ \A f \in current[n], g \in current'[n] : f = g \/ Len(g) > Len(f)]_vars
  BY ForwardStep
<1> QED
  BY <1>1, <1>2, Invariance, PTL DEF Spec, NothingOverwritten, NothingUnseen, NeverBack
=============================================================================
