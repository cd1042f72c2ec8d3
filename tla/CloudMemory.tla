------------------------------ MODULE CloudMemory ------------------------------
(***************************************************************************)
(* The shared memory: one document in the Cloud that every node's control  *)
(* plane edits for the conversations of its node and for a browser         *)
(* (config/cloud_memory.py, core/cluster/memory_service.py,                *)
(* core/cluster/memory_client.py), and that the node's core reads at boot. *)
(*                                                                         *)
(* The document is the sequence of the edits it was made by; revision      *)
(* numbers are their count. What an edit does to the entries, and reading  *)
(* them, is left out. Hints only wake the refresh that is due anyway.      *)
(***************************************************************************)
EXTENDS Integers, Sequences, FiniteSets

CONSTANTS Nodes,
          Apps,      \* nodes whose core is modelled
          Saves,     \* bound: identities of the edits, used in order
          Browser,   \* those of them that a browser makes, not a conversation
          MaxJobs,   \* requests that a service admits at a time
          Faults     \* bound: deaths, lost answers, failing disks, restores,
                     \* requests that are delivered again

ASSUME CloudMemoryAssumption ==
    /\ Apps \subseteq Nodes /\ Browser \subseteq Saves
    /\ IsFiniteSet(Nodes) /\ IsFiniteSet(Saves)
    /\ MaxJobs \in Nat \ {0} /\ Faults \in Nat

VARIABLES
    cloud,      \* the document that the manifest points to
    etag,       \* the manifest's ETag
    puts,       \* conditional publications on their way, with their answers
    current,    \* CloudMemoryStore.current of each control plane: at most one
    file,       \* current.json of each node: at most one
    sent,       \* requests over NATS
    seen,       \* MemoryService.seen
    jobs,       \* requests admitted, the one that holds the lock included
    op,         \* the edit that holds the lock of each node: at most one
    base,       \* base_revision of each edit; 0 before it is known
    late,       \* edits whose deadline has passed
    told,       \* what the editor was told
    published,  \* history: edits that were published
    faults,     \* faults so far
    restored    \* history: the Cloud has been set back by its operator

cluster == <<cloud, etag, puts, published, restored>>
store == <<current, file, faults>>
service == <<seen, jobs, op, base>>
client == <<sent, late, told>>
vars == <<cluster, store, service, client>>

Logs == UNION {[1 .. n -> Saves] : n \in 0 .. Cardinality(Saves)}
Revision(c) == Len(c) + 1
Optional(S) == {x \in SUBSET S : Cardinality(x) <= 1}

\* Caches, jobs and publications hold what the code can store: one operation at
\* a time on each node, and no more jobs than its limit.
TypeOK ==
    /\ cloud \in Logs /\ etag \in Nat
    /\ puts \subseteq [id : Saves, etag : Nat, config : Logs, answer : {"none", "ok", "conflict"}]
    /\ \A n \in Nodes : /\ current[n] \in Optional(Logs) /\ file[n] \in Optional(Logs)
                        /\ op[n] \in Optional(jobs[n])
                        /\ Cardinality(jobs[n]) <= MaxJobs
    /\ sent \subseteq Saves \X Nodes /\ seen \in [Nodes -> SUBSET Saves]
    /\ base \in [Saves -> 0 .. Cardinality(Saves) + 1]
    /\ late \subseteq Saves /\ published \subseteq Saves
    /\ told \in [Saves -> {"none", "pending", "saved", "conflict", "unknown"}]
    /\ faults \in 0 .. Faults /\ restored \in BOOLEAN

(* A memory that has been provisioned; nobody has read it yet.             *)
Init ==
    /\ cloud = <<>> /\ etag = 0 /\ puts = {} /\ published = {} /\ restored = FALSE
    /\ current = [n \in Nodes |-> {}] /\ file = current /\ faults = 0
    /\ seen = [n \in Nodes |-> {}] /\ jobs = seen /\ op = seen
    /\ base = [s \in Saves |-> 0]
    /\ sent = {} /\ late = {} /\ told = [s \in Saves |-> "none"]

Faulty == faults < Faults /\ faults' = faults + 1

-----------------------------------------------------------------------------
(* The store.                                                              *)

(* _known_current(): the newer of what is in memory and in the file, which *)
(* the node's other process writes too.                                    *)
Known(n) == IF \E f \in file[n] : \A c \in current[n] : Len(f) >= Len(c)
            THEN file[n] ELSE current[n]
(* It fails if they differ under one revision.                             *)
Agrees(n) == \A f \in file[n], c \in current[n] : Len(f) = Len(c) => f = c

(* _check_floor()                                                          *)
Above(c, floor) == \A f \in floor : Len(c) > Len(f) \/ c = f

(* sync(): a fetch, or without the Cloud what is known, if anything is.    *)
Fetched(floor) == {c \in {cloud} : Above(c, floor)} \cup floor
Syncs(n) == Agrees(n) /\ \E c \in Fetched(Known(n)) :
    \/ /\ file' = [file EXCEPT ![n] = {c}] /\ current' = [current EXCEPT ![n] = {c}]
       /\ UNCHANGED faults
    \/ Faulty /\ UNCHANGED <<file, current>>

(* MemoryService.run(), at its interval or woken.                          *)
(* Variant: a service that has a document does not look again.             *)
DueOnce(n) == current[n] = {}
Due(n) == TRUE
Refreshes(n) ==
    /\ op[n] = {} /\ Due(n) /\ Syncs(n)
    /\ UNCHANGED <<cluster, service, client>>

(* prepare_runtime() of the node's core: a store of its own that starts    *)
(* from the same file.                                                     *)
AppSyncs(n) ==
    /\ op[n] = {}
    /\ \E c \in Fetched(file[n]) : file' = [file EXCEPT ![n] = {c}]
    /\ UNCHANGED <<cluster, current, faults, service, client>>

-----------------------------------------------------------------------------
(* The editors.                                                            *)

Kind(s) == IF s \in Browser THEN Browser ELSE Saves \ Browser
Unused(s) == told[s] = "none" /\ \A t \in Kind(s) : t < s => told[t] # "none"
Tells(s, answer) == told' = [told EXCEPT ![s] = answer]
Editor == UNCHANGED <<cluster, store, seen, op>>

(* A conversation's MemoryClient asks its node's service, once.            *)
Asks(n, s) ==
    /\ Unused(s) /\ s \notin Browser /\ Editor
    /\ Tells(s, "pending") /\ sent' = sent \cup {<<s, n>>}
    /\ UNCHANGED <<jobs, base, late>>

(* No answer within the deadline: nothing is known and nothing is asked    *)
(* again. A browser's answer is lost with its connection.                  *)
GivesUp(s) ==
    /\ told[s] = "pending" /\ Editor
    /\ Tells(s, "unknown") /\ late' = late \cup {s}
    /\ UNCHANGED <<sent, jobs, base>>

(* A browser looks at the memory of a node, and edits what it has seen.    *)
Free(n) == Cardinality(jobs[n]) < MaxJobs
Looks(n, s) ==
    /\ s \in Browser /\ Unused(s) /\ op[n] = {} /\ Free(n) /\ base[s] = 0
    /\ Syncs(n) /\ current'[n] # {}
    /\ base' = [base EXCEPT ![s] = Revision(CHOOSE c \in current'[n] : TRUE)]
    /\ UNCHANGED <<cluster, seen, jobs, op, client>>
BrowserEdits(n, s) ==
    /\ s \in Browser /\ Unused(s) /\ base[s] # 0 /\ Free(n) /\ Editor
    /\ Tells(s, "pending") /\ jobs' = [jobs EXCEPT ![n] = @ \cup {s}]
    /\ UNCHANGED <<sent, late, base>>

-----------------------------------------------------------------------------
(* The service.                                                            *)

(* An error over NATS never says more than that nothing is confirmed.      *)
Answer(s, answer) == IF s \in Browser THEN answer
                     ELSE IF answer = "saved" THEN "saved" ELSE "unknown"
Hears(s, answer) ==
    \/ UNCHANGED told
    \/ told[s] = "pending" /\ Tells(s, Answer(s, answer))

(* receive(): a request that was seen is not executed again; and only so   *)
(* many at a time. Either is answered.                                     *)
(* Variant: requests are not remembered.                                   *)
NeverKnown(n, s) == s \in jobs[n]
AlreadyKnown(n, s) == s \in seen[n]
Receives(n, s) ==
    /\ <<s, n>> \in sent
    /\ \/ sent' = sent \ {<<s, n>>} /\ UNCHANGED faults
       \/ Faulty /\ UNCHANGED sent
    /\ IF AlreadyKnown(n, s) \/ ~Free(n)
       THEN Hears(s, "unknown") /\ UNCHANGED <<seen, jobs>>
       ELSE /\ seen' = [seen EXCEPT ![n] = @ \cup {s}]
            /\ jobs' = [jobs EXCEPT ![n] = @ \cup {s}] /\ UNCHANGED told
    /\ UNCHANGED <<cluster, file, current, op, base, late>>

(* Requests are forgotten after 120 seconds, long after their deadline.    *)
Forgets(n, s) ==
    /\ s \in seen[n] \cap late /\ s \notin jobs[n]
    /\ seen' = [seen EXCEPT ![n] = @ \ {s}]
    /\ UNCHANGED <<cluster, store, jobs, op, base, client>>

(* A job ends: the lock and its place are free.                            *)
(* Variant: the lock is kept.                                              *)
EndsHolding(n, s, answer) ==
    /\ jobs' = [jobs EXCEPT ![n] = @ \ {s}]
    /\ Hears(s, answer) /\ UNCHANGED <<op, seen, base, sent, late>>
Ends(n, s, answer) ==
    /\ op' = [op EXCEPT ![n] = {}] /\ jobs' = [jobs EXCEPT ![n] = @ \ {s}]
    /\ Hears(s, answer) /\ UNCHANGED <<seen, base, sent, late>>

(* execute(): what is late is refused; the document is fetched again, and  *)
(* what it is then is what the edit is for. A browser's edit is for what   *)
(* it has seen.                                                            *)
Begins(n, s) ==
    /\ s \in jobs[n] /\ op[n] = {}
    /\ \/ /\ s \notin Browser /\ (s \in late \/ ~Agrees(n))
          /\ Ends(n, s, "unknown") /\ UNCHANGED store
       \/ /\ s \in Browser
          /\ op' = [op EXCEPT ![n] = {s}] /\ UNCHANGED <<store, base, seen, jobs, client>>
       \/ /\ s \notin late \cup Browser
          /\ Syncs(n) /\ current'[n] # {}
          /\ base' = [base EXCEPT ![s] = Revision(CHOOSE c \in current'[n] : TRUE)]
          /\ op' = [op EXCEPT ![n] = {s}] /\ UNCHANGED <<seen, jobs, client>>
    /\ UNCHANGED cluster

(* mutate(): the revision is looked at, in the Cloud and in memory, and    *)
(* the manifest is replaced on the condition that it still is the one that *)
(* was fetched.                                                            *)
(* Variant: whatever is in the Cloud is edited.                            *)
BaseOfAny(n, s) == TRUE
IsBase(n, s) == /\ Revision(cloud) = base[s]
                /\ \A c \in current[n] : Revision(c) = base[s]
Waiting(n, s) == op[n] = {s} /\ \A p \in puts : p.id # s
Edits(n, s) ==
    /\ Waiting(n, s) /\ current[n] # {}
    /\ s \notin late \/ s \in Browser
    /\ Agrees(n) /\ Above(cloud, Known(n)) /\ IsBase(n, s)
    /\ puts' = puts \cup
         {[id |-> s, etag |-> etag, config |-> Append(cloud, s), answer |-> "none"]}
    /\ UNCHANGED <<cloud, etag, published, restored, store, service, client>>
Refuses(n, s) ==
    /\ Waiting(n, s)
    /\ IF s \in late \ Browser THEN Ends(n, s, "unknown")
       ELSE /\ ~(Agrees(n) /\ Above(cloud, Known(n)) /\ IsBase(n, s)) \/ current[n] = {}
            /\ Ends(n, s, "conflict")
    /\ UNCHANGED <<cluster, store>>
(* A fetch, the upload or the check of it fails: nothing was sent.         *)
EditFails(n, s) ==
    /\ Waiting(n, s) \/ (s \in jobs[n] /\ op[n] = {})
    /\ Faulty /\ Ends(n, s, "unknown")
    /\ UNCHANGED <<cluster, file, current>>

Matches(p) == p.etag = etag
CloudHandles(p) ==
    /\ p.answer = "none"
    /\ \/ /\ Matches(p)
          /\ cloud' = p.config /\ etag' = etag + 1 /\ published' = published \cup {p.id}
          /\ puts' = (puts \ {p}) \cup {[p EXCEPT !.answer = "ok"]}
       \/ /\ ~Matches(p)
          /\ puts' = (puts \ {p}) \cup {[p EXCEPT !.answer = "conflict"]}
          /\ UNCHANGED <<cloud, etag, published>>
    /\ UNCHANGED <<restored, store, service, client>>

(* The answer: the document is in memory whether or not the disk takes it. *)
Finishes(n, p) ==
    /\ op[n] = {p.id} /\ p.answer # "none" /\ puts' = puts \ {p}
    /\ \/ /\ p.answer = "ok" /\ Ends(n, p.id, "saved")
          /\ current' = [current EXCEPT ![n] = {p.config}]
          /\ \/ file' = [file EXCEPT ![n] = {p.config}] /\ UNCHANGED faults
             \/ Faulty /\ UNCHANGED file
       \/ /\ p.answer = "conflict" /\ Ends(n, p.id, "conflict") /\ UNCHANGED store
    /\ UNCHANGED <<cloud, etag, published, restored>>

(* No answer: the publication may still happen. It is not repeated.        *)
Uncertain(n, p) ==
    /\ op[n] = {p.id} /\ Faulty /\ Ends(n, p.id, "unknown")
    /\ UNCHANGED <<cluster, file, current>>

(* The control plane dies and starts again. What was under way to it is    *)
(* lost with its subscription.                                             *)
Dies(n) ==
    /\ Faulty
    /\ current' = [current EXCEPT ![n] = {}] /\ seen' = [seen EXCEPT ![n] = {}]
    /\ jobs' = [jobs EXCEPT ![n] = {}] /\ op' = [op EXCEPT ![n] = {}]
    /\ sent' = sent \ (Saves \X {n})
    /\ UNCHANGED <<cluster, file, base, late, told>>

(* Somebody restores an old manifest in Google Drive.                      *)
CloudRestored ==
    /\ Faulty /\ restored' = TRUE
    /\ \E r \in 0 .. Len(cloud) - 1 : cloud' = SubSeq(cloud, 1, r)
    /\ etag' = etag + 1
    /\ UNCHANGED <<puts, published, file, current, service, client>>

-----------------------------------------------------------------------------
Works(n) ==
    \/ \E s \in Saves : Begins(n, s) \/ Edits(n, s) \/ Refuses(n, s)
    \/ \E p \in puts : Finishes(n, p)
Next ==
    \/ \E s \in Saves : GivesUp(s)
    \/ \E n \in Nodes, s \in Saves :
         \/ Asks(n, s) \/ Looks(n, s) \/ BrowserEdits(n, s)
         \/ Receives(n, s) \/ Forgets(n, s) \/ EditFails(n, s)
    \/ \E n \in Nodes : Refreshes(n) \/ Works(n) \/ Dies(n)
    \/ \E n \in Nodes, p \in puts : Uncertain(n, p)
    \/ \E p \in puts : CloudHandles(p)
    \/ \E n \in Apps : AppSyncs(n)
    \/ CloudRestored

(* Drive answers, an owned thread runs to its end, and the refresh that is *)
(* repeated at an interval reaches the Cloud and the disk now and then.    *)
(* The lock serves in order.                                               *)
Fairness ==
    /\ WF_vars(\E p \in puts : CloudHandles(p))
    /\ \A n \in Nodes :
         /\ WF_vars(Works(n)) /\ \A s \in Saves : SF_vars(Begins(n, s))
         /\ SF_vars(Refreshes(n) /\ current'[n] = {cloud})

Spec == Init /\ [][Next]_vars /\ Fairness

-----------------------------------------------------------------------------
(* The edits of several nodes form one sequence, none is lost below        *)
(* another, each counts at most once however often its request arrives,    *)
(* and nobody is told anything false (RevisionLedger).                     *)
Ledger == INSTANCE RevisionLedger WITH log <- cloud
LedgerSpec == Ledger!Spec

(* An edit is never applied to a document that its author has not seen.    *)
NothingUnseen ==
    [][\A s \in published' \ published : Revision(cloud) = base[s]]_vars

(* A node never forgets an edit that it knew: neither its memory nor its   *)
(* file goes back, whichever of its two processes wrote it, and even if    *)
(* the Cloud is set back.                                                  *)
NeverBack ==
    [][\A n \in Nodes :
         /\ \A f \in file[n], g \in file'[n] : f = g \/ Len(g) > Len(f)
         /\ \A f \in current[n], g \in current'[n] : f = g \/ Len(g) > Len(f)]_vars

(* Nothing that somebody has written is overwritten unseen, in the Cloud   *)
(* or at a node.                                                           *)
NothingOverwritten == NothingUnseen /\ NeverBack

(* Every request that was admitted leaves the service, so that its four    *)
(* places never stay taken; and in the end every node has the document,    *)
(* unless it was set back, which the nodes refuse.                         *)
Converges ==
    <>[](\A n \in Nodes : jobs[n] = {} /\ (restored \/ current[n] = {cloud}))
=============================================================================
