------------------------------ MODULE Parts_proofs ------------------------------
(***************************************************************************)
(* Proofs about the components that MCParts, MCSafety and MCMaintenance    *)
(* check: that a rotation of a key is whole (SecretProvisioning), that the *)
(* memory gets one manifest (CloudProvisioning), that a photo has its      *)
(* camera and its worker for itself (Vision), that a clone is its host's   *)
(* own (CloudClone), that the soundbank's cleanup keeps what is wanted     *)
(* (SoundbankCleanup), that the robot's tools are known and answer         *)
(* (DeviceTools), that a worker's slot and a core's nodes are held alone   *)
(* (TTSSegment), that the robot's newest connection is the known one       *)
(* (Reconnection), and that a worker held for maintenance is at rest       *)
(* (Maintenance); for any number of nodes, keys, calls, hosts, files,      *)
(* pages, segments, connections and faults. No component disturbs          *)
(* another's variables, so that each has an inductive invariant of its     *)
(* own.                                                                    *)
(***************************************************************************)
EXTENDS MCParts, MCSafety, MCMaintenance, FiniteSetTheorems, TLAPS

-----------------------------------------------------------------------------
(* SecretProvisioning.                                                     *)

\* Every node has the key.
Everywhere(k) == \A n \in Nodes : k \in stored[n]
Published == K!Range(cloud)

\* A rotation is the only one of its key, whose fate is open; who has answered
\* without an error has it; and until its publication is sent there is none.
RotatingInv ==
    \A c \in Coordinators :
        rotation[c] = K!Nothing \/
        LET k == rotation[c].key
        IN  /\ rotation[c].at \in {"asking", "commit"} /\ k \in Keys /\ told[k] = "pending"
            /\ ~rotation[c].failed => \A n \in Nodes \ rotation[c].open : k \in stored[n]
            /\ \A d \in Coordinators \ {c} : rotation[d].key # k
            /\ rotation[c].at = "asking" => k \notin Published /\ \A p \in keyPuts : p.key # k

\* A publication is of a key that every node has, the only one of that key, and
\* in the Cloud exactly if it was accepted, which its operator has not heard.
PublicationInv ==
    \A p \in keyPuts :
        /\ Everywhere(p.key) /\ told[p.key] \in {"pending", "unknown"}
        /\ p.answer = "ok" <=> p.key \in Published
        /\ p.answer = "ok" => p.base < K!Revision
        /\ \A q \in keyPuts : q.key = p.key => q = p

\* What is in the Cloud every node has, and nobody was told otherwise.
CloudInv ==
    \A k \in Published : Everywhere(k) /\ told[k] \in {"pending", "saved", "unknown"}
SavedInv == \A k \in Keys : told[k] = "saved" => k \in Published

SecretInv == K!TypeOK /\ RotatingInv /\ PublicationInv /\ CloudInv /\ SavedInv

-----------------------------------------------------------------------------
(* CloudProvisioning.                                                      *)

\* The receipt names the manifest, or says that there may be one: so it is
\* before each run, and during a run until the run has it.
ReceiptInv ==
    /\ Len(drive) <= 1
    /\ receipt.state = "id" <=> receipt.id # 0
    /\ drive # <<>> => receipt.state # P!None
    /\ boot # 0 => receipt.id = boot
    /\ receipt.state = P!Begun => run.at \in {"off", "create", "record"}
\* What a run has is what the receipt names.
RunInv ==
    /\ run.at = "off" => run = P!Off
    /\ run.at \in {"commit", "seed", "verify", "publish"} => run.id = receipt.id
    /\ run.at = "create" => run.id = 0 /\ drive = <<>> /\ receipt.state = P!Begun
    /\ run.at = "record" => run.id # 0 /\ receipt.state = P!Begun
ProvisionInv == P!TypeOK /\ ReceiptInv /\ RunInv

-----------------------------------------------------------------------------
(* Vision.                                                                 *)

\* Calls come one after the other; the camera is that of the open one.
CallInv ==
    /\ \A c, d \in Calls : c < d /\ turn[d] # "new" => turn[c] = "over"
    /\ active # 0 => turn[active] = "open"
\* An upload belongs to a call that has begun, the last one that the open camera
\* has served if it was consumed.
ServedInv ==
    \A c \in Calls : servedFor[c] # 0 =>
        /\ turn[servedFor[c]] # "new"
        /\ servedFor[c] = active => consumed
        /\ \A d \in Calls : servedFor[c] = servedFor[d] => c = d
\* One upload at a time; if it is wanted, it is for the camera that is open; a
\* client that has not asked yet knows no worker.
UploadInv ==
    /\ \A c \in Calls : upload[c] \in {"none", "reading"} => c \notin known
    /\ \A c, d \in V!Live : c = d
    /\ V!Live # {} => busy
    /\ \A c \in V!Working : /\ active # 0 /\ servedFor[c] = active
                            /\ upload[c] # "reading" => question[c] = question[active]
    /\ (\A c \in Calls : turn[c] \in {"new", "over"}) => V!Live = {}
\* One job at a time, which alone may run; each is counted once.
JobInv ==
    /\ (jobs = {} /\ count = 0) \/ \E c \in Calls : jobs = {c} /\ count = 1
    /\ \A c \in Calls : V!Runs(c) => c \in jobs
PhotoInv == V!TypeOK /\ CallInv /\ ServedInv /\ UploadInv /\ JobInv

-----------------------------------------------------------------------------
(* The parts do not disturb each other.                                    *)

LEMMA OthersStay ==
    ASSUME [PartsNext]_all
    PROVE  /\ K!Next \/ UNCHANGED secretVars
           /\ P!Next \/ UNCHANGED provisionVars
           /\ V!Next \/ UNCHANGED photoVars
BY DEF PartsNext, Slot, Secret, Provision, Photo, all

-----------------------------------------------------------------------------
(* CloudProvisioning: the proof.                                           *)

Steps == {"off", "commit", "seed", "create", "record", "verify", "publish"}
LEMMA RunFields ==
    ASSUME P!TypeOK
    PROVE  /\ run = [at |-> run.at, memory |-> run.memory, base |-> run.base, id |-> run.id]
           /\ run.at \in Steps /\ run.memory \in 0 .. MaxVersion
           /\ run.base \in 0 .. MaxRevision /\ run.id \in P!Ids \cup {0}
BY DEF P!TypeOK, Steps

LEMMA ProvisionBegins == PartsInit => ProvisionInv
<1> SUFFICES ASSUME PartsInit PROVE ProvisionInv
  OBVIOUS
<1>1. /\ memory = 0 /\ config = [revision |-> 1, own |-> FALSE] /\ drive = <<>>
      /\ receipt = [state |-> "none", id |-> 0] /\ boot = 0 /\ run = P!Off /\ cloudFaults = 0
  BY DEF PartsInit, P!Init, P!NoReceipt, P!None
<1>2. /\ 0 \in 0 .. MaxVersion /\ 1 \in 1 .. MaxRevision /\ 0 \in 0 .. MaxRevision
      /\ 0 \in 0 .. CloudFaults
  BY PartsAssumption
<1>3. P!TypeOK
  BY <1>1, <1>2 DEF P!TypeOK, P!Off, P!None, P!Begun, P!Ids
<1> QED
  BY <1>1, <1>3 DEF ProvisionInv, ReceiptInv, RunInv, P!Off, P!None, P!Begun

\* What neither makes a manifest nor writes the receipt.
LEMMA ProvisionFrame ==
    ASSUME ProvisionInv, UNCHANGED <<drive, receipt, boot>>, P!TypeOK', RunInv',
           receipt.state = "begun" => run'.at \in {"off", "create", "record"}
    PROVE  ProvisionInv'
BY DEF ProvisionInv, ReceiptInv, P!None, P!Begun

LEMMA ProvisionStarts == ASSUME ProvisionInv, P!Starts PROVE ProvisionInv'
<1>1. /\ run = P!Off /\ receipt.state # "begun" /\ (boot = 0 \/ receipt.id \in {0, boot})
      /\ run' = [at |-> IF config.own THEN "seed" ELSE "commit", memory |-> memory,
                 base |-> config.revision, id |-> P!Known]
      /\ UNCHANGED <<memory, config, drive, receipt, boot, cloudFaults>>
  BY DEF P!Starts, P!Begun
<1>2. P!Known = receipt.id /\ receipt.id \in P!Ids \cup {0}
  BY DEF P!Known, ProvisionInv, ReceiptInv, P!TypeOK
<1>3. run'.at \in {"seed", "commit"} /\ run'.id = receipt.id
  BY <1>1, <1>2
<1>4. config.revision \in 0 .. MaxRevision
  BY DEF ProvisionInv, P!TypeOK
<1>5. P!TypeOK'
  BY <1>1, <1>2, <1>4 DEF ProvisionInv, P!TypeOK, P!Ids
<1>6. RunInv'
  BY <1>1, <1>3 DEF RunInv
<1> QED
  BY <1>1, <1>5, <1>6, ProvisionFrame

\* A run that fails leaves what it has written.
LEMMA ProvisionFails ==
    ASSUME ProvisionInv, P!Fails, cloudFaults' \in 0 .. CloudFaults,
           config' \in [revision : 1 .. MaxRevision, own : BOOLEAN],
           UNCHANGED <<memory, drive, receipt, boot>>
    PROVE  ProvisionInv'
<1>1. run' = P!Off
  BY DEF P!Fails
<1>2. P!TypeOK'
  BY <1>1, PartsAssumption DEF ProvisionInv, P!TypeOK, P!Off, P!Ids
<1>3. RunInv'
  BY <1>1 DEF RunInv, P!Off
<1> QED
  BY <1>1, <1>2, <1>3, ProvisionFrame DEF P!Off

\* One that goes on, likewise.
LEMMA ProvisionGoes ==
    ASSUME ProvisionInv, NEW step \in {"seed", "verify", "publish"}, P!Goes(step),
           run.at \in {"commit", "seed", "verify"}, cloudFaults' = cloudFaults,
           config' \in [revision : 1 .. MaxRevision, own : BOOLEAN],
           UNCHANGED <<memory, drive, receipt, boot>>
    PROVE  ProvisionInv'
<1>1. run' = [run EXCEPT !.at = step]
  BY DEF P!Goes
<1>2. /\ run'.at = step /\ run'.memory = run.memory /\ run'.base = run.base /\ run'.id = run.id
      /\ run' = [at |-> step, memory |-> run.memory, base |-> run.base, id |-> run.id]
  BY <1>1, RunFields DEF ProvisionInv
<1>3. P!TypeOK'
  BY <1>2 DEF ProvisionInv, P!TypeOK, P!Ids
<1>4. RunInv'
  BY <1>2 DEF ProvisionInv, RunInv
<1>5. receipt.state # "begun"
  BY DEF ProvisionInv, ReceiptInv, P!Begun
<1> QED
  BY <1>3, <1>4, <1>5, ProvisionFrame

LEMMA Spent == ASSUME ProvisionInv, P!Faulty PROVE cloudFaults' \in 0 .. CloudFaults
BY PartsAssumption DEF ProvisionInv, P!TypeOK, P!Faulty

LEMMA ProvisionKeeps ==
    ASSUME ProvisionInv
    PROVE  /\ cloudFaults \in 0 .. CloudFaults
           /\ config \in [revision : 1 .. MaxRevision, own : BOOLEAN]
BY DEF ProvisionInv, P!TypeOK

LEMMA ProvisionCommits == ASSUME ProvisionInv, P!Commits PROVE ProvisionInv'
<1>1. run.at = "commit" /\ UNCHANGED <<memory, drive, receipt, boot>>
  BY DEF P!Commits
<1>2. config' \in [revision : 1 .. MaxRevision, own : BOOLEAN]
  <2>1. config.revision \in 1 .. MaxRevision /\ config.revision \in Nat
    BY PartsAssumption DEF ProvisionInv, P!TypeOK
  <2>2. CASE UNCHANGED config
    BY <2>2, ProvisionKeeps
  <2>3. CASE /\ config.revision = run.base /\ config.revision < MaxRevision
             /\ config' = [revision |-> run.base + 1, own |-> TRUE]
    <3>1. run.base + 1 \in 1 .. MaxRevision
      BY <2>1, <2>3, PartsAssumption
    <3> QED
      BY <2>3, <3>1
  <2> QED
    BY <2>2, <2>3 DEF P!Commits
<1> QED
  BY <1>1, <1>2, ProvisionGoes, ProvisionFails, Spent, ProvisionKeeps DEF P!Commits

LEMMA ProvisionSeeds == ASSUME ProvisionInv, P!Seeds PROVE ProvisionInv'
<1>1. /\ run.at = "seed" /\ UNCHANGED <<memory, config, boot, drive>>
      /\ config' \in [revision : 1 .. MaxRevision, own : BOOLEAN]
  BY ProvisionKeeps DEF P!Seeds, P!Keeps
<1>2. CASE run.id # 0 /\ P!Goes("verify") /\ UNCHANGED <<receipt, cloudFaults>>
  BY <1>1, <1>2, ProvisionGoes
<1>3. CASE run.id = 0 /\ P!Fails /\ P!Faulty /\ UNCHANGED receipt
  BY <1>1, <1>3, ProvisionFails, Spent
<1>4. CASE /\ run.id = 0 /\ P!Goes("create") /\ receipt' = P!ToCreate
           /\ UNCHANGED cloudFaults
  <2>1. receipt' = [state |-> "begun", id |-> 0] /\ run' = [run EXCEPT !.at = "create"]
    BY <1>4 DEF P!ToCreate, P!Begun, P!Goes
  <2>2. /\ run'.at = "create" /\ run'.id = 0
        /\ run' = [at |-> "create", memory |-> run.memory, base |-> run.base, id |-> run.id]
    BY <1>4, <2>1, RunFields DEF ProvisionInv
  <2>3. receipt.id = 0 /\ receipt.state # "id" /\ receipt.state # "begun" /\ boot = 0
    BY <1>1, <1>4 DEF ProvisionInv, RunInv, ReceiptInv, P!Begun
  <2>4. drive = <<>>
    BY <2>3 DEF ProvisionInv, ReceiptInv, P!TypeOK, P!None, P!Begun
  <2>5. P!TypeOK'
    BY <1>1, <1>4, <2>1, <2>2, RunFields DEF ProvisionInv, P!TypeOK, P!Ids, P!Begun
  <2>6. RunInv'
    BY <1>1, <2>1, <2>2, <2>4 DEF RunInv, P!Begun
  <2>7. ReceiptInv'
    BY <1>1, <2>1, <2>2, <2>3, <2>4 DEF ProvisionInv, ReceiptInv, P!None, P!Begun
  <2> QED
    BY <2>5, <2>6, <2>7 DEF ProvisionInv
<1> QED
  BY <1>2, <1>3, <1>4 DEF P!Seeds

LEMMA ProvisionCreates == ASSUME ProvisionInv, P!Creates PROVE ProvisionInv'
<1>1. /\ run.at = "create" /\ UNCHANGED <<memory, config, boot, receipt>>
      /\ drive' = Append(drive, run.memory)
  BY DEF P!Creates, P!Keeps
<1>2. run.id = 0 /\ drive = <<>> /\ receipt.state = "begun" /\ receipt.id = 0 /\ boot = 0
  BY <1>1 DEF ProvisionInv, RunInv, ReceiptInv, P!Begun
<1>3. run.memory \in 0 .. MaxVersion
  BY RunFields DEF ProvisionInv
<1>4. drive' \in Seq(0 .. MaxVersion) /\ Len(drive') = 1 /\ drive' # <<>> /\ Len(drive) = 0
  BY <1>1, <1>2, <1>3
<1>5. CASE run' = [run EXCEPT !.at = "record", !.id = Len(drive) + 1] /\ UNCHANGED cloudFaults
  <2>1. /\ run'.at = "record" /\ run'.id = 1
        /\ run' = [at |-> "record", memory |-> run.memory, base |-> run.base, id |-> 1]
    <3>1. run' = [run EXCEPT !.at = "record", !.id = 1]
      BY <1>4, <1>5
    <3> QED
      BY <3>1, RunFields DEF ProvisionInv
  <2>2. P!TypeOK'
    BY <1>1, <1>2, <1>4, <1>5, <2>1, RunFields DEF ProvisionInv, P!TypeOK, P!Ids
  <2>3. RunInv' /\ ReceiptInv'
    BY <1>1, <1>2, <1>4, <2>1 DEF RunInv, ReceiptInv, P!None, P!Begun
  <2> QED
    BY <2>2, <2>3 DEF ProvisionInv
<1>6. CASE P!Fails /\ P!Faulty
  <2>1. run' = P!Off
    BY <1>6 DEF P!Fails
  <2>2. P!TypeOK'
    BY <1>1, <1>2, <1>4, <1>6, <2>1, Spent, PartsAssumption
       DEF ProvisionInv, P!TypeOK, P!Ids, P!Off
  <2>3. RunInv' /\ ReceiptInv'
    BY <1>1, <1>2, <1>4, <2>1 DEF RunInv, ReceiptInv, P!None, P!Begun, P!Off
  <2> QED
    BY <2>2, <2>3 DEF ProvisionInv
<1> QED
  BY <1>5, <1>6 DEF P!Creates

LEMMA ProvisionRecords == ASSUME ProvisionInv, P!Records PROVE ProvisionInv'
<1>1. run.at = "record" /\ UNCHANGED <<memory, config, boot, drive>>
  BY DEF P!Records, P!Keeps
<1>2. CASE P!Fails /\ P!Faulty /\ UNCHANGED receipt
  BY <1>1, <1>2, ProvisionFails, ProvisionKeeps, Spent
<1>3. CASE /\ receipt' = [state |-> "id", id |-> run.id] /\ P!Goes("verify")
           /\ UNCHANGED cloudFaults
  <2>1. run' = [run EXCEPT !.at = "verify"]
    BY <1>3 DEF P!Goes
  <2>2. /\ run'.at = "verify" /\ run'.id = run.id
        /\ run' = [at |-> "verify", memory |-> run.memory, base |-> run.base, id |-> run.id]
    BY <2>1, RunFields DEF ProvisionInv
  <2>3. run.id # 0 /\ receipt.state = "begun" /\ boot = 0
    BY <1>1 DEF ProvisionInv, RunInv, ReceiptInv, P!Begun
  <2>4. P!TypeOK'
    BY <1>1, <1>3, <2>2, RunFields DEF ProvisionInv, P!TypeOK, P!Ids
  <2>5. RunInv' /\ ReceiptInv'
    BY <1>1, <1>3, <2>2, <2>3 DEF ProvisionInv, RunInv, ReceiptInv, P!None, P!Begun
  <2> QED
    BY <2>4, <2>5 DEF ProvisionInv
<1> QED
  BY <1>2, <1>3 DEF P!Records

LEMMA ProvisionEnds == ASSUME ProvisionInv, P!Verifies \/ P!Publishes PROVE ProvisionInv'
<1>1. CASE P!Verifies
  <2>1. run.at = "verify" /\ UNCHANGED <<memory, config, boot, drive, receipt, cloudFaults>>
    BY <1>1 DEF P!Verifies, P!Keeps
  <2> QED
    BY <1>1, <2>1, ProvisionGoes, ProvisionFails, ProvisionKeeps DEF P!Verifies
<1>2. CASE P!Publishes
  <2>1. /\ run.at = "publish" /\ run' = P!Off /\ UNCHANGED <<memory, config, drive, receipt>>
        /\ \/ boot' = run.id /\ UNCHANGED cloudFaults
           \/ P!Faulty /\ UNCHANGED boot
    BY <1>2 DEF P!Publishes, P!Fails
  <2>2. run.id = receipt.id /\ run.id \in P!Ids \cup {0}
    BY <2>1, RunFields DEF ProvisionInv, RunInv
  <2>3. cloudFaults' \in 0 .. CloudFaults /\ boot' \in {boot, run.id}
    BY <2>1, Spent, ProvisionKeeps
  <2>4. P!TypeOK'
    BY <2>1, <2>2, <2>3, PartsAssumption DEF ProvisionInv, P!TypeOK, P!Ids, P!Off
  <2>5. RunInv' /\ ReceiptInv'
    BY <2>1, <2>2, <2>3 DEF ProvisionInv, RunInv, ReceiptInv, P!None, P!Begun, P!Off
  <2> QED
    BY <2>4, <2>5 DEF ProvisionInv
<1> QED
  BY <1>1, <1>2

LEMMA ProvisionRecovers == ASSUME ProvisionInv, P!Recovers PROVE ProvisionInv'
<1>1. /\ run = P!Off /\ receipt.state = "begun"
      /\ UNCHANGED <<memory, config, boot, drive, run, cloudFaults>>
      /\ \/ drive = <<>> /\ receipt' = [state |-> "none", id |-> 0]
         \/ \E id \in P!Ids : receipt' = [state |-> "id", id |-> id]
  BY DEF P!Recovers, P!Keeps, P!Begun, P!NoReceipt, P!None
<1>2. boot = 0
  BY <1>1 DEF ProvisionInv, ReceiptInv, P!Begun
<1>3. receipt'.state \in {"none", "id"} /\ receipt'.id \in P!Ids \cup {0}
      /\ (receipt'.state = "id" <=> receipt'.id # 0) /\ (drive # <<>> => receipt'.state = "id")
  BY <1>1 DEF P!Ids, ProvisionInv, P!TypeOK
<1>4. P!TypeOK'
  BY <1>1, <1>3 DEF ProvisionInv, P!TypeOK, P!Ids, P!None, P!Begun
<1>5. RunInv' /\ ReceiptInv'
  BY <1>1, <1>2, <1>3 DEF ProvisionInv, RunInv, ReceiptInv, P!None, P!Begun, P!Off
<1> QED
  BY <1>4, <1>5 DEF ProvisionInv

LEMMA ProvisionOthers ==
    ASSUME ProvisionInv, P!OthersSave \/ P!MemoryChanges PROVE ProvisionInv'
<1>1. UNCHANGED <<drive, receipt, boot, run, cloudFaults>>
  BY DEF P!OthersSave, P!MemoryChanges
<1>2. config' \in [revision : 1 .. MaxRevision, own : BOOLEAN] /\ memory' \in 0 .. MaxVersion
  BY PartsAssumption DEF P!OthersSave, P!MemoryChanges, ProvisionInv, P!TypeOK
<1>3. P!TypeOK' /\ RunInv'
  BY <1>1, <1>2 DEF ProvisionInv, P!TypeOK, RunInv, P!Ids
<1> QED
  BY <1>1, <1>3, ProvisionFrame DEF ProvisionInv, ReceiptInv, P!Begun

LEMMA ProvisionStep == ProvisionInv /\ [PartsNext]_all => ProvisionInv'
<1> SUFFICES ASSUME ProvisionInv, [PartsNext]_all PROVE ProvisionInv'
  OBVIOUS
<1>1. ASSUME P!Next PROVE ProvisionInv'
  <2>1. CASE P!Dies
    BY <2>1, ProvisionFails, ProvisionKeeps, Spent DEF P!Dies, P!Keeps
  <2> QED
    BY <1>1, <2>1, ProvisionStarts, ProvisionCommits, ProvisionSeeds, ProvisionCreates,
       ProvisionRecords, ProvisionEnds, ProvisionRecovers, ProvisionOthers DEF P!Next
<1>2. ASSUME UNCHANGED provisionVars PROVE ProvisionInv'
  BY <1>2 DEF provisionVars, ProvisionInv, ReceiptInv, RunInv, P!TypeOK, P!Ids
<1> QED
  BY <1>1, <1>2, OthersStay

\* However often a provisioning is interrupted and run again
\* (cloud_provisioning.py: receipt, upload, bootstrap file), the memory gets one
\* manifest, and between two runs the node knows it or knows to look for it.
THEOREM OneManifest == PartsSpec => []OneAuthority
<1>1. PartsInit => ProvisionInv
  BY ProvisionBegins
<1>2. ProvisionInv => OneAuthority
  BY DEF ProvisionInv, ReceiptInv, OneAuthority, P!OneAuthority
<1> QED
  BY <1>1, <1>2, ProvisionStep, PTL DEF PartsSpec

-----------------------------------------------------------------------------
(* SecretProvisioning: the proof.                                          *)

Verdicts == {"none", "pending", "saved", "unchanged", "unknown"}
Rotation(n) == [at : {"idle", "asking", "commit"}, key : Keys \cup {"none"},
                base : 0 .. n, open : SUBSET Nodes, failed : BOOLEAN]

LEMMA SecretTypes ==
    K!TypeOK <=>
        /\ cloud \in Seq(Keys) /\ rotation \in [Coordinators -> Rotation(Len(cloud))]
        /\ desired \in [Coordinators -> 0 .. Len(cloud)]
        /\ keyWire \subseteq Keys \X Nodes /\ stored \in [Nodes -> SUBSET Keys]
        /\ keyPuts \subseteq [key : Keys, base : Nat, answer : {"none", "ok", "conflict"}]
        /\ told \in [Keys -> Verdicts] /\ keyFaults \in 0 .. MaxFaults
BY DEF K!TypeOK, K!Rotations, K!Revision, Rotation, Verdicts

LEMMA AppendedFacts ==
    ASSUME NEW T, NEW seq \in Seq(T), NEW e \in T
    PROVE  /\ Append(seq, e) \in Seq(T) /\ Len(Append(seq, e)) = Len(seq) + 1
           /\ Append(seq, e)[Len(seq) + 1] = e
           /\ \A i \in 1 .. Len(seq) : Append(seq, e)[i] = seq[i]
OBVIOUS

LEMMA PublishedFacts ==
    ASSUME cloud \in Seq(Keys)
    PROVE  /\ Published \subseteq Keys
           /\ \A k : cloud' = Append(cloud, k) => Published' = Published \cup {k}
<1>1. Published \subseteq Keys
  BY DEF Published, K!Range
<1>2. ASSUME NEW k, cloud' = Append(cloud, k)
      PROVE  Published' = Published \cup {k}
  <2>1. DOMAIN cloud = 1 .. Len(cloud) /\ DOMAIN cloud' = 1 .. Len(cloud) + 1
        /\ Len(cloud) \in Nat /\ cloud'[Len(cloud) + 1] = k
        /\ \A i \in 1 .. Len(cloud) : cloud'[i] = cloud[i]
    BY <1>2, AppendedFacts
  <2>2. ASSUME NEW x \in Published PROVE x \in Published'
    BY <2>1, <2>2 DEF Published, K!Range
  <2>3. k \in Published'
    BY <2>1 DEF Published, K!Range
  <2>4. ASSUME NEW x \in Published' PROVE x \in Published \cup {k}
    <3>1. PICK i \in 1 .. Len(cloud) + 1 : x = cloud'[i]
      BY <2>1, <2>4 DEF Published, K!Range
    <3>2. CASE i \in 1 .. Len(cloud)
      BY <2>1, <3>1, <3>2 DEF Published, K!Range
    <3>3. CASE i = Len(cloud) + 1
      BY <2>1, <3>1, <3>3
    <3> QED
      BY <2>1, <3>2, <3>3
  <2> QED
    BY <2>2, <2>3, <2>4
<1> QED
  BY <1>1, <1>2

LEMMA SecretBegins == PartsInit => SecretInv
<1> SUFFICES ASSUME PartsInit PROVE SecretInv
  OBVIOUS
<1>1. /\ cloud = <<>> /\ desired = [c \in Coordinators |-> 0]
      /\ rotation = [c \in Coordinators |-> K!Nothing]
      /\ keyWire = {} /\ stored = [n \in Nodes |-> {}] /\ keyPuts = {}
      /\ told = [k \in Keys |-> "none"] /\ keyFaults = 0
  BY DEF PartsInit, K!Init
<1>2. K!Nothing \in Rotation(0)
  BY DEF K!Nothing, Rotation
<1>3. 0 \in 0 .. MaxFaults /\ 0 \in 0 .. 0 /\ Len(cloud) = 0
  BY <1>1, SegmentAssumption
<1>4. K!TypeOK
  BY <1>1, <1>2, <1>3, SecretTypes DEF Verdicts
<1>5. Published = {}
  BY <1>1 DEF Published, K!Range
<1> QED
  BY <1>1, <1>4, <1>5 DEF SecretInv, RotatingInv, PublicationInv, CloudInv, SavedInv

\* Rotations refer to what the Cloud had.
LEMMA RotationGrows ==
    ASSUME NEW n \in Nat, NEW m \in Nat, n <= m
    PROVE  Rotation(n) \subseteq Rotation(m) /\ 0 .. n \subseteq 0 .. m
BY DEF Rotation

LEMMA NothingIsRotation == ASSUME NEW n \in Nat PROVE K!Nothing \in Rotation(n)
BY DEF K!Nothing, Rotation

\* A key that nobody was told of is nowhere.
LEMMA FreshKey ==
    ASSUME SecretInv, NEW k \in Keys, told[k] = "none"
    PROVE  /\ k \notin Published /\ \A p \in keyPuts : p.key # k
           /\ \A c \in Coordinators : rotation[c].key # k
<1>1. k \notin Published /\ \A p \in keyPuts : p.key # k
  BY DEF SecretInv, CloudInv, PublicationInv
<1>2. ASSUME NEW c \in Coordinators PROVE rotation[c].key # k
  <2>1. CASE rotation[c] = K!Nothing
    BY <2>1, PartsAssumption DEF K!Nothing
  <2>2. CASE rotation[c] # K!Nothing
    BY <2>2 DEF SecretInv, RotatingInv
  <2> QED
    BY <2>1, <2>2
<1> QED
  BY <1>1, <1>2

\* A rotation ends, with what can be said of its key.
LEMMA RotationEnds ==
    ASSUME SecretInv, NEW c \in Coordinators, rotation[c] # K!Nothing,
           NEW verdict \in {"saved", "unchanged", "unknown"}, K!Ends(c, verdict),
           UNCHANGED <<cloud, keyWire, stored>>, keyPuts' \subseteq keyPuts,
           desired' \in [Coordinators -> 0 .. Len(cloud)], keyFaults' \in 0 .. MaxFaults,
           verdict = "saved" => rotation[c].key \in Published,
           verdict = "unchanged" => rotation[c].key \notin Published,
           verdict # "unknown" => \A p \in keyPuts' : p.key # rotation[c].key
    PROVE  SecretInv'
<1> DEFINE k == rotation[c].key
<1>1. /\ rotation' = [rotation EXCEPT ![c] = K!Nothing] /\ told' = [told EXCEPT ![k] = verdict]
      /\ Published' = Published
  BY DEF K!Ends, Published
<1>2. k \in Keys /\ rotation \in [Coordinators -> Rotation(Len(cloud))]
      /\ told \in [Keys -> Verdicts] /\ Len(cloud) \in Nat
  BY SecretTypes DEF SecretInv, RotatingInv
<1>3. K!TypeOK'
  <2>1. rotation' \in [Coordinators -> Rotation(Len(cloud))]
    BY <1>1, <1>2, NothingIsRotation
  <2>2. told' \in [Keys -> Verdicts]
    BY <1>1, <1>2 DEF Verdicts
  <2> QED
    BY <2>1, <2>2, SecretTypes DEF SecretInv, K!TypeOK, K!Rotations, K!Revision, Rotation,
       Verdicts
<1>4. told'[k] = verdict /\ \A j \in Keys : j # k => told'[j] = told[j]
  BY <1>1, <1>2
<1>5. RotatingInv'
  <2>1. ASSUME NEW d \in Coordinators, d # c, rotation[d] # K!Nothing
        PROVE  rotation[d].key \in Keys /\ rotation[d].key # k
    BY <2>1 DEF SecretInv, RotatingInv
  <2>2. rotation'[c] = K!Nothing /\ \A d \in Coordinators : d # c => rotation'[d] = rotation[d]
    BY <1>1, <1>2
  <2>3. ASSUME NEW d \in Coordinators, d # c, rotation[d] # K!Nothing,
               NEW e \in Coordinators \ {d}
        PROVE  rotation'[e].key # rotation[d].key
    <3>1. CASE e = c
      BY <2>1, <2>2, <2>3, <3>1, PartsAssumption DEF K!Nothing
    <3>2. CASE e # c
      BY <2>2, <2>3, <3>2 DEF SecretInv, RotatingInv
    <3> QED
      BY <3>1, <3>2
  <2> QED
    BY <1>1, <1>4, <2>1, <2>2, <2>3 DEF SecretInv, RotatingInv
<1>6. PublicationInv'
  <2>1. \A p \in keyPuts' : p.key \in Keys
    BY SecretTypes DEF SecretInv
  <2> QED
    BY <1>1, <1>4, <2>1 DEF SecretInv, PublicationInv, Everywhere, K!Revision
<1>7. CloudInv' /\ SavedInv'
  BY <1>1, <1>4, PublishedFacts, SecretTypes
     DEF SecretInv, CloudInv, SavedInv, Everywhere
<1> QED
  BY <1>3, <1>5, <1>6, <1>7 DEF SecretInv

\* The fields of a rotation.
LEMMA RotationFields ==
    ASSUME SecretInv, NEW c \in Coordinators
    PROVE  LET r == rotation[c]
           IN  /\ r = [at |-> r.at, key |-> r.key, base |-> r.base, open |-> r.open,
                       failed |-> r.failed]
               /\ r.at \in {"idle", "asking", "commit"} /\ r.key \in Keys \cup {"none"}
               /\ r.base \in 0 .. Len(cloud) /\ r.open \subseteq Nodes /\ r.failed \in BOOLEAN
               /\ r.at \in {"asking", "commit"} => r # K!Nothing /\ r.key \in Keys
BY SecretTypes DEF SecretInv, RotatingInv, Rotation, K!Nothing

\* What an update of some of its fields makes of a rotation.
LEMMA RotationUpdates ==
    ASSUME NEW n \in Nat, NEW r \in Rotation(n), NEW step, NEW open
    PROVE  /\ [r EXCEPT !.at = step] = [at |-> step, key |-> r.key, base |-> r.base,
                                        open |-> r.open, failed |-> r.failed]
           /\ [r EXCEPT !.open = open] = [at |-> r.at, key |-> r.key, base |-> r.base,
                                          open |-> open, failed |-> r.failed]
<1>1. r = [at |-> r.at, key |-> r.key, base |-> r.base, open |-> r.open, failed |-> r.failed]
  BY DEF Rotation
<1>2. [r EXCEPT !.at = step] = [at |-> step, key |-> r.key, base |-> r.base, open |-> r.open,
                                failed |-> r.failed]
  BY <1>1
<1>3. [r EXCEPT !.open = open] = [at |-> r.at, key |-> r.key, base |-> r.base, open |-> open,
                                  failed |-> r.failed]
  BY <1>1
<1> QED
  BY <1>2, <1>3

LEMMA RotationFails ==
    ASSUME NEW n \in Nat, NEW r \in Rotation(n), NEW open, r.at = "asking"
    PROVE  [r EXCEPT !.open = open, !.failed = TRUE] =
               [at |-> "asking", key |-> r.key, base |-> r.base, open |-> open, failed |-> TRUE]
<1>1. [r EXCEPT !.open = open] = [at |-> "asking", key |-> r.key, base |-> r.base,
                                  open |-> open, failed |-> r.failed]
  BY RotationUpdates
<1>2. \A failed : [[at |-> "asking", key |-> r.key, base |-> r.base, open |-> open,
                    failed |-> r.failed] EXCEPT !.failed = failed] =
                  [at |-> "asking", key |-> r.key, base |-> r.base, open |-> open,
                   failed |-> failed]
  OBVIOUS
<1>3. [r EXCEPT !.open = open, !.failed = TRUE] = [[r EXCEPT !.open = open] EXCEPT !.failed = TRUE]
  BY Zenon
<1> QED
  BY <1>1, <1>2, <1>3, Zenon

LEMMA SecretBeginsRotation ==
    ASSUME SecretInv, NEW c \in Coordinators, NEW k \in Keys, K!Begins(c, k) PROVE SecretInv'
<1> DEFINE new == [at |-> "asking", key |-> k, base |-> Len(cloud), open |-> Nodes,
                   failed |-> FALSE]
<1>1. /\ told[k] = "none" /\ rotation[c] = K!Nothing
      /\ rotation' = [rotation EXCEPT ![c] = new] /\ told' = [told EXCEPT ![k] = "pending"]
      /\ keyWire' = keyWire \cup {k} \X Nodes
      /\ UNCHANGED <<cloud, desired, stored, keyPuts, keyFaults>> /\ Published' = Published
  BY DEF K!Begins, K!Revision, Published
<1>2. /\ rotation \in [Coordinators -> Rotation(Len(cloud))] /\ told \in [Keys -> Verdicts]
      /\ Len(cloud) \in Nat /\ keyWire \subseteq Keys \X Nodes
  BY SecretTypes DEF SecretInv
<1>3. /\ k \notin Published /\ \A p \in keyPuts : p.key # k
      /\ \A d \in Coordinators : rotation[d].key # k
  BY <1>1, FreshKey
<1>4. new \in Rotation(Len(cloud))
  BY <1>2 DEF Rotation
<1> HIDE DEF new
<1>5. K!TypeOK'
  <2>1. rotation' \in [Coordinators -> Rotation(Len(cloud))]
    BY <1>1, <1>2, <1>4
  <2>2. told' \in [Keys -> Verdicts]
    BY <1>1, <1>2 DEF Verdicts
  <2>3. keyWire' \subseteq Keys \X Nodes
    BY <1>1, <1>2
  <2> QED
    BY <1>1, <2>1, <2>2, <2>3, SecretTypes DEF SecretInv, K!TypeOK, K!Rotations, K!Revision,
       Rotation, Verdicts
<1>6. /\ told'[k] = "pending" /\ \A j \in Keys : j # k => told'[j] = told[j]
      /\ rotation'[c] = new /\ \A d \in Coordinators : d # c => rotation'[d] = rotation[d]
  BY <1>1, <1>2
<1>7. RotatingInv'
  <2>1. ASSUME NEW d \in Coordinators, d # c, rotation[d] # K!Nothing
        PROVE  rotation[d].key \in Keys /\ rotation[d].key # k
    BY <1>3, <2>1 DEF SecretInv, RotatingInv
  <2>2. /\ new.at = "asking" /\ new.key = k /\ new.open = Nodes /\ new.failed = FALSE
    BY DEF new
  <2>3. ASSUME NEW d \in Coordinators, d # c, rotation[d] # K!Nothing
        PROVE  \A e \in Coordinators \ {d} : rotation'[e].key # rotation[d].key
    BY <1>3, <1>6, <2>1, <2>2, <2>3 DEF SecretInv, RotatingInv
  <2>4. \A e \in Coordinators \ {c} : rotation'[e].key # k
    BY <1>3, <1>6
  <2> QED
    BY <1>1, <1>3, <1>6, <2>1, <2>2, <2>3, <2>4 DEF SecretInv, RotatingInv
<1>8. PublicationInv' /\ CloudInv' /\ SavedInv'
  <2>1. \A p \in keyPuts : p.key \in Keys
    BY SecretTypes DEF SecretInv
  <2>2. PublicationInv'
    BY <1>1, <1>3, <1>6, <2>1 DEF SecretInv, PublicationInv, Everywhere, K!Revision
  <2> QED
    BY <1>1, <1>6, <2>2, PublishedFacts, SecretTypes
       DEF SecretInv, CloudInv, SavedInv, Everywhere
<1> QED
  BY <1>5, <1>7, <1>8 DEF SecretInv

\* Nothing changes but what the operator is told of a key that is nowhere, and
\* what a coordinator or a node knows.
LEMMA SecretFrame ==
    ASSUME SecretInv, UNCHANGED <<cloud, rotation, keyPuts>>,
           desired' \in [Coordinators -> 0 .. Len(cloud)], keyWire' \subseteq Keys \X Nodes,
           stored' \in [Nodes -> SUBSET Keys], \A n \in Nodes : stored[n] \subseteq stored'[n],
           keyFaults' = keyFaults, told' \in [Keys -> Verdicts],
           \A k \in Keys : \/ told'[k] = told[k]
                           \/ told[k] = "none" /\ told'[k] \in {"unknown", "unchanged"}
    PROVE  SecretInv'
<1>1. K!TypeOK'
  BY SecretTypes DEF SecretInv, K!TypeOK, K!Rotations, K!Revision, Rotation, Verdicts
<1>2. Published' = Published /\ Published \subseteq Keys /\ \A p \in keyPuts : p.key \in Keys
  BY PublishedFacts, SecretTypes DEF Published, SecretInv
<1>3. RotatingInv'
  <2>1. ASSUME NEW c \in Coordinators, rotation[c] # K!Nothing
        PROVE  told'[rotation[c].key] = "pending"
    BY <2>1 DEF SecretInv, RotatingInv
  <2> QED
    BY <1>2, <2>1 DEF SecretInv, RotatingInv
<1>4. PublicationInv' /\ CloudInv' /\ SavedInv'
  BY <1>2 DEF SecretInv, PublicationInv, CloudInv, SavedInv, Everywhere, K!Revision
<1> QED
  BY <1>1, <1>3, <1>4 DEF SecretInv

LEMMA KnowsTypes ==
    ASSUME SecretInv, NEW c \in Coordinators, K!Knows(c)
    PROVE  desired' \in [Coordinators -> 0 .. Len(cloud)]
<1>1. Len(cloud) \in 0 .. Len(cloud) /\ desired \in [Coordinators -> 0 .. Len(cloud)]
  BY SecretTypes DEF SecretInv
<1> QED
  BY <1>1 DEF K!Knows, K!Revision

LEMMA SecretStays ==
    ASSUME SecretInv,
           \/ \E c \in Coordinators : K!Refreshes(c) \/ \E k \in Keys : K!Refused(c, k)
           \/ \E k \in Keys, n \in Nodes : K!Stores(k, n)
    PROVE  SecretInv'
<1>1. /\ desired \in [Coordinators -> 0 .. Len(cloud)] /\ told \in [Keys -> Verdicts]
      /\ keyWire \subseteq Keys \X Nodes /\ stored \in [Nodes -> SUBSET Keys]
  BY SecretTypes DEF SecretInv
<1>2. ASSUME NEW c \in Coordinators, K!Refreshes(c) PROVE SecretInv'
  BY <1>1, <1>2, KnowsTypes, SecretFrame DEF K!Refreshes
<1>3. ASSUME NEW c \in Coordinators, NEW k \in Keys, K!Refused(c, k) PROVE SecretInv'
  <2>1. desired' \in [Coordinators -> 0 .. Len(cloud)]
    BY <1>1, <1>3, KnowsTypes DEF K!Refused
  <2>2. /\ told[k] = "none" /\ UNCHANGED <<cloud, rotation, keyWire, stored, keyPuts, keyFaults>>
        /\ \E a \in {"unknown", "unchanged"} : told' = [told EXCEPT ![k] = a]
    BY <1>3 DEF K!Refused
  <2>3. told' \in [Keys -> Verdicts]
    BY <1>1, <2>2 DEF Verdicts
  <2>4. \A j \in Keys : \/ told'[j] = told[j]
                        \/ told[j] = "none" /\ told'[j] \in {"unknown", "unchanged"}
    BY <1>1, <2>2
  <2> QED
    BY <1>1, <2>1, <2>2, <2>3, <2>4, SecretFrame
<1>4. ASSUME NEW k \in Keys, NEW n \in Nodes, K!Stores(k, n) PROVE SecretInv'
  <2>1. /\ keyWire' \subseteq keyWire /\ stored' = [stored EXCEPT ![n] = @ \cup {k}]
        /\ UNCHANGED <<cloud, desired, rotation, keyPuts, told, keyFaults>>
    BY <1>4 DEF K!Stores
  <2>2. stored' \in [Nodes -> SUBSET Keys] /\ \A m \in Nodes : stored[m] \subseteq stored'[m]
    BY <1>1, <2>1
  <2> QED
    BY <1>1, <2>1, <2>2, SecretFrame
<1> QED
  BY <1>2, <1>3, <1>4

\* A rotation goes on.
LEMMA RotationGoesOn ==
    ASSUME SecretInv, NEW c \in Coordinators, rotation[c].at = "asking",
           NEW open \in SUBSET Nodes, NEW failed \in BOOLEAN, NEW step \in {"asking", "commit"},
           rotation' = [rotation EXCEPT ![c] = [at |-> step, key |-> rotation[c].key,
                            base |-> rotation[c].base, open |-> open, failed |-> failed]],
           UNCHANGED <<cloud, keyWire, stored, told, keyFaults>>,
           desired' \in [Coordinators -> 0 .. Len(cloud)],
           ~failed => \A n \in Nodes \ open : rotation[c].key \in stored[n],
           IF step = "asking" THEN keyPuts' = keyPuts
           ELSE /\ open = {} /\ ~failed
                /\ keyPuts' = keyPuts \cup {[key |-> rotation[c].key, base |-> Len(cloud),
                                       answer |-> "none"]}
    PROVE  SecretInv'
<1> DEFINE k == rotation[c].key
           new == [at |-> step, key |-> k, base |-> rotation[c].base, open |-> open,
                   failed |-> failed]
           put == [key |-> k, base |-> Len(cloud), answer |-> "none"]
<1>1. /\ rotation[c] # K!Nothing /\ k \in Keys /\ rotation[c].base \in 0 .. Len(cloud)
      /\ told[k] = "pending" /\ k \notin Published /\ \A p \in keyPuts : p.key # k
      /\ \A d \in Coordinators \ {c} : rotation[d].key # k
  BY RotationFields DEF SecretInv, RotatingInv
<1>2. /\ rotation \in [Coordinators -> Rotation(Len(cloud))] /\ Len(cloud) \in Nat
      /\ keyPuts \subseteq [key : Keys, base : Nat, answer : {"none", "ok", "conflict"}]
      /\ Published' = Published
  BY SecretTypes DEF SecretInv, Published
<1>3. new \in Rotation(Len(cloud)) /\ new.at = step /\ new.key = k /\ new.open = open
      /\ new.failed = failed
  BY <1>1 DEF Rotation
<1>4. put \in [key : Keys, base : Nat, answer : {"none", "ok", "conflict"}]
      /\ put.key = k /\ put.base = Len(cloud) /\ put.answer = "none"
  BY <1>1, <1>2
<1>5. rotation' = [rotation EXCEPT ![c] = new] /\ keyPuts' \in {keyPuts, keyPuts \cup {put}}
      /\ (step = "commit" => open = {} /\ ~failed) /\ (step = "asking" => keyPuts' = keyPuts)
  OBVIOUS
<1> HIDE DEF new, put
<1>6. rotation'[c] = new /\ \A d \in Coordinators : d # c => rotation'[d] = rotation[d]
  BY <1>2, <1>5
<1>7. K!TypeOK'
  <2>1. rotation' \in [Coordinators -> Rotation(Len(cloud))]
    BY <1>2, <1>3, <1>5
  <2>2. keyPuts' \subseteq [key : Keys, base : Nat, answer : {"none", "ok", "conflict"}]
    BY <1>2, <1>4, <1>5
  <2> QED
    BY <2>1, <2>2, SecretTypes DEF SecretInv, K!TypeOK, K!Rotations, K!Revision, Rotation,
       Verdicts
<1>8. RotatingInv'
  <2>1. ASSUME NEW d \in Coordinators, d # c, rotation[d] # K!Nothing
        PROVE  /\ rotation[d].key # k /\ \A p \in keyPuts' : p.key = rotation[d].key => p \in keyPuts
               /\ \A e \in Coordinators \ {d} : rotation'[e].key # rotation[d].key
    BY <1>1, <1>3, <1>4, <1>5, <1>6, <2>1 DEF SecretInv, RotatingInv
  <2>2. ASSUME NEW d \in Coordinators, d # c, rotation[d] # K!Nothing
        PROVE  /\ rotation'[d].at \in {"asking", "commit"} /\ rotation'[d].key \in Keys
               /\ told'[rotation'[d].key] = "pending"
               /\ ~rotation'[d].failed =>
                     \A n \in Nodes \ rotation'[d].open : rotation'[d].key \in stored'[n]
               /\ rotation'[d].at = "asking" =>
                     rotation'[d].key \notin Published' /\ \A p \in keyPuts' : p.key # rotation'[d].key
    BY <1>2, <1>6, <2>1, <2>2 DEF SecretInv, RotatingInv
  <2>3. \A e \in Coordinators \ {c} : rotation'[e].key # k
    BY <1>1, <1>6
  <2>4. new.at = "asking" => keyPuts' = keyPuts
    BY <1>3, <1>5
  <2> QED
    BY <1>1, <1>2, <1>3, <1>6, <2>1, <2>2, <2>3, <2>4 DEF RotatingInv
<1>9. PublicationInv'
  <2>1. CASE keyPuts' = keyPuts
    BY <1>2, <2>1 DEF SecretInv, PublicationInv, Everywhere, K!Revision
  <2>2. CASE keyPuts' = keyPuts \cup {put} /\ step = "commit"
    <3>1. Everywhere(k)
      BY <1>5, <2>2 DEF Everywhere
    <3> QED
      BY <1>1, <1>2, <1>4, <2>2, <3>1 DEF SecretInv, PublicationInv, Everywhere, K!Revision
  <2> QED
    BY <1>5, <2>1, <2>2
<1>10. CloudInv' /\ SavedInv'
  BY <1>2 DEF SecretInv, CloudInv, SavedInv, Everywhere
<1> QED
  BY <1>7, <1>8, <1>9, <1>10 DEF SecretInv

LEMMA SecretAnswered ==
    ASSUME SecretInv, NEW c \in Coordinators, NEW n \in Nodes, K!Answered(c, n)
    PROVE  SecretInv'
<1> DEFINE r == rotation[c]
           answered(failed) == [at |-> "asking", key |-> r.key, base |-> r.base,
                            open |-> r.open \ {n}, failed |-> failed]
<1>0. r \in Rotation(Len(cloud)) /\ Len(cloud) \in Nat
  BY SecretTypes DEF SecretInv
<1>1. /\ r.at = "asking" /\ UNCHANGED <<cloud, desired, keyWire, stored, keyPuts, told, keyFaults>>
      /\ r # K!Nothing /\ rotation \in [Coordinators -> Rotation(Len(cloud))]
      /\ desired \in [Coordinators -> 0 .. Len(cloud)]
  BY SecretTypes DEF K!Answered, K!Nothing, SecretInv
<1>2. ~r.failed => \A m \in Nodes \ r.open : r.key \in stored[m]
  BY <1>1 DEF SecretInv, RotatingInv
<1>3. r.open \ {n} \in SUBSET Nodes /\ r.failed \in BOOLEAN
  BY RotationFields
<1>4. CASE r.key \in stored[n] /\ rotation' = [rotation EXCEPT ![c].open = @ \ {n}]
  <2>1. rotation' = [rotation EXCEPT ![c] = answered(r.failed)]
    <3>1. [r EXCEPT !.open = r.open \ {n}] = answered(r.failed)
      BY <1>0, <1>1, RotationUpdates
    <3> HIDE DEF answered
    <3>2. rotation' = [rotation EXCEPT ![c] = [r EXCEPT !.open = r.open \ {n}]]
      BY <1>1, <1>4
    <3> QED
      BY <3>1, <3>2
  <2>2. ~r.failed => \A m \in Nodes \ (r.open \ {n}) : r.key \in stored[m]
    BY <1>2, <1>4
  <2> QED
    BY <1>1, <1>3, <2>1, <2>2, RotationGoesOn
<1>5. CASE rotation' = [rotation EXCEPT ![c].open = @ \ {n}, ![c].failed = TRUE]
  <2>1. rotation' = [rotation EXCEPT ![c] = answered(TRUE)]
    <3>1. [r EXCEPT !.open = r.open \ {n}, !.failed = TRUE] = answered(TRUE)
      BY <1>0, <1>1, RotationFails, Zenon
    <3> HIDE DEF answered
    <3>2. rotation' = [rotation EXCEPT ![c] = [r EXCEPT !.open = r.open \ {n}, !.failed = TRUE]]
      BY <1>1, <1>5
    <3> QED
      BY <3>1, <3>2, Zenon
  <2> QED
    BY <1>1, <1>3, <2>1, RotationGoesOn
<1> QED
  BY <1>4, <1>5 DEF K!Answered

LEMMA SecretCommits ==
    ASSUME SecretInv, NEW c \in Coordinators, K!Commits(c) PROVE SecretInv'
<1> DEFINE r == rotation[c]
<1>1. /\ r.at = "asking" /\ r.open = {} /\ ~r.failed
      /\ UNCHANGED <<cloud, keyWire, stored, told, keyFaults>>
      /\ rotation' = [rotation EXCEPT ![c].at = "commit"]
      /\ keyPuts' = keyPuts \cup {[key |-> r.key, base |-> Len(cloud), answer |-> "none"]}
  BY DEF K!Commits, K!Confirmed, K!Revision
<1>2. desired' \in [Coordinators -> 0 .. Len(cloud)]
  BY KnowsTypes DEF K!Commits
<1>3. \A n \in Nodes : r.key \in stored[n]
  BY <1>1 DEF SecretInv, RotatingInv, K!Nothing
<1>4. rotation' = [rotation EXCEPT ![c] = [at |-> "commit", key |-> r.key, base |-> r.base,
                                          open |-> {}, failed |-> FALSE]]
  <2>1. rotation \in [Coordinators -> Rotation(Len(cloud))]
    BY SecretTypes DEF SecretInv
  <2>2. r.failed = FALSE
    BY <1>1, RotationFields
  <2>3. [r EXCEPT !.at = "commit"] = [at |-> "commit", key |-> r.key, base |-> r.base,
                                      open |-> {}, failed |-> FALSE]
    <3>1. r \in Rotation(Len(cloud)) /\ Len(cloud) \in Nat
      BY SecretTypes DEF SecretInv
    <3>2. [r EXCEPT !.at = "commit"] = [at |-> "commit", key |-> r.key, base |-> r.base,
                                        open |-> r.open, failed |-> r.failed]
      BY <3>1, RotationUpdates
    <3> QED
      BY <1>1, <2>2, <3>2
  <2>4. rotation' = [rotation EXCEPT ![c] = [r EXCEPT !.at = "commit"]]
    BY <1>1, <2>1
  <2> QED
    BY <2>3, <2>4
<1> QED
  BY <1>1, <1>2, <1>3, <1>4, RotationGoesOn

LEMMA SecretFaults == ASSUME SecretInv, K!Faulty PROVE keyFaults' \in 0 .. MaxFaults
BY SegmentAssumption, SecretTypes DEF SecretInv, K!Faulty

\* Where a rotation ends before its publication was sent, nothing of its key is
\* on its way.
LEMMA SecretEnds ==
    ASSUME SecretInv, NEW c \in Coordinators,
           K!Gathered(c) \/ K!CommitRefused(c) \/ K!Dies(c)
    PROVE  SecretInv'
<1>1. /\ desired \in [Coordinators -> 0 .. Len(cloud)] /\ keyFaults \in 0 .. MaxFaults
  BY SecretTypes DEF SecretInv
<1>2. CASE K!Dies(c)
  BY <1>1, <1>2, RotationEnds, SecretFaults DEF K!Dies
<1>3. CASE K!Gathered(c) \/ K!CommitRefused(c)
  <2>1. rotation[c].at = "asking" /\ UNCHANGED <<cloud, keyWire, stored, keyPuts, keyFaults>>
    BY <1>3 DEF K!Gathered, K!CommitRefused
  <2>2. /\ rotation[c] # K!Nothing /\ rotation[c].key \notin Published
        /\ \A p \in keyPuts : p.key # rotation[c].key
    BY <2>1 DEF SecretInv, RotatingInv, K!Nothing
  <2>3. /\ desired' \in [Coordinators -> 0 .. Len(cloud)]
        /\ \E v \in {"unchanged", "unknown"} : K!Ends(c, v)
    BY <1>1, <1>3, KnowsTypes DEF K!Gathered, K!CommitRefused
  <2> QED
    BY <1>1, <2>1, <2>2, <2>3, RotationEnds
<1> QED
  BY <1>2, <1>3

LEMMA SecretPublicationEnds ==
    ASSUME SecretInv, NEW c \in Coordinators, NEW p \in keyPuts,
           K!CommitAnswered(c, p) \/ K!CommitUnanswered(c, p)
    PROVE  SecretInv'
<1>1. rotation[c].at = "commit" /\ rotation[c].key = p.key /\ rotation[c] # K!Nothing
      /\ UNCHANGED <<cloud, keyWire, stored>>
  BY DEF K!CommitAnswered, K!CommitUnanswered, K!Publication, K!Nothing
<1>2. /\ desired \in [Coordinators -> 0 .. Len(cloud)] /\ keyFaults \in 0 .. MaxFaults
      /\ p.base \in Nat /\ Len(cloud) \in Nat /\ p.answer \in {"none", "ok", "conflict"}
  BY SecretTypes DEF SecretInv
<1>3. /\ p.answer = "ok" <=> p.key \in Published
      /\ p.answer = "ok" => p.base < Len(cloud)
      /\ \A q \in keyPuts : q.key = p.key => q = p
  BY DEF SecretInv, PublicationInv, K!Revision
<1>4. CASE K!CommitUnanswered(c, p)
  BY <1>1, <1>2, <1>4, RotationEnds, SecretFaults DEF K!CommitUnanswered
<1>5. CASE K!CommitAnswered(c, p)
  <2>1. p.answer # "none" /\ keyPuts' = keyPuts \ {p} /\ keyFaults' = keyFaults
    BY <1>5 DEF K!CommitAnswered
  <2>2. \A q \in keyPuts' : q.key # rotation[c].key
    BY <1>1, <1>3, <2>1
  <2>3. CASE /\ p.answer = "ok" /\ K!Ends(c, "saved")
             /\ desired' = [desired EXCEPT ![c] = p.base + 1]
    <3>1. p.base + 1 \in 0 .. Len(cloud)
      BY <1>2, <1>3, <2>3
    <3>2. desired' \in [Coordinators -> 0 .. Len(cloud)]
      BY <1>2, <2>3, <3>1
    <3> QED
      BY <1>1, <1>2, <1>3, <2>1, <2>2, <2>3, <3>2, RotationEnds
  <2>4. CASE /\ p.answer = "conflict" /\ K!Ends(c, "unchanged")
             /\ K!Knows(c) \/ UNCHANGED desired
    <3>1. desired' \in [Coordinators -> 0 .. Len(cloud)]
      BY <1>2, <2>4, KnowsTypes
    <3> QED
      BY <1>1, <1>2, <1>3, <2>1, <2>2, <2>4, <3>1, RotationEnds
  <2> QED
    BY <1>5, <2>3, <2>4 DEF K!CommitAnswered
<1> QED
  BY <1>4, <1>5

\* The Cloud takes a publication of what it still is, and nothing else.
LEMMA SecretCloud == ASSUME SecretInv, NEW p \in keyPuts, K!CloudHandles(p) PROVE SecretInv'
<1>1. /\ p.answer = "none"
      /\ UNCHANGED <<desired, rotation, keyWire, stored, told, keyFaults>>
  BY DEF K!CloudHandles
<1>2. /\ cloud \in Seq(Keys) /\ Len(cloud) \in Nat
      /\ keyPuts \subseteq [key : Keys, base : Nat, answer : {"none", "ok", "conflict"}]
      /\ rotation \in [Coordinators -> Rotation(Len(cloud))]
      /\ desired \in [Coordinators -> 0 .. Len(cloud)]
  BY SecretTypes DEF SecretInv
<1>3. /\ p.key \in Keys /\ p.base \in Nat /\ Everywhere(p.key) /\ p.key \notin Published
      /\ told[p.key] \in {"pending", "unknown"} /\ \A q \in keyPuts : q.key = p.key => q = p
  BY <1>1, <1>2 DEF SecretInv, PublicationInv
<1>4. \A c \in Coordinators :
          rotation[c] # K!Nothing /\ rotation[c].at = "asking" => rotation[c].key # p.key
  BY DEF SecretInv, RotatingInv
<1>5. PICK v \in {"ok", "conflict"} :
          /\ keyPuts' = (keyPuts \ {p}) \cup {[p EXCEPT !.answer = v]}
          /\ v = "ok" => p.base = Len(cloud) /\ cloud' = Append(cloud, p.key)
          /\ v # "ok" => cloud' = cloud
  BY DEF K!CloudHandles, K!Revision
<1> DEFINE q == [p EXCEPT !.answer = v]
<1>6. /\ q \in [key : Keys, base : Nat, answer : {"none", "ok", "conflict"}]
      /\ q.key = p.key /\ q.base = p.base /\ q.answer = v
  BY <1>2, <1>3
<1>7. keyPuts' = (keyPuts \ {p}) \cup {q}
  BY <1>5
<1> HIDE DEF q
<1>8. /\ cloud' \in Seq(Keys) /\ Len(cloud') \in Nat /\ Len(cloud) <= Len(cloud')
      /\ v = "ok" => Len(cloud') = Len(cloud) + 1 /\ Published' = Published \cup {p.key}
      /\ v # "ok" => Published' = Published
  <2>1. CASE v = "ok"
    <3>1. cloud' = Append(cloud, p.key)
      BY <1>5, <2>1
    <3>2. cloud' \in Seq(Keys) /\ Len(cloud') = Len(cloud) + 1
      BY <1>2, <1>3, <3>1, AppendedFacts
    <3>3. Published' = Published \cup {p.key}
      BY <1>2, <3>1, PublishedFacts
    <3>4. Len(cloud') \in Nat /\ Len(cloud) <= Len(cloud')
      BY <1>2, <3>2
    <3> QED
      BY <2>1, <3>2, <3>3, <3>4
  <2>2. CASE v # "ok"
    BY <1>2, <1>5, <2>2 DEF Published
  <2> QED
    BY <2>1, <2>2
<1>9. K!TypeOK'
  <2>1. /\ rotation \in [Coordinators -> Rotation(Len(cloud'))]
        /\ desired \in [Coordinators -> 0 .. Len(cloud')]
    BY <1>2, <1>8, RotationGrows
  <2>2. keyPuts' \subseteq [key : Keys, base : Nat, answer : {"none", "ok", "conflict"}]
    BY <1>2, <1>6, <1>7
  <2> QED
    BY <1>1, <1>8, <2>1, <2>2, SecretTypes DEF SecretInv, K!TypeOK, K!Rotations, K!Revision,
       Rotation, Verdicts
<1>10. Published' \subseteq Published \cup {p.key} /\ Published \subseteq Published'
  BY <1>8
<1>11. RotatingInv'
  BY <1>1, <1>4, <1>6, <1>7, <1>10 DEF SecretInv, RotatingInv
<1>12. PublicationInv'
  <2>1. ASSUME NEW r \in keyPuts, r # p
        PROVE  /\ Everywhere(r.key)' /\ told'[r.key] \in {"pending", "unknown"}
               /\ r.answer = "ok" <=> r.key \in Published'
               /\ r.answer = "ok" => r.base < Len(cloud') /\ r.key # p.key
    <3>1. r.key # p.key /\ r.base \in Nat
      BY <1>2, <1>3, <2>1
    <3>2. r.key \in Published' <=> r.key \in Published
      BY <1>10, <3>1
    <3>3. r.answer = "ok" => r.base < Len(cloud')
      BY <1>2, <1>8, <3>1 DEF SecretInv, PublicationInv, K!Revision
    <3> QED
      BY <1>1, <3>1, <3>2, <3>3 DEF SecretInv, PublicationInv, Everywhere
  <2>2. /\ Everywhere(q.key)' /\ told'[q.key] \in {"pending", "unknown"}
        /\ q.answer = "ok" <=> q.key \in Published'
        /\ q.answer = "ok" => q.base < Len(cloud')
    BY <1>1, <1>2, <1>3, <1>5, <1>6, <1>8 DEF Everywhere
  <2>3. \A r \in keyPuts, t \in keyPuts : r.key = t.key => r = t
    BY DEF SecretInv, PublicationInv
  <2> QED
    BY <1>3, <1>6, <1>7, <2>1, <2>2, <2>3 DEF PublicationInv, K!Revision
<1>13. CloudInv' /\ SavedInv'
  BY <1>1, <1>3, <1>10 DEF SecretInv, CloudInv, SavedInv, Everywhere
<1> QED
  BY <1>9, <1>11, <1>12, <1>13 DEF SecretInv

LEMMA SecretStep == SecretInv /\ [PartsNext]_all => SecretInv'
<1> SUFFICES ASSUME SecretInv, [PartsNext]_all PROVE SecretInv'
  OBVIOUS
<1>1. ASSUME K!Next PROVE SecretInv'
  BY <1>1, SecretBeginsRotation, SecretStays, SecretAnswered, SecretCommits, SecretEnds,
     SecretPublicationEnds, SecretCloud DEF K!Next
<1>2. ASSUME UNCHANGED secretVars PROVE SecretInv'
  BY <1>2, SecretFrame, SecretTypes DEF secretVars, SecretInv
<1> QED
  BY <1>1, <1>2, OthersStay

\* A rotation of an API key reaches all nodes or none, and the operator is told
\* nothing false (secret_provisioning.py, control_plane_settings.py): whatever
\* is lost, late or dies, no key is published that a node does not have.
THEOREM RotationsAreWhole == PartsSpec => []RotationIsWhole
<1>1. PartsInit => SecretInv
  BY SecretBegins
<1>2. ASSUME SecretInv PROVE K!PublishedIsStored /\ K!ToldTruly
  <2>1. K!PublishedIsStored
    BY <1>2 DEF SecretInv, CloudInv, Everywhere, K!PublishedIsStored, Published
  <2>2. K!ToldTruly
    BY <1>2 DEF SecretInv, CloudInv, SavedInv, PublicationInv, K!ToldTruly, Published
  <2> QED
    BY <2>1, <2>2
<1>3. SecretInv => RotationIsWhole
  BY <1>2 DEF SecretInv, RotationIsWhole, K!RotationIsWhole
<1> QED
  BY <1>1, <1>3, SecretStep, PTL DEF PartsSpec

-----------------------------------------------------------------------------
(* Vision: the proof. Its types, apart: those of the session and of the    *)
(* uploads, those of the requests, and those of the worker's jobs.         *)

CameraTypes ==
    /\ question \in [Calls -> Questions \cup {0}] /\ active \in Calls \cup {0}
    /\ turn \in [Calls -> {"new", "open", "closing", "over"}]
    /\ consumed \in BOOLEAN /\ busy \in BOOLEAN /\ closed \in BOOLEAN
    /\ upload \in [Calls -> {"none", "reading", "admit", "chunk", "finish", "leaving",
                             "answered", "failed"}]
    /\ generation \in Nat /\ seen \in [Calls -> Nat] /\ servedFor \in [Calls -> Calls \cup {0}]
    /\ doomed \subseteq Calls /\ known \subseteq Calls /\ text \subseteq Calls
QueueTypes ==
    /\ admits \subseteq Calls /\ halting \subseteq Calls /\ late \subseteq Calls
    /\ photoWire \in [Calls -> Seq({"chunk", "finish", "cancel"})]
    /\ reply \in [Calls -> {"none", "admitted", "chunk", "ok", "error"}]
    /\ ending \in BOOLEAN /\ photoFaults \in 0 .. MaxFaults
JobTypes ==
    /\ jobs \subseteq Calls /\ count \in Int
    /\ task \in [Calls -> {"none", "image", "created", "running", "done", "gone"}]

LEMMA PhotoTypes ==
    /\ V!TypeOK => CameraTypes /\ QueueTypes /\ JobTypes
    /\ (CameraTypes /\ QueueTypes /\ JobTypes)' => V!TypeOK'
BY DEF V!TypeOK, CameraTypes, QueueTypes, JobTypes

LEMMA PhotoBegins == PartsInit => PhotoInv
<1> SUFFICES ASSUME PartsInit PROVE PhotoInv
  OBVIOUS
<1>1. V!Init /\ 0 \in 0 .. MaxFaults /\ <<>> \in Seq({"chunk", "finish", "cancel"})
      /\ Calls \subseteq Nat \ {0}
  BY PartsAssumption, SegmentAssumption DEF PartsInit
<1>2. V!TypeOK
  <2>0. /\ [c \in Calls |-> 0] \in [Calls -> Questions \cup {0}]
        /\ [c \in Calls |-> 0] \in [Calls -> Nat]
        /\ [c \in Calls |-> 0] \in [Calls -> Calls \cup {0}]
    OBVIOUS
  <2>1. CameraTypes
    <3>1. /\ question \in [Calls -> Questions \cup {0}] /\ seen \in [Calls -> Nat]
          /\ servedFor \in [Calls -> Calls \cup {0}]
      BY <1>1, <2>0 DEF V!Init
    <3>2. /\ turn \in [Calls -> {"new", "open", "closing", "over"}]
          /\ upload \in [Calls -> {"none", "reading", "admit", "chunk", "finish", "leaving",
                                   "answered", "failed"}]
      BY <1>1 DEF V!Init
    <3>3. /\ consumed = FALSE /\ busy = FALSE /\ closed = FALSE /\ active = 0
          /\ generation = 0 /\ doomed = {} /\ known = {} /\ text = {}
      BY <1>1 DEF V!Init
    <3> QED
      BY <3>1, <3>2, <3>3 DEF CameraTypes
  <2>3. JobTypes
    BY <1>1 DEF V!Init, JobTypes
  <2>2. QueueTypes
    BY <1>1 DEF V!Init, QueueTypes
  <2> QED
    BY <2>1, <2>2, <2>3 DEF V!TypeOK, CameraTypes, QueueTypes, JobTypes
<1>3. V!Live = {} /\ V!Working = {} /\ \A c \in Calls : ~V!Runs(c)
  BY <1>1 DEF V!Init, V!Live, V!Working, V!Runs
<1> QED
  BY <1>1, <1>2, <1>3 DEF V!Init, PhotoInv, CallInv, ServedInv, UploadInv, JobInv

-----------------------------------------------------------------------------
(* What the worker does leaves the camera alone, and the other way round.  *)

CameraInv == CameraTypes /\ CallInv /\ ServedInv /\ UploadInv
WorkerInv == JobTypes /\ JobInv

LEMMA CameraFrame ==
    ASSUME CameraInv, UNCHANGED <<V!session, V!uploads>> PROVE CameraInv'
<1>1. V!Live' = V!Live /\ V!Working' = V!Working
  BY DEF V!session, V!uploads, V!Live, V!Working
<1> QED
  BY <1>1 DEF CameraInv, CameraTypes, CallInv, ServedInv, UploadInv, V!session, V!uploads

LEMMA WorkerFrame ==
    ASSUME WorkerInv, UNCHANGED <<jobs, count, task>> PROVE WorkerInv'
<1>1. \A c \in Calls : V!Runs(c)' = V!Runs(c)
  BY DEF V!Runs
<1> QED
  BY <1>1 DEF WorkerInv, JobTypes, JobInv

\* Only its own job can run, and a release of what does not run counts.
LEMMA ReleaseCounts ==
    ASSUME WorkerInv, NEW c \in Calls, V!Releases(c), ~V!Runs(c)',
           task' \in [Calls -> {"none", "image", "created", "running", "done", "gone"}],
           \A d \in Calls \ {c} : task'[d] = task[d]
    PROVE  WorkerInv'
<1>1. jobs' = jobs \ {c} /\ count' = IF c \in jobs THEN count - 1 ELSE count
  BY DEF V!Releases
<1>2. \/ jobs' = {} /\ count' = 0
      \/ \E d \in Calls : jobs' = {d} /\ count' = 1
  BY <1>1 DEF WorkerInv, JobInv
<1>3. \A d \in Calls : V!Runs(d)' => d \in jobs'
  <2> SUFFICES ASSUME NEW d \in Calls, V!Runs(d)' PROVE d \in jobs'
    OBVIOUS
  <2>1. d # c
    OBVIOUS
  <2>2. V!Runs(d)
    BY <2>1 DEF V!Runs
  <2> QED
    BY <1>1, <2>1, <2>2 DEF WorkerInv, JobInv
<1>4. JobTypes'
  BY <1>1 DEF WorkerInv, JobTypes
<1> QED
  BY <1>2, <1>3, <1>4 DEF WorkerInv, JobInv

LEMMA WorkerCancels ==
    ASSUME WorkerInv, NEW c \in Calls, V!Cancels(c), UNCHANGED task PROVE WorkerInv'
<1>1. task \in [Calls -> {"none", "image", "created", "running", "done", "gone"}]
  BY DEF WorkerInv, JobTypes
<1>2. CASE V!Runs(c) /\ UNCHANGED <<jobs, count>>
  BY <1>2, WorkerFrame
<1>3. CASE task[c] \in {"none", "image"} /\ V!Releases(c)
  <2>1. ~V!Runs(c)'
    BY <1>3 DEF V!Runs
  <2> QED
    BY <1>1, <1>3, <2>1, ReleaseCounts
<1>4. CASE task[c] = "done" /\ UNCHANGED <<jobs, count>>
  BY <1>4, WorkerFrame
<1> QED
  BY <1>2, <1>3, <1>4 DEF V!Cancels

LEMMA WorkerAdmits == ASSUME WorkerInv, NEW c \in Calls, V!Admits(c) PROVE WorkerInv'
<1>1. task' = task
  BY DEF V!Admits
<1>2. CASE UNCHANGED <<jobs, count>>
  BY <1>1, <1>2, WorkerFrame
<1>3. CASE jobs = {} /\ jobs' = jobs \cup {c} /\ count' = count + 1
  <2>1. jobs' = {c} /\ count' = 1
    BY <1>3 DEF WorkerInv, JobInv
  <2>2. \A d \in Calls : ~V!Runs(d)
    BY <1>3 DEF WorkerInv, JobInv
  <2>3. \A d \in Calls : ~V!Runs(d)'
    BY <1>1, <2>2 DEF V!Runs
  <2> QED
    BY <1>1, <2>1, <2>3 DEF WorkerInv, JobInv, JobTypes
<1> QED
  BY <1>2, <1>3 DEF V!Admits

\* A task is made of a job that the worker has.
LEMMA WorkerTasks ==
    ASSUME WorkerInv, NEW c \in Calls, NEW step \in {"image", "created", "running", "done"},
           task' = [task EXCEPT ![c] = step], step \in {"created", "running"} => c \in jobs,
           UNCHANGED <<jobs, count>>
    PROVE  WorkerInv'
<1>1. task \in [Calls -> {"none", "image", "created", "running", "done", "gone"}]
  BY DEF WorkerInv, JobTypes
<1>2. JobTypes'
  BY <1>1 DEF WorkerInv, JobTypes
<1>3. task'[c] = step /\ \A d \in Calls : d # c => task'[d] = task[d]
  BY <1>1
<1>4. \A d \in Calls : V!Runs(d)' => d \in jobs'
  BY <1>3 DEF WorkerInv, JobInv, V!Runs
<1> QED
  BY <1>2, <1>4 DEF WorkerInv, JobInv

LEMMA JobStep == WorkerInv /\ V!Next => WorkerInv'
<1> SUFFICES ASSUME WorkerInv, V!Next PROVE WorkerInv'
  OBVIOUS
<1>1. task \in [Calls -> {"none", "image", "created", "running", "done", "gone"}]
  BY DEF WorkerInv, JobTypes
<1>2. ASSUME UNCHANGED <<jobs, count, task>> PROVE WorkerInv'
  BY <1>2, WorkerFrame
<1>3. ASSUME V!Aborts \/ V!CoreDisconnected \/ V!Stops PROVE WorkerInv'
  BY <1>2, <1>3 DEF V!Aborts, V!CoreDisconnected, V!Stops, V!worker
<1>4. ASSUME NEW c \in Calls, V!CallBegins(c) \/ V!CallReturns(c) \/ V!CallOver(c)
                              \/ V!Arrives(c) PROVE WorkerInv'
  BY <1>2, <1>4 DEF V!CallBegins, V!CallReturns, V!CallOver, V!Arrives, V!worker
<1>5. ASSUME NEW c \in Calls, V!Reads(c) \/ V!GoesOn(c) \/ V!GivesUp(c) \/ V!Leaves(c)
      PROVE  WorkerInv'
  BY <1>2, <1>5 DEF V!Reads, V!GoesOn, V!GivesUp, V!Leaves, V!Uploads, V!worker
<1>6. ASSUME NEW c \in Calls, V!TargetCancel(c) PROVE WorkerInv'
  <2>1. task' = task /\ (V!Cancels(c) \/ UNCHANGED <<jobs, count>>)
    BY <1>6 DEF V!TargetCancel
  <2> QED
    BY <1>2, <2>1, WorkerCancels
<1>7. ASSUME NEW c \in Calls, V!TargetChunk(c) PROVE WorkerInv'
  <2>1. UNCHANGED <<jobs, count>> /\ (task' = task \/ task' = [task EXCEPT ![c] = "image"])
    BY <1>7 DEF V!TargetChunk
  <2> QED
    BY <1>2, <2>1, WorkerTasks
<1>8. ASSUME NEW c \in Calls, V!TargetFinish(c) PROVE WorkerInv'
  <2>1. /\ UNCHANGED <<jobs, count>>
        /\ task' = task \/ (c \in jobs /\ task' = [task EXCEPT ![c] = "created"])
    BY <1>8 DEF V!TargetFinish, V!Deaf
  <2> QED
    BY <1>2, <2>1, WorkerTasks
<1>9. ASSUME NEW c \in Calls, V!Infers(c) PROVE WorkerInv'
  <2>1. /\ UNCHANGED <<jobs, count>> /\ c \in jobs
        /\ \E step \in {"done", "running"} : task' = [task EXCEPT ![c] = step]
    BY <1>9 DEF V!Infers, V!Runs, WorkerInv, JobInv
  <2> QED
    BY <2>1, WorkerTasks
<1>10. ASSUME NEW c \in Calls, V!Inferred(c) \/ V!Finished(c) PROVE WorkerInv'
  <2>1. /\ V!Releases(c) /\ \E step \in {"done", "gone"} : task' = [task EXCEPT ![c] = step]
    BY <1>10 DEF V!Inferred, V!Finished
  <2>2. /\ task' \in [Calls -> {"none", "image", "created", "running", "done", "gone"}]
        /\ \A d \in Calls \ {c} : task'[d] = task[d]
        /\ task'[c] \in {"done", "gone"}
    BY <1>1, <2>1
  <2>3. ~V!Runs(c)'
    BY <2>2 DEF V!Runs
  <2> QED
    BY <2>1, <2>2, <2>3, ReleaseCounts
<1>11. ASSUME NEW c \in Calls, V!Lapses(c) PROVE WorkerInv'
  BY <1>2, <1>11 DEF V!Lapses
<1>12. ASSUME NEW c \in Calls, V!Expires(c) PROVE WorkerInv'
  BY <1>12, WorkerCancels DEF V!Expires
<1>13. ASSUME NEW c \in Calls, V!StopReleases(c) PROVE WorkerInv'
  <2>1. V!Releases(c) /\ ~V!Runs(c) /\ task' = task
    BY <1>13 DEF V!StopReleases
  <2>2. ~V!Runs(c)'
    BY <2>1 DEF V!Runs
  <2> QED
    BY <1>1, <2>1, <2>2, ReleaseCounts
<1>14. ASSUME NEW c \in Calls, V!Task(c) PROVE WorkerInv'
  BY <1>9, <1>10, <1>14 DEF V!Task
<1>15. ASSUME NEW c \in Calls,
              \/ V!Admits(c) \/ V!TargetCancel(c) \/ V!TargetChunk(c) \/ V!TargetFinish(c)
              \/ V!Task(c) \/ V!Lapses(c) \/ V!Expires(c) \/ V!StopReleases(c)
       PROVE  WorkerInv'
  BY <1>6, <1>7, <1>8, <1>11, <1>12, <1>13, <1>14, <1>15, WorkerAdmits
<1>16. ASSUME \E c \in Calls :
              \/ V!CallBegins(c) \/ V!CallReturns(c) \/ V!CallOver(c)
              \/ V!Arrives(c) \/ V!Reads(c) \/ V!GoesOn(c) \/ V!GivesUp(c) \/ V!Leaves(c)
              \/ V!Admits(c) \/ V!TargetCancel(c) \/ V!TargetChunk(c) \/ V!TargetFinish(c)
              \/ V!Task(c) \/ V!Lapses(c) \/ V!Expires(c) \/ V!StopReleases(c)
       PROVE  WorkerInv'
  BY <1>4, <1>5, <1>15, <1>16
<1>17. \/ V!Aborts \/ V!CoreDisconnected \/ V!Stops
       \/ \E c \in Calls :
              \/ V!CallBegins(c) \/ V!CallReturns(c) \/ V!CallOver(c)
              \/ V!Arrives(c) \/ V!Reads(c) \/ V!GoesOn(c) \/ V!GivesUp(c) \/ V!Leaves(c)
              \/ V!Admits(c) \/ V!TargetCancel(c) \/ V!TargetChunk(c) \/ V!TargetFinish(c)
              \/ V!Task(c) \/ V!Lapses(c) \/ V!Expires(c) \/ V!StopReleases(c)
  BY DEF V!Next
<1> QED
  BY <1>3, <1>16, <1>17

-----------------------------------------------------------------------------
(* The camera: calls come and go, and so does the upload of one of them.   *)

\* A call that is open or closing is the only one: those before it are over,
\* and those behind it have not begun.
LEMMA Alone ==
    ASSUME CameraInv, NEW c \in Calls, turn[c] # "over",
           \A d \in Calls : d < c => turn[d] = "over"
    PROVE  \A d \in Calls \ {c} : turn[d] \in {"new", "over"} /\ (d > c => turn[d] = "new")
<1>1. Calls \subseteq Nat
  BY PartsAssumption
<1> SUFFICES ASSUME NEW d \in Calls \ {c}
             PROVE  turn[d] \in {"new", "over"} /\ (d > c => turn[d] = "new")
  OBVIOUS
<1>2. CASE d < c
  BY <1>1, <1>2
<1>3. CASE c < d
  <2>1. ~(c < d /\ turn[d] # "new")
    BY DEF CameraInv, CallInv
  <2> QED
    BY <1>3, <2>1
<1> QED
  BY <1>1, <1>2, <1>3

LEMMA Before ==
    ASSUME CameraInv, NEW c \in Calls, turn[c] # "new"
    PROVE  \A d \in Calls : d < c => turn[d] = "over"
BY DEF CameraInv, CallInv

\* As the calls go on, they stay in order.
LEMMA CallsInOrder ==
    ASSUME CameraInv, NEW c \in Calls, NEW step \in {"open", "closing", "over"},
           turn[c] # "over", \A d \in Calls : d < c => turn[d] = "over",
           turn' = [turn EXCEPT ![c] = step]
    PROVE  /\ turn' \in [Calls -> {"new", "open", "closing", "over"}]
           /\ turn'[c] = step /\ \A d \in Calls \ {c} : turn'[d] = turn[d]
           /\ \A d, e \in Calls : d < e /\ turn'[e] # "new" => turn'[d] = "over"
<1>1. /\ turn' \in [Calls -> {"new", "open", "closing", "over"}]
      /\ turn'[c] = step /\ \A d \in Calls \ {c} : turn'[d] = turn[d]
  BY DEF CameraInv, CameraTypes
<1>2. ASSUME NEW d \in Calls, NEW e \in Calls, d < e, turn'[e] # "new"
      PROVE  turn'[d] = "over"
  <2>1. CASE e = c
    <3>1. d # c
      BY <1>2, <2>1, PartsAssumption
    <3> QED
      BY <1>1, <1>2, <2>1, <3>1
  <2>2. CASE e # c
    <3>1. turn[d] = "over"
      BY <1>1, <1>2, <2>2 DEF CameraInv, CallInv
    <3> QED
      BY <1>1, <3>1
  <2> QED
    BY <2>1, <2>2
<1> QED
  BY <1>1, <1>2

LEMMA CameraCallBegins ==
    ASSUME CameraInv, NEW c \in Calls, V!CallBegins(c) PROVE CameraInv'
<1>1. /\ turn[c] = "new" /\ \A d \in Calls : d < c => turn[d] = "over"
      /\ turn' = [turn EXCEPT ![c] = "open"] /\ active' = c /\ consumed' = FALSE
      /\ \E q \in Questions : question' = [question EXCEPT ![c] = q]
      /\ UNCHANGED <<busy, closed, upload, generation, seen, servedFor, doomed, known, text>>
  BY DEF V!CallBegins, V!uploads
<1>2. /\ turn' \in [Calls -> {"new", "open", "closing", "over"}]
      /\ turn'[c] = "open" /\ \A d \in Calls \ {c} : turn'[d] = turn[d]
      /\ \A d, e \in Calls : d < e /\ turn'[e] # "new" => turn'[d] = "over"
  BY <1>1, CallsInOrder
<1>3. V!Live = {} /\ V!Live' = {} /\ V!Working' = {}
  <2>1. \A d \in Calls : turn[d] \in {"new", "over"}
    BY <1>1, Alone
  <2> QED
    BY <1>1, <2>1 DEF CameraInv, UploadInv, V!Live, V!Working
<1>4. CameraTypes'
  <2>1. question \in [Calls -> Questions \cup {0}]
    BY DEF CameraInv, CameraTypes
  <2>2. question' \in [Calls -> Questions \cup {0}]
    BY <1>1, <2>1
  <2> QED
    BY <1>1, <1>2, <2>2 DEF CameraInv, CameraTypes
<1>5. CallInv'
  BY <1>1, <1>2 DEF CallInv
<1>6. ServedInv'
  <2>1. \A e \in Calls : servedFor[e] # 0 => servedFor[e] # c /\ servedFor[e] \in Calls
    BY <1>1 DEF CameraInv, ServedInv, CameraTypes
  <2> QED
    BY <1>1, <1>2, <2>1 DEF CameraInv, ServedInv
<1>7. UploadInv'
  BY <1>1, <1>3 DEF CameraInv, UploadInv
<1> QED
  BY <1>4, <1>5, <1>6, <1>7 DEF CameraInv

\* Nothing is wanted any more.
LEMMA CameraCancelled ==
    ASSUME CameraInv, V!CancelVision,
           UNCHANGED <<question, consumed, busy, upload, seen, servedFor, known, text>>,
           closed' \in BOOLEAN, generation' \in Nat,
           turn' \in [Calls -> {"new", "open", "closing", "over"}],
           \A d, e \in Calls : d < e /\ turn'[e] # "new" => turn'[d] = "over",
           \A d \in Calls : turn[d] # "new" => turn'[d] # "new",
           (\A d \in Calls : turn'[d] \in {"new", "over"}) =>
               \A d \in Calls : turn[d] \in {"new", "over"}
    PROVE  CameraInv'
<1>1. active' = 0 /\ doomed' = doomed \cup V!Live /\ V!Live \subseteq Calls
  BY DEF V!CancelVision, V!Live
<1>2. V!Live' = V!Live /\ V!Working' = {}
  BY <1>1 DEF V!Live, V!Working
<1>3. CameraTypes'
  BY <1>1 DEF CameraInv, CameraTypes
<1>4. CallInv'
  BY <1>1 DEF CallInv
<1>5. ServedInv'
  <2>1. \A e \in Calls : servedFor[e] # 0 => servedFor[e] \in Calls
    BY DEF CameraInv, CameraTypes
  <2> QED
    BY <1>1, <2>1 DEF CameraInv, ServedInv
<1>6. UploadInv'
  BY <1>2 DEF CameraInv, UploadInv
<1> QED
  BY <1>3, <1>4, <1>5, <1>6 DEF CameraInv

LEMMA CameraCallReturns ==
    ASSUME CameraInv, NEW c \in Calls, V!CallReturns(c) PROVE CameraInv'
<1>1. /\ turn[c] = "open" /\ turn' = [turn EXCEPT ![c] = "closing"] /\ V!CancelVision
      /\ UNCHANGED <<question, consumed, busy, closed, generation, upload, seen, servedFor,
                     known, text>>
  BY DEF V!CallReturns
<1>2. /\ turn' \in [Calls -> {"new", "open", "closing", "over"}]
      /\ turn'[c] = "closing" /\ \A d \in Calls \ {c} : turn'[d] = turn[d]
      /\ \A d, e \in Calls : d < e /\ turn'[e] # "new" => turn'[d] = "over"
  BY <1>1, Before, CallsInOrder
<1>3. closed' \in BOOLEAN /\ generation' \in Nat
  BY <1>1 DEF CameraInv, CameraTypes
<1> QED
  BY <1>1, <1>2, <1>3, CameraCancelled

LEMMA CameraAborts == ASSUME CameraInv, V!Aborts PROVE CameraInv'
<1>1. /\ V!CancelVision /\ closed' \in BOOLEAN /\ generation' = generation + 1
      /\ UNCHANGED <<question, turn, consumed, busy, upload, seen, servedFor, known, text>>
  BY DEF V!Aborts
<1>2. generation' \in Nat /\ turn' \in [Calls -> {"new", "open", "closing", "over"}]
  BY <1>1 DEF CameraInv, CameraTypes
<1>3. \A d, e \in Calls : d < e /\ turn'[e] # "new" => turn'[d] = "over"
  BY <1>1 DEF CameraInv, CallInv
<1> QED
  BY <1>1, <1>2, <1>3, CameraCancelled

\* A call ends behind its upload.
LEMMA CameraCallOver ==
    ASSUME CameraInv, NEW c \in Calls, V!CallOver(c) PROVE CameraInv'
<1>1. /\ turn[c] = "closing" /\ turn' = [turn EXCEPT ![c] = "over"]
      /\ doomed \cap V!Live = {}
      /\ UNCHANGED <<question, active, consumed, busy, closed, generation, upload, seen,
                     servedFor, doomed, known, text>>
  BY DEF V!CallOver, V!uploads
<1>2. /\ turn' \in [Calls -> {"new", "open", "closing", "over"}]
      /\ turn'[c] = "over" /\ \A d \in Calls \ {c} : turn'[d] = turn[d]
      /\ \A d, e \in Calls : d < e /\ turn'[e] # "new" => turn'[d] = "over"
  BY <1>1, Before, CallsInOrder
<1>3. active = 0
  <2>1. \A d \in Calls : turn[d] # "open"
    BY <1>1, Alone, Before
  <2> QED
    BY <2>1 DEF CameraInv, CallInv, CameraTypes
<1>4. V!Live = {} /\ V!Live' = {} /\ V!Working' = {}
  <2>1. V!Working = {}
    BY <1>3 DEF CameraInv, UploadInv
  <2> QED
    BY <1>1, <2>1 DEF V!Working, V!Live
<1>5. CameraTypes'
  BY <1>1, <1>2 DEF CameraInv, CameraTypes
<1>6. CallInv'
  BY <1>1, <1>2, <1>3 DEF CallInv
<1>7. ServedInv'
  <2>1. \A e \in Calls : servedFor[e] # 0 => servedFor[e] \in Calls
    BY DEF CameraInv, CameraTypes
  <2> QED
    BY <1>1, <1>2, <2>1 DEF CameraInv, ServedInv
<1>8. UploadInv'
  BY <1>1, <1>4 DEF CameraInv, UploadInv
<1> QED
  BY <1>5, <1>6, <1>7, <1>8 DEF CameraInv

\* An upload that ends leaves the camera to the next one.
LEMMA CameraUploadEnds ==
    ASSUME CameraInv, NEW c \in V!Live, NEW outcome \in {"answered", "failed"},
           V!Ends(c, outcome), UNCHANGED <<V!session, servedFor>>
    PROVE  CameraInv'
<1>1. /\ upload' = [upload EXCEPT ![c] = outcome] /\ busy' = FALSE
      /\ known' = known \ {c} /\ text' = text \ {c} /\ doomed' = doomed \ {c}
      /\ seen' = [seen EXCEPT ![c] = 0]
      /\ UNCHANGED <<question, turn, active, consumed, closed, generation, servedFor>>
  BY DEF V!Ends, V!Goes, V!session
<1>2. c \in Calls /\ \A d \in V!Live : d = c
  BY DEF V!Live, CameraInv, UploadInv
<1>3. /\ upload' \in [Calls -> {"none", "reading", "admit", "chunk", "finish", "leaving",
                               "answered", "failed"}]
      /\ upload'[c] = outcome /\ \A d \in Calls \ {c} : upload'[d] = upload[d]
  BY <1>1, <1>2 DEF CameraInv, CameraTypes
<1>4. V!Live' = {} /\ V!Working' = {}
  BY <1>2, <1>3 DEF V!Live, V!Working
<1>5. CameraTypes'
  <2>1. seen' \in [Calls -> Nat]
    BY <1>1, <1>2 DEF CameraInv, CameraTypes
  <2> QED
    BY <1>1, <1>3, <2>1 DEF CameraInv, CameraTypes
<1>6. CallInv' /\ ServedInv'
  BY <1>1 DEF CameraInv, CallInv, ServedInv
<1>7. UploadInv'
  <2>1. \A d \in Calls : upload'[d] \in {"none", "reading"} => d \notin known'
    BY <1>1, <1>3 DEF CameraInv, UploadInv
  <2> QED
    BY <1>4, <2>1 DEF UploadInv
<1> QED
  BY <1>5, <1>6, <1>7 DEF CameraInv

\* An upload that goes on is as much wanted as it was.
LEMMA CameraUploadGoes ==
    ASSUME CameraInv, NEW c \in V!Live, NEW step \in {"admit", "chunk", "finish", "leaving"},
           V!Goes(c, step), V!Stays, UNCHANGED <<V!session, servedFor>>,
           known' \in {known, known \cup {c}}, text' \in {text, text \cup {c}},
           c \in V!Working => question[c] = question[active]
    PROVE  CameraInv'
<1>1. /\ upload' = [upload EXCEPT ![c] = step]
      /\ UNCHANGED <<question, turn, active, consumed, closed, generation, servedFor, busy,
                     seen, doomed>>
  BY DEF V!Goes, V!Stays, V!session
<1>2. c \in Calls
  BY DEF V!Live
<1>3. /\ upload' \in [Calls -> {"none", "reading", "admit", "chunk", "finish", "leaving",
                               "answered", "failed"}]
      /\ upload'[c] = step /\ \A d \in Calls \ {c} : upload'[d] = upload[d]
  BY <1>1, <1>2 DEF CameraInv, CameraTypes
<1>4. V!Live' = V!Live
  BY <1>2, <1>3 DEF V!Live
<1>5. V!Working' = V!Working
  BY <1>1, <1>4 DEF V!Working
<1>6. CameraTypes'
  BY <1>1, <1>2, <1>3 DEF CameraInv, CameraTypes
<1>7. CallInv' /\ ServedInv'
  BY <1>1 DEF CameraInv, CallInv, ServedInv
<1>8. UploadInv'
  <2>1. \A d \in Calls : upload'[d] \in {"none", "reading"} => d \notin known'
    BY <1>3 DEF CameraInv, UploadInv
  <2>2. \A d \in V!Working : /\ active # 0 /\ servedFor[d] = active
                             /\ upload'[d] # "reading" => question[d] = question[active]
    <3> SUFFICES ASSUME NEW d \in V!Working
                 PROVE  /\ active # 0 /\ servedFor[d] = active
                        /\ upload'[d] # "reading" => question[d] = question[active]
      OBVIOUS
    <3>1. d \in Calls
      BY DEF V!Working, V!Live
    <3> QED
      BY <1>3, <3>1 DEF CameraInv, UploadInv
  <2> QED
    BY <1>1, <1>4, <1>5, <2>1, <2>2 DEF CameraInv, UploadInv
<1> QED
  BY <1>6, <1>7, <1>8 DEF CameraInv

LEMMA CameraUploads ==
    ASSUME CameraInv, NEW c \in Calls,
           V!Reads(c) \/ V!GoesOn(c) \/ V!GivesUp(c) \/ V!Leaves(c)
    PROVE  CameraInv'
<1>1. UNCHANGED <<V!session, servedFor>>
  BY DEF V!Reads, V!GoesOn, V!GivesUp, V!Leaves, V!Uploads
<1>2. c \in V!Live
  BY DEF V!Reads, V!GoesOn, V!GivesUp, V!Leaves, V!Follows, V!At, V!Live
<1>3. CASE \E outcome \in {"answered", "failed"} : V!Ends(c, outcome)
  BY <1>1, <1>2, <1>3, CameraUploadEnds
<1>4. CASE V!Reads(c)
  <2>1. ASSUME question[c] = question[active], V!Goes(c, "admit"), V!Stays,
               UNCHANGED <<known, text>> PROVE CameraInv'
    BY <1>1, <1>2, <2>1, CameraUploadGoes
  <2> QED
    BY <1>3, <1>4, <2>1 DEF V!Reads
<1>5. c \in V!Working /\ upload[c] # "reading" => question[c] = question[active]
  BY DEF CameraInv, UploadInv
<1>6. CASE V!GoesOn(c)
  <2>1. upload[c] # "reading"
    BY <1>6 DEF V!GoesOn, V!Follows, V!At
  <2>2. /\ \E step \in {"chunk", "finish", "leaving"} : V!Goes(c, step)
        /\ V!Stays /\ known' \in {known, known \cup {c}} /\ text' \in {text, text \cup {c}}
    BY <1>6 DEF V!GoesOn, V!Follows
  <2> QED
    BY <1>1, <1>2, <1>5, <2>1, <2>2, CameraUploadGoes
<1>7. CASE V!GivesUp(c)
  <2>1. ASSUME c \in known, V!Goes(c, "leaving"), V!Stays, UNCHANGED <<known, text>>
        PROVE  CameraInv'
    <3>1. upload[c] # "reading"
      BY <2>1 DEF CameraInv, UploadInv
    <3> QED
      BY <1>1, <1>2, <1>5, <2>1, <3>1, CameraUploadGoes
  <2> QED
    BY <1>3, <1>7, <2>1 DEF V!GivesUp
<1>8. CASE V!Leaves(c)
  BY <1>3, <1>8 DEF V!Leaves
<1> QED
  BY <1>4, <1>6, <1>7, <1>8

\* An upload is let in while the camera is open, for the call that is open.
LEMMA CameraArrives ==
    ASSUME CameraInv, NEW c \in Calls, V!Arrives(c) PROVE CameraInv'
<1>1. /\ upload[c] = "none"
      /\ UNCHANGED <<question, turn, active, closed, generation, doomed, known, text>>
  BY DEF V!Arrives
<1>2. ASSUME NEW step \in {"reading", "failed"}, upload' = [upload EXCEPT ![c] = step]
      PROVE  /\ upload' \in [Calls -> {"none", "reading", "admit", "chunk", "finish",
                                       "leaving", "answered", "failed"}]
             /\ upload'[c] = step /\ \A d \in Calls \ {c} : upload'[d] = upload[d]
             /\ \A d \in Calls : upload'[d] \in {"none", "reading"} => d \notin known'
  BY <1>1, <1>2 DEF CameraInv, CameraTypes, UploadInv
<1>3. CASE /\ V!May /\ ~busy /\ ~consumed
           /\ upload' = [upload EXCEPT ![c] = "reading"] /\ busy' = TRUE /\ consumed' = TRUE
           /\ seen' = [seen EXCEPT ![c] = generation]
           /\ servedFor' = [servedFor EXCEPT ![c] = active]
  <2>1. /\ upload'[c] = "reading" /\ \A d \in Calls \ {c} : upload'[d] = upload[d]
        /\ \A d \in Calls : upload'[d] \in {"none", "reading"} => d \notin known'
    BY <1>2, <1>3
  <2>2. active \in Calls /\ active # 0 /\ turn[active] = "open"
    BY <1>3 DEF V!May, CameraInv, CameraTypes, CallInv
  <2>3. /\ servedFor' \in [Calls -> Calls \cup {0}] /\ servedFor'[c] = active
        /\ \A d \in Calls \ {c} : servedFor'[d] = servedFor[d]
    BY <1>3, <2>2 DEF CameraInv, CameraTypes
  <2>4. V!Live' = {c}
    <3>1. V!Live = {}
      BY <1>3 DEF CameraInv, UploadInv
    <3> QED
      BY <2>1, <3>1 DEF V!Live
  <2>5. V!Working' \subseteq {c}
    BY <2>4 DEF V!Working
  <2>6. CameraTypes'
    <3>1. seen' \in [Calls -> Nat]
      BY <1>3 DEF CameraInv, CameraTypes
    <3> QED
      BY <1>1, <1>2, <1>3, <2>3, <3>1 DEF CameraInv, CameraTypes
  <2>7. CallInv'
    BY <1>1 DEF CameraInv, CallInv
  <2>8. ServedInv'
    <3>1. \A d \in Calls \ {c} : servedFor[d] # active
      BY <1>3, <2>2 DEF CameraInv, ServedInv
    <3> QED
      BY <1>1, <1>3, <2>2, <2>3, <3>1 DEF CameraInv, ServedInv
  <2>9. UploadInv'
    BY <1>1, <1>3, <2>1, <2>2, <2>3, <2>4, <2>5 DEF UploadInv
  <2> QED
    BY <2>6, <2>7, <2>8, <2>9 DEF CameraInv
<1>4. CASE /\ upload' = [upload EXCEPT ![c] = "failed"]
           /\ UNCHANGED <<busy, consumed, seen, servedFor>>
  <2>1. /\ upload'[c] = "failed" /\ \A d \in Calls \ {c} : upload'[d] = upload[d]
        /\ \A d \in Calls : upload'[d] \in {"none", "reading"} => d \notin known'
    BY <1>2, <1>4
  <2>2. V!Live' = V!Live
    BY <1>1, <2>1 DEF V!Live
  <2>3. V!Working' = V!Working /\ \A d \in V!Working : d \in Calls \ {c}
    BY <1>1, <2>2 DEF V!Working, V!Live
  <2>4. CameraTypes'
    BY <1>1, <1>2, <1>4 DEF CameraInv, CameraTypes
  <2>5. CallInv' /\ ServedInv'
    BY <1>1, <1>4 DEF CameraInv, CallInv, ServedInv
  <2>6. UploadInv'
    BY <1>1, <1>4, <2>1, <2>2, <2>3 DEF CameraInv, UploadInv
  <2> QED
    BY <2>4, <2>5, <2>6 DEF CameraInv
<1> QED
  BY <1>3, <1>4 DEF V!Arrives

LEMMA CameraDisconnected == ASSUME CameraInv, V!CoreDisconnected PROVE CameraInv'
<1>1. /\ doomed' = doomed \cup V!Live /\ V!Live \subseteq Calls
      /\ UNCHANGED <<question, turn, active, consumed, closed, generation, busy, upload, seen,
                     servedFor, known, text>>
  BY DEF V!CoreDisconnected, V!session, V!Live
<1>2. V!Live' = V!Live /\ V!Working' = {}
  BY <1>1 DEF V!Live, V!Working
<1>3. CameraTypes'
  BY <1>1 DEF CameraInv, CameraTypes
<1>4. CallInv' /\ ServedInv'
  BY <1>1 DEF CameraInv, CallInv, ServedInv
<1>5. UploadInv'
  BY <1>1, <1>2 DEF CameraInv, UploadInv
<1> QED
  BY <1>3, <1>4, <1>5 DEF CameraInv

LEMMA CameraNext == CameraInv /\ V!Next => CameraInv'
<1> SUFFICES ASSUME CameraInv, V!Next PROVE CameraInv'
  OBVIOUS
<1>1. ASSUME NEW c \in Calls, V!CallBegins(c) \/ V!CallReturns(c) \/ V!CallOver(c)
                              \/ V!Arrives(c) PROVE CameraInv'
  BY <1>1, CameraCallBegins, CameraCallReturns, CameraCallOver, CameraArrives
<1>2. ASSUME NEW c \in Calls, V!Reads(c) \/ V!GoesOn(c) \/ V!GivesUp(c) \/ V!Leaves(c)
      PROVE  CameraInv'
  BY <1>2, CameraUploads
<1>3. ASSUME NEW c \in Calls,
             \/ V!Admits(c) \/ V!TargetCancel(c) \/ V!TargetChunk(c) \/ V!TargetFinish(c)
             \/ V!Task(c) \/ V!Lapses(c) \/ V!Expires(c) \/ V!StopReleases(c)
      PROVE  CameraInv'
  <2>1. UNCHANGED <<V!session, V!uploads>>
    BY <1>3 DEF V!Admits, V!TargetCancel, V!TargetChunk, V!TargetFinish, V!Task, V!Infers,
       V!Inferred, V!Finished, V!Lapses, V!Expires, V!StopReleases, V!Works
  <2> QED
    BY <2>1, CameraFrame
<1>4. ASSUME V!Stops PROVE CameraInv'
  BY <1>4, CameraFrame DEF V!Stops, V!Works
<1> QED
  BY <1>1, <1>2, <1>3, <1>4, CameraAborts, CameraDisconnected DEF V!Next

-----------------------------------------------------------------------------
(* The requests keep their types.                                          *)

Replies == {"none", "admitted", "chunk", "ok", "error"}
PhotoRequests == {"chunk", "finish", "cancel"}

LEMMA FaultsCount == ASSUME QueueTypes, V!Faulty PROVE photoFaults' \in 0 .. MaxFaults
BY SegmentAssumption DEF QueueTypes, V!Faulty

LEMMA RepliesKept ==
    ASSUME QueueTypes, NEW c \in Calls, NEW status \in Replies,
           V!Answers(c, status) \/ reply' = [reply EXCEPT ![c] = "none"] \/ reply' = reply
    PROVE  reply' \in [Calls -> Replies]
BY DEF QueueTypes, V!Answers, Replies

LEMMA AnswersCount ==
    ASSUME QueueTypes, NEW c \in Calls, NEW status, V!Answers(c, status)
    PROVE  photoFaults' \in 0 .. MaxFaults
BY FaultsCount DEF V!Answers, QueueTypes

LEMMA WiresKept ==
    ASSUME QueueTypes, NEW c \in Calls, NEW request \in PhotoRequests,
           V!Sends(c, request) \/ V!Takes(c, request) \/ photoWire' = photoWire
    PROVE  photoWire' \in [Calls -> Seq(PhotoRequests)]
<1>1. photoWire \in [Calls -> Seq(PhotoRequests)] /\ photoWire[c] \in Seq(PhotoRequests)
  BY DEF QueueTypes, PhotoRequests
<1>2. CASE V!Sends(c, request)
  <2>1. Append(photoWire[c], request) \in Seq(PhotoRequests)
    BY <1>1
  <2> QED
    BY <1>1, <1>2, <2>1 DEF V!Sends
<1>3. CASE V!Takes(c, request)
  <2>1. Tail(photoWire[c]) \in Seq(PhotoRequests)
    BY <1>1, <1>3 DEF V!Takes
  <2> QED
    BY <1>1, <1>3, <2>1 DEF V!Takes
<1> QED
  BY <1>1, <1>2, <1>3

LEMMA QueueTypesKept ==
    ASSUME admits' \subseteq Calls, halting' \subseteq Calls, late' \subseteq Calls,
           photoWire' \in [Calls -> Seq(PhotoRequests)], reply' \in [Calls -> Replies],
           ending' \in BOOLEAN, photoFaults' \in 0 .. MaxFaults
    PROVE  QueueTypes'
BY DEF QueueTypes, PhotoRequests, Replies

LEMMA QueueFrame ==
    ASSUME QueueTypes, UNCHANGED <<admits, halting, late, photoWire, reply, ending>>,
           photoFaults' = photoFaults \/ V!Faulty
    PROVE  QueueTypes'
BY FaultsCount DEF QueueTypes

LEMMA QueueUploads ==
    ASSUME QueueTypes, NEW c \in Calls,
           V!Reads(c) \/ V!GoesOn(c) \/ V!GivesUp(c) \/ V!Leaves(c)
    PROVE  QueueTypes'
<1>1. UNCHANGED <<halting, late, ending>>
  BY DEF V!Reads, V!GoesOn, V!GivesUp, V!Leaves, V!Uploads, V!worker
<1>2. admits' \subseteq Calls
  BY DEF V!Reads, V!GoesOn, V!GivesUp, V!Leaves, QueueTypes
<1>3. reply' = reply \/ reply' = [reply EXCEPT ![c] = "none"]
  BY DEF V!Reads, V!GoesOn, V!GivesUp, V!Leaves, V!Ends, V!Follows
<1>4. photoWire' = photoWire \/ \E request \in PhotoRequests : V!Sends(c, request)
  BY DEF V!Reads, V!GoesOn, V!GivesUp, V!Leaves, PhotoRequests
<1>5. photoFaults' = photoFaults \/ V!Faulty
  BY DEF V!Reads, V!GoesOn, V!GivesUp, V!Leaves
<1>6. reply' \in [Calls -> Replies] /\ photoWire' \in [Calls -> Seq(PhotoRequests)]
  BY <1>3, <1>4, RepliesKept, WiresKept DEF Replies, PhotoRequests, QueueTypes
<1>7. photoFaults' \in 0 .. MaxFaults
  BY <1>5, FaultsCount DEF QueueTypes
<1> QED
  BY <1>1, <1>2, <1>6, <1>7, QueueTypesKept DEF QueueTypes

LEMMA QueueRequests ==
    ASSUME QueueTypes, NEW c \in Calls,
           V!Admits(c) \/ V!TargetCancel(c) \/ V!TargetChunk(c) \/ V!TargetFinish(c)
    PROVE  QueueTypes'
<1>1. /\ admits' \subseteq Calls /\ halting' \subseteq Calls /\ late' \subseteq Calls
      /\ ending' \in BOOLEAN
  BY DEF V!Admits, V!TargetCancel, V!TargetChunk, V!TargetFinish, V!Cancels, V!Releases,
     QueueTypes
<1>2. photoWire' = photoWire \/ \E request \in PhotoRequests : V!Takes(c, request)
  BY DEF V!Admits, V!TargetCancel, V!TargetChunk, V!TargetFinish, PhotoRequests
<1>3. \/ reply' = reply /\ (photoFaults' = photoFaults \/ V!Faulty)
      \/ \E status \in Replies : V!Answers(c, status)
  BY DEF V!Admits, V!TargetCancel, V!TargetChunk, V!TargetFinish, Replies
<1>4. reply' \in [Calls -> Replies]
  BY <1>3, RepliesKept DEF QueueTypes, Replies
<1>5. photoFaults' \in 0 .. MaxFaults
  BY <1>3, AnswersCount, FaultsCount DEF QueueTypes
<1>6. photoWire' \in [Calls -> Seq(PhotoRequests)]
  BY <1>2, WiresKept DEF QueueTypes, PhotoRequests
<1> QED
  BY <1>1, <1>4, <1>5, <1>6, QueueTypesKept

LEMMA QueueTasks ==
    ASSUME QueueTypes, NEW c \in Calls,
           V!Task(c) \/ V!Lapses(c) \/ V!Expires(c) \/ V!StopReleases(c)
    PROVE  QueueTypes'
<1>1. ASSUME V!Inferred(c) PROVE QueueTypes'
  <2>1. /\ UNCHANGED <<admits, photoWire, halting, ending>> /\ late' \subseteq Calls
        /\ \/ UNCHANGED <<reply, photoFaults>>
           \/ \E status \in Replies : V!Answers(c, status)
    BY <1>1 DEF V!Inferred, V!Releases, QueueTypes, Replies
  <2>2. reply' \in [Calls -> Replies] /\ photoFaults' \in 0 .. MaxFaults
    BY <2>1, RepliesKept, AnswersCount DEF QueueTypes, Replies
  <2> QED
    BY <2>1, <2>2, QueueTypesKept DEF QueueTypes, PhotoRequests
<1>2. ASSUME V!Infers(c) \/ V!Finished(c) \/ V!Lapses(c) \/ V!Expires(c) \/ V!StopReleases(c)
      PROVE  QueueTypes'
  <2>1. UNCHANGED <<admits, photoWire, reply, ending, photoFaults>>
    BY <1>2 DEF V!Infers, V!Finished, V!Lapses, V!Expires, V!StopReleases, V!net
  <2>2. halting' \subseteq Calls /\ late' \subseteq Calls
    BY <1>2 DEF V!Infers, V!Finished, V!Lapses, V!Expires, V!StopReleases, V!Cancels,
       V!Releases, QueueTypes
  <2> QED
    BY <2>1, <2>2 DEF QueueTypes
<1> QED
  BY <1>1, <1>2 DEF V!Task

LEMMA QueueNext == QueueTypes /\ JobTypes /\ V!Next => QueueTypes'
<1> SUFFICES ASSUME QueueTypes, JobTypes, V!Next PROVE QueueTypes'
  OBVIOUS
<1>1. ASSUME V!Aborts \/ V!CoreDisconnected PROVE QueueTypes'
  BY <1>1, QueueFrame DEF V!Aborts, V!CoreDisconnected, V!net, V!worker
<1>2. ASSUME V!Stops PROVE QueueTypes'
  <2>1. /\ UNCHANGED <<admits, photoWire, reply, late>> /\ ending' = TRUE /\ V!Faulty
        /\ halting' \subseteq Calls
    BY <1>2 DEF V!Stops, V!net, QueueTypes, JobTypes
  <2>2. photoFaults' \in 0 .. MaxFaults
    BY <2>1, FaultsCount
  <2> QED
    BY <2>1, <2>2, QueueTypesKept DEF QueueTypes, PhotoRequests, Replies
<1>3. ASSUME NEW c \in Calls, V!CallBegins(c) \/ V!CallReturns(c) \/ V!CallOver(c)
                              \/ V!Arrives(c) PROVE QueueTypes'
  BY <1>3, QueueFrame DEF V!CallBegins, V!CallReturns, V!CallOver, V!Arrives, V!net, V!worker
<1>4. ASSUME NEW c \in Calls,
             \/ V!Reads(c) \/ V!GoesOn(c) \/ V!GivesUp(c) \/ V!Leaves(c)
             \/ V!Admits(c) \/ V!TargetCancel(c) \/ V!TargetChunk(c) \/ V!TargetFinish(c)
             \/ V!Task(c) \/ V!Lapses(c) \/ V!Expires(c) \/ V!StopReleases(c)
      PROVE  QueueTypes'
  BY <1>4, QueueUploads, QueueRequests, QueueTasks
<1> QED
  BY <1>1, <1>2, <1>3, <1>4 DEF V!Next

LEMMA PhotoStep == PhotoInv /\ [PartsNext]_all => PhotoInv'
<1> SUFFICES ASSUME PhotoInv, [PartsNext]_all PROVE PhotoInv'
  OBVIOUS
<1>1. CameraInv /\ QueueTypes /\ WorkerInv
  BY PhotoTypes DEF PhotoInv, CameraInv, WorkerInv
<1>2. ASSUME V!Next PROVE CameraInv' /\ QueueTypes' /\ WorkerInv'
  BY <1>1, <1>2, CameraNext, QueueNext, JobStep DEF WorkerInv
<1>3. ASSUME UNCHANGED photoVars PROVE CameraInv' /\ QueueTypes' /\ WorkerInv'
  <2>1. /\ UNCHANGED <<V!session, V!uploads>> /\ UNCHANGED <<jobs, count, task>>
        /\ UNCHANGED <<admits, halting, late, photoWire, reply, ending, photoFaults>>
    BY <1>3 DEF photoVars, V!session, V!uploads
  <2> QED
    BY <1>1, <2>1, CameraFrame, WorkerFrame, QueueFrame
<1>4. CameraInv' /\ QueueTypes' /\ WorkerInv'
  BY <1>2, <1>3, OthersStay
<1>5. V!TypeOK'
  BY <1>4, PhotoTypes DEF CameraInv, WorkerInv
<1> QED
  BY <1>4, <1>5 DEF PhotoInv, CameraInv, WorkerInv

LEMMA SmallSets ==
    /\ \A A : A = {} => V!Cardinality(A) = 0
    /\ \A A, c : A = {c} => V!Cardinality(A) = 1
<1>1. Cardinality({}) = 0
  BY FS_EmptySet
<1>2. \A c : Cardinality({c}) = 1
  BY FS_Singleton
<1>3. \A A : V!Cardinality(A) = Cardinality(A)
  BY Zenon DEF V!Cardinality, Cardinality
<1> QED
  BY <1>1, <1>2, <1>3

\* A photo has the camera of its call and the worker for itself, for as long as
\* it is wanted (device_mcp.py, vision_http.py, vision_worker.py): a call gets
\* one, none outlives its call, and the worker's jobs are counted as they are.
THEOREM PhotosAreOwned == PartsSpec => []PhotoOwned
<1>1. ASSUME PhotoInv PROVE V!CameraOwned
  <2>1. V!Cardinality(V!Working) <= 1
    <3>1. \A c, d \in V!Working : c = d
      BY <1>1 DEF PhotoInv, UploadInv, V!Working
    <3>2. V!Working = {} \/ \E c \in V!Working : V!Working = {c}
      BY <3>1
    <3> QED
      BY <3>2, SmallSets
  <2>2. \A c \in V!Working :
           /\ active # 0 /\ servedFor[c] = active
           /\ upload[c] # "reading" => question[c] = question[active]
    BY <1>1 DEF PhotoInv, UploadInv
  <2>3. \A c, d \in Calls : servedFor[c] # 0 /\ servedFor[c] = servedFor[d] => c = d
    BY <1>1 DEF PhotoInv, ServedInv
  <2>4. (\A c \in Calls : turn[c] \in {"new", "over"}) => V!Live = {}
    BY <1>1 DEF PhotoInv, UploadInv
  <2> QED
    BY <2>1, <2>2, <2>3, <2>4 DEF V!CameraOwned
<1>2. ASSUME PhotoInv PROVE V!JobsCounted
  <2>1. count = V!Cardinality(jobs) /\ count \in {0, 1}
    BY <1>2, SmallSets DEF PhotoInv, JobInv
  <2>2. \A c \in Calls : V!Runs(c) => c \in jobs
    BY <1>2 DEF PhotoInv, JobInv
  <2> QED
    BY <2>1, <2>2 DEF V!JobsCounted
<1>3. PhotoInv => PhotoOwned
  BY <1>1, <1>2 DEF PhotoInv, PhotoOwned, V!PhotoOwned
<1> QED
  BY <1>3, PhotoBegins, PhotoStep, PTL DEF PartsSpec

-----------------------------------------------------------------------------
(* CloudClone.                                                             *)

Own == {"check", "descriptor", "verify", "verified", "restore", "stage", "install", "finish"}
Becomes == {"restore", "stage", "install", "finish"}
CloneCalls == [at : {"off", "begin", "plan", "backup", "config", "put"} \cup Own, etag : Nat]
ClonePuts == [host : Hosts, kind : {"config", "descriptor"}, base : Nat, file : Nat,
              saves : Nat, awaited : BOOLEAN, answer : {"none", "done", "conflict"}]
CloneTypes == C!TypeOK /\ call \in [Hosts -> CloneCalls] /\ puts \subseteq ClonePuts

AttemptOf(h) == cloneJournal[h].attempt

\* The configuration is replaced for each save of others, and once for a clone.
RevisionInv ==
    /\ manifest.revision = others + (IF content.by = "none" THEN 1 ELSE 2)
    /\ content.by # "none" => files > 0
    /\ content.saves = others
\* A file that was uploaded is one host's attempt, and tells whose clone it is.
FileInv ==
    /\ manifest.file \in 0 .. files
    /\ \A h \in Hosts : AttemptOf(h) # C!NotTried => AttemptOf(h).file \in 1 .. files
    /\ \A h, g \in Hosts : AttemptOf(h).file # 0 /\ AttemptOf(h).file = AttemptOf(g).file => h = g
    /\ \A p \in puts : p.kind = "config" =>
          p.file \in 1 .. files /\ \A h \in Hosts : AttemptOf(h).file = p.file => h = p.host
    /\ manifest.file # 0 => \A h \in Hosts : AttemptOf(h).file = manifest.file => h = content.by
\* A replacement that can still succeed was made of what is there, and there is
\* no clone yet; a descriptor names who has the configuration.
PutInv ==
    \A p \in puts :
        /\ p.kind = "config" =>
              /\ p.answer = "none" => p.base <= manifest.revision
              /\ p.answer = "none" /\ p.base = manifest.revision =>
                    content.by = "none" /\ p.saves = content.saves
              /\ p.answer = "done" => content.by = p.host
        /\ p.kind = "descriptor" =>
              /\ content.by = p.host
              /\ p.answer = "none" => p.base <= descriptor.etag
              /\ p.answer = "none" /\ p.base = descriptor.etag => descriptor.by = "none"
              /\ p.answer = "done" => descriptor.by = p.host
\* Whoever has come so far has the configuration, and then both files.
OwnInv ==
    /\ \A h \in Hosts :
          /\ cloneJournal[h].published \/ call[h].at \in Own => content.by = h
          /\ call[h].at \in Becomes \/ local[h].files > 0 => content.by = h /\ descriptor.by = h
    /\ descriptor.by # "none" => content.by = descriptor.by
CloneInv == CloneTypes /\ RevisionInv /\ FileInv /\ PutInv /\ OwnInv

-----------------------------------------------------------------------------
(* DeviceTools.                                                            *)

ToolClients ==
    [made : BOOLEAN, ready : BOOLEAN, tools : D!Inventories, partial : Seq(Nat),
     cached : D!Inventories, next : Nat \ {0}]
ToolSteps == {"idle", "waits", "answered", "failed", "expired"}
ToolCall(c) == [at |-> toolCall[c].at, id |-> toolCall[c].id, got |-> toolCall[c].got]
ToolTypes ==
    /\ client \in ToolClients /\ resting \in Nat
    /\ toolCall = [c \in Tools |-> ToolCall(c)]
    /\ \A c \in Tools : toolCall[c].at \in ToolSteps /\ toolCall[c].id \in Nat
    /\ losses \in 0 .. MaxLosses /\ handler \in BOOLEAN /\ components \in BOOLEAN
    /\ typed \in {"none", "waiting", "started"}

\* The requests that are the robot's way to an inventory; a call is one that has
\* the ID of the initialization.
Sources == {r \in asked : r.id = 1 \/ r.what = "list"}
GaveUp == \E c \in Tools : toolCall[c].at = "expired" /\ toolCall[c].id = 1
FirstPages(n) == [i \in 1 .. n |-> i]

\* Requests are those of the discovery and of calls; their IDs are not repeated.
AskedInv ==
    /\ \A r \in asked :
          \/ r = D!Initialize \/ \E n \in 1 .. Pages : r = D!List(n)
          \/ \E c \in Tools : /\ r = D!Call(toolCall[c].id, c)
                              /\ toolCall[c].at # "idle"
    /\ \A c \in Tools : toolCall[c].at # "idle" => toolCall[c].id \in 1 .. (client.next - 1)
    /\ \A c, d \in Tools :
          toolCall[c].at # "idle" /\ toolCall[d].at # "idle" /\ toolCall[c].id = toolCall[d].id
              => c = d
    /\ \A c \in Tools : D!Call(1, c) \in asked => toolCall[c].at \in {"waits", "expired"}
\* One discovery at a time, which knows the pages before the one it asks for.
SourceInv ==
    /\ \A r, s \in Sources : r = s
    /\ resting \in {0, 1} /\ (resting = 1 => Sources = {} /\ client.partial = <<>>)
    /\ \A r \in Sources : client.partial = IF r.what = "list" THEN FirstPages(r.of - 1) ELSE <<>>
    /\ ~client.made => Sources = {} /\ resting = 0 /\ ~client.ready
    /\ ~client.ready => client.next = 1
    /\ client.next = 1 /\ client.ready => Sources = {} /\ resting = 0 /\ client.partial = <<>>
    /\ D!Initialize \in asked => ~client.ready
    /\ client.ready /\ (resting = 1 \/ \E r \in asked : r.what = "list") => GaveUp
    /\ Len(client.partial) < Pages
\* What the LLM is given is the client's list, which is the cached one, or one from
\* before hello; and what a thread has read is that, until the inventory overtakes it.
Lists == D!Inventories \cup {D!NotCached}
FreshFor(k, l) == l \in {D!NotCached, k.tools} \/ (~k.ready /\ l = <<>>)
DeclaredInv ==
    /\ client.cached = client.tools /\ (client.ready => client.tools = D!Live)
    /\ ~client.made => client.tools = <<>>
    /\ declared \in Lists /\ reading \in [D!Threads -> Lists] /\ overtaken \in BOOLEAN
    /\ ~handler => declared = D!NotCached /\ \A t \in D!Threads : reading[t] = D!NotCached
    /\ ~overtaken => FreshFor(client, declared) /\ \A t \in D!Threads : FreshFor(client, reading[t])
    /\ client.ready /\ components => typed # "waiting"
\* A call has its own answer, or the page that a late answer to the first one led to.
AnsweredWell(c) ==
    \/ toolCall[c].got = D!Done(c)
    \/ GaveUp /\ toolCall[c].id = 2 /\ toolCall[c].got.what = "list"
AnswerInv == \A c \in Tools : toolCall[c].at = "answered" => AnsweredWell(c)
ToolsInv == ToolTypes /\ AskedInv /\ SourceInv /\ DeclaredInv /\ AnswerInv

-----------------------------------------------------------------------------
(* SoundbankCleanup.                                                       *)

Operations ==
    [at : {"idle", "made", "prepared", "clean", "sweep"}, page : OpenPages \cup {"none"},
     new : {<<>>} \cup [Names -> S!Uses], gone : SUBSET Names, left : SUBSET S!Records,
     stay : SUBSET S!Records, protected : SUBSET Names]
SoundTypes ==
    /\ S!TypeOK /\ op \in Operations /\ page \in [OpenPages -> SUBSET Names]
    /\ drafts \in [OpenPages -> SUBSET Names] /\ owned \in [OpenPages -> SUBSET Names]
    /\ DOMAIN preview = OpenPages

Wanted(n) == saved[n] # "none" \/ runtime[n] # "none" \/ \E p \in OpenPages : n \in drafts[p]

\* What an operation will delete is not wanted, as long as it has the lock.
OperationInv ==
    /\ op.at \in {"made", "prepared"} => op.page \in OpenPages
    /\ op.at = "made" => op.gone \subseteq op.protected
    /\ op.at = "prepared" => op.new \in [Names -> S!Uses]
    /\ op.at = "clean" => /\ \A n \in Names : Wanted(n) => n \in op.protected
                          /\ op.left \cup op.stay \subseteq journal
    /\ op.at = "sweep" => \A r \in op.left : ~Wanted(r.name)
    /\ op.at \in {"idle", "made", "prepared"} => op.left = {} /\ op.stay = {}
\* Somebody has made it in Settings.
Generated(n) ==
    \/ saved[n] = "managed" \/ runtime[n] = "managed"
    \/ \E p \in OpenPages : n \in owned[p] \cup page[p]
    \/ op.at = "made" /\ n \in op.gone
    \/ op.at = "prepared" /\ op.new[n] = "managed"
\* What Settings has made is not what somebody has copied there.
HandInv ==
    /\ \A r \in journal : r.id \in 1 .. made /\ r.id \notin byHand
    /\ \A n \in Names : Generated(n) => disk[n] \notin byHand
SoundInv == SoundTypes /\ OperationInv /\ HandInv

-----------------------------------------------------------------------------
(* The parts do not disturb each other.                                    *)

allVars == <<part, vars, cloneVars, soundVars, toolVars, robotVars>>
LEMMA PartSteps ==
    ASSUME [SafetyNext]_allVars
    PROVE  /\ C!Next \/ UNCHANGED cloneVars
           /\ S!Next \/ UNCHANGED soundVars
           /\ D!Next \/ UNCHANGED toolVars
BY DEF SafetyNext, Segment, Clone, Sound, RobotTools, Robot, allVars

-----------------------------------------------------------------------------
(* CloudClone: the proof.                                                  *)

Journals == [made : BOOLEAN, backup : BOOLEAN, attempt : C!Manifests, published : BOOLEAN]
Locals == [intent : BOOLEAN, files : 0 .. 3, first : BOOLEAN]

LEMMA CloneFields ==
    ASSUME CloneTypes
    PROVE  /\ manifest \in C!Manifests /\ manifest.revision \in Nat /\ manifest.file \in Nat
           /\ files \in 0 .. MaxFiles /\ cloneFaults \in 0 .. CloneFaults
           /\ content \in [by : Hosts \cup {"none"}, saves : 0 .. MaxSaves]
           /\ descriptor \in [etag : Nat, by : Hosts \cup {"none"}]
           /\ puts \subseteq ClonePuts /\ others \in 0 .. MaxSaves
           /\ cloneJournal \in [Hosts -> Journals] /\ local \in [Hosts -> Locals]
           /\ call \in [Hosts -> CloneCalls]
BY DEF CloneTypes, C!TypeOK, C!Manifests, C!Owners, C!None, Journals, Locals

LEMMA CloneTypesKept ==
    ASSUME manifest' \in C!Manifests, files' \in 0 .. MaxFiles, cloneFaults' \in 0 .. CloneFaults,
           content' \in [by : Hosts \cup {"none"}, saves : 0 .. MaxSaves],
           descriptor' \in [etag : Nat, by : Hosts \cup {"none"}],
           puts' \subseteq ClonePuts, others' \in 0 .. MaxSaves,
           \A p \in puts' : p.file \in 0 .. files',
           cloneJournal' \in [Hosts -> Journals], local' \in [Hosts -> Locals],
           \A h \in Hosts : cloneJournal'[h].published => cloneJournal'[h].attempt # C!NotTried,
           call' \in [Hosts -> CloneCalls]
    PROVE  CloneTypes'
BY DEF CloneTypes, C!TypeOK, C!Manifests, C!Owners, C!None, Journals, Locals, ClonePuts

LEMMA CloneBegins == SafetyInit => CloneInv
<1> SUFFICES ASSUME SafetyInit PROVE CloneInv
  OBVIOUS
<1>1. /\ manifest = [revision |-> 1, file |-> 0] /\ content = [by |-> "none", saves |-> 0]
      /\ descriptor = [etag |-> 0, by |-> "none"]
      /\ puts = {} /\ files = 0 /\ others = 0 /\ cloneFaults = 0
      /\ cloneJournal = [h \in Hosts |-> C!NoJournal] /\ call = [h \in Hosts |-> C!Off]
      /\ local = [h \in Hosts |-> [intent |-> FALSE, files |-> 0, first |-> TRUE]]
  BY DEF SafetyInit, C!Init, C!None
<1>2. /\ 0 \in 0 .. MaxFiles /\ 0 \in 0 .. MaxSaves /\ 0 \in 0 .. CloneFaults
      /\ 0 \in 0 .. MaxSaves + MaxFiles + 1 /\ 1 \in 0 .. MaxSaves + MaxFiles + 1
  BY SafetyAssumption
<1>3. C!NotTried \in C!Manifests /\ manifest \in C!Manifests
  BY <1>1, <1>2 DEF C!NotTried, C!Manifests
<1>4. /\ C!NoJournal \in Journals /\ C!NoJournal.published = FALSE
      /\ C!NoJournal.attempt = C!NotTried /\ C!NotTried.file = 0
  BY <1>3 DEF C!NoJournal, Journals, C!NotTried
<1>5. C!Off \in CloneCalls /\ C!Off.at = "off"
  BY DEF C!Off, CloneCalls
<1>6. CloneTypes
  <2>1. cloneJournal \in [Hosts -> Journals] /\ call \in [Hosts -> CloneCalls]
    BY <1>1, <1>4, <1>5
  <2>2. local \in [Hosts -> Locals]
    BY <1>1 DEF Locals
  <2>3. \A h \in Hosts : ~cloneJournal[h].published
    BY <1>1, <1>4
  <2> QED
    BY <1>1, <1>2, <1>3, <2>1, <2>2, <2>3
       DEF CloneTypes, C!TypeOK, C!Owners, C!None, Journals, Locals
<1>7. RevisionInv /\ PutInv
  BY <1>1 DEF RevisionInv, PutInv
<1>8. FileInv
  BY <1>1, <1>4 DEF FileInv, AttemptOf
<1>9. OwnInv
  BY <1>1, <1>4, <1>5 DEF OwnInv, Own, Becomes
<1> QED
  BY <1>6, <1>7, <1>8, <1>9 DEF CloneInv

\* What one host does behind its own journal, with what is there.
LEMMA CloneGoesOn ==
    ASSUME CloneInv, NEW h \in Hosts,
           UNCHANGED <<manifest, content, descriptor, files, others>>,
           puts' \subseteq ClonePuts,
           \A p \in puts' : \E q \in puts :
               /\ p.host = q.host /\ p.kind = q.kind /\ p.base = q.base /\ p.file = q.file
               /\ p.saves = q.saves /\ p.answer = q.answer,
           cloneFaults' \in 0 .. CloneFaults,
           call' \in [Hosts -> CloneCalls], cloneJournal' \in [Hosts -> Journals],
           local' \in [Hosts -> Locals],
           \A g \in Hosts \ {h} : /\ call'[g] = call[g] /\ cloneJournal'[g] = cloneJournal[g]
                                  /\ local'[g] = local[g],
           cloneJournal'[h].attempt = AttemptOf(h),
           cloneJournal'[h].published => AttemptOf(h) # C!NotTried,
           cloneJournal'[h].published \/ call'[h].at \in Own => content.by = h,
           call'[h].at \in Becomes \/ local'[h].files > 0 => content.by = h /\ descriptor.by = h
    PROVE  CloneInv'
<1>1. \A g \in Hosts : AttemptOf(g)' = AttemptOf(g)
  BY DEF AttemptOf
<1>2. CloneTypes'
  <2>1. \A g \in Hosts :
           cloneJournal'[g].published => cloneJournal'[g].attempt # C!NotTried
    BY DEF CloneInv, CloneTypes, C!TypeOK, AttemptOf
  <2>2. \A p \in puts' : p.file \in 0 .. files'
    BY DEF CloneInv, CloneTypes, C!TypeOK
  <2> QED
    BY <2>1, <2>2, CloneFields, CloneTypesKept DEF CloneInv
<1>3. RevisionInv'
  BY DEF CloneInv, RevisionInv
<1>4. FileInv'
  BY <1>1 DEF CloneInv, FileInv
<1>5. PutInv'
  BY DEF CloneInv, PutInv
<1>6. OwnInv'
  BY DEF CloneInv, OwnInv
<1> QED
  BY <1>2, <1>3, <1>4, <1>5, <1>6 DEF CloneInv

Stages == {"off", "begin", "plan", "backup", "config", "put"} \cup Own

\* The two ways in which a host's call goes on.
LEMMA CallGoes ==
    ASSUME CloneTypes, NEW h \in Hosts, NEW step \in Stages, C!Goes(h, step)
    PROVE  /\ call' \in [Hosts -> CloneCalls] /\ call'[h].at = step
           /\ \A g \in Hosts \ {h} : call'[g] = call[g]
<1>1. call[h] \in CloneCalls /\ call \in [Hosts -> CloneCalls]
  BY DEF CloneTypes
<1>2. [call[h] EXCEPT !.at = step] = [at |-> step, etag |-> call[h].etag]
  BY <1>1 DEF CloneCalls
<1>3. call' = [call EXCEPT ![h] = [call[h] EXCEPT !.at = step]]
  BY DEF C!Goes
<1>4. [at |-> step, etag |-> call[h].etag] \in CloneCalls
  BY <1>1 DEF CloneCalls, Stages
<1> QED
  BY <1>1, <1>2, <1>3, <1>4
LEMMA CallFails ==
    ASSUME CloneTypes, NEW h \in Hosts, C!Fails(h)
    PROVE  /\ call' \in [Hosts -> CloneCalls] /\ call'[h].at = "off"
           /\ \A g \in Hosts \ {h} : call'[g] = call[g]
<1>1. C!Off \in CloneCalls /\ C!Off.at = "off"
  BY DEF C!Off, CloneCalls
<1> QED
  BY <1>1 DEF CloneTypes, C!Fails
LEMMA CallChecks ==
    ASSUME CloneTypes, NEW h \in Hosts, NEW step \in Stages, NEW fine, C!Checks(h, fine, step)
    PROVE  /\ call' \in [Hosts -> CloneCalls]
           /\ \A g \in Hosts \ {h} : call'[g] = call[g]
           /\ call'[h].at = "off" \/ (fine /\ call'[h].at = step)
BY CallGoes, CallFails DEF C!Checks

\* What _accept_config() accepts is the host's own publication.
LEMMA AcceptedIsOwn ==
    ASSUME CloneInv, NEW h \in Hosts, C!Accepts(h)
    PROVE  content.by = h /\ AttemptOf(h) # C!NotTried
<1>1. content.by # "none" /\ AttemptOf(h) # C!NotTried
  BY DEF C!Accepts, AttemptOf, C!None
<1>2. CASE cloneJournal[h].published
  BY <1>1, <1>2 DEF CloneInv, OwnInv
<1>3. CASE ~cloneJournal[h].published
  <2>1. manifest.file = AttemptOf(h).file
    BY <1>3 DEF C!Accepts, AttemptOf
  <2>2. AttemptOf(h).file \in 1 .. files /\ files \in Nat
    BY <1>1, CloneFields DEF CloneInv, FileInv
  <2> QED
    BY <1>1, <2>1, <2>2 DEF CloneInv, FileInv
<1> QED
  BY <1>2, <1>3

\* The journal's record with one field written.
LEMMA JournalWritten ==
    ASSUME CloneTypes, NEW h \in Hosts, NEW j \in Journals, C!Writes(h, j)
    PROVE  /\ cloneJournal' \in [Hosts -> Journals] /\ cloneJournal'[h] = j
           /\ \A g \in Hosts \ {h} : cloneJournal'[g] = cloneJournal[g]
BY CloneFields DEF C!Writes
LEMMA JournalFields ==
    ASSUME NEW j \in Journals, NEW b \in BOOLEAN, NEW a \in C!Manifests
    PROVE  /\ [j EXCEPT !.made = b] = [made |-> b, backup |-> j.backup, attempt |-> j.attempt,
                                       published |-> j.published]
           /\ [j EXCEPT !.backup = b] = [made |-> j.made, backup |-> b, attempt |-> j.attempt,
                                         published |-> j.published]
           /\ [j EXCEPT !.published = b] = [made |-> j.made, backup |-> j.backup,
                                            attempt |-> j.attempt, published |-> b]
           /\ [j EXCEPT !.attempt = a] = [made |-> j.made, backup |-> j.backup,
                                          attempt |-> a, published |-> j.published]
           /\ j.made \in BOOLEAN /\ j.backup \in BOOLEAN /\ j.published \in BOOLEAN
           /\ j.attempt \in C!Manifests
BY DEF Journals

\* What is known of a host's call and files before it takes a step.
LEMMA CloneHost ==
    ASSUME CloneInv, NEW h \in Hosts
    PROVE  /\ cloneJournal \in [Hosts -> Journals] /\ cloneJournal[h] \in Journals
           /\ local \in [Hosts -> Locals] /\ local[h] \in Locals
           /\ call \in [Hosts -> CloneCalls] /\ call[h] \in CloneCalls
           /\ puts \subseteq ClonePuts /\ cloneFaults \in 0 .. CloneFaults
           /\ AttemptOf(h) = cloneJournal[h].attempt
           /\ cloneJournal[h].published => content.by = h /\ AttemptOf(h) # C!NotTried
           /\ call[h].at \in Own => content.by = h
           /\ call[h].at \in Becomes => content.by = h /\ descriptor.by = h
           /\ local[h].files > 0 => content.by = h /\ descriptor.by = h
BY CloneFields DEF CloneInv, CloneTypes, C!TypeOK, OwnInv, AttemptOf

\* A step that changes nothing but where the call is.
LEMMA CloneMoves ==
    ASSUME CloneInv, NEW h \in Hosts, UNCHANGED <<C!cloud, cloneJournal, local, cloneFaults>>,
           call' \in [Hosts -> CloneCalls], \A g \in Hosts \ {h} : call'[g] = call[g],
           call'[h].at \in Own => content.by = h,
           call'[h].at \in Becomes => content.by = h /\ descriptor.by = h
    PROVE  CloneInv'
<1>1. UNCHANGED <<manifest, content, descriptor, puts, files, others, cloneJournal, local,
                  cloneFaults>>
  BY DEF C!cloud
<1>2. \A p \in puts' : p \in puts
  BY <1>1
<1> QED
  BY <1>1, <1>2, CloneHost, CloneGoesOn

LEMMA CloneReads ==
    ASSUME CloneInv, NEW h \in Hosts,
           \/ C!Discovers(h) \/ C!Begins(h) \/ C!VerifiesConfig(h) \/ C!VerifiesDescriptor(h)
           \/ C!Restores(h)
    PROVE  CloneInv'
<1> USE DEF Stages, Own, Becomes
<1>0. CloneTypes /\ descriptor.etag \in Nat
  BY CloneFields DEF CloneInv
<1>1. ASSUME C!Discovers(h) PROVE CloneInv'
  <2>1. [at |-> "begin", etag |-> descriptor.etag] \in CloneCalls
    BY <1>0 DEF CloneCalls
  <2>2. /\ call' \in [Hosts -> CloneCalls] /\ call'[h].at = "begin"
        /\ \A g \in Hosts \ {h} : call'[g] = call[g]
    BY <1>1, <2>1, CloneHost DEF C!Discovers
  <2> QED
    BY <1>1, <2>2, CloneMoves DEF C!Discovers
<1>2. ASSUME C!Begins(h) PROVE CloneInv'
  <2>1. C!Checks(h, C!Free(h), "plan")
    BY <1>2 DEF C!Begins
  <2>2. /\ call' \in [Hosts -> CloneCalls] /\ call'[h].at \in {"off", "plan"}
        /\ \A g \in Hosts \ {h} : call'[g] = call[g]
    BY <1>0, <2>1, CallChecks
  <2> QED
    BY <1>2, <2>2, CloneMoves DEF C!Begins
<1>3. ASSUME C!VerifiesConfig(h) PROVE CloneInv'
  <2>1. call[h].at = "verify" /\ C!Checks(h, C!Accepts(h), "verified")
    BY <1>3 DEF C!VerifiesConfig
  <2>2. /\ call' \in [Hosts -> CloneCalls] /\ call'[h].at \in {"off", "verified"}
        /\ \A g \in Hosts \ {h} : call'[g] = call[g]
    BY <1>0, <2>1, CallChecks
  <2>3. content.by = h
    BY <2>1, CloneHost
  <2> QED
    BY <1>3, <2>2, <2>3, CloneMoves DEF C!VerifiesConfig
<1>4. ASSUME C!VerifiesDescriptor(h) PROVE CloneInv'
  <2>1. /\ C!Off \in CloneCalls /\ C!Off.at = "off"
        /\ [at |-> "restore", etag |-> descriptor.etag] \in CloneCalls
    BY <1>0 DEF C!Off, CloneCalls
  <2>2. /\ call' \in [Hosts -> CloneCalls]
        /\ call'[h].at = "off" \/ (call'[h].at = "restore" /\ descriptor.by = h)
        /\ \A g \in Hosts \ {h} : call'[g] = call[g]
    BY <1>4, <2>1, CloneHost DEF C!VerifiesDescriptor
  <2>3. content.by = h
    BY <1>4, CloneHost DEF C!VerifiesDescriptor
  <2> QED
    BY <1>4, <2>2, <2>3, CloneMoves DEF C!VerifiesDescriptor
<1>5. ASSUME C!Restores(h) PROVE CloneInv'
  <2>1. call[h].at = "restore" /\ C!Checks(h, descriptor.etag = call[h].etag, "stage")
    BY <1>5 DEF C!Restores
  <2>2. /\ call' \in [Hosts -> CloneCalls] /\ call'[h].at \in {"off", "stage"}
        /\ \A g \in Hosts \ {h} : call'[g] = call[g]
    BY <1>0, <2>1, CallChecks
  <2>3. content.by = h /\ descriptor.by = h
    BY <2>1, CloneHost
  <2> QED
    BY <1>5, <2>2, <2>3, CloneMoves DEF C!Restores
<1> QED
  BY <1>1, <1>2, <1>3, <1>4, <1>5

\* A step that writes the journal, but not the attempt.
LEMMA CloneWrites ==
    ASSUME CloneInv, NEW h \in Hosts, UNCHANGED <<C!cloud, local, cloneFaults>>,
           NEW j \in Journals, C!Writes(h, j), j.attempt = AttemptOf(h),
           j.published => content.by = h /\ AttemptOf(h) # C!NotTried,
           call' \in [Hosts -> CloneCalls], \A g \in Hosts \ {h} : call'[g] = call[g],
           call'[h].at \in Own => content.by = h, call'[h].at \notin Becomes
    PROVE  CloneInv'
<1>1. UNCHANGED <<manifest, content, descriptor, puts, files, others, local, cloneFaults>>
  BY DEF C!cloud
<1>2. \A p \in puts' : p \in puts
  BY <1>1
<1>3. /\ cloneJournal' \in [Hosts -> Journals] /\ cloneJournal'[h] = j
      /\ \A g \in Hosts \ {h} : cloneJournal'[g] = cloneJournal[g]
  BY JournalWritten DEF CloneInv
<1> QED
  BY <1>1, <1>2, <1>3, CloneHost, CloneGoesOn

LEMMA ClonePublishes ==
    ASSUME CloneInv, NEW h \in Hosts, NEW fine \in BOOLEAN, C!Published(h, fine),
           fine => C!Accepts(h), UNCHANGED <<C!cloud, local, cloneFaults>>
    PROVE  CloneInv'
<1>1. /\ cloneJournal[h] \in Journals /\ cloneJournal[h].published \in BOOLEAN
      /\ cloneJournal[h].attempt \in C!Manifests
  BY CloneHost, JournalFields DEF Journals
<1> DEFINE j == [cloneJournal[h] EXCEPT !.published = @ \/ fine]
<1>2. j = [cloneJournal[h] EXCEPT !.published = cloneJournal[h].published \/ fine]
  OBVIOUS
<1>3. (cloneJournal[h].published \/ fine) \in BOOLEAN
  OBVIOUS
<1>4. j = [made |-> cloneJournal[h].made, backup |-> cloneJournal[h].backup,
           attempt |-> cloneJournal[h].attempt,
           published |-> cloneJournal[h].published \/ fine]
  BY <1>1, <1>2, <1>3, JournalFields, Zenon
<1>5. j \in Journals /\ j.attempt = AttemptOf(h)
  BY <1>1, <1>4, JournalFields DEF AttemptOf, Journals
<1>6. j.published => content.by = h /\ AttemptOf(h) # C!NotTried
  <2>1. fine => content.by = h /\ AttemptOf(h) # C!NotTried
    BY AcceptedIsOwn
  <2>2. cloneJournal[h].published => content.by = h /\ AttemptOf(h) # C!NotTried
    BY CloneHost
  <2>3. j.published => cloneJournal[h].published \/ fine
    BY <1>4
  <2> QED
    BY <2>1, <2>2, <2>3
<1>7. /\ call' \in [Hosts -> CloneCalls] /\ \A g \in Hosts \ {h} : call'[g] = call[g]
      /\ call'[h].at = "off" \/ (fine /\ call'[h].at = "descriptor")
  <2>1. "descriptor" \in Stages /\ CloneTypes
    BY DEF Stages, Own, CloneInv
  <2> QED
    BY <2>1, CallChecks DEF C!Published
<1>8. C!Writes(h, j)
  BY DEF C!Published
<1>9. call'[h].at \notin Becomes /\ (call'[h].at \in Own => content.by = h)
  BY <1>7, AcceptedIsOwn DEF Own, Becomes
<1> HIDE DEF j
<1> QED
  BY <1>5, <1>6, <1>7, <1>8, <1>9, CloneWrites

LEMMA ClonePlans ==
    ASSUME CloneInv, NEW h \in Hosts, C!Plans(h) \/ C!BacksUp(h) \/ C!Confirms(h)
    PROVE  CloneInv'
<1>0. /\ cloneJournal[h] \in Journals /\ cloneJournal[h].made \in BOOLEAN
      /\ cloneJournal[h].attempt \in C!Manifests /\ CloneTypes
      /\ AttemptOf(h) = cloneJournal[h].attempt
      /\ cloneJournal[h].published => content.by = h /\ AttemptOf(h) # C!NotTried
  BY CloneHost, JournalFields DEF CloneInv, Journals
<1>1. ASSUME C!Plans(h) PROVE CloneInv'
  <2> DEFINE fits == C!Absent(h) \/ (cloneJournal[h].made /\ C!Accepts(h))
  <2> DEFINE j == [cloneJournal[h] EXCEPT !.made = @ \/ fits]
  <2>1. C!Checks(h, fits, "backup") /\ C!Writes(h, j)
    BY <1>1 DEF C!Plans
  <2>2. (cloneJournal[h].made \/ fits) \in BOOLEAN
    OBVIOUS
  <2>3. j = [made |-> cloneJournal[h].made \/ fits, backup |-> cloneJournal[h].backup,
             attempt |-> cloneJournal[h].attempt, published |-> cloneJournal[h].published]
    BY <1>0, <2>2, JournalFields, Zenon
  <2>4. /\ j \in Journals /\ j.attempt = AttemptOf(h)
        /\ j.published => content.by = h /\ AttemptOf(h) # C!NotTried
    BY <1>0, <2>2, <2>3 DEF Journals
  <2>5. /\ call' \in [Hosts -> CloneCalls] /\ call'[h].at \in {"off", "backup"}
        /\ \A g \in Hosts \ {h} : call'[g] = call[g]
    <3>1. "backup" \in Stages
      BY DEF Stages
    <3> QED
      BY <1>0, <2>1, <3>1, CallChecks
  <2>6. UNCHANGED <<C!cloud, local, cloneFaults>>
    BY <1>1 DEF C!Plans
  <2>7. call'[h].at \notin Own /\ call'[h].at \notin Becomes
    BY <2>5 DEF Own, Becomes
  <2> HIDE DEF j, fits
  <2> QED
    BY <2>1, <2>4, <2>5, <2>6, <2>7, CloneWrites
<1>2. ASSUME C!BacksUp(h) PROVE CloneInv'
  <2> DEFINE j == [cloneJournal[h] EXCEPT !.backup = TRUE]
  <2>1. C!Goes(h, "config") /\ C!Writes(h, j)
    BY <1>2 DEF C!BacksUp
  <2>3. j = [made |-> cloneJournal[h].made, backup |-> TRUE,
             attempt |-> cloneJournal[h].attempt, published |-> cloneJournal[h].published]
    BY <1>0, JournalFields, Zenon
  <2>4. /\ j \in Journals /\ j.attempt = AttemptOf(h)
        /\ j.published => content.by = h /\ AttemptOf(h) # C!NotTried
    BY <1>0, <2>3 DEF Journals
  <2>5. /\ call' \in [Hosts -> CloneCalls] /\ call'[h].at = "config"
        /\ \A g \in Hosts \ {h} : call'[g] = call[g]
    <3>1. "config" \in Stages
      BY DEF Stages
    <3> QED
      BY <1>0, <2>1, <3>1, CallGoes
  <2>6. UNCHANGED <<C!cloud, local, cloneFaults>>
    BY <1>2 DEF C!BacksUp
  <2>7. call'[h].at \notin Own /\ call'[h].at \notin Becomes
    BY <2>5 DEF Own, Becomes
  <2> HIDE DEF j
  <2> QED
    BY <2>1, <2>4, <2>5, <2>6, <2>7, CloneWrites
<1>3. ASSUME C!Confirms(h) PROVE CloneInv'
  <2>1. content.by = h
    BY <1>3, CloneHost DEF C!Confirms, Own
  <2>2. ~C!Absent(h)
    BY <2>1, SafetyAssumption DEF C!Absent, C!None
  <2> DEFINE fine == C!Absent(h) \/ C!Accepts(h)
  <2>3. fine \in BOOLEAN /\ (fine => C!Accepts(h)) /\ C!Published(h, fine)
    BY <1>3, <2>2 DEF C!Confirms
  <2>4. UNCHANGED <<C!cloud, local, cloneFaults>>
    BY <1>3 DEF C!Confirms
  <2> HIDE DEF fine
  <2> QED
    BY <2>3, <2>4, ClonePublishes
<1> QED
  BY <1>1, <1>2, <1>3

\* The host's own files.
LEMMA CloneInstalls ==
    ASSUME CloneInv, NEW h \in Hosts, NEW step \in Stages, NEW l \in Locals,
           C!Install(h, step, l) \/ (/\ C!Fails(h) /\ local' = [local EXCEPT ![h] = l]
                                     /\ UNCHANGED <<C!cloud, cloneJournal, cloneFaults>>),
           content.by = h, descriptor.by = h
    PROVE  CloneInv'
<1>1. UNCHANGED <<manifest, content, descriptor, puts, files, others, cloneJournal,
                  cloneFaults>>
  BY DEF C!cloud, C!Install
<1>2. \A p \in puts' : p \in puts
  BY <1>1
<1>3. /\ local' \in [Hosts -> Locals]
      /\ \A g \in Hosts \ {h} : local'[g] = local[g]
  BY CloneHost DEF C!Install
<1>4. /\ call' \in [Hosts -> CloneCalls] /\ \A g \in Hosts \ {h} : call'[g] = call[g]
  BY CallGoes, CallFails DEF C!Install, CloneInv
<1> QED
  BY <1>1, <1>2, <1>3, <1>4, CloneHost, CloneGoesOn
LEMMA LocalFields ==
    ASSUME NEW l \in Locals, NEW b \in BOOLEAN
    PROVE  /\ [l EXCEPT !.intent = b] \in Locals /\ [l EXCEPT !.first = b] \in Locals
           /\ l.files < 3 => [l EXCEPT !.files = @ + 1] \in Locals
<1>1. l.files \in 0 .. 3 /\ l.intent \in BOOLEAN /\ l.first \in BOOLEAN
  BY DEF Locals
<1>2. [l EXCEPT !.intent = b] \in Locals /\ [l EXCEPT !.first = b] \in Locals
  BY DEF Locals
<1>3. ASSUME l.files < 3 PROVE [l EXCEPT !.files = @ + 1] \in Locals
  <2>1. l.files + 1 \in 0 .. 3
    BY <1>1, <1>3
  <2> QED
    BY <2>1 DEF Locals
<1> QED
  BY <1>2, <1>3
LEMMA CloneBecomes ==
    ASSUME CloneInv, NEW h \in Hosts,
           \/ C!Unstages(h) \/ C!Stages(h) \/ C!Installs(h) \/ C!Installed(h) \/ C!Finishes(h)
    PROVE  CloneInv'
<1>1. call[h].at \in Becomes
  BY DEF C!Unstages, C!Stages, C!Installs, C!Installed, C!Finishes, Becomes
<1>2. content.by = h /\ descriptor.by = h /\ local[h] \in Locals
  BY <1>1, CloneHost
<1>3. {"stage", "install", "finish"} \subseteq Stages /\ TRUE \in BOOLEAN /\ FALSE \in BOOLEAN
  BY DEF Stages, Own
<1>4. /\ [local[h] EXCEPT !.intent = TRUE] \in Locals
      /\ [local[h] EXCEPT !.intent = FALSE] \in Locals
      /\ [local[h] EXCEPT !.first = FALSE] \in Locals
      /\ local[h].files < 3 => [local[h] EXCEPT !.files = @ + 1] \in Locals
  BY <1>2, LocalFields
<1>5. ASSUME C!Unstages(h) PROVE CloneInv'
  BY <1>5, <1>2, <1>3, <1>4, CloneInstalls DEF C!Unstages
<1>6. ASSUME C!Stages(h) PROVE CloneInv'
  BY <1>6, <1>2, <1>3, <1>4, CloneInstalls DEF C!Stages
<1>7. ASSUME C!Installs(h) PROVE CloneInv'
  BY <1>7, <1>2, <1>3, <1>4, CloneInstalls DEF C!Installs
<1>8. ASSUME C!Installed(h) PROVE CloneInv'
  BY <1>8, <1>2, <1>3, <1>4, CloneInstalls DEF C!Installed
<1>9. ASSUME C!Finishes(h) PROVE CloneInv'
  <2>1. local' = [local EXCEPT ![h] = [local[h] EXCEPT !.first = FALSE]]
    BY <1>9 DEF C!Finishes
  <2> QED
    BY <1>9, <2>1, <1>2, <1>3, <1>4, CloneInstalls DEF C!Finishes
<1> QED
  BY <1>5, <1>6, <1>7, <1>8, <1>9

\* The configuration with the clone: a new file, whose manifest is tried.
LEMMA CloneUploads ==
    ASSUME CloneInv, NEW h \in Hosts, call[h].at = "config", C!Absent(h), files < MaxFiles,
           files' = files + 1,
           C!Writes(h, [cloneJournal[h] EXCEPT !.attempt =
                          [revision |-> manifest.revision + 1, file |-> files']]),
           puts' = puts \cup {C!Put(h, "config", manifest.revision, files')}, C!Goes(h, "put"),
           UNCHANGED <<manifest, content, descriptor, others, local, cloneFaults>>
    PROVE  CloneInv'
<1> DEFINE tried == [revision |-> manifest.revision + 1, file |-> files + 1]
           sent == C!Put(h, "config", manifest.revision, files + 1)
           j == [cloneJournal[h] EXCEPT !.attempt = tried]
<1>0. /\ CloneTypes /\ RevisionInv /\ FileInv /\ PutInv /\ OwnInv
      /\ manifest \in C!Manifests /\ manifest.revision \in Nat /\ manifest.file \in Nat
      /\ files \in Nat /\ files + 1 \in 0 .. MaxFiles /\ others \in 0 .. MaxSaves
      /\ MaxFiles \in Nat /\ MaxSaves \in Nat
      /\ content \in [by : Hosts \cup {"none"}, saves : 0 .. MaxSaves] /\ content.saves \in Nat
      /\ cloneJournal[h] \in Journals /\ cloneJournal \in [Hosts -> Journals]
  BY CloneFields, CloneHost, SafetyAssumption DEF CloneInv, C!Manifests
<1>1. content.by = "none" /\ ~cloneJournal[h].published
  BY DEF C!Absent, C!None
<1>2. tried \in C!Manifests /\ tried # C!NotTried /\ tried.file = files + 1
  <2>1. manifest.revision + 1 \in 0 .. MaxSaves + MaxFiles + 1
    BY <1>0, <1>1 DEF RevisionInv
  <2> QED
    BY <1>0, <2>1 DEF C!Manifests, C!NotTried
<1>3. /\ sent.host = h /\ sent.kind = "config" /\ sent.base = manifest.revision
      /\ sent.file = files + 1 /\ sent.saves = content.saves /\ sent.answer = "none"
      /\ sent \in ClonePuts
  BY <1>0 DEF C!Put, ClonePuts, C!None
<1>4. j = [made |-> cloneJournal[h].made, backup |-> cloneJournal[h].backup,
           attempt |-> tried, published |-> cloneJournal[h].published]
  BY <1>0, <1>2, JournalFields, Zenon
<1>5. j \in Journals /\ j.attempt = tried /\ j.published = cloneJournal[h].published
  BY <1>0, <1>2, <1>4 DEF Journals
<1>6. C!Writes(h, j) /\ puts' = puts \cup {sent}
  OBVIOUS
<1> HIDE DEF tried, sent, j
<1>7. /\ cloneJournal' \in [Hosts -> Journals] /\ cloneJournal'[h] = j
      /\ \A g \in Hosts \ {h} : cloneJournal'[g] = cloneJournal[g]
  BY <1>0, <1>5, <1>6, JournalWritten
<1>8. /\ call' \in [Hosts -> CloneCalls] /\ call'[h].at = "put"
      /\ \A g \in Hosts \ {h} : call'[g] = call[g]
  <2>1. "put" \in Stages
    BY DEF Stages
  <2> QED
    BY <1>0, <2>1, CallGoes
<1>9. /\ AttemptOf(h)' = tried /\ \A g \in Hosts \ {h} : AttemptOf(g)' = AttemptOf(g)
  BY <1>5, <1>7 DEF AttemptOf
<1>10. CloneTypes'
  <2>1. \A p \in puts' : p.file \in 0 .. files'
    <3>1. \A p \in puts : p.file \in 0 .. files
      BY <1>0 DEF CloneTypes, C!TypeOK
    <3> QED
      BY <1>0, <1>3, <1>6, <3>1
  <2>2. \A g \in Hosts : cloneJournal'[g].published => cloneJournal'[g].attempt # C!NotTried
    BY <1>0, <1>1, <1>5, <1>7 DEF CloneTypes, C!TypeOK
  <2>3. puts' \subseteq ClonePuts /\ local' \in [Hosts -> Locals] /\ files' \in 0 .. MaxFiles
    BY <1>0, <1>3, <1>6, CloneFields
  <2> QED
    BY <1>0, <1>7, <1>8, <2>1, <2>2, <2>3, CloneFields, CloneTypesKept
<1>11. RevisionInv'
  BY <1>0, <1>1 DEF RevisionInv
<1>12. FileInv'
  <2>1. manifest'.file \in 0 .. files'
    BY <1>0 DEF FileInv
  <2>2. \A g \in Hosts : AttemptOf(g)' # C!NotTried => AttemptOf(g)'.file \in 1 .. files'
    BY <1>0, <1>2, <1>9 DEF FileInv
  <2>3. \A g \in Hosts \ {h} : AttemptOf(g).file \in Nat /\ AttemptOf(g).file # files + 1
    <3> TAKE g \in Hosts \ {h}
    <3>1. CASE AttemptOf(g) = C!NotTried
      BY <3>1, <1>0 DEF C!NotTried
    <3>2. CASE AttemptOf(g) # C!NotTried
      BY <3>2, <1>0 DEF FileInv
    <3> QED
      BY <3>1, <3>2
  <2>4. \A g, k \in Hosts :
           AttemptOf(g)'.file # 0 /\ AttemptOf(g)'.file = AttemptOf(k)'.file => g = k
    BY <1>0, <1>2, <1>9, <2>3 DEF FileInv
  <2>5. \A p \in puts' : p.kind = "config" =>
           p.file \in 1 .. files' /\ \A g \in Hosts : AttemptOf(g)'.file = p.file => g = p.host
    <3> SUFFICES ASSUME NEW p \in puts', p.kind = "config"
                 PROVE  /\ p.file \in 1 .. files'
                        /\ \A g \in Hosts : AttemptOf(g)'.file = p.file => g = p.host
      OBVIOUS
    <3>1. CASE p = sent
      BY <3>1, <1>0, <1>3, <1>9, <2>3
    <3>2. CASE p \in puts
      BY <3>2, <1>0, <1>2, <1>9 DEF FileInv
    <3> QED
      BY <1>6, <3>1, <3>2
  <2>6. manifest'.file # 0 =>
           \A g \in Hosts : AttemptOf(g)'.file = manifest'.file => g = content'.by
    BY <1>0, <1>2, <1>9 DEF FileInv
  <2> QED
    BY <2>1, <2>2, <2>4, <2>5, <2>6 DEF FileInv
<1>13. PutInv'
  <2> SUFFICES ASSUME NEW p \in puts'
               PROVE  /\ p.kind = "config" =>
                           /\ p.answer = "none" => p.base <= manifest.revision
                           /\ p.answer = "none" /\ p.base = manifest.revision =>
                                 content.by = "none" /\ p.saves = content.saves
                           /\ p.answer = "done" => content.by = p.host
                      /\ p.kind = "descriptor" =>
                           /\ content.by = p.host
                           /\ p.answer = "none" => p.base <= descriptor.etag
                           /\ p.answer = "none" /\ p.base = descriptor.etag =>
                                 descriptor.by = "none"
                           /\ p.answer = "done" => descriptor.by = p.host
    BY DEF PutInv
  <2>1. CASE p = sent
    BY <2>1, <1>0, <1>1, <1>3
  <2>2. CASE p \in puts
    BY <2>2, <1>0 DEF PutInv
  <2> QED
    BY <1>6, <2>1, <2>2
<1>14. OwnInv'
  BY <1>0, <1>1, <1>5, <1>7, <1>8 DEF OwnInv, Own, Becomes
<1> QED
  BY <1>10, <1>11, <1>12, <1>13, <1>14 DEF CloneInv

LEMMA ClonePublishesConfig ==
    ASSUME CloneInv, NEW h \in Hosts, C!PublishesConfig(h)
    PROVE  CloneInv'
<1>1. CASE ~C!Absent(h) /\ C!Published(h, C!Accepts(h)) /\ UNCHANGED <<puts, files>>
  <2>1. UNCHANGED <<C!cloud, local, cloneFaults>>
    BY <1>1 DEF C!PublishesConfig, C!cloud
  <2>2. C!Accepts(h) \in BOOLEAN
    BY DEF C!Accepts
  <2> QED
    BY <1>1, <2>1, <2>2, ClonePublishes
<1>2. CASE ~(~C!Absent(h) /\ C!Published(h, C!Accepts(h)) /\ UNCHANGED <<puts, files>>)
  BY <1>2, CloneUploads DEF C!PublishesConfig
<1> QED
  BY <1>1, <1>2

\* The descriptor that names the clone's backup.
LEMMA CloneOffers ==
    ASSUME CloneInv, NEW h \in Hosts, call[h].at = "descriptor", descriptor.by = "none",
           C!Goes(h, "put"),
           puts' = puts \cup {C!Put(h, "descriptor", descriptor.etag, 0)},
           UNCHANGED <<manifest, content, descriptor, files, others, cloneJournal, local,
                       cloneFaults>>
    PROVE  CloneInv'
<1> DEFINE sent == C!Put(h, "descriptor", descriptor.etag, 0)
<1>0. /\ CloneTypes /\ RevisionInv /\ FileInv /\ PutInv /\ OwnInv
      /\ files \in Nat /\ descriptor.etag \in Nat /\ content.saves \in Nat /\ content.by = h
  BY CloneFields, CloneHost, SafetyAssumption DEF CloneInv, Own
<1>1. /\ sent.host = h /\ sent.kind = "descriptor" /\ sent.base = descriptor.etag
      /\ sent.file = 0 /\ sent.answer = "none" /\ sent \in ClonePuts
  BY <1>0 DEF C!Put, ClonePuts, C!None
<1> HIDE DEF sent
<1>2. puts' = puts \cup {sent}
  BY DEF sent
<1>3. /\ call' \in [Hosts -> CloneCalls] /\ call'[h].at = "put"
      /\ \A g \in Hosts \ {h} : call'[g] = call[g]
  <2>1. "put" \in Stages
    BY DEF Stages
  <2> QED
    BY <1>0, <2>1, CallGoes
<1>4. \A g \in Hosts : AttemptOf(g)' = AttemptOf(g)
  BY DEF AttemptOf
<1>5. CloneTypes'
  <2>1. \A p \in puts' : p.file \in 0 .. files'
    <3>1. \A p \in puts : p.file \in 0 .. files
      BY <1>0 DEF CloneTypes, C!TypeOK
    <3> QED
      BY <1>0, <1>1, <1>2, <3>1
  <2>2. \A g \in Hosts : cloneJournal'[g].published => cloneJournal'[g].attempt # C!NotTried
    BY <1>0 DEF CloneTypes, C!TypeOK
  <2>3. puts' \subseteq ClonePuts
    BY <1>0, <1>1, <1>2, CloneFields
  <2> QED
    BY <1>0, <1>3, <2>1, <2>2, <2>3, CloneFields, CloneTypesKept
<1>6. RevisionInv'
  BY <1>0 DEF RevisionInv
<1>7. FileInv'
  BY <1>0, <1>1, <1>2, <1>4 DEF FileInv
<1>8. PutInv'
  BY <1>0, <1>1, <1>2 DEF PutInv
<1>9. OwnInv'
  BY <1>0, <1>3 DEF OwnInv, Own, Becomes
<1> QED
  BY <1>5, <1>6, <1>7, <1>8, <1>9 DEF CloneInv
LEMMA ClonePublishesDescriptor ==
    ASSUME CloneInv, NEW h \in Hosts, C!PublishesDescriptor(h)
    PROVE  CloneInv'
<1>0. call[h].at = "descriptor" /\ content.by = h /\ CloneTypes
  BY CloneHost DEF C!PublishesDescriptor, Own, CloneInv
<1>1. CASE C!Checks(h, descriptor.by = h, "verify") /\ UNCHANGED puts
  <2>1. UNCHANGED <<C!cloud, cloneJournal, local, cloneFaults>>
    BY <1>1 DEF C!PublishesDescriptor, C!cloud
  <2>2. /\ call' \in [Hosts -> CloneCalls] /\ call'[h].at \in {"off", "verify"}
        /\ \A g \in Hosts \ {h} : call'[g] = call[g]
    <3>1. "verify" \in Stages
      BY DEF Stages, Own
    <3> QED
      BY <1>0, <1>1, <3>1, CallChecks
  <2>3. call'[h].at \notin Becomes
    BY <2>2 DEF Becomes
  <2> QED
    BY <1>0, <2>1, <2>2, <2>3, CloneMoves
<1>2. CASE ~(C!Checks(h, descriptor.by = h, "verify") /\ UNCHANGED puts)
  BY <1>0, <1>2, CloneOffers DEF C!PublishesDescriptor, C!None
<1> QED
  BY <1>1, <1>2

LEMMA CloneAnswered ==
    ASSUME CloneInv, NEW h \in Hosts, NEW p \in puts, C!Answered(h, p)
    PROVE  CloneInv'
<1>0. /\ p.host = h /\ puts' = puts \ {p} /\ CloneTypes /\ p \in ClonePuts
      /\ UNCHANGED <<manifest, content, descriptor, files, others, cloneJournal, local,
                     cloneFaults>>
  BY CloneHost DEF C!Answered, CloneInv
<1>1. /\ call' \in [Hosts -> CloneCalls] /\ \A g \in Hosts \ {h} : call'[g] = call[g]
      /\ \/ call'[h].at = "off"
         \/ p.answer = "done" /\ call'[h].at \in {"check", "verify"}
  <2>1. C!Behind(p.kind) \in Stages /\ C!Behind(p.kind) \in {"check", "verify"}
    BY DEF C!Behind, Stages, Own
  <2> QED
    BY <1>0, <2>1, CallGoes, CallFails DEF C!Answered
<1>2. p.answer = "done" => content.by = h
  <2>1. p.kind \in {"config", "descriptor"}
    BY <1>0 DEF ClonePuts
  <2> QED
    BY <1>0, <2>1 DEF CloneInv, PutInv
<1>3. /\ call'[h].at \in Own => content.by = h
      /\ call'[h].at \notin Becomes
  BY <1>1, <1>2 DEF Own, Becomes
<1>4. /\ puts' \subseteq ClonePuts /\ \A q \in puts' : q \in puts
  BY <1>0, CloneHost
<1> QED
  BY <1>0, <1>1, <1>3, <1>4, CloneHost, CloneGoesOn

LEMMA PutFields ==
    ASSUME NEW p \in ClonePuts, NEW a \in {"none", "done", "conflict"}
    PROVE  /\ [p EXCEPT !.awaited = FALSE] =
                 [host |-> p.host, kind |-> p.kind, base |-> p.base, file |-> p.file,
                  saves |-> p.saves, awaited |-> FALSE, answer |-> p.answer]
           /\ [p EXCEPT !.answer = a] =
                 [host |-> p.host, kind |-> p.kind, base |-> p.base, file |-> p.file,
                  saves |-> p.saves, awaited |-> p.awaited, answer |-> a]
           /\ [p EXCEPT !.awaited = FALSE] \in ClonePuts
           /\ [p EXCEPT !.answer = a] \in ClonePuts
<1>1. \A b \in BOOLEAN :
        [p EXCEPT !.awaited = b] =
           [host |-> p.host, kind |-> p.kind, base |-> p.base, file |-> p.file,
            saves |-> p.saves, awaited |-> b, answer |-> p.answer]
  BY DEF ClonePuts
<1>2. [p EXCEPT !.answer = a] =
         [host |-> p.host, kind |-> p.kind, base |-> p.base, file |-> p.file,
          saves |-> p.saves, awaited |-> p.awaited, answer |-> a]
  BY DEF ClonePuts
<1>3. FALSE \in BOOLEAN
  OBVIOUS
<1>4. [p EXCEPT !.awaited = FALSE] =
         [host |-> p.host, kind |-> p.kind, base |-> p.base, file |-> p.file,
          saves |-> p.saves, awaited |-> FALSE, answer |-> p.answer]
  BY <1>1, <1>3, Zenon
<1>5. \A b \in BOOLEAN : [p EXCEPT !.awaited = b] \in ClonePuts
  BY DEF ClonePuts
<1>6. [p EXCEPT !.awaited = FALSE] \in ClonePuts
  BY <1>3, <1>5, Zenon
<1>7. [p EXCEPT !.answer = a] \in ClonePuts
  BY DEF ClonePuts
<1> QED
  BY <1>2, <1>4, <1>6, <1>7
LEMMA CloneDies ==
    ASSUME CloneInv, NEW h \in Hosts, C!Dies(h)
    PROVE  CloneInv'
<1> DEFINE mine == {p \in puts : p.host = h /\ p.awaited}
           unanswered == {[p EXCEPT !.awaited = FALSE] : p \in {q \in mine : q.answer = "none"}}
<1>0. CloneTypes /\ cloneFaults \in Nat /\ CloneFaults \in Nat
  BY CloneFields, SafetyAssumption DEF CloneInv
<1>1. /\ call' \in [Hosts -> CloneCalls] /\ call'[h].at = "off"
      /\ \A g \in Hosts \ {h} : call'[g] = call[g]
  BY <1>0, CallFails DEF C!Dies
<1>2. cloneFaults' \in 0 .. CloneFaults
  BY <1>0 DEF C!Dies, C!Faulty
<1>3. puts' \subseteq puts \cup unanswered
  BY DEF C!Dies, C!None
<1>4. \A q \in unanswered : \E p \in puts : q = [p EXCEPT !.awaited = FALSE]
  OBVIOUS
<1> HIDE DEF unanswered
<1>5. \A p \in puts' : p \in ClonePuts /\ \E q \in puts :
               /\ p.host = q.host /\ p.kind = q.kind /\ p.base = q.base /\ p.file = q.file
               /\ p.saves = q.saves /\ p.answer = q.answer
  <2> TAKE p \in puts'
  <2>1. CASE p \in puts
    BY <2>1, CloneHost
  <2>2. CASE p \in unanswered
    <3>1. PICK q \in puts : p = [q EXCEPT !.awaited = FALSE]
      BY <2>2, <1>4
    <3>2. q \in ClonePuts /\ "none" \in {"none", "done", "conflict"}
      BY CloneHost
    <3>3. /\ p = [host |-> q.host, kind |-> q.kind, base |-> q.base, file |-> q.file,
                  saves |-> q.saves, awaited |-> FALSE, answer |-> q.answer]
          /\ p \in ClonePuts
      BY <3>1, <3>2, PutFields, Zenon
    <3> QED
      BY <3>3
  <2> QED
    BY <1>3, <2>1, <2>2
<1>6. call'[h].at \notin Own /\ call'[h].at \notin Becomes
  BY <1>1 DEF Own, Becomes
<1>7. UNCHANGED <<manifest, content, descriptor, files, others, cloneJournal, local>>
  BY DEF C!Dies
<1> QED
  BY <1>1, <1>2, <1>5, <1>6, <1>7, CloneHost, CloneGoesOn

\* A replacement that is decided is what it was, with its answer.
LEMMA CloneAnswer ==
    ASSUME CloneInv, NEW p \in puts, NEW a \in {"none", "done", "conflict"}, C!Answers(p, a)
    PROVE  /\ puts' \subseteq ClonePuts
           /\ \A q \in puts' :
                 \/ q \in puts
                 \/ /\ q.host = p.host /\ q.kind = p.kind /\ q.base = p.base
                    /\ q.file = p.file /\ q.saves = p.saves /\ q.answer = a
<1>1. p \in ClonePuts /\ puts \subseteq ClonePuts
  BY CloneFields DEF CloneInv
<1>2. /\ [p EXCEPT !.answer = a] =
            [host |-> p.host, kind |-> p.kind, base |-> p.base, file |-> p.file,
             saves |-> p.saves, awaited |-> p.awaited, answer |-> a]
      /\ [p EXCEPT !.answer = a] \in ClonePuts
  BY <1>1, PutFields, Zenon
<1> DEFINE r == [p EXCEPT !.answer = a]
<1>3. /\ r.host = p.host /\ r.kind = p.kind /\ r.base = p.base
      /\ r.file = p.file /\ r.saves = p.saves /\ r.answer = a /\ r \in ClonePuts
  BY <1>2
<1>4. puts' \subseteq puts \cup {r}
  BY DEF C!Answers
<1> HIDE DEF r
<1> QED
  BY <1>1, <1>3, <1>4

\* Both files and the replacements of them change; journals, calls and hosts do not.
LEMMA CloudTypesKept ==
    ASSUME CloneInv, manifest' \in C!Manifests,
           content' \in [by : Hosts \cup {"none"}, saves : 0 .. MaxSaves],
           descriptor' \in [etag : Nat, by : Hosts \cup {"none"}],
           puts' \subseteq ClonePuts, others' \in 0 .. MaxSaves,
           \A q \in puts' : q \in puts \/ \E p \in puts : q.file = p.file,
           UNCHANGED <<files, cloneJournal, call, local, cloneFaults>>
    PROVE  CloneTypes'
<1>1. \A p \in puts' : p.file \in 0 .. files'
  BY DEF CloneInv, CloneTypes, C!TypeOK
<1>2. \A h \in Hosts : cloneJournal'[h].published => cloneJournal'[h].attempt # C!NotTried
  BY DEF CloneInv, CloneTypes, C!TypeOK
<1> QED
  BY <1>1, <1>2, CloneFields, CloneTypesKept DEF CloneInv

LEMMA CloneDecidesConfig ==
    ASSUME CloneInv, NEW p \in puts, p.answer = "none", p.kind = "config",
           p.base = manifest.revision, C!Answers(p, "done"),
           manifest' = [revision |-> p.base + 1, file |-> p.file],
           content' = [by |-> p.host, saves |-> p.saves],
           UNCHANGED <<descriptor, files, others, cloneJournal, call, local, cloneFaults>>
    PROVE  CloneInv'
<1>0. /\ CloneTypes /\ RevisionInv /\ FileInv /\ PutInv /\ OwnInv
      /\ p \in ClonePuts /\ p.host \in Hosts /\ p.host # "none" /\ manifest.revision \in Nat
      /\ files \in 0 .. MaxFiles /\ others \in 0 .. MaxSaves /\ "done" \in {"none", "done", "conflict"}
      /\ MaxFiles \in Nat /\ MaxSaves \in Nat
  BY CloneFields, SafetyAssumption DEF CloneInv, ClonePuts
<1>1. content.by = "none" /\ p.saves = content.saves /\ p.file \in 1 .. files
  BY <1>0 DEF PutInv, FileInv
<1>2. \A h \in Hosts : ~cloneJournal[h].published /\ call[h].at \notin Own
  BY <1>0, <1>1, SafetyAssumption DEF OwnInv
<1>3. /\ descriptor.by = "none"
      /\ \A h \in Hosts : ~(call[h].at \in Becomes \/ local[h].files > 0)
  BY <1>0, <1>1, SafetyAssumption DEF OwnInv
<1>4. \A h \in Hosts : AttemptOf(h)' = AttemptOf(h)
  BY DEF AttemptOf
<1>5. /\ puts' \subseteq ClonePuts
      /\ \A q \in puts' :
            \/ q \in puts
            \/ /\ q.host = p.host /\ q.kind = p.kind /\ q.base = p.base
               /\ q.file = p.file /\ q.saves = p.saves /\ q.answer = "done"
  BY <1>0, CloneAnswer
<1>6. CloneTypes'
  <2>1. manifest.revision + 1 \in 0 .. MaxSaves + MaxFiles + 1 /\ p.file \in 0 .. MaxFiles
    BY <1>0, <1>1 DEF RevisionInv
  <2>2. manifest' \in C!Manifests
    BY <2>1 DEF C!Manifests
  <2>3. content' \in [by : Hosts \cup {"none"}, saves : 0 .. MaxSaves]
    BY <1>0, <1>1, CloneFields
  <2>4. \A q \in puts' : q \in puts \/ \E r \in puts : q.file = r.file
    BY <1>5
  <2> QED
    BY <1>0, <1>5, <2>2, <2>3, <2>4, CloneFields, CloudTypesKept
<1>7. RevisionInv'
  BY <1>0, <1>1 DEF RevisionInv
<1>8. FileInv'
  BY <1>0, <1>1, <1>4, <1>5 DEF FileInv
<1>9. PutInv'
  <2> SUFFICES ASSUME NEW q \in puts'
               PROVE  /\ q.kind = "config" =>
                           /\ q.answer = "none" => q.base < manifest'.revision
                           /\ q.answer = "done" => content'.by = q.host
                      /\ q.kind # "descriptor"
    <3>1. \A q \in puts' : q.base \in Nat
      BY <1>5 DEF ClonePuts
    <3>2. manifest'.revision \in Nat
      BY <1>0
    <3> QED
      BY <3>1, <3>2 DEF PutInv
  <2>1. CASE q \in puts
    <3>1. q \in ClonePuts /\ q.host # "none" /\ q.base \in Nat
      BY <2>1, CloneFields, <1>0, SafetyAssumption DEF ClonePuts
    <3> QED
      BY <2>1, <3>1, <1>0, <1>1 DEF PutInv
  <2>2. CASE q \notin puts
    BY <2>2, <1>5
  <2> QED
    BY <2>1, <2>2
<1>10. OwnInv'
  BY <1>2, <1>3 DEF OwnInv
<1> QED
  BY <1>6, <1>7, <1>8, <1>9, <1>10 DEF CloneInv

LEMMA CloneDecidesDescriptor ==
    ASSUME CloneInv, NEW p \in puts, p.answer = "none", p.kind = "descriptor",
           p.base = descriptor.etag, C!Answers(p, "done"),
           descriptor' = [etag |-> p.base + 1, by |-> p.host],
           UNCHANGED <<manifest, content, files, others, cloneJournal, call, local, cloneFaults>>
    PROVE  CloneInv'
<1>0. /\ CloneTypes /\ RevisionInv /\ FileInv /\ PutInv /\ OwnInv
      /\ p \in ClonePuts /\ p.host \in Hosts /\ p.host # "none" /\ descriptor.etag \in Nat
      /\ "done" \in {"none", "done", "conflict"}
  BY CloneFields, SafetyAssumption DEF CloneInv, ClonePuts
<1>1. descriptor.by = "none" /\ content.by = p.host
  BY <1>0 DEF PutInv
<1>4. \A h \in Hosts : AttemptOf(h)' = AttemptOf(h)
  BY DEF AttemptOf
<1>5. /\ puts' \subseteq ClonePuts
      /\ \A q \in puts' :
            \/ q \in puts
            \/ /\ q.host = p.host /\ q.kind = p.kind /\ q.base = p.base
               /\ q.file = p.file /\ q.saves = p.saves /\ q.answer = "done"
  BY <1>0, CloneAnswer
<1>6. CloneTypes'
  <2>1. descriptor' \in [etag : Nat, by : Hosts \cup {"none"}]
    BY <1>0
  <2>2. \A q \in puts' : q \in puts \/ \E r \in puts : q.file = r.file
    BY <1>5
  <2> QED
    BY <1>0, <1>5, <2>1, <2>2, CloneFields, CloudTypesKept
<1>7. RevisionInv'
  BY <1>0 DEF RevisionInv
<1>8. FileInv'
  BY <1>0, <1>4, <1>5 DEF FileInv
<1>9. PutInv'
  <2> SUFFICES ASSUME NEW q \in puts'
               PROVE  /\ q.kind = "config" =>
                           /\ q.answer = "none" => q.base <= manifest.revision
                           /\ q.answer = "none" /\ q.base = manifest.revision =>
                                 content.by = "none" /\ q.saves = content.saves
                           /\ q.answer = "done" => content.by = q.host
                      /\ q.kind = "descriptor" =>
                           /\ content.by = q.host
                           /\ q.answer = "none" => q.base < descriptor'.etag
                           /\ q.answer = "done" => descriptor'.by = q.host
    <3>1. \A q \in puts' : q.base \in Nat
      BY <1>5 DEF ClonePuts
    <3>2. descriptor'.etag \in Nat
      BY <1>0
    <3> QED
      BY <3>1, <3>2 DEF PutInv
  <2>1. CASE q \in puts
    <3>1. q \in ClonePuts /\ q.host # "none" /\ q.base \in Nat
      BY <2>1, CloneFields, <1>0, SafetyAssumption DEF ClonePuts
    <3> QED
      BY <2>1, <3>1, <1>0, <1>1 DEF PutInv
  <2>2. CASE q \notin puts
    BY <2>2, <1>0, <1>1, <1>5
  <2> QED
    BY <2>1, <2>2
<1>10. OwnInv'
  BY <1>0, <1>1, SafetyAssumption DEF OwnInv
<1> QED
  BY <1>6, <1>7, <1>8, <1>9, <1>10 DEF CloneInv

LEMMA CloneRejects ==
    ASSUME CloneInv, NEW p \in puts, C!Answers(p, "conflict"),
           UNCHANGED <<manifest, content, descriptor, files, others, cloneJournal, call, local,
                       cloneFaults>>
    PROVE  CloneInv'
<1>0. /\ CloneTypes /\ RevisionInv /\ FileInv /\ PutInv /\ OwnInv
      /\ "conflict" \in {"none", "done", "conflict"}
  BY DEF CloneInv
<1>4. \A h \in Hosts : AttemptOf(h)' = AttemptOf(h)
  BY DEF AttemptOf
<1>5. /\ puts' \subseteq ClonePuts
      /\ \A q \in puts' :
            \/ q \in puts
            \/ /\ q.host = p.host /\ q.kind = p.kind /\ q.base = p.base
               /\ q.file = p.file /\ q.saves = p.saves /\ q.answer = "conflict"
  BY <1>0, CloneAnswer
<1>6. CloneTypes'
  <2>2. \A q \in puts' : q \in puts \/ \E r \in puts : q.file = r.file
    BY <1>5
  <2> QED
    BY <1>0, <1>5, <2>2, CloneFields, CloudTypesKept
<1>7. RevisionInv'
  BY <1>0 DEF RevisionInv
<1>8. FileInv'
  BY <1>0, <1>4, <1>5 DEF FileInv
<1>9. PutInv'
  BY <1>0, <1>5 DEF PutInv
<1>10. OwnInv'
  BY <1>0 DEF OwnInv
<1> QED
  BY <1>6, <1>7, <1>8, <1>9, <1>10 DEF CloneInv

LEMMA CloneDecides ==
    ASSUME CloneInv, NEW p \in puts, C!Decides(p)
    PROVE  CloneInv'
<1>1. p.answer = "none" /\ UNCHANGED <<files, others, cloneJournal, call, local, cloneFaults>>
  BY DEF C!Decides, C!None
<1>2. \/ /\ C!Current(p) /\ p.kind = "config" /\ C!Answers(p, "done")
         /\ manifest' = [revision |-> p.base + 1, file |-> p.file]
         /\ content' = [by |-> p.host, saves |-> p.saves] /\ UNCHANGED descriptor
      \/ /\ C!Current(p) /\ p.kind = "descriptor" /\ C!Answers(p, "done")
         /\ descriptor' = [etag |-> p.base + 1, by |-> p.host]
         /\ UNCHANGED <<manifest, content>>
      \/ C!Answers(p, "conflict") /\ UNCHANGED <<manifest, content, descriptor>>
  BY DEF C!Decides
<1>3. /\ C!Current(p) /\ p.kind = "config" => p.base = manifest.revision
      /\ C!Current(p) /\ p.kind = "descriptor" => p.base = descriptor.etag
  BY DEF C!Current
<1> QED
  BY <1>1, <1>2, <1>3, CloneDecidesConfig, CloneDecidesDescriptor, CloneRejects

LEMMA CloneOthers ==
    ASSUME CloneInv, C!OthersSave \/ C!OthersBackUp
    PROVE  CloneInv'
<1>0. /\ CloneTypes /\ RevisionInv /\ FileInv /\ PutInv /\ OwnInv
      /\ manifest.revision \in Nat /\ descriptor.etag \in Nat
      /\ files \in 0 .. MaxFiles /\ others \in 0 .. MaxSaves
      /\ content \in [by : Hosts \cup {"none"}, saves : 0 .. MaxSaves]
      /\ descriptor \in [etag : Nat, by : Hosts \cup {"none"}]
      /\ MaxFiles \in Nat /\ MaxSaves \in Nat /\ \A p \in puts : p.base \in Nat
  BY CloneFields, SafetyAssumption DEF CloneInv, ClonePuts
<1>4. cloneJournal' = cloneJournal => \A h \in Hosts : AttemptOf(h)' = AttemptOf(h)
  BY DEF AttemptOf
<1>1. ASSUME C!OthersSave PROVE CloneInv'
  <2>1. /\ others < MaxSaves /\ others' = others + 1
        /\ manifest' = [revision |-> manifest.revision + 1, file |-> 0]
        /\ content' = [content EXCEPT !.saves = @ + 1]
        /\ UNCHANGED <<descriptor, puts, files, cloneJournal, call, local, cloneFaults>>
    BY <1>1 DEF C!OthersSave
  <2>2. content' = [by |-> content.by, saves |-> content.saves + 1]
    BY <1>0, <2>1
  <2>3. CloneTypes'
    <3>1. manifest.revision + 1 \in 0 .. MaxSaves + MaxFiles + 1
      BY <1>0, <2>1 DEF RevisionInv
    <3>2. manifest' \in C!Manifests
      BY <1>0, <2>1, <3>1 DEF C!Manifests
    <3>3. content.saves + 1 \in 0 .. MaxSaves /\ others' \in 0 .. MaxSaves
      BY <1>0, <2>1 DEF RevisionInv
    <3> QED
      BY <1>0, <2>1, <2>2, <3>2, <3>3, CloneFields, CloudTypesKept
  <2>4. RevisionInv'
    BY <1>0, <2>1, <2>2 DEF RevisionInv
  <2>5. FileInv'
    BY <1>0, <1>4, <2>1 DEF FileInv
  <2>6. PutInv'
    BY <1>0, <2>1, <2>2 DEF PutInv
  <2>7. OwnInv'
    BY <1>0, <2>1, <2>2 DEF OwnInv
  <2> QED
    BY <2>3, <2>4, <2>5, <2>6, <2>7 DEF CloneInv
<1>2. ASSUME C!OthersBackUp PROVE CloneInv'
  <2>1. /\ descriptor' = [descriptor EXCEPT !.etag = @ + 1]
        /\ UNCHANGED <<manifest, content, puts, files, others, cloneJournal, call, local,
                       cloneFaults>>
    BY <1>2 DEF C!OthersBackUp
  <2>2. descriptor' = [etag |-> descriptor.etag + 1, by |-> descriptor.by]
    BY <1>0, <2>1
  <2>3. CloneTypes'
    BY <1>0, <2>1, <2>2, CloneFields, CloudTypesKept
  <2>4. RevisionInv'
    BY <1>0, <2>1 DEF RevisionInv
  <2>5. FileInv'
    BY <1>0, <1>4, <2>1 DEF FileInv
  <2>6. PutInv'
    BY <1>0, <2>1, <2>2 DEF PutInv
  <2>7. OwnInv'
    BY <1>0, <2>1, <2>2 DEF OwnInv
  <2> QED
    BY <2>3, <2>4, <2>5, <2>6, <2>7 DEF CloneInv
<1> QED
  BY <1>1, <1>2

LEMMA CloneFrame ==
    ASSUME CloneInv, UNCHANGED cloneVars
    PROVE  CloneInv'
<1>1. UNCHANGED <<manifest, content, descriptor, puts, files, cloneJournal, call, local, others,
                  cloneFaults>>
  BY DEF cloneVars
<1>2. \A h \in Hosts : AttemptOf(h)' = AttemptOf(h)
  BY <1>1 DEF AttemptOf
<1>3. CloneTypes' /\ RevisionInv' /\ PutInv' /\ OwnInv'
  BY <1>1 DEF CloneInv, CloneTypes, C!TypeOK, RevisionInv, PutInv, OwnInv
<1>4. FileInv'
  BY <1>1, <1>2 DEF CloneInv, FileInv
<1> QED
  BY <1>3, <1>4 DEF CloneInv

\* A host becomes the clone only when the clone is its own in both files, the
\* recovery descriptor offers no node that the configuration has by another
\* author, and no save of others is lost (config/cloud_clone.py), for any number
\* of hosts, saves, backups, uploads and faults.
THEOREM ClonesAreOwn == SafetySpec => []CloneIsOwn
<1>1. SafetyInit => CloneInv
  BY CloneBegins
<1>2. CloneInv /\ [SafetyNext]_allVars => CloneInv'
  <2> SUFFICES ASSUME CloneInv, [SafetyNext]_allVars PROVE CloneInv'
    OBVIOUS
  <2>1. C!Next \/ UNCHANGED cloneVars
    BY PartSteps
  <2>2. ASSUME NEW h \in Hosts, C!Step(h) PROVE CloneInv'
    BY <2>2, CloneReads, ClonePlans, ClonePublishesConfig, ClonePublishesDescriptor, CloneBecomes
       DEF C!Step
  <2>3. ASSUME NEW h \in Hosts, C!Dies(h) PROVE CloneInv'
    BY <2>3, CloneDies
  <2>4. ASSUME NEW h \in Hosts, NEW p \in puts, C!Answered(h, p) PROVE CloneInv'
    BY <2>4, CloneAnswered
  <2>5. ASSUME NEW p \in puts, C!Decides(p) PROVE CloneInv'
    BY <2>5, CloneDecides
  <2> QED
    BY <2>1, <2>2, <2>3, <2>4, <2>5, CloneOthers, CloneFrame DEF C!Next
<1>3. CloneInv => CloneIsOwn
  BY DEF CloneInv, CloneTypes, RevisionInv, OwnInv, CloneIsOwn, C!CloneIsOwn, C!None
<1> QED
  BY <1>1, <1>2, <1>3, PTL DEF SafetySpec, allVars

-----------------------------------------------------------------------------
(* DeviceTools: the proof.                                                 *)

LEMMA PagesGrow ==
    ASSUME NEW n \in Nat
    PROVE  /\ FirstPages(n) \in Seq(Nat) /\ Len(FirstPages(n)) = n
           /\ Append(FirstPages(n), n + 1) = FirstPages(n + 1)
           /\ FirstPages(0) = <<>> /\ D!Live = FirstPages(Pages)
<1>1. FirstPages(n) \in Seq(Nat) /\ Len(FirstPages(n)) = n
  BY DEF FirstPages
<1>2. FirstPages(n + 1) \in Seq(Nat) /\ Len(FirstPages(n + 1)) = n + 1
  BY DEF FirstPages
<1>3. Append(FirstPages(n), n + 1) = FirstPages(n + 1)
  <2>1. /\ Append(FirstPages(n), n + 1) \in Seq(Nat)
        /\ Len(Append(FirstPages(n), n + 1)) = n + 1
    BY <1>1
  <2>2. \A i \in 1 .. (n + 1) : Append(FirstPages(n), n + 1)[i] = FirstPages(n + 1)[i]
    BY <1>1 DEF FirstPages
  <2> QED
    BY <1>2, <2>1, <2>2
<1>4. FirstPages(0) = <<>>
  BY DEF FirstPages
<1>5. D!Live = FirstPages(Pages)
  BY DEF FirstPages, D!Live
<1> QED
  BY <1>1, <1>3, <1>4, <1>5

\* The updates of the client's record.
ClientOf(m, r, l, p, d, n) ==
    [made |-> m, ready |-> r, tools |-> l, partial |-> p, cached |-> d, next |-> n]
LEMMA ClientUpdates ==
    ASSUME NEW k \in ToolClients, NEW t, NEW s
    PROVE  /\ [k EXCEPT !.made = TRUE, !.tools = t, !.cached = t] =
                 ClientOf(TRUE, k.ready, t, k.partial, t, k.next)
           /\ [k EXCEPT !.next = @ + 1] =
                 ClientOf(k.made, k.ready, k.tools, k.partial, k.cached, k.next + 1)
           /\ [k EXCEPT !.partial = s] =
                 ClientOf(k.made, k.ready, k.tools, s, k.cached, k.next)
           /\ [k EXCEPT !.partial = s, !.tools = t, !.cached = t, !.ready = TRUE] =
                 ClientOf(k.made, TRUE, t, s, t, k.next)
<1>1. k = ClientOf(k.made, k.ready, k.tools, k.partial, k.cached, k.next)
  BY DEF ToolClients, ClientOf
<1>2. \A x : /\ [k EXCEPT !.made = x] = ClientOf(x, k.ready, k.tools, k.partial, k.cached, k.next)
             /\ [k EXCEPT !.next = x] = ClientOf(k.made, k.ready, k.tools, k.partial, k.cached, x)
             /\ [k EXCEPT !.partial = x] =
                   ClientOf(k.made, k.ready, k.tools, x, k.cached, k.next)
  BY <1>1 DEF ClientOf
<1>3. [k EXCEPT !.made = TRUE, !.tools = t, !.cached = t] =
         ClientOf(TRUE, k.ready, t, k.partial, t, k.next)
  <2>1. [k EXCEPT !.made = TRUE] =
           ClientOf(TRUE, k.ready, k.tools, k.partial, k.cached, k.next)
    BY <1>2, Zenon
  <2>2. \A x : [ClientOf(x, k.ready, k.tools, k.partial, k.cached, k.next) EXCEPT !.tools = t] =
               ClientOf(x, k.ready, t, k.partial, k.cached, k.next)
    BY DEF ClientOf
  <2>3. \A x : [ClientOf(x, k.ready, t, k.partial, k.cached, k.next) EXCEPT !.cached = t] =
               ClientOf(x, k.ready, t, k.partial, t, k.next)
    BY DEF ClientOf
  <2>4. [[k EXCEPT !.made = TRUE] EXCEPT !.tools = t] =
           ClientOf(TRUE, k.ready, t, k.partial, k.cached, k.next)
    BY <2>1, <2>2, Zenon
  <2>5. [[[k EXCEPT !.made = TRUE] EXCEPT !.tools = t] EXCEPT !.cached = t] =
           ClientOf(TRUE, k.ready, t, k.partial, t, k.next)
    BY <2>3, <2>4, Zenon
  <2> QED
    BY <2>5, Zenon
<1>4. [k EXCEPT !.next = @ + 1] =
         ClientOf(k.made, k.ready, k.tools, k.partial, k.cached, k.next + 1)
  BY <1>2, Zenon
<1>5. [k EXCEPT !.partial = s] = ClientOf(k.made, k.ready, k.tools, s, k.cached, k.next)
  BY <1>2, Zenon
<1>6. [k EXCEPT !.partial = s, !.tools = t, !.cached = t, !.ready = TRUE] =
         ClientOf(k.made, TRUE, t, s, t, k.next)
  <2>1. [ClientOf(k.made, k.ready, k.tools, s, k.cached, k.next) EXCEPT !.tools = t] =
           ClientOf(k.made, k.ready, t, s, k.cached, k.next)
    BY DEF ClientOf
  <2>2. [ClientOf(k.made, k.ready, t, s, k.cached, k.next) EXCEPT !.cached = t] =
           ClientOf(k.made, k.ready, t, s, t, k.next)
    BY DEF ClientOf
  <2>3. \A x : [ClientOf(k.made, k.ready, t, s, t, k.next) EXCEPT !.ready = x] =
               ClientOf(k.made, x, t, s, t, k.next)
    BY DEF ClientOf
  <2>4. [[k EXCEPT !.partial = s] EXCEPT !.tools = t] =
           ClientOf(k.made, k.ready, t, s, k.cached, k.next)
    BY <1>5, <2>1, Zenon
  <2>5. [[[k EXCEPT !.partial = s] EXCEPT !.tools = t] EXCEPT !.cached = t] =
           ClientOf(k.made, k.ready, t, s, t, k.next)
    BY <2>2, <2>4, Zenon
  <2>6. [[[[k EXCEPT !.partial = s] EXCEPT !.tools = t] EXCEPT !.cached = t]
            EXCEPT !.ready = TRUE] = ClientOf(k.made, TRUE, t, s, t, k.next)
    BY <2>3, <2>5, Zenon
  <2> QED
    BY <2>6, Zenon
<1> QED
  BY <1>3, <1>4, <1>5, <1>6

LEMMA ToolsBegin == SafetyInit => ToolsInv
<1> SUFFICES ASSUME SafetyInit PROVE ToolsInv
  OBVIOUS
<1>1. /\ client = D!NoClient /\ declared = D!NotCached
      /\ handler = FALSE /\ components = FALSE /\ typed = "none"
      /\ asked = {} /\ resting = 0 /\ losses = 0
      /\ toolCall = [c \in Tools |-> D!NotCalled]
      /\ reading = [t \in D!Threads |-> D!NotCached] /\ overtaken = FALSE
  BY DEF SafetyInit, D!Init, D!None
<1>2. /\ client.made = FALSE /\ client.ready = FALSE /\ client.tools = <<>>
      /\ client.partial = <<>> /\ client.cached = <<>> /\ client.next = 1
      /\ client \in ToolClients
  BY <1>1 DEF D!NoClient, ToolClients, D!Inventories
<1>3. \A c \in Tools : /\ toolCall[c] = [at |-> "idle", id |-> 0, got |-> "none"]
                       /\ toolCall[c].at = "idle" /\ toolCall[c].id = 0
                       /\ toolCall[c] = ToolCall(c)
  BY <1>1 DEF D!NotCalled, D!None, ToolCall
<1>4. toolCall = [c \in Tools |-> ToolCall(c)]
  BY <1>1, <1>3
<1>5. ToolTypes
  <2>1. 0 \in 0 .. MaxLosses
    BY SafetyAssumption
  <2>2. \A c \in Tools : toolCall[c].at \in ToolSteps /\ toolCall[c].id \in Nat
    BY <1>3 DEF ToolSteps
  <2>3. /\ losses \in 0 .. MaxLosses /\ handler \in BOOLEAN /\ components \in BOOLEAN
        /\ typed \in {"none", "waiting", "started"} /\ resting \in Nat
    BY <1>1, <2>1
  <2> QED
    BY <1>2, <1>4, <2>2, <2>3 DEF ToolTypes
<1>6. AskedInv
  BY <1>1, <1>3 DEF AskedInv
<1>7. SourceInv
  <2>1. Len(client.partial) = 0 /\ Pages > 0
    BY <1>2, SafetyAssumption
  <2> QED
    BY <1>1, <1>2, <2>1 DEF SourceInv, Sources
<1>8. DeclaredInv
  BY <1>1, <1>2 DEF DeclaredInv, Lists, FreshFor
<1>9. AnswerInv
  BY <1>3 DEF AnswerInv
<1> QED
  BY <1>5, <1>6, <1>7, <1>8, <1>9 DEF ToolsInv

\* What only concerns the handler, its list and the typed input.
LEMMA ToolsAside ==
    ASSUME ToolsInv, UNCHANGED <<client, overtaken, asked, resting, toolCall>>,
           losses' \in 0 .. MaxLosses, handler' \in BOOLEAN, components' \in BOOLEAN,
           typed' \in {"none", "waiting", "started"},
           declared' \in Lists, reading' \in [D!Threads -> Lists],
           ~handler' => declared' = D!NotCached /\ \A t \in D!Threads : reading'[t] = D!NotCached,
           ~overtaken => /\ FreshFor(client, declared')
                         /\ \A t \in D!Threads : FreshFor(client, reading'[t]),
           client.ready /\ components' => typed' # "waiting"
    PROVE  ToolsInv'
<1>1. GaveUp' = GaveUp /\ Sources' = Sources
  BY DEF GaveUp, Sources
<1>2. ToolTypes'
  BY DEF ToolsInv, ToolTypes, ToolCall
<1>3. AskedInv'
  BY DEF ToolsInv, AskedInv
<1>4. SourceInv'
  BY <1>1 DEF ToolsInv, SourceInv
<1>5. DeclaredInv'
  BY DEF ToolsInv, DeclaredInv, FreshFor
<1>6. AnswerInv'
  BY <1>1 DEF ToolsInv, AnswerInv, AnsweredWell
<1> QED
  BY <1>2, <1>3, <1>4, <1>5, <1>6 DEF ToolsInv
LEMMA ToolsMade ==
    ASSUME ToolsInv,
           \/ D!HandlerMade \/ D!ComponentsReady \/ D!Types
           \/ \E t \in D!Threads : D!Declares(t) \/ D!Declared(t)
    PROVE  ToolsInv'
<1>0. /\ losses \in 0 .. MaxLosses /\ handler \in BOOLEAN /\ components \in BOOLEAN
      /\ typed \in {"none", "waiting", "started"} /\ client.ready \in BOOLEAN
      /\ declared \in Lists /\ reading \in [D!Threads -> Lists] /\ client.tools \in Lists
      /\ ~handler => declared = D!NotCached /\ \A t \in D!Threads : reading[t] = D!NotCached
      /\ ~overtaken => /\ FreshFor(client, declared)
                       /\ \A t \in D!Threads : FreshFor(client, reading[t])
      /\ client.ready /\ components => typed # "waiting"
  BY DEF ToolsInv, ToolTypes, DeclaredInv, ToolClients, Lists
<1>1. ASSUME D!HandlerMade PROVE ToolsInv'
  BY <1>0, <1>1, ToolsAside DEF D!HandlerMade, D!lists
<1>2. ASSUME D!ComponentsReady PROVE ToolsInv'
  <2>1. typed' \in {"none", "waiting", "started"} /\ (client.ready => typed' # "waiting")
    BY <1>0, <1>2 DEF D!ComponentsReady
  <2> QED
    BY <1>0, <1>2, <2>1, ToolsAside DEF D!ComponentsReady, D!lists
<1>3. ASSUME NEW t \in D!Threads, D!Declares(t) PROVE ToolsInv'
  <2>1. reading' \in [D!Threads -> Lists]
    BY <1>0, <1>3 DEF D!Declares
  <2>2. ~overtaken => \A u \in D!Threads : FreshFor(client, reading'[u])
    BY <1>0, <1>3 DEF D!Declares, FreshFor
  <2> QED
    BY <1>0, <1>3, <2>1, <2>2, ToolsAside DEF D!Declares
<1>5. ASSUME NEW t \in D!Threads, D!Declared(t) PROVE ToolsInv'
  <2>1. reading' \in [D!Threads -> Lists] /\ declared' \in Lists
    BY <1>0, <1>5 DEF D!Declared, Lists
  <2>2. ~overtaken => /\ FreshFor(client, declared')
                      /\ \A u \in D!Threads : FreshFor(client, reading'[u])
    BY <1>0, <1>5 DEF D!Declared, FreshFor
  <2>3. handler
    BY <1>0, <1>5 DEF D!Declared
  <2> QED
    BY <1>0, <1>5, <2>1, <2>2, <2>3, ToolsAside DEF D!Declared
<1>4. ASSUME D!Types PROVE ToolsInv'
  <2>1. /\ typed' \in {"none", "waiting", "started"}
        /\ client.ready /\ components => typed' # "waiting"
    BY <1>0, <1>4 DEF D!Types
  <2> QED
    BY <1>0, <1>4, <2>1, ToolsAside DEF D!Types, D!lists
<1> QED
  BY <1>1, <1>2, <1>3, <1>4, <1>5

\* What the robot is asked.
LEMMA ToolRequests ==
    ASSUME ToolsInv, NEW r \in asked
    PROVE  \/ r = D!Initialize /\ r.id = 1 /\ r.what = "initialize"
           \/ /\ r.of \in 1 .. Pages /\ r = D!List(r.of) /\ r.id = 2 /\ r.what = "list"
           \/ /\ r.of \in Tools /\ r = D!Call(r.id, r.of) /\ r.what = "call"
              /\ r.id = toolCall[r.of].id /\ toolCall[r.of].at # "idle"
              /\ r.id \in 1 .. (client.next - 1)
<1>1. CASE r = D!Initialize
  BY <1>1 DEF D!Initialize
<1>2. CASE \E n \in 1 .. Pages : r = D!List(n)
  <2>1. PICK n \in 1 .. Pages : r = D!List(n)
    BY <1>2
  <2>2. r.of = n /\ r.id = 2 /\ r.what = "list"
    BY <2>1 DEF D!List
  <2> QED
    BY <2>1, <2>2
<1>3. CASE \E c \in Tools : r = D!Call(toolCall[c].id, c) /\ toolCall[c].at # "idle"
  <2>1. PICK c \in Tools : r = D!Call(toolCall[c].id, c) /\ toolCall[c].at # "idle"
    BY <1>3
  <2>2. r.of = c /\ r.id = toolCall[c].id /\ r.what = "call"
    BY <2>1 DEF D!Call
  <2> QED
    BY <2>1, <2>2 DEF ToolsInv, AskedInv
<1> QED
  BY <1>1, <1>2, <1>3 DEF ToolsInv, AskedInv

LEMMA ToolFields ==
    ASSUME ToolsInv
    PROVE  /\ client \in ToolClients /\ client.made \in BOOLEAN /\ client.ready \in BOOLEAN
           /\ client.tools \in D!Inventories /\ client.partial \in Seq(Nat)
           /\ client.cached \in D!Inventories /\ client.next \in Nat \ {0}
           /\ client = ClientOf(client.made, client.ready, client.tools, client.partial,
                                client.cached, client.next)
           /\ resting \in Nat /\ losses \in 0 .. MaxLosses /\ MaxLosses \in Nat
           /\ Pages \in Nat /\ Pages > 0
           /\ handler \in BOOLEAN /\ components \in BOOLEAN
           /\ typed \in {"none", "waiting", "started"}
           /\ \A c \in Tools : toolCall[c].at \in ToolSteps /\ toolCall[c].id \in Nat
           /\ DOMAIN toolCall = Tools
BY SafetyAssumption DEF ToolsInv, ToolTypes, ToolClients, ClientOf

LEMMA ToolsGreeted ==
    ASSUME ToolsInv, D!Hello
    PROVE  ToolsInv'
<1>1. PICK cached \in D!Inventories :
        /\ client' = [D!NoClient EXCEPT !.made = TRUE, !.tools = cached, !.cached = cached]
        /\ declared' = IF cached # <<>> /\ handler THEN D!NotCached ELSE declared
  BY Zenon DEF D!Hello
<1>2. /\ ~client.made /\ asked' = {D!Initialize}
      /\ UNCHANGED <<reading, overtaken, handler, components, typed, resting, toolCall, losses>>
  BY DEF D!Hello
<1>3. D!NoClient \in ToolClients
  BY DEF D!NoClient, ToolClients, D!Inventories
<1>4. client' = ClientOf(TRUE, FALSE, cached, <<>>, cached, 1)
  <2>1. client' = ClientOf(TRUE, D!NoClient.ready, cached, D!NoClient.partial, cached,
                           D!NoClient.next)
    BY <1>1, <1>3, ClientUpdates, Zenon
  <2> QED
    BY <2>1 DEF D!NoClient
<1>5. /\ client'.made = TRUE /\ client'.ready = FALSE /\ client'.tools = cached
      /\ client'.partial = <<>> /\ client'.cached = cached /\ client'.next = 1
      /\ client' \in ToolClients
  BY <1>4 DEF ClientOf, ToolClients
<1>6. /\ ~client.ready /\ client.next = 1 /\ resting = 0 /\ client.tools = <<>>
      /\ D!Initialize.id = 1 /\ D!Initialize.what = "initialize"
  BY <1>2, ToolFields DEF ToolsInv, SourceInv, DeclaredInv, D!Initialize
<1>7. \A c \in Tools : toolCall[c].at = "idle"
  BY <1>6, ToolFields DEF ToolsInv, AskedInv
<1>8. ToolTypes'
  <2>1. toolCall' = [c \in Tools |-> ToolCall(c)']
    BY <1>2 DEF ToolsInv, ToolTypes, ToolCall
  <2> QED
    BY <1>2, <1>5, <2>1, ToolFields DEF ToolTypes
<1>9. AskedInv'
  <2>1. D!Initialize # D!Call(1, 1) /\ \A c \in Tools : D!Call(1, c) # D!Initialize
    BY DEF D!Call, D!Initialize
  <2> QED
    BY <1>2, <1>7, <2>1 DEF AskedInv
<1>10. SourceInv'
  <2>1. Sources' = {D!Initialize}
    BY <1>2, <1>6 DEF Sources
  <2>2. Len(client'.partial) = 0 /\ Pages > 0
    BY <1>5, ToolFields
  <2> QED
    BY <1>2, <1>5, <1>6, <2>1, <2>2 DEF SourceInv
<1>11. DeclaredInv'
  <2>1. /\ declared \in Lists /\ reading \in [D!Threads -> Lists] /\ overtaken \in BOOLEAN
        /\ ~handler => declared = D!NotCached /\ \A t \in D!Threads : reading[t] = D!NotCached
        /\ ~overtaken => /\ declared \in {D!NotCached, <<>>}
                         /\ \A t \in D!Threads : reading[t] \in {D!NotCached, <<>>}
    BY <1>6 DEF ToolsInv, DeclaredInv, FreshFor
  <2>2. declared' \in Lists /\ declared' \in {D!NotCached, declared}
    BY <1>1, <2>1 DEF Lists
  <2> QED
    BY <1>2, <1>5, <2>1, <2>2 DEF DeclaredInv, FreshFor
<1>12. AnswerInv'
  BY <1>2, <1>7 DEF AnswerInv
<1> QED
  BY <1>8, <1>9, <1>10, <1>11, <1>12 DEF ToolsInv

LEMMA ToolsAsked ==
    ASSUME ToolsInv, D!AsksForTools
    PROVE  ToolsInv'
<1>1. /\ resting > 0 /\ resting' = resting - 1 /\ asked' = asked \cup {D!List(1)}
      /\ UNCHANGED <<client, declared, reading, overtaken, handler, components, typed, toolCall,
                     losses>>
  BY DEF D!AsksForTools, D!lists
<1>2. resting = 1 /\ Sources = {} /\ client.partial = <<>>
  BY <1>1 DEF ToolsInv, SourceInv
<1>3. D!List(1).id = 2 /\ D!List(1).what = "list" /\ D!List(1).of = 1 /\ 1 \in 1 .. Pages
  BY ToolFields DEF D!List
<1>4. Sources' = {D!List(1)}
  BY <1>1, <1>2, <1>3 DEF Sources
<1>5. GaveUp' = GaveUp
  BY <1>1 DEF GaveUp
<1>6. ToolTypes'
  <2>1. resting' \in Nat
    BY <1>1, <1>2
  <2> QED
    BY <1>1, <2>1 DEF ToolsInv, ToolTypes, ToolCall
<1>7. AskedInv'
  <2>1. \A c \in Tools : D!Call(1, c) # D!List(1)
    BY DEF D!Call, D!List
  <2> QED
    BY <1>1, <1>3, <2>1 DEF ToolsInv, AskedInv
<1>8. SourceInv'
  <2>1. FirstPages(0) = <<>>
    BY PagesGrow
  <2>2. D!Initialize \notin asked'
    <3>1. D!Initialize \in asked => D!Initialize \in Sources
      BY DEF Sources, D!Initialize
    <3>2. D!Initialize # D!List(1)
      BY DEF D!Initialize, D!List
    <3> QED
      BY <1>1, <1>2, <3>1, <3>2
  <2>3. client.made /\ ~(client.next = 1 /\ client.ready)
    BY <1>2 DEF ToolsInv, SourceInv
  <2>4. client.ready => GaveUp
    BY <1>2 DEF ToolsInv, SourceInv
  <2>5. resting' = 0
    BY <1>1, <1>2
  <2>6. client'.partial = IF D!List(1).what = "list" THEN FirstPages(D!List(1).of - 1) ELSE <<>>
    BY <1>1, <1>2, <1>3, <2>1
  <2> QED
    BY <1>1, <1>3, <1>4, <1>5, <2>2, <2>3, <2>4, <2>5, <2>6 DEF ToolsInv, SourceInv
<1>9. DeclaredInv'
  BY <1>1 DEF ToolsInv, DeclaredInv
<1>10. AnswerInv'
  BY <1>1, <1>5 DEF ToolsInv, AnswerInv, AnsweredWell
<1> QED
  BY <1>6, <1>7, <1>8, <1>9, <1>10 DEF ToolsInv

\* Requests are answered, calls go on; the discovery is where it was.
LEMMA ToolsGoOn ==
    ASSUME ToolsInv, asked' \subseteq asked, losses' \in 0 .. MaxLosses,
           UNCHANGED <<client, declared, reading, overtaken, handler, components, typed, resting>>,
           toolCall' = [c \in Tools |-> ToolCall(c)'],
           \A c \in Tools : toolCall'[c].at \in ToolSteps /\ toolCall'[c].id = toolCall[c].id,
           \A c \in Tools : toolCall'[c].at # "idle" <=> toolCall[c].at # "idle",
           \A c \in Tools : toolCall[c].at = "expired" => toolCall'[c].at = "expired",
           \A c \in Tools : D!Call(1, c) \in asked' => toolCall'[c].at \in {"waits", "expired"},
           AnswerInv'
    PROVE  ToolsInv'
<1>1. GaveUp => GaveUp'
  BY DEF GaveUp
<1>2. Sources' \subseteq Sources
  BY DEF Sources
<1>3. ToolTypes'
  BY ToolFields DEF ToolTypes
<1>4. AskedInv'
  BY DEF ToolsInv, AskedInv
<1>5. SourceInv'
  BY <1>1, <1>2 DEF ToolsInv, SourceInv
<1>6. DeclaredInv'
  BY DEF ToolsInv, DeclaredInv
<1> QED
  BY <1>3, <1>4, <1>5, <1>6 DEF ToolsInv

\* One call changes.
LEMMA ToolCallChanges ==
    ASSUME ToolTypes, NEW c \in Tools, NEW a, NEW i, NEW g,
           toolCall' = [toolCall EXCEPT ![c] = [at |-> a, id |-> i, got |-> g]]
    PROVE  /\ toolCall' = [d \in Tools |-> ToolCall(d)']
           /\ toolCall'[c].at = a /\ toolCall'[c].id = i /\ toolCall'[c].got = g
           /\ \A d \in Tools \ {c} : toolCall'[d] = toolCall[d]
<1>1. /\ DOMAIN toolCall = Tools /\ toolCall = [d \in Tools |-> toolCall[d]]
      /\ \A d \in Tools : toolCall[d] =
            [at |-> toolCall[d].at, id |-> toolCall[d].id, got |-> toolCall[d].got]
  BY DEF ToolTypes, ToolCall
<1>2. /\ toolCall'[c] = [at |-> a, id |-> i, got |-> g]
      /\ \A d \in Tools \ {c} : toolCall'[d] = toolCall[d]
      /\ toolCall' = [d \in Tools |-> toolCall'[d]]
  BY <1>1
<1>3. \A d \in Tools : toolCall'[d] =
         [at |-> toolCall'[d].at, id |-> toolCall'[d].id, got |-> toolCall'[d].got]
  BY <1>1, <1>2
<1> QED
  BY <1>2, <1>3 DEF ToolCall
LEMMA ToolCallUpdates ==
    ASSUME ToolTypes, NEW c \in Tools, NEW a, NEW g
    PROVE  /\ [toolCall EXCEPT ![c].at = a] =
              [toolCall EXCEPT ![c] = [at |-> a, id |-> toolCall[c].id, got |-> toolCall[c].got]]
           /\ [toolCall EXCEPT ![c].at = a, ![c].got = g] =
              [toolCall EXCEPT ![c] = [at |-> a, id |-> toolCall[c].id, got |-> g]]
<1> DEFINE old == [at |-> toolCall[c].at, id |-> toolCall[c].id, got |-> toolCall[c].got]
           moved == [at |-> a, id |-> toolCall[c].id, got |-> toolCall[c].got]
           new == [at |-> a, id |-> toolCall[c].id, got |-> g]
<1>1. toolCall[c] = old /\ DOMAIN toolCall = Tools
  BY DEF ToolTypes, ToolCall
<1>2. [old EXCEPT !.at = a] = moved /\ [moved EXCEPT !.got = g] = new
  OBVIOUS
<1> HIDE DEF old, moved, new
<1>3. [toolCall EXCEPT ![c].at = a] = [toolCall EXCEPT ![c] = moved]
  <2>1. [toolCall EXCEPT ![c].at = a] = [toolCall EXCEPT ![c] = [toolCall[c] EXCEPT !.at = a]]
    BY Zenon
  <2> QED
    BY <1>1, <1>2, <2>1, Zenon
<1>4. [toolCall EXCEPT ![c].at = a, ![c].got = g] =
      [[toolCall EXCEPT ![c].at = a] EXCEPT ![c].got = g]
  BY Zenon
<1>5. [[toolCall EXCEPT ![c] = moved] EXCEPT ![c].got = g] = [toolCall EXCEPT ![c] = new]
  <2>1. [toolCall EXCEPT ![c] = moved][c] = moved
    BY <1>1
  <2>2. [[toolCall EXCEPT ![c] = moved] EXCEPT ![c].got = g] =
        [[toolCall EXCEPT ![c] = moved] EXCEPT
           ![c] = [[toolCall EXCEPT ![c] = moved][c] EXCEPT !.got = g]]
    BY Zenon
  <2>3. [[toolCall EXCEPT ![c] = moved] EXCEPT ![c] = new] = [toolCall EXCEPT ![c] = new]
    BY <1>1
  <2> QED
    BY <1>2, <2>1, <2>2, <2>3, Zenon
<1>6. [toolCall EXCEPT ![c].at = a, ![c].got = g] = [toolCall EXCEPT ![c] = new]
  BY <1>3, <1>4, <1>5, Zenon
<1> QED
  BY <1>3, <1>6 DEF moved, new

LEMMA ToolExpires ==
    ASSUME ToolsInv, NEW c \in Tools, D!Expires(c)
    PROVE  ToolsInv'
<1>1. /\ toolCall[c].at = "waits" /\ toolCall' = [toolCall EXCEPT ![c].at = "expired"]
      /\ UNCHANGED <<client, declared, reading, overtaken, handler, components, typed, asked,
                     resting, losses>>
  BY DEF D!Expires, D!lists
<1>2. toolCall' = [toolCall EXCEPT ![c] =
                     [at |-> "expired", id |-> toolCall[c].id, got |-> toolCall[c].got]]
  BY <1>1, ToolCallUpdates DEF ToolsInv
<1>3. /\ toolCall' = [d \in Tools |-> ToolCall(d)']
      /\ toolCall'[c].at = "expired" /\ toolCall'[c].id = toolCall[c].id
      /\ \A d \in Tools \ {c} : toolCall'[d] = toolCall[d]
  BY <1>2, ToolCallChanges DEF ToolsInv
<1>4. AnswerInv'
  <2>1. GaveUp => GaveUp'
    BY <1>1, <1>3 DEF GaveUp
  <2> QED
    BY <1>1, <1>3, <2>1 DEF ToolsInv, AnswerInv, AnsweredWell
<1>5. \A d \in Tools : D!Call(1, d) \in asked' => toolCall'[d].at \in {"waits", "expired"}
  BY <1>1, <1>3 DEF ToolsInv, AskedInv
<1>6. \A d \in Tools : toolCall'[d].at \in ToolSteps /\ toolCall'[d].id = toolCall[d].id
  BY <1>1, <1>3, ToolFields DEF ToolSteps
<1>7. losses' \in 0 .. MaxLosses
  BY <1>1, ToolFields
<1> QED
  BY <1>1, <1>3, <1>4, <1>5, <1>6, <1>7, ToolsGoOn

\* A request under the first ID is the only way to an inventory there is.
LEMMA ToolFirst ==
    ASSUME ToolsInv, NEW r \in asked, NEW c \in Tools, toolCall[c].at = "waits",
           toolCall[c].id = r.id, D!Call(1, c) \in asked
    PROVE  r = D!Call(1, c)
<1>1. D!Call(1, c).id = 1 /\ D!Call(1, c).what = "call" /\ D!Call(1, c).of = c
  BY DEF D!Call
<1>2. toolCall[c].id = 1
  BY <1>1, ToolRequests
<1> QED
  BY <1>1, <1>2 DEF ToolsInv, SourceInv, Sources

LEMMA ToolResolves ==
    ASSUME ToolsInv, NEW r \in asked, D!Resolves(r),
           UNCHANGED <<handler, components, losses>>
    PROVE  ToolsInv'
<1>1. PICK c \in Tools :
        /\ toolCall[c].at = "waits" /\ toolCall[c].id = r.id
        /\ toolCall' = [toolCall EXCEPT ![c].at = "answered",
                                        ![c].got = [what |-> r.what, of |-> r.of]]
        /\ asked' = asked \ {r}
        /\ UNCHANGED <<client, declared, reading, overtaken, typed, resting>>
  BY DEF D!Resolves, D!Waiting, D!lists
<1>2. toolCall' = [toolCall EXCEPT ![c] =
                     [at |-> "answered", id |-> toolCall[c].id,
                      got |-> [what |-> r.what, of |-> r.of]]]
  <2>1. ToolTypes
    BY DEF ToolsInv
  <2>2. \A a, g : [toolCall EXCEPT ![c].at = a, ![c].got = g] =
                  [toolCall EXCEPT ![c] = [at |-> a, id |-> toolCall[c].id, got |-> g]]
    BY <2>1, ToolCallUpdates, Zenon
  <2> QED
    BY <1>1, <2>2, Zenon
<1>3. /\ toolCall' = [d \in Tools |-> ToolCall(d)']
      /\ toolCall'[c].at = "answered" /\ toolCall'[c].id = toolCall[c].id
      /\ toolCall'[c].got = [what |-> r.what, of |-> r.of]
      /\ \A d \in Tools \ {c} : toolCall'[d] = toolCall[d]
  BY <1>2, ToolCallChanges DEF ToolsInv
<1>4. AnswerInv'
  <2>1. GaveUp => GaveUp'
    BY <1>1, <1>3 DEF GaveUp
  <2>2. CASE r = D!Initialize /\ r.id = 1 /\ r.what = "initialize"
    <3>1. client.next = 1
      BY <2>2 DEF ToolsInv, SourceInv
    <3> QED
      BY <1>1, <3>1, ToolFields DEF ToolsInv, AskedInv
  <2>3. CASE r.id = 2 /\ r.what = "list"
    <3>1. client.ready
      BY <1>1, <2>3, ToolFields DEF ToolsInv, AskedInv, SourceInv
    <3>2. GaveUp
      BY <2>3, <3>1 DEF ToolsInv, SourceInv
    <3>3. toolCall'[c].id = 2 /\ toolCall'[c].got.what = "list"
      BY <1>1, <1>3, <2>3
    <3> QED
      BY <1>3, <2>1, <3>2, <3>3 DEF ToolsInv, AnswerInv, AnsweredWell
  <2>4. CASE /\ r.of \in Tools /\ r.what = "call" /\ r.id = toolCall[r.of].id
             /\ toolCall[r.of].at # "idle"
    <3>1. r.of = c
      BY <1>1, <2>4 DEF ToolsInv, AskedInv
    <3>2. toolCall'[c].got = D!Done(c)
      BY <1>3, <2>4, <3>1 DEF D!Done
    <3> QED
      BY <1>3, <2>1, <3>2 DEF ToolsInv, AnswerInv, AnsweredWell
  <2> QED
    BY <2>2, <2>3, <2>4, ToolRequests
<1>5. \A d \in Tools : D!Call(1, d) \in asked' => toolCall'[d].at \in {"waits", "expired"}
  BY <1>1, <1>3, ToolFirst DEF ToolsInv, AskedInv
<1>6. \A d \in Tools : toolCall'[d].at \in ToolSteps /\ toolCall'[d].id = toolCall[d].id
  BY <1>1, <1>3, ToolFields DEF ToolSteps
<1>7. losses' \in 0 .. MaxLosses
  BY ToolFields
<1> QED
  BY <1>1, <1>3, <1>4, <1>5, <1>6, <1>7, ToolsGoOn

LEMMA ToolRefused ==
    ASSUME ToolsInv, NEW r \in asked, D!Refuses(r)
    PROVE  ToolsInv'
<1>1. /\ D!Lossy /\ asked' = asked \ {r}
      /\ toolCall' = [c \in Tools |-> IF c \in D!Waiting(r.id)
                                      THEN [toolCall[c] EXCEPT !.at = "failed"]
                                      ELSE toolCall[c]]
      /\ UNCHANGED <<client, declared, reading, overtaken, handler, components, typed, resting>>
  BY DEF D!Refuses, D!lists
<1>2. \A c \in Tools :
         /\ toolCall[c] = [at |-> toolCall[c].at, id |-> toolCall[c].id, got |-> toolCall[c].got]
         /\ [toolCall[c] EXCEPT !.at = "failed"] =
               [at |-> "failed", id |-> toolCall[c].id, got |-> toolCall[c].got]
  <2> TAKE c \in Tools
  <2>1. toolCall[c] = [at |-> toolCall[c].at, id |-> toolCall[c].id, got |-> toolCall[c].got]
    BY DEF ToolsInv, ToolTypes, ToolCall
  <2> QED
    BY <2>1
<1>3. \A c \in Tools :
         \/ toolCall'[c] = toolCall[c] /\ ~(toolCall[c].at = "waits" /\ toolCall[c].id = r.id)
         \/ /\ toolCall'[c].at = "failed" /\ toolCall'[c].id = toolCall[c].id
            /\ toolCall[c].at = "waits" /\ toolCall[c].id = r.id
  BY <1>1, <1>2 DEF D!Waiting
<1>4. toolCall' = [c \in Tools |-> ToolCall(c)']
  <2>1. \A c \in Tools : toolCall'[c] =
           [at |-> toolCall'[c].at, id |-> toolCall'[c].id, got |-> toolCall'[c].got]
    BY <1>1, <1>2
  <2>2. toolCall' = [c \in Tools |-> toolCall'[c]]
    BY <1>1
  <2> QED
    BY <2>1, <2>2 DEF ToolCall
<1>5. AnswerInv'
  <2>1. GaveUp => GaveUp'
    BY <1>3 DEF GaveUp
  <2>2. \A c \in Tools : toolCall'[c].at = "answered" => toolCall'[c] = toolCall[c]
    BY <1>3
  <2> QED
    BY <2>1, <2>2 DEF ToolsInv, AnswerInv, AnsweredWell
<1>6. \A d \in Tools : D!Call(1, d) \in asked' => toolCall'[d].at \in {"waits", "expired"}
  BY <1>1, <1>3, ToolFirst DEF ToolsInv, AskedInv
<1>7. \A d \in Tools : toolCall'[d].at \in ToolSteps /\ toolCall'[d].id = toolCall[d].id
  BY <1>3, ToolFields DEF ToolSteps
<1>8. losses' \in 0 .. MaxLosses
  BY <1>1, ToolFields DEF D!Lossy
<1>9. /\ \A c \in Tools : toolCall'[c].at # "idle" <=> toolCall[c].at # "idle"
      /\ \A c \in Tools : toolCall[c].at = "expired" => toolCall'[c].at = "expired"
  BY <1>3
<1> QED
  BY <1>1, <1>4, <1>5, <1>6, <1>7, <1>8, <1>9, ToolsGoOn
LEMMA ToolDropped ==
    ASSUME ToolsInv, NEW r \in asked, D!Dropped(r), UNCHANGED <<handler, components, losses>>
    PROVE  ToolsInv'
<1>1. /\ asked' = asked \ {r}
      /\ UNCHANGED <<client, declared, reading, overtaken, typed, resting, toolCall>>
  BY DEF D!Dropped, D!lists
<1>2. toolCall' = [c \in Tools |-> ToolCall(c)']
  BY <1>1 DEF ToolsInv, ToolTypes, ToolCall
<1>3. AnswerInv'
  BY <1>1 DEF ToolsInv, AnswerInv, AnsweredWell, GaveUp
<1> QED
  BY <1>1, <1>2, <1>3, ToolFields, ToolsGoOn DEF ToolsInv, AskedInv

LEMMA ToolCalled ==
    ASSUME ToolsInv, NEW c \in Tools, D!Calls(c)
    PROVE  ToolsInv'
<1>1. /\ toolCall[c].at = "idle" /\ client.ready
      /\ toolCall' = [toolCall EXCEPT ![c] = [at |-> "waits", id |-> client.next, got |-> "none"]]
      /\ client' = [client EXCEPT !.next = @ + 1]
      /\ UNCHANGED <<declared, reading, overtaken, handler, components, typed, resting>>
  BY DEF D!Calls, D!None, D!lists
<1>2. /\ asked' \subseteq asked \cup {D!Call(client.next, c)}
      /\ losses' \in 0 .. MaxLosses
  BY ToolFields DEF D!Calls, D!Lossy
<1>3. client' = ClientOf(client.made, client.ready, client.tools, client.partial,
                         client.cached, client.next + 1)
  <2>1. client \in ToolClients
    BY ToolFields
  <2> QED
    BY <1>1, <2>1, ClientUpdates, Zenon
<1>4. /\ client'.made = client.made /\ client'.ready = client.ready
      /\ client'.tools = client.tools /\ client'.partial = client.partial
      /\ client'.cached = client.cached /\ client'.next = client.next + 1
      /\ client' \in ToolClients
  BY <1>3, ToolFields DEF ClientOf, ToolClients
<1>5. /\ toolCall' = [d \in Tools |-> ToolCall(d)']
      /\ toolCall'[c].at = "waits" /\ toolCall'[c].id = client.next
      /\ \A d \in Tools \ {c} : toolCall'[d] = toolCall[d]
  BY <1>1, ToolCallChanges DEF ToolsInv
<1>6. GaveUp => GaveUp'
  BY <1>1, <1>5 DEF GaveUp
<1>7. LET r == D!Call(client.next, c) IN r.id = client.next /\ r.what = "call" /\ r.of = c
  BY DEF D!Call
<1>8. ToolTypes'
  <2>1. \A d \in Tools : toolCall'[d].at \in ToolSteps /\ toolCall'[d].id \in Nat
    BY <1>5, ToolFields DEF ToolSteps
  <2> QED
    BY <1>1, <1>2, <1>4, <1>5, <2>1, ToolFields DEF ToolTypes
<1>9. AskedInv'
  <2>1. \A r \in asked' :
          \/ r = D!Initialize \/ \E n \in 1 .. Pages : r = D!List(n)
          \/ \E d \in Tools : r = D!Call(toolCall'[d].id, d) /\ toolCall'[d].at # "idle"
    <3> SUFFICES ASSUME NEW r \in asked'
                 PROVE \/ r = D!Initialize \/ \E n \in 1 .. Pages : r = D!List(n)
                       \/ \E d \in Tools : /\ r = D!Call(toolCall'[d].id, d)
                                           /\ toolCall'[d].at # "idle"
      OBVIOUS
    <3>1. CASE r = D!Call(client.next, c)
      BY <3>1, <1>5
    <3>2. CASE r \in asked
      BY <3>2, <1>1, <1>5 DEF ToolsInv, AskedInv
    <3> QED
      BY <1>2, <3>1, <3>2
  <2>2. \A d \in Tools : toolCall'[d].at # "idle" => toolCall'[d].id \in 1 .. (client'.next - 1)
    BY <1>4, <1>5, ToolFields DEF ToolsInv, AskedInv
  <2>3. \A d, e \in Tools :
          toolCall'[d].at # "idle" /\ toolCall'[e].at # "idle" /\ toolCall'[d].id = toolCall'[e].id
              => d = e
    BY <1>4, <1>5, ToolFields DEF ToolsInv, AskedInv
  <2>4. \A d \in Tools : D!Call(1, d) \in asked' => toolCall'[d].at \in {"waits", "expired"}
    <3> SUFFICES ASSUME NEW d \in Tools, D!Call(1, d) \in asked'
                 PROVE toolCall'[d].at \in {"waits", "expired"}
      OBVIOUS
    <3>1. CASE d = c
      BY <3>1, <1>5
    <3>2. CASE d # c
      <4>1. D!Call(1, d).of = d /\ D!Call(client.next, c).of = c
        BY DEF D!Call
      <4>2. D!Call(1, d) \in asked
        BY <1>2, <3>2, <4>1
      <4> QED
        BY <1>5, <3>2, <4>2 DEF ToolsInv, AskedInv
    <3> QED
      BY <3>1, <3>2
  <2> QED
    BY <2>1, <2>2, <2>3, <2>4 DEF AskedInv
<1>10. SourceInv'
  <2>1. CASE client.next = 1
    <3>1. Sources = {} /\ resting = 0 /\ client.partial = <<>>
      BY <1>1, <2>1 DEF ToolsInv, SourceInv
    <3>2. Sources' \subseteq {D!Call(client.next, c)}
      BY <1>2, <3>1 DEF Sources
    <3>3. D!Initialize \notin asked'
      <4>1. D!Initialize \in asked => D!Initialize \in Sources
        BY DEF Sources, D!Initialize
      <4>2. D!Initialize # D!Call(client.next, c)
        BY <1>7 DEF D!Initialize
      <4> QED
        BY <1>2, <3>1, <4>1, <4>2
    <3>4. \A r \in asked' : r.what # "list"
      BY <1>2, <1>7, <3>1 DEF Sources
    <3>5. \A r, s \in Sources' : r = s
      BY <3>2
    <3>6. \A r \in Sources' :
             client'.partial = IF r.what = "list" THEN FirstPages(r.of - 1) ELSE <<>>
      BY <1>4, <1>7, <3>1, <3>2
    <3>7. client.made /\ Len(client.partial) < Pages
      BY <1>1 DEF ToolsInv, SourceInv
    <3> QED
      BY <1>1, <1>4, <2>1, <3>1, <3>3, <3>4, <3>5, <3>6, <3>7, ToolFields DEF SourceInv
  <2>2. CASE client.next # 1
    <3>1. Sources' \subseteq Sources
      BY <1>2, <1>7, <2>2 DEF Sources
    <3>2. D!Initialize # D!Call(client.next, c)
      BY <1>7 DEF D!Initialize
    <3>3. \A r \in asked' : r.what = "list" => r \in asked
      BY <1>2, <1>7
    <3>4. client.made /\ Len(client.partial) < Pages
      BY <1>1 DEF ToolsInv, SourceInv
    <3>5. client'.next # 1
      BY <1>4, <2>2, ToolFields
    <3>6. D!Initialize \notin asked'
      BY <1>1, <1>2, <3>2 DEF ToolsInv, SourceInv
    <3>7. client'.ready /\ (resting' = 1 \/ \E r \in asked' : r.what = "list") => GaveUp'
      BY <1>1, <1>4, <1>6, <3>3 DEF ToolsInv, SourceInv
    <3>8. resting' = 1 => Sources' = {} /\ client'.partial = <<>>
      BY <1>1, <1>4, <3>1 DEF ToolsInv, SourceInv
    <3> QED
      BY <1>1, <1>4, <3>1, <3>4, <3>5, <3>6, <3>7, <3>8 DEF ToolsInv, SourceInv
  <2> QED
    BY <2>1, <2>2
<1>11. DeclaredInv'
  BY <1>1, <1>4 DEF ToolsInv, DeclaredInv, FreshFor
<1>12. AnswerInv'
  <2>1. \A d \in Tools : toolCall'[d].at = "answered" => toolCall'[d] = toolCall[d]
    BY <1>5
  <2> QED
    BY <1>6, <2>1 DEF ToolsInv, AnswerInv, AnsweredWell
<1> QED
  BY <1>8, <1>9, <1>10, <1>11, <1>12 DEF ToolsInv

LEMMA ToolsRest ==
    ASSUME ToolsInv, NEW r \in asked, D!Rests(r), UNCHANGED <<handler, components, losses>>
    PROVE  ToolsInv'
<1>1. /\ D!Waiting(r.id) = {} /\ r.id = 1 /\ resting' = resting + 1 /\ asked' = asked \ {r}
      /\ UNCHANGED <<client, declared, reading, overtaken, typed, toolCall>>
  BY DEF D!Rests, D!lists
<1>2. r \in Sources /\ Sources' = {}
  BY <1>1 DEF ToolsInv, SourceInv, Sources
<1>3. resting = 0 /\ resting' = 1
  BY <1>1, <1>2 DEF ToolsInv, SourceInv
<1>4. GaveUp' = GaveUp
  BY <1>1 DEF GaveUp
<1>5. r.what # "list"
  BY <1>1, ToolRequests
<1>6. client.partial = <<>> /\ client.made /\ ~(client.next = 1 /\ client.ready)
  BY <1>2, <1>5 DEF ToolsInv, SourceInv
<1>7. client.ready => GaveUp
  <2> SUFFICES ASSUME client.ready PROVE GaveUp
    OBVIOUS
  <2>1. r # D!Initialize
    BY DEF ToolsInv, SourceInv
  <2>2. r.of \in Tools /\ r = D!Call(1, r.of) /\ toolCall[r.of].id = 1
    BY <1>1, <1>5, <2>1, ToolRequests
  <2>3. toolCall[r.of].at \in {"waits", "expired"}
    BY <2>2 DEF ToolsInv, AskedInv
  <2>4. toolCall[r.of].at # "waits"
    BY <1>1, <2>2 DEF D!Waiting
  <2> QED
    BY <2>2, <2>3, <2>4 DEF GaveUp
<1>8. ToolTypes'
  BY <1>1, <1>3 DEF ToolsInv, ToolTypes, ToolCall
<1>9. AskedInv'
  BY <1>1 DEF ToolsInv, AskedInv
<1>10. SourceInv'
  BY <1>1, <1>2, <1>3, <1>4, <1>6, <1>7 DEF ToolsInv, SourceInv
<1>11. DeclaredInv'
  BY <1>1 DEF ToolsInv, DeclaredInv
<1>12. AnswerInv'
  BY <1>1, <1>4 DEF ToolsInv, AnswerInv, AnsweredWell
<1> QED
  BY <1>8, <1>9, <1>10, <1>11, <1>12 DEF ToolsInv

LEMMA ToolListed ==
    ASSUME ToolsInv, NEW r \in asked, D!Listed(r), UNCHANGED <<handler, components, losses>>
    PROVE  ToolsInv'
<1>1. r.what = "list" /\ UNCHANGED <<resting, toolCall>>
  BY DEF D!Listed
<1>2. r \in Sources
  BY <1>1 DEF Sources
<1>3. /\ r.of \in 1 .. Pages /\ r = D!List(r.of) /\ r.of \in Nat
      /\ client.partial = FirstPages(r.of - 1) /\ resting = 0
      /\ client.made /\ ~(client.next = 1 /\ client.ready)
      /\ \A s \in Sources : s = r
      /\ client.ready => GaveUp
  <2>1. r.of \in 1 .. Pages /\ r = D!List(r.of)
    BY <1>1, ToolRequests
  <2>2. client.partial = FirstPages(r.of - 1) /\ resting = 0
    BY <1>1, <1>2 DEF ToolsInv, SourceInv
  <2>3. /\ client.made /\ ~(client.next = 1 /\ client.ready)
        /\ \A s \in Sources : s = r
    BY <1>2 DEF ToolsInv, SourceInv
  <2>4. client.ready => GaveUp
    BY <1>1 DEF ToolsInv, SourceInv
  <2> QED
    BY <2>1, <2>2, <2>3, <2>4, ToolFields
<1> DEFINE pages == Append(client.partial, r.of)
<1>4. pages = FirstPages(r.of) /\ pages \in Seq(Nat) /\ Len(pages) = r.of
  <2>1. r.of - 1 \in Nat /\ (r.of - 1) + 1 = r.of
    BY <1>3
  <2>2. Append(FirstPages(r.of - 1), (r.of - 1) + 1) = FirstPages((r.of - 1) + 1)
    BY <2>1, PagesGrow
  <2> QED
    BY <1>3, <2>1, <2>2, PagesGrow
<1>5. GaveUp' = GaveUp
  BY <1>1 DEF GaveUp
<1>6. D!Initialize \in asked => D!Initialize = r
  <2>1. D!Initialize.id = 1
    BY DEF D!Initialize
  <2> QED
    BY <1>3, <2>1 DEF Sources
<1>7. D!Initialize \notin asked
  <2>1. D!Initialize.what # "list"
    BY DEF D!Initialize
  <2> QED
    BY <1>1, <1>6, <2>1
<1>8. AnswerInv'
  BY <1>1, <1>5 DEF ToolsInv, AnswerInv, AnsweredWell
<1>9. ASSUME r.of < Pages,
             client' = [client EXCEPT !.partial = pages],
             asked' = (asked \ {r}) \cup {D!List(r.of + 1)},
             UNCHANGED <<declared, reading, overtaken, typed>>
      PROVE  ToolsInv'
  <2>1. client' = ClientOf(client.made, client.ready, client.tools, pages, client.cached,
                           client.next)
    <3>1. client \in ToolClients
      BY ToolFields
    <3> QED
      BY <1>9, <3>1, ClientUpdates, Zenon
  <2> HIDE DEF pages
  <2>2. /\ client'.made = client.made /\ client'.ready = client.ready
        /\ client'.tools = client.tools /\ client'.partial = pages
        /\ client'.cached = client.cached /\ client'.next = client.next
        /\ client' \in ToolClients
    BY <1>4, <2>1, ToolFields DEF ClientOf, ToolClients
  <2> DEFINE l == D!List(r.of + 1)
  <2>3. l.id = 2 /\ l.what = "list" /\ l.of = r.of + 1 /\ r.of + 1 \in 1 .. Pages
    BY <1>3, <1>9, ToolFields DEF D!List
  <2>4. Sources' = {l}
    BY <1>3, <1>9, <2>3 DEF Sources
  <2>5. l # D!Initialize /\ \A c \in Tools : D!Call(1, c) # l
    BY DEF D!List, D!Initialize, D!Call
  <2>6. ToolTypes'
    <3>1. toolCall' = [c \in Tools |-> ToolCall(c)']
      BY <1>1 DEF ToolsInv, ToolTypes, ToolCall
    <3> QED
      BY <1>1, <1>9, <2>2, <3>1, ToolFields DEF ToolTypes
  <2>7. AskedInv'
    BY <1>1, <1>9, <2>2, <2>3, <2>5 DEF ToolsInv, AskedInv
  <2>8. SourceInv'
    <3>1. \A s \in Sources' :
             client'.partial = IF s.what = "list" THEN FirstPages(s.of - 1) ELSE <<>>
      <4>1. (r.of + 1) - 1 = r.of
        BY <1>3
      <4> QED
        BY <1>4, <2>2, <2>3, <2>4, <4>1
    <3>2. D!Initialize \notin asked'
      BY <1>7, <1>9, <2>5
    <3>3. client'.ready => GaveUp'
      BY <1>3, <1>5, <2>2
    <3>4. Len(client'.partial) < Pages
      BY <1>4, <1>9, <2>2
    <3>5. ~client'.ready => client'.next = 1
      BY <2>2 DEF ToolsInv, SourceInv
    <3> HIDE DEF l
    <3> QED
      BY <1>1, <1>3, <2>2, <2>4, <3>1, <3>2, <3>3, <3>4, <3>5 DEF SourceInv
  <2>9. DeclaredInv'
    BY <1>9, <2>2 DEF ToolsInv, DeclaredInv, FreshFor
  <2> QED
    BY <1>8, <2>6, <2>7, <2>8, <2>9 DEF ToolsInv
<1>10. ASSUME r.of = Pages,
              client' = [client EXCEPT !.partial = <<>>, !.tools = pages, !.cached = pages,
                                       !.ready = TRUE],
              declared' = D!Refreshed(pages), UNCHANGED reading,
              overtaken' = (overtaken \/ D!Overtakes(pages)),
              typed' = IF components /\ typed = "waiting" THEN "started" ELSE typed,
              asked' = asked \ {r}
       PROVE  ToolsInv'
  <2>1. client' = ClientOf(client.made, TRUE, pages, <<>>, pages, client.next)
    <3>1. client \in ToolClients
      BY ToolFields
    <3> QED
      BY <1>10, <3>1, ClientUpdates, Zenon
  <2>2. pages = D!Live /\ pages \in D!Inventories
    BY <1>3, <1>4, <1>10, PagesGrow DEF D!Inventories
  <2>3. declared' = IF ~handler THEN declared
                    ELSE IF client.cached # pages \/ declared \in {<<>>, D!NotCached}
                         THEN pages ELSE declared
    BY <1>10 DEF D!Refreshed
  <2> HIDE DEF pages
  <2>4. /\ client'.made = client.made /\ client'.ready = TRUE
        /\ client'.tools = pages /\ client'.partial = <<>>
        /\ client'.cached = pages /\ client'.next = client.next
        /\ client' \in ToolClients
    BY <2>1, <2>2, ToolFields DEF ClientOf, ToolClients
  <2>5. Sources' = {}
    BY <1>3, <1>10 DEF Sources
  <2>6. ToolTypes'
    <3>1. toolCall' = [c \in Tools |-> ToolCall(c)']
      BY <1>1 DEF ToolsInv, ToolTypes, ToolCall
    <3> QED
      BY <1>1, <1>10, <2>4, <3>1, ToolFields DEF ToolTypes
  <2>7. AskedInv'
    BY <1>1, <1>10, <2>4 DEF ToolsInv, AskedInv
  <2>8. SourceInv'
    <3>1. \A s \in asked' : s.what # "list"
      BY <1>3, <1>10 DEF Sources
    <3>2. Len(client'.partial) < Pages
      BY <2>4, ToolFields
    <3>3. D!Initialize \notin asked'
      BY <1>7, <1>10
    <3>4. resting' = 0
      BY <1>1, <1>3
    <3> QED
      BY <1>3, <2>4, <2>5, <3>1, <3>2, <3>3, <3>4 DEF SourceInv
  <2>9. DeclaredInv'
    <3>1. /\ ~overtaken => declared \in {D!NotCached, <<>>, client.cached}
          /\ ~handler => declared = D!NotCached /\ \A t \in D!Threads : reading[t] = D!NotCached
          /\ declared \in Lists /\ reading \in [D!Threads -> Lists] /\ overtaken \in BOOLEAN
      BY DEF ToolsInv, DeclaredInv, FreshFor
    <3>2. /\ ~overtaken => declared' \in {D!NotCached, pages}
          /\ ~handler => declared' = D!NotCached
          /\ declared' \in Lists
      BY <2>2, <2>3, <3>1 DEF Lists
    <3>3. components => typed' # "waiting"
      BY <1>10
    <3>4. /\ overtaken' \in BOOLEAN /\ (overtaken => overtaken')
          /\ ~overtaken' => \A t \in D!Threads : reading[t] \in {D!NotCached, pages}
      BY <1>10, <3>1 DEF D!Overtakes
    <3> QED
      BY <1>3, <1>10, <2>2, <2>4, <3>1, <3>2, <3>3, <3>4 DEF DeclaredInv, FreshFor
  <2> QED
    BY <1>8, <2>6, <2>7, <2>8, <2>9 DEF ToolsInv
<1>11. \/ /\ r.of < Pages
          /\ client' = [client EXCEPT !.partial = pages]
          /\ asked' = (asked \ {r}) \cup {D!List(r.of + 1)}
          /\ UNCHANGED <<declared, reading, overtaken, typed>>
       \/ /\ r.of = Pages
          /\ client' = [client EXCEPT !.partial = <<>>, !.tools = pages, !.cached = pages,
                                      !.ready = TRUE]
          /\ declared' = D!Refreshed(pages) /\ UNCHANGED reading
          /\ overtaken' = (overtaken \/ D!Overtakes(pages))
          /\ typed' = IF components /\ typed = "waiting" THEN "started" ELSE typed
          /\ asked' = asked \ {r}
  BY DEF D!Listed, D!lists
<1> HIDE DEF pages
<1> QED
  BY <1>9, <1>10, <1>11

LEMMA ToolsFrame ==
    ASSUME ToolsInv, UNCHANGED toolVars
    PROVE  ToolsInv'
<1>1. UNCHANGED <<client, declared, reading, overtaken, handler, components, typed, asked,
                  resting, toolCall, losses>>
  BY DEF toolVars
<1> QED
  BY <1>1, ToolFields, ToolsAside DEF ToolsInv, DeclaredInv

LEMMA ToolsStep ==
    ASSUME ToolsInv, [SafetyNext]_allVars
    PROVE  ToolsInv'
<1>1. D!Next \/ UNCHANGED toolVars
  BY PartSteps
<1>2. ASSUME NEW c \in Tools, D!Calls(c) \/ D!Expires(c) PROVE ToolsInv'
  BY <1>2, ToolCalled, ToolExpires
<1>3. ASSUME NEW r \in asked, D!Answers(r) PROVE ToolsInv'
  BY <1>3, ToolResolves, ToolsRest, ToolListed, ToolDropped DEF D!Answers
<1>4. ASSUME NEW r \in asked, D!Refuses(r) PROVE ToolsInv'
  BY <1>4, ToolRefused
<1>5. ASSUME \/ D!Hello \/ D!HandlerMade \/ D!ComponentsReady \/ D!Types \/ D!AsksForTools
             \/ \E t \in D!Threads : D!Declares(t) \/ D!Declared(t)
      PROVE  ToolsInv'
  BY <1>5, ToolsGreeted, ToolsMade, ToolsAsked
<1> QED
  BY <1>1, <1>2, <1>3, <1>4, <1>5, ToolsFrame DEF D!Next

\* Once its discovery is through, the server has the robot's inventory, each page
\* once, no typed text waits behind it, and the LLM is given the same unless the
\* inventory overtook a thread that was storing its list; and what a call is given is
\* the robot's answer to it, or, under the inventory's ID and behind a call that was
\* given up under the initialization's, a page of the inventory
\* (core/providers/tools/device_mcp/mcp_handler.py); for any number of calls, pages
\* and losses.
THEOREM RobotToolsAnswer == SafetySpec => []ToolsAnswer
<1>1. SafetyInit => ToolsInv
  BY ToolsBegin
<1>2. ToolsInv /\ [SafetyNext]_allVars => ToolsInv'
  BY ToolsStep
<1>3. ToolsInv => ToolsAnswer
  <2> SUFFICES ASSUME ToolsInv PROVE D!TypeOK /\ D!ToolsAnswer
    BY DEF ToolsAnswer
  <2>1. \A r \in asked : r.id \in 1 .. (client.next + 2)
    BY ToolRequests, ToolFields
  <2>2. D!TypeOK
    <3>1. /\ Len(client.partial) < Pages
          /\ declared \in D!Inventories \cup {D!NotCached}
          /\ reading \in [D!Threads -> D!Inventories \cup {D!NotCached}]
          /\ overtaken \in BOOLEAN
      BY ToolFields DEF ToolsInv, SourceInv, DeclaredInv, Lists
    <3> QED
      BY <2>1, <3>1, ToolFields DEF D!TypeOK, D!None, ToolSteps
  <2>3. D!ToolsCurrent
    BY DEF ToolsInv, DeclaredInv, FreshFor, D!ToolsCurrent
  <2>4. D!AnswersOwn
    <3>1. D!Initialize.id = 1 /\ D!List(1).id = 2
      BY DEF D!Initialize, D!List
    <3> QED
      BY <3>1 DEF ToolsInv, AnswerInv, AnsweredWell, GaveUp, D!AnswersOwn, D!GivenUp
  <2> QED
    BY <2>2, <2>3, <2>4 DEF D!ToolsAnswer
<1> QED
  BY <1>1, <1>2, <1>3, PTL DEF SafetySpec, allVars

-----------------------------------------------------------------------------
(* SoundbankCleanup: the proof.                                            *)

\* The updates of the operation's record; the provers follow them one field at a
\* time, and with values of no kind in particular.
OpOf(a, p, n, g, l, s, r) ==
    [at |-> a, page |-> p, new |-> n, gone |-> g, left |-> l, stay |-> s, protected |-> r]
LEMMA WrittenMade == \A p, g, r :
      [S!Idle EXCEPT !.at = "made", !.page = p, !.gone = g, !.protected = r] =
         OpOf("made", p, <<>>, g, {}, {}, r)
<1> DEFINE idle == "idle" none == "none" no == <<>> e == {} atMade == "made"
<1>1. S!Idle = OpOf(idle, none, no, e, e, e, e)
  BY DEF S!Idle, OpOf
<1> HIDE DEF idle, none, no, e, atMade
<1>2. ASSUME NEW p, NEW g, NEW r
      PROVE  [S!Idle EXCEPT !.at = atMade, !.page = p, !.gone = g, !.protected = r] =
            OpOf(atMade, p, no, g, e, e, r)
  <2>1. [OpOf(idle, none, no, e, e, e, e) EXCEPT !.at = atMade] =
         OpOf(atMade, none, no, e, e, e, e)
    BY DEF OpOf
  <2>2. [S!Idle EXCEPT !.at = atMade] =
         OpOf(atMade, none, no, e, e, e, e)
    BY <2>1, <1>1, Zenon
  <2>3. [OpOf(atMade, none, no, e, e, e, e) EXCEPT !.page = p] =
         OpOf(atMade, p, no, e, e, e, e)
    BY DEF OpOf
  <2>4. [[S!Idle EXCEPT !.at = atMade] EXCEPT !.page = p] =
         OpOf(atMade, p, no, e, e, e, e)
    BY <2>3, <2>2, Zenon
  <2>5. [OpOf(atMade, p, no, e, e, e, e) EXCEPT !.gone = g] =
         OpOf(atMade, p, no, g, e, e, e)
    BY DEF OpOf
  <2>6. [[[S!Idle EXCEPT !.at = atMade] EXCEPT !.page = p] EXCEPT !.gone = g] =
         OpOf(atMade, p, no, g, e, e, e)
    BY <2>5, <2>4, Zenon
  <2>7. [OpOf(atMade, p, no, g, e, e, e) EXCEPT !.protected = r] =
         OpOf(atMade, p, no, g, e, e, r)
    BY DEF OpOf
  <2>8. [[[[S!Idle EXCEPT !.at = atMade] EXCEPT !.page = p] EXCEPT !.gone = g]
            EXCEPT !.protected = r] =
         OpOf(atMade, p, no, g, e, e, r)
    BY <2>7, <2>6, Zenon
  <2> QED
    BY <2>8, Zenon
<1> QED
  BY <1>2, Zenon DEF idle, none, no, e, atMade
LEMMA WrittenPrepared == \A p, n, g :
      [S!Idle EXCEPT !.at = "prepared", !.page = p, !.new = n, !.gone = g] =
         OpOf("prepared", p, n, g, {}, {}, {})
<1> DEFINE idle == "idle" none == "none" no == <<>> e == {} atPrepared == "prepared"
<1>1. S!Idle = OpOf(idle, none, no, e, e, e, e)
  BY DEF S!Idle, OpOf
<1> HIDE DEF idle, none, no, e, atPrepared
<1>2. ASSUME NEW p, NEW n, NEW g
      PROVE  [S!Idle EXCEPT !.at = atPrepared, !.page = p, !.new = n, !.gone = g] =
            OpOf(atPrepared, p, n, g, e, e, e)
  <2>1. [OpOf(idle, none, no, e, e, e, e) EXCEPT !.at = atPrepared] =
         OpOf(atPrepared, none, no, e, e, e, e)
    BY DEF OpOf
  <2>2. [S!Idle EXCEPT !.at = atPrepared] =
         OpOf(atPrepared, none, no, e, e, e, e)
    BY <2>1, <1>1, Zenon
  <2>3. [OpOf(atPrepared, none, no, e, e, e, e) EXCEPT !.page = p] =
         OpOf(atPrepared, p, no, e, e, e, e)
    BY DEF OpOf
  <2>4. [[S!Idle EXCEPT !.at = atPrepared] EXCEPT !.page = p] =
         OpOf(atPrepared, p, no, e, e, e, e)
    BY <2>3, <2>2, Zenon
  <2>5. [OpOf(atPrepared, p, no, e, e, e, e) EXCEPT !.new = n] =
         OpOf(atPrepared, p, n, e, e, e, e)
    BY DEF OpOf
  <2>6. [[[S!Idle EXCEPT !.at = atPrepared] EXCEPT !.page = p] EXCEPT !.new = n] =
         OpOf(atPrepared, p, n, e, e, e, e)
    BY <2>5, <2>4, Zenon
  <2>7. [OpOf(atPrepared, p, n, e, e, e, e) EXCEPT !.gone = g] =
         OpOf(atPrepared, p, n, g, e, e, e)
    BY DEF OpOf
  <2>8. [[[[S!Idle EXCEPT !.at = atPrepared] EXCEPT !.page = p] EXCEPT !.new = n]
            EXCEPT !.gone = g] =
         OpOf(atPrepared, p, n, g, e, e, e)
    BY <2>7, <2>6, Zenon
  <2> QED
    BY <2>8, Zenon
<1> QED
  BY <1>2, Zenon DEF idle, none, no, e, atPrepared
LEMMA WrittenClean == \A l, r :
      [S!Idle EXCEPT !.at = "clean", !.left = l, !.protected = r] =
         OpOf("clean", "none", <<>>, {}, l, {}, r)
<1> DEFINE idle == "idle" none == "none" no == <<>> e == {} atClean == "clean"
<1>1. S!Idle = OpOf(idle, none, no, e, e, e, e)
  BY DEF S!Idle, OpOf
<1> HIDE DEF idle, none, no, e, atClean
<1>2. ASSUME NEW l, NEW r
      PROVE  [S!Idle EXCEPT !.at = atClean, !.left = l, !.protected = r] =
            OpOf(atClean, none, no, e, l, e, r)
  <2>1. [OpOf(idle, none, no, e, e, e, e) EXCEPT !.at = atClean] =
         OpOf(atClean, none, no, e, e, e, e)
    BY DEF OpOf
  <2>2. [S!Idle EXCEPT !.at = atClean] =
         OpOf(atClean, none, no, e, e, e, e)
    BY <2>1, <1>1, Zenon
  <2>3. [OpOf(atClean, none, no, e, e, e, e) EXCEPT !.left = l] =
         OpOf(atClean, none, no, e, l, e, e)
    BY DEF OpOf
  <2>4. [[S!Idle EXCEPT !.at = atClean] EXCEPT !.left = l] =
         OpOf(atClean, none, no, e, l, e, e)
    BY <2>3, <2>2, Zenon
  <2>5. [OpOf(atClean, none, no, e, l, e, e) EXCEPT !.protected = r] =
         OpOf(atClean, none, no, e, l, e, r)
    BY DEF OpOf
  <2>6. [[[S!Idle EXCEPT !.at = atClean] EXCEPT !.left = l] EXCEPT !.protected = r] =
         OpOf(atClean, none, no, e, l, e, r)
    BY <2>5, <2>4, Zenon
  <2> QED
    BY <2>6, Zenon
<1> QED
  BY <1>2, Zenon DEF idle, none, no, e, atClean
LEMMA WrittenSweep == \A l :
      [S!Idle EXCEPT !.at = "sweep", !.left = l] =
         OpOf("sweep", "none", <<>>, {}, l, {}, {})
<1> DEFINE idle == "idle" none == "none" no == <<>> e == {} atSweep == "sweep"
<1>1. S!Idle = OpOf(idle, none, no, e, e, e, e)
  BY DEF S!Idle, OpOf
<1> HIDE DEF idle, none, no, e, atSweep
<1>2. ASSUME NEW l
      PROVE  [S!Idle EXCEPT !.at = atSweep, !.left = l] =
            OpOf(atSweep, none, no, e, l, e, e)
  <2>1. [OpOf(idle, none, no, e, e, e, e) EXCEPT !.at = atSweep] =
         OpOf(atSweep, none, no, e, e, e, e)
    BY DEF OpOf
  <2>2. [S!Idle EXCEPT !.at = atSweep] =
         OpOf(atSweep, none, no, e, e, e, e)
    BY <2>1, <1>1, Zenon
  <2>3. [OpOf(atSweep, none, no, e, e, e, e) EXCEPT !.left = l] =
         OpOf(atSweep, none, no, e, l, e, e)
    BY DEF OpOf
  <2>4. [[S!Idle EXCEPT !.at = atSweep] EXCEPT !.left = l] =
         OpOf(atSweep, none, no, e, l, e, e)
    BY <2>3, <2>2, Zenon
  <2> QED
    BY <2>4, Zenon
<1> QED
  BY <1>2, Zenon DEF idle, none, no, e, atSweep
LEMMA WrittenHandled ==
    ASSUME NEW x \in Operations
    PROVE  \A l, s :
       [x EXCEPT !.left = l, !.stay = s] =
         OpOf(x.at, x.page, x.new, x.gone, l, s, x.protected)
<1>1. x = OpOf(x.at, x.page, x.new, x.gone, x.left, x.stay, x.protected)
  BY DEF Operations, OpOf
<1>2. ASSUME NEW l, NEW s
      PROVE  [x EXCEPT !.left = l, !.stay = s] =
            OpOf(x.at, x.page, x.new, x.gone, l, s, x.protected)
  <2>1. [x EXCEPT !.left = l] = OpOf(x.at, x.page, x.new, x.gone, l, x.stay, x.protected)
    BY <1>1 DEF OpOf
  <2>2. [OpOf(x.at, x.page, x.new, x.gone, l, x.stay, x.protected) EXCEPT !.stay = s] =
         OpOf(x.at, x.page, x.new, x.gone, l, s, x.protected)
    BY DEF OpOf
  <2>3. [[x EXCEPT !.left = l] EXCEPT !.stay = s] =
         OpOf(x.at, x.page, x.new, x.gone, l, s, x.protected)
    BY <2>2, <2>1, Zenon
  <2> QED
    BY <2>3, Zenon
<1> QED
  BY <1>2, Zenon
LEMMA IdleOp ==
    /\ S!Idle \in Operations /\ S!Idle.at = "idle" /\ S!Idle.left = {} /\ S!Idle.stay = {}
BY DEF S!Idle, Operations

LEMMA SoundFields ==
    ASSUME SoundInv
    PROVE  /\ disk \in [Names -> 0 .. made] /\ made \in 0 .. MaxMade /\ made \in Nat
           /\ MaxMade \in Nat /\ MaxRuns \in Nat /\ runs \in 0 .. MaxRuns
           /\ byHand \subseteq 1 .. made
           /\ saved \in [Names -> S!Uses] /\ runtime \in [Names -> S!Uses]
           /\ page \in [OpenPages -> SUBSET Names] /\ drafts \in [OpenPages -> SUBSET Names]
           /\ owned \in [OpenPages -> SUBSET Names]
           /\ \A p \in OpenPages : owned[p] \subseteq drafts[p]
           /\ DOMAIN preview = OpenPages
           /\ \A p \in OpenPages : preview[p] = {S!NotShown} \/ preview[p] \subseteq S!Records
           /\ journal \subseteq S!Records
           /\ \A r, s \in journal : r.name = s.name => r = s
           /\ op \in Operations /\ op.left \subseteq S!Records /\ op.stay \subseteq S!Records
           /\ op.gone \subseteq Names /\ op.protected \subseteq Names
           /\ \A r \in journal : r.name \in Names /\ r.id \in 1 .. made /\ r.id \notin byHand
<1>1. /\ SoundTypes /\ S!TypeOK /\ MaxMade \in Nat /\ MaxRuns \in Nat
  BY SafetyAssumption DEF SoundInv, SoundTypes
<1>2. /\ disk \in [Names -> 0 .. made] /\ made \in 0 .. MaxMade /\ runs \in 0 .. MaxRuns
      /\ byHand \subseteq 1 .. made /\ journal \subseteq S!Records
      /\ saved \in [Names -> S!Uses] /\ runtime \in [Names -> S!Uses]
      /\ \A p \in OpenPages : owned[p] \subseteq drafts[p]
      /\ \A p \in OpenPages : preview[p] = {S!NotShown} \/ preview[p] \subseteq S!Records
      /\ \A r, s \in journal : r.name = s.name => r = s
  BY <1>1 DEF S!TypeOK
<1>3. /\ page \in [OpenPages -> SUBSET Names] /\ drafts \in [OpenPages -> SUBSET Names]
      /\ owned \in [OpenPages -> SUBSET Names] /\ DOMAIN preview = OpenPages
      /\ op \in Operations
  BY <1>1 DEF SoundTypes
<1>4. /\ op.left \subseteq S!Records /\ op.stay \subseteq S!Records
      /\ op.gone \subseteq Names /\ op.protected \subseteq Names
  BY <1>3 DEF Operations
<1>5. \A r \in journal : r.name \in Names /\ r.id \in 1 .. made /\ r.id \notin byHand
  BY <1>2 DEF SoundInv, HandInv, S!Records
<1> QED
  BY <1>1, <1>2, <1>3, <1>4, <1>5

LEMMA SoundTypesKept ==
    ASSUME disk' \in [Names -> 0 .. made'], made' \in 0 .. MaxMade, byHand' \subseteq 1 .. made',
           saved' \in [Names -> S!Uses], runtime' \in [Names -> S!Uses],
           page' \in [OpenPages -> SUBSET Names], drafts' \in [OpenPages -> SUBSET Names],
           owned' \in [OpenPages -> SUBSET Names],
           \A p \in OpenPages : owned'[p] \subseteq drafts'[p],
           DOMAIN preview' = OpenPages,
           \A p \in OpenPages : preview'[p] = {S!NotShown} \/ preview'[p] \subseteq S!Records,
           journal' \subseteq S!Records, \A r, s \in journal' : r.name = s.name => r = s,
           op' \in Operations, runs' \in 0 .. MaxRuns
    PROVE  SoundTypes'
<1>1. op'.left \cup op'.stay \subseteq S!Records
  BY DEF Operations
<1> QED
  BY <1>1 DEF SoundTypes, S!TypeOK

LEMMA OpFields ==
    ASSUME NEW a \in {"idle", "made", "prepared", "clean", "sweep"},
           NEW p \in OpenPages \cup {"none"}, NEW n \in {<<>>} \cup [Names -> S!Uses],
           NEW g \in SUBSET Names, NEW l \in SUBSET S!Records, NEW s \in SUBSET S!Records,
           NEW r \in SUBSET Names
    PROVE  LET o == OpOf(a, p, n, g, l, s, r)
           IN  /\ o \in Operations /\ o.at = a /\ o.page = p /\ o.new = n /\ o.gone = g
               /\ o.left = l /\ o.stay = s /\ o.protected = r
BY DEF OpOf, Operations

LEMMA SoundBegins == SafetyInit => SoundInv
<1> SUFFICES ASSUME SafetyInit PROVE SoundInv
  OBVIOUS
<1>1. /\ disk = [n \in Names |-> 0] /\ made = 0 /\ byHand = {}
      /\ saved = [n \in Names |-> "none"] /\ runtime = saved
      /\ page = [p \in OpenPages |-> {}] /\ drafts = page /\ owned = page
      /\ journal = {} /\ op = S!Idle /\ preview = [p \in OpenPages |-> {S!NotShown}]
      /\ runs = 0
  BY DEF SafetyInit, S!Init
<1>2. 0 \in 0 .. MaxMade /\ 0 \in 0 .. MaxRuns
  BY SafetyAssumption
<1>3. SoundTypes
  BY <1>1, <1>2, IdleOp DEF SoundTypes, S!TypeOK, S!Uses
<1>4. OperationInv
  BY <1>1, IdleOp DEF OperationInv
<1>5. HandInv
  BY <1>1 DEF HandInv
<1> QED
  BY <1>3, <1>4, <1>5 DEF SoundInv

\* A new file is not one that somebody has copied, unless this one is.
LEMMA SoundMakes ==
    ASSUME SoundInv, NEW n \in Names, S!Makes(n)
    PROVE  /\ made' = made + 1 /\ made' \in 0 .. MaxMade /\ made' \notin byHand
           /\ disk' \in [Names -> 0 .. made'] /\ disk'[n] = made'
           /\ \A m \in Names \ {n} : disk'[m] = disk[m] /\ disk'[m] # made'
<1>1. /\ made \in Nat /\ made < MaxMade /\ made' = made + 1 /\ MaxMade \in Nat
      /\ disk \in [Names -> 0 .. made] /\ byHand \subseteq 1 .. made
      /\ disk' = [disk EXCEPT ![n] = made']
  BY SoundFields DEF S!Makes
<1> QED
  BY <1>1

\* The lock is taken, and what was made or will be saved is noted with it.
LEMMA SoundMade ==
    ASSUME SoundInv, NEW p \in OpenPages, NEW n \in Names, NEW r \in SUBSET Names, n \in r,
           S!Makes(n), S!Free,
           op' = OpOf("made", p, <<>>, {n}, {}, {}, r),
           UNCHANGED <<saved, runtime, page, drafts, owned, journal, preview, runs, byHand>>
    PROVE  SoundInv'
<1>1. /\ op' \in Operations /\ op'.at = "made" /\ op'.page = p /\ op'.gone = {n}
      /\ op'.left = {} /\ op'.stay = {} /\ op'.protected = r
  BY OpFields
<1>2. SoundTypes'
  BY <1>1, SoundMakes, SoundFields, SoundTypesKept
<1>3. OperationInv'
  BY <1>1 DEF OperationInv
<1>4. HandInv'
  <2>1. \A m \in Names : Generated(m)' => m = n \/ Generated(m)
    BY <1>1 DEF Generated
  <2>2. /\ made' \notin byHand /\ disk'[n] = made' /\ made' = made + 1 /\ made \in Nat
        /\ \A m \in Names \ {n} : disk'[m] = disk[m]
    BY SoundMakes, SoundFields
  <2>3. \A m \in Names : Generated(m)' => disk'[m] \notin byHand'
    BY <2>1, <2>2 DEF SoundInv, HandInv
  <2>4. \A s \in journal' : s.id \in 1 .. made' /\ s.id \notin byHand'
    BY <2>2 DEF SoundInv, HandInv
  <2> QED
    BY <2>3, <2>4 DEF HandInv
<1> QED
  BY <1>2, <1>3, <1>4 DEF SoundInv
LEMMA SoundGenerates ==
    ASSUME SoundInv, NEW p \in OpenPages, NEW n \in Names,
           S!Generates(p, n) \/ \E m \in Names : S!Optimizes(p, n, m)
    PROVE  SoundInv'
<1>2. ASSUME S!Generates(p, n) PROVE SoundInv'
  <2>1. op' = OpOf("made", p, <<>>, {n}, {}, {}, {n})
    BY <1>2, WrittenMade, Zenon DEF S!Generates
  <2> QED
    BY <1>2, <2>1, SoundMade DEF S!Generates
<1>3. ASSUME NEW m \in Names, S!Optimizes(p, n, m) PROVE SoundInv'
  <2>1. op' = OpOf("made", p, <<>>, {m}, {}, {}, {n, m})
    BY <1>3, WrittenMade, Zenon DEF S!Optimizes
  <2> QED
    <3>1. {n, m} \in SUBSET Names /\ m \in {n, m}
      OBVIOUS
    <3> QED
      BY <1>3, <2>1, <3>1, SoundMade DEF S!Optimizes
<1> QED
  BY <1>2, <1>3

LEMMA SoundProtects ==
    ASSUME SoundInv, S!ProtectDraft
    PROVE  SoundInv'
<1>1. /\ op.at = "made" /\ op' = S!Idle
      /\ page' = [page EXCEPT ![op.page] = @ \cup op.gone]
      /\ drafts' = [drafts EXCEPT ![op.page] = @ \cup op.protected]
      /\ owned' = [owned EXCEPT ![op.page] = @ \cup op.gone]
      /\ UNCHANGED <<disk, saved, runtime, journal, preview, made, runs, byHand>>
  BY DEF S!ProtectDraft
<1>2. op.page \in OpenPages /\ op.gone \subseteq op.protected
  BY <1>1 DEF SoundInv, OperationInv
<1>3. SoundTypes'
  <2>1. /\ page' \in [OpenPages -> SUBSET Names] /\ drafts' \in [OpenPages -> SUBSET Names]
        /\ owned' \in [OpenPages -> SUBSET Names]
    BY <1>1, <1>2, SoundFields
  <2>2. \A p \in OpenPages : owned'[p] \subseteq drafts'[p]
    BY <1>1, <1>2, SoundFields
  <2> QED
    BY <1>1, <2>1, <2>2, SoundFields, SoundTypesKept, IdleOp
<1>4. OperationInv'
  BY <1>1, IdleOp DEF OperationInv
<1>5. HandInv'
  <2>1. \A n \in Names : Generated(n)' => Generated(n)
    BY <1>1, <1>2, SoundFields, IdleOp DEF Generated
  <2> QED
    BY <1>1, <2>1 DEF SoundInv, HandInv
<1> QED
  BY <1>3, <1>4, <1>5 DEF SoundInv

LEMMA SoundCopied ==
    ASSUME SoundInv, NEW n \in Names, S!Copies(n)
    PROVE  SoundInv'
<1>1. /\ S!Makes(n) /\ byHand' = byHand \cup {made'}
      /\ UNCHANGED <<saved, runtime, page, drafts, owned, journal, op, preview, runs>>
  BY DEF S!Copies
<1>2. ~Generated(n)
  BY DEF S!Copies, Generated
<1>3. \A m \in Names : Generated(m)' = Generated(m)
  BY <1>1 DEF Generated
<1>4. SoundTypes'
  <2>1. byHand' \subseteq 1 .. made'
    BY <1>1, SoundMakes, SoundFields
  <2> QED
    BY <1>1, <2>1, SoundMakes, SoundFields, SoundTypesKept
<1>5. OperationInv'
  BY <1>1 DEF SoundInv, OperationInv, Wanted
<1>6. HandInv'
  BY <1>1, <1>2, <1>3, SoundMakes, SoundFields DEF SoundInv, HandInv
<1> QED
  BY <1>4, <1>5, <1>6 DEF SoundInv

\* What the page keeps of its entries is there already, made by it or copied by hand.
LEMMA CandidatesAreGenerated ==
    ASSUME SoundInv, NEW p \in OpenPages, NEW new \in S!Candidates(p)
    PROVE  /\ new \in [Names -> S!Uses]
           /\ \A n \in Names : new[n] = "managed" => Generated(n)
BY DEF S!Candidates, Generated

LEMMA SoundPrepares ==
    ASSUME SoundInv, NEW p \in OpenPages, NEW new \in S!Candidates(p),
           NEW gone \in SUBSET page[p], S!PrepareSave(p, new, gone)
    PROVE  SoundInv'
<1> DEFINE retired == S!Retired(p, new, gone) \ S!Known
<1>1. /\ journal' = journal \cup S!Recorded(retired) /\ S!Free
      /\ op' = [S!Idle EXCEPT !.at = "prepared", !.page = p, !.new = new, !.gone = gone]
      /\ UNCHANGED <<disk, saved, runtime, page, drafts, owned, preview, made, runs, byHand>>
  BY DEF S!PrepareSave
<1>2. op' = OpOf("prepared", p, new, gone, {}, {}, {})
  BY <1>1, WrittenPrepared, Zenon
<1>3. gone \in SUBSET Names /\ new \in [Names -> S!Uses]
  BY SoundFields, CandidatesAreGenerated
<1>4. /\ op' \in Operations /\ op'.at = "prepared" /\ op'.page = p /\ op'.new = new
      /\ op'.left = {} /\ op'.stay = {}
  BY <1>2, <1>3, OpFields
<1>5. \A n \in retired : n \in Names /\ Generated(n)
  <2>1. \A n \in retired : n \in Names /\ (saved[n] = "managed" \/ n \in owned[p])
    BY <1>3 DEF S!Retired, S!Managed
  <2> QED
    BY <2>1 DEF Generated
<1>6. \A r \in S!Recorded(retired) :
         /\ r \in S!Records /\ r.name \in retired /\ r.id = disk[r.name]
         /\ r.id \in 1 .. made /\ r.id \notin byHand
  <2> SUFFICES ASSUME NEW n \in retired, disk[n] # 0
               PROVE  LET r == S!Record(n)
                      IN  /\ r \in S!Records /\ r.name = n /\ r.id = disk[n]
                          /\ r.id \in 1 .. made /\ r.id \notin byHand
    BY DEF S!Recorded, S!Record
  <2>1. n \in Names /\ disk[n] \notin byHand
    BY <1>5 DEF SoundInv, HandInv
  <2>2. disk[n] \in 1 .. made /\ disk[n] \in 1 .. MaxMade
    BY <2>1, SoundFields
  <2>3. S!Record(n) \in S!Records /\ S!Record(n).name = n /\ S!Record(n).id = disk[n]
    BY <2>1, <2>2 DEF S!Record, S!Records
  <2> QED
    BY <2>1, <2>2, <2>3
<1>7. \A r, s \in journal' : r.name = s.name => r = s
  <2>1. \A r, s \in S!Recorded(retired) : r.name = s.name => r = s
    BY DEF S!Recorded, S!Record
  <2>2. \A r \in journal, s \in S!Recorded(retired) : r.name # s.name
    BY <1>6 DEF S!Known
  <2> QED
    BY <1>1, <2>1, <2>2, SoundFields
<1> HIDE DEF retired
<1>8. SoundTypes'
  <2>1. journal' \subseteq S!Records
    BY <1>1, <1>6, SoundFields
  <2> QED
    BY <1>1, <1>4, <1>7, <2>1, SoundFields, SoundTypesKept
<1>9. OperationInv'
  BY <1>3, <1>4 DEF OperationInv
<1>10. HandInv'
  <2>1. \A n \in Names : Generated(n)' => Generated(n)
    BY <1>1, <1>4, CandidatesAreGenerated DEF Generated
  <2>2. \A n \in Names : Generated(n)' => disk'[n] \notin byHand'
    BY <1>1, <2>1 DEF SoundInv, HandInv
  <2>3. \A r \in journal' : r.id \in 1 .. made' /\ r.id \notin byHand'
    BY <1>1, <1>6, SoundFields
  <2> QED
    BY <2>2, <2>3 DEF HandInv
<1> QED
  BY <1>8, <1>9, <1>10 DEF SoundInv

\* Steps behind which nobody has the lock.
LEMMA SoundReleases ==
    ASSUME SoundInv, NEW p \in OpenPages, NEW new \in [Names -> S!Uses],
           \A n \in Names : new[n] = "managed" => Generated(n),
           NEW names \in SUBSET Names,
           saved' = new, page' = [page EXCEPT ![p] = @ \ names],
           op' = S!Idle, runs' \in 0 .. MaxRuns,
           UNCHANGED <<disk, runtime, drafts, owned, journal, preview, made, byHand>>
    PROVE  SoundInv'
<1>1. /\ page' \in [OpenPages -> SUBSET Names]
      /\ \A q \in OpenPages : page'[q] \subseteq page[q]
  BY SoundFields
<1>2. SoundTypes'
  BY <1>1, SoundFields, SoundTypesKept, IdleOp
<1>3. OperationInv'
  BY IdleOp DEF OperationInv
<1>4. HandInv'
  <2>1. \A n \in Names : Generated(n)' => Generated(n)
    BY <1>1, IdleOp DEF Generated
  <2> QED
    BY <2>1 DEF SoundInv, HandInv
<1> QED
  BY <1>2, <1>3, <1>4 DEF SoundInv
LEMMA SoundFails ==
    ASSUME SoundInv,
           \/ \E p \in OpenPages : \E new \in S!Candidates(p) : S!PrepareFails(p, new)
           \/ S!SaveFails
    PROVE  SoundInv'
<1>1. S!Fault => runs' \in 0 .. MaxRuns
  BY SoundFields DEF S!Fault
<1>2. ASSUME NEW p \in OpenPages, NEW new \in S!Candidates(p), S!PrepareFails(p, new)
      PROVE  SoundInv'
  <2>1. /\ saved' = new /\ page' = [page EXCEPT ![p] = @ \ S!Named(new)]
        /\ S!Fault /\ op' = S!Idle
        /\ UNCHANGED <<disk, runtime, drafts, owned, journal, preview, made, byHand>>
    BY <1>2 DEF S!PrepareFails, S!Free
  <2>2. S!Named(new) \in SUBSET Names
    BY DEF S!Named
  <2> QED
    BY <1>1, <2>1, <2>2, CandidatesAreGenerated, SoundReleases
<1>3. ASSUME S!SaveFails PROVE SoundInv'
  <2>1. /\ S!Fault /\ op' = S!Idle
        /\ UNCHANGED <<disk, saved, runtime, page, drafts, owned, journal, preview, made, byHand>>
    BY <1>3 DEF S!SaveFails
  <2>2. SoundTypes'
    BY <1>1, <2>1, SoundFields, SoundTypesKept, IdleOp
  <2>3. OperationInv'
    BY <2>1, IdleOp DEF OperationInv
  <2>4. HandInv'
    <3>1. \A n \in Names : Generated(n)' => Generated(n)
      BY <2>1, IdleOp DEF Generated
    <3> QED
      BY <2>1, <3>1 DEF SoundInv, HandInv
  <2> QED
    BY <2>2, <2>3, <2>4 DEF SoundInv
<1> QED
  BY <1>2, <1>3

\* A cleanup begins with the journal and with what is protected then.
LEMMA SoundSaves ==
    ASSUME SoundInv, S!Saves
    PROVE  SoundInv'
<1> DEFINE released == S!Named(op.new) \cup op.gone
           kept == [drafts EXCEPT ![op.page] = @ \ released]
           protected == S!Protected(op.new, kept)
<1>1. /\ op.at = "prepared" /\ saved' = op.new /\ drafts' = kept
      /\ owned' = [owned EXCEPT ![op.page] = @ \ released]
      /\ page' = [page EXCEPT ![op.page] = @ \ released]
      /\ op' = [S!Idle EXCEPT !.at = "clean", !.left = journal, !.protected = protected]
      /\ UNCHANGED <<disk, runtime, journal, preview, made, runs, byHand>>
  BY DEF S!Saves, S!Cleans
<1>2. op' = OpOf("clean", "none", <<>>, {}, journal, {}, protected)
  BY <1>1, WrittenClean, Zenon
<1>3. op.page \in OpenPages /\ op.new \in [Names -> S!Uses]
  BY <1>1 DEF SoundInv, OperationInv
<1> HIDE DEF released
<1>4. /\ kept \in [OpenPages -> SUBSET Names]
      /\ page' \in [OpenPages -> SUBSET Names] /\ owned' \in [OpenPages -> SUBSET Names]
      /\ \A p \in OpenPages : page'[p] \subseteq page[p] /\ owned'[p] \subseteq owned[p]
      /\ \A p \in OpenPages : owned'[p] \subseteq kept[p]
  BY <1>1, <1>3, SoundFields
<1> HIDE DEF kept
<1>5. protected \in SUBSET Names
  BY <1>4 DEF S!Protected, S!Named
<1>6. \A n \in Names : Wanted(n)' => n \in protected
  BY <1>1 DEF Wanted, S!Protected, S!Named
<1> HIDE DEF protected
<1>7. /\ op' \in Operations /\ op'.at = "clean" /\ op'.left = journal /\ op'.stay = {}
      /\ op'.protected = protected
  <2>1. journal \in SUBSET S!Records
    BY SoundFields
  <2> QED
    BY <1>2, <1>5, <2>1, OpFields
<1>8. SoundTypes'
  BY <1>1, <1>3, <1>4, <1>7, SoundFields, SoundTypesKept
<1>9. OperationInv'
  BY <1>1, <1>6, <1>7 DEF OperationInv
<1>10. HandInv'
  <2>1. \A n \in Names : Generated(n)' => Generated(n)
    BY <1>1, <1>4, <1>7 DEF Generated
  <2> QED
    BY <1>1, <2>1 DEF SoundInv, HandInv
<1> QED
  BY <1>8, <1>9, <1>10 DEF SoundInv
LEMMA SoundRestarts ==
    ASSUME SoundInv, S!Restarts
    PROVE  SoundInv'
<1>1. /\ S!Fault /\ runtime' = saved
      /\ drafts' = [p \in OpenPages |-> {}] /\ owned' = drafts'
      /\ op' = [S!Idle EXCEPT !.at = "clean", !.left = journal, !.protected = S!Named(saved)]
      /\ UNCHANGED <<disk, saved, page, journal, preview, made, byHand>>
  BY DEF S!Restarts
<1>2. op' = OpOf("clean", "none", <<>>, {}, journal, {}, S!Named(saved))
  BY <1>1, WrittenClean, Zenon
<1>3. /\ op' \in Operations /\ op'.at = "clean" /\ op'.left = journal /\ op'.stay = {}
      /\ op'.protected = S!Named(saved)
  <2>1. S!Named(saved) \in SUBSET Names /\ journal \in SUBSET S!Records
    BY SoundFields DEF S!Named
  <2> QED
    BY <1>2, <2>1, OpFields
<1>4. SoundTypes'
  <2>1. runs' \in 0 .. MaxRuns
    BY <1>1, SoundFields DEF S!Fault
  <2> QED
    BY <1>1, <1>3, <2>1, SoundFields, SoundTypesKept
<1>5. OperationInv'
  BY <1>1, <1>3 DEF OperationInv, Wanted, S!Named
<1>6. HandInv'
  <2>1. \A n \in Names : Generated(n)' => Generated(n)
    BY <1>1, <1>3 DEF Generated
  <2> QED
    BY <1>1, <2>1 DEF SoundInv, HandInv
<1> QED
  BY <1>4, <1>5, <1>6 DEF SoundInv

\* One record of the journal, or of what is unused, is handled.
LEMMA SoundCleans ==
    ASSUME SoundInv, NEW r \in op.left, S!Cleanup(r)
    PROVE  /\ SoundInv'
           /\ \A n \in Names : S!Deleted(n) =>
                 /\ n \notin S!Named(saved) \cup S!Named(runtime)
                 /\ \A p \in OpenPages : n \notin drafts[p]
                 /\ disk[n] \in byHand => op.at = "sweep"
<1>1. /\ op.at \in {"clean", "sweep"}
      /\ UNCHANGED <<saved, runtime, page, drafts, owned, journal, preview, made, byHand>>
      /\ \/ disk' = disk
         \/ /\ r.name \notin op.protected /\ disk[r.name] = r.id
            /\ disk' = [disk EXCEPT ![r.name] = 0]
  BY DEF S!Cleanup, S!Same, S!Unlinks
<1>2. r \in S!Records /\ r.name \in Names
  BY SoundFields DEF S!Records
<1>3. PICK stay \in {{}, {r}} :
        op' = [op EXCEPT !.left = op.left \ {r}, !.stay = op.stay \cup stay]
  BY DEF S!Cleanup, S!Handled
<1>4. op \in Operations
  BY SoundFields
<1>5. op' = OpOf(op.at, op.page, op.new, op.gone, op.left \ {r}, op.stay \cup stay, op.protected)
  BY <1>3, <1>4, WrittenHandled, Zenon
<1>6. /\ op' \in Operations /\ op'.at = op.at /\ op'.page = op.page /\ op'.new = op.new
      /\ op'.gone = op.gone /\ op'.left = op.left \ {r} /\ op'.stay = op.stay \cup stay
      /\ op'.protected = op.protected
  <2>1. /\ op.at \in {"idle", "made", "prepared", "clean", "sweep"}
        /\ op.page \in OpenPages \cup {"none"} /\ op.new \in {<<>>} \cup [Names -> S!Uses]
        /\ op.gone \in SUBSET Names /\ op.left \ {r} \in SUBSET S!Records
        /\ op.stay \cup stay \in SUBSET S!Records /\ op.protected \in SUBSET Names
    BY <1>2, <1>4 DEF Operations
  <2> QED
    BY <1>5, <2>1, OpFields
<1>7. /\ disk' \in [Names -> 0 .. made'] /\ runs' \in 0 .. MaxRuns
      /\ \A n \in Names : disk'[n] \in {disk[n], 0}
  <2>1. runs' \in 0 .. MaxRuns
    BY SoundFields DEF S!Cleanup, S!Fault
  <2> QED
    BY <1>1, <1>2, <2>1, SoundFields
<1>8. SoundTypes'
  BY <1>1, <1>6, <1>7, SoundFields, SoundTypesKept
<1>9. OperationInv'
  <2>1. \A n \in Names : Wanted(n)' = Wanted(n)
    BY <1>1 DEF Wanted
  <2> QED
    BY <1>1, <1>6, <2>1, SoundFields DEF SoundInv, OperationInv, S!Records
<1>10. HandInv'
  <2>1. \A n \in Names : Generated(n)' => Generated(n)
    BY <1>1, <1>6 DEF Generated
  <2>2. 0 \notin byHand
    BY SoundFields
  <2> QED
    BY <1>1, <1>7, <2>1, <2>2 DEF SoundInv, HandInv
<1>11. ASSUME NEW n \in Names, S!Deleted(n)
       PROVE  ~Wanted(n) /\ (disk[n] \in byHand => op.at = "sweep")
  <2>1. n = r.name /\ r.name \notin op.protected /\ disk[n] = r.id
    BY <1>1, <1>2, <1>11, SoundFields DEF S!Deleted
  <2>2. CASE op.at = "clean"
    BY <2>1, <2>2, SoundFields DEF SoundInv, OperationInv
  <2>3. CASE op.at = "sweep"
    BY <2>1, <2>3 DEF SoundInv, OperationInv
  <2> QED
    BY <1>1, <2>2, <2>3
<1> QED
  BY <1>8, <1>9, <1>10, <1>11 DEF SoundInv, Wanted, S!Named

LEMMA SoundCleaned ==
    ASSUME SoundInv, S!Cleaned
    PROVE  SoundInv'
<1>1. /\ op' = S!Idle /\ journal' = IF op.at = "clean" THEN op.stay ELSE journal
      /\ UNCHANGED <<disk, saved, runtime, page, drafts, owned, preview, made, runs, byHand>>
  BY DEF S!Cleaned
<1>2. journal' \subseteq journal
  BY <1>1 DEF SoundInv, OperationInv
<1>3. SoundTypes'
  BY <1>1, <1>2, SoundFields, SoundTypesKept, IdleOp
<1>4. OperationInv'
  BY <1>1, IdleOp DEF OperationInv
<1>5. HandInv'
  <2>1. \A n \in Names : Generated(n)' => Generated(n)
    BY <1>1, IdleOp DEF Generated
  <2> QED
    BY <1>1, <1>2, <2>1 DEF SoundInv, HandInv
<1> QED
  BY <1>3, <1>4, <1>5 DEF SoundInv

LEMMA UnusedIsUnwanted ==
    ASSUME SoundInv
    PROVE  S!Unused \subseteq S!Records /\ \A r \in S!Unused : ~Wanted(r.name)
<1> SUFFICES ASSUME NEW n \in Names, n \notin S!Protected(saved, drafts), disk[n] # 0
             PROVE  S!Record(n) \in S!Records /\ ~Wanted(S!Record(n).name)
  BY DEF S!Unused, S!Recorded
<1>1. disk[n] \in 1 .. MaxMade
  BY SoundFields
<1>2. S!Record(n) \in S!Records /\ S!Record(n).name = n
  BY <1>1 DEF S!Record, S!Records
<1>3. ~Wanted(n)
  BY DEF Wanted, S!Protected, S!Named
<1> QED
  BY <1>2, <1>3
LEMMA SoundShows ==
    ASSUME SoundInv, NEW p \in OpenPages, S!Previews(p) \/ S!Sweeps(p)
    PROVE  SoundInv'
<1>1. ASSUME NEW shown, shown = {S!NotShown} \/ shown \subseteq S!Records,
             preview' = [preview EXCEPT ![p] = shown],
             op' \in Operations,
             UNCHANGED <<disk, saved, runtime, page, drafts, owned, journal, made, runs, byHand>>
      PROVE  SoundTypes'
  BY <1>1, SoundFields, SoundTypesKept
<1>2. ASSUME S!Previews(p) PROVE SoundInv'
  <2>1. /\ preview' = [preview EXCEPT ![p] = S!Unused]
        /\ UNCHANGED <<disk, saved, runtime, page, drafts, owned, journal, op, made, runs, byHand>>
    BY <1>2 DEF S!Previews
  <2>2. SoundTypes'
    BY <1>1, <2>1, SoundFields, UnusedIsUnwanted
  <2>3. OperationInv'
    BY <2>1 DEF SoundInv, OperationInv, Wanted
  <2>4. HandInv'
    BY <2>1 DEF SoundInv, HandInv, Generated
  <2> QED
    BY <2>2, <2>3, <2>4 DEF SoundInv
<1>3. ASSUME S!Sweeps(p) PROVE SoundInv'
  <2>1. /\ preview' = [preview EXCEPT ![p] = {S!NotShown}]
        /\ op' = [S!Idle EXCEPT !.at = "sweep", !.left = S!Unused]
        /\ UNCHANGED <<disk, saved, runtime, page, drafts, owned, journal, made, runs, byHand>>
    BY <1>3 DEF S!Sweeps
  <2>2. op' = OpOf("sweep", "none", <<>>, {}, S!Unused, {}, {})
    BY <2>1, WrittenSweep, Zenon
  <2>3. op' \in Operations /\ op'.at = "sweep" /\ op'.left = S!Unused
    <3>1. S!Unused \in SUBSET S!Records
      BY UnusedIsUnwanted
    <3> QED
      BY <2>2, <3>1, OpFields
  <2>4. SoundTypes'
    BY <1>1, <2>1, <2>3
  <2>5. OperationInv'
    BY <2>1, <2>3, UnusedIsUnwanted DEF OperationInv, Wanted
  <2>6. HandInv'
    <3>1. \A n \in Names : Generated(n)' => Generated(n)
      BY <2>1, <2>3 DEF Generated
    <3> QED
      BY <2>1, <3>1 DEF SoundInv, HandInv
  <2> QED
    BY <2>4, <2>5, <2>6 DEF SoundInv
<1> QED
  BY <1>2, <1>3

LEMMA SoundFrame ==
    ASSUME SoundInv, UNCHANGED soundVars
    PROVE  SoundInv'
<1>1. UNCHANGED <<disk, saved, runtime, page, drafts, owned, journal, op, preview, made, runs,
                  byHand>>
  BY DEF soundVars
<1>2. SoundTypes'
  BY <1>1, SoundFields, SoundTypesKept
<1>3. OperationInv' /\ HandInv'
  BY <1>1 DEF SoundInv, OperationInv, HandInv, Wanted, Generated
<1> QED
  BY <1>2, <1>3 DEF SoundInv

LEMMA SoundStep ==
    ASSUME SoundInv, [SafetyNext]_allVars
    PROVE  SoundInv'
<1>1. S!Next \/ UNCHANGED soundVars
  BY PartSteps
<1>2. ASSUME NEW p \in OpenPages, NEW n \in Names,
             S!Generates(p, n) \/ \E m \in Names : S!Optimizes(p, n, m)
      PROVE  SoundInv'
  BY <1>2, SoundGenerates
<1>3. ASSUME NEW p \in OpenPages, NEW new \in S!Candidates(p),
             S!PrepareFails(p, new) \/ \E gone \in SUBSET page[p] : S!PrepareSave(p, new, gone)
      PROVE  SoundInv'
  BY <1>3, SoundFails, SoundPrepares
<1>4. ASSUME NEW p \in OpenPages, S!Previews(p) \/ S!Sweeps(p) PROVE SoundInv'
  BY <1>4, SoundShows
<1>5. ASSUME NEW n \in Names, S!Copies(n) PROVE SoundInv'
  BY <1>5, SoundCopied
<1>6. ASSUME NEW r \in op.left, S!Cleanup(r) PROVE SoundInv'
  BY <1>6, SoundCleans
<1>7. ASSUME S!ProtectDraft \/ S!Saves \/ S!SaveFails \/ S!Cleaned \/ S!Restarts PROVE SoundInv'
  BY <1>7, SoundProtects, SoundSaves, SoundFails, SoundCleaned, SoundRestarts
<1> QED
  BY <1>1, <1>2, <1>3, <1>4, <1>5, <1>6, <1>7, SoundFrame DEF S!Next

\* Only a cleanup deletes.
LEMMA SoundDeletes ==
    ASSUME SoundInv, [SafetyNext]_allVars
    PROVE  \A n \in Names : S!Deleted(n) =>
              /\ n \notin S!Named(saved) \cup S!Named(runtime)
              /\ \A p \in OpenPages : n \notin drafts[p]
              /\ disk[n] \in byHand => op.at = "sweep"
<1> DEFINE Goal == \A n \in Names : S!Deleted(n) =>
              /\ n \notin S!Named(saved) \cup S!Named(runtime)
              /\ \A p \in OpenPages : n \notin drafts[p]
              /\ disk[n] \in byHand => op.at = "sweep"
<1> SUFFICES Goal
  OBVIOUS
<1>1. S!Next \/ UNCHANGED soundVars
  BY PartSteps
<1>2. ASSUME NEW m \in Names, S!Makes(m) PROVE Goal
  <2>1. \A n \in Names : ~S!Deleted(n)
    <3>1. made \in Nat /\ made' = made + 1 /\ disk'[m] = made'
      BY <1>2, SoundFields, SoundMakes
    <3>2. \A n \in Names \ {m} : disk'[n] = disk[n]
      BY <1>2, SoundMakes
    <3> QED
      BY <3>1, <3>2 DEF S!Deleted
  <2> QED
    BY <2>1
<1>3. ASSUME disk' = disk PROVE Goal
  BY <1>3 DEF S!Deleted
<1>4. ASSUME NEW r \in op.left, S!Cleanup(r) PROVE Goal
  BY <1>4, SoundCleans
<1>5. \/ \E m \in Names : S!Makes(m)
      \/ disk' = disk
      \/ \E r \in op.left : S!Cleanup(r)
  <2>1. CASE UNCHANGED soundVars
    BY <2>1 DEF soundVars
  <2>2. CASE S!Next
    BY <2>2 DEF S!Next, S!Generates, S!Optimizes, S!PrepareFails, S!PrepareSave, S!Previews,
                S!Sweeps, S!Copies, S!ProtectDraft, S!Saves, S!SaveFails, S!Cleaned, S!Restarts
  <2> QED
    BY <1>1, <2>1, <2>2
<1> HIDE DEF Goal
<1> QED
  BY <1>2, <1>3, <1>4, <1>5

\* No audio file is deleted that the saved or the running configuration or a page's
\* draft names; and one that was copied by hand only by whoever has seen it in the
\* list of what is unused (core/soundbank_cleanup.py), for any number of names,
\* pages, files, restarts and faults.
THEOREM AudioIsKept == SafetySpec => AudioKept
<1>1. SafetyInit => SoundInv
  BY SoundBegins
<1>2. SoundInv /\ [SafetyNext]_allVars => SoundInv'
  BY SoundStep
<1>3. SoundInv => (part = "sound" => S!TypeOK)
  BY DEF SoundInv, SoundTypes
<1>4. SoundInv /\ [SafetyNext]_allVars =>
        [\A n \in Names : S!Deleted(n) =>
            /\ n \notin S!Named(saved) \cup S!Named(runtime)
            /\ \A p \in OpenPages : n \notin drafts[p]
            /\ disk[n] \in byHand => op.at = "sweep"]_(S!vars)
  BY SoundDeletes
<1>5. SafetySpec => []SoundInv
  BY <1>1, <1>2, PTL DEF SafetySpec, allVars
<1>6. SafetySpec => S!AudioKept
  BY <1>4, <1>5, PTL DEF SafetySpec, allVars, S!AudioKept
<1> QED
  BY <1>3, <1>5, <1>6, PTL DEF AudioKept

-----------------------------------------------------------------------------
(* TTSSegment: one segment at the workers.                                 *)

SegmentPlaces == {"idle", "reserve", "lock", "probe", "pick", "admit", "refuse", "fetch",
                  "poll", "release", "done"}
Asking == {"probe", "pick", "admit", "refuse"}
Holding == {"fetch", "poll", "release"}
Owning == {"admit", "refuse"} \cup Holding
Requests == [op : {"admit", "poll", "cancel"}, off : 0 .. Chunks]
AnswerOps == {None, "admit", "poll", "cancel"}
AnswerStates == {None, "admitted", "pending", "audio", "released", "error"}
JobPhases == {None, "new", "native", "ready", "error", "join"}

CoreTypes ==
    /\ home \in [Segments -> Pools] /\ at \in [Segments -> SegmentPlaces]
    /\ result \in [Segments -> {None, "ok", "failed", "cancelled"}]
    /\ excluded \in [Segments -> SUBSET Workers] /\ cand \in [Segments -> SUBSET Workers]
    /\ own \in [Segments -> Attempts \cup {NoAttempt}] /\ got \in [Segments -> 0 .. Chunks - 1]
    /\ then \in [Segments -> {None, "ok", "retry", "cancel"}]
    /\ lock \in [Pools -> Segments \cup {None}] /\ reserved \in [Pools -> SUBSET Workers]
TimeTypes ==
    /\ expired \subseteq Segments /\ lost \subseteq Segments /\ broken \subseteq Segments
    /\ up \in [Pools -> BOOLEAN] /\ faults \in 0 .. MaxFaults
NetTypes ==
    /\ wire \in [Attempts -> Seq(Requests)]
    /\ answer \in [Attempts -> [op : AnswerOps, state : AnswerStates]]
WorkerTypes ==
    /\ job \in [Workers -> Attempts \cup {NoAttempt}] /\ phase \in [Workers -> JobPhases]
    /\ offset \in [Workers -> 0 .. Chunks] /\ native \in [Workers -> BOOLEAN]
    /\ cancel \subseteq Workers /\ stopping \subseteq Workers
SegmentTypes == CoreTypes /\ TimeTypes /\ NetTypes /\ WorkerTypes

\* A segment owns an attempt of its own from the request for it until its release.
OwnerInv ==
    \A s \in Segments :
        /\ IF at[s] \in Owning THEN own[s] \in Attempts /\ own[s].seg = s ELSE own[s] = NoAttempt
        /\ at[s] \notin {"fetch", "poll"} => got[s] = 0
\* Whoever has the lock asks nodes that are free, and a node is reserved while held.
HolderInv ==
    /\ LockOwned /\ ReservedByHolders
    /\ \A s \in Segments : at[s] \in Asking => cand[s] \cap reserved[home[s]] = {}
    /\ \A s \in Segments : at[s] \in {"admit", "refuse"} => Node(s) \in cand[s]
\* A slot that is taken has a job in some phase; only such a job can be cancelled.
EngineInv ==
    /\ OneNative
    /\ \A w \in Workers : /\ phase[w] = None <=> job[w] = NoAttempt
                          /\ w \in cancel => job[w] # NoAttempt

\* The job of an attempt goes on, and has given so many chunks.
Serves(a, n) ==
    /\ job[a.node] = a /\ a.node \notin cancel /\ offset[a.node] = n
    /\ phase[a.node] \in {"new", "native", "ready"} /\ (n > 0 => phase[a.node] = "ready")
Talks(a, requests, to, states) ==
    wire[a] = requests /\ answer[a].op = to /\ answer[a].state \in states
\* Core and worker agree on where an attempt is, one message apart.
Agrees(s, a) ==
    /\ at[s] = "admit" =>
          \/ Talks(a, <<Asks("admit", 0)>>, None, {None})
          \/ Talks(a, << >>, "admit", {"error"})
          \/ Talks(a, << >>, "admit", {"admitted"}) /\ Serves(a, 0)
    /\ at[s] = "fetch" => Talks(a, << >>, None, {None}) /\ Serves(a, got[s])
    /\ at[s] = "poll" =>
          \/ Talks(a, <<Asks("poll", got[s])>>, None, {None}) /\ Serves(a, got[s])
          \/ Talks(a, << >>, "poll", {"pending"}) /\ Serves(a, 0) /\ got[s] = 0
          \/ Talks(a, << >>, "poll", {"audio"}) /\ Serves(a, got[s] + 1)
\* As long as nothing goes wrong.
CalmInv ==
    faults = 0 =>
        /\ lost = {} /\ broken = {} /\ \A p \in Pools : up[p]
        /\ \A s \in Segments : s \notin expired => excluded[s] = {} /\ Agrees(s, own[s])
SegmentInv == SegmentTypes /\ OwnerInv /\ HolderInv /\ EngineInv /\ CalmInv

LEMMA SegmentValues ==
    /\ None = "none" /\ None \notin Segments \cup Workers
    /\ Chunks \in Nat /\ Chunks > 0 /\ MaxFaults \in Nat
    /\ NoAttempt \notin Attempts
    /\ \A a \in Attempts : a # NoAttempt /\ a.seg \in Segments /\ a.node \in Workers
    /\ \A o \in {"admit", "poll", "cancel"}, n \in 0 .. Chunks : Asks(o, n) \in Requests
    /\ Silent \in [op : AnswerOps, state : AnswerStates]
    /\ Silent.op = None /\ Silent.state = None
<1>1. NoAttempt \notin Attempts
  <2>1. None \notin Segments
    BY SegmentAssumption DEF None
  <2>2. \A a \in Attempts : a.seg \in Segments
    BY DEF Attempts
  <2>3. NoAttempt.seg = None
    BY DEF NoAttempt
  <2> QED
    BY <2>1, <2>2, <2>3
<1>2. \A a \in Attempts : a.seg \in Segments /\ a.node \in Workers
  BY DEF Attempts
<1>3. /\ Silent \in [op : AnswerOps, state : AnswerStates]
      /\ Silent.op = None /\ Silent.state = None
  BY DEF Silent, AnswerOps, AnswerStates, None
<1>4. \A o \in {"admit", "poll", "cancel"}, n \in 0 .. Chunks : Asks(o, n) \in Requests
  BY DEF Asks, Requests
<1> QED
  BY <1>1, <1>2, <1>3, <1>4, SegmentAssumption DEF None

\* What the helpers of the actions leave of the types.
LEMMA SendsTyped ==
    ASSUME NEW s, NEW a \in Attempts, NetTypes, SendsCancel(s, a)
    PROVE  NetTypes'
<1> USE DEF NetTypes
<1>1. Asks("cancel", 0) \in Requests
  BY SegmentValues
<1>2. Append(wire[a], Asks("cancel", 0)) \in Seq(Requests)
  BY <1>1
<1>3. wire' \in [Attempts -> Seq(Requests)]
  BY <1>2 DEF SendsCancel
<1>4. answer' \in [Attempts -> [op : AnswerOps, state : AnswerStates]]
  BY SegmentValues DEF SendsCancel
<1> QED
  BY <1>3, <1>4

LEMMA AnswersTyped ==
    ASSUME NEW a \in Attempts, NetTypes, wire[a] # << >>, wire' = [wire EXCEPT ![a] = Tail(@)],
           NEW o \in AnswerOps, NEW st \in AnswerStates, Answers(a, o, st)
    PROVE  NetTypes'
<1> USE DEF NetTypes
<1>1. Tail(wire[a]) \in Seq(Requests)
  OBVIOUS
<1>2. [op |-> o, state |-> st] \in [op : AnswerOps, state : AnswerStates]
  OBVIOUS
<1>3. answer' \in [Attempts -> [op : AnswerOps, state : AnswerStates]]
  BY <1>2, Zenon DEF Answers
<1> QED
  BY <1>1, <1>3


LEMMA CoreFrame ==
    ASSUME NEW s \in Segments, CoreStep(s) \/ Cancelled(s)
    PROVE  /\ UNCHANGED <<workerVars, home, expired, lost, up>>
           /\ broken' = broken \/ broken' = broken \ {s}
           /\ UNCHANGED faults \/ Fault
<1> USE DEF coreVars, timeVars, netVars, workerVars, Goes, GoesOn, Done, Tried, Unlock
<1>1. CASE Generate(s) \/ Reserve(s) \/ TakeLock(s)
  BY <1>1 DEF Generate, Reserve, TakeLock
<1>2. CASE Probed(s) \/ Pick(s)
  BY <1>2 DEF Probed, Pick
<1>3. CASE AdmitReturns(s) \/ Refused(s)
  BY <1>3 DEF AdmitReturns, Refused, TimesOut, Answered
<1>4. CASE Fetch(s) \/ PollReturns(s)
  BY <1>4 DEF Fetch, PollReturns, TimesOut, Answered
<1>5. CASE Released(s) \/ Cancelled(s)
  BY <1>5 DEF Released, Cancelled, TimesOut, Answered
<1> QED
  BY <1>1, <1>2, <1>3, <1>4, <1>5 DEF CoreStep

LEMMA CoreTyped ==
    ASSUME CoreTypes, OwnerInv, NEW s \in Segments, CoreStep(s) \/ Cancelled(s)
    PROVE  CoreTypes'
<1>0. Chunks \in Nat /\ Chunks > 0
  BY SegmentValues
<1>h. UNCHANGED home
  BY CoreFrame
<1> USE <1>0, <1>h DEF CoreTypes, coreVars, Goes, GoesOn, Done, Tried, Unlock, Pool, SegmentPlaces
<1>1. CASE Generate(s)
  BY <1>1 DEF Generate
<1>2. CASE Reserve(s)
  BY <1>2 DEF Reserve
<1>3. CASE TakeLock(s)
  BY <1>3 DEF TakeLock
<1>4. CASE Probed(s)
  BY <1>4 DEF Probed
<1>5. CASE Pick(s)
  BY <1>5 DEF Pick
<1>6. CASE AdmitReturns(s)
  <2>1. Node(s) \in Workers
    BY <1>6, SegmentValues DEF AdmitReturns, OwnerInv, Owning, Holding, Node
  <2> QED
    BY <1>6, <2>1 DEF AdmitReturns
<1>7. CASE Refused(s)
  BY <1>7 DEF Refused
<1>8. CASE Fetch(s)
  <2>1. Node(s) \in Workers
    BY <1>8, SegmentValues DEF Fetch, OwnerInv, Owning, Holding, Node
  <2>2. CASE AttemptLive(s)
    BY <1>8, <2>2 DEF Fetch
  <2>3. CASE ~AttemptLive(s)
    BY <1>8, <2>1, <2>3 DEF Fetch, GivesBack
  <2> QED
    BY <2>2, <2>3
<1>9. CASE PollReturns(s)
  <2>1. Node(s) \in Workers
    BY <1>9, SegmentValues DEF PollReturns, OwnerInv, Owning, Holding, Node
  <2> QED
    BY <1>9, <2>1 DEF PollReturns, GivesBack
<1>10. CASE Released(s)
  BY <1>10 DEF Released, FreesNode
<1>11. CASE Cancelled(s)
  BY <1>11 DEF Cancelled, GivesBack, FreesNode
<1> QED
  BY <1>1, <1>2, <1>3, <1>4, <1>5, <1>6, <1>7, <1>8, <1>9, <1>10, <1>11 DEF CoreStep

LEMMA CoreTalksTyped ==
    ASSUME CoreTypes, NetTypes, OwnerInv, NEW s \in Segments, CoreStep(s) \/ Cancelled(s)
    PROVE  NetTypes'
<1> USE DEF netVars
<1>1. CASE UNCHANGED netVars
  BY <1>1 DEF NetTypes
<1>2. \A a \in Attempts : SendsCancel(s, a) => NetTypes'
  BY SendsTyped
<1>3. at[s] \in Owning => own[s] \in Attempts
  BY DEF OwnerInv
<1>4. ASSUME own[s] \in Attempts, UNCHANGED wire, answer' = [answer EXCEPT ![own[s]] = Silent]
      PROVE  NetTypes'
  BY <1>4, SegmentValues DEF NetTypes
<1>5. CASE Pick(s)
  <2>1. ASSUME NEW a \in Attempts, wire' = [wire EXCEPT ![a] = <<Asks("admit", 0)>>],
               answer' = [answer EXCEPT ![a] = Silent]
        PROVE  NetTypes'
    <3>1. <<Asks("admit", 0)>> \in Seq(Requests)
      BY SegmentValues
    <3> QED
      BY <2>1, <3>1, SegmentValues DEF NetTypes
  <2> QED
    BY <1>1, <1>2, <1>5, <2>1 DEF Pick
<1>6. CASE AdmitReturns(s)
  BY <1>2, <1>3, <1>4, <1>6 DEF AdmitReturns, Owning
<1>7. CASE Fetch(s)
  <2>1. ASSUME own[s] \in Attempts, got[s] \in 0 .. Chunks, UNCHANGED answer,
               wire' = [wire EXCEPT ![own[s]] = Append(@, Asks("poll", got[s]))]
        PROVE  NetTypes'
    <3>1. Asks("poll", got[s]) \in Requests
      BY <2>1, SegmentValues
    <3> QED
      BY <2>1, <3>1 DEF NetTypes
  <2>2. got[s] \in 0 .. Chunks
    BY SegmentValues DEF CoreTypes
  <2> QED
    BY <1>2, <1>3, <1>7, <2>1, <2>2 DEF Fetch, GivesBack, Owning, Holding
<1>8. CASE PollReturns(s)
  BY <1>2, <1>3, <1>4, <1>8 DEF PollReturns, GivesBack, Owning, Holding
<1>9. CASE Cancelled(s)
  BY <1>1, <1>2, <1>3, <1>9 DEF Cancelled, GivesBack, Owning, Holding
<1> QED
  BY <1>1, <1>5, <1>6, <1>7, <1>8, <1>9
     DEF CoreStep, Generate, Reserve, TakeLock, Probed, Refused, Released

LEMMA WorkerTyped ==
    ASSUME WorkerTypes, NEW w \in Workers, WorkerStep(w) \/ Lapses(w) \/ WorkerStops(w)
    PROVE  WorkerTypes'
<1> USE DEF WorkerTypes, JobApart, Phase, FreesSlot, JobPhases
<1>1. CASE WorkerStep(w)
  BY <1>1 DEF WorkerStep, JobStarts, NeverStarted, NativeEnds, JobCancelled, Joined
<1>2. CASE Lapses(w) \/ WorkerStops(w)
  BY <1>2 DEF Lapses, WorkerStops
<1> QED
  BY <1>1, <1>2

LEMMA ReceiveTyped ==
    ASSUME WorkerTypes, NetTypes, NEW a \in Attempts, Receives(a)
    PROVE  WorkerTypes' /\ NetTypes'
<1>1. a.node \in Workers /\ Chunks \in Nat
  BY SegmentValues
<1>2. CASE ReceiveAdmit(a)
  <2>1. WorkerTypes'
    <3>1. UNCHANGED <<native, cancel, stopping>>
      BY <1>2 DEF ReceiveAdmit, WorkerApart
    <3>2. CASE UNCHANGED <<job, phase, offset>>
      BY <3>1, <3>2 DEF WorkerTypes
    <3>3. CASE /\ job' = [job EXCEPT ![a.node] = a]
               /\ phase' = [phase EXCEPT ![a.node] = "new"]
               /\ offset' = [offset EXCEPT ![a.node] = 0]
      BY <1>1, <3>1, <3>3 DEF WorkerTypes, JobPhases
    <3> QED
      BY <1>2, <3>2, <3>3 DEF ReceiveAdmit
  <2>2. NetTypes'
    BY <1>2, AnswersTyped DEF ReceiveAdmit, AnswerOps, AnswerStates
  <2> QED
    BY <2>1, <2>2
<1>3. CASE ReceiveCancel(a)
  <2>1. WorkerTypes'
    BY <1>1, <1>3 DEF ReceiveCancel, WorkerTypes, WorkerApart, Owned
  <2>2. NetTypes'
    BY <1>3, AnswersTyped DEF ReceiveCancel, AnswerOps, AnswerStates
  <2> QED
    BY <2>1, <2>2
<1>4. CASE ReceivePoll(a)
  <2>1. WorkerTypes'
    BY <1>1, <1>4 DEF ReceivePoll, WorkerTypes, WorkerApart
  <2>2. NetTypes'
    BY <1>4, AnswersTyped DEF ReceivePoll, AnswerOps, AnswerStates
  <2> QED
    BY <2>1, <2>2
<1> QED
  BY <1>2, <1>3, <1>4 DEF Receives

LEMMA NetworkTyped ==
    ASSUME NetTypes, TimeTypes,
           \/ \E s \in Segments : Expires(s)
           \/ \E a \in Attempts : RequestLost(a) \/ AnswerLost(a)
           \/ \E p \in Pools : Disconnects(p) \/ Reconnects(p)
    PROVE  NetTypes' /\ TimeTypes'
<1>0. MaxFaults \in Nat
  BY SegmentValues
<1>1. CASE \E s \in Segments : Expires(s)
  BY <1>1 DEF Expires, Apart, NetTypes, TimeTypes
<1>2. ASSUME NEW a \in Attempts, RequestLost(a)
      PROVE  NetTypes' /\ TimeTypes'
  <2>1. TimeTypes'
    BY <1>0, <1>2 DEF RequestLost, Fault, timeVars, TimeTypes
  <2>2. Tail(wire[a]) \in Seq(Requests)
    BY <1>2 DEF RequestLost, NetTypes
  <2>3. NetTypes'
    BY <1>2, <2>2 DEF RequestLost, NetTypes
  <2> QED
    BY <2>1, <2>3
<1>3. ASSUME NEW a \in Attempts, AnswerLost(a)
      PROVE  NetTypes' /\ TimeTypes'
  <2>1. TimeTypes'
    BY <1>0, <1>3 DEF AnswerLost, Fault, timeVars, TimeTypes
  <2>2. NetTypes'
    BY <1>3, SegmentValues DEF AnswerLost, NetTypes
  <2> QED
    BY <2>1, <2>2
<1>4. ASSUME NEW p \in Pools, Disconnects(p) \/ Reconnects(p)
      PROVE  NetTypes' /\ TimeTypes'
  <2>1. NetTypes'
    BY <1>4 DEF Disconnects, Reconnects, NetTypes
  <2>2. CASE Disconnects(p)
    <3>1. up' \in [Pools -> BOOLEAN]
      BY <2>2, Zenon DEF Disconnects, TimeTypes
    <3>2. expired' \subseteq Segments /\ lost' \subseteq Segments /\ broken' \subseteq Segments
      BY <2>2 DEF Disconnects, TimeTypes
    <3>3. faults' \in 0 .. MaxFaults
      BY <1>0, <2>2 DEF Disconnects, Fault, TimeTypes
    <3> QED
      BY <2>1, <3>1, <3>2, <3>3, Zenon DEF TimeTypes
  <2>3. CASE Reconnects(p)
    <3>1. up' \in [Pools -> BOOLEAN]
      BY <2>3, Zenon DEF Reconnects, TimeTypes
    <3> QED
      BY <2>1, <2>3, <3>1, Zenon DEF Reconnects, TimeTypes
  <2> QED
    BY <1>4, <2>2, <2>3
<1> QED
  BY <1>1, <1>2, <1>3, <1>4

LEMMA SegmentTyped ==
    ASSUME SegmentTypes, OwnerInv, [Next]_vars
    PROVE  SegmentTypes'
<1> USE DEF SegmentTypes
<1>0. MaxFaults \in Nat
  BY SegmentValues
<1>1. ASSUME NEW s \in Segments, CoreStep(s) \/ Cancelled(s)
      PROVE  SegmentTypes'
  <2>1. /\ UNCHANGED <<workerVars, home, expired, lost, up>>
        /\ broken' = broken \/ broken' = broken \ {s}
        /\ UNCHANGED faults \/ Fault
    BY <1>1, CoreFrame
  <2>2. TimeTypes'
    BY <1>0, <2>1 DEF TimeTypes, Fault
  <2>3. WorkerTypes'
    BY <2>1 DEF WorkerTypes, workerVars
  <2> QED
    BY <1>1, <2>2, <2>3, CoreTyped, CoreTalksTyped
<1>2. ASSUME NEW w \in Workers, WorkerStep(w) \/ Lapses(w) \/ WorkerStops(w)
      PROVE  SegmentTypes'
  <2>1. /\ UNCHANGED <<coreVars, timeVars, netVars>>
        /\ UNCHANGED faults \/ Fault
    BY <1>2 DEF WorkerStep, JobStarts, NeverStarted, NativeEnds, JobCancelled, Joined,
                Lapses, WorkerStops, JobApart
  <2>2. CoreTypes' /\ TimeTypes' /\ NetTypes'
    BY <1>0, <2>1 DEF CoreTypes, TimeTypes, NetTypes, coreVars, timeVars, netVars, Fault
  <2> QED
    BY <1>2, <2>2, WorkerTyped
<1>3. ASSUME NEW a \in Attempts, Receives(a)
      PROVE  SegmentTypes'
  <2>1. UNCHANGED <<coreVars, timeVars, faults>>
    BY <1>3 DEF Receives, ReceiveAdmit, ReceiveCancel, ReceivePoll, WorkerApart
  <2>2. CoreTypes' /\ TimeTypes'
    BY <2>1 DEF CoreTypes, TimeTypes, coreVars, timeVars
  <2> QED
    BY <1>3, <2>2, ReceiveTyped
<1>4. ASSUME \/ \E s \in Segments : Expires(s)
             \/ \E a \in Attempts : RequestLost(a) \/ AnswerLost(a)
             \/ \E p \in Pools : Disconnects(p) \/ Reconnects(p)
      PROVE  SegmentTypes'
  <2>1. UNCHANGED <<home, coreVars, workerVars>>
    BY <1>4 DEF Expires, RequestLost, AnswerLost, Disconnects, Reconnects, Apart
  <2>2. CoreTypes' /\ WorkerTypes'
    BY <2>1 DEF CoreTypes, WorkerTypes, coreVars, workerVars
  <2> QED
    BY <1>4, <2>2, NetworkTyped
<1>5. CASE UNCHANGED vars
  BY <1>5 DEF vars, CoreTypes, TimeTypes, NetTypes, WorkerTypes
<1> QED
  BY <1>1, <1>2, <1>3, <1>4, <1>5 DEF Next

\* Nobody but the core's own steps touches what it knows.
LEMMA ElseFrame ==
    ASSUME NEW w, NEW a, NEW s, NEW p,
           \/ WorkerStep(w) \/ Lapses(w) \/ WorkerStops(w) \/ Receives(a) \/ Expires(s)
           \/ RequestLost(a) \/ AnswerLost(a) \/ Disconnects(p) \/ Reconnects(p)
    PROVE  UNCHANGED <<home, coreVars>>
BY DEF WorkerStep, JobStarts, NeverStarted, NativeEnds, JobCancelled, Joined, Lapses,
       WorkerStops, JobApart, Receives, ReceiveAdmit, ReceiveCancel, ReceivePoll, WorkerApart,
       Expires, RequestLost, AnswerLost, Disconnects, Reconnects, Apart, timeVars

LEMMA OwnerStep ==
    ASSUME CoreTypes, OwnerInv, NEW s \in Segments, CoreStep(s) \/ Cancelled(s)
    PROVE  OwnerInv'
<1> DEFINE Owns(t) == IF at[t] \in Owning THEN own[t] \in Attempts /\ own[t].seg = t
                                          ELSE own[t] = NoAttempt
           Fetches(t) == at[t] \notin {"fetch", "poll"} => got[t] = 0
<1>0. \A t \in Segments : Owns(t) /\ Fetches(t)
  BY DEF OwnerInv
<1>1. ASSUME NEW t \in Segments
      PROVE  Owns(t)'
  <2>0. Owns(t)
    BY <1>0
  <2> USE DEF CoreTypes, coreVars, Goes, Done, Owning, Holding
  <2>1. CASE Generate(s) \/ Reserve(s) \/ TakeLock(s) \/ Probed(s)
    BY <2>0, <2>1 DEF Generate, Reserve, TakeLock, Probed
  <2>2. CASE Pick(s)
    BY <2>0, <2>2 DEF Pick
  <2>3. CASE AdmitReturns(s) \/ Refused(s)
    BY <2>0, <2>3 DEF AdmitReturns, Refused
  <2>4. CASE Fetch(s) \/ PollReturns(s)
    BY <2>0, <2>4 DEF Fetch, PollReturns, GivesBack
  <2>5. CASE Released(s) \/ Cancelled(s)
    BY <2>0, <2>5 DEF Released, Cancelled, GivesBack, FreesNode
  <2> QED
    BY <2>1, <2>2, <2>3, <2>4, <2>5 DEF CoreStep
<1>2. ASSUME NEW t \in Segments
      PROVE  Fetches(t)'
  <2>0. Fetches(t)
    BY <1>0
  <2> USE DEF CoreTypes, coreVars, Goes, GoesOn, Done
  <2>1. CASE Generate(s) \/ Reserve(s) \/ TakeLock(s) \/ Probed(s)
    BY <2>0, <2>1 DEF Generate, Reserve, TakeLock, Probed
  <2>2. CASE Pick(s)
    BY <2>0, <2>2 DEF Pick
  <2>3. CASE AdmitReturns(s) \/ Refused(s)
    BY <2>0, <2>3 DEF AdmitReturns, Refused
  <2>4. CASE Fetch(s) \/ PollReturns(s)
    BY <2>0, <2>4 DEF Fetch, PollReturns, GivesBack
  <2>5. CASE Released(s) \/ Cancelled(s)
    BY <2>0, <2>5 DEF Released, Cancelled, GivesBack
  <2> QED
    BY <2>1, <2>2, <2>3, <2>4, <2>5 DEF CoreStep
<1> QED
  BY <1>1, <1>2 DEF OwnerInv

\* HolderInv: the lock.
LEMMA LockStep ==
    ASSUME CoreTypes, LockOwned, NEW s \in Segments, CoreStep(s) \/ Cancelled(s)
    PROVE  LockOwned'
<1>1. UNCHANGED home /\ None \notin Segments
  BY CoreFrame, SegmentValues
<1> USE <1>1 DEF CoreTypes, LockOwned, coreVars, Goes, Done, Unlock, Pool
<1>2. CASE Generate(s) \/ Reserve(s) \/ TakeLock(s)
  BY <1>2 DEF Generate, Reserve, TakeLock
<1>3. CASE Probed(s) \/ Pick(s)
  BY <1>3 DEF Probed, Pick
<1>4. CASE AdmitReturns(s) \/ Refused(s)
  BY <1>4 DEF AdmitReturns, Refused
<1>5. CASE Fetch(s) \/ PollReturns(s)
  <2>1. at[s] \in {"fetch", "poll"} /\ UNCHANGED lock
    BY <1>5 DEF Fetch, PollReturns
  <2>2. \E where \in {"fetch", "poll", "release"} : at' = [at EXCEPT ![s] = where]
    BY <1>5 DEF Fetch, PollReturns, GivesBack
  <2> QED
    BY <2>1, <2>2
<1>6. CASE Released(s) \/ Cancelled(s)
  BY <1>6 DEF Released, Cancelled, GivesBack
<1> QED
  BY <1>2, <1>3, <1>4, <1>5, <1>6 DEF CoreStep

\* EngineInv.
LEMMA EngineStep ==
    ASSUME WorkerTypes, EngineInv, NEW w \in Workers, WorkerStep(w) \/ Lapses(w) \/ WorkerStops(w)
    PROVE  EngineInv'
<1>1. NoAttempt \notin Attempts
  BY SegmentValues
<1> USE <1>1 DEF WorkerTypes, EngineInv, OneNative, JobApart, Phase, FreesSlot, None
<1>2. CASE JobStarts(w) \/ NeverStarted(w)
  BY <1>2 DEF JobStarts, NeverStarted
<1>3. CASE NativeEnds(w)
  BY <1>3 DEF NativeEnds
<1>4. CASE JobCancelled(w) \/ Joined(w)
  BY <1>4 DEF JobCancelled, Joined
<1>5. CASE Lapses(w) \/ WorkerStops(w)
  BY <1>5 DEF Lapses, WorkerStops
<1> QED
  BY <1>2, <1>3, <1>4, <1>5 DEF WorkerStep

LEMMA EngineReceives ==
    ASSUME WorkerTypes, EngineInv, NEW a \in Attempts, Receives(a)
    PROVE  EngineInv'
<1>1. NoAttempt \notin Attempts /\ a.node \in Workers
  BY SegmentValues
<1> USE <1>1 DEF WorkerTypes, EngineInv, OneNative, None
<1>2. CASE ReceiveAdmit(a)
  BY <1>2 DEF ReceiveAdmit
<1>3. CASE ReceiveCancel(a) \/ ReceivePoll(a)
  BY <1>3 DEF ReceiveCancel, ReceivePoll, Owned
<1> QED
  BY <1>2, <1>3 DEF Receives

\* HolderInv: the nodes. A step moves one segment, in three ways that matter.
CandFree(s) == at[s] \in Asking => cand[s] \cap reserved[home[s]] = {}
AsksNode(s) == at[s] \in {"admit", "refuse"} => Node(s) \in cand[s]
Holds(s) == at[s] \in Holding
Reservations ==
    /\ \A s \in Segments : Holds(s) => Node(s) \in reserved[home[s]]
    /\ \A p \in Pools : \A n \in reserved[p] :
          \E s \in Segments : home[s] = p /\ Holds(s) /\ Node(s) = n
    /\ \A s, t \in Segments :
          Holds(s) /\ Holds(t) /\ home[s] = home[t] /\ Node(s) = Node(t) => s = t

LEMMA ReservationsAre ==
    ASSUME CoreTypes
    PROVE  ReservedByHolders <=> Reservations
BY DEF CoreTypes, ReservedByHolders, Reservations, Holds, Holding, Pool

\* A segment that neither takes nor gives back a node.
LEMMA KeepsNode ==
    ASSUME CoreTypes, Reservations, \A t \in Segments : CandFree(t) /\ AsksNode(t),
           NEW s \in Segments, UNCHANGED <<home, reserved>>,
           \A t \in Segments : t # s => at'[t] = at[t] /\ cand'[t] = cand[t] /\ own'[t] = own[t],
           Holds(s) <=> Holds(s)', Holds(s) => own'[s] = own[s], CandFree(s)', AsksNode(s)'
    PROVE  Reservations' /\ \A t \in Segments : CandFree(t)' /\ AsksNode(t)'
<1>1. \A t \in Segments : (Holds(t) <=> Holds(t)') /\ (Holds(t) => own'[t] = own[t])
  BY DEF Holds
<1>2. \A t \in Segments : CandFree(t)' /\ AsksNode(t)'
  BY DEF CandFree, AsksNode, Node
<1>3. Reservations'
  BY <1>1 DEF Reservations, Node
<1> QED
  BY <1>2, <1>3

\* The one that takes the node it has asked for.
LEMMA TakesNode ==
    ASSUME CoreTypes, LockOwned, Reservations, \A t \in Segments : CandFree(t) /\ AsksNode(t),
           NEW s \in Segments, UNCHANGED <<home, own>>, at[s] = "admit",
           at' = [at EXCEPT ![s] = "fetch"], cand' = [cand EXCEPT ![s] = {}],
           reserved' = [reserved EXCEPT ![home[s]] = @ \cup {Node(s)}]
    PROVE  Reservations' /\ \A t \in Segments : CandFree(t)' /\ AsksNode(t)'
<1> USE DEF CoreTypes, Pool
<1>1. Node(s) \notin reserved[home[s]] /\ ~Holds(s) /\ Holds(s)'
  BY DEF CandFree, AsksNode, Asking, Holds, Holding
<1>2. \A t \in Segments : t # s => (Holds(t) <=> Holds(t)')
  BY DEF Holds
<1>3. \A t \in Segments : t # s /\ at[t] \in Asking => home[t] # home[s]
  BY DEF LockOwned, Asking
<1>4. \A t \in Segments : CandFree(t)' /\ AsksNode(t)'
  BY <1>3 DEF CandFree, AsksNode, Asking, Node
<1>5. \A p \in Pools : p # home[s] => reserved'[p] = reserved[p]
  OBVIOUS
<1>6. reserved'[home[s]] = reserved[home[s]] \cup {Node(s)}
  OBVIOUS
<1>7. Reservations'
  BY <1>1, <1>2, <1>5, <1>6 DEF Reservations, Node
<1> QED
  BY <1>4, <1>7

\* The one that gives its node back.
LEMMA FreesNodeStep ==
    ASSUME CoreTypes, Reservations, \A t \in Segments : CandFree(t) /\ AsksNode(t),
           NEW s \in Segments, UNCHANGED <<home, cand>>, Holds(s), FreesNode(s),
           at' = [at EXCEPT ![s] = "done"] \/ at' = [at EXCEPT ![s] = "reserve"]
    PROVE  Reservations' /\ \A t \in Segments : CandFree(t)' /\ AsksNode(t)'
<1> USE DEF CoreTypes, Pool
<1>1. ~Holds(s)'
  BY DEF Holds, Holding
<1>2. \A t \in Segments : t # s => (Holds(t) <=> Holds(t)') /\ own'[t] = own[t]
  BY DEF Holds, FreesNode
<1>3. \A p \in Pools : p # home[s] => reserved'[p] = reserved[p]
  BY DEF FreesNode
<1>4. reserved'[home[s]] = reserved[home[s]] \ {Node(s)}
  BY DEF FreesNode
<1>5. \A t \in Segments : CandFree(t)' /\ AsksNode(t)'
  BY <1>2, <1>3, <1>4 DEF CandFree, AsksNode, Asking, Node
<1>6. ASSUME NEW t \in Segments, Holds(t)'
      PROVE  Node(t)' \in reserved'[home[t]]
  BY <1>1, <1>2, <1>3, <1>4, <1>6 DEF Reservations, Node
<1>7. ASSUME NEW p \in Pools, NEW n \in reserved'[p]
      PROVE  \E t \in Segments : home[t] = p /\ Holds(t)' /\ Node(t)' = n
  <2>1. n \in reserved[p] /\ ~(p = home[s] /\ n = Node(s))
    BY <1>3, <1>4, <1>7
  <2>2. PICK t \in Segments : home[t] = p /\ Holds(t) /\ Node(t) = n
    BY <2>1 DEF Reservations
  <2> QED
    BY <1>2, <2>1, <2>2 DEF Node
<1>8. ASSUME NEW t \in Segments, NEW u \in Segments, Holds(t)', Holds(u)', home[t] = home[u],
             Node(t)' = Node(u)'
      PROVE  t = u
  BY <1>1, <1>2, <1>8 DEF Reservations, Node
<1> QED
  BY <1>5, <1>6, <1>7, <1>8 DEF Reservations

LEMMA HolderStep ==
    ASSUME CoreTypes, LockOwned, Reservations, \A t \in Segments : CandFree(t) /\ AsksNode(t),
           NEW s \in Segments, CoreStep(s) \/ Cancelled(s)
    PROVE  Reservations' /\ \A t \in Segments : CandFree(t)' /\ AsksNode(t)'
<1> DEFINE Kept == /\ UNCHANGED reserved
                   /\ \A t \in Segments : t # s => at'[t] = at[t] /\ cand'[t] = cand[t]
                                                /\ own'[t] = own[t]
                   /\ Holds(s) <=> Holds(s)'
                   /\ Holds(s) => own'[s] = own[s]
                   /\ CandFree(s)' /\ AsksNode(s)'
<1>h. UNCHANGED home
  BY CoreFrame
<1>k. Kept => Reservations' /\ \A t \in Segments : CandFree(t)' /\ AsksNode(t)'
  BY <1>h, KeepsNode
<1>c. CandFree(s) /\ AsksNode(s)
  OBVIOUS
<1> USE <1>h, <1>c DEF CoreTypes, coreVars, Goes, Done, Tried, Pool, Asking, Holds, Holding, CandFree,
                AsksNode, Node
<1>1. CASE Generate(s) \/ Reserve(s)
  <2>1. Kept
    BY <1>1 DEF Generate, Reserve
  <2> QED
    BY <1>k, <2>1
<1>2. CASE TakeLock(s)
  <2>1. Kept
    BY <1>2 DEF TakeLock
  <2> QED
    BY <1>k, <2>1
<1>3. CASE Probed(s)
  <2>1. Kept
    BY <1>3 DEF Probed
  <2> QED
    BY <1>k, <2>1
<1>4. CASE Pick(s)
  <2>1. Kept
    BY <1>4 DEF Pick
  <2> QED
    BY <1>k, <2>1
<1>5. CASE AdmitReturns(s)
  <2>1. CASE Goes(s, "refuse") /\ UNCHANGED <<reserved, cand, own>>
    <3>1. Kept
      BY <1>5, <2>1 DEF AdmitReturns
    <3> QED
      BY <1>k, <3>1
  <2> QED
    BY <1>5, <2>1, TakesNode DEF AdmitReturns
<1>6. CASE Refused(s)
  <2>1. Kept
    BY <1>6 DEF Refused
  <2> QED
    BY <1>k, <2>1
<1>7. CASE Fetch(s) \/ PollReturns(s)
  <2>1. Kept
    BY <1>7 DEF Fetch, PollReturns, GivesBack
  <2> QED
    BY <1>k, <2>1
<1>8. CASE Released(s)
  BY <1>8, FreesNodeStep DEF Released
<1>9. CASE Cancelled(s)
  <2>1. CASE at[s] = "release"
    BY <1>9, <2>1, FreesNodeStep DEF Cancelled
  <2>2. CASE at[s] # "release"
    <3>1. Kept
      BY <1>9, <2>2 DEF Cancelled, GivesBack
    <3> QED
      BY <1>k, <3>1
  <2> QED
    BY <2>1, <2>2
<1> QED
  BY <1>1, <1>2, <1>3, <1>4, <1>5, <1>6, <1>7, <1>8, <1>9 DEF CoreStep

\* CalmInv.
Quiet == lost = {} /\ broken = {} /\ \A p \in Pools : up[p]
Still(s) == excluded[s] = {} /\ Agrees(s, own[s])
Talking == {"admit", "fetch", "poll"}

LEMMA OneRequest ==
    ASSUME NEW x
    PROVE  /\ <<x>> # << >> /\ Head(<<x>>) = x /\ Tail(<<x>>) = << >>
           /\ Append(<< >>, x) = <<x>> /\ \E i \in DOMAIN <<x>> : <<x>>[i] = x
<1>1. <<x>> # << >> /\ Head(<<x>>) = x /\ Tail(<<x>>) = << >> /\ Append(<< >>, x) = <<x>>
  OBVIOUS
<1>2. 1 \in DOMAIN <<x>> /\ <<x>>[1] = x
  OBVIOUS
<1> QED
  BY <1>1, <1>2

LEMMA AsksAre ==
    ASSUME NEW o, NEW n
    PROVE  Asks(o, n).op = o /\ Asks(o, n).off = n
BY DEF Asks

\* A segment that does not talk has nothing to agree on.
LEMMA SilentStill ==
    ASSUME NEW s, at[s] \notin Talking, excluded[s] = {}
    PROVE  Still(s)
BY DEF Still, Agrees, Talking

\* Whoever does not take part in a step, and whose attempt does not either.
LEMMA OthersStill ==
    ASSUME NEW t \in Segments, Still(t), at[t] \in Owning => own[t] \in Attempts,
           at'[t] = at[t], own'[t] = own[t], got'[t] = got[t], excluded'[t] = excluded[t],
           at[t] \in Talking => wire'[own[t]] = wire[own[t]] /\ answer'[own[t]] = answer[own[t]],
           \A n : at[t] \in Talking /\ Serves(own[t], n) => Serves(own[t], n)'
    PROVE  Still(t)'
<1>1. CASE at[t] \notin Talking
  BY <1>1 DEF Still, Agrees, Talking
<1>2. CASE at[t] \in Talking
  <2>1. excluded'[t] = {}
    BY DEF Still
  <2>2. at[t] = "admit" => Agrees(t, own[t])'
    BY <1>2 DEF Still, Agrees, Talks
  <2>3. at[t] = "fetch" => Agrees(t, own[t])'
    BY <1>2 DEF Still, Agrees, Talks
  <2>4. at[t] = "poll" => Agrees(t, own[t])'
    BY <1>2 DEF Still, Agrees, Talks
  <2> QED
    BY <1>2, <2>1, <2>2, <2>3, <2>4 DEF Still, Talking
<1> QED
  BY <1>1, <1>2

LEMMA CoreOthersStill ==
    ASSUME CoreTypes, NetTypes, OwnerInv, NEW s \in Segments, CoreStep(s) \/ Cancelled(s),
           NEW t \in Segments, t # s, Still(t)
    PROVE  Still(t)'
<1>1. at'[t] = at[t] /\ own'[t] = own[t] /\ got'[t] = got[t] /\ excluded'[t] = excluded[t]
  <2> USE DEF CoreTypes, coreVars, Goes, GoesOn, Done
  <2>1. CASE Generate(s) \/ Reserve(s) \/ TakeLock(s) \/ Probed(s)
    BY <2>1 DEF Generate, Reserve, TakeLock, Probed
  <2>2. CASE Pick(s) \/ AdmitReturns(s) \/ Refused(s)
    BY <2>2 DEF Pick, AdmitReturns, Refused
  <2>3. CASE Fetch(s) \/ PollReturns(s)
    BY <2>3 DEF Fetch, PollReturns, GivesBack
  <2>4. CASE Released(s) \/ Cancelled(s)
    BY <2>4 DEF Released, Cancelled, GivesBack, FreesNode
  <2> QED
    BY <2>1, <2>2, <2>3, <2>4 DEF CoreStep
<1>2. ASSUME NEW b \in Attempts, b.seg # s
      PROVE  wire'[b] = wire[b] /\ answer'[b] = answer[b]
  <2> USE DEF NetTypes, netVars, SendsCancel
  <2>1. at[s] \in Owning => own[s] \in Attempts /\ own[s] # b
    BY <1>2 DEF OwnerInv
  <2>2. CASE Generate(s) \/ Reserve(s) \/ TakeLock(s) \/ Probed(s) \/ Refused(s) \/ Released(s)
    BY <2>2 DEF Generate, Reserve, TakeLock, Probed, Refused, Released
  <2>3. CASE Pick(s)
    BY <1>2, <2>3 DEF Pick
  <2>4. CASE AdmitReturns(s)
    BY <2>1, <2>4 DEF AdmitReturns, Owning
  <2>5. CASE Fetch(s) \/ PollReturns(s)
    BY <2>1, <2>5 DEF Fetch, PollReturns, GivesBack, Owning, Holding
  <2>6. CASE Cancelled(s)
    BY <2>1, <2>6 DEF Cancelled, GivesBack, Owning, Holding
  <2> QED
    BY <2>2, <2>3, <2>4, <2>5, <2>6 DEF CoreStep
<1>3. UNCHANGED workerVars
  BY CoreFrame
<1>4. \A n : Serves(own[t], n) => Serves(own[t], n)'
  BY <1>1, <1>3 DEF Serves, workerVars
<1>5. at[t] \in Owning => own[t] \in Attempts /\ own[t].seg # s
  BY DEF OwnerInv
<1>6. at[t] \in Talking => wire'[own[t]] = wire[own[t]] /\ answer'[own[t]] = answer[own[t]]
  BY <1>2, <1>5 DEF Talking, Owning, Holding
<1> QED
  BY <1>1, <1>4, <1>5, <1>6, OthersStill

LEMMA CoreItselfStill ==
    ASSUME CoreTypes, TimeTypes, NetTypes, OwnerInv, NEW s \in Segments,
           CoreStep(s) \/ Cancelled(s),
           faults = 0, faults' = 0, Quiet, s \notin expired, Still(s)
    PROVE  Still(s)'
<1>l. AttemptLive(s) /\ up[Pool(s)]
  BY DEF AttemptLive, Quiet, Pool, CoreTypes
<1>f. ~Fault
  BY DEF Fault
<1>w. UNCHANGED workerVars
  BY CoreFrame
<1>s. \A a, n : Serves(a, n) => Serves(a, n)'
  BY <1>w DEF Serves, workerVars
<1>e. excluded[s] = {} /\ Agrees(s, own[s])
  BY DEF Still
<1>o. at[s] \in Owning => own[s] \in Attempts
  BY DEF OwnerInv
<1>d. at'[s] \notin Talking /\ excluded'[s] = {} => Still(s)'
  BY DEF Still, Agrees, Talking
<1> USE DEF CoreTypes, coreVars, Goes, GoesOn, Done
<1>1. CASE Generate(s) \/ Reserve(s) \/ TakeLock(s) \/ Probed(s) \/ Refused(s) \/ Released(s)
  <2>1. at'[s] \notin Talking /\ excluded'[s] = {}
    BY <1>1, <1>e DEF Generate, Reserve, TakeLock, Probed, Refused, Released, Talking
  <2> QED
    BY <1>d, <2>1
<1>2. CASE Cancelled(s)
  <2>1. at'[s] \notin Talking /\ excluded'[s] = {}
    BY <1>2, <1>e DEF Cancelled, GivesBack, Talking
  <2> QED
    BY <1>d, <2>1
<1>3. CASE Pick(s)
  <2>1. CASE at'[s] # "admit"
    <3>1. at'[s] \notin Talking /\ excluded'[s] = {}
      BY <1>3, <1>e, <2>1 DEF Pick, Talking
    <3> QED
      BY <1>d, <3>1
  <2>2. CASE at'[s] = "admit"
    <3>1. PICK a \in Attempts : /\ own' = [own EXCEPT ![s] = a]
                                /\ wire' = [wire EXCEPT ![a] = <<Asks("admit", 0)>>]
                                /\ answer' = [answer EXCEPT ![a] = Silent]
      BY <1>3, <2>2 DEF Pick
    <3>2. Talks(a, <<Asks("admit", 0)>>, None, {None})'
      BY <3>1, SegmentValues DEF Talks, NetTypes
    <3>3. own'[s] = a /\ excluded'[s] = {}
      BY <1>3, <1>e, <3>1 DEF Pick
    <3> QED
      BY <2>2, <3>2, <3>3 DEF Still, Agrees
  <2> QED
    BY <2>1, <2>2
<1>4. CASE AdmitReturns(s)
  <2>1. excluded'[s] = {} /\ own' = own /\ got' = got
    BY <1>4, <1>e DEF AdmitReturns
  <2>2. CASE at'[s] # "fetch"
    <3>1. at'[s] \notin Talking
      BY <1>4, <2>2 DEF AdmitReturns, Talking
    <3> QED
      BY <1>d, <2>1, <3>1
  <2>3. CASE at'[s] = "fetch"
    <3>1. /\ answer[own[s]].op = "admit" /\ answer[own[s]].state = "admitted"
          /\ answer' = [answer EXCEPT ![own[s]] = Silent] /\ UNCHANGED wire
      BY <1>4, <2>3 DEF AdmitReturns, Answered
    <3>2. at[s] = "admit" /\ got[s] = 0 /\ own[s] \in Attempts
      BY <1>4, <1>o DEF AdmitReturns, OwnerInv, Owning
    <3>3. wire[own[s]] = << >> /\ Serves(own[s], 0)
      BY <1>e, <3>1, <3>2 DEF Agrees, Talks, None
    <3>4. Talks(own[s], << >>, None, {None})'
      BY <2>1, <3>1, <3>2, <3>3, SegmentValues DEF Talks, NetTypes
    <3>5. Serves(own[s], got[s])'
      BY <1>s, <2>1, <3>2, <3>3
    <3> QED
      BY <2>1, <2>3, <3>4, <3>5 DEF Still, Agrees
  <2> QED
    BY <2>2, <2>3
<1>5. CASE Fetch(s)
  <2>1. /\ wire' = [wire EXCEPT ![own[s]] = Append(@, Asks("poll", got[s]))]
        /\ at'[s] = "poll" /\ excluded'[s] = {} /\ own' = own /\ got' = got /\ UNCHANGED answer
        /\ at[s] = "fetch"
    BY <1>5, <1>l, <1>e DEF Fetch
  <2>2. own[s] \in Attempts
    BY <1>o, <2>1 DEF Owning, Holding
  <2>3. wire[own[s]] = << >> /\ answer[own[s]].op = None /\ answer[own[s]].state \in {None}
        /\ Serves(own[s], got[s])
    BY <1>e, <2>1 DEF Agrees, Talks
  <2>4. wire'[own[s]] = <<Asks("poll", got[s])>>
    BY <2>1, <2>2, <2>3, OneRequest DEF NetTypes
  <2>5. Talks(own[s], <<Asks("poll", got[s])>>, None, {None})' /\ Serves(own[s], got[s])'
    BY <1>s, <2>1, <2>3, <2>4 DEF Talks
  <2> QED
    BY <2>1, <2>5 DEF Still, Agrees
<1>6. CASE PollReturns(s)
  <2> DEFINE a == own[s]
  <2>1. at[s] = "poll" /\ a \in Attempts /\ own' = own
    BY <1>6, <1>o DEF PollReturns, Owning, Holding
  <2>2. \/ Talks(a, <<Asks("poll", got[s])>>, None, {None})
        \/ Talks(a, << >>, "poll", {"pending"}) /\ Serves(a, 0) /\ got[s] = 0
        \/ Talks(a, << >>, "poll", {"audio"}) /\ Serves(a, got[s] + 1)
    BY <1>e, <2>1 DEF Agrees
  <2>3. ~TimesOut(s, "poll")
    <3>1. answer[a].op # "poll" => wire[a] = <<Asks("poll", got[s])>>
      BY <2>2 DEF Talks
    <3>2. answer[a].op # "poll" => \E i \in DOMAIN wire[a] : wire[a][i].op = "poll"
      BY <3>1, OneRequest, AsksAre
    <3> QED
      BY <1>f, <3>2 DEF TimesOut
  <2>4. answer[a].op = "poll" => wire[a] = << >> /\ answer[a].state \in {"pending", "audio"}
    BY <2>2 DEF Talks, None
  <2>5. answer[a].op = "poll" /\ answer[a].state = "pending" => Serves(a, 0) /\ got[s] = 0
    BY <2>2 DEF Talks, None
  <2>6. answer[a].op = "poll" /\ answer[a].state = "audio" => Serves(a, got[s] + 1)
    BY <2>2 DEF Talks, None
  <2>7. CASE at'[s] = "release" /\ excluded'[s] = {}
    <3>1. at'[s] \notin Talking
      BY <2>7 DEF Talking
    <3> QED
      BY <1>d, <2>7, <3>1
  <2>8. CASE /\ at'[s] = "fetch" /\ UNCHANGED <<wire, excluded>>
             /\ answer' = [answer EXCEPT ![a] = Silent]
             /\ wire[a] = << >> /\ Serves(a, got'[s])
    <3>1. Talks(a, << >>, None, {None})'
      BY <2>1, <2>8, SegmentValues DEF Talks, NetTypes
    <3>2. Serves(a, got[s])'
      BY <1>s, <2>1, <2>8
    <3> QED
      BY <1>e, <2>1, <2>8, <3>1, <3>2 DEF Still, Agrees
  <2>9. \/ at'[s] = "release" /\ excluded'[s] = {}
        \/ /\ at'[s] = "fetch" /\ UNCHANGED <<wire, excluded>>
           /\ answer' = [answer EXCEPT ![a] = Silent]
           /\ wire[a] = << >> /\ Serves(a, got'[s])
    <3>1. answer[a].op = "poll"
      BY <1>6, <2>3 DEF PollReturns, Answered
    <3>2. CASE answer[a].state = "pending"
      BY <1>6, <1>l, <2>3, <2>4, <2>5, <3>1, <3>2 DEF PollReturns
    <3>3. CASE answer[a].state = "audio"
      <4>1. \/ GivesBack(s, "ok") /\ UNCHANGED result
            \/ /\ Goes(s, "fetch") /\ got' = [got EXCEPT ![s] = @ + 1]
               /\ answer' = [answer EXCEPT ![own[s]] = Silent]
               /\ UNCHANGED <<then, excluded, wire>>
        BY <1>6, <1>l, <2>3, <3>3 DEF PollReturns
      <4>2. CASE GivesBack(s, "ok")
        BY <1>e, <4>2 DEF GivesBack
      <4>3. CASE Goes(s, "fetch") /\ got' = [got EXCEPT ![s] = @ + 1]
               /\ answer' = [answer EXCEPT ![own[s]] = Silent]
               /\ UNCHANGED <<then, excluded, wire>>
        BY <2>4, <2>6, <3>1, <3>3, <4>3
      <4> QED
        BY <4>1, <4>2, <4>3
    <3> QED
      BY <2>4, <3>1, <3>2, <3>3
  <2> QED
    BY <2>7, <2>8, <2>9
<1> QED
  BY <1>1, <1>2, <1>3, <1>4, <1>5, <1>6 DEF CoreStep

LEMMA WorkerStill ==
    ASSUME SegmentTypes, OwnerInv, EngineInv, NEW w \in Workers,
           WorkerStep(w) \/ Lapses(w) \/ WorkerStops(w), faults = 0, faults' = 0,
           NEW t \in Segments, t \notin expired, Still(t)
    PROVE  Still(t)'
<1>f. ~Fault
  BY DEF Fault
<1>c. UNCHANGED <<coreVars, netVars>>
  BY DEF WorkerStep, JobStarts, NeverStarted, NativeEnds, JobCancelled, Joined, Lapses,
         WorkerStops, JobApart
<1>o. at[t] \in Owning => own[t] \in Attempts /\ own[t].seg = t
  BY DEF OwnerInv
<1>1. ASSUME NEW n, at[t] \in Talking, Serves(own[t], n)
      PROVE  Serves(own[t], n)'
  <2> DEFINE a == own[t]
             v == a.node
  <2>0. a \in Attempts /\ a.seg = t /\ v \in Workers /\ a # NoAttempt
    BY <1>1, <1>o, SegmentValues DEF Talking, Owning, Holding
  <2>1. /\ job[v] = a /\ v \notin cancel /\ offset[v] = n
        /\ phase[v] \in {"new", "native", "ready"} /\ (n > 0 => phase[v] = "ready")
    BY <1>1 DEF Serves
  <2>2. own'[t] = a
    BY <1>c DEF coreVars
  <2> HIDE DEF a, v
  <2> USE DEF SegmentTypes, WorkerTypes, Phase, FreesSlot
  <2>3. /\ job'[v] = a /\ v \notin cancel' /\ offset'[v] = n
        /\ phase'[v] \in {"new", "native", "ready"} /\ (n > 0 => phase'[v] = "ready")
    <3>1. CASE JobStarts(w) \/ NeverStarted(w)
      BY <2>0, <2>1, <3>1 DEF JobStarts, NeverStarted, JobApart
    <3>2. CASE NativeEnds(w)
      BY <1>f, <2>0, <2>1, <3>2 DEF NativeEnds, JobApart
    <3>3. CASE JobCancelled(w) \/ Joined(w)
      BY <2>0, <2>1, <3>3 DEF JobCancelled, Joined, JobApart
    <3>4. CASE Lapses(w)
      <4>1. Abandoned(w)
        BY <1>f, <3>4 DEF Lapses
      <4>2. w # v
        BY <2>0, <2>1, <4>1 DEF Abandoned, a
      <4> QED
        BY <2>1, <3>4, <4>2 DEF Lapses, JobApart
    <3>5. CASE WorkerStops(w)
      BY <1>f, <3>5 DEF WorkerStops
    <3> QED
      BY <3>1, <3>2, <3>3, <3>4, <3>5 DEF WorkerStep
  <2> QED
    BY <2>2, <2>3 DEF Serves, a, v
<1> QED
  BY <1>1, <1>c, <1>o, OthersStill DEF coreVars, netVars

LEMMA ReceivesStill ==
    ASSUME SegmentTypes, OwnerInv, EngineInv, NEW b \in Attempts, Receives(b),
           NEW t \in Segments, t \notin expired, Still(t)
    PROVE  Still(t)'
<1>c. UNCHANGED coreVars
  BY DEF Receives, ReceiveAdmit, ReceiveCancel, ReceivePoll, WorkerApart
<1>o. at[t] \in Owning => own[t] \in Attempts /\ own[t].seg = t
  BY DEF OwnerInv
<1>b. b.seg \in Segments /\ b.node \in Workers /\ NoAttempt \notin Attempts
  BY SegmentValues
<1>1. CASE own[t] # b \/ at[t] \notin Talking
  <2>1. ASSUME NEW n, at[t] \in Talking, Serves(own[t], n)
        PROVE  Serves(own[t], n)'
    <3> DEFINE a == own[t]
               v == a.node
    <3>0. a \in Attempts /\ v \in Workers /\ a # NoAttempt /\ a # b
      BY <1>1, <2>1, <1>o, SegmentValues DEF Talking, Owning, Holding
    <3>1. /\ job[v] = a /\ v \notin cancel /\ offset[v] = n
          /\ phase[v] \in {"new", "native", "ready"} /\ (n > 0 => phase[v] = "ready")
      BY <2>1 DEF Serves
    <3>2. own'[t] = a
      BY <1>c DEF coreVars
    <3> HIDE DEF a, v
    <3> USE DEF SegmentTypes, WorkerTypes
    <3>3. /\ job'[v] = a /\ v \notin cancel' /\ offset'[v] = n
          /\ phase'[v] \in {"new", "native", "ready"} /\ (n > 0 => phase'[v] = "ready")
      <4>1. CASE ReceiveAdmit(b)
        BY <1>b, <3>0, <3>1, <4>1 DEF ReceiveAdmit
      <4>2. CASE ReceiveCancel(b)
        BY <3>0, <3>1, <4>2 DEF ReceiveCancel, Owned
      <4>3. CASE ReceivePoll(b)
        <5>1. UNCHANGED <<job, phase, cancel>>
          BY <4>3 DEF ReceivePoll
        <5>2. offset'[v] = offset[v]
          <6>1. CASE Owned(b.node, b)
            <7>1. b.node # v
              BY <3>0, <3>1, <6>1 DEF Owned
            <7> QED
              BY <3>0, <4>3, <7>1 DEF ReceivePoll
          <6>2. CASE ~Owned(b.node, b)
            BY <4>3, <6>2 DEF ReceivePoll
          <6> QED
            BY <6>1, <6>2
        <5> QED
          BY <3>1, <5>1, <5>2
      <4> QED
        BY <4>1, <4>2, <4>3 DEF Receives
    <3> QED
      BY <3>2, <3>3 DEF Serves, a, v
  <2>2. at[t] \in Talking => own[t] \in Attempts /\ own[t] # b
    BY <1>1, <1>o DEF Talking, Owning, Holding
  <2>3. ASSUME NEW a \in Attempts, a # b
        PROVE  wire'[a] = wire[a] /\ answer'[a] = answer[a]
    BY <2>3 DEF Receives, ReceiveAdmit, ReceiveCancel, ReceivePoll, Answers, SegmentTypes, NetTypes
  <2> QED
    BY <2>1, <2>2, <2>3, <1>c, <1>o, OthersStill DEF coreVars
<1>2. CASE own[t] = b /\ at[t] \in Talking
  <2>e. excluded[t] = {} /\ Agrees(t, b)
    BY <1>2 DEF Still
  <2>u. at'[t] = at[t] /\ own'[t] = b /\ got'[t] = got[t] /\ excluded'[t] = {}
    BY <1>2, <1>c, <2>e DEF coreVars
  <2>a. ASSUME NEW o, NEW st, Answers(b, o, st)
        PROVE  answer'[b].op = o /\ answer'[b].state = st
    BY <1>2, <2>a DEF Answers, SegmentTypes, NetTypes
  <2>w. ASSUME NEW x, wire[b] = <<x>>, wire' = [wire EXCEPT ![b] = Tail(@)]
        PROVE  wire'[b] = << >>
    BY <2>w, OneRequest DEF SegmentTypes, NetTypes
  <2>s. b.seg = t
    BY <1>2, <1>o DEF Talking, Owning, Holding
  <2>1. CASE ReceiveAdmit(b)
    <3>1. wire[b] # << >> /\ Head(wire[b]).op = "admit" /\ wire' = [wire EXCEPT ![b] = Tail(@)]
      BY <2>1 DEF ReceiveAdmit
    <3>2. at[t] = "admit" /\ wire[b] = <<Asks("admit", 0)>>
      BY <1>2, <2>e, <3>1, OneRequest, AsksAre DEF Agrees, Talks, Talking
    <3>3. wire'[b] = << >>
      BY <2>w, <3>1, <3>2
    <3>4. CASE Answers(b, "admit", "error")
      <4>1. Talks(b, << >>, "admit", {"error"})'
        BY <2>a, <3>3, <3>4 DEF Talks
      <4> QED
        BY <2>u, <3>2, <4>1 DEF Still, Agrees
    <3>5. CASE /\ job[b.node] = NoAttempt /\ job' = [job EXCEPT ![b.node] = b]
               /\ phase' = [phase EXCEPT ![b.node] = "new"]
               /\ offset' = [offset EXCEPT ![b.node] = 0] /\ Answers(b, "admit", "admitted")
      <4>1. Talks(b, << >>, "admit", {"admitted"})'
        BY <2>a, <3>3, <3>5 DEF Talks
      <4>2. b.node \notin cancel /\ UNCHANGED cancel
        BY <1>b, <2>1, <3>5 DEF EngineInv, ReceiveAdmit
      <4>3. Serves(b, 0)'
        BY <1>b, <3>5, <4>2 DEF Serves, SegmentTypes, WorkerTypes
      <4> QED
        BY <2>u, <3>2, <4>1, <4>3 DEF Still, Agrees
    <3> QED
      BY <2>1, <3>4, <3>5 DEF ReceiveAdmit
  <2>2. CASE ReceiveCancel(b)
    <3>1. wire[b] # << >> /\ Head(wire[b]).op = "cancel"
      BY <2>2 DEF ReceiveCancel
    <3> QED
      BY <1>2, <2>e, <3>1, OneRequest, AsksAre DEF Agrees, Talks, Talking
  <2>3. CASE ReceivePoll(b)
    <3>1. wire[b] # << >> /\ Head(wire[b]).op = "poll" /\ wire' = [wire EXCEPT ![b] = Tail(@)]
      BY <2>3 DEF ReceivePoll
    <3>2. at[t] = "poll" /\ wire[b] = <<Asks("poll", got[t])>> /\ Serves(b, got[t])
      BY <1>2, <2>e, <3>1, OneRequest, AsksAre DEF Agrees, Talks, Talking
    <3>3. wire'[b] = << >> /\ Head(wire[b]).off = got[t]
      BY <2>w, <3>1, <3>2, OneRequest, AsksAre
    <3>4. got[t] \in Nat /\ got[t] < Chunks
      BY SegmentValues DEF SegmentTypes, CoreTypes
    <3>5. Owned(b.node, b) /\ b.seg \notin expired /\ offset[b.node] = got[t]
          /\ phase[b.node] # "error" /\ UNCHANGED <<job, phase, cancel>>
      BY <2>3, <2>s, <3>2 DEF Serves, Owned, ReceivePoll
    <3>6. CASE phase[b.node] # "ready"
      <4>1. Answers(b, "poll", "pending") /\ UNCHANGED offset
        BY <2>3, <3>5, <3>6 DEF ReceivePoll
      <4>2. got[t] = 0
        BY <3>2, <3>4, <3>6 DEF Serves
      <4>3. Talks(b, << >>, "poll", {"pending"})' /\ Serves(b, 0)'
        BY <2>a, <3>2, <3>3, <3>5, <4>1, <4>2 DEF Talks, Serves
      <4> QED
        BY <2>u, <3>2, <4>2, <4>3 DEF Still, Agrees
    <3>7. CASE phase[b.node] = "ready"
      <4>1. offset' = [offset EXCEPT ![b.node] = @ + 1] /\ Answers(b, "poll", "audio")
        <5>1. ~(Head(wire[b]).off # offset[b.node] \/ offset[b.node] >= Chunks)
          BY <3>3, <3>4, <3>5, SegmentValues
        <5> QED
          BY <2>3, <3>5, <3>7, <5>1 DEF ReceivePoll
      <4>2. offset'[b.node] = got[t] + 1
        BY <1>b, <3>5, <4>1 DEF SegmentTypes, WorkerTypes
      <4>3. Talks(b, << >>, "poll", {"audio"})'
        BY <2>a, <3>3, <4>1 DEF Talks
      <4>4. \A n : offset'[b.node] = n => Serves(b, n)'
        BY <3>2, <3>5, <3>7 DEF Serves
      <4>5. Serves(b, got[t] + 1)'
        BY <2>u, <4>2, <4>4
      <4> QED
        BY <2>u, <3>2, <4>3, <4>5 DEF Still, Agrees
    <3> QED
      BY <3>6, <3>7
  <2> QED
    BY <2>1, <2>2, <2>3 DEF Receives
<1> QED
  BY <1>1, <1>2

LEMMA CalmStep ==
    ASSUME SegmentTypes, OwnerInv, EngineInv, CalmInv, [Next]_vars
    PROVE  CalmInv'
<1> SUFFICES ASSUME faults' = 0
             PROVE  Quiet' /\ \A t \in Segments : t \notin expired' => Still(t)'
  BY DEF CalmInv, Quiet, Still
<1>f. faults = 0
  <2>1. faults \in Nat
    BY SegmentValues DEF SegmentTypes, TimeTypes
  <2>2. ASSUME NEW s \in Segments, CoreStep(s) \/ Cancelled(s) \/ Expires(s)
        PROVE  faults = 0
    BY <2>1, <2>2, CoreFrame DEF Expires, Fault
  <2>3. ASSUME NEW w \in Workers, WorkerStep(w) \/ Lapses(w) \/ WorkerStops(w)
        PROVE  faults = 0
    BY <2>1, <2>3 DEF WorkerStep, JobStarts, NeverStarted, NativeEnds, JobCancelled, Joined, Lapses,
                      WorkerStops, Fault
  <2>4. ASSUME NEW a \in Attempts, Receives(a) \/ RequestLost(a) \/ AnswerLost(a)
        PROVE  faults = 0
    BY <2>1, <2>4 DEF Receives, ReceiveAdmit, ReceiveCancel, ReceivePoll, WorkerApart,
                      RequestLost, AnswerLost, Fault
  <2>5. ASSUME NEW p \in Pools, Disconnects(p) \/ Reconnects(p)
        PROVE  faults = 0
    BY <2>1, <2>5 DEF Disconnects, Reconnects, Fault
  <2> QED
    BY <2>2, <2>3, <2>4, <2>5 DEF Next, vars
<1>0. Quiet /\ \A t \in Segments : t \notin expired => Still(t)
  BY <1>f DEF CalmInv, Quiet, Still
<1>1. ASSUME NEW s \in Segments, CoreStep(s) \/ Cancelled(s)
      PROVE  Quiet' /\ \A t \in Segments : t \notin expired' => Still(t)'
  <2>1. /\ UNCHANGED <<expired, lost, up>>
        /\ broken' = broken \/ broken' = broken \ {s}
    BY <1>1, CoreFrame
  <2>2. Quiet'
    BY <1>0, <2>1 DEF Quiet
  <2>3. ASSUME NEW t \in Segments, t \notin expired
        PROVE  Still(t)'
    BY <1>0, <1>1, <1>f, <2>3, CoreOthersStill, CoreItselfStill DEF SegmentTypes
  <2> QED
    BY <2>1, <2>2, <2>3
<1>2. ASSUME NEW w \in Workers, WorkerStep(w) \/ Lapses(w) \/ WorkerStops(w)
      PROVE  Quiet' /\ \A t \in Segments : t \notin expired' => Still(t)'
  <2>1. UNCHANGED timeVars
    BY <1>2 DEF WorkerStep, JobStarts, NeverStarted, NativeEnds, JobCancelled, Joined, Lapses,
                WorkerStops, JobApart
  <2>2. Quiet' /\ expired' = expired
    BY <1>0, <2>1 DEF Quiet, timeVars
  <2> QED
    BY <1>0, <1>2, <1>f, <2>2, WorkerStill
<1>3. ASSUME NEW a \in Attempts, Receives(a)
      PROVE  Quiet' /\ \A t \in Segments : t \notin expired' => Still(t)'
  <2>1. UNCHANGED timeVars
    BY <1>3 DEF Receives, ReceiveAdmit, ReceiveCancel, ReceivePoll, WorkerApart
  <2>2. Quiet' /\ expired' = expired
    BY <1>0, <2>1 DEF Quiet, timeVars
  <2> QED
    BY <1>0, <1>3, <2>2, ReceivesStill
<1>4. ASSUME NEW s \in Segments, Expires(s)
      PROVE  Quiet' /\ \A t \in Segments : t \notin expired' => Still(t)'
  <2>1. UNCHANGED <<coreVars, workerVars, lost, broken, up, wire, answer>> /\ expired \subseteq expired'
    BY <1>4 DEF Expires, Apart
  <2>2. ASSUME NEW t \in Segments, Still(t)
        PROVE  Still(t)'
    <3>1. \A n : Serves(own[t], n) => Serves(own[t], n)'
      BY <2>1 DEF Serves, coreVars, workerVars
    <3>2. at[t] \in Owning => own[t] \in Attempts
      BY DEF OwnerInv
    <3> QED
      BY <2>1, <2>2, <3>1, <3>2, OthersStill DEF coreVars
  <2> QED
    BY <1>0, <2>1, <2>2 DEF Quiet
<1>5. ~\E a \in Attempts : RequestLost(a) \/ AnswerLost(a)
  BY <1>f DEF RequestLost, AnswerLost, Fault
<1>6. ~\E p \in Pools : Disconnects(p) \/ Reconnects(p)
  BY <1>0, <1>f DEF Disconnects, Reconnects, Fault, Quiet
<1>7. CASE UNCHANGED vars
  BY <1>0, <1>7 DEF vars, Quiet, Still, Agrees, Talks, Serves
<1> QED
  BY <1>1, <1>2, <1>3, <1>4, <1>5, <1>6, <1>7 DEF Next

LEMMA SegmentStep == SegmentInv /\ [Next]_vars => SegmentInv'
<1> SUFFICES ASSUME SegmentInv, [Next]_vars
             PROVE  SegmentInv'
  OBVIOUS
<1>0. SegmentTypes /\ OwnerInv /\ HolderInv /\ EngineInv /\ CalmInv /\ CoreTypes /\ WorkerTypes
  BY DEF SegmentInv, SegmentTypes
<1>h. /\ LockOwned /\ Reservations
      /\ \A t \in Segments : CandFree(t) /\ AsksNode(t)
  BY <1>0, ReservationsAre DEF HolderInv, CandFree, AsksNode
<1>1. SegmentTypes'
  BY <1>0, SegmentTyped
<1>2. CalmInv'
  BY <1>0, CalmStep
<1>3. (/\ LockOwned /\ Reservations
       /\ \A t \in Segments : CandFree(t) /\ AsksNode(t))' => HolderInv'
  <2>1. Reservations' => ReservedByHolders'
    BY <1>1 DEF SegmentTypes, CoreTypes, ReservedByHolders, Reservations, Holds, Holding, Pool
  <2> QED
    BY <2>1 DEF HolderInv, CandFree, AsksNode
<1>4. ASSUME NEW s \in Segments, CoreStep(s) \/ Cancelled(s)
      PROVE  OwnerInv' /\ HolderInv' /\ EngineInv'
  <2>1. OwnerInv'
    BY <1>0, <1>4, OwnerStep
  <2>2. HolderInv'
    BY <1>0, <1>h, <1>3, <1>4, LockStep, HolderStep
  <2>3. UNCHANGED workerVars
    BY <1>4, CoreFrame
  <2>4. EngineInv'
    BY <1>0, <2>3 DEF EngineInv, OneNative, workerVars
  <2> QED
    BY <2>1, <2>2, <2>4
<1>5. ASSUME UNCHANGED <<home, coreVars>>
      PROVE  OwnerInv' /\ HolderInv'
  BY <1>0, <1>5 DEF OwnerInv, HolderInv, LockOwned, ReservedByHolders, Node, Pool, coreVars
<1>6. ASSUME NEW w \in Workers, WorkerStep(w) \/ Lapses(w) \/ WorkerStops(w)
      PROVE  UNCHANGED <<home, coreVars>> /\ EngineInv'
  BY <1>0, <1>6, ElseFrame, EngineStep
<1>7. ASSUME NEW a \in Attempts, Receives(a)
      PROVE  UNCHANGED <<home, coreVars>> /\ EngineInv'
  BY <1>0, <1>7, ElseFrame, EngineReceives
<1>8. ASSUME \/ \E s \in Segments : Expires(s)
             \/ \E a \in Attempts : RequestLost(a) \/ AnswerLost(a)
             \/ \E p \in Pools : Disconnects(p) \/ Reconnects(p)
      PROVE  UNCHANGED <<home, coreVars>> /\ EngineInv'
  <2>1. UNCHANGED <<home, coreVars, workerVars>>
    BY <1>8 DEF Expires, RequestLost, AnswerLost, Disconnects, Reconnects, Apart
  <2> QED
    BY <1>0, <2>1 DEF EngineInv, OneNative, workerVars
<1>9. ASSUME UNCHANGED vars
      PROVE  UNCHANGED <<home, coreVars>> /\ EngineInv'
  <2>1. UNCHANGED <<home, coreVars, workerVars>>
    BY <1>9 DEF vars, coreVars, workerVars
  <2> QED
    BY <1>0, <2>1 DEF EngineInv, OneNative, workerVars
<1>10. (UNCHANGED <<home, coreVars>> /\ EngineInv') \/ (OwnerInv' /\ HolderInv' /\ EngineInv')
  BY <1>4, <1>6, <1>7, <1>8, <1>9 DEF Next
<1>11. OwnerInv' /\ HolderInv' /\ EngineInv'
  BY <1>5, <1>10
<1> QED
  BY <1>1, <1>2, <1>11 DEF SegmentInv

LEMMA SegmentBegins == Init => SegmentInv
<1> SUFFICES ASSUME Init
             PROVE  SegmentInv
  OBVIOUS
<1>0. Chunks \in Nat /\ Chunks > 0 /\ MaxFaults \in Nat /\ None \notin Segments
  BY SegmentValues
<1> USE DEF Init
<1>1. CoreTypes
  BY <1>0 DEF CoreTypes, SegmentPlaces
<1>2. TimeTypes
  <2>1. up \in [Pools -> BOOLEAN]
    BY Zenon
  <2>2. faults \in 0 .. MaxFaults
    BY <1>0
  <2> QED
    BY <2>1, <2>2, Zenon DEF TimeTypes
<1>3. NetTypes
  BY SegmentValues DEF NetTypes
<1>4. WorkerTypes
  <2>1. native \in [Workers -> BOOLEAN]
    BY Zenon
  <2>2. offset \in [Workers -> 0 .. Chunks]
    BY <1>0
  <2>3. job \in [Workers -> Attempts \cup {NoAttempt}] /\ phase \in [Workers -> JobPhases]
    BY DEF JobPhases
  <2> QED
    BY <2>1, <2>2, <2>3, Zenon DEF WorkerTypes
<1>5. OwnerInv
  BY DEF OwnerInv, Owning, Holding
<1>6. HolderInv
  BY <1>0 DEF HolderInv, LockOwned, ReservedByHolders, Asking, Pool
<1>7. EngineInv
  BY DEF EngineInv, OneNative
<1>8. CalmInv
  BY DEF CalmInv, Agrees
<1> QED
  BY <1>1, <1>2, <1>3, <1>4, <1>5, <1>6, <1>7, <1>8 DEF SegmentInv, SegmentTypes

LEMMA SegmentShows == SegmentInv => SlotUndisturbed
<1> SUFFICES ASSUME SegmentInv
             PROVE  SlotUndisturbed
  OBVIOUS
<1>0. /\ CoreTypes /\ TimeTypes /\ NetTypes /\ WorkerTypes /\ LockOwned /\ ReservedByHolders
      /\ OneNative /\ CalmInv
  BY DEF SegmentInv, SegmentTypes, HolderInv, EngineInv
<1>1. /\ home \in [Segments -> Pools]
      /\ at \in [Segments -> {"idle", "reserve", "lock", "probe", "pick", "admit",
                              "refuse", "fetch", "poll", "release", "done"}]
      /\ result \in [Segments -> {None, "ok", "failed", "cancelled"}]
      /\ excluded \in [Segments -> SUBSET Workers] /\ cand \in [Segments -> SUBSET Workers]
      /\ own \in [Segments -> Attempts \cup {NoAttempt}]
      /\ then \in [Segments -> {None, "ok", "retry", "cancel"}]
      /\ lock \in [Pools -> Segments \cup {None}] /\ reserved \in [Pools -> SUBSET Workers]
  BY <1>0, Zenon DEF CoreTypes, SegmentPlaces
<1>2. got \in [Segments -> 0 .. Chunks]
  BY <1>0, SegmentValues DEF CoreTypes
<1>3. /\ \A a \in Attempts : wire[a] \in Seq([op : {"admit", "poll", "cancel"}, off : 0 .. Chunks])
      /\ answer \in [Attempts -> [op : {None, "admit", "poll", "cancel"},
                       state : {None, "admitted", "pending", "audio", "released", "error"}]]
  BY <1>0, Zenon DEF NetTypes, Requests, AnswerOps, AnswerStates
<1>4. TypeOK
  BY <1>0, <1>1, <1>2, <1>3, Zenon DEF TypeOK, TimeTypes, WorkerTypes, JobPhases
<1>5. Undisturbed
  BY <1>0 DEF CalmInv, Undisturbed
<1> QED
  BY <1>0, <1>4, <1>5 DEF SlotUndisturbed, SlotOwned

\* Whoever holds a worker's slot, a core's node or its lock holds it alone; the native
\* engine has one synthesis at a time; and as long as nothing goes wrong no late
\* message of one attempt disturbs another's job (TTSPool.generate() and TTSService),
\* for any number of segments, cores, workers, attempts and chunks.
THEOREM SlotsAreOwned == SafetySpec => []SlotUndisturbed
<1>1. SafetyInit => SegmentInv
  BY SegmentBegins DEF SafetyInit
<1>2. SegmentInv /\ [SafetyNext]_allVars => SegmentInv'
  <2>1. [SafetyNext]_allVars => [Next]_vars
    BY DEF SafetyNext, Segment, Clone, Sound, RobotTools, Robot, allVars
  <2> QED
    BY <2>1, SegmentStep
<1>3. SegmentInv => SlotUndisturbed
  BY SegmentShows
<1> QED
  BY <1>1, <1>2, <1>3, PTL DEF SafetySpec, allVars

-----------------------------------------------------------------------------
(***************************************************************************)
(* Reconnection. The invariant follows the queue in front of the           *)
(* registry's lock: each turn in it is waited for by the one it belongs    *)
(* to, a registration stands before the end of the same connection, and a  *)
(* notification on its way is the first. So the registered connection is   *)
(* not a closed one, and whoever holds one of the two locks can go on.     *)
(***************************************************************************)

Turns == [kind : {"register", "unregister"}, of : R!Connections]
         \cup [kind : {"get", "send"}, of : Pushes]
Under == {"body", "socket", "unregister"}
CloserTypes ==
    [R!Connections -> [R!Closers -> {R!None, "task", "lock", "body", "socket", "unregister", "done",
                                "cancelled"}]]
PushTypes ==
    [Pushes -> [at : {R!None, "get", "generate", "send", "sending", "sent", "failed"},
                conn : 0 .. MaxConnections]]
RobotTypes ==
    /\ socket \in [R!Connections -> {R!None, "open", "closed"}]
    /\ receive \in [R!Connections -> {R!None, "loop", "welcome", "register", "close", "done"}]
    /\ stop \in [R!Connections -> BOOLEAN] /\ completed \in [R!Connections -> BOOLEAN]
    /\ closer \in CloserTypes
    /\ closing \in [R!Connections -> R!Closers \cup {R!None}]
    /\ registry \in 0 .. MaxConnections /\ waiting \in Seq(Turns)
    /\ push \in PushTypes
    /\ file \subseteq Pushes /\ greeted \subseteq R!Connections

\* One connection: who is under the close lock holds it, a stopped connection is being
\* closed or closed, and its socket is closed before it asks the registry.
CloseOK(c) ==
    /\ \A w \in R!Closers :
         /\ closer[c][w] \in Under <=> closing[c] = w
         /\ closer[c][w] \notin {R!None, "task"} => stop[c]
         /\ closer[c][w] \in {"socket", "unregister"} => socket[c] = "closed"
    /\ stop[c] => completed[c] \/ \E w \in R!Closers : closer[c][w] \in Under \cup {"lock"}
    /\ completed[c] => socket[c] = "closed"
    /\ receive[c] \notin {"close", "done"} => closer[c]["handler"] = R!None
    /\ receive[c] # R!None => socket[c] # R!None
\* Who is registered has said hello and is not closed; who was replaced is not registered.
KnownOK(c) ==
    /\ registry = c => c \in greeted /\ ~completed[c]
    /\ receive[c] \in {"welcome", "register"} => c \notin greeted
    /\ closer[c]["replaced"] # R!None => c \in greeted /\ registry # c
    /\ c \in greeted => /\ registry = c \/ stop[c] \/ closer[c]["replaced"] # R!None
                        /\ socket[c] # R!None
\* A turn in the queue is waited for.
IsDue(t) ==
    \/ t.kind = "register" /\ receive[t.of] = "register" /\ ~completed[t.of]
    \/ t.kind = "unregister" /\ \E w \in R!Closers : closer[t.of][w] = "unregister"
    \/ t.kind = "get" /\ push[t.of].at = "get"
    \/ t.kind = "send" /\ push[t.of].at \in {"send", "sending"}
Positions == 1 .. Len(waiting)
\* Each waits once; a connection asks to leave behind its registration.
InTurn ==
    /\ \A i \in Positions : IsDue(waiting[i])
    /\ \A i, j \in Positions : waiting[i] = waiting[j] => i = j
    /\ \A i, j \in Positions :
         waiting[i].kind = "register" /\ waiting[j] = R!Turn("unregister", waiting[i].of) => i < j
    /\ \A c \in R!Connections, w \in R!Closers :
         closer[c][w] = "unregister" => \E i \in Positions : waiting[i] = R!Turn("unregister", c)
\* A notification on its way has the lock and the connection.
PushOK(p) ==
    /\ push[p].at = "sending" => R!Holds("send", p) /\ registry = push[p].conn
    /\ push[p].at \in {R!None, "get", "failed"} => p \notin file
    /\ push[p].at \in {"generate", "send", "sending"} => push[p].conn \in R!Connections
RobotInv ==
    /\ RobotTypes /\ \A c \in R!Connections : CloseOK(c) /\ KnownOK(c)
    /\ InTurn /\ \A p \in Pushes : PushOK(p)

LEMMA RobotBegins == ASSUME R!Init PROVE RobotInv
<1>1. /\ socket = [c \in R!Connections |-> R!None] /\ receive = socket /\ closing = socket
      /\ stop = [c \in R!Connections |-> FALSE] /\ completed = stop
      /\ closer = [c \in R!Connections |-> [w \in R!Closers |-> R!None]]
      /\ registry = 0 /\ waiting = <<>> /\ push = [p \in Pushes |-> R!NoPush]
      /\ file = {} /\ greeted = {}
  BY DEF R!Init
<1>2. RobotTypes
  <2>1. R!NoPush \in [at : {R!None, "get", "generate", "send", "sending", "sent", "failed"},
                    conn : 0 .. MaxConnections]
    BY SafetyAssumption DEF R!NoPush
  <2> QED
    BY <1>1, <2>1, SafetyAssumption DEF RobotTypes, CloserTypes, PushTypes
<1>3. ASSUME NEW c \in R!Connections PROVE CloseOK(c) /\ KnownOK(c)
  <2>1. /\ socket[c] = R!None /\ receive[c] = R!None /\ closing[c] = R!None
        /\ stop[c] = FALSE /\ completed[c] = FALSE /\ \A w \in R!Closers : closer[c][w] = R!None
    BY <1>1
  <2> QED
    BY <1>1, <2>1, SafetyAssumption DEF CloseOK, KnownOK, R!None, Under, R!Closers, R!Connections
<1>4. InTurn
  BY <1>1 DEF InTurn, Positions, R!None
<1>5. ASSUME NEW p \in Pushes PROVE PushOK(p)
  BY <1>1 DEF PushOK, R!NoPush, R!None
<1> QED
  BY <1>2, <1>3, <1>4, <1>5 DEF RobotInv

LEMMA RobotShows == ASSUME RobotInv PROVE R!TypeOK /\ R!OneConnection
<1>1. R!TypeOK
  <2>1. \A c \in R!Connections : closing[c] # R!None => stop[c]
    <3> SUFFICES ASSUME NEW c \in R!Connections, closing[c] # R!None PROVE stop[c]
      OBVIOUS
    <3>1. PICK w \in R!Closers : closing[c] = w
      BY DEF RobotInv, RobotTypes
    <3> QED
      BY <3>1 DEF RobotInv, CloseOK, Under, R!None
  <2>2. \A i \in 1 .. Len(waiting) :
          waiting[i].kind \in {"register", "unregister", "get", "send"}
    <3>1. \A i \in 1 .. Len(waiting) : waiting[i] \in Turns
      BY DEF RobotInv, RobotTypes
    <3> QED
      BY <3>1 DEF Turns
  <2> QED
    BY <2>1, <2>2 DEF RobotInv, RobotTypes, CloserTypes, PushTypes, R!TypeOK
<1>2. R!NewestIsKnown
  BY SafetyAssumption, SMTT(30)
     DEF RobotInv, RobotTypes, KnownOK, PushOK, R!NewestIsKnown, R!Connections
<1>3. ASSUME ~R!CanGoOn PROVE R!AllEnded
  <2>1. waiting = <<>>
    <3> SUFFICES ASSUME waiting # <<>> PROVE FALSE
      OBVIOUS
    <3> DEFINE t == waiting[1]
    <3>1. /\ 1 \in Positions /\ Head(waiting) = t /\ t \in Turns /\ IsDue(t)
      BY DEF RobotInv, RobotTypes, InTurn, Positions
    <3>2. t = R!Turn(t.kind, t.of) /\ R!Holds(t.kind, t.of)
      BY <3>1 DEF Turns, R!Turn, R!Holds
    <3>3. CASE t.kind = "register"
      BY <1>3, <3>1, <3>2, <3>3 DEF R!CanGoOn, R!ReceiveCan, Turns
    <3>4. CASE t.kind = "unregister"
      BY <1>3, <3>1, <3>2, <3>4 DEF R!CanGoOn, R!CloseCan, Turns, IsDue
    <3>5. CASE t.kind = "get"
      BY <1>3, <3>1, <3>2, <3>5 DEF R!CanGoOn, R!PushCan, Turns, IsDue
    <3>6. CASE t.kind = "send"
      <4> DEFINE p == t.of
      <4>1. p \in Pushes /\ push[p].at \in {"send", "sending"}
        BY <3>1, <3>6 DEF IsDue, Turns
      <4>2. push[p].at = "sending" => socket[push[p].conn] # R!None
        BY <4>1, SafetyAssumption
           DEF RobotInv, RobotTypes, PushOK, KnownOK, R!Connections
      <4> QED
        BY <1>3, <3>2, <3>6, <4>1, <4>2 DEF R!CanGoOn, R!PushCan
    <3> QED
      BY <3>1, <3>3, <3>4, <3>5, <3>6 DEF Turns
  <2>2. ASSUME NEW c \in R!Connections, stop[c] PROVE completed[c]
    <3>1. SUFFICES ASSUME ~completed[c] PROVE FALSE
      OBVIOUS
    <3>2. /\ CloseOK(c) /\ closing[c] \in R!Closers \cup {R!None}
          /\ receive[c] # R!None => socket[c] \in {"open", "closed"}
      BY DEF RobotInv, RobotTypes, CloseOK
    <3>3. \A w \in R!Closers : closer[c][w] # "unregister"
      BY <2>1 DEF RobotInv, InTurn, Positions
    <3>4. ~R!ReceiveCan(c) /\ \A w \in R!Closers : ~R!CloseCan(c, w)
      BY <1>3 DEF R!CanGoOn
    <3>5. PICK w \in R!Closers : closer[c][w] \in Under \cup {"lock"}
      BY <2>2, <3>1, <3>2 DEF CloseOK
    <3>6. PICK v \in R!Closers : closer[c][v] \in Under
      BY <3>2, <3>4, <3>5 DEF CloseOK, R!CloseCan, Under
    <3> QED
      BY <3>2, <3>3, <3>4, <3>6 DEF CloseOK, R!CloseCan, R!ReceiveCan, Under, R!None
  <2>3. ASSUME NEW c \in greeted, c # registry PROVE completed[c]
    <3>1. c \in R!Connections /\ KnownOK(c) /\ CloseOK(c)
          /\ closer[c]["replaced"] \in {R!None, "task", "lock", "body", "socket", "unregister",
                                        "done", "cancelled"}
      BY DEF RobotInv, RobotTypes, CloserTypes, R!Closers
    <3>2. closer[c]["replaced"] # "task"
      BY <1>3, <3>1 DEF R!CanGoOn
    <3>3. stop[c]
      BY <2>3, <3>1, <3>2 DEF KnownOK, CloseOK, R!Closers
    <3> QED
      BY <2>2, <3>1, <3>3
  <2> QED
    BY <2>1, <2>2, <2>3 DEF R!AllEnded
<1> QED
  BY <1>1, <1>2, <1>3 DEF R!OneConnection

-----------------------------------------------------------------------------
(* The queue: who joins it comes last, who leaves it was the first.        *)
LEMMA QueueJoined ==
  ASSUME waiting \in Seq(Turns), NEW t \in Turns, waiting' = Append(waiting, t)
  PROVE  /\ waiting' \in Seq(Turns) /\ Len(waiting') = Len(waiting) + 1
         /\ \A i \in 1 .. Len(waiting) : waiting'[i] = waiting[i]
         /\ waiting'[Len(waiting) + 1] = t /\ Len(waiting) \in Nat
         /\ \A kind, of : R!Holds(kind, of) => R!Holds(kind, of)'
  BY DEF R!Holds

LEMMA QueueLeft ==
  ASSUME waiting \in Seq(Turns), waiting # <<>>, R!Leaves
  PROVE  /\ waiting' \in Seq(Turns) /\ Len(waiting') = Len(waiting) - 1
         /\ \A i \in 1 .. Len(waiting') : waiting'[i] = waiting[i + 1]
         /\ waiting[1] = Head(waiting) /\ Len(waiting) \in Nat /\ Len(waiting) >= 1
  BY DEF R!Leaves

(* A step keeps the queue in turn: one that does not touch it, one that    *)
(* joins it, one that leaves it.                                           *)
LEMMA TurnsStay ==
  ASSUME InTurn, UNCHANGED waiting, waiting \in Seq(Turns),
         \A t \in Turns : IsDue(t) => IsDue(t)',
         \A c \in R!Connections, w \in R!Closers :
             closer'[c][w] = "unregister" => closer[c][w] = "unregister"
  PROVE  InTurn'
<1>1. \A i \in Positions : waiting[i] \in Turns
  BY DEF Positions
<1>2. Positions' = Positions
  BY DEF Positions
<1> QED
  BY <1>1, <1>2 DEF InTurn

LEMMA TurnsJoin ==
  ASSUME InTurn, waiting \in Seq(Turns), NEW t \in Turns, waiting' = Append(waiting, t),
         \A u \in Turns : IsDue(u) => IsDue(u)', IsDue(t)',
         \A i \in Positions : waiting[i] # t,
         t.kind = "register" =>
             \A i \in Positions : waiting[i] # R!Turn("unregister", t.of),
         \A c \in R!Connections, w \in R!Closers :
             closer'[c][w] = "unregister" =>
                 closer[c][w] = "unregister" \/ R!Turn("unregister", c) = t
  PROVE  InTurn'
<1> DEFINE n == Len(waiting)
<1>1. /\ n \in Nat /\ Positions = 1 .. n /\ Positions' = 1 .. (n + 1) /\ waiting'[n + 1] = t
      /\ \A i \in 1 .. n : waiting'[i] = waiting[i] /\ waiting[i] \in Turns
  BY QueueJoined DEF Positions
<1>2. \A i \in Positions' : IsDue(waiting[i])'
  <2> SUFFICES ASSUME NEW i \in Positions' PROVE IsDue(waiting[i])'
    OBVIOUS
  <2>1. CASE i = n + 1
    BY <1>1, <2>1 DEF IsDue
  <2>2. CASE i \in 1 .. n
    <3>1. PICK u \in Turns : u = waiting[i]
      BY <1>1, <2>2
    <3>2. IsDue(u) /\ waiting'[i] = u
      BY <1>1, <2>2, <3>1 DEF InTurn
    <3>3. IsDue(u)'
      BY <3>1, <3>2
    <3> QED
      BY <3>2, <3>3 DEF IsDue
  <2> QED
    BY <1>1, <2>1, <2>2
<1>3. \A i, j \in Positions' : waiting'[i] = waiting'[j] => i = j
  BY <1>1 DEF InTurn
<1>4. \A i, j \in Positions' :
        waiting'[i].kind = "register" /\ waiting'[j] = R!Turn("unregister", waiting'[i].of) => i < j
  <2> SUFFICES ASSUME NEW i \in 1 .. (n + 1), NEW j \in 1 .. (n + 1),
                      waiting'[i].kind = "register",
                      waiting'[j] = R!Turn("unregister", waiting'[i].of)
               PROVE  i < j
    BY <1>1
  <2>1. CASE i \in 1 .. n /\ j \in 1 .. n
    BY <1>1, <2>1 DEF InTurn
  <2>2. CASE i = n + 1 /\ j \in 1 .. n
    BY <1>1, <2>2
  <2>3. CASE i = n + 1 /\ j = n + 1
    BY <1>1, <2>3 DEF R!Turn
  <2> QED
    BY <1>1, <2>1, <2>2, <2>3
<1>5. ASSUME NEW c \in R!Connections, NEW w \in R!Closers, closer'[c][w] = "unregister"
      PROVE  \E i \in Positions' : waiting'[i] = R!Turn("unregister", c)
  BY <1>1, <1>5 DEF InTurn
<1> QED
  BY <1>2, <1>3, <1>4, <1>5 DEF InTurn, R!Turn

LEMMA TurnsLeave ==
  ASSUME InTurn, waiting \in Seq(Turns), waiting # <<>>, R!Leaves,
         \A u \in Turns, i \in Positions :
             waiting[i] = u /\ IsDue(u) /\ u # Head(waiting) => IsDue(u)',
         \A c \in R!Connections, w \in R!Closers :
             closer'[c][w] = "unregister" =>
                 closer[c][w] = "unregister" /\ R!Turn("unregister", c) # Head(waiting)
  PROVE  InTurn'
<1> DEFINE n == Len(waiting)
<1>1. /\ n \in Nat /\ n >= 1 /\ Positions = 1 .. n /\ Positions' = 1 .. (n - 1)
      /\ waiting[1] = Head(waiting) /\ \A i \in 1 .. n : waiting[i] \in Turns
      /\ \A i \in 1 .. (n - 1) : waiting'[i] = waiting[i + 1]
  BY QueueLeft DEF Positions
<1>2. ASSUME NEW i \in 1 .. (n - 1) PROVE IsDue(waiting[i])'
  <2>1. PICK u \in Turns : u = waiting[i + 1]
    BY <1>1
  <2>2. IsDue(u) /\ waiting'[i] = u /\ u # Head(waiting)
    BY <1>1, <2>1 DEF InTurn
  <2>3. IsDue(u)'
    BY <1>1, <2>1, <2>2
  <2> QED
    BY <2>2, <2>3 DEF IsDue
<1>3. ASSUME NEW i \in 1 .. (n - 1), NEW j \in 1 .. (n - 1)
      PROVE  /\ waiting'[i] = waiting'[j] => i = j
             /\ waiting'[i].kind = "register" /\ waiting'[j] = R!Turn("unregister", waiting'[i].of)
                  => i < j
  <2>1. /\ i + 1 \in 1 .. n /\ j + 1 \in 1 .. n
        /\ waiting'[i] = waiting[i + 1] /\ waiting'[j] = waiting[j + 1]
    BY <1>1
  <2>2. /\ waiting[i + 1] = waiting[j + 1] => i + 1 = j + 1
        /\ waiting[i + 1].kind = "register"
             /\ waiting[j + 1] = R!Turn("unregister", waiting[i + 1].of) => i + 1 < j + 1
    BY <1>1, <2>1 DEF InTurn
  <2> QED
    BY <1>1, <2>1, <2>2
<1>4. ASSUME NEW c \in R!Connections, NEW w \in R!Closers, closer'[c][w] = "unregister"
      PROVE  \E i \in 1 .. (n - 1) : waiting'[i] = R!Turn("unregister", c)
  <2>1. PICK i \in 1 .. n : waiting[i] = R!Turn("unregister", c)
    BY <1>1, <1>4 DEF InTurn
  <2>2. i - 1 \in 1 .. (n - 1) /\ waiting'[i - 1] = waiting[i]
    BY <1>1, <1>4, <2>1
  <2> QED
    BY <2>1, <2>2
<1> QED
  BY <1>1, <1>2, <1>3, <1>4 DEF InTurn, R!Turn

(* A connection, and a notification, that a step leaves alone.             *)
LEMMA ConnStay ==
  ASSUME NEW d \in R!Connections, CloseOK(d), KnownOK(d),
         socket'[d] = socket[d], receive'[d] = receive[d], stop'[d] = stop[d],
         completed'[d] = completed[d], closing'[d] = closing[d], closer'[d] = closer[d],
         registry' = d <=> registry = d, d \in greeted' <=> d \in greeted
  PROVE  CloseOK(d)' /\ KnownOK(d)'
  BY DEF CloseOK, KnownOK

LEMMA PushStay ==
  ASSUME NEW p \in Pushes, PushOK(p), push'[p] = push[p], p \in file' <=> p \in file,
         push[p].at = "sending" => R!Holds("send", p)' /\ registry' = registry
  PROVE  PushOK(p)'
  BY DEF PushOK

(* While a notification is on its way, the lock is its own.                *)
LEMMA OneSends ==
  ASSUME RobotInv, NEW kind, NEW of, R!Holds(kind, of), NEW p \in Pushes, push[p].at = "sending"
  PROVE  kind = "send" /\ of = p
  BY DEF RobotInv, PushOK, R!Holds, R!Turn

LEMMA CloserSet ==
  ASSUME RobotTypes, NEW c \in R!Connections, NEW w \in R!Closers,
         NEW x \in {R!None, "task", "lock", "body", "socket", "unregister", "done", "cancelled"},
         closer' = [closer EXCEPT ![c][w] = x]
  PROVE  /\ closer' \in CloserTypes
         /\ closer'[c][w] = x /\ \A v \in R!Closers : v # w => closer'[c][v] = closer[c][v]
         /\ \A d \in R!Connections : d # c => closer'[d] = closer[d]
  BY DEF RobotTypes, CloserTypes

-----------------------------------------------------------------------------
(* The actions.                                                           *)
LEMMA ConnectsInv ==
  ASSUME RobotInv, NEW c \in R!Connections, R!Connects(c) PROVE RobotInv'
<1>1. RobotTypes'
  BY DEF RobotInv, RobotTypes, R!Connects, R!closeVars, R!pushVars
<1>2. ASSUME NEW d \in R!Connections PROVE CloseOK(d)' /\ KnownOK(d)'
  <2>1. d # c => socket'[d] = socket[d] /\ receive'[d] = receive[d]
    BY DEF RobotInv, RobotTypes, R!Connects
  <2>2. CASE d # c
    BY <2>1, <2>2, ConnStay DEF RobotInv, R!Connects, R!closeVars
  <2>3. CASE d = c
    <3>1. socket'[c] = "open" /\ receive'[c] = "loop" /\ socket[c] = R!None
      BY DEF RobotInv, RobotTypes, R!Connects
    <3> QED
      BY <2>3, <3>1 DEF RobotInv, R!Connects, R!closeVars, CloseOK, KnownOK, R!None
  <2> QED
    BY <2>2, <2>3
<1>3. InTurn'
  <2>1. receive[c] = R!None
    BY DEF RobotInv, CloseOK, R!Connects
  <2>2. ASSUME NEW t \in Turns, IsDue(t) PROVE IsDue(t)'
    BY <2>1, <2>2
       DEF IsDue, RobotInv, RobotTypes, R!Connects, R!closeVars, R!pushVars, R!None, Turns
  <2> QED
    BY <2>2, TurnsStay DEF RobotInv, RobotTypes, R!Connects, R!closeVars
<1>4. \A p \in Pushes : PushOK(p)'
  BY PushStay DEF RobotInv, PushOK, R!Holds, R!Connects, R!pushVars
<1> QED
  BY <1>1, <1>2, <1>3, <1>4 DEF RobotInv

LEMMA DropsInv ==
  ASSUME RobotInv, NEW c \in R!Connections, R!Drops(c) PROVE RobotInv'
<1>1. RobotTypes'
  BY DEF RobotInv, RobotTypes, R!Drops, R!closeVars, R!pushVars
<1>2. ASSUME NEW d \in R!Connections PROVE CloseOK(d)' /\ KnownOK(d)'
  <2>1. d # c => socket'[d] = socket[d]
    BY DEF RobotInv, RobotTypes, R!Drops
  <2>2. CASE d # c
    BY <2>1, <2>2, ConnStay DEF RobotInv, R!Drops, R!closeVars
  <2>3. CASE d = c
    <3>1. socket'[c] = "closed"
      BY DEF RobotInv, RobotTypes, R!Drops
    <3> QED
      BY <2>3, <3>1 DEF RobotInv, R!Drops, R!closeVars, CloseOK, KnownOK, R!None
  <2> QED
    BY <2>2, <2>3
<1>3. InTurn'
  <2>1. ASSUME NEW t \in Turns, IsDue(t) PROVE IsDue(t)'
    BY <2>1 DEF IsDue, R!Drops, R!closeVars, R!pushVars
  <2> QED
    BY <2>1, TurnsStay DEF RobotInv, RobotTypes, R!Drops, R!closeVars
<1>4. \A p \in Pushes : PushOK(p)'
  BY PushStay DEF RobotInv, PushOK, R!Holds, R!Drops, R!pushVars
<1> QED
  BY <1>1, <1>2, <1>3, <1>4 DEF RobotInv

LEMMA HelloInv ==
  ASSUME RobotInv, NEW c \in R!Connections, R!Hello(c) PROVE RobotInv'
<1>1. RobotTypes'
  BY DEF RobotInv, RobotTypes, R!Hello, R!closeVars, R!pushVars
<1>2. ASSUME NEW d \in R!Connections PROVE CloseOK(d)' /\ KnownOK(d)'
  <2>1. d # c => receive'[d] = receive[d]
    BY DEF RobotInv, RobotTypes, R!Hello
  <2>2. CASE d # c
    BY <2>1, <2>2, ConnStay DEF RobotInv, R!Hello, R!closeVars
  <2>3. CASE d = c
    <3>1. receive'[c] = "welcome" /\ receive[c] = "loop"
      BY DEF RobotInv, RobotTypes, R!Hello
    <3> QED
      BY <2>3, <3>1 DEF RobotInv, R!Hello, R!closeVars, CloseOK, KnownOK, R!None
  <2> QED
    BY <2>2, <2>3
<1>3. InTurn'
  <2>1. ASSUME NEW t \in Turns, IsDue(t) PROVE IsDue(t)'
    BY <2>1 DEF IsDue, RobotInv, RobotTypes, R!Hello, R!closeVars, R!pushVars, Turns
  <2> QED
    BY <2>1, TurnsStay DEF RobotInv, RobotTypes, R!Hello, R!closeVars
<1>4. \A p \in Pushes : PushOK(p)'
  BY PushStay DEF RobotInv, PushOK, R!Holds, R!Hello, R!pushVars
<1> QED
  BY <1>1, <1>2, <1>3, <1>4 DEF RobotInv

LEMMA WelcomedInv ==
  ASSUME RobotInv, NEW c \in R!Connections, R!Welcomed(c) PROVE RobotInv'
<1> DEFINE t == R!Turn("register", c)
<1>1. t \in Turns /\ waiting \in Seq(Turns) /\ waiting' = Append(waiting, t)
  BY DEF Turns, R!Turn, RobotInv, RobotTypes, R!Welcomed, R!Waits
<1>2. receive[c] = "welcome" /\ socket[c] = "open" /\ receive'[c] = "register"
  BY DEF RobotInv, RobotTypes, R!Welcomed
<1>3. RobotTypes'
  BY <1>1, QueueJoined DEF RobotInv, RobotTypes, R!Welcomed, R!closeVars, R!pushVars
<1>4. ASSUME NEW d \in R!Connections PROVE CloseOK(d)' /\ KnownOK(d)'
  <2>1. d # c => receive'[d] = receive[d]
    BY DEF RobotInv, RobotTypes, R!Welcomed
  <2>2. CASE d # c
    BY <2>1, <2>2, ConnStay DEF RobotInv, R!Welcomed, R!closeVars
  <2>3. CASE d = c
    BY <2>3, <1>2 DEF RobotInv, R!Welcomed, R!closeVars, CloseOK, KnownOK, R!None
  <2> QED
    BY <2>2, <2>3
<1>5. InTurn'
  <2>1. ASSUME NEW u \in Turns, IsDue(u) PROVE IsDue(u)'
    BY <2>1, <1>2 DEF IsDue, RobotInv, RobotTypes, R!Welcomed, R!closeVars, R!pushVars, Turns
  <2>2. ~completed[c]
    BY <1>2 DEF RobotInv, CloseOK
  <2>3. IsDue(t)'
    BY <1>2, <2>2 DEF IsDue, R!Turn, R!Welcomed, R!closeVars
  <2>4. \A i \in Positions : waiting[i] # t /\ waiting[i] # R!Turn("unregister", c)
    <3> SUFFICES ASSUME NEW i \in Positions
                 PROVE  waiting[i] # t /\ waiting[i] # R!Turn("unregister", c)
      OBVIOUS
    <3>1. IsDue(waiting[i])
      BY DEF RobotInv, InTurn
    <3> QED
      BY <3>1, <1>2 DEF IsDue, R!Turn, RobotInv, CloseOK
  <2> QED
    BY <1>1, <2>1, <2>3, <2>4, TurnsJoin DEF RobotInv, R!Welcomed, R!closeVars, R!Turn
<1>6. \A p \in Pushes : PushOK(p)'
  BY <1>1, QueueJoined, PushStay DEF RobotInv, PushOK, R!Welcomed, R!pushVars
<1> QED
  BY <1>3, <1>4, <1>5, <1>6 DEF RobotInv

LEMMA RegistersInv ==
  ASSUME RobotInv, NEW c \in R!Connections, R!Registers(c) PROVE RobotInv'
<1> DEFINE t == R!Turn("register", c)
<1>1. /\ t \in Turns /\ waiting \in Seq(Turns) /\ waiting # <<>> /\ R!Leaves
      /\ Head(waiting) = t /\ IsDue(t)
  <2>1. t \in Turns /\ waiting \in Seq(Turns) /\ waiting # <<>> /\ R!Leaves /\ Head(waiting) = t
    BY DEF Turns, R!Turn, RobotInv, RobotTypes, R!Registers, R!Holds
  <2>2. 1 \in Positions /\ waiting[1] = t
    BY <2>1, QueueLeft DEF Positions
  <2> QED
    BY <2>1, <2>2 DEF RobotInv, InTurn
<1>2. /\ receive[c] = "register" /\ ~completed[c] /\ c \notin greeted
      /\ receive'[c] = "loop" /\ registry' = c /\ greeted' = greeted \cup {c}
  BY <1>1 DEF IsDue, R!Turn, RobotInv, RobotTypes, KnownOK, R!Registers
<1>3. /\ UNCHANGED <<socket, stop, closing, completed, push, file>>
      /\ \A d \in R!Connections : d # c => receive'[d] = receive[d]
  BY DEF RobotInv, RobotTypes, R!Registers, R!pushVars
<1> DEFINE r == registry
<1>4. /\ closer' \in CloserTypes
      /\ \A d \in R!Connections : d # r \/ d = c => closer'[d] = closer[d]
      /\ \A d \in R!Connections : d = r /\ d # c =>
           /\ closer'[d]["replaced"] = "task" /\ closer[d]["replaced"] = R!None
           /\ \A v \in R!Closers : v # "replaced" => closer'[d][v] = closer[d][v]
  <2>1. CASE r \in {0, c}
    BY <2>1, SafetyAssumption DEF RobotInv, RobotTypes, R!Registers, R!Connections
  <2>2. CASE r \notin {0, c}
    <3>1. r \in R!Connections /\ closer' = [closer EXCEPT ![r]["replaced"] = "task"]
      BY <2>2, SafetyAssumption DEF RobotInv, RobotTypes, R!Connections, R!Registers
    <3>2. "replaced" \in R!Closers
      BY DEF R!Closers
    <3>3. closer[r]["replaced"] = R!None
      BY <3>1 DEF RobotInv, KnownOK
    <3> QED
      BY <2>2, <3>1, <3>2, <3>3, CloserSet DEF RobotInv
  <2> QED
    BY <2>1, <2>2
<1>5. RobotTypes'
  <2>1. registry' \in 0 .. MaxConnections
    BY <1>2, SafetyAssumption DEF R!Connections
  <2>2. receive' \in [R!Connections ->
                       {R!None, "loop", "welcome", "register", "close", "done"}]
    BY DEF RobotInv, RobotTypes, R!Registers
  <2> QED
    BY <1>1, <1>2, <1>3, <1>4, <2>1, <2>2, QueueLeft DEF RobotInv, RobotTypes
<1>6. ASSUME NEW d \in R!Connections PROVE CloseOK(d)' /\ KnownOK(d)'
  <2>1. CloseOK(d) /\ KnownOK(d)
    BY DEF RobotInv
  <2>2. CASE d # c /\ d # r
    BY <1>2, <1>3, <1>4, <2>1, <2>2, ConnStay
  <2>3. CASE d = c
    BY <1>2, <1>3, <1>4, <2>1, <2>3 DEF CloseOK, KnownOK, R!None
  <2>4. CASE d # c /\ d = r
    <3>1. CloseOK(d)'
      BY <1>3, <1>4, <2>1, <2>4 DEF CloseOK, R!None, Under, R!Closers
    <3>2. KnownOK(d)'
      BY <1>2, <1>3, <1>4, <2>1, <2>4 DEF KnownOK, R!None
    <3> QED
      BY <3>1, <3>2
  <2> QED
    BY <2>2, <2>3, <2>4
<1>7. InTurn'
  <2>1. ASSUME NEW d \in R!Connections, NEW w \in R!Closers
        PROVE  closer'[d][w] = "unregister" <=> closer[d][w] = "unregister"
    BY <1>4, <2>1 DEF R!None
  <2>2. ASSUME NEW u \in Turns, IsDue(u), u # t PROVE IsDue(u)'
    <3>1. CASE u.kind = "register"
      <4>1. u.of \in R!Connections /\ u.of # c
        BY <2>2, <3>1 DEF Turns, R!Turn
      <4> QED
        BY <1>3, <2>2, <3>1, <4>1 DEF IsDue
    <3>2. CASE u.kind = "unregister"
      BY <2>1, <2>2, <3>2 DEF IsDue, Turns
    <3>3. CASE u.kind \notin {"register", "unregister"}
      BY <1>3, <2>2, <3>3 DEF IsDue
    <3> QED
      BY <3>1, <3>2, <3>3
  <2>3. \A d \in R!Connections : R!Turn("unregister", d) # t
    BY DEF R!Turn
  <2> QED
    BY <1>1, <2>1, <2>2, <2>3, TurnsLeave DEF RobotInv
<1>8. ASSUME NEW p \in Pushes PROVE PushOK(p)'
  <2>1. push[p].at # "sending"
    BY OneSends DEF R!Registers
  <2> QED
    BY <1>3, <2>1, PushStay DEF RobotInv
<1> QED
  BY <1>5, <1>6, <1>7, <1>8 DEF RobotInv

(* close() is called, by the receive loop's end, the clock or the task.    *)
LEMMA CallsInv ==
  ASSUME RobotInv, NEW c \in R!Connections, NEW w \in R!Closers, R!Calls(c, w),
         closer[c][w] \in {R!None, "task"},
         \/ w # "handler" /\ UNCHANGED receive
         \/ /\ w = "handler" /\ receive' = [receive EXCEPT ![c] = "close"]
            /\ receive[c] \in {"loop", "welcome"},
         w = "replaced" => closer[c][w] = "task"
  PROVE  RobotInv'
<1>1. /\ UNCHANGED <<socket, closing, completed, registry, waiting, push, file, greeted>>
      /\ stop' \in [R!Connections -> BOOLEAN] /\ stop'[c]
      /\ \A d \in R!Connections : d # c => stop'[d] = stop[d]
  BY DEF RobotInv, RobotTypes, R!Calls, R!pushVars
<1>2. /\ receive' \in [R!Connections -> {R!None, "loop", "welcome", "register", "close", "done"}]
      /\ \A d \in R!Connections : d # c => receive'[d] = receive[d]
      /\ w = "handler" => receive'[c] = "close" /\ receive[c] \in {"loop", "welcome"}
      /\ w # "handler" => receive'[c] = receive[c]
  BY DEF RobotInv, RobotTypes
<1> PICK x \in {"done", "lock"} : x = IF completed[c] THEN "done" ELSE "lock"
  OBVIOUS
<1>3. /\ closer' \in CloserTypes
      /\ \A d \in R!Connections : d # c => closer'[d] = closer[d]
      /\ closer'[c][w] = x /\ \A v \in R!Closers : v # w => closer'[c][v] = closer[c][v]
  <2>1. closer' = [closer EXCEPT ![c][w] = x]
    BY DEF R!Calls
  <2>2. x \in {R!None, "task", "lock", "body", "socket", "unregister", "done", "cancelled"}
    OBVIOUS
  <2>3. RobotTypes
    BY DEF RobotInv
  <2> QED
    BY ONLY <2>1, <2>2, <2>3, CloserSet, c \in R!Connections, w \in R!Closers
<1>4. RobotTypes'
  BY <1>1, <1>2, <1>3 DEF RobotInv, RobotTypes
<1>5. ASSUME NEW d \in R!Connections PROVE CloseOK(d)' /\ KnownOK(d)'
  <2>1. CloseOK(d) /\ KnownOK(d)
    BY DEF RobotInv
  <2>2. CASE d # c
    BY <1>1, <1>2, <1>3, <2>1, <2>2, ConnStay
  <2>3. CASE d = c
    <3>1. CloseOK(c)'
      BY <1>1, <1>2, <1>3, <2>1, <2>3 DEF CloseOK, R!Closers, Under, R!None
    <3>2. KnownOK(c)'
      BY <1>1, <1>2, <1>3, <2>1, <2>3 DEF KnownOK, R!Closers, R!None
    <3> QED
      BY <2>3, <3>1, <3>2
  <2> QED
    BY <2>2, <2>3
<1>6. InTurn'
  <2>1. ASSUME NEW d \in R!Connections, NEW v \in R!Closers
        PROVE  closer'[d][v] = "unregister" <=> closer[d][v] = "unregister"
    BY <1>3, <2>1 DEF R!None
  <2>2. ASSUME NEW u \in Turns, IsDue(u) PROVE IsDue(u)'
    <3>1. u.kind = "unregister" => u.of \in R!Connections
      BY DEF Turns
    <3>2. receive[c] = "register" => receive'[c] = "register"
      BY <1>2
    <3>3. u.kind = "register" => u.of \in R!Connections
      BY DEF Turns
    <3> QED
      BY <1>1, <1>2, <2>1, <2>2, <3>1, <3>2, <3>3 DEF IsDue
  <2> QED
    BY <1>1, <2>1, <2>2, TurnsStay DEF RobotInv, RobotTypes
<1>7. ASSUME NEW p \in Pushes PROVE PushOK(p)'
  BY <1>1, PushStay DEF RobotInv, PushOK, R!Holds
<1> QED
  BY <1>4, <1>5, <1>6, <1>7 DEF RobotInv

LEMMA GoesStep ==
  ASSUME RobotInv, NEW c \in R!Connections, NEW w \in R!Closers, NEW x,
         x \in {"socket", "unregister", "done"}, R!Goes(c, w, x)
  PROVE  /\ closer' \in CloserTypes
         /\ \A d \in R!Connections : d # c => closer'[d] = closer[d]
         /\ closer'[c][w] = x /\ \A v \in R!Closers : v # w => closer'[c][v] = closer[c][v]
<1>1. x \in {R!None, "task", "lock", "body", "socket", "unregister", "done", "cancelled"}
  OBVIOUS
<1> QED
  BY <1>1 DEF RobotInv, RobotTypes, CloserTypes, R!Goes

LEMMA FollowsInv ==
  ASSUME RobotInv, NEW c \in R!Connections, NEW w \in R!Closers, R!Follows(c, w) PROVE RobotInv'
<1>1. /\ UNCHANGED <<socket, receive, stop, closing, completed, registry, waiting, push, file,
                     greeted>>
      /\ closer[c][w] = "lock" /\ completed[c] /\ R!Goes(c, w, "done")
  BY DEF R!Follows, R!pushVars
<1>2. /\ closer' \in CloserTypes
      /\ \A d \in R!Connections : d # c => closer'[d] = closer[d]
      /\ closer'[c][w] = "done" /\ \A v \in R!Closers : v # w => closer'[c][v] = closer[c][v]
  BY <1>1, GoesStep
<1>3. RobotTypes'
  BY <1>1, <1>2 DEF RobotInv, RobotTypes
<1>4. ASSUME NEW d \in R!Connections PROVE CloseOK(d)' /\ KnownOK(d)'
  <2>1. CloseOK(d) /\ KnownOK(d)
    BY DEF RobotInv
  <2>2. CASE d # c
    BY <1>1, <1>2, <2>1, <2>2, ConnStay
  <2>3. CASE d = c
    BY <1>1, <1>2, <2>1, <2>3 DEF CloseOK, KnownOK, R!Closers, Under, R!None
  <2> QED
    BY <2>2, <2>3
<1>5. InTurn'
  <2>1. ASSUME NEW d \in R!Connections, NEW v \in R!Closers
        PROVE  closer'[d][v] = "unregister" <=> closer[d][v] = "unregister"
    BY <1>1, <1>2, <2>1
  <2>2. ASSUME NEW u \in Turns, IsDue(u) PROVE IsDue(u)'
    BY <1>1, <2>1, <2>2 DEF IsDue, Turns
  <2> QED
    BY <1>1, <2>1, <2>2, TurnsStay DEF RobotInv, RobotTypes
<1>6. ASSUME NEW p \in Pushes PROVE PushOK(p)'
  BY <1>1, PushStay DEF RobotInv, PushOK, R!Holds
<1> QED
  BY <1>3, <1>4, <1>5, <1>6 DEF RobotInv

LEMMA LocksInv ==
  ASSUME RobotInv, NEW c \in R!Connections, NEW w \in R!Closers, R!Locks(c, w) PROVE RobotInv'
<1>1. /\ UNCHANGED <<socket, receive, stop, completed, registry, waiting, push, file, greeted>>
      /\ closer[c][w] = "lock" /\ closing[c] = R!None /\ ~completed[c]
  BY DEF R!Locks, R!pushVars
<1>2. /\ closing' \in [R!Connections -> R!Closers \cup {R!None}] /\ closing'[c] = w
      /\ \A d \in R!Connections : d # c => closing'[d] = closing[d]
  BY DEF RobotInv, RobotTypes, R!Locks
<1>3. /\ closer' \in CloserTypes
      /\ \A d \in R!Connections : d # c => closer'[d] = closer[d]
      /\ closer'[c][w] = "body"
      /\ \A v \in R!Closers :
           v # w => \/ closer'[c][v] = closer[c][v]
                    \/ /\ v \in {"timeout", "ended"} /\ closer'[c][v] = "cancelled"
                       /\ closer[c][v] \in {R!None, "lock"}
  <2>1. PICK x \in {R!None, "task", "lock", "body", "socket", "unregister", "done", "cancelled"} :
          /\ x = R!TimeoutEnds(c, w)
          /\ x # closer[c]["timeout"] =>
               x = "cancelled" /\ closer[c]["timeout"] \in {R!None, "lock"}
    BY DEF RobotInv, RobotTypes, CloserTypes, R!TimeoutEnds, R!Closers
  <2>7. PICK y \in R!EndedEnds(c, w) :
          closer' = [closer EXCEPT ![c]["timeout"] = R!TimeoutEnds(c, w), ![c]["ended"] = y,
                                   ![c][w] = "body"]
    BY DEF R!Locks
  <2>8. /\ y \in {R!None, "task", "lock", "body", "socket", "unregister", "done", "cancelled"}
        /\ y # closer[c]["ended"] => y = "cancelled" /\ closer[c]["ended"] = "lock"
    BY <2>7 DEF RobotInv, RobotTypes, CloserTypes, R!EndedEnds, R!Closers
  <2>2. closer' = [closer EXCEPT ![c]["timeout"] = x, ![c]["ended"] = y, ![c][w] = "body"]
    BY <2>1, <2>7
  <2>3. closer \in CloserTypes
    BY DEF RobotInv, RobotTypes
  <2>4. closer'[c] = [closer[c] EXCEPT !["timeout"] = x, !["ended"] = y, ![w] = "body"]
    BY <2>2, <2>3 DEF CloserTypes
  <2>5. /\ \A d \in R!Connections : d # c => closer'[d] = closer[d]
        /\ DOMAIN closer' = R!Connections
        /\ closer' = [d \in R!Connections |-> closer'[d]]
    BY <2>2, <2>3 DEF CloserTypes
  <2>6. /\ closer'[c] \in [R!Closers -> {R!None, "task", "lock", "body", "socket",
                                       "unregister", "done", "cancelled"}]
        /\ closer'[c][w] = "body"
        /\ \A v \in R!Closers :
             v # w => closer'[c][v] = IF v = "ended" THEN y
                                      ELSE IF v = "timeout" THEN x ELSE closer[c][v]
    BY <2>3, <2>4, <2>8 DEF CloserTypes
  <2> QED
    BY <2>1, <2>3, <2>5, <2>6, <2>8 DEF CloserTypes
<1>4. RobotTypes'
  BY <1>1, <1>2, <1>3 DEF RobotInv, RobotTypes
<1>5. ASSUME NEW d \in R!Connections PROVE CloseOK(d)' /\ KnownOK(d)'
  <2>1. CloseOK(d) /\ KnownOK(d)
    BY DEF RobotInv
  <2>2. CASE d # c
    BY <1>1, <1>2, <1>3, <2>1, <2>2, ConnStay
  <2>3. CASE d = c
    <3>1. ~ \E v \in R!Closers : closer[c][v] \in Under
      BY <1>1, <2>1, <2>3 DEF CloseOK, R!Closers, R!None
    <3>2. CloseOK(c)'
      BY <1>1, <1>2, <1>3, <2>1, <2>3, <3>1 DEF CloseOK, R!Closers, Under, R!None
    <3>3. KnownOK(c)'
      BY <1>1, <1>2, <1>3, <2>1, <2>3 DEF KnownOK, R!Closers, R!None
    <3> QED
      BY <2>3, <3>2, <3>3
  <2> QED
    BY <2>2, <2>3
<1>6. InTurn'
  <2>1. ASSUME NEW d \in R!Connections, NEW v \in R!Closers
        PROVE  closer'[d][v] = "unregister" <=> closer[d][v] = "unregister"
    BY <1>1, <1>3, <2>1 DEF R!None
  <2>2. ASSUME NEW u \in Turns, IsDue(u) PROVE IsDue(u)'
    BY <1>1, <2>1, <2>2 DEF IsDue, Turns
  <2> QED
    BY <1>1, <2>1, <2>2, TurnsStay DEF RobotInv, RobotTypes
<1>7. ASSUME NEW p \in Pushes PROVE PushOK(p)'
  BY <1>1, PushStay DEF RobotInv, PushOK, R!Holds
<1> QED
  BY <1>4, <1>5, <1>6, <1>7 DEF RobotInv

LEMMA ClosesSocketInv ==
  ASSUME RobotInv, NEW c \in R!Connections, NEW w \in R!Closers, R!ClosesSocket(c, w)
  PROVE  RobotInv'
<1>1. /\ UNCHANGED <<receive, stop, closing, completed, registry, waiting, push, file, greeted>>
      /\ closer[c][w] = "body" /\ R!Goes(c, w, "socket")
  BY DEF R!ClosesSocket, R!pushVars
<1>2. /\ socket' \in [R!Connections -> {R!None, "open", "closed"}] /\ socket'[c] = "closed"
      /\ \A d \in R!Connections : d # c => socket'[d] = socket[d]
  BY DEF RobotInv, RobotTypes, R!ClosesSocket
<1>3. /\ closer' \in CloserTypes
      /\ \A d \in R!Connections : d # c => closer'[d] = closer[d]
      /\ closer'[c][w] = "socket" /\ \A v \in R!Closers : v # w => closer'[c][v] = closer[c][v]
  BY <1>1, GoesStep
<1>4. RobotTypes'
  BY <1>1, <1>2, <1>3 DEF RobotInv, RobotTypes
<1>5. ASSUME NEW d \in R!Connections PROVE CloseOK(d)' /\ KnownOK(d)'
  <2>1. CloseOK(d) /\ KnownOK(d)
    BY DEF RobotInv
  <2>2. CASE d # c
    BY <1>1, <1>2, <1>3, <2>1, <2>2, ConnStay
  <2>3. CASE d = c
    BY <1>1, <1>2, <1>3, <2>1, <2>3 DEF CloseOK, KnownOK, R!Closers, Under, R!None
  <2> QED
    BY <2>2, <2>3
<1>6. InTurn'
  <2>1. ASSUME NEW d \in R!Connections, NEW v \in R!Closers
        PROVE  closer'[d][v] = "unregister" <=> closer[d][v] = "unregister"
    BY <1>1, <1>3, <2>1
  <2>2. ASSUME NEW u \in Turns, IsDue(u) PROVE IsDue(u)'
    BY <1>1, <2>1, <2>2 DEF IsDue, Turns
  <2> QED
    BY <1>1, <2>1, <2>2, TurnsStay DEF RobotInv, RobotTypes
<1>7. ASSUME NEW p \in Pushes PROVE PushOK(p)'
  BY <1>1, PushStay DEF RobotInv, PushOK, R!Holds
<1> QED
  BY <1>4, <1>5, <1>6, <1>7 DEF RobotInv

LEMMA AsksToLeaveInv ==
  ASSUME RobotInv, NEW c \in R!Connections, NEW w \in R!Closers, R!AsksToLeave(c, w) PROVE RobotInv'
<1> DEFINE t == R!Turn("unregister", c)
<1>1. /\ UNCHANGED <<socket, receive, stop, closing, completed, registry, push, file, greeted>>
      /\ closer[c][w] = "socket" /\ R!Goes(c, w, "unregister")
      /\ t \in Turns /\ waiting \in Seq(Turns) /\ waiting' = Append(waiting, t)
  BY DEF R!AsksToLeave, R!Waits, R!pushVars, RobotInv, RobotTypes, Turns, R!Turn
<1>2. /\ closer' \in CloserTypes
      /\ \A d \in R!Connections : d # c => closer'[d] = closer[d]
      /\ closer'[c][w] = "unregister" /\ \A v \in R!Closers : v # w => closer'[c][v] = closer[c][v]
  BY <1>1, GoesStep
<1>3. RobotTypes'
  BY <1>1, <1>2, QueueJoined DEF RobotInv, RobotTypes
<1>4. ASSUME NEW d \in R!Connections PROVE CloseOK(d)' /\ KnownOK(d)'
  <2>1. CloseOK(d) /\ KnownOK(d)
    BY DEF RobotInv
  <2>2. CASE d # c
    BY <1>1, <1>2, <2>1, <2>2, ConnStay
  <2>3. CASE d = c
    BY <1>1, <1>2, <2>1, <2>3 DEF CloseOK, KnownOK, R!Closers, Under, R!None
  <2> QED
    BY <2>2, <2>3
<1>5. InTurn'
  <2>1. ASSUME NEW d \in R!Connections, NEW v \in R!Closers, closer'[d][v] = "unregister"
        PROVE  closer[d][v] = "unregister" \/ R!Turn("unregister", d) = t
    BY <1>2, <2>1
  <2>2. ASSUME NEW u \in Turns, IsDue(u) PROVE IsDue(u)'
    <3>1. \A d \in R!Connections, v \in R!Closers :
            closer[d][v] = "unregister" => closer'[d][v] = "unregister"
      BY <1>1, <1>2
    <3> QED
      BY <1>1, <2>2, <3>1 DEF IsDue, Turns
  <2>3. IsDue(t)'
    BY <1>2 DEF IsDue, R!Turn
  <2>4. \A i \in Positions : waiting[i] # t
    <3>1. ~ \E v \in R!Closers : closer[c][v] = "unregister"
      BY <1>1 DEF RobotInv, CloseOK, Under
    <3> QED
      BY <3>1 DEF IsDue, R!Turn, RobotInv, InTurn
  <2> QED
    BY <1>1, <2>1, <2>2, <2>3, <2>4, TurnsJoin DEF RobotInv, R!Turn
<1>6. ASSUME NEW p \in Pushes PROVE PushOK(p)'
  BY <1>1, QueueJoined, PushStay DEF RobotInv, PushOK
<1> QED
  BY <1>3, <1>4, <1>5, <1>6 DEF RobotInv

LEMMA UnregistersInv ==
  ASSUME RobotInv, NEW c \in R!Connections, NEW w \in R!Closers, R!Unregisters(c, w) PROVE RobotInv'
<1> DEFINE t == R!Turn("unregister", c)
<1>1. /\ UNCHANGED <<socket, receive, stop, push, file, greeted>>
      /\ closer[c][w] = "unregister" /\ R!Goes(c, w, "done") /\ registry' = R!Without(c)
      /\ waiting \in Seq(Turns) /\ waiting # <<>> /\ R!Leaves /\ Head(waiting) = t
  BY DEF R!Unregisters, R!Holds, R!pushVars, RobotInv, RobotTypes
<1>2. /\ completed' \in [R!Connections -> BOOLEAN] /\ completed'[c]
      /\ closing' \in [R!Connections -> R!Closers \cup {R!None}] /\ closing'[c] = R!None
      /\ \A d \in R!Connections :
           d # c => completed'[d] = completed[d] /\ closing'[d] = closing[d]
  BY DEF R!Unregisters, RobotInv, RobotTypes
<1>3. /\ closer' \in CloserTypes
      /\ \A d \in R!Connections : d # c => closer'[d] = closer[d]
      /\ closer'[c][w] = "done" /\ \A v \in R!Closers : v # w => closer'[c][v] = closer[c][v]
  BY <1>1, GoesStep
<1>4. /\ registry' \in 0 .. MaxConnections /\ registry' # c
      /\ \A d \in R!Connections : d # c => (registry' = d <=> registry = d)
  BY <1>1, SafetyAssumption DEF R!Without, RobotInv, RobotTypes, R!Connections
<1>5. RobotTypes'
  BY <1>1, <1>2, <1>3, <1>4, QueueLeft DEF RobotInv, RobotTypes
<1>6. ASSUME NEW d \in R!Connections PROVE CloseOK(d)' /\ KnownOK(d)'
  <2>1. CloseOK(d) /\ KnownOK(d)
    BY DEF RobotInv
  <2>2. CASE d # c
    BY <1>1, <1>2, <1>3, <1>4, <2>1, <2>2, ConnStay
  <2>3. CASE d = c
    <3>1. closing[c] = w /\ stop[c] /\ socket[c] = "closed"
      BY <1>1, <2>1, <2>3 DEF CloseOK, Under, R!None
    <3>2. CloseOK(c)'
      BY <1>1, <1>2, <1>3, <2>1, <2>3, <3>1 DEF CloseOK, Under, R!Closers, R!None
    <3>3. KnownOK(c)'
      BY <1>1, <1>3, <1>4, <2>1, <2>3, <3>1 DEF KnownOK, R!Closers, R!None
    <3> QED
      BY <2>3, <3>2, <3>3
  <2> QED
    BY <2>2, <2>3
<1>7. InTurn'
  <2>1. ASSUME NEW d \in R!Connections, NEW v \in R!Closers, closer'[d][v] = "unregister"
        PROVE  closer[d][v] = "unregister" /\ R!Turn("unregister", d) # t
    <3>1. \A x \in R!Closers : closer[c][x] = "unregister" => x = w
      BY <1>1 DEF RobotInv, CloseOK, Under
    <3> QED
      BY <1>3, <2>1, <3>1 DEF R!Turn
  <2>2. ASSUME NEW u \in Turns, NEW i \in Positions, waiting[i] = u, IsDue(u), u # t
        PROVE  IsDue(u)'
    <3>1. u = R!Turn(u.kind, u.of)
      BY DEF Turns, R!Turn
    <3>2. CASE u.kind = "register"
      <4>1. /\ 1 \in Positions /\ waiting[1] = t /\ i \in 1 .. Len(waiting)
            /\ Len(waiting) \in Nat
        BY <1>1, QueueLeft DEF Positions
      <4>2. u.of # c
        <5> SUFFICES ASSUME u.of = c PROVE FALSE
          OBVIOUS
        <5>1. i < 1
          BY <2>2, <3>2, <4>1 DEF RobotInv, InTurn
        <5> QED
          BY <4>1, <5>1
      <4>3. u.of \in R!Connections
        BY <3>2 DEF Turns
      <4> QED
        BY <1>1, <1>2, <2>2, <3>2, <4>2, <4>3 DEF IsDue
    <3>3. CASE u.kind = "unregister"
      <4>1. u.of \in R!Connections /\ u.of # c
        BY <2>2, <3>1, <3>3 DEF Turns
      <4> QED
        BY <1>3, <2>2, <3>3, <4>1 DEF IsDue
    <3>4. CASE u.kind \notin {"register", "unregister"}
      BY <1>1, <2>2, <3>4 DEF IsDue
    <3> QED
      BY <3>2, <3>3, <3>4
  <2> QED
    BY <1>1, <2>1, <2>2, TurnsLeave DEF RobotInv
<1>8. ASSUME NEW p \in Pushes PROVE PushOK(p)'
  <2>1. push[p].at # "sending"
    BY OneSends DEF R!Unregisters
  <2> QED
    BY <1>1, <2>1, PushStay DEF RobotInv
<1> QED
  BY <1>5, <1>6, <1>7, <1>8 DEF RobotInv

LEMMA ReturnsInv ==
  ASSUME RobotInv, NEW c \in R!Connections, R!Returns(c) PROVE RobotInv'
<1>1. /\ UNCHANGED <<socket, stop, closer, closing, completed, registry, waiting, push, file,
                     greeted>>
      /\ receive[c] = "close" /\ receive'[c] = "done"
      /\ receive' \in [R!Connections -> {R!None, "loop", "welcome", "register", "close", "done"}]
      /\ \A d \in R!Connections : d # c => receive'[d] = receive[d]
  BY DEF R!Returns, R!closeVars, R!pushVars, RobotInv, RobotTypes
<1>2. RobotTypes'
  BY <1>1 DEF RobotInv, RobotTypes
<1>3. ASSUME NEW d \in R!Connections PROVE CloseOK(d)' /\ KnownOK(d)'
  <2>1. CloseOK(d) /\ KnownOK(d)
    BY DEF RobotInv
  <2>2. CASE d # c
    BY <1>1, <2>1, <2>2, ConnStay
  <2>3. CASE d = c
    BY <1>1, <2>1, <2>3 DEF CloseOK, KnownOK, R!None
  <2> QED
    BY <2>2, <2>3
<1>4. InTurn'
  <2>1. ASSUME NEW u \in Turns, IsDue(u) PROVE IsDue(u)'
    BY <1>1, <2>1 DEF IsDue, Turns
  <2> QED
    BY <1>1, <2>1, TurnsStay DEF RobotInv, RobotTypes
<1>5. ASSUME NEW p \in Pushes PROVE PushOK(p)'
  BY <1>1, PushStay DEF RobotInv, PushOK, R!Holds
<1> QED
  BY <1>2, <1>3, <1>4, <1>5 DEF RobotInv

-----------------------------------------------------------------------------
ConnSame == UNCHANGED <<socket, receive, stop, closer, closing, completed, registry, greeted>>

LEMMA PushSet ==
  ASSUME RobotInv, NEW p \in Pushes, NEW to \in {"get", "send", "sending", "sent", "failed"},
         R!PushGoes(p, to)
  PROVE  /\ push' \in PushTypes /\ push'[p].at = to /\ push'[p].conn = push[p].conn
         /\ \A q \in Pushes : q # p => push'[q] = push[q]
  BY DEF R!PushGoes, PushTypes, RobotInv, RobotTypes

LEMMA ConnAll ==
  ASSUME RobotInv, ConnSame PROVE \A c \in R!Connections : CloseOK(c)' /\ KnownOK(c)'
<1> SUFFICES ASSUME NEW c \in R!Connections PROVE CloseOK(c)' /\ KnownOK(c)'
  OBVIOUS
<1>1. CloseOK(c) /\ KnownOK(c)
  BY DEF RobotInv
<1> QED
  BY <1>1, ConnStay DEF ConnSame

(* A notification's step leaves the lock, if it is there it asks for it,   *)
(* or does not touch it.                                                   *)
LEMMA PushLeaves ==
  ASSUME RobotInv, ConnSame, NEW p \in Pushes, NEW kind \in {"get", "send"}, R!Holds(kind, p),
         R!Leaves, push' \in PushTypes, \A q \in Pushes : q # p => push'[q] = push[q],
         file' = file \/ file' = file \ {p}, push'[p].at \in {"generate", "sent", "failed"},
         push'[p].at = "failed" => p \notin file',
         push'[p].at = "generate" => push'[p].conn \in R!Connections
  PROVE  RobotInv'
<1> DEFINE t == R!Turn(kind, p)
<1>1. waiting \in Seq(Turns) /\ waiting # <<>> /\ Head(waiting) = t
  BY DEF RobotInv, RobotTypes, R!Holds
<1>2. RobotTypes'
  BY <1>1, QueueLeft DEF ConnSame, RobotInv, RobotTypes
<1>3. InTurn'
  <2>1. ASSUME NEW u \in Turns, IsDue(u), u # t PROVE IsDue(u)'
    <3>1. CASE u.kind \in {"register", "unregister"}
      BY <2>1, <3>1 DEF IsDue, ConnSame
    <3>2. CASE u.kind \in {"get", "send"}
      <4>1. u.of \in Pushes /\ u = R!Turn(u.kind, u.of)
        BY <3>2 DEF Turns, R!Turn
      <4>2. u.of # p
        <5> SUFFICES ASSUME u.of = p PROVE FALSE
          OBVIOUS
        <5>1. 1 \in Positions /\ waiting[1] = t /\ IsDue(t)
          BY <1>1, QueueLeft DEF Positions, RobotInv, InTurn
        <5>2. IsDue(u) /\ u.kind # kind
          BY <2>1, <4>1
        <5> QED
          BY <3>2, <5>1, <5>2 DEF IsDue, R!Turn
      <4> QED
        BY <2>1, <3>2, <4>1, <4>2 DEF IsDue
    <3> QED
      BY <3>1, <3>2 DEF Turns
  <2>2. \A c \in R!Connections : R!Turn("unregister", c) # t
    BY DEF R!Turn
  <2> QED
    BY <1>1, <2>1, <2>2, TurnsLeave DEF RobotInv, ConnSame
<1>4. ASSUME NEW q \in Pushes PROVE PushOK(q)'
  <2>1. CASE q = p
    BY <2>1 DEF PushOK, R!None
  <2>2. CASE q # p
    <3>1. push[q].at # "sending"
      BY <2>2, OneSends
    <3> QED
      BY <2>2, <3>1, PushStay DEF RobotInv
  <2> QED
    BY <2>1, <2>2
<1> QED
  BY <1>2, <1>3, <1>4, ConnAll DEF RobotInv

LEMMA PushAsks ==
  ASSUME RobotInv, ConnSame, NEW p \in Pushes, NEW kind \in {"get", "send"}, R!Waits(kind, p),
         push' \in PushTypes, \A q \in Pushes : q # p => push'[q] = push[q],
         push'[p].at = kind, push[p].at \notin {"get", "send", "sending"},
         \/ kind = "get" /\ file' = file /\ p \notin file
         \/ kind = "send" /\ file' = file \cup {p} /\ push'[p].conn \in R!Connections
  PROVE  RobotInv'
<1> DEFINE t == R!Turn(kind, p)
<1>1. t \in Turns /\ waiting \in Seq(Turns) /\ waiting' = Append(waiting, t)
  BY DEF RobotInv, RobotTypes, R!Waits, Turns, R!Turn
<1>2. RobotTypes'
  BY <1>1, QueueJoined DEF ConnSame, RobotInv, RobotTypes
<1>3. InTurn'
  <2>1. ASSUME NEW u \in Turns, IsDue(u) PROVE IsDue(u)'
    <3>1. CASE u.kind \in {"register", "unregister"}
      BY <2>1, <3>1 DEF IsDue, ConnSame
    <3>2. CASE u.kind \in {"get", "send"}
      <4>1. u.of \in Pushes
        BY <3>2 DEF Turns
      <4> QED
        BY <2>1, <3>2, <4>1 DEF IsDue
    <3> QED
      BY <3>1, <3>2 DEF Turns
  <2>2. IsDue(t)'
    BY DEF IsDue, R!Turn
  <2>3. \A i \in Positions : waiting[i] # t
    BY DEF IsDue, R!Turn, RobotInv, InTurn
  <2>4. t.kind # "register"
    BY DEF R!Turn
  <2> QED
    BY <1>1, <2>1, <2>2, <2>3, <2>4, TurnsJoin DEF RobotInv, ConnSame
<1>4. ASSUME NEW q \in Pushes PROVE PushOK(q)'
  <2>1. CASE q = p
    BY <2>1 DEF PushOK, R!None
  <2>2. CASE q # p
    BY <1>1, <2>2, QueueJoined, PushStay DEF RobotInv, PushOK, ConnSame
  <2> QED
    BY <2>1, <2>2
<1> QED
  BY <1>2, <1>3, <1>4, ConnAll DEF RobotInv

LEMMA PushStays ==
  ASSUME RobotInv, ConnSame, UNCHANGED waiting, NEW p \in Pushes, push' \in PushTypes,
         \A q \in Pushes : q # p => push'[q] = push[q], file' = file \/ file' = file \ {p},
         PushOK(p)', push[p].at # "get",
         push[p].at \in {"send", "sending"} => push'[p].at \in {"send", "sending"}
  PROVE  RobotInv'
<1>1. RobotTypes'
  BY DEF ConnSame, RobotInv, RobotTypes
<1>2. InTurn'
  <2>1. ASSUME NEW u \in Turns, IsDue(u) PROVE IsDue(u)'
    <3>1. CASE u.kind \in {"register", "unregister"}
      BY <2>1, <3>1 DEF IsDue, ConnSame
    <3>2. CASE u.kind \in {"get", "send"}
      <4>1. u.of \in Pushes
        BY <3>2 DEF Turns
      <4> QED
        BY <2>1, <3>2, <4>1 DEF IsDue
    <3> QED
      BY <3>1, <3>2 DEF Turns
  <2> QED
    BY <2>1, TurnsStay DEF RobotInv, RobotTypes, ConnSame
<1>3. ASSUME NEW q \in Pushes, q # p PROVE PushOK(q)'
  BY <1>3, PushStay DEF RobotInv, PushOK, R!Holds, ConnSame
<1> QED
  BY <1>1, <1>2, <1>3, ConnAll DEF RobotInv

LEMMA PushInv ==
  ASSUME RobotInv, NEW p \in Pushes,
         R!Asks(p) \/ R!Generates(p) \/ R!GeneratesNot(p) \/ R!Push(p) \/ R!Expires(p)
  PROVE  RobotInv'
<1>1. PushOK(p) /\ push \in PushTypes
  BY DEF RobotInv, RobotTypes
<1>2. CASE R!Asks(p)
  <2>1. /\ push[p].at = R!None /\ R!PushGoes(p, "get") /\ R!Waits("get", p) /\ UNCHANGED file
        /\ ConnSame
    BY <1>2 DEF R!Asks, R!Pushed, ConnSame, R!closeVars
  <2> QED
    BY <1>1, <2>1, PushSet, PushAsks DEF PushOK, R!None
<1>3. CASE R!Generates(p)
  <2>1. /\ push[p].at = "generate" /\ R!PushGoes(p, "send") /\ R!Waits("send", p)
        /\ file' = file \cup {p} /\ ConnSame
    BY <1>3 DEF R!Generates, R!Pushed, ConnSame, R!closeVars
  <2> QED
    BY <1>1, <2>1, PushSet, PushAsks DEF PushOK, R!None
<1>4. CASE R!GeneratesNot(p)
  <2>1. /\ push[p].at = "generate" /\ R!PushGoes(p, "failed") /\ UNCHANGED waiting
        /\ file' = file \ {p} /\ ConnSame
    BY <1>4 DEF R!GeneratesNot, R!Fails, R!Pushed, ConnSame, R!closeVars
  <2>2. PushOK(p)'
    BY <2>1, PushSet DEF PushOK, R!None
  <2> QED
    BY <2>1, <2>2, PushSet, PushStays
<1>5. CASE R!Refuses(p)
  <2>1. /\ push[p].at = "get" /\ R!PushGoes(p, "failed") /\ R!Holds("get", p) /\ R!Leaves
        /\ UNCHANGED file /\ ConnSame
    BY <1>5 DEF R!Refuses, R!Pushed, ConnSame, R!closeVars
  <2> QED
    BY <1>1, <2>1, PushSet, PushLeaves DEF PushOK
<1>6. CASE R!Finds(p)
  <2>1. /\ push' = [push EXCEPT ![p] = [at |-> "generate", conn |-> registry]]
        /\ R!Holds("get", p) /\ R!Leaves /\ UNCHANGED file /\ ConnSame /\ registry \in R!Connections
    BY <1>6, SafetyAssumption
       DEF R!Finds, ConnSame, R!closeVars, RobotInv, RobotTypes, R!Connections
  <2>2. /\ push' \in PushTypes /\ push'[p].at = "generate" /\ push'[p].conn = registry
        /\ \A q \in Pushes : q # p => push'[q] = push[q]
    BY <1>1, <2>1, SafetyAssumption DEF PushTypes, R!Connections
  <2> QED
    BY <2>1, <2>2, PushLeaves
<1>7. CASE R!GivesUp(p)
  <2>1. /\ R!PushGoes(p, "failed") /\ R!Holds("send", p) /\ R!Leaves
        /\ file' = file \ {p} /\ ConnSame
    BY <1>7 DEF R!GivesUp, R!Fails, R!Pushed, ConnSame, R!closeVars
  <2> QED
    BY <2>1, PushSet, PushLeaves
<1>8. CASE R!Sends(p)
  <2>1. /\ push[p].at = "send" /\ R!PushGoes(p, "sending") /\ R!Holds("send", p) /\ R!Current(p)
        /\ UNCHANGED <<waiting, file>> /\ ConnSame
    BY <1>8 DEF R!Sends, R!Pushed, ConnSame, R!closeVars
  <2>2. PushOK(p)'
    BY <1>1, <2>1, PushSet DEF PushOK, R!None, R!Current, R!Holds, ConnSame
  <2> QED
    BY <2>1, <2>2, PushSet, PushStays
<1>9. CASE R!Sent(p) \/ R!NotSent(p)
  <2>1. /\ push[p].at = "sending" /\ R!Leaves /\ ConnSame
        /\ \/ R!PushGoes(p, "sent") /\ file' = file
           \/ R!PushGoes(p, "failed") /\ file' = file \ {p}
    BY <1>9 DEF R!Sent, R!NotSent, R!Fails, R!Pushed, ConnSame, R!closeVars
  <2>2. R!Holds("send", p)
    BY <1>1, <2>1 DEF PushOK
  <2>3. CASE R!PushGoes(p, "sent") /\ file' = file
    BY <2>1, <2>2, <2>3, PushSet, PushLeaves
  <2>4. CASE R!PushGoes(p, "failed") /\ file' = file \ {p}
    BY <2>1, <2>2, <2>4, PushSet, PushLeaves
  <2> QED
    BY <2>1, <2>3, <2>4
<1>10. CASE R!Expires(p)
  <2>1. p \in file /\ file' = file \ {p} /\ UNCHANGED <<waiting, push>> /\ ConnSame
    BY <1>10 DEF R!Expires, ConnSame, R!closeVars
  <2>2. PushOK(p)' /\ push[p].at # "get"
    BY <1>1, <2>1 DEF PushOK, R!Holds, ConnSame
  <2> QED
    BY <1>1, <2>1, <2>2, PushStays
<1> QED
  BY <1>2, <1>3, <1>4, <1>5, <1>6, <1>7, <1>8, <1>9, <1>10 DEF R!Push

-----------------------------------------------------------------------------
LEMMA RobotStep ==
  ASSUME RobotInv, R!Next \/ UNCHANGED robotVars PROVE RobotInv'
<1>1. CASE UNCHANGED robotVars
  BY <1>1 DEF robotVars, RobotInv, RobotTypes, CloseOK, KnownOK, InTurn, IsDue, Positions,
              PushOK, R!Holds
<1>2. ASSUME NEW c \in R!Connections, NEW w \in R!Closers, R!Close(c, w) PROVE RobotInv'
  BY <1>2, FollowsInv, LocksInv, ClosesSocketInv, AsksToLeaveInv, UnregistersInv DEF R!Close
<1>3. ASSUME NEW c \in R!Connections,
             R!LoopEnds(c) \/ R!TimesOut(c) \/ R!Replaced(c) \/ R!Ends(c)
      PROVE  RobotInv'
  <2>0. CloseOK(c) /\ {"handler", "timeout", "replaced", "ended"} \subseteq R!Closers
    BY DEF RobotInv, R!Closers
  <2>1. CASE R!LoopEnds(c)
    BY <2>0, <2>1, CallsInv DEF R!LoopEnds, CloseOK
  <2>2. CASE R!TimesOut(c)
    BY <2>0, <2>2, CallsInv DEF R!TimesOut
  <2>3. CASE R!Replaced(c)
    BY <2>0, <2>3, CallsInv DEF R!Replaced
  <2>4. CASE R!Ends(c)
    BY <2>0, <2>4, CallsInv DEF R!Ends
  <2> QED
    BY <1>3, <2>1, <2>2, <2>3, <2>4
<1>4. ASSUME NEW c \in R!Connections,
             \/ R!Connects(c) \/ R!Drops(c) \/ R!Hello(c) \/ R!Welcomed(c)
             \/ R!Registers(c) \/ R!Returns(c)
      PROVE  RobotInv'
  BY <1>4, ConnectsInv, DropsInv, HelloInv, WelcomedInv, RegistersInv, ReturnsInv
<1> QED
  BY <1>1, <1>2, <1>3, <1>4, PushInv DEF R!Next, R!Receive

\* The robot's newest connection is the registered one and never a closed one, every
\* other that said hello is being closed, a notification goes into the registered
\* connection only, and while a close is unfinished or somebody waits for the registry
\* somebody can go on (ConnectedDeviceRegistry, ConnectionHandler.close() and
\* push_tts()), for any number of connections and notifications.
THEOREM NewestIsConnected == SafetySpec => []OneConnection
<1>1. SafetyInit => RobotInv
  BY RobotBegins DEF SafetyInit
<1>2. RobotInv /\ [SafetyNext]_allVars => RobotInv'
  <2>1. [SafetyNext]_allVars => R!Next \/ UNCHANGED robotVars
    BY DEF SafetyNext, Segment, Clone, Sound, RobotTools, Robot, allVars
  <2> QED
    BY <2>1, RobotStep
<1>3. RobotInv => OneConnection
  BY RobotShows DEF OneConnection
<1> QED
  BY <1>1, <1>2, <1>3, PTL DEF SafetySpec, allVars

-----------------------------------------------------------------------------
(* Maintenance. The invariant follows the word "paused" on its way to the  *)
(* controller: from the loop to the flag that the writer has read, to the  *)
(* report, to the decision. Wherever it is, the request for it lasts and   *)
(* the doors are shut, and they stay shut because the loop of a worker     *)
(* that is asked for a pause opens none. The word starts from a loop that  *)
(* is shut, never from one that opens again behind an older pause.         *)

\* The types, by owner.
ControlType ==
    /\ pausing \in BOOLEAN /\ asks \in 0 .. MaxAsks /\ taken \subseteq 0 .. MaxDeaths
LoopType ==
    /\ pc \in {"sleep", "decide", "bind", "flush", "settle"}
    /\ want \in BOOLEAN /\ draining \in BOOLEAN /\ admitPaused \in BOOLEAN
    /\ paused \in BOOLEAN /\ dirty \in BOOLEAN /\ pong \in BOOLEAN
    /\ sub \subseteq Queues
FileType ==
    /\ \A i \in report : i \in 0 .. MaxDeaths /\ report = {i}
    /\ flag \in {{}, {TRUE}, {FALSE}}
    /\ word \in {"none", "read", "written", "taken"}
NetType == connected \in BOOLEAN /\ routed \subseteq Queues /\ routedTo \subseteq Queues
WorkType ==
    /\ cb \in [Kinds -> {"none", "called", "replying"}]
    /\ serving \in [Kinds -> {"none", "created", "running"}]
ProcessType == instance \in 0 .. MaxDeaths /\ deaths \in 0 .. MaxDeaths
Types == ControlType /\ LoopType /\ FileType /\ NetType /\ WorkType /\ ProcessType

\* A round that has begun has told the services what it does; one that flushes
\* has bound its queues; and one whose flush was answered has nothing on its way.
RoundInv ==
    /\ pc \in {"bind", "flush", "settle"} => draining = want
    /\ pc \in {"flush", "settle"} => sub = W!Wanted
    /\ (pc = "settle" /\ want) => routed = {} /\ routedTo = {}

\* A loop between two rounds, the last of which went well, has left everything
\* in agreement.
RestInv ==
    (pc \in {"sleep", "decide"} /\ ~dirty) =>
        /\ draining = paused /\ admitPaused = paused
        /\ sub = IF paused THEN {} ELSE Queues

\* A process dies of a fault.
InstanceInv == instance <= deaths

LoopInv == Types /\ RoundInv /\ RestInv /\ InstanceInv

\* Nothing can be admitted, and nothing that was admitted is still to start.
DoorsShut ==
    /\ draining /\ sub = {} /\ routed = {} /\ routedTo = {}
    /\ \A q \in Queues : cb[q] = "none"
    /\ \A k \in Kinds : serving[k] # "created"

AtRest == \A k \in Kinds : serving[k] = "none"

\* The loop keeps the doors shut until it works on opening them, and what it does
\* for as long as a pause is asked for is no such work.
Closed == admitPaused /\ (pc \in {"bind", "flush", "settle"} => want)
Committed == pc # "sleep" => want

\* From the moment the word is on its way, what it says is so.
WordInv ==
    /\ Closed => DoorsShut
    /\ word # "none" => pausing /\ Committed /\ DoorsShut
    /\ word = "written" => report \subseteq {instance} /\ (report # {} => AtRest)
    /\ word = "taken" => instance \in taken /\ AtRest

PauseInv == LoopInv /\ WordInv

-----------------------------------------------------------------------------
LEMMA TypeFacts == LoopInv => W!TypeOK
<1> SUFFICES ASSUME LoopInv PROVE W!TypeOK
  OBVIOUS
<1>1. {want, draining, admitPaused, paused, dirty, pong, connected} \subseteq BOOLEAN
  BY DEF LoopInv, Types, LoopType, NetType
<1>2. RestInv /\ Types
  BY DEF LoopInv, Types
<1> QED
  BY <1>1, <1>2 DEF W!TypeOK, RestInv, Types, ControlType, LoopType, FileType,
                               NetType, WorkType, ProcessType

LEMMA PauseInit == W!Init => PauseInv
<1> SUFFICES ASSUME W!Init PROVE PauseInv
  OBVIOUS
<1>1. 0 \in 0 .. MaxDeaths /\ 0 \in 0 .. MaxAsks
  BY MaintenanceAssumption
<1>2. ControlType /\ ProcessType
  BY <1>1 DEF W!Init, ControlType, ProcessType
<1>3. FileType
  BY <1>1 DEF W!Init, FileType
<1>4. LoopType
  BY DEF W!Init, W!Fresh, LoopType
<1>5. NetType /\ WorkType
  BY DEF W!Init, NetType, WorkType
<1>6. RoundInv /\ RestInv
  BY DEF W!Init, W!Fresh, RoundInv, RestInv
<1>7. InstanceInv /\ WordInv
  BY DEF W!Init, W!Fresh, InstanceInv, WordInv, Closed
<1> QED
  BY <1>2, <1>3, <1>4, <1>5, <1>6, <1>7 DEF PauseInv, LoopInv, Types

\* What nobody but the loop and the connection writes.
LEMMA BaseFrame ==
    ASSUME LoopInv, UNCHANGED <<W!loop, W!net, instance, deaths>>, ControlType', FileType',
           WorkType'
    PROVE  LoopInv'
BY DEF LoopInv, Types, LoopType, NetType, ProcessType, RoundInv, RestInv, W!Wanted,
       InstanceInv, W!loop, W!net

\* What a step may do that leaves the word where it is: shut doors, and then do no
\* more than end jobs.
Shutting == DoorsShut' /\ \A k \in Kinds : serving[k] = "none" => serving'[k] = "none"

LEMMA WordFrame ==
    ASSUME WordInv, UNCHANGED <<W!control, W!file, word, instance>>,
           pausing /\ Committed => Committed',
           Closed' => Closed \/ DoorsShut',
           DoorsShut /\ (Closed' \/ (pausing /\ Committed)) => Shutting
    PROVE  WordInv'
<1>1. Closed' => DoorsShut'
  BY DEF WordInv, Shutting
<1>2. word' # "none" => pausing' /\ Committed' /\ DoorsShut' /\ Shutting
  BY DEF WordInv, Shutting, W!control
<1>3. Shutting /\ AtRest => AtRest'
  BY DEF Shutting, AtRest
<1>4. /\ word' = "written" => report' \subseteq {instance'} /\ (report' # {} => AtRest')
      /\ word' = "taken" => instance' \in taken' /\ AtRest'
  BY <1>2, <1>3 DEF WordInv, W!control, W!file
<1> QED
  BY <1>1, <1>2, <1>4 DEF WordInv

-----------------------------------------------------------------------------
\* The controller: it asks anew, acts on a word that was written, or lets go.
LEMMA ControlStep ==
    ASSUME LoopInv, W!Ask \/ W!Take \/ W!Withdraw
    PROVE  LoopInv' /\ (WordInv => WordInv')
<1>1. UNCHANGED <<W!loop, W!file, W!net, W!work, instance, deaths>>
  BY DEF W!Ask, W!Take, W!Withdraw
<1>2. ControlType' /\ word' \in {"none", "read", "written", "taken"}
  <2>1. CASE W!Ask
    BY <2>1, MaintenanceAssumption DEF LoopInv, Types, ControlType, FileType, W!Ask
  <2>2. CASE W!Take
    <3>1. report \subseteq 0 .. MaxDeaths
      BY DEF LoopInv, Types, FileType
    <3> QED
      BY <2>2, <3>1 DEF LoopInv, Types, ControlType, FileType, W!Take
  <2>3. CASE W!Withdraw
    BY <2>3 DEF LoopInv, Types, ControlType, FileType, W!Withdraw
  <2> QED
    BY <2>1, <2>2, <2>3
<1>3. FileType' /\ WorkType'
  BY <1>1, <1>2 DEF LoopInv, Types, FileType, WorkType, W!file, W!work
<1>4. LoopInv'
  BY <1>1, <1>2, <1>3, BaseFrame
<1>5. /\ Closed' = Closed /\ DoorsShut' = DoorsShut /\ Committed' = Committed
      /\ AtRest' = AtRest
  BY <1>1 DEF Closed, DoorsShut, Committed, AtRest, W!loop, W!net, W!work
<1>6. ASSUME WordInv, W!Ask
      PROVE  WordInv'
  <2>1. word = "none" /\ word' = word
    BY <1>6 DEF W!Ask, WordInv
  <2> QED
    BY <1>5, <1>6, <2>1 DEF WordInv
<1>7. ASSUME WordInv, W!Take
      PROVE  WordInv'
  <2>1. /\ pausing' = pausing /\ taken' = taken \cup report /\ ~(report \subseteq taken)
        /\ word' = IF word = "written" THEN "taken" ELSE word
    BY <1>7 DEF W!Take
  <2>2. word = "written" => report = {instance} /\ AtRest
    BY <1>7, <2>1 DEF WordInv
  <2> QED
    BY <1>1, <1>5, <1>7, <2>1, <2>2 DEF WordInv, W!file
<1>8. ASSUME WordInv, W!Withdraw
      PROVE  WordInv'
  <2>1. word' = "none"
    BY <1>8 DEF W!Withdraw
  <2> QED
    BY <1>5, <1>8, <2>1 DEF WordInv
<1> QED
  BY <1>4, <1>6, <1>7, <1>8

\* The loop: under a request every round of it is for a pause.
LEMMA LoopFrame ==
    ASSUME LoopInv, UNCHANGED <<W!control, W!file, word, W!net, W!work, instance>>,
           deaths' \in 0 .. MaxDeaths, deaths' >= deaths, LoopType', RoundInv', RestInv'
    PROVE  LoopInv'
<1>1. ControlType' /\ FileType' /\ NetType' /\ WorkType' /\ ProcessType'
  BY DEF LoopInv, Types, ControlType, FileType, NetType, WorkType, ProcessType, W!control,
         W!file, W!net, W!work
<1>2. InstanceInv'
  BY MaintenanceAssumption
     DEF LoopInv, InstanceInv, Types, ProcessType
<1> QED
  BY <1>1, <1>2 DEF LoopInv, Types

LEMMA LoopStep ==
    ASSUME LoopInv, W!Loop
    PROVE  LoopInv' /\ (WordInv => WordInv')
<1> DEFINE Goal ==
    /\ UNCHANGED <<W!control, W!file, word, W!net, W!work, instance>>
    /\ deaths' \in 0 .. MaxDeaths /\ deaths' >= deaths /\ LoopType' /\ RoundInv' /\ RestInv'
    /\ pausing /\ Committed => Committed'
    /\ Closed' => Closed \/ DoorsShut'
    /\ DoorsShut /\ (Closed' \/ (pausing /\ Committed)) => Shutting
<1>0. deaths \in 0 .. MaxDeaths /\ deaths >= deaths
  BY DEF LoopInv, Types, ProcessType
<1> USE <1>0 DEF LoopInv, Types, LoopType
<1>1. ASSUME W!ReadsRequest
      PROVE  Goal
  <2>1. UNCHANGED <<W!control, W!file, word, W!net, W!work, instance, deaths>>
    BY <1>1 DEF W!ReadsRequest
  <2>2. LoopType' /\ RoundInv' /\ RestInv'
    BY <1>1 DEF ControlType, W!ReadsRequest, RoundInv, RestInv
  <2>3. pausing /\ Committed => Committed'
    BY <1>1 DEF W!ReadsRequest, Committed
  <2>4. Closed' => Closed
    BY <1>1 DEF W!ReadsRequest, Closed
  <2>5. DoorsShut /\ (Closed' \/ (pausing /\ Committed)) => Shutting
    BY <1>1 DEF W!ReadsRequest, Closed, Committed, Shutting, DoorsShut, RoundInv, RestInv, W!net, W!work
  <2> QED
    BY <2>1, <2>2, <2>3, <2>4, <2>5
<1>2. ASSUME W!Decides
      PROVE  Goal
  <2>1. UNCHANGED <<W!control, W!file, word, W!net, W!work, instance, deaths>>
    BY <1>2 DEF W!Decides
  <2>2. LoopType' /\ RoundInv' /\ RestInv'
    BY <1>2 DEF W!Decides, W!MustAct, W!DrainsAs, RoundInv, RestInv
  <2>3. pausing /\ Committed => Committed'
    BY <1>2 DEF W!Decides, W!MustAct, W!DrainsAs, Committed
  <2>4. Closed' => Closed
    BY <1>2 DEF W!Decides, W!MustAct, W!DrainsAs, Closed
  <2>5. DoorsShut /\ (Closed' \/ (pausing /\ Committed)) => Shutting
    BY <1>2 DEF W!Decides, W!MustAct, W!DrainsAs, Closed, Committed, Shutting, DoorsShut, RoundInv, RestInv, W!net, W!work
  <2> QED
    BY <2>1, <2>2, <2>3, <2>4, <2>5
<1>3. ASSUME NEW q \in Queues, W!Binds(q)
      PROVE  Goal
  <2>1. UNCHANGED <<W!control, W!file, word, W!net, W!work, instance, deaths>>
    BY <1>3 DEF W!Binds
  <2>2. LoopType' /\ RoundInv' /\ RestInv'
    BY <1>3 DEF W!Binds, RoundInv, RestInv
  <2>3. pausing /\ Committed => Committed'
    BY <1>3 DEF W!Binds, Committed
  <2>4. Closed' => Closed
    BY <1>3 DEF W!Binds, Closed
  <2>5. DoorsShut /\ (Closed' \/ (pausing /\ Committed)) => Shutting
    BY <1>3 DEF W!Binds, Closed, Committed, Shutting, DoorsShut, RoundInv, RestInv, W!net, W!work
  <2> QED
    BY <2>1, <2>2, <2>3, <2>4, <2>5
<1>4. ASSUME W!BeginsFlush
      PROVE  Goal
  <2>1. UNCHANGED <<W!control, W!file, word, W!net, W!work, instance, deaths>>
    BY <1>4 DEF W!BeginsFlush
  <2>2. LoopType' /\ RoundInv' /\ RestInv'
    BY <1>4 DEF W!BeginsFlush, RoundInv, RestInv, W!Wanted
  <2>3. pausing /\ Committed => Committed'
    BY <1>4 DEF W!BeginsFlush, Committed
  <2>4. Closed' => Closed
    BY <1>4 DEF W!BeginsFlush, Closed
  <2>5. DoorsShut /\ (Closed' \/ (pausing /\ Committed)) => Shutting
    BY <1>4 DEF W!BeginsFlush, Closed, Committed, Shutting, DoorsShut, RoundInv, RestInv, W!net, W!work
  <2> QED
    BY <2>1, <2>2, <2>3, <2>4, <2>5
<1>5. ASSUME W!Flushed
      PROVE  Goal
  <2>1. UNCHANGED <<W!control, W!file, word, W!net, W!work, instance, deaths>>
    BY <1>5 DEF W!Flushed
  <2>2. LoopType' /\ RestInv'
    BY <1>5 DEF W!Flushed, RestInv
  <2>3. RoundInv'
    BY <1>5 DEF W!Flushed, W!Answered, RoundInv, W!Wanted, W!net
  <2>4. pausing /\ Committed => Committed'
    BY <1>5 DEF W!Flushed, Committed
  <2>5. Closed' => Closed
    BY <1>5 DEF W!Flushed, Closed
  <2>6. DoorsShut /\ (Closed' \/ (pausing /\ Committed)) => Shutting
    BY <1>5 DEF W!Flushed, Closed, Committed, Shutting, DoorsShut, RoundInv, RestInv, W!net, W!work
  <2> QED
    BY <2>1, <2>2, <2>3, <2>4, <2>5, <2>6
<1>6. ASSUME W!RoundFails
      PROVE  Goal
  <2>1. UNCHANGED <<W!control, W!file, word, W!net, W!work, instance>>
    BY <1>6 DEF W!RoundFails
  <2>2. LoopType' /\ RoundInv' /\ RestInv'
    BY <1>6 DEF W!RoundFails, W!Retries, RoundInv, RestInv
  <2>5. deaths' \in 0 .. MaxDeaths /\ deaths' >= deaths
    BY <1>6, MaintenanceAssumption DEF W!RoundFails
  <2>6. pausing /\ Committed => Committed'
    BY <1>6 DEF W!RoundFails, W!Retries, Committed
  <2>7. Closed' => Closed
    BY <1>6 DEF W!RoundFails, W!Retries, Closed
  <2>8. DoorsShut /\ (Closed' \/ (pausing /\ Committed)) => Shutting
    BY <1>6 DEF W!RoundFails, W!Retries, Closed, Committed, Shutting, DoorsShut, RoundInv, RestInv, W!net, W!work
  <2> QED
    BY <2>1, <2>2, <2>5, <2>6, <2>7, <2>8
<1>7. ASSUME W!Acknowledges
      PROVE  Goal
  <2>1. UNCHANGED <<W!control, W!file, word, W!net, W!work, instance, deaths>>
    BY <1>7 DEF W!Acknowledges
  <2>2. LoopType' /\ RoundInv'
    BY <1>7 DEF W!Acknowledges, RoundInv
  <2>3. RestInv'
    BY <1>7 DEF W!Acknowledges, RoundInv, RestInv, W!Wanted
  <2>4. pausing /\ Committed => Committed'
    BY <1>7 DEF W!Acknowledges, Committed
  <2>5. Closed' => DoorsShut'
    BY <1>7 DEF W!Acknowledges, Closed, RoundInv, W!Wanted, DoorsShut, W!net, W!work
  <2>6. DoorsShut /\ (Closed' \/ (pausing /\ Committed)) => Shutting
    BY <1>7 DEF W!Acknowledges, Closed, Committed, Shutting, DoorsShut, RoundInv, RestInv, W!net, W!work
  <2> QED
    BY <2>1, <2>2, <2>3, <2>4, <2>5, <2>6
<1>8. Goal
  BY <1>1, <1>2, <1>3, <1>4, <1>5, <1>6, <1>7 DEF W!Loop
<1> QED
  BY <1>8, LoopFrame, WordFrame

-----------------------------------------------------------------------------
\* What arrives: where the doors are shut, nothing does.
LEMMA NetStep ==
    ASSUME LoopInv, NEW q \in Queues, W!Routes(q) \/ W!Delivers(q) \/ W!Registers(q)
    PROVE  LoopInv' /\ (WordInv => WordInv')
<1>1. UNCHANGED <<W!control, W!loop, W!file, word, serving, connected, instance, deaths>>
  BY DEF W!Routes, W!Delivers, W!Registers, W!work
<1>2. q \in Kinds
  BY MaintenanceAssumption
<1>3. NetType' /\ WorkType'
  <2>1. CASE W!Routes(q)
    BY <2>1 DEF W!Routes, LoopInv, Types, NetType, WorkType, W!work
  <2>2. CASE W!Delivers(q)
    BY <1>2, <2>2 DEF W!Delivers, LoopInv, Types, NetType, WorkType
  <2>3. CASE W!Registers(q)
    BY <2>3 DEF W!Registers, LoopInv, Types, NetType, WorkType, W!work
  <2> QED
    BY <2>1, <2>2, <2>3
<1>4. RoundInv'
  BY <1>1 DEF LoopInv, RoundInv, W!Wanted, W!Routes, W!Delivers, W!Registers, W!loop
<1>5. LoopInv'
  <2>1. ControlType' /\ FileType' /\ ProcessType'
    BY <1>1 DEF LoopInv, Types, ControlType, FileType, ProcessType, W!control, W!file
  <2>2. LoopType'
    BY <1>1 DEF LoopInv, Types, LoopType, W!loop
  <2>3. RestInv' /\ InstanceInv'
    BY <1>1 DEF LoopInv, RestInv, InstanceInv, W!control, W!loop, W!file
  <2> QED
    BY <1>3, <1>4, <2>1, <2>2, <2>3 DEF LoopInv, Types
<1>6. DoorsShut => Shutting
  BY <1>1 DEF DoorsShut, Shutting, W!Routes, W!Delivers, W!Registers, W!loop, W!work
<1>7. Committed' = Committed /\ Closed' = Closed
  BY <1>1 DEF Committed, Closed, W!loop
<1> QED
  BY <1>1, <1>5, <1>6, <1>7, WordFrame

\* Callbacks and jobs: a draining service admits nothing.
LEMMA ServiceStep ==
    ASSUME LoopInv, NEW k \in Kinds,
           \/ k \notin Queues /\ W!Arrives(k)
           \/ W!Service(k) \/ W!Starts(k) \/ W!JobEnds(k)
    PROVE  LoopInv' /\ (WordInv => WordInv')
<1>1. UNCHANGED <<W!control, W!loop, W!file, word, W!net, instance, deaths>>
  BY DEF W!Arrives, W!Service, W!Admits, W!Refuses, W!Replies, W!Starts, W!JobEnds
<1>2. /\ cb \in [Kinds -> {"none", "called", "replying"}]
      /\ serving \in [Kinds -> {"none", "created", "running"}]
  BY DEF LoopInv, Types, WorkType
<1> DEFINE Goal ==
    /\ WorkType'
    /\ DoorsShut => /\ \A q \in Queues : cb'[q] = cb[q]
                    /\ \A j \in Kinds : \/ serving'[j] = serving[j]
                                        \/ serving'[j] # "created" /\ serving[j] # "none"
<1>3. ASSUME k \notin Queues /\ W!Arrives(k)
      PROVE  Goal
  <2>1. serving' = serving /\ cb' = [cb EXCEPT ![k] = "called"]
    BY <1>3 DEF W!Arrives
  <2>2. WorkType'
    BY <1>2, <2>1 DEF WorkType
  <2>3. \A q \in Kinds : q # k => cb'[q] = cb[q]
    BY <1>2, <2>1
  <2>5. \A q \in Queues : cb'[q] = cb[q]
    BY <1>3, <2>3, MaintenanceAssumption
  <2>6. \A j \in Kinds : serving'[j] = serving[j]
    BY <2>1
  <2> QED
    BY <2>2, <2>5, <2>6
<1>4. ASSUME W!Admits(k)
      PROVE  Goal
  BY <1>2, <1>4 DEF W!Admits, W!Decided, WorkType, DoorsShut
<1>5. ASSUME W!Refuses(k)
      PROVE  Goal
  <2>1. serving' = serving /\ cb' = [cb EXCEPT ![k] = W!Decided(k)] /\ cb[k] = "called"
    BY <1>5 DEF W!Refuses
  <2>2. WorkType'
    BY <1>2, <2>1 DEF WorkType, W!Decided
  <2>3. \A q \in Kinds : q # k => cb'[q] = cb[q]
    BY <1>2, <2>1
  <2>4. k \in Queues => ~DoorsShut
    BY <2>1 DEF DoorsShut
  <2>5. DoorsShut => \A q \in Queues : cb'[q] = cb[q]
    BY <2>3, <2>4, MaintenanceAssumption
  <2>6. \A j \in Kinds : serving'[j] = serving[j]
    BY <2>1
  <2> QED
    BY <2>2, <2>5, <2>6
<1>6. ASSUME W!Replies(k)
      PROVE  Goal
  <2>1. serving' = serving /\ cb' = [cb EXCEPT ![k] = "none"] /\ cb[k] = "replying"
    BY <1>6 DEF W!Replies
  <2>2. WorkType'
    BY <1>2, <2>1 DEF WorkType
  <2>3. \A q \in Kinds : q # k => cb'[q] = cb[q]
    BY <1>2, <2>1
  <2>4. k \in Queues => ~DoorsShut
    BY <2>1 DEF DoorsShut
  <2>5. DoorsShut => \A q \in Queues : cb'[q] = cb[q]
    BY <2>3, <2>4, MaintenanceAssumption
  <2>6. \A j \in Kinds : serving'[j] = serving[j]
    BY <2>1
  <2> QED
    BY <2>2, <2>5, <2>6
<1>7. ASSUME W!Starts(k)
      PROVE  Goal
  BY <1>2, <1>7 DEF W!Starts, WorkType, DoorsShut
<1>8. ASSUME W!JobEnds(k)
      PROVE  Goal
  <2>1. cb' = cb /\ serving' = [serving EXCEPT ![k] = "none"] /\ serving[k] # "none"
    BY <1>8 DEF W!JobEnds
  <2>2. WorkType'
    BY <1>2, <2>1 DEF WorkType
  <2>3. \A j \in Kinds : IF j = k THEN serving'[j] = "none" ELSE serving'[j] = serving[j]
    BY <1>2, <2>1
  <2>4. \A j \in Kinds : serving'[j] = serving[j] \/ (serving'[j] # "created" /\ serving[j] # "none")
    BY <2>1, <2>3
  <2> QED
    BY <2>1, <2>2, <2>4
<1>9. Goal
  BY <1>3, <1>4, <1>5, <1>6, <1>7, <1>8 DEF W!Service
<1>10. LoopInv'
  <2>1. ControlType' /\ FileType'
    BY <1>1 DEF LoopInv, Types, ControlType, FileType, W!control, W!file
  <2> QED
    BY <1>1, <1>9, <2>1, BaseFrame
<1>11. DoorsShut => Shutting
  BY <1>1, <1>9 DEF DoorsShut, Shutting, W!loop, W!net
<1>12. Committed' = Committed /\ Closed' = Closed
  BY <1>1 DEF Committed, Closed, W!loop
<1> QED
  BY <1>1, <1>10, <1>11, <1>12, WordFrame

\* The activity file says of the process that writes it what it is.
LEMMA FileStep ==
    ASSUME LoopInv, W!ReadsFlag \/ W!Writes
    PROVE  LoopInv' /\ (WordInv => WordInv')
<1>1. UNCHANGED <<W!control, W!loop, W!net, W!work, instance, deaths>>
  BY DEF W!ReadsFlag, W!Writes
<1>2. ControlType' /\ WorkType'
  BY <1>1 DEF LoopInv, Types, ControlType, WorkType, W!control, W!work
<1>3. FileType'
  <2>1. CASE W!ReadsFlag
    BY <2>1 DEF W!ReadsFlag, LoopInv, Types, FileType, LoopType
  <2>2. CASE W!Writes
    BY <2>2 DEF W!Writes, LoopInv, Types, FileType, ProcessType
  <2> QED
    BY <2>1, <2>2
<1>4. LoopInv'
  BY <1>1, <1>2, <1>3, BaseFrame
<1>5. /\ Closed' = Closed /\ DoorsShut' = DoorsShut /\ Committed' = Committed
      /\ AtRest' = AtRest /\ UNCHANGED <<pausing, taken, instance>>
  BY <1>1 DEF Closed, DoorsShut, Committed, AtRest, W!control, W!loop, W!net, W!work
<1>6. ASSUME WordInv, W!ReadsFlag
      PROVE  WordInv'
  <2>1. report' = report /\ (word' = word \/ (word' = "read" /\ pausing /\ W!Shut))
    BY <1>6 DEF W!ReadsFlag
  <2>2. W!Shut => Closed /\ Committed
    BY DEF W!Shut, Closed, Committed
  <2> QED
    BY <1>5, <1>6, <2>1, <2>2 DEF WordInv
<1>7. ASSUME WordInv, W!Writes
      PROVE  WordInv'
  <2>1. /\ report' \subseteq {instance} /\ (report' # {} => W!Idle)
        /\ word' = IF word = "read" THEN "written" ELSE word
    BY <1>7 DEF W!Writes
  <2>2. DoorsShut /\ W!Idle => AtRest
    BY DEF DoorsShut, W!Idle, AtRest, LoopInv, Types, WorkType
  <2> QED
    BY <1>5, <1>7, <2>1, <2>2 DEF WordInv
<1> QED
  BY <1>4, <1>6, <1>7

\* The connection and the process: a new process has said nothing.
LEMMA FaultStep ==
    ASSUME LoopInv, W!Disconnects \/ W!Reconnects \/ W!Dies
    PROVE  LoopInv' /\ (WordInv => WordInv')
<1>1. CASE W!Disconnects
  <2>1. UNCHANGED <<W!control, W!file, word, W!work, instance, pc, want, draining, admitPaused,
                    paused, dirty, sub>>
        /\ connected' = FALSE /\ routed' = {} /\ routedTo' = {} /\ pong' = FALSE
    BY <1>1 DEF W!Disconnects
  <2>2. deaths' \in 0 .. MaxDeaths /\ deaths' >= deaths
    BY <1>1, MaintenanceAssumption DEF W!Disconnects, LoopInv, Types, ProcessType
  <2>3. ControlType' /\ FileType' /\ WorkType' /\ ProcessType'
    BY <2>1, <2>2 DEF LoopInv, Types, ControlType, FileType, WorkType, ProcessType,
                      W!control, W!file, W!work
  <2>4. LoopType' /\ NetType'
    BY <2>1 DEF LoopInv, Types, LoopType, NetType
  <2>5. RoundInv' /\ RestInv'
    BY <2>1 DEF LoopInv, RoundInv, RestInv, W!Wanted
  <2>6. InstanceInv'
    BY <2>1, <2>2, MaintenanceAssumption
       DEF LoopInv, InstanceInv, Types, ProcessType
  <2>7. DoorsShut => Shutting
    BY <2>1 DEF DoorsShut, Shutting, W!work
  <2>8. Committed' = Committed /\ Closed' = Closed
    BY <2>1 DEF Committed, Closed
  <2>9. UNCHANGED <<W!control, W!file, word, instance>>
    BY <2>1
  <2> QED
    BY <2>3, <2>4, <2>5, <2>6, <2>7, <2>8, <2>9, WordFrame DEF LoopInv, Types
<1>2. CASE W!Reconnects
  <2>1. UNCHANGED <<routed, routedTo, W!control, W!loop, W!file, word, W!work, instance, deaths>>
        /\ connected' = TRUE
    BY <1>2 DEF W!Reconnects
  <2>2. LoopInv'
    <3>1. ControlType' /\ FileType' /\ WorkType' /\ ProcessType'
      BY <2>1 DEF LoopInv, Types, ControlType, FileType, WorkType, ProcessType, W!control,
                  W!file, W!work
    <3>3. LoopType' /\ NetType'
      BY <2>1 DEF LoopInv, Types, LoopType, NetType, W!loop
    <3>2. RoundInv' /\ RestInv' /\ InstanceInv'
      BY <2>1 DEF LoopInv, RoundInv, RestInv, InstanceInv, W!Wanted, W!loop
    <3> QED
      BY <3>1, <3>2, <3>3 DEF LoopInv, Types
  <2>3. DoorsShut => Shutting
    BY <2>1 DEF DoorsShut, Shutting, W!loop, W!work
  <2>4. Committed' = Committed /\ Closed' = Closed
    BY <2>1 DEF Committed, Closed, W!loop
  <2> QED
    BY <2>1, <2>2, <2>3, <2>4, WordFrame
<1>3. CASE W!Dies
  <2>1. UNCHANGED <<pausing, asks, taken, report>> /\ instance' = instance + 1 /\ word' = "none"
        /\ deaths' = deaths + 1 /\ deaths < MaxDeaths /\ flag' = {}
    BY <1>3 DEF W!Dies, W!control
  <2>2. deaths' \in 0 .. MaxDeaths /\ instance' \in 0 .. MaxDeaths
    BY <2>1, MaintenanceAssumption DEF LoopInv, Types, ProcessType, InstanceInv
  <2>3. InstanceInv'
    BY <2>1, MaintenanceAssumption DEF LoopInv, InstanceInv, Types, ProcessType
  <2>4. ControlType' /\ FileType' /\ ProcessType'
    BY <2>1, <2>2 DEF LoopInv, Types, ControlType, FileType, ProcessType
  <2>5. LoopType'
    BY <1>3 DEF W!Dies, W!Fresh, LoopType
  <2>6. NetType' /\ WorkType'
    BY <1>3 DEF W!Dies, NetType, WorkType
  <2>7. RoundInv' /\ RestInv'
    BY <1>3 DEF W!Dies, W!Fresh, RoundInv, RestInv
  <2>8. ~admitPaused'
    BY <1>3 DEF W!Dies, W!Fresh
  <2>9. WordInv'
    BY <2>1, <2>8 DEF WordInv, Closed
  <2> QED
    BY <2>3, <2>4, <2>5, <2>6, <2>7, <2>9 DEF LoopInv, Types
<1> QED
  BY <1>1, <1>2, <1>3

-----------------------------------------------------------------------------
LEMMA StepInv ==
    ASSUME LoopInv, [W!Next]_(W!vars)
    PROVE  LoopInv' /\ (WordInv => WordInv')
<1>1. CASE UNCHANGED W!vars
  <2>1. LoopInv'
    <3>1. UNCHANGED <<W!loop, W!net, W!control, W!file, word, W!work, instance, deaths>>
      BY <1>1 DEF W!vars
    <3>2. ControlType' /\ FileType' /\ WorkType'
      BY <3>1 DEF LoopInv, Types, ControlType, FileType, WorkType, W!control, W!file, W!work
    <3> QED
      BY <3>1, <3>2, BaseFrame
  <2>2. WordInv => WordInv'
    BY <1>1 DEF W!vars, W!control, W!loop, W!file, W!net, W!work, WordInv, Closed, Committed,
                AtRest, DoorsShut
  <2> QED
    BY <2>1, <2>2
<1> QED
  BY <1>1, ControlStep, LoopStep, NetStep, ServiceStep, FileStep, FaultStep DEF W!Next

LEMMA LoopInvariance == W!Spec => []LoopInv
<1>1. W!Init => LoopInv
  BY PauseInit DEF PauseInv
<1>2. LoopInv /\ [W!Next]_(W!vars) => LoopInv'
  BY StepInv
<1> QED
  BY <1>1, <1>2, PTL DEF W!Spec

\* The types, and a loop at rest that has brought the queues, the services and
\* what it reports into agreement.
THEOREM LoopTypeCorrect == PauseSpec => []LoopAgrees
BY LoopInvariance, TypeFacts, PTL DEF PauseSpec, LoopAgrees

\* A node that the controller holds on a word given since it asked has nothing at
\* work, answers no admission, and no request for its queues is sent its way to be
\* lost, whatever happened to the connection, to a round or to the process on the
\* way there, and however soon after the last pause it was asked.
THEOREM HeldIsAtRest == PauseSpec => []PauseHolds
<1>1. PauseInv /\ [W!Next]_(W!vars) => PauseInv'
  BY StepInv DEF PauseInv
<1>2. PauseInv => PauseHolds
  BY DEF PauseInv, WordInv, AtRest, DoorsShut, W!PauseHolds, PauseHolds
<1> QED
  BY <1>1, <1>2, PauseInit, PTL DEF W!Spec, PauseSpec
=============================================================================
