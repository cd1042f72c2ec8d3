------------------------------- MODULE MCParts -------------------------------
(***************************************************************************)
(* Small instances of four components that share nothing, checked side by  *)
(* side: the initial state says which of them runs, and the others stay as *)
(* they begin. Each keeps its own variables; those of TTSSegment are used  *)
(* as they are.                                                            *)
(***************************************************************************)
EXTENDS TTSSegment

CONSTANTS Nodes, Coordinators, Keys, Calls, Questions, MaxVersion, MaxRevision, CloudFaults

ASSUME PartsAssumption ==
    /\ Calls \subseteq Nat \ {0} /\ Questions \subseteq Nat \ {0}
    /\ MaxVersion \in Nat /\ MaxRevision \in Nat \ {0} /\ CloudFaults \in Nat
    /\ "none" \notin Keys

VARIABLES
    running,
    \* SecretProvisioning
    cloud, desired, rotation, keyWire, stored, keyPuts, told, keyFaults,
    \* CloudProvisioning
    memory, config, drive, receipt, boot, run, cloudFaults,
    \* Vision
    question, active, consumed, busy, closed, generation, turn, upload, seen, servedFor,
    doomed, known, text, admits, photoWire, reply, jobs, count, task, halting, late,
    ending, photoFaults

K == INSTANCE SecretProvisioning WITH wire <- keyWire, puts <- keyPuts, faults <- keyFaults
P == INSTANCE CloudProvisioning WITH faults <- cloudFaults, MaxFaults <- CloudFaults
V == INSTANCE Vision WITH phase <- turn, wire <- photoWire, stopping <- ending,
                          faults <- photoFaults

secretVars == <<cloud, desired, rotation, keyWire, stored, keyPuts, told, keyFaults>>
provisionVars == <<memory, config, drive, receipt, boot, run, cloudFaults>>
photoVars ==
    <<question, active, consumed, busy, closed, generation, turn, upload, seen, servedFor,
      doomed, known, text, admits, photoWire, reply, jobs, count, task, halting, late,
      ending, photoFaults>>
all == <<running, vars, secretVars, provisionVars, photoVars>>

PartsInit ==
    /\ running \in {"segment", "secret", "provision", "vision"}
    /\ Init /\ K!Init /\ P!Init /\ V!Init

Slot ==
    running = "segment" /\ Next /\ UNCHANGED <<running, secretVars, provisionVars, photoVars>>
Secret ==
    running = "secret" /\ K!Next /\ UNCHANGED <<running, vars, provisionVars, photoVars>>
Provision ==
    running = "provision" /\ P!Next /\ UNCHANGED <<running, vars, secretVars, photoVars>>
Photo ==
    running = "vision" /\ V!Next /\ UNCHANGED <<running, vars, secretVars, provisionVars>>

PartsNext == Slot \/ Secret \/ Provision \/ Photo

(* Fairness of TTSSegment and of Vision, where they run.                   *)
Here(name, step) == running = name /\ step
PartsFairness ==
    /\ \A s \in Segments :
         /\ WF_vars(Here("segment", CoreStep(s))) /\ WF_vars(Here("segment", Expires(s)))
    /\ \A w \in Workers :
         /\ WF_vars(Here("segment", WorkerStep(w)))
         /\ WF_vars(Here("segment", Abandoned(w) /\ Lapses(w)))
    /\ \A a \in Attempts : WF_vars(Here("segment", Receives(a)))
    /\ \A c \in Calls :
         WF_photoVars(Here("vision", V!Watched(c))) /\ WF_photoVars(Here("vision", V!Task(c)))

PartsSpec == PartsInit /\ [][PartsNext]_all /\ PartsFairness

-----------------------------------------------------------------------------
(* As stated in SecretProvisioning, CloudProvisioning and Vision, with     *)
(* their types.                                                            *)
RotationIsWhole == K!TypeOK /\ K!RotationIsWhole
OneAuthority == P!TypeOK /\ P!OneAuthority
PhotoOwned == V!TypeOK /\ V!PhotoOwned

(* Of TTSSegment and of Vision: a worker is given back by whoever took it. *)
SlotsFreed == BothFreed /\ V!JobFreed
=============================================================================
