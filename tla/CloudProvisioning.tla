--------------------------- MODULE CloudProvisioning ---------------------------
(***************************************************************************)
(* A node's Local state is taken into the Cloud                            *)
(* (provision_cloud_state() of config/cloud_provisioning.py): its view of  *)
(* the configuration is published, its memory gets a manifest of its own   *)
(* there, and the manifest's ID goes to the bootstrap file. An operator    *)
(* runs it again until it succeeds; whatever fails, there must be one      *)
(* manifest for the memory.                                                *)
(*                                                                         *)
(* Memory is a version of it; a manifest is the version it was seeded      *)
(* with, its ID its place among those that Drive was made to hold.         *)
(***************************************************************************)
EXTENDS Integers, Sequences

CONSTANTS MaxVersion,  \* bound: versions of the Local memory
          MaxRevision, \* bound: revisions of the Cloud's configuration
          MaxFaults    \* bound: crashes, failing disks, lost answers

VARIABLES
    memory,  \* the Local memory, which the running server may change
    config,  \* the Cloud's: its revision, and if it says what Local does
    drive,   \* the memory manifests
    receipt, \* the file under data/cloud-provisioning
    boot,    \* memory_manifest_file_id of the bootstrap file, or 0
    run,     \* the run: where, with which memory, revision and manifest
    faults

vars == <<memory, config, drive, receipt, boot, run, faults>>

None == "none"
Begun == "begun"
Off == [at |-> "off", memory |-> 0, base |-> 0, id |-> 0]
Ids == 1 .. Len(drive)

\* The receipt is what the code writes; IDs are those of manifests.
TypeOK ==
    /\ memory \in 0 .. MaxVersion /\ faults \in 0 .. MaxFaults
    /\ config \in [revision : 1 .. MaxRevision, own : BOOLEAN]
    /\ drive \in Seq(0 .. MaxVersion) /\ boot \in Ids \cup {0}
    /\ receipt.state \in {None, Begun, "id"} /\ receipt.id \in Ids \cup {0}
    /\ run \in [at : {"off", "commit", "seed", "create", "record", "verify", "publish"},
                memory : 0 .. MaxVersion, base : 0 .. MaxRevision, id : Ids \cup {0}]

NoReceipt == [state |-> None, id |-> 0]
Init ==
    /\ memory = 0 /\ config = [revision |-> 1, own |-> FALSE]
    /\ drive = <<>> /\ receipt = NoReceipt /\ boot = 0 /\ run = Off /\ faults = 0

Faulty == faults < MaxFaults /\ faults' = faults + 1
Goes(step) == run' = [run EXCEPT !.at = step]
Fails == run' = Off

-----------------------------------------------------------------------------
(* Everything is compared first. An interrupted creation, two IDs that     *)
(* differ and a manifest with another memory are for the operator, and so  *)
(* is a shared configuration that says something else.                     *)
Known == IF boot # 0 THEN boot ELSE receipt.id
Starts ==
    /\ run = Off /\ receipt.state # Begun
    /\ boot = 0 \/ receipt.id \in {0, boot}
    /\ Known # 0 => drive[Known] = memory
    /\ run' = [at |-> IF config.own THEN "seed" ELSE "commit", memory |-> memory,
               base |-> config.revision, id |-> Known]
    /\ UNCHANGED <<memory, config, drive, receipt, boot, faults>>

(* The configuration, as Settings publishes it. The answer may be lost.    *)
Commits ==
    /\ run.at = "commit"
    /\ \/ /\ config.revision = run.base /\ config.revision < MaxRevision
          /\ config' = [revision |-> run.base + 1, own |-> TRUE]
          /\ \/ Goes("seed") /\ UNCHANGED faults
             \/ Fails /\ Faulty
       \/ config.revision # run.base /\ Fails /\ UNCHANGED <<config, faults>>
    /\ UNCHANGED <<memory, drive, receipt, boot>>

Keeps == UNCHANGED <<memory, config, boot>>

(* _seed_memory(), unless there is a manifest: begin() writes down that    *)
(* one will be created.                                                    *)
(* Variant: it does not.                                                   *)
NotBegun == receipt
ToCreate == [state |-> Begun, id |-> 0]
Seeds ==
    /\ run.at = "seed"
    /\ \/ run.id # 0 /\ Goes("verify") /\ UNCHANGED <<receipt, faults>>
       \/ run.id = 0 /\ Goes("create") /\ receipt' = ToCreate /\ UNCHANGED faults
       \/ run.id = 0 /\ Fails /\ Faulty /\ UNCHANGED receipt
    /\ Keeps /\ UNCHANGED drive

(* The upload; its answer is the ID.                                       *)
Creates ==
    /\ run.at = "create" /\ drive' = Append(drive, run.memory)
    /\ \/ run' = [run EXCEPT !.at = "record", !.id = Len(drive) + 1] /\ UNCHANGED faults
       \/ Fails /\ Faulty
    /\ Keeps /\ UNCHANGED receipt

Records ==
    /\ run.at = "record"
    /\ \/ receipt' = [state |-> "id", id |-> run.id] /\ Goes("verify") /\ UNCHANGED faults
       \/ Fails /\ Faulty /\ UNCHANGED receipt
    /\ Keeps /\ UNCHANGED drive

(* The live state again: the configuration, the memory of both sides.      *)
Same == config.own /\ memory = run.memory /\ drive[run.id] = run.memory
Verifies ==
    /\ run.at = "verify"
    /\ \/ Same /\ Goes("publish")
       \/ ~Same /\ Fails
    /\ Keeps /\ UNCHANGED <<drive, receipt, faults>>

(* save_bootstrap(); the provider stays Local.                             *)
Publishes ==
    /\ run.at = "publish" /\ Fails
    /\ \/ boot' = run.id /\ UNCHANGED faults
       \/ Faulty /\ UNCHANGED boot
    /\ UNCHANGED <<memory, config, drive, receipt>>

-----------------------------------------------------------------------------
(* The process dies, or a request fails without effect.                    *)
Dies ==
    /\ run # Off /\ Faulty /\ Fails
    /\ Keeps /\ UNCHANGED <<drive, receipt>>

(* The operator has looked for the manifest that may have been created.    *)
Recovers ==
    /\ run = Off /\ receipt.state = Begun
    /\ \/ drive = <<>> /\ receipt' = NoReceipt
       \/ \E id \in Ids : receipt' = [state |-> "id", id |-> id]
    /\ Keeps /\ UNCHANGED <<drive, run, faults>>

(* Others save the configuration, which may change this node's view.       *)
OthersSave ==
    /\ config.revision < MaxRevision
    /\ config' \in [revision : {config.revision + 1}, own : BOOLEAN]
    /\ UNCHANGED <<memory, drive, receipt, boot, run, faults>>
MemoryChanges ==
    /\ memory < MaxVersion /\ memory' = memory + 1
    /\ UNCHANGED <<config, drive, receipt, boot, run, faults>>

Next ==
    \/ Starts \/ Commits \/ Seeds \/ Creates \/ Records \/ Verifies \/ Publishes
    \/ Dies \/ Recovers \/ OthersSave \/ MemoryChanges

Spec == Init /\ [][Next]_vars

-----------------------------------------------------------------------------
(* However often it is interrupted and run again, the memory gets one      *)
(* manifest, and it is never forgotten: between two runs the node knows    *)
(* it, or knows that the operator has to look for it.                      *)
OneAuthority ==
    /\ Len(drive) <= 1
    /\ run = Off /\ drive # <<>> => receipt.state # None
    /\ boot # 0 => receipt.id = boot
=============================================================================
