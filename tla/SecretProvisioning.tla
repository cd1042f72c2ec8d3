--------------------------- MODULE SecretProvisioning ---------------------------
(***************************************************************************)
(* An API key is rotated on all nodes (core/cluster/secret_provisioning.py *)
(* behind core/api/control_plane_settings.py): a fresh reference is stored *)
(* on every node first, then the configuration that names it is published. *)
(*                                                                         *)
(* A key is the reference and its value. The configuration in the Cloud is *)
(* the sequence of the keys it was rotated to; its revision, and the ETag  *)
(* of its manifest, are their count (CloudConfig models the publication    *)
(* itself). A node's refresh is one step. Nodes differ in nothing.         *)
(***************************************************************************)
EXTENDS Integers, Sequences, FiniteSets, Functions

CONSTANTS Nodes,         \* the members of the deployment
          Coordinators,  \* those whose Settings page is used
          Keys,          \* bound: references made, each once
          MaxFaults      \* bound: processes that die, publications unanswered

VARIABLES
    cloud,    \* the keys that the Cloud's configuration was rotated to
    desired,  \* the revision that each coordinator knows
    rotation, \* provision() of each coordinator
    wire,     \* requests to store a key, under way
    stored,   \* the secret file of each node
    puts,     \* publications under way, with their answers
    told,     \* what the operator was told of each key
    faults

vars == <<cloud, desired, rotation, wire, stored, puts, told, faults>>

Revision == Len(cloud)
Nothing == [at |-> "idle", key |-> "none", base |-> 0, open |-> {}, failed |-> FALSE]
Rotations == [at : {"idle", "asking", "commit"}, key : Keys \cup {"none"},
              base : 0 .. Revision, open : SUBSET Nodes, failed : BOOLEAN]

\* A rotation is one of the above; what is stored are keys.
TypeOK ==
    /\ cloud \in Seq(Keys) /\ rotation \in [Coordinators -> Rotations]
    /\ desired \in [Coordinators -> 0 .. Revision]
    /\ wire \subseteq Keys \X Nodes /\ stored \in [Nodes -> SUBSET Keys]
    /\ puts \subseteq [key : Keys, base : Nat, answer : {"none", "ok", "conflict"}]
    /\ told \in [Keys -> {"none", "pending", "saved", "unchanged", "unknown"}]
    /\ faults \in 0 .. MaxFaults

Init ==
    /\ cloud = <<>> /\ desired = [c \in Coordinators |-> 0]
    /\ rotation = [c \in Coordinators |-> Nothing]
    /\ wire = {} /\ stored = [n \in Nodes |-> {}] /\ puts = {}
    /\ told = [k \in Keys |-> "none"] /\ faults = 0

Faulty == faults < MaxFaults /\ faults' = faults + 1
Knows(c) == desired' = [desired EXCEPT ![c] = Revision]

(* ConfigReconciliation.operation(): one transaction of a node at a time.  *)
Busy(n) == n \in Coordinators /\ rotation[n].at = "commit"

Ends(c, answer) ==
    /\ rotation' = [rotation EXCEPT ![c] = Nothing]
    /\ told' = [told EXCEPT ![rotation[c].key] = answer]

-----------------------------------------------------------------------------
(* provision(): one at a time on a node, from the revision that the page   *)
(* was made of. The candidate is made of what the Cloud has now.           *)
Begins(c, k) ==
    /\ told[k] = "none" /\ rotation[c] = Nothing
    /\ desired[c] = Revision
    /\ rotation' = [rotation EXCEPT ![c] = [at |-> "asking", key |-> k, base |-> Revision,
                                            open |-> Nodes, failed |-> FALSE]]
    /\ told' = [told EXCEPT ![k] = "pending"]
    /\ wire' = wire \cup {k} \X Nodes
    /\ UNCHANGED <<cloud, desired, stored, puts, faults>>

(* Busy, the Cloud out of reach, or a page that is older than the Cloud.   *)
Refused(c, k) ==
    /\ told[k] = "none"
    /\ \/ told' = [told EXCEPT ![k] = "unknown"] /\ UNCHANGED desired
       \/ /\ rotation[c] = Nothing /\ desired[c] # Revision /\ Knows(c)
          /\ told' = [told EXCEPT ![k] = "unchanged"]
    /\ UNCHANGED <<cloud, rotation, wire, stored, puts, faults>>

(* local() and handle_secret_peer(): the file is replaced, and read back,  *)
(* behind whatever the node is at, even if nobody waits any more. (A       *)
(* request that is lost, or whose disk fails, stays where it is.)          *)
Stores(k, n) ==
    /\ <<k, n>> \in wire /\ ~Busy(n)
    /\ wire' = wire \ {<<k, n>>}
    /\ stored' = [stored EXCEPT ![n] = @ \cup {k}]
    /\ UNCHANGED <<cloud, desired, rotation, puts, told, faults>>

(* What the node has read back, or nothing that confirms it in 5 seconds.  *)
Answered(c, n) ==
    /\ rotation[c].at = "asking" /\ n \in rotation[c].open
    /\ \/ /\ rotation[c].key \in stored[n]
          /\ rotation' = [rotation EXCEPT ![c].open = @ \ {n}]
       \/ rotation' = [rotation EXCEPT ![c].open = @ \ {n}, ![c].failed = TRUE]
    /\ UNCHANGED <<cloud, desired, wire, stored, puts, told, faults>>

(* Every node has answered or was given up.                                *)
(* Variant: an error is taken for an answer.                               *)
GatheredAnyway(r) == r.open = {}
Confirmed(r) == r.open = {} /\ ~r.failed
Gathered(c) ==
    /\ rotation[c].at = "asking" /\ rotation[c].open = {}
    /\ ~Confirmed(rotation[c])
    /\ Ends(c, "unchanged")
    /\ UNCHANGED <<cloud, desired, wire, stored, puts, faults>>

(* _commit(): the Cloud is looked at again, and must still be the one that *)
(* the candidate was made of.                                              *)
Commits(c) ==
    /\ rotation[c].at = "asking" /\ Confirmed(rotation[c])
    /\ rotation[c].base = Revision /\ Knows(c)
    /\ rotation' = [rotation EXCEPT ![c].at = "commit"]
    /\ puts' = puts \cup {[key |-> rotation[c].key, base |-> Revision, answer |-> "none"]}
    /\ UNCHANGED <<cloud, wire, stored, told, faults>>
CommitRefused(c) ==
    /\ rotation[c].at = "asking" /\ Confirmed(rotation[c])
    /\ \/ rotation[c].base # Revision /\ Knows(c) /\ Ends(c, "unchanged")
       \/ Ends(c, "unknown") /\ UNCHANGED desired
    /\ UNCHANGED <<cloud, wire, stored, puts, faults>>

(* Google Drive: If-Match.                                                 *)
CloudHandles(p) ==
    /\ p.answer = "none"
    /\ \/ /\ p.base = Revision /\ cloud' = Append(cloud, p.key)
          /\ puts' = (puts \ {p}) \cup {[p EXCEPT !.answer = "ok"]}
       \/ /\ p.base # Revision /\ UNCHANGED cloud
          /\ puts' = (puts \ {p}) \cup {[p EXCEPT !.answer = "conflict"]}
    /\ UNCHANGED <<desired, rotation, wire, stored, told, faults>>

Publication(c, p) == rotation[c].at = "commit" /\ rotation[c].key = p.key
CommitAnswered(c, p) ==
    /\ Publication(c, p) /\ p.answer # "none" /\ puts' = puts \ {p}
    /\ \/ /\ p.answer = "ok" /\ Ends(c, "saved")
          /\ desired' = [desired EXCEPT ![c] = p.base + 1]
       \/ /\ p.answer = "conflict" /\ Ends(c, "unchanged")
          /\ Knows(c) \/ UNCHANGED desired
    /\ UNCHANGED <<cloud, wire, stored, faults>>

(* No answer in 20 seconds: "could not be confirmed".                      *)
CommitUnanswered(c, p) ==
    /\ Publication(c, p) /\ Faulty
    /\ Ends(c, "unknown")
    /\ UNCHANGED <<cloud, desired, wire, stored, puts>>

-----------------------------------------------------------------------------
(* The control plane dies; its requests may still be handled.              *)
Dies(c) ==
    /\ Faulty /\ rotation[c] # Nothing /\ Ends(c, "unknown")
    /\ UNCHANGED <<cloud, desired, wire, stored, puts>>

(* A page is loaded again, or a round of the reconciliation.               *)
Refreshes(c) ==
    /\ ~Busy(c) /\ desired[c] # Revision /\ Knows(c)
    /\ UNCHANGED <<cloud, rotation, wire, stored, puts, told, faults>>

Next ==
    \/ \E c \in Coordinators :
         \/ \E k \in Keys : Begins(c, k) \/ Refused(c, k)
         \/ \E n \in Nodes : Answered(c, n)
         \/ Gathered(c) \/ Commits(c) \/ CommitRefused(c) \/ Dies(c) \/ Refreshes(c)
         \/ \E p \in puts : CommitAnswered(c, p) \/ CommitUnanswered(c, p)
    \/ \E k \in Keys, n \in Nodes : Stores(k, n)
    \/ \E p \in puts : CloudHandles(p)

Spec == Init /\ [][Next]_vars

-----------------------------------------------------------------------------
(* No configuration names a key that a node does not have: whatever was    *)
(* lost or late, every node can resolve it and start with it.              *)
PublishedIsStored == \A k \in Range(cloud), n \in Nodes : k \in stored[n]

(* The operator is told nothing false: "saved" is in the Cloud, "was not   *)
(* changed" is not, whatever else was published meanwhile, and never will  *)
(* be.                                                                     *)
ToldTruly ==
    \A k \in Keys :
        /\ told[k] = "saved" => k \in Range(cloud)
        /\ told[k] = "unchanged" => /\ k \notin Range(cloud)
                                    /\ \A p \in puts : p.key = k => p.base # Revision

(* A rotation reaches all nodes or none of them, and its operator knows    *)
(* which, or knows that he does not.                                       *)
RotationIsWhole == PublishedIsStored /\ ToldTruly
=============================================================================
