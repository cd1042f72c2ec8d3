------------------------------ MODULE RevisionLedger ------------------------------
(***************************************************************************)
(* What a document that several nodes edit in the Cloud (the shared        *)
(* configuration, the shared memory) promises to its editors: the saves    *)
(* form one sequence, a save is published on top of all that were          *)
(* published before it or not at all, and an editor is never told anything *)
(* false. Only an operator who restores an old manifest in the Cloud takes *)
(* saves back.                                                             *)
(***************************************************************************)
EXTENDS Integers, Sequences

CONSTANT Saves          \* identities of the saves
VARIABLES log,          \* the saves that the document holds, in order
          published,    \* the saves that were ever published
          told          \* what the editor of each save knows

Init == log = <<>> /\ published = {} /\ told = [s \in Saves |-> "none"]

Asks(s) ==
    /\ told[s] = "none"
    /\ \E a \in {"pending", "conflict", "unknown"} : told' = [told EXCEPT ![s] = a]
    /\ UNCHANGED <<log, published>>

(* Whoever was told of a conflict may save again: this one never counts.   *)
Publishes(s) ==
    /\ s \notin published /\ told[s] \in {"pending", "unknown"}
    /\ log' = Append(log, s) /\ published' = published \cup {s}
    /\ UNCHANGED told

Tells(s) ==
    /\ told[s] = "pending"
    /\ \/ s \in published /\ told' = [told EXCEPT ![s] = "saved"]
       \/ s \notin published /\ told' = [told EXCEPT ![s] = "conflict"]
       \/ told' = [told EXCEPT ![s] = "unknown"]
    /\ UNCHANGED <<log, published>>

Restores ==
    /\ \E n \in 0 .. Len(log) : log' = SubSeq(log, 1, n)
    /\ UNCHANGED <<published, told>>

Next == Restores \/ \E s \in Saves : Asks(s) \/ Publishes(s) \/ Tells(s)
Spec == Init /\ [][Next]_<<log, published, told>>
=============================================================================
