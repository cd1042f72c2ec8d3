----------------------------- MODULE TextStream -----------------------------
(***************************************************************************)
(* What the text stream promises the conversation, whatever the network,   *)
(* the worker and the provider do: every request is heard as a prefix of   *)
(* the text made for it, in order and without gaps; the provider is never  *)
(* more than one chunk ahead of the listener; and only a text that was     *)
(* heard to its end is reported as a success.                              *)
(***************************************************************************)
EXTENDS Naturals, Sequences

CONSTANTS Requests, MaxChunks

VARIABLES
    made,      \* chunks the provider made for the request
    heard,     \* the chunks the consumer accepted, by their number
    outcome    \* what the caller was told

Init ==
    /\ made = [r \in Requests |-> 0]
    /\ heard = [r \in Requests |-> << >>]
    /\ outcome = [r \in Requests |-> "none"]

\* Back-pressure: the next chunk only when the previous one was heard.
Make(r) ==
    /\ made[r] < MaxChunks /\ made[r] = Len(heard[r]) /\ outcome[r] # "ok"
    /\ made' = [made EXCEPT ![r] = @ + 1]
    /\ UNCHANGED <<heard, outcome>>

\* A caller may have given up while it listened.
Hear(r) ==
    /\ outcome[r] = "none" /\ Len(heard[r]) < made[r]
    /\ heard' = [heard EXCEPT ![r] = Append(@, Len(@) + 1)]
    /\ outcome' \in {outcome, [outcome EXCEPT ![r] = "failed"]}
    /\ UNCHANGED made

Succeed(r) ==
    /\ outcome[r] = "none" /\ made[r] > 0 /\ Len(heard[r]) = made[r]
    /\ outcome' = [outcome EXCEPT ![r] = "ok"]
    /\ UNCHANGED <<made, heard>>

GiveUp(r) ==
    /\ outcome[r] = "none"
    /\ outcome' = [outcome EXCEPT ![r] = "failed"]
    /\ UNCHANGED <<made, heard>>

Next == \E r \in Requests : Make(r) \/ Hear(r) \/ Succeed(r) \/ GiveUp(r)

Spec == Init /\ [][Next]_<<made, heard, outcome>>
=============================================================================
