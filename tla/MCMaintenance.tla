----------------------------- MODULE MCMaintenance -----------------------------
(***************************************************************************)
(* A small instance of Maintenance. Its variables and bounds have names    *)
(* that no other component uses, so that it can stand beside them.         *)
(***************************************************************************)
EXTENDS Integers, FiniteSets

CONSTANTS Kinds, Queues, Late, MaxAsks, MaxDeaths

ASSUME MaintenanceAssumption ==
    /\ Queues \subseteq Kinds /\ Late \subseteq Kinds /\ IsFiniteSet(Kinds)
    /\ MaxAsks \in Nat /\ MaxDeaths \in Nat

VARIABLES
    pausing, asks, taken, instance, word, report, flag, pc, want, draining, admitPaused,
    paused, dirty, sub, pong, connected, routed, routedTo, cb, serving, deaths

W == INSTANCE Maintenance WITH
         Asks <- MaxAsks, Faults <- MaxDeaths,
         request <- pausing, wire <- routedTo, job <- serving, faults <- deaths

PauseSpec == W!Spec

-----------------------------------------------------------------------------
(* As stated in Maintenance.                                               *)
LoopAgrees == W!TypeOK
PauseHolds == W!PauseHolds
Obeys == W!Obeys
=============================================================================
