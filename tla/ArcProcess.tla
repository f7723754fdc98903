----------------------------- MODULE ArcProcess ------------------------------
(***************************************************************************)
(* arc itself as the providers see it: it dies at any point and is started *)
(* again by the service manager; calls fail a bounded number of times.     *)
(***************************************************************************)
EXTENDS Naturals

CONSTANT MaxFaults  \* bound: failing calls and crashes of arc

ASSUME FaultBound == MaxFaults \in Nat

VARIABLES
    up,     \* arc is running
    faults

Fault == faults < MaxFaults /\ faults' = faults + 1
=============================================================================
