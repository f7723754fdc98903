------------------------------ MODULE MCDemand -------------------------------
(* Demand for TLC: an organization with one repository and one run of two  *)
(* jobs.  The loop polls each repository on its own, so one is enough for  *)
(* the order of its calls.                                                 *)
EXTENDS Demand, TLC

CONSTANTS org, a, w1, j1, j2

OneRepo == w1 :> a
OneRun  == j1 :> w1 @@ j2 :> w1
OneHook == [r \in Repos |-> org]
=============================================================================
