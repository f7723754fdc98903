----------------------------- MODULE MCUninstall -----------------------------
(* Uninstall for TLC: a process pool with two runners, a docker pool with  *)
(* one, a runner of another host, and two repositories; the one with the   *)
(* processes may leave the list.                                           *)
EXTENDS Uninstall, TLC

CONSTANTS n1, n2, d1, other, mac, linux, r1, r2

TwoPools == n1 :> mac @@ n2 :> mac @@ d1 :> linux @@ other :> NoPool

TwoRepos == n1 :> r2 @@ n2 :> r2 @@ d1 :> r1 @@ other :> r1

EveryFault == {"check", "stop", "unit", "listRunners", "listPool", "deregister", "destroy",
               "orphan", "prune", "hooks", "files"}
NoFault    == {}

Symmetry == Permutations({n1, n2})
=============================================================================
