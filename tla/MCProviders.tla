----------------------------- MODULE MCProviders -----------------------------
(* Providers for TLC: two runners and two process ids, or two containers. *)
EXTENDS Providers, TLC

CONSTANTS n1, n2, p1, p2
=============================================================================
