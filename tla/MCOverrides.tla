----------------------------- MODULE MCOverrides -----------------------------
(* Overrides for TLC: one pool, two requests at once, and two              *)
(* configurations for arc to start with.                                   *)
EXTENDS Overrides, TLC

CONSTANTS linux, h1, h2

TwoConfigs ==
    {[p \in Pools |-> [min |-> 0, max |-> 2]],
     [p \in Pools |-> [min |-> 1, max |-> 1]]}

FewEnds == {0, 2}
=============================================================================
