----------------------------- MODULE LimitStore -----------------------------
(***************************************************************************)
(* What `arc scale` promises about the limits an operator sets: they are   *)
(* in force at once, they are saved by one indivisible step, and a restart *)
(* comes back with exactly what was saved last.  Overrides implements it   *)
(* until two requests are saving at once.                                  *)
(***************************************************************************)
CONSTANTS
    Maps,         \* every set of overrides there can be
    NoOverrides,  \* the empty one
    None          \* nothing is being saved

VARIABLES
    live,     \* the overrides in force
    durable,  \* the overrides a restart would come back with
    pending   \* the overrides being saved

vars == <<live, durable, pending>>

Init == /\ live = NoOverrides
        /\ durable = NoOverrides
        /\ pending = None

(* a request changes the limits, which are in force before they are saved *)
Change == /\ pending = None
          /\ live' \in Maps
          /\ pending' = live'
          /\ UNCHANGED durable

Commit == /\ pending # None
          /\ durable' = pending
          /\ pending' = None
          /\ UNCHANGED live

(* the save fails and the request is answered with an error *)
Abandon == /\ pending # None
           /\ pending' = None
           /\ UNCHANGED <<live, durable>>

Restart == /\ live' = durable
           /\ pending' = None
           /\ UNCHANGED durable

Next == Change \/ Commit \/ Abandon \/ Restart

Spec == Init /\ [][Next]_vars
=============================================================================
