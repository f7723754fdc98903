------------------------------ MODULE Instances ------------------------------
(***************************************************************************)
(* What the reconcile loop relies on when it compares one listing of a     *)
(* pool's instances with an older one: the life of an instance goes one    *)
(* way.  It is created once, it may run, what has ended never runs again,  *)
(* and what is gone never comes back.  Only where the provider takes       *)
(* something else for the instance, what has ended is listed as running    *)
(* again.  (internal/provider/provider.go)                                 *)
(***************************************************************************)
CONSTANT Names

VARIABLES
    life,     \* name -> the state the provider lists, or that it lists none
    mistaken  \* the instances it takes something else for

Init == life = [n \in Names |-> "new"]

(* debris is an instance the provider lists without knowing its state *)
Later == [new      |-> {"starting", "debris"},
          starting |-> {"running", "exited", "debris", "gone"},
          running  |-> {"exited", "debris", "gone"},
          exited   |-> {"debris", "gone"},
          debris   |-> {"gone"},
          gone     |-> {}]

Moves(n) == \/ life'[n] \in Later[life[n]]
            \/ life[n] = "exited" /\ life'[n] = "running" /\ n \in mistaken'

(* A crash of the host or the end of a stranger may end several lives.     *)
Next == \E S \in SUBSET Names :
            /\ \A n \in S : Moves(n)
            /\ life' = [n \in Names |-> IF n \in S THEN life'[n] ELSE life[n]]

Spec == Init /\ [][Next]_life
=============================================================================
