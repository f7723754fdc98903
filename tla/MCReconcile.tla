------------------------------ MODULE MCReconcile ------------------------------
(***************************************************************************)
(* Small instances of Reconcile.                                           *)
(***************************************************************************)
EXTENDS Reconcile

CONSTANTS n1, n2, n3, linux, gpu, j1, j2, repoA, repoB, selfHosted

Symmetry == Permutations(Names)

\* One pool.
OnePool       == <<linux>>
OnePoolLabels == linux :> {linux}
OnePoolNames  == [n \in Names |-> linux]

MaxOne  == linux :> [min |-> 0, max |-> 1]
MaxTwo  == linux :> [min |-> 0, max |-> 2]
WarmOne == linux :> [min |-> 1, max |-> 2]

\* A pool of generic machines, and one of machines with a label more.
TwoPools       == <<gpu, linux>>
TwoPoolsLabels == linux :> {linux} @@ gpu :> {linux, gpu}
TwoPoolsNames  == [n \in Names |-> IF n \in {n1, n2} THEN linux ELSE gpu]
OneEach        == linux :> [min |-> 0, max |-> 1] @@ gpu :> [min |-> 0, max |-> 1]
\* `arc scale`: lowered, and raised to a warm pair.
Adjustments    == {[min |-> 0, max |-> 1], [min |-> 2, max |-> 2]}

\* The jobs ask for what every machine has; TwoJobs come from two repositories.
OneJob        == {j1}
OneJobId      == j1 :> 1
OneJobLabels  == j1 :> {selfHosted, linux}
OneJobRepo    == j1 :> repoA
TwoJobs       == {j1, j2}
TwoJobsId     == j1 :> 1 @@ j2 :> 2
TwoJobsLabels == j1 :> {selfHosted, linux} @@ j2 :> {selfHosted, linux}
TwoJobsRepo   == j1 :> repoA @@ j2 :> repoB

\* What may go wrong.
NoFaults     == {}
CallFaults   == {"listRunners", "pollJobs", "pollPartial", "rateLimit", "runnerGroup", "register",
                 "registerLost", "create", "destroy", "prune"}
RunnerFaults == {"die", "disconnect", "cancel"}
SafeFaults   == CallFaults \cup RunnerFaults \cup {"crash"}
RetryFaults  == SafeFaults \cup {"removeRunner", "earlyTimeout"}
DockerFaults == {"crash", "jobTimeout"}
PollFault    == {"pollPartial"}
ListFault    == {"listInstances"}
LateFault    == {"jobTimeout"}
RemoveFault  == {"removeRunner", "jobTimeout"}
==============================================================================
