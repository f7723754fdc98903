-------------------------------- MODULE MCAssign --------------------------------
(***************************************************************************)
(* Three pools of which one is twice as specific, four jobs of which one   *)
(* fits nowhere, and up to two foreign runners.                            *)
(***************************************************************************)
EXTENDS Assign

CONSTANTS linux, gpu, mac, j1, j2, j3, j4, f1, f2, repoA, repoB, selfHosted, arm

MCPools      == <<gpu, linux, mac>>
MCPoolLabels == linux :> {linux} @@ gpu :> {linux, gpu} @@ mac :> {linux}
MCJobs       == {j1, j2, j3, j4}
MCJobId      == j1 :> 4 @@ j2 :> 3 @@ j3 :> 7 @@ j4 :> 5
MCJobLabels  == j1 :> {selfHosted, linux} @@ j2 :> {linux} @@ j3 :> {selfHosted, gpu}
                @@ j4 :> {selfHosted, arm}
MCJobRepo    == j1 :> repoA @@ j2 :> repoB @@ j3 :> repoA @@ j4 :> repoA
MCLimits     == linux :> [min |-> 0, max |-> 2] @@ gpu :> [min |-> 1, max |-> 2]
                @@ mac :> [min |-> 0, max |-> 1]
MCLive       == linux :> {0, 1, 3} @@ gpu :> {0, 1, 2} @@ mac :> {0, 1}
MCForeignLabels == f1 :> {selfHosted, linux, gpu} @@ f2 :> {selfHosted, linux, arm}
MCForeignRepo   == f1 :> NoRepo @@ f2 :> repoB
MCFreeLists     == {<<>>, <<f1>>, <<f2>>, <<f1, f2>>, <<f2, f1>>}
==============================================================================
