------------------------------ MODULE Providers ------------------------------
(***************************************************************************)
(* A pool and its provider, the one or the other (buildProvider in         *)
(* internal/orchestrator/orchestrator.go), as arc comes and goes.          *)
(***************************************************************************)
EXTENDS ProcessHost, DockerHost

VARIABLE kind  \* provider in the pool's configuration

\* a process pool has no image and no pull policy
ProvidersInit ==
    /\ kind \in {"process", "docker"} /\ Init /\ DockerInit
    /\ kind = "process" => image = FALSE /\ policy = CHOOSE p \in Policies : TRUE

ProvidersNext ==
    /\ UNCHANGED kind
    /\ \/ kind = "process" /\ Next /\ UNCHANGED dockerVars
       \/ kind = "docker" /\ DockerNext
          /\ UNCHANGED <<proc, dir, pidOf, seen, creating, ending, lost, hit>>

ProvidersSpec == /\ ProvidersInit /\ [][ProvidersNext]_<<vars, dockerVars, kind>>
                 /\ kind = "process" => Fairness
                 /\ kind = "docker" => DockerFairness

-----------------------------------------------------------------------------
(* Every variable of both providers has its type.                          *)
ProvidersTypeOK == TypeOK /\ DockerTypeOK

(* Both providers implement what the loop relies on, the docker provider   *)
(* without the exception.                                                  *)
LivesGoOneWay == ProcessLife!Spec /\ ContainerLife!Spec

(* Whatever a create or a crash left on disk is removed in the end, unless *)
(* a look-alike gets its pid, and so is every container that has exited.   *)
DebrisGoes == /\ \A n \in Names : Debris(n) ~> dir[n] = "none" \/ Mistaken(n)
              /\ \A n \in Containers : ctr[n] = "exited" ~> ctr[n] = "gone"
=============================================================================
