----------------------------- MODULE DockerHost ------------------------------
(***************************************************************************)
(* The docker provider (internal/provider/dockerprov) against the daemon:  *)
(* the image that is pulled once, containers that are created, started and *)
(* removed by calls whose answers may be lost, an arc that dies between    *)
(* two calls.                                                              *)
(***************************************************************************)
EXTENDS ArcProcess, FiniteSets

CONSTANTS
    Containers,  \* runner names, each the name of a container
    Policies     \* values of pull in the configuration

ASSUME DockerConstants == Policies \subseteq {"always", "missing", "never"}

VARIABLES
    policy,  \* pull
    image,   \* the daemon has the image
    pulled,  \* pullOnce and pullErr: unasked, ok, or failed
    ctr,     \* name -> the state of its container
    making,  \* name -> where its Create stands
    stray    \* history: containers Create left behind when it failed

dockerVars == <<policy, image, pulled, ctr, making, stray>>

DockerTypeOK ==
    /\ policy \in Policies
    /\ image \in BOOLEAN
    /\ pulled \in {"unasked", "ok", "failed"}
    /\ ctr \in [Containers -> {"new", "created", "running", "exited", "gone"}]
    /\ making \in [Containers -> {"fresh", "image", "created", "broken", "ok", "failed"}]
    /\ stray \subseteq Containers

DockerInit ==
    /\ policy \in Policies
    /\ image \in BOOLEAN
    /\ pulled = "unasked"
    /\ ctr = [n \in Containers |-> "new"]
    /\ making = [n \in Containers |-> "fresh"]
    /\ stray = {}

-----------------------------------------------------------------------------
(* ensureImage, the first step of Create.  imageExists and pullImage fail  *)
(* for want of the daemon or of the registry.                              *)
CanPull == image' = TRUE
NoPull  == Fault /\ UNCHANGED image

Ensured(n, ok) == making' = [making EXCEPT ![n] = IF ok THEN "image" ELSE "failed"]

EnsureNever(n) ==
    /\ policy = "never"
    /\ \/ Ensured(n, image) /\ UNCHANGED faults
       \/ Ensured(n, FALSE) /\ Fault
    /\ UNCHANGED <<image, pulled>>

EnsureAlways(n) ==
    /\ policy = "always"
    /\ \/ Ensured(n, TRUE) /\ CanPull /\ UNCHANGED faults
       \/ Ensured(n, FALSE) /\ NoPull
    /\ UNCHANGED pulled

(* "missing" asks once per process and remembers an error for good *)
EnsureMissing(n) ==
    /\ policy = "missing"
    /\ \/ /\ pulled = "unasked"
          /\ \/ Ensured(n, TRUE) /\ CanPull /\ pulled' = "ok" /\ UNCHANGED faults
             \/ Ensured(n, FALSE) /\ NoPull /\ pulled' = "failed"
       \/ /\ pulled # "unasked"
          /\ Ensured(n, pulled = "ok")
          /\ UNCHANGED <<image, pulled, faults>>

EnsureImage(n) ==
    /\ up /\ making[n] = "fresh"
    /\ EnsureNever(n) \/ EnsureAlways(n) \/ EnsureMissing(n)
    /\ UNCHANGED <<up, policy, ctr, stray>>

(* createContainer: an image that is gone is not found *)
CreateContainer(n) ==
    /\ up /\ making[n] = "image"
    /\ IF image
       THEN /\ ctr' = [ctr EXCEPT ![n] = "created"]
            /\ making' = [making EXCEPT ![n] = "created"]
       ELSE /\ making' = [making EXCEPT ![n] = "failed"]
            /\ UNCHANGED ctr
    /\ UNCHANGED <<up, faults, policy, image, pulled, stray>>

CreateContainerFails(n) ==
    /\ up /\ making[n] = "image"
    /\ Fault
    /\ making' = [making EXCEPT ![n] = "failed"]
    /\ \/ image /\ ctr' = [ctr EXCEPT ![n] = "created"] /\ stray' = stray \cup {n}
       \/ UNCHANGED <<ctr, stray>>
    /\ UNCHANGED <<up, policy, image, pulled>>

StartContainer(n) ==
    /\ up /\ making[n] = "created"
    /\ ctr' = [ctr EXCEPT ![n] = IF ctr[n] = "created" THEN "running" ELSE ctr[n]]
    /\ making' = [making EXCEPT ![n] = "ok"]
    /\ UNCHANGED <<up, faults, policy, image, pulled, stray>>

(* the answer may be lost after the daemon has started it *)
StartContainerFails(n) ==
    /\ up /\ making[n] = "created"
    /\ Fault
    /\ making' = [making EXCEPT ![n] = "broken"]
    /\ ctr' = ctr \/ ctr' = [ctr EXCEPT ![n] = "running"]
    /\ UNCHANGED <<up, policy, image, pulled, stray>>

BugBrokenIsLeft(n) ==
    /\ up /\ making[n] = "broken"
    /\ making' = [making EXCEPT ![n] = "failed"]
    /\ UNCHANGED <<up, faults, policy, image, pulled, ctr, stray>>

RemoveBroken(n) ==
    /\ up /\ making[n] = "broken"
    /\ ctr' = [ctr EXCEPT ![n] = "gone"]
    /\ making' = [making EXCEPT ![n] = "failed"]
    /\ UNCHANGED <<up, faults, policy, image, pulled, stray>>

(* A removal that fails was done all the same, was not begun, or stopped   *)
(* half way: a dead container is listed as exited.                         *)
HalfRemoved(n) == ctr' = ctr \/ \E s \in {"exited", "gone"} : ctr' = [ctr EXCEPT ![n] = s]

RemoveBrokenFails(n) ==
    /\ up /\ making[n] = "broken"
    /\ Fault
    /\ making' = [making EXCEPT ![n] = "failed"]
    /\ stray' = stray \cup {n}
    /\ HalfRemoved(n)
    /\ UNCHANGED <<up, policy, image, pulled>>

-----------------------------------------------------------------------------
NoneMade == \A n \in Containers : making[n] \in {"fresh", "ok", "failed"}

(* Destroy removes by force; the loop asks for it when the container has   *)
(* ended, is idle and superfluous, or is older than job_timeout            *)
DestroyContainer(n) ==
    /\ up /\ NoneMade
    /\ ctr[n] \in {"created", "running", "exited"}
    /\ \/ ctr' = [ctr EXCEPT ![n] = "gone"] /\ UNCHANGED faults
       \/ HalfRemoved(n) /\ Fault
    /\ UNCHANGED <<up, policy, image, pulled, making, stray>>

(* Prune: what has exited *)
PruneContainer(n) == ctr[n] = "exited" /\ DestroyContainer(n)

ContainerExits(n) ==
    /\ ctr[n] = "running"
    /\ ctr' = [ctr EXCEPT ![n] = "exited"]
    /\ UNCHANGED <<up, faults, policy, image, pulled, making, stray>>

(* somebody pulls the image, or clears it away *)
ImageChanges ==
    /\ Fault
    /\ image' = ~image
    /\ UNCHANGED <<up, policy, pulled, ctr, making, stray>>

DockerCrash ==
    /\ up
    /\ Fault
    /\ up' = FALSE
    /\ pulled' = "unasked"
    /\ LET cut == {n \in Containers : making[n] \in {"image", "created", "broken"}}
       IN  /\ making' = [n \in Containers |-> IF n \in cut THEN "failed" ELSE making[n]]
           /\ stray' = stray \cup cut
    /\ UNCHANGED <<policy, image, ctr>>

DockerRestart ==
    /\ ~up
    /\ up' = TRUE
    /\ UNCHANGED <<faults, dockerVars>>

CreateStep(n) ==
    \/ EnsureImage(n) \/ CreateContainer(n) \/ CreateContainerFails(n)
    \/ StartContainer(n) \/ StartContainerFails(n) \/ RemoveBroken(n) \/ RemoveBrokenFails(n)

DockerNext ==
    \/ DockerCrash \/ DockerRestart \/ ImageChanges
    \/ \E n \in Containers : CreateStep(n) \/ DestroyContainer(n) \/ ContainerExits(n)

DockerFairness ==
    /\ WF_<<up, faults, dockerVars>>(DockerRestart)
    /\ \A n \in Containers :
          /\ WF_<<up, faults, dockerVars>>(making[n] # "fresh" /\ CreateStep(n))
          /\ SF_<<up, faults, dockerVars>>(PruneContainer(n))

-----------------------------------------------------------------------------
(* The life of a container goes one way: whatever calls fail and answers   *)
(* are lost, what List reports can be relied on in the order of Instances. *)
Listed(n) == CASE ctr[n] = "created" -> "starting"
               [] OTHER -> ctr[n]

ContainerLife == INSTANCE Instances WITH Names    <- Containers,
                                         life     <- [n \in Containers |-> Listed(n)],
                                         mistaken <- {}

(* A Create that failed leaves no container behind, idle or running, but   *)
(* where the daemon's answer to the creation or to the removal was lost or *)
(* arc died on the way.                                                    *)
NothingLeftHalfMade ==
    \A n \in Containers : making[n] = "failed" /\ ctr[n] \in {"created", "running"} => n \in stray
=============================================================================
