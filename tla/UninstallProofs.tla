--------------------------- MODULE UninstallProofs ---------------------------
(***************************************************************************)
(* What Teardown spares and what it reports, for any runners, any pools    *)
(* and any failing calls.                                                  *)
(***************************************************************************)
EXTENDS Uninstall, TLAPS

LEMMA InitType == Init => TypeOK
<1> SUFFICES ASSUME Init PROVE TypeOK
  OBVIOUS
<1>1. /\ reg \in [Names -> {"none", "idle", "busy"}]
      /\ inst \in [Names -> {"new", "none", "up", "dead"}]
  BY DEF Init
<1>2. missed \in [runners : SUBSET Repos, hooks : SUBSET Repos]
  BY DEF Init
<1>3. seen \in [Names -> {"none", "idle", "busy"}]
  BY DEF Init, Nobody
<1> QED
  BY <1>1, <1>2, <1>3 DEF Init, TypeOK, Ours, Steps

(* TypeOK in the parts its step is proved in.                              *)
RegType     == reg \in [Names -> {"none", "idle", "busy"}]
InstType    == inst \in [Names -> {"new", "none", "up", "dead"}]
WorldType   == /\ arc \in {"down", "up", "sick"} /\ asUnit \in BOOLEAN /\ unit \in BOOLEAN
               /\ RegType /\ InstType /\ files \subseteq Ours
               /\ hook \subseteq Repos /\ watched \subseteq Repos
FlowType    == pc \in Steps /\ forced \in BOOLEAN /\ mode \in Modes
PictureType == /\ seen \in [Names -> {"none", "idle", "busy"}]
               /\ pool \in Pools \cup {NoPool} /\ pools \subseteq Pools
               /\ todo \subseteq Ours /\ orphans \subseteq Ours
               /\ target \subseteq Ours
ReportType  == /\ left \subseteq Ours /\ errs \in BOOLEAN
               /\ killed \subseteq Ours /\ cut \subseteq Ours
               /\ excuse \subseteq {"arc", "listRunners", "deregister"}
               /\ missed \in [runners : SUBSET Repos, hooks : SUBSET Repos]

LEMMA TypeParts ==
    /\ TypeOK => WorldType /\ FlowType /\ PictureType /\ ReportType
    /\ WorldType' /\ FlowType' /\ PictureType' /\ ReportType' => TypeOK'
BY DEF TypeOK, WorldType, FlowType, PictureType, ReportType, RegType, InstType, Ours

(* What a step leaves alone keeps its type.                                *)
LEMMA PartsKept ==
    /\ WorldType /\ UNCHANGED world => WorldType'
    /\ FlowType /\ UNCHANGED flow => FlowType'
    /\ PictureType /\ UNCHANGED picture => PictureType'
    /\ ReportType /\ UNCHANGED report => ReportType'
<1>1. WorldType /\ UNCHANGED world => WorldType'
  BY DEF WorldType, RegType, InstType, world, Ours
<1>2. FlowType /\ UNCHANGED flow => FlowType'
  BY DEF FlowType, flow
<1>3. PictureType /\ UNCHANGED picture => PictureType'
  BY DEF PictureType, picture, Ours
<1>4. ReportType /\ UNCHANGED report => ReportType'
  BY DEF ReportType, report, Ours
<1> QED
  BY <1>1, <1>2, <1>3, <1>4

(* So does the flow when the command goes to one of its steps.             *)
LEMMA FlowGoes == ASSUME FlowType, NEW step \in Steps, Goto(step) PROVE FlowType'
BY DEF FlowType, Goto

(* One registration or one instance changes to a value of its type.        *)
LEMMA RegSet == ASSUME RegType, NEW n \in Names, NEW r \in {"none", "idle", "busy"},
                       reg' = [reg EXCEPT ![n] = r]
                PROVE  RegType'
BY DEF RegType

LEMMA InstSet == ASSUME InstType, NEW n \in Names, NEW i \in {"new", "none", "up", "dead"},
                        inst' = [inst EXCEPT ![n] = i]
                 PROVE  InstType'
BY DEF InstType

(* The world's steps.                                                      *)
LEMMA WorldStepType == ASSUME TypeOK, World PROVE TypeOK'
<1> USE TypeParts, PartsKept
<1>0. WorldType /\ RegType /\ InstType
  BY DEF WorldType
<1> SUFFICES WorldType'
  BY DEF World, TurnsSick, Interrupted, ReposChange, Register, Launch, JobStarts, JobEnds, RunnerDies,
         flow, picture, report
<1>1. CASE TurnsSick
  BY <1>1 DEF TurnsSick, WorldType, RegType, InstType, Ours
<1>2. CASE Interrupted
  BY <1>2 DEF Interrupted, WorldType, RegType, InstType, Ours
<1>3. ASSUME NEW n \in Names, Register(n) PROVE WorldType'
  <2>1. RegType' /\ InstType'
    BY <1>0, <1>3, RegSet, InstSet DEF Register
  <2> QED
    BY <1>0, <1>3, <2>1 DEF Register, WorldType, Ours
<1>4. ASSUME NEW n \in Names, Launch(n) PROVE WorldType'
  <2>1. RegType' /\ InstType'
    BY <1>0, <1>4, InstSet DEF Launch, RegType
  <2>2. files' \subseteq Ours
    BY <1>0, <1>4 DEF Launch, WorldType
  <2> QED
    BY <1>0, <1>4, <2>1, <2>2 DEF Launch, WorldType, Ours
<1>5. ASSUME NEW n \in Names, JobStarts(n) PROVE WorldType'
  <2>1. RegType' /\ InstType'
    BY <1>0, <1>5, RegSet DEF JobStarts, InstType
  <2> QED
    BY <1>0, <1>5, <2>1 DEF JobStarts, WorldType, Ours
<1>6. ASSUME NEW n \in Names, JobEnds(n) PROVE WorldType'
  <2>1. RegType' /\ InstType'
    BY <1>0, <1>6, RegSet, InstSet DEF JobEnds
  <2> QED
    BY <1>0, <1>6, <2>1 DEF JobEnds, WorldType, Ours
<1>7. ASSUME NEW n \in Names, RunnerDies(n) PROVE WorldType'
  <2>1. (IF reg[n] = "busy" THEN "none" ELSE reg[n]) \in {"none", "idle", "busy"}
    BY <1>0 DEF RegType
  <2>2. RegType' /\ InstType'
    BY <1>0, <1>7, <2>1, RegSet, InstSet DEF RunnerDies
  <2> QED
    BY <1>0, <1>7, <2>2 DEF RunnerDies, WorldType, Ours
<1>8. CASE ReposChange
  BY <1>8, UninstallConstants DEF ReposChange, WorldType, RegType, InstType, Ours
<1> QED
  BY <1>1, <1>2, <1>3, <1>4, <1>5, <1>6, <1>7, <1>8 DEF World

(* The steps of the command before and after Teardown.                     *)
LEMMA OuterStepType ==
    ASSUME TypeOK,
           \/ Begin \/ CheckNoBusyRunners \/ CheckFails \/ Confirm
           \/ StopService \/ StopFails \/ RemoveUnit \/ RemoveUnitFails \/ CheckNotRunning
           \/ Unregister \/ UnregisterFails \/ RemoveTargets \/ RemoveTargetsFails
    PROVE  TypeOK'
<1> USE TypeParts, PartsKept
<1>0. WorldType /\ FlowType /\ PictureType /\ ReportType
  OBVIOUS
<1>1. CASE Begin
  <2>1. FlowType'
    <3>1. pc' \in {"check", "confirm"}
      BY <1>1 DEF Begin
    <3> QED
      BY <1>0, <1>1, <3>1 DEF Begin, FlowType, Steps
  <2>2. ReportType'
    BY <1>0, <1>1 DEF Begin, ReportType, Ours
  <2> QED
    BY <1>0, <1>1, <2>1, <2>2 DEF Begin
<1>2. CASE CheckNoBusyRunners
  <2>1. FlowType'
    BY <1>0, <1>2, FlowGoes DEF CheckNoBusyRunners, Steps
  <2> QED
    BY <1>0, <1>2, <2>1 DEF CheckNoBusyRunners
<1>3. CASE CheckFails
  <2>1. FlowType'
    BY <1>0, <1>3, FlowGoes DEF CheckFails, Steps
  <2> QED
    BY <1>0, <1>3, <2>1 DEF CheckFails
<1>4. CASE Confirm
  <2>1. PICK answer \in {"stop", "aborted"} : Goto(answer)
    BY <1>4 DEF Confirm
  <2>2. FlowType'
    BY <1>0, <2>1, FlowGoes DEF Steps
  <2> QED
    BY <1>0, <1>4, <2>2 DEF Confirm
<1>5. CASE StopService
  <2>1. FlowType'
    BY <1>0, <1>5, FlowGoes DEF StopService, Steps
  <2>2. WorldType'
    BY <1>0, <1>5 DEF StopService, WorldType, RegType, InstType, Ours
  <2> QED
    BY <1>0, <1>5, <2>1, <2>2 DEF StopService
<1>6. CASE StopFails
  <2>1. FlowType'
    BY <1>0, <1>6, FlowGoes DEF StopFails, Steps
  <2> QED
    BY <1>0, <1>6, <2>1 DEF StopFails
<1>7. CASE RemoveUnit
  <2>1. FlowType'
    BY <1>0, <1>7, FlowGoes DEF RemoveUnit, AfterUnit, Steps, Teardowns
  <2>2. WorldType'
    BY <1>0, <1>7 DEF RemoveUnit, WorldType, RegType, InstType, Ours
  <2> QED
    BY <1>0, <1>7, <2>1, <2>2 DEF RemoveUnit
<1>8. CASE RemoveUnitFails
  <2>1. FlowType'
    BY <1>0, <1>8, FlowGoes DEF RemoveUnitFails, Steps
  <2> QED
    BY <1>0, <1>8, <2>1 DEF RemoveUnitFails
<1>9. CASE CheckNotRunning
  <2>1. FlowType'
    BY <1>0, <1>9, FlowGoes DEF CheckNotRunning, Steps, Teardowns
  <2> QED
    BY <1>0, <1>9, <2>1 DEF CheckNotRunning
<1>10. CASE Unregister
  <2>1. FlowType'
    BY <1>0, <1>10, FlowGoes DEF Unregister, Steps
  <2>2. WorldType'
    BY <1>0, <1>10 DEF Unregister, WorldType, RegType, InstType, Ours
  <2>3. ReportType' /\ PictureType'
    BY <1>0, <1>10 DEF Unregister, ReportType, Ours, WorldType
  <2> QED
    BY <2>1, <2>2, <2>3
<1>11. CASE UnregisterFails
  <2>1. FlowType'
    BY <1>0, <1>11, FlowGoes DEF UnregisterFails, Steps
  <2>2. WorldType'
    BY <1>0, <1>11 DEF UnregisterFails, WorldType, RegType, InstType, Ours
  <2>3. ReportType'
    BY <1>0, <1>11 DEF UnregisterFails, ReportType, Ours
  <2> QED
    BY <1>0, <1>11, <2>1, <2>2, <2>3 DEF UnregisterFails
<1>12. CASE RemoveTargets
  <2>1. FlowType'
    BY <1>0, <1>12, FlowGoes DEF RemoveTargets, Steps
  <2>2. InstType'
    BY <1>0, <1>12 DEF RemoveTargets, WorldType, InstType
  <2>3. WorldType'
    BY <1>0, <1>12, <2>2 DEF RemoveTargets, WorldType, RegType, Ours
  <2>4. ReportType'
    BY <1>0, <1>12 DEF RemoveTargets, Targets, ReportType, WorldType, Ours
  <2> QED
    BY <1>0, <1>12, <2>1, <2>3, <2>4 DEF RemoveTargets
<1>13. CASE RemoveTargetsFails
  <2>1. FlowType'
    BY <1>0, <1>13, FlowGoes DEF RemoveTargetsFails, Steps
  <2>2. ReportType'
    BY <1>0, <1>13 DEF RemoveTargetsFails, ReportType, Ours
  <2> QED
    BY <1>0, <1>13, <2>1, <2>2 DEF RemoveTargetsFails
<1> QED
  BY <1>1, <1>2, <1>3, <1>4, <1>5, <1>6, <1>7, <1>8, <1>9, <1>10, <1>11, <1>12, <1>13

(* Teardown's steps for a pool and for what its picture shows.             *)
LEMMA PoolStepType ==
    ASSUME TypeOK,
           \/ ListRunners \/ ListRunnersFails
           \/ \E p \in Pools : ListPool(p) \/ ListPoolFails(p)
           \/ InstancesDone \/ OrphansDone \/ Prune \/ PruneFails
    PROVE  TypeOK'
<1> USE TypeParts, PartsKept
<1>0. WorldType /\ FlowType /\ PictureType /\ ReportType
  OBVIOUS
<1>1. CASE ListRunners
  <2>1. FlowType'
    BY <1>0, <1>1, FlowGoes DEF ListRunners, Steps, Teardowns
  <2>2. PictureType'
    BY <1>0, <1>1 DEF ListRunners, PictureType, WorldType, RegType, Ours
  <2>3. ReportType'
    BY <1>0, <1>1 DEF ListRunners, Beside, ReportType, Ours
  <2> QED
    BY <1>0, <1>1, <2>1, <2>2, <2>3 DEF ListRunners
<1>2. CASE ListRunnersFails
  <2>1. FlowType'
    BY <1>0, <1>2, FlowGoes DEF ListRunnersFails, Steps, Teardowns
  <2>2. PictureType'
    BY <1>0, <1>2 DEF ListRunnersFails, Nobody, PictureType, Ours
  <2>3. ReportType'
    BY <1>0, <1>2 DEF ListRunnersFails, Beside, ReportType, Ours
  <2> QED
    BY <1>0, <1>2, <2>1, <2>2, <2>3 DEF ListRunnersFails
<1>3. ASSUME NEW p \in Pools, NEW have \in SUBSET Ours, Take(p, have)
      PROVE  todo' \subseteq Ours /\ orphans' \subseteq Ours /\ (ReportType => left' \subseteq Ours)
  <2> DEFINE stray == {n \in Names : PoolOf[n] = p /\ seen[n] # "none" /\ n \notin have}
             busy  == {n \in have \cup stray : seen[n] = "busy"}
  <2>1. stray \subseteq Ours
    BY UninstallConstants DEF Ours
  <2>2. todo' = have \ busy /\ orphans' = stray \ busy /\ left' = left \cup busy
    BY <1>3 DEF Take
  <2>3. busy \subseteq Ours
    BY <2>1
  <2> HIDE DEF stray, busy
  <2> QED
    BY <2>1, <2>2, <2>3 DEF ReportType
<1>4. ASSUME NEW p \in Pools, ListPool(p) PROVE TypeOK'
  <2>1. FlowType'
    BY <1>0, <1>4, FlowGoes DEF ListPool, Steps, Teardowns
  <2>2. todo' \subseteq Ours /\ orphans' \subseteq Ours /\ left' \subseteq Ours
    BY <1>0, <1>3, <1>4 DEF ListPool
  <2>3. PictureType'
    BY <1>0, <1>4, <2>2 DEF ListPool, PictureType, Ours
  <2>4. ReportType'
    BY <1>0, <1>4, <2>2 DEF ListPool, ReportType, Ours
  <2> QED
    BY <1>0, <1>4, <2>1, <2>3, <2>4 DEF ListPool
<1>5. ASSUME NEW p \in Pools, ListPoolFails(p) PROVE TypeOK'
  <2>1. FlowType'
    BY <1>0, <1>5, FlowGoes DEF ListPoolFails, Steps, Teardowns
  <2>2. todo' \subseteq Ours /\ orphans' \subseteq Ours /\ left' \subseteq Ours
    BY <1>0, <1>3, <1>5 DEF ListPoolFails
  <2>3. PictureType'
    BY <1>0, <1>5, <2>2 DEF ListPoolFails, PictureType, Ours
  <2>4. ReportType'
    BY <1>0, <1>5, <2>2 DEF ListPoolFails, ReportType, Ours
  <2> QED
    BY <1>0, <1>5, <2>1, <2>3, <2>4 DEF ListPoolFails
<1>6. CASE InstancesDone
  <2>1. FlowType'
    BY <1>0, <1>6, FlowGoes DEF InstancesDone, Steps, Teardowns
  <2> QED
    BY <1>0, <1>6, <2>1 DEF InstancesDone
<1>7. CASE OrphansDone
  <2>1. FlowType'
    BY <1>0, <1>7, FlowGoes DEF OrphansDone, Steps, Teardowns
  <2> QED
    BY <1>0, <1>7, <2>1 DEF OrphansDone
<1>a. ASSUME NextPool PROVE FlowType' /\ PictureType'
  <2>1. FlowType'
    BY <1>0, <1>a, FlowGoes DEF NextPool, Steps, Teardowns
  <2>2. PictureType'
    BY <1>0, <1>a DEF NextPool, Nobody, PictureType, Ours
  <2> QED
    BY <2>1, <2>2
<1>8. CASE Prune
  <2>1. FlowType' /\ PictureType'
    BY <1>0, <1>8, <1>a DEF Prune
  <2>2. InstType'
    BY <1>0, <1>8 DEF Prune, WorldType, InstType
  <2>3. WorldType'
    BY <1>0, <1>8, <2>2 DEF Prune, WorldType, RegType, Ours
  <2> QED
    BY <1>0, <1>8, <2>1, <2>3 DEF Prune
<1>9. CASE PruneFails
  <2>1. FlowType' /\ PictureType'
    BY <1>0, <1>9, <1>a DEF PruneFails
  <2>2. ReportType'
    BY <1>0, <1>9 DEF PruneFails, ReportType, Ours
  <2> QED
    BY <1>0, <1>9, <2>1, <2>2 DEF PruneFails
<1> QED
  BY <1>1, <1>2, <1>4, <1>5, <1>6, <1>7, <1>8, <1>9

(* Teardown's steps for one runner.                                        *)
LEMMA RunnerStepType ==
    ASSUME TypeOK, NEW n \in Names,
           \/ Deregister(n) \/ DeregisterRefused(n) \/ DeregisterFails(n)
           \/ Destroy(n) \/ DestroyFails(n)
           \/ RemoveOrphan(n) \/ RemoveOrphanFails(n)
    PROVE  TypeOK'
<1> USE TypeParts, PartsKept
<1>0. WorldType /\ FlowType /\ PictureType /\ ReportType /\ RegType /\ InstType
  BY DEF WorldType
<1>1. CASE Deregister(n)
  <2>1. FlowType'
    BY <1>0, <1>1, FlowGoes DEF Deregister, Steps, Teardowns
  <2>2. RegType'
    BY <1>0, <1>1, RegSet DEF Deregister, RegType
  <2>3. WorldType'
    BY <1>0, <1>1, <2>2 DEF Deregister, WorldType, InstType, Ours
  <2>4. PictureType'
    BY <1>0, <1>1 DEF Deregister, PictureType, Ours
  <2> QED
    BY <1>0, <1>1, <2>1, <2>3, <2>4 DEF Deregister
<1>2. CASE DeregisterRefused(n)
  <2>1. PictureType'
    BY <1>0, <1>2 DEF DeregisterRefused, PictureType, Ours
  <2>2. ReportType'
    <3>1. n \in Ours
      BY <1>0, <1>2 DEF DeregisterRefused, PictureType
    <3> QED
      BY <1>0, <1>2, <3>1 DEF DeregisterRefused, ReportType, Ours
  <2> QED
    BY <1>0, <1>2, <2>1, <2>2 DEF DeregisterRefused
<1>3. CASE DeregisterFails(n)
  <2>1. FlowType'
    BY <1>0, <1>3, FlowGoes DEF DeregisterFails, Steps, Teardowns
  <2>2. PictureType'
    BY <1>0, <1>3 DEF DeregisterFails, PictureType, Ours
  <2>3. ReportType'
    BY <1>0, <1>3 DEF DeregisterFails, ReportType, Ours
  <2> QED
    BY <1>0, <1>3, <2>1, <2>2, <2>3 DEF DeregisterFails
<1>4. CASE Destroy(n)
  <2>1. FlowType'
    BY <1>0, <1>4, FlowGoes DEF Destroy, Steps, Teardowns
  <2>2. (IF n \in Executing THEN "none" ELSE reg[n]) \in {"none", "idle", "busy"}
    BY <1>0 DEF RegType
  <2>3. RegType' /\ InstType'
    BY <1>0, <1>4, <2>2, RegSet, InstSet DEF Destroy
  <2>4. WorldType'
    BY <1>0, <1>4, <2>3 DEF Destroy, WorldType, Ours
  <2>5. PictureType'
    BY <1>0, <1>4 DEF Destroy, PictureType, Ours
  <2>6. n \in Ours
    BY <1>0, <1>4 DEF Destroy, PictureType
  <2>7. ReportType'
    BY <1>0, <1>4, <2>6 DEF Destroy, ReportType, Ours
  <2> QED
    BY <2>1, <2>4, <2>5, <2>7
<1>5. CASE DestroyFails(n)
  <2>1. FlowType'
    BY <1>0, <1>5, FlowGoes DEF DestroyFails, Steps, Teardowns
  <2>2. PictureType'
    BY <1>0, <1>5 DEF DestroyFails, PictureType, Ours
  <2>3. ReportType'
    BY <1>0, <1>5 DEF DestroyFails, ReportType, Ours
  <2> QED
    BY <1>0, <1>5, <2>1, <2>2, <2>3 DEF DestroyFails
<1>6. CASE RemoveOrphan(n)
  <2>1. FlowType'
    BY <1>0, <1>6 DEF RemoveOrphan
  <2>2. RegType'
    BY <1>0, <1>6, RegSet DEF RemoveOrphan, RegType
  <2>3. WorldType'
    BY <1>0, <1>6, <2>2 DEF RemoveOrphan, WorldType, InstType, Ours
  <2>4. PictureType'
    BY <1>0, <1>6 DEF RemoveOrphan, PictureType, Ours
  <2>5. n \in Ours
    BY <1>0, <1>6 DEF RemoveOrphan, PictureType
  <2>6. ReportType'
    BY <1>0, <1>6, <2>5 DEF RemoveOrphan, ReportType, Ours
  <2> QED
    BY <2>1, <2>3, <2>4, <2>6
<1>7. CASE RemoveOrphanFails(n)
  <2>1. PictureType'
    BY <1>0, <1>7 DEF RemoveOrphanFails, PictureType, Ours
  <2>2. ReportType'
    BY <1>0, <1>7 DEF RemoveOrphanFails, ReportType, Ours
  <2> QED
    BY <1>0, <1>7, <2>1, <2>2 DEF RemoveOrphanFails
<1> QED
  BY <1>1, <1>2, <1>3, <1>4, <1>5, <1>6, <1>7

LEMMA StepType == TypeOK /\ [Next]_vars => TypeOK'
<1> SUFFICES ASSUME TypeOK, [Next]_vars PROVE TypeOK'
  OBVIOUS
<1>1. CASE World
  BY <1>1, WorldStepType
<1>2. CASE Command
  BY <1>2, OuterStepType, PoolStepType, RunnerStepType DEF Command
<1>3. CASE UNCHANGED vars
  BY <1>3, TypeParts, PartsKept DEF vars
<1> QED
  BY <1>1, <1>2, <1>3 DEF Next

-----------------------------------------------------------------------------
(* Every variable of Uninstall has its type. *)
THEOREM UninstallTypeCorrect == Spec => []TypeOK
BY InitType, StepType, PTL DEF Spec

-----------------------------------------------------------------------------
(* Where the command stands relative to Teardown. *)
Before == {"off", "check", "confirm", "stop", "unit", "probe", "aborted", "list"}
Within == {"pool", "instances", "destroy", "orphans", "prune"}
After  == {"hooks", "files", "done"}

(* Teardown's one picture of GitHub holds what matters as long as no arc   *)
(* registers runners: a runner that is not in it has no registration, and  *)
(* the target of a destruction has none any more, so it cannot get a job.  *)
(* That is so of the runners of the repositories that were listed.         *)
Unlisted(n)  == RepoOf[n] \in missed.runners
PictureHolds == pc \in Within => \A n \in Names : seen[n] = "none" => reg[n] = "none" \/ Unlisted(n)
TargetIsOff  == pc = "destroy" => \A n \in target : reg[n] = "none" \/ Unlisted(n)

SpareInv ==
    /\ pc \in Before => killed = {}
    /\ pc \in Within \cup {"list"} => mode = "orch"
    /\ excuse = {} =>
          /\ \A n \in killed : Unlisted(n)
          /\ pc \in Within \cup After /\ mode = "orch" => arc = "down"
          /\ PictureHolds
          /\ TargetIsOff

LEMMA InitSpare == Init => SpareInv
BY DEF Init, SpareInv, PictureHolds, TargetIsOff, Within, After

(* What the hooks' removal writes down leaves Teardown's record alone.     *)
LEMMA HooksKeepRunners == ASSUME TypeOK, NEW S, missed' = [missed EXCEPT !.hooks = S]
                          PROVE  missed'.runners = missed.runners
BY DEF TypeOK

LEMMA StepSpare == TypeOK /\ SpareInv /\ [Next]_vars => SpareInv'
<1> SUFFICES ASSUME TypeOK, SpareInv, [Next]_vars PROVE SpareInv'
  OBVIOUS
<1> USE DEF SpareInv, PictureHolds, TargetIsOff, Unlisted, Before, Within, After, TypeOK, Steps, Teardowns,
            world, flow, picture, report, Goto
<1>1. ASSUME NEW n \in Names, Register(n) \/ Launch(n) \/ JobStarts(n) \/ JobEnds(n) \/ RunnerDies(n)
      PROVE  SpareInv'
  <2>1. CASE Register(n)
    BY <2>1 DEF Register
  <2>2. CASE Launch(n)
    BY <2>2 DEF Launch
  <2>3. CASE JobStarts(n)
    BY <2>3 DEF JobStarts
  <2>4. CASE JobEnds(n)
    BY <2>4 DEF JobEnds
  <2>5. CASE RunnerDies(n)
    BY <2>5 DEF RunnerDies
  <2> QED
    BY <1>1, <2>1, <2>2, <2>3, <2>4, <2>5
<1>2. CASE TurnsSick \/ Interrupted \/ ReposChange
  BY <1>2 DEF TurnsSick, Interrupted, ReposChange
<1>3. CASE Begin \/ CheckNoBusyRunners \/ CheckFails \/ Confirm
  BY <1>3 DEF Begin, CheckNoBusyRunners, CheckFails, Confirm
<1>4. CASE StopService \/ StopFails \/ RemoveUnit \/ RemoveUnitFails \/ CheckNotRunning
  BY <1>4 DEF StopService, StopFails, RemoveUnit, RemoveUnitFails, CheckNotRunning, AfterUnit
<1>5. CASE ListRunners \/ ListRunnersFails
  <2>1. CASE ListRunners
    <3>1. missed'.runners = Repos \ watched
      BY <2>1 DEF ListRunners
    <3>2. \A n \in Names : n \notin Visible => RepoOf[n] \in missed'.runners
      BY <3>1, UninstallConstants DEF Visible
    <3> QED
      BY <2>1, <3>2 DEF ListRunners, Beside
  <2>2. CASE ListRunnersFails
    BY <2>2 DEF ListRunnersFails
  <2> QED
    BY <1>5, <2>1, <2>2
<1>6. ASSUME NEW p \in Pools, ListPool(p) \/ ListPoolFails(p) PROVE SpareInv'
  BY <1>6 DEF ListPool, ListPoolFails, Take, Ours
<1>7. ASSUME NEW n \in Names, Deregister(n) \/ DeregisterRefused(n) \/ DeregisterFails(n) PROVE SpareInv'
  <2>1. CASE Deregister(n)
    <3>1. excuse = {} => reg'[n] = "none" \/ Unlisted(n)
      BY <2>1 DEF Deregister
    <3>2. \A k \in Names : reg[k] = "none" => reg'[k] = "none"
      BY <2>1 DEF Deregister
    <3> QED
      BY <2>1, <3>1, <3>2 DEF Deregister
  <2>2. CASE DeregisterRefused(n)
    BY <2>2 DEF DeregisterRefused
  <2>3. CASE DeregisterFails(n)
    <3>1. excuse' # {}
      BY <2>3 DEF DeregisterFails
    <3> QED
      BY <2>3, <3>1 DEF DeregisterFails
  <2> QED
    BY <1>7, <2>1, <2>2, <2>3
<1>8. ASSUME NEW n \in Names, Destroy(n) \/ DestroyFails(n) PROVE SpareInv'
  <2>1. CASE Destroy(n)
    <3>1. excuse = {} => n \notin Executing \/ Unlisted(n)
      BY <2>1 DEF Destroy, Executing
    <3> QED
      BY <2>1, <3>1 DEF Destroy
  <2>2. CASE DestroyFails(n)
    BY <2>2 DEF DestroyFails
  <2> QED
    BY <1>8, <2>1, <2>2
<1>9. ASSUME NEW n \in Names, RemoveOrphan(n) \/ RemoveOrphanFails(n) PROVE SpareInv'
  BY <1>9 DEF RemoveOrphan, RemoveOrphanFails
<1>10. CASE InstancesDone \/ OrphansDone \/ Prune \/ PruneFails
  BY <1>10 DEF InstancesDone, OrphansDone, Prune, PruneFails, NextPool
<1>11. CASE Unregister \/ UnregisterFails \/ RemoveTargets \/ RemoveTargetsFails
  BY <1>11, HooksKeepRunners DEF Unregister, UnregisterFails, RemoveTargets, RemoveTargetsFails
<1>12. CASE UNCHANGED vars
  BY <1>12 DEF vars
<1> QED
  BY <1>1, <1>2, <1>3, <1>4, <1>5, <1>6, <1>7, <1>8, <1>9, <1>10, <1>11, <1>12
     DEF Next, World, Command

(* No runner is destroyed in the middle of a job when GitHub answers and   *)
(* no arc is left beside Teardown, but those of repositories that were not *)
(* listed.                                                                 *)
THEOREM TeardownSparesTheBusy == Spec => []SparesTheBusy
<1>1. SpareInv => SparesTheBusy
  BY DEF SpareInv, SparesTheBusy, Unlisted
<1> QED
  BY <1>1, InitType, StepType, InitSpare, StepSpare, PTL DEF Spec

-----------------------------------------------------------------------------
(* What Teardown has not dealt with yet is in one of its lists: a pool it  *)
(* has not come to, or in the pool at hand an instance, the target or a    *)
(* registration without instance.                                          *)
Covered(n) ==
    PoolOf[n] \notin pools =>
        /\ reg[n] # "none" => n \in todo \cup orphans \/ Unlisted(n)
        /\ inst[n] \in {"up", "dead"} => n \in todo \cup target

ListsFit ==
    /\ pc \notin {"instances", "destroy"} => todo = {}
    /\ pc \notin {"instances", "destroy", "orphans"} => orphans = {}
    /\ pc # "destroy" => target = {}
    /\ \A a, b \in target : a = b
    /\ pc \notin Within => pools = {}

ReportInv ==
    /\ ListsFit
    /\ pc # "done" => cut = {}
    /\ mode = "orch" /\ ~errs /\ excuse = {} =>
          /\ pc \in Within \cup After => \A n \in Ours \ left : Covered(n)
          /\ pc \in {"files", "done"} => hook \subseteq missed.hooks
          /\ cut \subseteq left

LEMMA InitReport == Init => ReportInv
BY DEF Init, ReportInv, ListsFit, Within, After

LEMMA StepReport == TypeOK /\ SpareInv /\ ReportInv /\ [Next]_vars => ReportInv'
<1> SUFFICES ASSUME TypeOK, SpareInv, ReportInv, [Next]_vars PROVE ReportInv'
  OBVIOUS
<1>0. excuse = {} =>
        /\ pc \in Within \cup After /\ mode = "orch" => arc = "down"
        /\ pc \in Within => \A n \in Names : seen[n] = "none" => reg[n] = "none" \/ Unlisted(n)
        /\ pc = "destroy" => \A n \in target : reg[n] = "none" \/ Unlisted(n)
  BY DEF SpareInv, PictureHolds, TargetIsOff
<1>a. pc \in Within \cup {"list"} => mode = "orch"
  BY DEF SpareInv
<1> USE DEF ReportInv, ListsFit, Covered, Unlisted, Before, Within, After, TypeOK, Steps, Teardowns,
            world, flow, picture, report, Goto
<1>1. ASSUME NEW n \in Names, Register(n) \/ Launch(n) \/ JobStarts(n) \/ JobEnds(n) \/ RunnerDies(n)
      PROVE  ReportInv'
  <2>1. CASE Register(n)
    BY <1>0, <2>1 DEF Register
  <2>2. CASE Launch(n)
    BY <1>0, <2>2 DEF Launch
  <2>3. CASE JobStarts(n)
    BY <2>3 DEF JobStarts
  <2>4. CASE JobEnds(n)
    BY <2>4 DEF JobEnds
  <2>5. CASE RunnerDies(n)
    BY <2>5 DEF RunnerDies
  <2> QED
    BY <1>1, <2>1, <2>2, <2>3, <2>4, <2>5
<1>2. CASE TurnsSick \/ Interrupted \/ ReposChange
  BY <1>2 DEF TurnsSick, Interrupted, ReposChange
<1>3. CASE Begin \/ CheckNoBusyRunners \/ CheckFails \/ Confirm
  BY <1>3 DEF Begin, CheckNoBusyRunners, CheckFails, Confirm
<1>4. CASE StopService \/ StopFails \/ RemoveUnit \/ RemoveUnitFails \/ CheckNotRunning
  <2>1. CASE StopService \/ StopFails \/ RemoveUnitFails
    BY <2>1 DEF StopService, StopFails, RemoveUnitFails
  <2>2. CASE RemoveUnit
    BY <2>2 DEF RemoveUnit, AfterUnit
  <2>3. CASE CheckNotRunning
    BY <2>3 DEF CheckNotRunning
  <2> QED
    BY <1>4, <2>1, <2>2, <2>3
<1>5. CASE ListRunners \/ ListRunnersFails
  <2>1. \A n \in Ours : PoolOf[n] \in Pools
    BY UninstallConstants DEF Ours
  <2>2. CASE ListRunners
    BY <2>1, <2>2 DEF ListRunners
  <2>3. CASE ListRunnersFails
    BY <2>3 DEF ListRunnersFails
  <2> QED
    BY <1>5, <2>2, <2>3
<1>6. ASSUME NEW p \in Pools, ListPool(p) \/ ListPoolFails(p) PROVE ReportInv'
  <2>1. CASE ListPool(p)
    <3>1. ASSUME excuse = {}, mode = "orch", ~errs, NEW n \in Ours, n \notin left', PoolOf[n] = p
          PROVE  /\ reg[n] # "none" => n \in todo' \cup orphans' \/ Unlisted(n)
                 /\ inst[n] \in {"up", "dead"} => n \in todo'
      BY <1>0, <2>1, <3>1 DEF ListPool, Take, Ours
    <3>2. ASSUME excuse = {}, mode = "orch", ~errs, NEW n \in Ours, n \notin left', PoolOf[n] # p
          PROVE  Covered(n)'
      BY <2>1, <3>2 DEF ListPool, Take
    <3> QED
      BY <2>1, <3>1, <3>2 DEF ListPool, Take
  <2>2. CASE ListPoolFails(p)
    BY <2>2 DEF ListPoolFails
  <2> QED
    BY <1>6, <2>1, <2>2
<1>7. ASSUME NEW n \in Names, Deregister(n) \/ DeregisterRefused(n) \/ DeregisterFails(n) PROVE ReportInv'
  <2>1. CASE Deregister(n)
    BY <1>0, <2>1 DEF Deregister
  <2>2. CASE DeregisterRefused(n)
    BY <2>2 DEF DeregisterRefused
  <2>3. CASE DeregisterFails(n)
    BY <2>3 DEF DeregisterFails
  <2> QED
    BY <1>7, <2>1, <2>2, <2>3
<1>8. ASSUME NEW n \in Names, Destroy(n) \/ DestroyFails(n) PROVE ReportInv'
  <2>1. CASE Destroy(n)
    <3>1. target = {n}
      BY <2>1 DEF Destroy
    <3>2. \A k \in Names : /\ reg'[k] # "none" => reg[k] # "none"
                          /\ inst'[k] # "none" => inst[k] = inst'[k] /\ k # n
      BY <2>1 DEF Destroy
    <3> QED
      BY <2>1, <3>1, <3>2 DEF Destroy, Ours
  <2>2. CASE DestroyFails(n)
    BY <2>2 DEF DestroyFails
  <2> QED
    BY <1>8, <2>1, <2>2
<1>9. ASSUME NEW n \in Names, RemoveOrphan(n) \/ RemoveOrphanFails(n) PROVE ReportInv'
  <2>1. CASE RemoveOrphan(n)
    <3>1. CASE reg[n] = "busy"
      BY <2>1, <3>1 DEF RemoveOrphan
    <3>2. CASE reg[n] # "busy"
      <4>1. /\ reg' = [reg EXCEPT ![n] = "none"] /\ orphans' = orphans \ {n}
            /\ UNCHANGED <<hook, pc, mode, errs, excuse, left, inst, todo, target, pools, missed>>
        BY <2>1, <3>2 DEF RemoveOrphan
      <4>2. \A k \in Names : reg'[k] # "none" => reg[k] # "none" /\ k # n
        BY <4>1
      <4> QED
        BY <2>1, <4>1, <4>2 DEF RemoveOrphan, Ours
    <3> QED
      BY <3>1, <3>2
  <2>2. CASE RemoveOrphanFails(n)
    BY <2>2 DEF RemoveOrphanFails
  <2> QED
    BY <1>9, <2>1, <2>2
<1>10. CASE InstancesDone \/ OrphansDone \/ Prune \/ PruneFails
  <2>1. CASE InstancesDone \/ OrphansDone
    BY <2>1 DEF InstancesDone, OrphansDone
  <2>2. CASE Prune
    <3>1. \A k \in Names : inst'[k] # "none" => inst[k] = inst'[k]
      BY <2>2 DEF Prune
    <3> QED
      BY <2>2, <3>1 DEF Prune, NextPool, Ours
  <2>3. CASE PruneFails
    BY <2>3 DEF PruneFails, NextPool
  <2> QED
    BY <1>10, <2>1, <2>2, <2>3
<1>11. CASE Unregister \/ UnregisterFails \/ RemoveTargets \/ RemoveTargetsFails
  <2>1. CASE UnregisterFails \/ RemoveTargetsFails
    BY <2>1 DEF UnregisterFails, RemoveTargetsFails
  <2>2. CASE RemoveTargets
    <3>1. \A k \in Names : inst'[k] # "none" => inst[k] = inst'[k]
      BY <2>2 DEF RemoveTargets
    <3>2. mode = "orch" /\ ~errs /\ excuse = {} => cut' \subseteq left
      BY <2>2 DEF RemoveTargets, Targets, Executing
    <3> QED
      BY <2>2, <3>1, <3>2 DEF RemoveTargets, Ours
  <2>3. CASE Unregister
    <3>1. missed'.hooks = Repos \ watched /\ hook' \subseteq Repos \ watched
      BY <2>3 DEF Unregister
    <3> QED
      BY <2>3, <3>1, HooksKeepRunners DEF Unregister
  <2> QED
    BY <1>11, <2>1, <2>2, <2>3
<1>12. CASE UNCHANGED vars
  BY <1>12 DEF vars
<1> QED
  BY <1>1, <1>2, <1>3, <1>4, <1>5, <1>6, <1>7, <1>8, <1>9, <1>10, <1>11, <1>12
     DEF Next, World, Command

(* What an uninstall leaves behind it names as busy, or it has warned, or  *)
(* it belongs to a repository that was not listed.                         *)
THEOREM TeardownReportsWhatIsLeft == Spec => []NothingLeftUnreported
<1>1. TypeOK /\ ReportInv => NothingLeftUnreported
  <2> SUFFICES ASSUME TypeOK, ReportInv, pc = "done", mode = "orch", ~errs, excuse = {}
               PROVE  /\ hook \subseteq missed.hooks
                      /\ \A n \in Ours \ left :
                            inst[n] \in {"new", "none"} /\ (reg[n] = "none" \/ Unlisted(n))
    BY DEF NothingLeftUnreported, Unlisted
  <2>1. todo = {} /\ orphans = {} /\ target = {} /\ pools = {}
    BY DEF ReportInv, ListsFit, Within
  <2>2. ASSUME NEW n \in Ours \ left PROVE (reg[n] = "none" \/ Unlisted(n)) /\ inst[n] \notin {"up", "dead"}
    BY <2>1 DEF ReportInv, Covered, After
  <2>3. \A n \in Ours : inst[n] \in {"new", "none", "up", "dead"}
    BY DEF TypeOK, Ours
  <2> QED
    BY <2>2, <2>3 DEF ReportInv
<1> QED
  BY <1>1, InitType, StepType, InitSpare, StepSpare, InitReport, StepReport, PTL DEF Spec

(* Whoever is cut off in the middle of a job when the directories go was   *)
(* named as busy: what ReportInv says of registrations at that step.       *)
THEOREM TheNamedAreCut == Spec => []OnlyTheNamedAreCut
<1>1. ReportInv => OnlyTheNamedAreCut
  BY DEF ReportInv, OnlyTheNamedAreCut
<1> QED
  BY <1>1, InitType, StepType, InitSpare, StepSpare, InitReport, StepReport, PTL DEF Spec
=============================================================================
