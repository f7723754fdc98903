--------------------------- MODULE ReconcileProofs ---------------------------
(***************************************************************************)
(* Proofs about Reconcile for every number of runners, jobs and pools, any *)
(* limits and any faults.                                                  *)
(***************************************************************************)
EXTENDS Reconcile, ScaleProofs, FiniteSetTheorems

-----------------------------------------------------------------------------
(***************************************************************************)
(* Types of the operators an action applies to the state                   *)
(***************************************************************************)
LEMMA NextPoolType ==
    ASSUME NEW i \in 1..Len(Pools)
    PROVE  Pools[i] \in PoolSet
BY PoolsAreDistinct DEF PoolSet, ToSet

LEMMA LiveIsFinite ==
    ASSUME TypeOK, NEW p \in PoolSet, NEW S, S \subseteq live[p]
    PROVE  IsFiniteSet(S) /\ Cardinality(S) \in Nat
<1>1. S \subseteq Names
  BY DEF TypeOK
<1>2. IsFiniteSet(Names)
  BY ReconcileAssumption
<1> QED
  BY <1>1, <1>2, FS_Subset, FS_CardinalityType

LEMMA ObservedType ==
    ASSUME TypeOK, NEW p \in PoolSet
    PROVE  Observed(p) \in PoolState
<1>1. Cardinality(live[p]) \in Nat
  BY LiveIsFinite
<1>2. Cardinality({n \in live[p] : byName[n] = "busy"}) \in Nat
  BY LiveIsFinite
<1>3. Cardinality(ObservedIdle(p)) \in Nat
  BY LiveIsFinite DEF ObservedIdle
<1>4. Cardinality({n \in live[p] : byName[n] \in {"none", "offline"}}) \in Nat
  BY LiveIsFinite
<1> QED
  BY <1>1, <1>2, <1>3, <1>4 DEF Observed, PoolState

LEMMA LimitsNowType ==
    ASSUME TypeOK, NEW p \in PoolSet
    PROVE  LimitsNow(p) \in Limits
<1>1. limits[p] \in Limits
  BY DEF TypeOK
<1>2. EffectiveLimits(limits[p]) \in Limits
  BY <1>1, EffectiveLimitsInOrder
<1>3. [min |-> 0, max |-> 0] \in Limits
  BY DEF Limits
<1> QED
  BY <1>2, <1>3 DEF LimitsNow

LEMMA DecisionType ==
    ASSUME TypeOK, NEW p \in PoolSet
    PROVE  ToCreate(p) \in Nat /\ ToCull(p) \in Nat
<1>1. DemandNow(p) \in Nat
  BY DEF TypeOK, DemandNow
<1> QED
  BY <1>1, ObservedType, LimitsNowType, CreateCullType DEF ToCreate, ToCull

LEMMA LaunchReposType ==
    ASSUME NEW c \in Nat, NEW jobs \in Seq(Jobs)
    PROVE  LaunchRepos(c, jobs) \in Seq(Repos \cup {NoRepo})
<1>1. CASE ~RepoLevel
  BY <1>1 DEF LaunchRepos
<1>2. CASE RepoLevel /\ jobs = <<>>
  BY <1>2 DEF LaunchRepos
<1>3. CASE RepoLevel /\ jobs # <<>>
  <2>1. ASSUME NEW i \in 1..c
        PROVE  jobs[IF i < Len(jobs) THEN i ELSE Len(jobs)] \in Jobs
    BY <1>3
  <2>2. ASSUME NEW j \in Jobs
        PROVE  JobRepo[j] \in Repos
    BY DEF Repos
  <2> QED
    BY <1>3, <2>1, <2>2 DEF LaunchRepos
<1> QED
  BY <1>1, <1>2, <1>3, ReconcileAssumption

LEMMA StartHeadroomType ==
    ASSUME TypeOK
    PROVE  NoDemand(Headroom([p \in PoolSet |-> Cardinality(live[p])],
                             [p \in PoolSet |-> EffectiveLimits(limits[p])])) \in DemandType
<1> DEFINE L == [p \in PoolSet |-> Cardinality(live[p])]
           M == [p \in PoolSet |-> EffectiveLimits(limits[p])]
<1>1. L \in [PoolSet -> Nat]
  BY LiveIsFinite
<1>2. M \in [PoolSet -> Limits]
  BY EffectiveLimitsInOrder DEF TypeOK
<1> HIDE DEF L, M
<1>3. Headroom(L, M) \in [PoolSet -> Nat]
  BY <1>1, <1>2, HeadroomType
<1>4. NoDemand(Headroom(L, M)) \in DemandType
  BY <1>3, NoDemandType
<1> QED
  BY <1>4 DEF L, M

LEMMA NoDemandsType == NoDemands \in DemandType
<1>1. [p \in PoolSet |-> 0] \in [PoolSet -> Nat]
  OBVIOUS
<1> QED
  BY <1>1, NoDemandType DEF NoDemands

LEMMA FaultType ==
    ASSUME TypeOK, NEW k, Fault(k)
    PROVE  faults' \in 0..MaxFaults
BY ReconcileAssumption DEF Fault, TypeOK

LEMMA RestType ==
    ASSUME Rest
    PROVE  /\ phase' \in Phases
           /\ byName' \in [Names -> RegState]
           /\ visited' \in 0..Len(Pools)
           /\ live' \in [PoolSet -> SUBSET Names]
           /\ victims' \in SUBSET Names
           /\ orphans' \in SUBSET Names
           /\ target' \in SUBSET Names
           /\ unplaced' \in SUBSET Jobs
           /\ demand' \in DemandType
<1>1. Len(Pools) \in Nat
  BY PoolsAreDistinct
<1>2. demand' \in DemandType
  BY NoDemandsType DEF Rest
<1> QED
  BY <1>1, <1>2 DEF Rest, Phases, RegState

LEMMA UnregisterType ==
    ASSUME TypeOK, NEW n \in Names, Unregister(n)
    PROVE  reg' \in [Names -> RegState] /\ regRepo' \in [Names -> Repos \cup {NoRepo}]
BY DEF TypeOK, Unregister, RegState

LEMMA RemoveRunnerType ==
    ASSUME TypeOK, NEW n \in Names, RemoveRunner(n)
    PROVE  reg' \in [Names -> RegState] /\ regRepo' \in [Names -> Repos \cup {NoRepo}]
<1>1. CASE reg[n] = "busy"
  BY <1>1 DEF RemoveRunner, TypeOK
<1>2. CASE reg[n] # "busy"
  BY <1>2, UnregisterType DEF RemoveRunner
<1> QED
  BY <1>1, <1>2

LEMMA RemoveRunnerFailsType ==
    ASSUME TypeOK, NEW n \in Names, RemoveRunnerFails(n)
    PROVE  /\ reg' \in [Names -> RegState]
           /\ regRepo' \in [Names -> Repos \cup {NoRepo}]
           /\ faults' \in 0..MaxFaults
<1>1. faults' \in 0..MaxFaults
  BY FaultType DEF RemoveRunnerFails
<1>2. CASE UNCHANGED <<reg, regRepo>>
  BY <1>1, <1>2 DEF TypeOK
<1>3. CASE Unregister(n)
  BY <1>1, <1>3, UnregisterType
<1> QED
  BY <1>2, <1>3 DEF RemoveRunnerFails

-----------------------------------------------------------------------------
(***************************************************************************)
(* Type correctness                                                        *)
(***************************************************************************)
LEMMA TypeInit == Init => TypeOK
<1> SUFFICES ASSUME Init PROVE TypeOK
  OBVIOUS
<1>1. Len(Pools) \in Nat /\ 0 \in 0..MaxFaults
  BY PoolsAreDistinct, ReconcileAssumption
<1>2. demand \in DemandType
  BY NoDemandsType DEF Init
<1>3. InitLimits \in [PoolSet -> Limits]
  BY ReconcileAssumption
<1> QED
  BY <1>1, <1>2, <1>3
     DEF Init, TypeOK, RegState, InstState, Phases, LaunchState, Clocks, DemandType

LEMMA StartAssigningType ==
    ASSUME TypeOK, NEW seen \in SUBSET Jobs, StartAssigning(seen), faults' \in 0..MaxFaults
    PROVE  TypeOK'
<1>1. demand' \in DemandType
  BY StartHeadroomType DEF StartAssigning
<1>2. visited' \in 0..Len(Pools)
  BY PoolsAreDistinct DEF StartAssigning
<1> QED
  BY <1>1, <1>2
     DEF StartAssigning, TypeOK, DemandType, Phases, github, host, operator, launches

LEMMA TakeLaunchType ==
    ASSUME TypeOK, TakeLaunch
    PROVE  /\ toLaunch' \in Seq(Repos \cup {NoRepo})
           /\ Head(toLaunch) \in Repos \cup {NoRepo}
BY DEF TypeOK, TakeLaunch

LEMMA RegisterType ==
    ASSUME TypeOK, NEW n \in Names, Register(n), Head(toLaunch) \in Repos \cup {NoRepo}
    PROVE  /\ reg' \in [Names -> RegState]
           /\ regRepo' \in [Names -> Repos \cup {NoRepo}]
           /\ byName' \in [Names -> RegState]
           /\ live' \in [PoolSet -> SUBSET Names]
           /\ idle' \in [Names -> Clocks]
BY DEF TypeOK, Register, RegState, Clocks

\* A step of any action keeps the types.
LEMMA TypeStep == TypeOK /\ [Next]_vars => TypeOK'
<1> SUFFICES ASSUME TypeOK, [Next]_vars PROVE TypeOK'
  OBVIOUS
<1>1. ASSUME NEW S, BeginPass(S) PROVE TypeOK'
  BY <1>1 DEF BeginPass, NoFault, TypeOK, Clocks, Phases, github, host, operator, launches
<1>2. ASSUME ListRunners PROVE TypeOK'
  BY <1>2 DEF ListRunners, NoFault, Phases, TypeOK, github, host, operator, pass, launches
<1>3. ASSUME ListInstances PROVE TypeOK'
  <2>1. /\ visited' = visited + 1 /\ visited < Len(Pools)
        /\ victims' \subseteq Names /\ orphans' \subseteq Names
        /\ live' \in [PoolSet -> SUBSET Names]
    BY <1>3 DEF ListInstances, Dead, OrphansOf, Instances, PoolNames, TypeOK
  <2>2. visited' \in 0..Len(Pools)
    BY <2>1, PoolsAreDistinct DEF TypeOK
  <2> QED
    BY <1>3, <2>1, <2>2
       DEF TypeOK, ListInstances, NoFault, github, host, operator, launches
<1>4. ASSUME PollJobs PROVE TypeOK'
  <2>1. queue \in SUBSET Jobs
    BY DEF TypeOK
  <2> QED
    BY <1>4, <2>1, StartAssigningType DEF PollJobs, NoFault, TypeOK
<1>5. ASSUME AssignNextJob PROVE TypeOK'
  <2>1. PICK j \in unplaced : /\ demand' = AssignJob(demand, j)
                              /\ unplaced' = unplaced \ {j}
    BY <1>5 DEF AssignNextJob
  <2>2. demand' \in DemandType
    BY <2>1, AssignJobType DEF TypeOK, DemandType
  <2> QED
    BY <1>5, <2>1, <2>2
       DEF TypeOK, AssignNextJob, NoFault, DemandType, github, host, operator, launches
<1>6. ASSUME ScaleUp PROVE TypeOK'
  <2>1. /\ visited < Len(Pools) /\ visited \in Nat /\ Len(Pools) \in Nat
        /\ NextPool \in PoolSet
    BY <1>6, PoolsAreDistinct, NextPoolType DEF ScaleUp, TakePool, NextPool, TypeOK
  <2>2. toLaunch' \in Seq(Repos \cup {NoRepo})
    BY <1>6, <2>1, DecisionType, LaunchReposType DEF ScaleUp, TypeOK
  <2> QED
    BY <1>6, <2>1, <2>2 DEF TypeOK, ScaleUp, TakePool, NoFault, github, host, operator
<1>7. ASSUME ScaleDown PROVE TypeOK'
  <2>1. /\ visited < Len(Pools) /\ visited \in Nat /\ Len(Pools) \in Nat
        /\ NextPool \in PoolSet
    BY <1>7, PoolsAreDistinct, NextPoolType DEF ScaleDown, TakePool, NextPool, TypeOK
  <2>2. victims' \subseteq live[NextPool]
    BY <1>7 DEF ScaleDown, ObservedIdle
  <2>3. idle' \in [Names -> Clocks]
    BY <1>7 DEF ScaleDown, Clocks, TypeOK
  <2> QED
    BY <1>7, <2>1, <2>2, <2>3
       DEF TypeOK, ScaleDown, TakePool, NoFault, github, host, operator
<1>8. ASSUME AtTarget PROVE TypeOK'
  BY <1>8, PoolsAreDistinct DEF TypeOK, AtTarget, TakePool, NoFault, github, host, operator
<1>9. ASSUME EndPass PROVE TypeOK'
  BY <1>9, RestType
     DEF EndPass, NoFault, DemandType, TypeOK, github, host, operator, pass, launches
<1>10. ASSUME NEW n \in Names, RemoveOrphan(n) PROVE TypeOK'
  BY <1>10, RemoveRunnerType
     DEF RemoveOrphan, NoFault, TypeOK, github, host, operator, pass, launches
<1>11. ASSUME NEW n \in Names, DeregisterVictim(n) PROVE TypeOK'
  BY <1>11, RemoveRunnerType
     DEF DeregisterVictim, TakeVictim, NoFault, TypeOK, github, host, operator, pass,
         launches
<1>12. ASSUME NEW n \in Names, VictimIsBusy(n) PROVE TypeOK'
  BY <1>12, RemoveRunnerType
     DEF VictimIsBusy, TakeVictim, NoFault, TypeOK, github, host, operator, pass, launches
<1>13. ASSUME NEW n \in Names, VictimUnregistered(n) PROVE TypeOK'
  BY <1>13
     DEF VictimUnregistered, TakeVictim, NoFault, TypeOK, github, host, operator, pass,
         launches
<1>14. ASSUME NEW n \in Names, DestroyInstance(n) PROVE TypeOK'
  BY <1>14
     DEF DestroyInstance, NoFault, InstState, Clocks, TypeOK, github, host, operator, pass,
         launches
<1>15. ASSUME NEW n \in Names, RegisterRunner(n) PROVE TypeOK'
  BY <1>15, RegisterType, TakeLaunchType
     DEF RegisterRunner, NoFault, TypeOK, LaunchState, TakeLaunch, host, operator
<1>16. ASSUME NEW n \in Names, CreateInstance(n) PROVE TypeOK'
  BY <1>16
     DEF CreateInstance, NoFault, InstState, LaunchState, TypeOK, github, host, operator,
         pass, launches
<1>17. ASSUME NEW n \in Names, StartInstance(n) PROVE TypeOK'
  BY <1>17
     DEF StartInstance, NoFault, InstState, LaunchState, TypeOK, github, host, operator,
         pass, launches
<1>18. ASSUME NEW n \in Names, CleanUp(n) PROVE TypeOK'
  BY <1>18, RemoveRunnerType
     DEF CleanUp, NoFault, LaunchState, TypeOK, github, host, operator, pass, launches
<1>19. ASSUME SitOut PROVE TypeOK'
  BY <1>19, FaultType DEF SitOut, TypeOK, github, host, operator, pass, launches
<1>20. ASSUME ListRunnersFails PROVE TypeOK'
  BY <1>20, FaultType, RestType
     DEF ListRunnersFails, DemandType, TypeOK, github, host, operator, pass, launches
<1>21. ASSUME ListInstancesFails PROVE TypeOK'
  BY <1>21, FaultType, PoolsAreDistinct
     DEF TypeOK, ListInstancesFails, github, host, operator, launches
<1>22. ASSUME PollJobsPartially PROVE TypeOK'
  <2>1. PICK broken \in SUBSET Repos \ {{}, Repos} :
            StartAssigning({j \in queue : JobRepo[j] \notin broken})
    BY <1>22 DEF PollJobsPartially
  <2>2. {j \in queue : JobRepo[j] \notin broken} \in SUBSET Jobs
    BY DEF TypeOK
  <2>3. faults' \in 0..MaxFaults
    BY <1>22, FaultType DEF PollJobsPartially
  <2> QED
    BY <2>1, <2>2, <2>3, StartAssigningType
<1>23. ASSUME PollJobsFails PROVE TypeOK'
  BY <1>23, FaultType, RestType
     DEF PollJobsFails, DemandType, TypeOK, github, host, operator, pass, launches
<1>24. ASSUME ScaleUpFails PROVE TypeOK'
  BY <1>24, FaultType, PoolsAreDistinct
     DEF TypeOK, ScaleUpFails, TakePool, github, host, operator
<1>25. ASSUME RegisterFails PROVE TypeOK'
  BY <1>25, TakeLaunchType, FaultType DEF RegisterFails, TypeOK, TakeLaunch, host, operator
<1>26. ASSUME Crash PROVE TypeOK'
  BY <1>26, FaultType, RestType
     DEF Crash, DemandType, Clocks, LaunchState, TypeOK, github, host, operator, pass,
         launches
<1>27. ASSUME NEW n \in Names, RemoveOrphanFails(n) PROVE TypeOK'
  BY <1>27, RemoveRunnerFailsType
     DEF RemoveOrphanFails, TypeOK, github, host, operator, pass, launches
<1>28. ASSUME NEW n \in Names, DeregisterVictimFails(n) PROVE TypeOK'
  BY <1>28, RemoveRunnerFailsType
     DEF DeregisterVictimFails, TakeVictim, TypeOK, github, host, operator, pass, launches
<1>29. ASSUME NEW n \in Names, DestroyInstanceFails(n) PROVE TypeOK'
  BY <1>29, FaultType
     DEF DestroyInstanceFails, TypeOK, github, host, operator, pass, launches
<1>30. ASSUME NEW n \in Names, RegisterAnswerLost(n) PROVE TypeOK'
  BY <1>30, RegisterType, TakeLaunchType, FaultType
     DEF RegisterAnswerLost, TypeOK, TakeLaunch, host, operator
<1>31. ASSUME NEW n \in Names, CreateFails(n) PROVE TypeOK'
  BY <1>31, FaultType
     DEF CreateFails, InstState, LaunchState, TypeOK, github, host, operator, pass, launches
<1>32. ASSUME NEW n \in Names, CleanUpFails(n) PROVE TypeOK'
  BY <1>32, RemoveRunnerFailsType
     DEF CleanUpFails, LaunchState, TypeOK, github, host, operator, pass, launches
<1>33. ASSUME Housekeep PROVE TypeOK'
  BY <1>33
     DEF Housekeep, NoFault, InstState, Clocks, TypeOK, github, host, operator, pass,
         launches
<1>34. ASSUME NEW j \in Jobs, JobArrives(j) PROVE TypeOK'
  BY <1>34 DEF JobArrives, NoFault, TypeOK, github, host, operator, pass, launches
<1>35. ASSUME NEW j \in Jobs, JobCancelled(j) PROVE TypeOK'
  BY <1>35, FaultType DEF JobCancelled, TypeOK, github, host, operator, pass, launches
<1>36. ASSUME NEW n \in Names, NEW j \in Jobs, JobStarts(n, j) PROVE TypeOK'
  BY <1>36 DEF JobStarts, NoFault, RegState, TypeOK, github, host, operator, pass, launches
<1>37. ASSUME NEW n \in Names, JobCompletes(n) PROVE TypeOK'
  BY <1>37, UnregisterType
     DEF JobCompletes, NoFault, TypeOK, github, host, operator, pass, launches
<1>38. ASSUME NEW n \in Names, RunnerConnects(n) PROVE TypeOK'
  BY <1>38
     DEF RunnerConnects, NoFault, RegState, TypeOK, github, host, operator, pass, launches
<1>39. ASSUME NEW n \in Names, RunnerDisconnects(n) PROVE TypeOK'
  BY <1>39, FaultType
     DEF RunnerDisconnects, RegState, TypeOK, github, host, operator, pass, launches
<1>40. ASSUME NEW n \in Names, RunnerExits(n) PROVE TypeOK'
  BY <1>40
     DEF RunnerExits, NoFault, InstState, TypeOK, github, host, operator, pass, launches
<1>41. ASSUME NEW n \in Names, RunnerDies(n) PROVE TypeOK'
  BY <1>41, FaultType
     DEF RunnerDies, InstState, TypeOK, github, host, operator, pass, launches
<1>42. ASSUME NEW n \in Names, RunnerLost(n) PROVE TypeOK'
  BY <1>42 DEF RunnerLost, NoFault, RegState, TypeOK, github, host, operator, pass, launches
<1>43. ASSUME NEW n \in Names, TurnsOverdue(n) PROVE TypeOK'
  <2>1. faults' \in 0..MaxFaults
    BY <1>43, FaultType DEF TurnsOverdue, NoFault, TypeOK
  <2> QED
    BY <1>43, <2>1 DEF TurnsOverdue, TypeOK, github, operator, pass, launches
<1>44. ASSUME NEW p \in PoolSet, NEW l \in LimitChoices, SetLimits(p, l) PROVE TypeOK'
  BY <1>44, ReconcileAssumption
     DEF SetLimits, NoFault, TypeOK, github, host, operator, pass, launches
<1>45. ASSUME NEW p \in DrainablePools, SetDrained(p) PROVE TypeOK'
  BY <1>45, ReconcileAssumption
     DEF SetDrained, NoFault, TypeOK, github, host, operator, pass, launches
<1>46. CASE UNCHANGED vars
  BY <1>46 DEF vars, TypeOK, github, host, operator, pass, launches
<1> QED
  BY <1>1, <1>2, <1>3, <1>4, <1>5, <1>6, <1>7, <1>8, <1>9, <1>10, <1>11, <1>12, <1>13,
     <1>14, <1>15, <1>16, <1>17, <1>18, <1>19, <1>20, <1>21, <1>22, <1>23, <1>24, <1>25,
     <1>26, <1>27, <1>28, <1>29, <1>30, <1>31, <1>32, <1>33, <1>34, <1>35, <1>36, <1>37,
     <1>38, <1>39, <1>40, <1>41, <1>42, <1>43, <1>44, <1>45, <1>46
     DEF Next, LoopStep, LoopFault, World, Operator

\* TypeOK, with any number of runners, jobs and pools.
THEOREM TypeCorrect == Spec => []TypeOK
<1> QED
  BY TypeInit, TypeStep, PTL DEF Spec

-----------------------------------------------------------------------------
(***************************************************************************)
(* Launching is over before the loop goes on: what the goroutines of       *)
(* scaleUp do never overlaps with a listing, a removal or a destruction.   *)
(***************************************************************************)
LaunchesAlone == ~LaunchesDone => phase = "applying" /\ PoolDone

LEMMA LaunchesAloneInit == Init => LaunchesAlone
BY DEF Init, LaunchesAlone, LaunchesDone

LEMMA LaunchesAloneStep == TypeOK /\ LaunchesAlone /\ [Next]_vars => LaunchesAlone'
<1> SUFFICES ASSUME TypeOK, LaunchesAlone, [Next]_vars PROVE LaunchesAlone'
  OBVIOUS
<1>0. launch \in [Names -> LaunchState]
  BY DEF TypeOK
<1>1. ASSUME NEW S, BeginPass(S) PROVE LaunchesAlone'
  BY <1>1
     DEF BeginPass, LaunchesAlone, LaunchesDone, PoolDone, github, host, operator, pass,
         launches
<1>2. ASSUME ListRunners PROVE LaunchesAlone'
  BY <1>2
     DEF ListRunners, LaunchesAlone, LaunchesDone, PoolDone, github, host, operator, pass,
         launches
<1>3. ASSUME ListInstances PROVE LaunchesAlone'
  BY <1>3
     DEF ListInstances, LaunchesAlone, LaunchesDone, PoolDone, github, host, operator, pass,
         launches
<1>4. ASSUME PollJobs PROVE LaunchesAlone'
  BY <1>4
     DEF PollJobs, StartAssigning, Reaped, LaunchesAlone, LaunchesDone, PoolDone, github,
         host, operator, pass, launches
<1>5. ASSUME AssignNextJob PROVE LaunchesAlone'
  BY <1>5
     DEF AssignNextJob, LaunchesAlone, LaunchesDone, PoolDone, github, host, operator, pass,
         launches
<1>6. ASSUME ScaleUp PROVE LaunchesAlone'
  BY <1>6
     DEF ScaleUp, TakePool, Applying, LaunchesAlone, LaunchesDone, PoolDone, github, host,
         operator, pass, launches
<1>7. ASSUME ScaleDown PROVE LaunchesAlone'
  BY <1>7
     DEF ScaleDown, TakePool, Applying, LaunchesAlone, LaunchesDone, PoolDone, github, host,
         operator, pass, launches
<1>8. ASSUME AtTarget PROVE LaunchesAlone'
  BY <1>8
     DEF AtTarget, TakePool, Applying, LaunchesAlone, LaunchesDone, PoolDone, github, host,
         operator, pass, launches
<1>9. ASSUME EndPass PROVE LaunchesAlone'
  BY <1>9
     DEF EndPass, Applying, Rest, LaunchesAlone, LaunchesDone, PoolDone, github, host,
         operator, pass, launches
<1>10. ASSUME NEW n \in Names, RemoveOrphan(n) PROVE LaunchesAlone'
  BY <1>10
     DEF RemoveOrphan, LaunchesAlone, LaunchesDone, PoolDone, github, host, operator, pass,
         launches
<1>11. ASSUME NEW n \in Names, DeregisterVictim(n) PROVE LaunchesAlone'
  BY <1>11
     DEF DeregisterVictim, TakeVictim, LaunchesAlone, LaunchesDone, PoolDone, github, host,
         operator, pass, launches
<1>12. ASSUME NEW n \in Names, VictimIsBusy(n) PROVE LaunchesAlone'
  BY <1>12
     DEF VictimIsBusy, TakeVictim, LaunchesAlone, LaunchesDone, PoolDone, github, host,
         operator, pass, launches
<1>13. ASSUME NEW n \in Names, VictimUnregistered(n) PROVE LaunchesAlone'
  BY <1>13
     DEF VictimUnregistered, TakeVictim, LaunchesAlone, LaunchesDone, PoolDone, github,
         host, operator, pass, launches
<1>14. ASSUME NEW n \in Names, DestroyInstance(n) PROVE LaunchesAlone'
  BY <1>14
     DEF DestroyInstance, LaunchesAlone, LaunchesDone, PoolDone, github, host, operator,
         pass, launches
<1>15. ASSUME NEW n \in Names, RegisterRunner(n) PROVE LaunchesAlone'
  BY <1>15, <1>0
     DEF RegisterRunner, TakeLaunch, LaunchesAlone, LaunchesDone, PoolDone, github, host,
         operator, pass, launches
<1>16. ASSUME NEW n \in Names, CreateInstance(n) PROVE LaunchesAlone'
  BY <1>16, <1>0
     DEF CreateInstance, LaunchesAlone, LaunchesDone, PoolDone, github, host, operator,
         pass, launches
<1>17. ASSUME NEW n \in Names, StartInstance(n) PROVE LaunchesAlone'
  BY <1>17, <1>0
     DEF StartInstance, LaunchesAlone, LaunchesDone, PoolDone, github, host, operator, pass,
         launches
<1>18. ASSUME NEW n \in Names, CleanUp(n) PROVE LaunchesAlone'
  BY <1>18, <1>0
     DEF CleanUp, LaunchesAlone, LaunchesDone, PoolDone, github, host, operator, pass,
         launches
<1>19. ASSUME SitOut PROVE LaunchesAlone'
  BY <1>19
     DEF SitOut, LaunchesAlone, LaunchesDone, PoolDone, github, host, operator, pass,
         launches
<1>20. ASSUME ListRunnersFails PROVE LaunchesAlone'
  BY <1>20
     DEF ListRunnersFails, Rest, LaunchesAlone, LaunchesDone, PoolDone, github, host,
         operator, pass, launches
<1>21. ASSUME ListInstancesFails PROVE LaunchesAlone'
  BY <1>21
     DEF ListInstancesFails, LaunchesAlone, LaunchesDone, PoolDone, github, host, operator,
         pass, launches
<1>22. ASSUME PollJobsPartially PROVE LaunchesAlone'
  BY <1>22
     DEF PollJobsPartially, StartAssigning, Reaped, LaunchesAlone, LaunchesDone, PoolDone,
         github, host, operator, pass, launches
<1>23. ASSUME PollJobsFails PROVE LaunchesAlone'
  BY <1>23
     DEF PollJobsFails, Reaped, Rest, LaunchesAlone, LaunchesDone, PoolDone, github, host,
         operator, pass, launches
<1>24. ASSUME ScaleUpFails PROVE LaunchesAlone'
  BY <1>24
     DEF ScaleUpFails, TakePool, Applying, LaunchesAlone, LaunchesDone, PoolDone, github,
         host, operator, pass, launches
<1>25. ASSUME RegisterFails PROVE LaunchesAlone'
  BY <1>25
     DEF RegisterFails, TakeLaunch, LaunchesAlone, LaunchesDone, PoolDone, github, host,
         operator, pass, launches
<1>26. ASSUME Crash PROVE LaunchesAlone'
  BY <1>26
     DEF Crash, Rest, LaunchesAlone, LaunchesDone, PoolDone, github, host, operator, pass,
         launches
<1>27. ASSUME NEW n \in Names, RemoveOrphanFails(n) PROVE LaunchesAlone'
  BY <1>27
     DEF RemoveOrphanFails, LaunchesAlone, LaunchesDone, PoolDone, github, host, operator,
         pass, launches
<1>28. ASSUME NEW n \in Names, DeregisterVictimFails(n) PROVE LaunchesAlone'
  BY <1>28
     DEF DeregisterVictimFails, TakeVictim, LaunchesAlone, LaunchesDone, PoolDone, github,
         host, operator, pass, launches
<1>29. ASSUME NEW n \in Names, DestroyInstanceFails(n) PROVE LaunchesAlone'
  BY <1>29
     DEF DestroyInstanceFails, LaunchesAlone, LaunchesDone, PoolDone, github, host,
         operator, pass, launches
<1>30. ASSUME NEW n \in Names, RegisterAnswerLost(n) PROVE LaunchesAlone'
  BY <1>30
     DEF RegisterAnswerLost, TakeLaunch, LaunchesAlone, LaunchesDone, PoolDone, github,
         host, operator, pass, launches
<1>31. ASSUME NEW n \in Names, CreateFails(n) PROVE LaunchesAlone'
  BY <1>31, <1>0
     DEF CreateFails, LaunchesAlone, LaunchesDone, PoolDone, github, host, operator, pass,
         launches
<1>32. ASSUME NEW n \in Names, CleanUpFails(n) PROVE LaunchesAlone'
  BY <1>32, <1>0
     DEF CleanUpFails, LaunchesAlone, LaunchesDone, PoolDone, github, host, operator, pass,
         launches
<1>33. ASSUME Housekeep PROVE LaunchesAlone'
  BY <1>33
     DEF Housekeep, LaunchesAlone, LaunchesDone, PoolDone, github, host, operator, pass,
         launches
<1>34. ASSUME NEW j \in Jobs, JobArrives(j) PROVE LaunchesAlone'
  BY <1>34
     DEF JobArrives, LaunchesAlone, LaunchesDone, PoolDone, github, host, operator, pass,
         launches
<1>35. ASSUME NEW j \in Jobs, JobCancelled(j) PROVE LaunchesAlone'
  BY <1>35
     DEF JobCancelled, LaunchesAlone, LaunchesDone, PoolDone, github, host, operator, pass,
         launches
<1>36. ASSUME NEW n \in Names, NEW j \in Jobs, JobStarts(n, j) PROVE LaunchesAlone'
  BY <1>36
     DEF JobStarts, LaunchesAlone, LaunchesDone, PoolDone, github, host, operator, pass,
         launches
<1>37. ASSUME NEW n \in Names, JobCompletes(n) PROVE LaunchesAlone'
  BY <1>37
     DEF JobCompletes, LaunchesAlone, LaunchesDone, PoolDone, github, host, operator, pass,
         launches
<1>38. ASSUME NEW n \in Names, RunnerConnects(n) PROVE LaunchesAlone'
  BY <1>38
     DEF RunnerConnects, LaunchesAlone, LaunchesDone, PoolDone, github, host, operator,
         pass, launches
<1>39. ASSUME NEW n \in Names, RunnerDisconnects(n) PROVE LaunchesAlone'
  BY <1>39
     DEF RunnerDisconnects, LaunchesAlone, LaunchesDone, PoolDone, github, host, operator,
         pass, launches
<1>40. ASSUME NEW n \in Names, RunnerExits(n) PROVE LaunchesAlone'
  BY <1>40
     DEF RunnerExits, LaunchesAlone, LaunchesDone, PoolDone, github, host, operator, pass,
         launches
<1>41. ASSUME NEW n \in Names, RunnerDies(n) PROVE LaunchesAlone'
  BY <1>41
     DEF RunnerDies, LaunchesAlone, LaunchesDone, PoolDone, github, host, operator, pass,
         launches
<1>42. ASSUME NEW n \in Names, RunnerLost(n) PROVE LaunchesAlone'
  BY <1>42
     DEF RunnerLost, LaunchesAlone, LaunchesDone, PoolDone, github, host, operator, pass,
         launches
<1>43. ASSUME NEW n \in Names, TurnsOverdue(n) PROVE LaunchesAlone'
  BY <1>43
     DEF TurnsOverdue, LaunchesAlone, LaunchesDone, PoolDone, github, host, operator, pass,
         launches
<1>44. ASSUME NEW p \in PoolSet, NEW l \in LimitChoices, SetLimits(p, l) PROVE LaunchesAlone'
  BY <1>44
     DEF SetLimits, LaunchesAlone, LaunchesDone, PoolDone, github, host, operator, pass,
         launches
<1>45. ASSUME NEW p \in DrainablePools, SetDrained(p) PROVE LaunchesAlone'
  BY <1>45
     DEF SetDrained, LaunchesAlone, LaunchesDone, PoolDone, github, host, operator, pass,
         launches
<1>46. CASE UNCHANGED vars
  BY <1>46
     DEF vars, LaunchesAlone, LaunchesDone, PoolDone, github, host, operator, pass, launches
<1> QED
  BY <1>1, <1>2, <1>3, <1>4, <1>5, <1>6, <1>7, <1>8, <1>9, <1>10, <1>11, <1>12, <1>13,
     <1>14, <1>15, <1>16, <1>17, <1>18, <1>19, <1>20, <1>21, <1>22, <1>23, <1>24, <1>25,
     <1>26, <1>27, <1>28, <1>29, <1>30, <1>31, <1>32, <1>33, <1>34, <1>35, <1>36, <1>37,
     <1>38, <1>39, <1>40, <1>41, <1>42, <1>43, <1>44, <1>45, <1>46
     DEF Next, LoopStep, LoopFault, World, Operator

THEOREM LaunchesAreAlone == Spec => []LaunchesAlone
<1> QED
  BY TypeCorrect, LaunchesAloneInit, LaunchesAloneStep, PTL DEF Spec

-----------------------------------------------------------------------------
(***************************************************************************)
(* Orphans                                                                 *)
(***************************************************************************)
LEMMA OrphansStep ==
    TypeOK /\ LaunchesAlone /\ OrphansHaveNoRunner /\ [Next]_vars => OrphansHaveNoRunner'
<1> SUFFICES ASSUME TypeOK, LaunchesAlone, OrphansHaveNoRunner, [Next]_vars
             PROVE  OrphansHaveNoRunner'
  OBVIOUS
<1>0. /\ inst \in [Names -> InstState] /\ launch \in [Names -> LaunchState]
      /\ orphans \subseteq Names
  BY DEF TypeOK
<1>1. ASSUME NEW S, BeginPass(S) PROVE OrphansHaveNoRunner'
  BY <1>1 DEF BeginPass, OrphansHaveNoRunner, github, host, operator, pass, launches
<1>2. ASSUME ListRunners PROVE OrphansHaveNoRunner'
  BY <1>2 DEF ListRunners, OrphansHaveNoRunner, github, host, operator, pass, launches
<1>3. ASSUME ListInstances PROVE OrphansHaveNoRunner'
  <2>1. orphans' \subseteq {m \in Names : inst[m] = "none"}
    BY <1>3 DEF ListInstances, OrphansOf, Instances, PoolNames
  <2>2. \A m \in Names : launch[m] = "none"
    BY <1>3 DEF ListInstances, LaunchesAlone, LaunchesDone
  <2> QED
    BY <1>3, <2>1, <2>2 DEF ListInstances, OrphansHaveNoRunner, host, launches
<1>4. ASSUME PollJobs PROVE OrphansHaveNoRunner'
  BY <1>4
     DEF PollJobs, StartAssigning, OrphansHaveNoRunner, github, host, operator, pass,
         launches
<1>5. ASSUME AssignNextJob PROVE OrphansHaveNoRunner'
  BY <1>5 DEF AssignNextJob, OrphansHaveNoRunner, github, host, operator, pass, launches
<1>6. ASSUME ScaleUp PROVE OrphansHaveNoRunner'
  BY <1>6 DEF ScaleUp, TakePool, OrphansHaveNoRunner, github, host, operator, pass, launches
<1>7. ASSUME ScaleDown PROVE OrphansHaveNoRunner'
  BY <1>7
     DEF ScaleDown, TakePool, OrphansHaveNoRunner, github, host, operator, pass, launches
<1>8. ASSUME AtTarget PROVE OrphansHaveNoRunner'
  BY <1>8
     DEF AtTarget, TakePool, OrphansHaveNoRunner, github, host, operator, pass, launches
<1>9. ASSUME EndPass PROVE OrphansHaveNoRunner'
  BY <1>9 DEF EndPass, Rest, OrphansHaveNoRunner, github, host, operator, pass, launches
<1>10. ASSUME NEW n \in Names, RemoveOrphan(n) PROVE OrphansHaveNoRunner'
  BY <1>10 DEF RemoveOrphan, OrphansHaveNoRunner, github, host, operator, pass, launches
<1>11. ASSUME NEW n \in Names, DeregisterVictim(n) PROVE OrphansHaveNoRunner'
  BY <1>11
     DEF DeregisterVictim, TakeVictim, OrphansHaveNoRunner, github, host, operator, pass,
         launches
<1>12. ASSUME NEW n \in Names, VictimIsBusy(n) PROVE OrphansHaveNoRunner'
  BY <1>12
     DEF VictimIsBusy, TakeVictim, OrphansHaveNoRunner, github, host, operator, pass,
         launches
<1>13. ASSUME NEW n \in Names, VictimUnregistered(n) PROVE OrphansHaveNoRunner'
  BY <1>13
     DEF VictimUnregistered, TakeVictim, OrphansHaveNoRunner, github, host, operator, pass,
         launches
<1>14. ASSUME NEW n \in Names, DestroyInstance(n) PROVE OrphansHaveNoRunner'
  BY <1>14, <1>0
     DEF DestroyInstance, OrphansHaveNoRunner, github, host, operator, pass, launches
<1>15. ASSUME NEW n \in Names, RegisterRunner(n) PROVE OrphansHaveNoRunner'
  BY <1>15
     DEF RegisterRunner, TakeLaunch, LaunchesAlone, LaunchesDone, PoolDone,
         OrphansHaveNoRunner, github, host, operator, pass, launches
<1>16. ASSUME NEW n \in Names, CreateInstance(n) PROVE OrphansHaveNoRunner'
  BY <1>16, <1>0
     DEF CreateInstance, LaunchesAlone, LaunchesDone, PoolDone, OrphansHaveNoRunner, github,
         host, operator, pass, launches
<1>17. ASSUME NEW n \in Names, StartInstance(n) PROVE OrphansHaveNoRunner'
  BY <1>17, <1>0
     DEF StartInstance, LaunchesAlone, LaunchesDone, PoolDone, OrphansHaveNoRunner, github,
         host, operator, pass, launches
<1>18. ASSUME NEW n \in Names, CleanUp(n) PROVE OrphansHaveNoRunner'
  BY <1>18
     DEF CleanUp, LaunchesAlone, LaunchesDone, PoolDone, OrphansHaveNoRunner, github, host,
         operator, pass, launches
<1>19. ASSUME SitOut PROVE OrphansHaveNoRunner'
  BY <1>19 DEF SitOut, OrphansHaveNoRunner, github, host, operator, pass, launches
<1>20. ASSUME ListRunnersFails PROVE OrphansHaveNoRunner'
  BY <1>20
     DEF ListRunnersFails, Rest, OrphansHaveNoRunner, github, host, operator, pass, launches
<1>21. ASSUME ListInstancesFails PROVE OrphansHaveNoRunner'
  BY <1>21
     DEF ListInstancesFails, OrphansHaveNoRunner, github, host, operator, pass, launches
<1>22. ASSUME PollJobsPartially PROVE OrphansHaveNoRunner'
  BY <1>22
     DEF PollJobsPartially, StartAssigning, OrphansHaveNoRunner, github, host, operator,
         pass, launches
<1>23. ASSUME PollJobsFails PROVE OrphansHaveNoRunner'
  BY <1>23
     DEF PollJobsFails, Rest, OrphansHaveNoRunner, github, host, operator, pass, launches
<1>24. ASSUME ScaleUpFails PROVE OrphansHaveNoRunner'
  BY <1>24
     DEF ScaleUpFails, TakePool, OrphansHaveNoRunner, github, host, operator, pass, launches
<1>25. ASSUME RegisterFails PROVE OrphansHaveNoRunner'
  BY <1>25
     DEF RegisterFails, TakeLaunch, OrphansHaveNoRunner, github, host, operator, pass,
         launches
<1>26. ASSUME Crash PROVE OrphansHaveNoRunner'
  BY <1>26 DEF Crash, Rest, OrphansHaveNoRunner, github, host, operator, pass, launches
<1>27. ASSUME NEW n \in Names, RemoveOrphanFails(n) PROVE OrphansHaveNoRunner'
  BY <1>27
     DEF RemoveOrphanFails, OrphansHaveNoRunner, github, host, operator, pass, launches
<1>28. ASSUME NEW n \in Names, DeregisterVictimFails(n) PROVE OrphansHaveNoRunner'
  BY <1>28
     DEF DeregisterVictimFails, TakeVictim, OrphansHaveNoRunner, github, host, operator,
         pass, launches
<1>29. ASSUME NEW n \in Names, DestroyInstanceFails(n) PROVE OrphansHaveNoRunner'
  BY <1>29
     DEF DestroyInstanceFails, OrphansHaveNoRunner, github, host, operator, pass, launches
<1>30. ASSUME NEW n \in Names, RegisterAnswerLost(n) PROVE OrphansHaveNoRunner'
  BY <1>30
     DEF RegisterAnswerLost, TakeLaunch, OrphansHaveNoRunner, github, host, operator, pass,
         launches
<1>31. ASSUME NEW n \in Names, CreateFails(n) PROVE OrphansHaveNoRunner'
  BY <1>31, <1>0
     DEF CreateFails, LaunchesAlone, LaunchesDone, PoolDone, OrphansHaveNoRunner, github,
         host, operator, pass, launches
<1>32. ASSUME NEW n \in Names, CleanUpFails(n) PROVE OrphansHaveNoRunner'
  BY <1>32
     DEF CleanUpFails, LaunchesAlone, LaunchesDone, PoolDone, OrphansHaveNoRunner, github,
         host, operator, pass, launches
<1>33. ASSUME Housekeep PROVE OrphansHaveNoRunner'
  BY <1>33, <1>0 DEF Housekeep, OrphansHaveNoRunner, github, host, operator, pass, launches
<1>34. ASSUME NEW j \in Jobs, JobArrives(j) PROVE OrphansHaveNoRunner'
  BY <1>34 DEF JobArrives, OrphansHaveNoRunner, github, host, operator, pass, launches
<1>35. ASSUME NEW j \in Jobs, JobCancelled(j) PROVE OrphansHaveNoRunner'
  BY <1>35 DEF JobCancelled, OrphansHaveNoRunner, github, host, operator, pass, launches
<1>36. ASSUME NEW n \in Names, NEW j \in Jobs, JobStarts(n, j) PROVE OrphansHaveNoRunner'
  BY <1>36 DEF JobStarts, OrphansHaveNoRunner, github, host, operator, pass, launches
<1>37. ASSUME NEW n \in Names, JobCompletes(n) PROVE OrphansHaveNoRunner'
  BY <1>37 DEF JobCompletes, OrphansHaveNoRunner, github, host, operator, pass, launches
<1>38. ASSUME NEW n \in Names, RunnerConnects(n) PROVE OrphansHaveNoRunner'
  BY <1>38 DEF RunnerConnects, OrphansHaveNoRunner, github, host, operator, pass, launches
<1>39. ASSUME NEW n \in Names, RunnerDisconnects(n) PROVE OrphansHaveNoRunner'
  BY <1>39
     DEF RunnerDisconnects, OrphansHaveNoRunner, github, host, operator, pass, launches
<1>40. ASSUME NEW n \in Names, RunnerExits(n) PROVE OrphansHaveNoRunner'
  BY <1>40, <1>0
     DEF RunnerExits, OrphansHaveNoRunner, github, host, operator, pass, launches
<1>41. ASSUME NEW n \in Names, RunnerDies(n) PROVE OrphansHaveNoRunner'
  BY <1>41, <1>0 DEF RunnerDies, OrphansHaveNoRunner, github, host, operator, pass, launches
<1>42. ASSUME NEW n \in Names, RunnerLost(n) PROVE OrphansHaveNoRunner'
  BY <1>42 DEF RunnerLost, OrphansHaveNoRunner, github, host, operator, pass, launches
<1>43. ASSUME NEW n \in Names, TurnsOverdue(n) PROVE OrphansHaveNoRunner'
  BY <1>43 DEF TurnsOverdue, OrphansHaveNoRunner, github, host, operator, pass, launches
<1>44. ASSUME NEW p \in PoolSet, NEW l \in LimitChoices, SetLimits(p, l) PROVE OrphansHaveNoRunner'
  BY <1>44 DEF SetLimits, OrphansHaveNoRunner, github, host, operator, pass, launches
<1>45. ASSUME NEW p \in DrainablePools, SetDrained(p) PROVE OrphansHaveNoRunner'
  BY <1>45 DEF SetDrained, OrphansHaveNoRunner, github, host, operator, pass, launches
<1>46. CASE UNCHANGED vars
  BY <1>46 DEF vars, OrphansHaveNoRunner, github, host, operator, pass, launches
<1> QED
  BY <1>1, <1>2, <1>3, <1>4, <1>5, <1>6, <1>7, <1>8, <1>9, <1>10, <1>11, <1>12, <1>13,
     <1>14, <1>15, <1>16, <1>17, <1>18, <1>19, <1>20, <1>21, <1>22, <1>23, <1>24, <1>25,
     <1>26, <1>27, <1>28, <1>29, <1>30, <1>31, <1>32, <1>33, <1>34, <1>35, <1>36, <1>37,
     <1>38, <1>39, <1>40, <1>41, <1>42, <1>43, <1>44, <1>45, <1>46
     DEF Next, LoopStep, LoopFault, World, Operator

\* OrphansHaveNoRunner: whatever fails, reap removes no registration that a runner is
\* using or is about to be started with.
THEOREM NoRunnerIsOrphaned == Spec => []OrphansHaveNoRunner
<1>1. Init => OrphansHaveNoRunner
  BY DEF Init, OrphansHaveNoRunner
<1> QED
  BY <1>1, TypeCorrect, LaunchesAreAlone, OrphansStep, PTL DEF Spec

-----------------------------------------------------------------------------
(***************************************************************************)
(* A runner that executes a job is not destroyed.  The argument: a job is  *)
(* executed only under a registration GitHub calls busy, and by the time   *)
(* destroyInstance turns to the instance the registration is gone -- taken *)
(* away by the call before, or missing when the pass began and impossible  *)
(* to get since, because nothing is launched while the loop destroys.  It  *)
(* fails when RemoveRunner can fail for another reason than ErrRunnerBusy: *)
(* destroyInstance then goes on to destroy.                                *)
(***************************************************************************)
RemovalInv ==
    /\ \A n \in Names : job[n] # NoJob => reg[n] = "busy"
    /\ \A n \in target : reg[n] = "none"
    /\ \A n \in victims : byName[n] = "none" => reg[n] = "none"
    /\ phase = "reaping" => \A n \in Names : byName[n] = "none" => reg[n] = "none"

LEMMA RemovalInit == Init => RemovalInv
BY DEF Init, RemovalInv

LEMMA RemovalStep ==
    ASSUME "removeRunner" \notin FaultKinds
    PROVE  TypeOK /\ LaunchesAlone /\ RemovalInv /\ [Next]_vars => RemovalInv'
<1> SUFFICES ASSUME TypeOK, LaunchesAlone, RemovalInv, [Next]_vars
             PROVE  RemovalInv'
  OBVIOUS
<1>0. /\ reg \in [Names -> RegState] /\ job \in [Names -> Jobs \cup {NoJob}]
      /\ byName \in [Names -> RegState]
      /\ victims \subseteq Names /\ target \subseteq Names
  BY DEF TypeOK
<1>1. ASSUME NEW S, BeginPass(S) PROVE RemovalInv'
  BY <1>1 DEF BeginPass, Phases, RemovalInv, github, host, operator, pass, launches
<1>2. ASSUME ListRunners PROVE RemovalInv'
  BY <1>2, <1>0 DEF ListRunners, Phases, RemovalInv, github, host, operator, pass, launches
<1>3. ASSUME ListInstances PROVE RemovalInv'
  BY <1>3
     DEF ListInstances, Applying, PoolDone, Dead, Instances, PoolNames, RemovalInv, github,
         host, operator, pass, launches
<1>4. ASSUME PollJobs PROVE RemovalInv'
  BY <1>4 DEF PollJobs, StartAssigning, RemovalInv, github, host, operator, pass, launches
<1>5. ASSUME AssignNextJob PROVE RemovalInv'
  BY <1>5 DEF AssignNextJob, RemovalInv, github, host, operator, pass, launches
<1>6. ASSUME ScaleUp PROVE RemovalInv'
  BY <1>6 DEF ScaleUp, TakePool, RemovalInv, github, host, operator, pass, launches
<1>7. ASSUME ScaleDown PROVE RemovalInv'
  BY <1>7
     DEF ScaleDown, TakePool, Applying, PoolDone, ObservedIdle, RemovalInv, github, host,
         operator, pass, launches
<1>8. ASSUME AtTarget PROVE RemovalInv'
  BY <1>8 DEF AtTarget, TakePool, RemovalInv, github, host, operator, pass, launches
<1>9. ASSUME EndPass PROVE RemovalInv'
  BY <1>9 DEF EndPass, Rest, RemovalInv, github, host, operator, pass, launches
<1>10. ASSUME NEW n \in Names, RemoveOrphan(n) PROVE RemovalInv'
  BY <1>10, <1>0
     DEF RemoveOrphan, RemoveRunner, Unregister, RemovalInv, github, host, operator, pass,
         launches
<1>11. ASSUME NEW n \in Names, DeregisterVictim(n) PROVE RemovalInv'
  BY <1>11, <1>0
     DEF DeregisterVictim, TakeVictim, RemoveRunner, Unregister, RemovalInv, github, host,
         operator, pass, launches
<1>12. ASSUME NEW n \in Names, VictimIsBusy(n) PROVE RemovalInv'
  BY <1>12, <1>0
     DEF VictimIsBusy, TakeVictim, RemoveRunner, Unregister, RemovalInv, github, host,
         operator, pass, launches
<1>13. ASSUME NEW n \in Names, VictimUnregistered(n) PROVE RemovalInv'
  BY <1>13
     DEF VictimUnregistered, TakeVictim, RemovalInv, github, host, operator, pass, launches
<1>14. ASSUME NEW n \in Names, DestroyInstance(n) PROVE RemovalInv'
  BY <1>14, <1>0 DEF DestroyInstance, RemovalInv, github, host, operator, pass, launches
<1>15. ASSUME NEW n \in Names, RegisterRunner(n) PROVE RemovalInv'
  BY <1>15, <1>0
     DEF RegisterRunner, TakeLaunch, Register, Unused, LaunchesAlone, LaunchesDone,
         PoolDone, RemovalInv, github, host, operator, pass, launches
<1>16. ASSUME NEW n \in Names, CreateInstance(n) PROVE RemovalInv'
  BY <1>16 DEF CreateInstance, RemovalInv, github, host, operator, pass, launches
<1>17. ASSUME NEW n \in Names, StartInstance(n) PROVE RemovalInv'
  BY <1>17 DEF StartInstance, RemovalInv, github, host, operator, pass, launches
<1>18. ASSUME NEW n \in Names, CleanUp(n) PROVE RemovalInv'
  BY <1>18, <1>0
     DEF CleanUp, RemoveRunner, Unregister, RemovalInv, github, host, operator, pass,
         launches
<1>19. ASSUME SitOut PROVE RemovalInv'
  BY <1>19 DEF SitOut, RemovalInv, github, host, operator, pass, launches
<1>20. ASSUME ListRunnersFails PROVE RemovalInv'
  BY <1>20 DEF ListRunnersFails, Rest, RemovalInv, github, host, operator, pass, launches
<1>21. ASSUME ListInstancesFails PROVE RemovalInv'
  BY <1>21 DEF ListInstancesFails, RemovalInv, github, host, operator, pass, launches
<1>22. ASSUME PollJobsPartially PROVE RemovalInv'
  BY <1>22
     DEF PollJobsPartially, StartAssigning, RemovalInv, github, host, operator, pass,
         launches
<1>23. ASSUME PollJobsFails PROVE RemovalInv'
  BY <1>23 DEF PollJobsFails, Rest, RemovalInv, github, host, operator, pass, launches
<1>24. ASSUME ScaleUpFails PROVE RemovalInv'
  BY <1>24 DEF ScaleUpFails, TakePool, RemovalInv, github, host, operator, pass, launches
<1>25. ASSUME RegisterFails PROVE RemovalInv'
  BY <1>25 DEF RegisterFails, TakeLaunch, RemovalInv, github, host, operator, pass, launches
<1>26. ASSUME Crash PROVE RemovalInv'
  BY <1>26 DEF Crash, Rest, RemovalInv, github, host, operator, pass, launches
<1>27. ASSUME NEW n \in Names, RemoveOrphanFails(n) PROVE RemovalInv'
  BY <1>27
     DEF RemoveOrphanFails, RemoveRunnerFails, Fault, RemovalInv, github, host, operator,
         pass, launches
<1>28. ASSUME NEW n \in Names, DeregisterVictimFails(n) PROVE RemovalInv'
  BY <1>28
     DEF DeregisterVictimFails, TakeVictim, RemoveRunnerFails, Fault, RemovalInv, github,
         host, operator, pass, launches
<1>29. ASSUME NEW n \in Names, DestroyInstanceFails(n) PROVE RemovalInv'
  BY <1>29 DEF DestroyInstanceFails, RemovalInv, github, host, operator, pass, launches
<1>30. ASSUME NEW n \in Names, RegisterAnswerLost(n) PROVE RemovalInv'
  BY <1>30, <1>0
     DEF RegisterAnswerLost, TakeLaunch, Register, Unused, LaunchesAlone, LaunchesDone,
         PoolDone, RemovalInv, github, host, operator, pass, launches
<1>31. ASSUME NEW n \in Names, CreateFails(n) PROVE RemovalInv'
  BY <1>31 DEF CreateFails, RemovalInv, github, host, operator, pass, launches
<1>32. ASSUME NEW n \in Names, CleanUpFails(n) PROVE RemovalInv'
  BY <1>32
     DEF CleanUpFails, RemoveRunnerFails, Fault, RemovalInv, github, host, operator, pass,
         launches
<1>33. ASSUME Housekeep PROVE RemovalInv'
  BY <1>33 DEF Housekeep, RemovalInv, github, host, operator, pass, launches
<1>34. ASSUME NEW j \in Jobs, JobArrives(j) PROVE RemovalInv'
  BY <1>34 DEF JobArrives, RemovalInv, github, host, operator, pass, launches
<1>35. ASSUME NEW j \in Jobs, JobCancelled(j) PROVE RemovalInv'
  BY <1>35 DEF JobCancelled, RemovalInv, github, host, operator, pass, launches
<1>36. ASSUME NEW n \in Names, NEW j \in Jobs, JobStarts(n, j) PROVE RemovalInv'
  BY <1>36, <1>0 DEF JobStarts, RemovalInv, github, host, operator, pass, launches
<1>37. ASSUME NEW n \in Names, JobCompletes(n) PROVE RemovalInv'
  BY <1>37, <1>0
     DEF JobCompletes, Unregister, RemovalInv, github, host, operator, pass, launches
<1>38. ASSUME NEW n \in Names, RunnerConnects(n) PROVE RemovalInv'
  BY <1>38, <1>0 DEF RunnerConnects, RemovalInv, github, host, operator, pass, launches
<1>39. ASSUME NEW n \in Names, RunnerDisconnects(n) PROVE RemovalInv'
  BY <1>39, <1>0 DEF RunnerDisconnects, RemovalInv, github, host, operator, pass, launches
<1>40. ASSUME NEW n \in Names, RunnerExits(n) PROVE RemovalInv'
  BY <1>40 DEF RunnerExits, RemovalInv, github, host, operator, pass, launches
<1>41. ASSUME NEW n \in Names, RunnerDies(n) PROVE RemovalInv'
  BY <1>41 DEF RunnerDies, RemovalInv, github, host, operator, pass, launches
<1>42. ASSUME NEW n \in Names, RunnerLost(n) PROVE RemovalInv'
  BY <1>42, <1>0 DEF RunnerLost, RemovalInv, github, host, operator, pass, launches
<1>43. ASSUME NEW n \in Names, TurnsOverdue(n) PROVE RemovalInv'
  BY <1>43 DEF TurnsOverdue, RemovalInv, github, host, operator, pass, launches
<1>44. ASSUME NEW p \in PoolSet, NEW l \in LimitChoices, SetLimits(p, l) PROVE RemovalInv'
  BY <1>44 DEF SetLimits, RemovalInv, github, host, operator, pass, launches
<1>45. ASSUME NEW p \in DrainablePools, SetDrained(p) PROVE RemovalInv'
  BY <1>45 DEF SetDrained, RemovalInv, github, host, operator, pass, launches
<1>46. CASE UNCHANGED vars
  BY <1>46 DEF vars, RemovalInv, github, host, operator, pass, launches
<1> QED
  BY <1>1, <1>2, <1>3, <1>4, <1>5, <1>6, <1>7, <1>8, <1>9, <1>10, <1>11, <1>12, <1>13,
     <1>14, <1>15, <1>16, <1>17, <1>18, <1>19, <1>20, <1>21, <1>22, <1>23, <1>24, <1>25,
     <1>26, <1>27, <1>28, <1>29, <1>30, <1>31, <1>32, <1>33, <1>34, <1>35, <1>36, <1>37,
     <1>38, <1>39, <1>40, <1>41, <1>42, <1>43, <1>44, <1>45, <1>46
     DEF Next, LoopStep, LoopFault, World, Operator

\* NeverKillsAJob, as long as every deregistration is answered.
THEOREM NoJobIsKilled ==
    ASSUME "removeRunner" \notin FaultKinds
    PROVE  Spec => []NeverKillsAJob
<1>1. TypeOK /\ LaunchesAlone /\ RemovalInv /\ [Next]_vars => RemovalInv'
  BY RemovalStep
<1>2. TypeOK /\ RemovalInv => NeverKillsAJob
  BY DEF TypeOK, RemovalInv, NeverKillsAJob
<1> QED
  BY <1>1, <1>2, TypeCorrect, LaunchesAreAlone, RemovalInit, PTL DEF Spec

-----------------------------------------------------------------------------
(***************************************************************************)
(* What reap was to take away is gone when the pass turns to launching.    *)
(* Of the pools that were visited (Swept), a registration that was listed  *)
(* and has no live instance is on one of the two lists to come, or gone,   *)
(* or busy; and an orphan is not busy, since a busy runner runs (BusyRun). *)
(* A registration that is gone comes back only under a name that the pass  *)
(* has not listed.                                                         *)
(***************************************************************************)
ReapIsAnswered == {"removeRunner", "listInstances", "die"} \cap FaultKinds = {}

Missed(n) == byName[n] \in {"offline", "idle"} /\ n \notin live[PoolOf[n]]

BusyRun == \A n \in Names : reg[n] = "busy" => inst[n] = "running"

LaunchesAreFresh ==
    \A n \in Names : launch[n] \in {"creating", "starting"} => inst[n] \in {"none", "created"}

Swept ==
    /\ phase \in {"asleep", "listing"} => visited = 0
    /\ phase = "reaping" =>
          \A i \in 1..visited : \A n \in Names :
              PoolOf[n] = Pools[i] /\ Missed(n)
                  => reg[n] \in {"none", "busy"} \/ n \in orphans \cup victims
    /\ ReapLeavesNoGhost

SweptInv == BusyRun /\ LaunchesAreFresh /\ Swept

LEMMA SweptInit == Init => SweptInv
BY DEF Init, SweptInv, BusyRun, LaunchesAreFresh, Swept, ReapLeavesNoGhost

LEMMA AllSwept ==
    ASSUME Swept, Reaped, TypeOK, NEW n \in Names, Missed(n)
    PROVE  reg[n] \in {"none", "busy"}
<1>1. PICK i \in 1..Len(Pools) : PoolOf[n] = Pools[i]
  BY ReconcileAssumption, PoolsAreDistinct DEF PoolSet, ToSet
<1> QED
  BY <1>1 DEF Swept, Reaped, PoolDone

LEMMA SweptStep ==
    ASSUME ReapIsAnswered
    PROVE  TypeOK /\ LaunchesAlone /\ OrphansHaveNoRunner /\ RemovalInv /\ SweptInv /\ [Next]_vars
             => SweptInv'
<1> SUFFICES ASSUME TypeOK, LaunchesAlone, OrphansHaveNoRunner, RemovalInv, SweptInv, [Next]_vars
             PROVE  SweptInv'
  OBVIOUS
<1> USE DEF SweptInv, BusyRun, LaunchesAreFresh, Swept, Missed, ReapLeavesNoGhost
<1>0. /\ reg \in [Names -> RegState] /\ inst \in [Names -> InstState]
      /\ launch \in [Names -> LaunchState] /\ byName \in [Names -> RegState]
      /\ live \in [PoolSet -> SUBSET Names] /\ visited \in 0..Len(Pools)
      /\ victims \subseteq Names /\ target \subseteq Names /\ orphans \subseteq Names
      /\ PoolOf \in [Names -> PoolSet]
  BY ReconcileAssumption DEF TypeOK
<1>1. ASSUME NEW S, BeginPass(S) PROVE SweptInv'
  BY <1>1, <1>0 DEF BeginPass, Phases, github, host, operator, pass, launches
<1>2. ASSUME ListRunners PROVE SweptInv'
  BY <1>2, <1>0 DEF ListRunners, Phases, github, host, operator, pass, launches
<1>3. ASSUME ListInstances PROVE SweptInv'
  <2> DEFINE p == Pools[visited + 1]
  <2>1. /\ phase = "reaping" /\ victims = {} /\ orphans = {} /\ visited < Len(Pools)
        /\ victims' = Dead(p) /\ live' = [live EXCEPT ![p] = Instances(p) \ Dead(p)]
        /\ orphans' = OrphansOf(p) /\ visited' = visited + 1
        /\ UNCHANGED <<reg, inst, launch, phase, byName>>
    BY <1>3 DEF ListInstances, PoolDone, github, host, launches
  <2>2. p \in PoolSet
    BY <1>0, <2>1, NextPoolType
  <2> HIDE DEF p
  <2>3. ASSUME NEW n \in Names, PoolOf[n] = p, byName[n] \in {"offline", "idle"},
               n \notin live'[p]
        PROVE  n \in orphans' \cup victims'
    <3>1. n \notin Instances(p) \ Dead(p)
      BY <1>0, <2>1, <2>2, <2>3
    <3> QED
      BY <2>1, <2>3, <3>1 DEF OrphansOf, PoolNames
  <2>4. ASSUME NEW n \in Names, PoolOf[n] # p PROVE live'[PoolOf[n]] = live[PoolOf[n]]
    BY <1>0, <2>1, <2>2, <2>4
  <2>5. \A i \in 1..visited' : i \in 1..visited \/ Pools[i] = p
    BY <1>0, <2>1 DEF p
  <2> QED
    BY <2>1, <2>3, <2>4, <2>5
<1>4. ASSUME PollJobs PROVE SweptInv'
  <2>1. /\ Reaped /\ phase' = "applying" /\ visited' = 0
        /\ UNCHANGED <<reg, inst, launch, byName, live>>
    BY <1>4 DEF PollJobs, StartAssigning, github, host, launches
  <2> QED
    BY <1>0, <2>1, AllSwept
<1>5. ASSUME AssignNextJob PROVE SweptInv'
  BY <1>5, <1>0 DEF AssignNextJob, github, host, operator, pass, launches
<1>6. ASSUME ScaleUp PROVE SweptInv'
  <2>1. phase = "applying" /\ UNCHANGED <<reg, inst, launch, byName, live, phase>>
    BY <1>6 DEF ScaleUp, TakePool, Applying, github, host
  <2> QED
    BY <2>1
<1>7. ASSUME ScaleDown PROVE SweptInv'
  BY <1>7, <1>0
     DEF ScaleDown, TakePool, Applying, PoolDone, ObservedIdle, github, host,
         operator, pass, launches
<1>8. ASSUME AtTarget PROVE SweptInv'
  <2>1. phase = "applying" /\ UNCHANGED <<reg, inst, launch, byName, live, phase>>
    BY <1>8 DEF AtTarget, TakePool, Applying, github, host
  <2> QED
    BY <2>1
<1>9. ASSUME EndPass PROVE SweptInv'
  BY <1>9, <1>0 DEF EndPass, Rest, github, host, operator, pass, launches
<1>10. ASSUME NEW n \in Names, RemoveOrphan(n) PROVE SweptInv'
  BY <1>10, <1>0
     DEF RemoveOrphan, RemoveRunner, Unregister, github, host, operator, pass,
         launches
<1>11. ASSUME NEW n \in Names, DeregisterVictim(n) PROVE SweptInv'
  BY <1>11, <1>0
     DEF DeregisterVictim, TakeVictim, RemoveRunner, Unregister, github, host,
         operator, pass, launches
<1>12. ASSUME NEW n \in Names, VictimIsBusy(n) PROVE SweptInv'
  BY <1>12, <1>0
     DEF VictimIsBusy, TakeVictim, RemoveRunner, Unregister, github, host,
         operator, pass, launches
<1>13. ASSUME NEW n \in Names, VictimUnregistered(n) PROVE SweptInv'
  BY <1>13, <1>0
     DEF VictimUnregistered, TakeVictim, github, host, operator, pass, launches
<1>14. ASSUME NEW n \in Names, DestroyInstance(n) PROVE SweptInv'
  <2>1. reg[n] # "busy" /\ inst' = [inst EXCEPT ![n] = "none"]
    BY <1>14 DEF DestroyInstance, RemovalInv
  <2>2. UNCHANGED <<reg, launch, phase, byName, visited, live, victims, orphans>>
    BY <1>14 DEF DestroyInstance, github, launches
  <2> QED
    BY <1>0, <2>1, <2>2
<1>15. ASSUME NEW n \in Names, RegisterRunner(n) PROVE SweptInv'
  BY <1>15, <1>0
     DEF RegisterRunner, TakeLaunch, Register, Unused, LaunchesAlone, LaunchesDone,
         PoolDone, github, host, operator, pass, launches
<1>16. ASSUME NEW n \in Names, CreateInstance(n) PROVE SweptInv'
  BY <1>16, <1>0 DEF CreateInstance, github, host, operator, pass, launches
<1>17. ASSUME NEW n \in Names, StartInstance(n) PROVE SweptInv'
  BY <1>17, <1>0 DEF StartInstance, github, host, operator, pass, launches
<1>18. ASSUME NEW n \in Names, CleanUp(n) PROVE SweptInv'
  BY <1>18, <1>0
     DEF CleanUp, RemoveRunner, Unregister, github, host, operator, pass,
         launches
<1>19. ASSUME SitOut PROVE SweptInv'
  BY <1>19, <1>0 DEF SitOut, github, host, operator, pass, launches
<1>20. ASSUME ListRunnersFails PROVE SweptInv'
  BY <1>20, <1>0 DEF ListRunnersFails, Rest, github, host, operator, pass, launches
<1>21. ASSUME ListInstancesFails PROVE SweptInv'
  BY <1>21 DEF ListInstancesFails, Fault, ReapIsAnswered
<1>22. ASSUME PollJobsPartially PROVE SweptInv'
  <2>1. /\ Reaped /\ phase' = "applying" /\ visited' = 0
        /\ UNCHANGED <<reg, inst, launch, byName, live>>
    BY <1>22 DEF PollJobsPartially, StartAssigning, github, host, launches
  <2> QED
    BY <1>0, <2>1, AllSwept
<1>23. ASSUME PollJobsFails PROVE SweptInv'
  BY <1>23, <1>0 DEF PollJobsFails, Rest, github, host, operator, pass, launches
<1>24. ASSUME ScaleUpFails PROVE SweptInv'
  <2>1. phase = "applying" /\ UNCHANGED <<reg, inst, launch, byName, live, phase>>
    BY <1>24 DEF ScaleUpFails, TakePool, Applying, github, host
  <2> QED
    BY <2>1
<1>25. ASSUME RegisterFails PROVE SweptInv'
  BY <1>25, <1>0 DEF RegisterFails, TakeLaunch, github, host, operator, pass, launches
<1>26. ASSUME Crash PROVE SweptInv'
  BY <1>26, <1>0 DEF Crash, Rest, github, host, operator, pass, launches
<1>27. ASSUME NEW n \in Names, RemoveOrphanFails(n) PROVE SweptInv'
  BY <1>27 DEF RemoveOrphanFails, RemoveRunnerFails, Fault, ReapIsAnswered
<1>28. ASSUME NEW n \in Names, DeregisterVictimFails(n) PROVE SweptInv'
  BY <1>28 DEF DeregisterVictimFails, RemoveRunnerFails, Fault, ReapIsAnswered
<1>29. ASSUME NEW n \in Names, DestroyInstanceFails(n) PROVE SweptInv'
  BY <1>29, <1>0 DEF DestroyInstanceFails, github, host, operator, pass, launches
<1>30. ASSUME NEW n \in Names, RegisterAnswerLost(n) PROVE SweptInv'
  BY <1>30, <1>0
     DEF RegisterAnswerLost, TakeLaunch, Register, Unused, LaunchesAlone, LaunchesDone,
         PoolDone, github, host, operator, pass, launches
<1>31. ASSUME NEW n \in Names, CreateFails(n) PROVE SweptInv'
  BY <1>31, <1>0 DEF CreateFails, github, host, operator, pass, launches
<1>32. ASSUME NEW n \in Names, CleanUpFails(n) PROVE SweptInv'
  BY <1>32 DEF CleanUpFails, RemoveRunnerFails, Fault, ReapIsAnswered
<1>33. ASSUME Housekeep PROVE SweptInv'
  <2>1. /\ phase = "asleep" /\ \A n \in Names : launch[n] = "none"
        /\ UNCHANGED <<reg, launch, phase, visited>>
    BY <1>33 DEF Housekeep, LaunchesAlone, LaunchesDone, github, pass, launches
  <2>2. \A n \in Names : inst[n] = "running" => inst'[n] = "running"
    BY <1>33, <1>0 DEF Housekeep, Finished
  <2> QED
    BY <2>1, <2>2
<1>34. ASSUME NEW j \in Jobs, JobArrives(j) PROVE SweptInv'
  BY <1>34, <1>0 DEF JobArrives, github, host, operator, pass, launches
<1>35. ASSUME NEW j \in Jobs, JobCancelled(j) PROVE SweptInv'
  BY <1>35, <1>0 DEF JobCancelled, github, host, operator, pass, launches
<1>36. ASSUME NEW n \in Names, NEW j \in Jobs, JobStarts(n, j) PROVE SweptInv'
  BY <1>36, <1>0 DEF JobStarts, github, host, operator, pass, launches
<1>37. ASSUME NEW n \in Names, JobCompletes(n) PROVE SweptInv'
  BY <1>37, <1>0
     DEF JobCompletes, Unregister, github, host, operator, pass, launches
<1>38. ASSUME NEW n \in Names, RunnerConnects(n) PROVE SweptInv'
  BY <1>38, <1>0 DEF RunnerConnects, github, host, operator, pass, launches
<1>39. ASSUME NEW n \in Names, RunnerDisconnects(n) PROVE SweptInv'
  BY <1>39, <1>0 DEF RunnerDisconnects, github, host, operator, pass, launches
<1>40. ASSUME NEW n \in Names, RunnerExits(n) PROVE SweptInv'
  BY <1>40, <1>0 DEF RunnerExits, github, host, operator, pass, launches
<1>41. ASSUME NEW n \in Names, RunnerDies(n) PROVE SweptInv'
  BY <1>41 DEF RunnerDies, Fault, ReapIsAnswered
<1>42. ASSUME NEW n \in Names, RunnerLost(n) PROVE SweptInv'
  BY <1>42, <1>0 DEF RunnerLost, github, host, operator, pass, launches
<1>43. ASSUME NEW n \in Names, TurnsOverdue(n) PROVE SweptInv'
  BY <1>43, <1>0 DEF TurnsOverdue, github, host, operator, pass, launches
<1>44. ASSUME NEW p \in PoolSet, NEW l \in LimitChoices, SetLimits(p, l) PROVE SweptInv'
  BY <1>44, <1>0 DEF SetLimits, github, host, operator, pass, launches
<1>45. ASSUME NEW p \in DrainablePools, SetDrained(p) PROVE SweptInv'
  BY <1>45, <1>0 DEF SetDrained, github, host, operator, pass, launches
<1>46. CASE UNCHANGED vars
  BY <1>46, <1>0 DEF vars, github, host, operator, pass, launches
<1> QED
  BY <1>1, <1>2, <1>3, <1>4, <1>5, <1>6, <1>7, <1>8, <1>9, <1>10, <1>11, <1>12, <1>13,
     <1>14, <1>15, <1>16, <1>17, <1>18, <1>19, <1>20, <1>21, <1>22, <1>23, <1>24, <1>25,
     <1>26, <1>27, <1>28, <1>29, <1>30, <1>31, <1>32, <1>33, <1>34, <1>35, <1>36, <1>37,
     <1>38, <1>39, <1>40, <1>41, <1>42, <1>43, <1>44, <1>45, <1>46
     DEF Next, LoopStep, LoopFault, World, Operator

\* When its calls are answered, reap leaves no registration without a runner behind.
THEOREM NoGhostIsLeft ==
    ASSUME ReapIsAnswered
    PROVE  Spec => []ReapLeavesNoGhost
<1>1. TypeOK /\ LaunchesAlone /\ OrphansHaveNoRunner /\ RemovalInv /\ SweptInv /\ [Next]_vars
        => SweptInv'
  BY SweptStep
<1>2. TypeOK /\ LaunchesAlone /\ RemovalInv /\ [Next]_vars => RemovalInv'
  BY RemovalStep DEF ReapIsAnswered
<1>3. SweptInv => ReapLeavesNoGhost
  BY DEF SweptInv, Swept
<1> QED
  BY <1>1, <1>2, <1>3, TypeCorrect, LaunchesAreAlone, NoRunnerIsOrphaned, RemovalInit, SweptInit,
     PTL DEF Spec

-----------------------------------------------------------------------------
(***************************************************************************)
(* A pool's max caps its runners, those apart that are older than          *)
(* job_timeout.  The argument: what reap left live covers every other      *)
(* runner of a pool from the moment the pool was listed until its turn     *)
(* comes in applyPool (reaped and to be applied: Covered), so that Plan    *)
(* adds no more than max allows; from then on the runners that scaleUp has *)
(* promised and not yet launched count too (Promised).  It fails when a    *)
(* listing fails, as live is then empty.  A runner that turns overdue      *)
(* leaves the count, and the count is all that reap knows: hence no runner *)
(* that is overdue comes back into it.                                     *)
(***************************************************************************)
Covered(i) ==
    \/ phase = "reaping" /\ i <= visited
    \/ phase = "applying" /\ i > visited

Promised(p) == IF toLaunch # <<>> /\ p = Pools[visited] THEN Len(toLaunch) ELSE 0

LiveCovers == \A i \in 1..Len(Pools) : Covered(i) => Young(Pools[i]) \subseteq live[Pools[i]]

PromisesFit ==
    \A p \in PoolSet : \E l \in SettableLimits(p) : Cardinality(Young(p)) + Promised(p) <= l.max

CapInv ==
    /\ \A p \in PoolSet : limits[p] \in SettableLimits(p)
    /\ toLaunch # <<>> => visited > 0
    /\ phase \in {"asleep", "listing"} => visited = 0
    /\ LiveCovers
    /\ PromisesFit

ListingsSucceed == "listInstances" \notin FaultKinds

NoLateRunners == {"jobTimeout", "earlyTimeout"} \cap FaultKinds = {}

\* No runner appears.
NoneAppears == \A p \in PoolSet : Young(p)' \subseteq Young(p)

LEMMA SettableLimitsType ==
    ASSUME NEW p \in PoolSet
    PROVE  SettableLimits(p) \subseteq Limits /\ \A l \in SettableLimits(p) : l.max \in Nat
BY ReconcileAssumption DEF SettableLimits, Limits

LEMMA OfPoolIsFinite ==
    ASSUME NEW p \in PoolSet, NEW S, S \subseteq PoolNames(p)
    PROVE  IsFiniteSet(S) /\ Cardinality(S) \in Nat
BY ReconcileAssumption, FS_Subset, FS_CardinalityType DEF PoolNames

LEMMA YoungOfPool ==
    ASSUME NEW p \in PoolSet
    PROVE  Young(p) \subseteq PoolNames(p) /\ Young(p)' \subseteq PoolNames(p)
BY DEF Young, PoolNames

LEMMA PromisedType ==
    ASSUME TypeOK, NEW p \in PoolSet
    PROVE  Promised(p) \in Nat
BY DEF Promised, TypeOK

\* Fewer runners and no more promises keep the promises within the cap.
LEMMA FewerFit ==
    ASSUME TypeOK, PromisesFit, NoneAppears,
           \A p \in PoolSet : Promised(p)' \in Nat /\ Promised(p)' <= Promised(p)
    PROVE  PromisesFit'
<1> SUFFICES ASSUME NEW p \in PoolSet
             PROVE  \E l \in SettableLimits(p) : Cardinality(Young(p)') + Promised(p)' <= l.max
  BY DEF PromisesFit, SettableLimits
<1>1. PICK l \in SettableLimits(p) : Cardinality(Young(p)) + Promised(p) <= l.max
  BY DEF PromisesFit
<1>2. Cardinality(Young(p)') <= Cardinality(Young(p))
  BY OfPoolIsFinite, YoungOfPool, FS_Subset DEF NoneAppears
<1>3. Cardinality(Young(p)') \in Nat /\ Cardinality(Young(p)) \in Nat
  BY OfPoolIsFinite, YoungOfPool
<1>4. Cardinality(Young(p)') + Promised(p)' <= l.max
  BY <1>1, <1>2, <1>3, PromisedType, SettableLimitsType
<1> QED
  BY <1>4

\* A step by which no runner appears and the pass does not advance.
LEMMA QuietStep ==
    ASSUME TypeOK, CapInv, NoneAppears,
           UNCHANGED <<phase, visited, live, toLaunch>>,
           \A p \in PoolSet : limits'[p] \in SettableLimits(p)
    PROVE  CapInv'
<1>1. PromisesFit'
  BY FewerFit, PromisedType DEF CapInv, Promised
<1>2. LiveCovers'
  <2> SUFFICES ASSUME NEW i \in 1..Len(Pools), Covered(i)
               PROVE  Young(Pools[i])' \subseteq live[Pools[i]]
    BY DEF LiveCovers, Covered
  <2>1. Pools[i] \in PoolSet
    BY NextPoolType
  <2> QED
    BY <2>1 DEF NoneAppears, CapInv, LiveCovers
<1> QED
  BY <1>1, <1>2 DEF CapInv, SettableLimits

\* A step that leaves nothing reaped to be applied, and nothing to be launched.
LEMMA NothingCovered ==
    ASSUME TypeOK, CapInv, NoneAppears, limits' = limits, toLaunch' = <<>>,
           phase' \in {"asleep", "listing", "reaping"}, visited' = 0
    PROVE  CapInv'
<1>1. PromisesFit'
  BY FewerFit, PromisedType DEF CapInv, Promised
<1>2. LiveCovers'
  BY DEF LiveCovers, Covered
<1> QED
  BY <1>1, <1>2 DEF CapInv, SettableLimits

\* A pool's turn is over and it launches nothing.
LEMMA NothingLaunched ==
    ASSUME TypeOK, CapInv, NoneAppears, limits' = limits,
           toLaunch = <<>>, toLaunch' = <<>>, UNCHANGED <<phase, live>>,
           phase = "applying", visited' = visited + 1
    PROVE  CapInv'
<1>1. PromisesFit'
  BY FewerFit, PromisedType DEF CapInv, Promised
<1>2. LiveCovers'
  <2> SUFFICES ASSUME NEW i \in 1..Len(Pools), i > visited + 1
               PROVE  Young(Pools[i])' \subseteq live[Pools[i]]
    BY DEF LiveCovers, Covered
  <2>1. Pools[i] \in PoolSet /\ Covered(i)
    BY NextPoolType DEF Covered, TypeOK
  <2> QED
    BY <2>1 DEF NoneAppears, CapInv, LiveCovers
<1> QED
  BY <1>1, <1>2 DEF CapInv, SettableLimits

\* PollJobs, with whatever jobs it saw.
LEMMA PolledStep ==
    ASSUME TypeOK, LaunchesAlone, CapInv, Reaped, NEW seen, StartAssigning(seen)
    PROVE  CapInv'
<1>1. NoneAppears /\ limits' = limits /\ toLaunch = <<>> /\ toLaunch' = <<>>
  BY
     DEF NoneAppears, Young, StartAssigning, CapInv, LaunchesAlone, LaunchesDone,
         Reaped,
         host, operator, launches
<1>2. PromisesFit'
  BY <1>1, FewerFit, PromisedType DEF CapInv, Promised
<1>3. LiveCovers'
  <2> SUFFICES ASSUME NEW i \in 1..Len(Pools)
               PROVE  Young(Pools[i])' \subseteq live'[Pools[i]]
    BY DEF LiveCovers
  <2>1. i <= visited /\ phase = "reaping"
    BY PoolsAreDistinct DEF Reaped
  <2>2. Pools[i] \in PoolSet
    BY NextPoolType
  <2>3. UNCHANGED live
    BY DEF StartAssigning
  <2>4. Covered(i)
    BY <2>1 DEF Covered
  <2> QED
    BY <1>1, <2>2, <2>3, <2>4 DEF NoneAppears, CapInv, LiveCovers
<1> QED
  BY <1>1, <1>2, <1>3 DEF CapInv, SettableLimits, StartAssigning

LEMMA LaunchReposLength ==
    ASSUME NEW c \in Nat, NEW jobs
    PROVE  Len(LaunchRepos(c, jobs)) \in Nat /\ Len(LaunchRepos(c, jobs)) <= c
BY DEF LaunchRepos

\* What Plan decides to launch fits under the max in force.
LEMMA LaunchesFit ==
    ASSUME TypeOK, NEW p \in PoolSet, p \notin drained, ToCreate(p) > 0
    PROVE  Cardinality(live[p]) + ToCreate(p) <= limits[p].max
<1>1. Observed(p).live = Cardinality(live[p])
  BY DEF Observed
<1>2. LimitsNow(p).max = limits[p].max
  BY EffectiveLimitsInOrder DEF LimitsNow, TypeOK
<1>3. DemandNow(p) \in Nat
  BY DEF TypeOK, DemandNow
<1> QED
  BY <1>1, <1>2, <1>3, ObservedType, LimitsNowType, PlanIsSafe DEF ToCreate

LEMMA TailType ==
    ASSUME TypeOK, toLaunch # <<>>
    PROVE  /\ Len(toLaunch) \in Nat /\ Len(toLaunch) > 0
           /\ Len(Tail(toLaunch)) = Len(toLaunch) - 1
BY DEF TypeOK

\* A promised launch that comes to nothing.
LEMMA LaunchGivenUp ==
    ASSUME TypeOK, LaunchesAlone, CapInv, NoneAppears, limits' = limits,
           UNCHANGED <<phase, visited>>, toLaunch # <<>>, toLaunch' = Tail(toLaunch),
           \A p \in PoolSet \ {Pools[visited]} : live'[p] = live[p]
    PROVE  CapInv'
<1>1. PromisesFit'
  <2>1. \A p \in PoolSet : Promised(p)' \in Nat /\ Promised(p)' <= Promised(p)
    BY TailType DEF Promised
  <2> QED
    BY <2>1, FewerFit DEF CapInv
<1>2. LiveCovers'
  <2> SUFFICES ASSUME NEW i \in 1..Len(Pools), Covered(i)
               PROVE  Young(Pools[i])' \subseteq live'[Pools[i]]
    BY DEF LiveCovers, Covered
  <2>1. phase = "applying" /\ visited > 0 /\ i > visited
    BY DEF LaunchesAlone, LaunchesDone, CapInv, Covered
  <2>2. Pools[i] \in PoolSet /\ Pools[i] # Pools[visited]
    BY <2>1, NextPoolType, PoolsAreDistinct DEF TypeOK
  <2> QED
    BY <2>2 DEF NoneAppears, CapInv, LiveCovers
<1> QED
  BY <1>1, <1>2 DEF CapInv, SettableLimits

LEMMA CapStep ==
    ASSUME ListingsSucceed
    PROVE  TypeOK /\ LaunchesAlone /\ CapInv /\ [Next]_vars => CapInv'
<1> SUFFICES ASSUME TypeOK, LaunchesAlone, CapInv, [Next]_vars
             PROVE  CapInv'
  OBVIOUS
<1>0. /\ inst \in [Names -> InstState] /\ launch \in [Names -> LaunchState]
      /\ limits \in [PoolSet -> Limits] /\ live \in [PoolSet -> SUBSET Names]
  BY DEF TypeOK
<1>1. ASSUME NEW S, BeginPass(S) PROVE CapInv'
  <2>1. NoneAppears
    BY <1>0, <1>1
       DEF NoneAppears, Young, PoolNames, BeginPass, LaunchesAlone, LaunchesDone, host,
           launches
  <2>2. limits' = limits /\ toLaunch' = <<>>
    BY <1>1 DEF CapInv, BeginPass, LaunchesAlone, LaunchesDone, host, operator, launches
  <2>3. phase' \in {"asleep", "listing", "reaping"} /\ visited' = 0
    BY <1>1 DEF CapInv, BeginPass, LaunchesAlone, LaunchesDone
  <2> QED
    BY <2>1, <2>2, <2>3, NothingCovered
<1>2. ASSUME ListRunners PROVE CapInv'
  <2>1. NoneAppears
    BY <1>0, <1>2
       DEF NoneAppears, Young, PoolNames, ListRunners, LaunchesAlone, LaunchesDone,
           host, launches
  <2>2. limits' = limits /\ toLaunch' = <<>>
    BY <1>2 DEF CapInv, ListRunners, LaunchesAlone, LaunchesDone, host, operator, launches
  <2>3. phase' \in {"asleep", "listing", "reaping"} /\ visited' = 0
    BY <1>2 DEF CapInv, ListRunners, LaunchesAlone, LaunchesDone
  <2> QED
    BY <2>1, <2>2, <2>3, NothingCovered
<1>3. ASSUME ListInstances PROVE CapInv'
  <2>0. PICK q \in PoolSet : q = Pools[visited + 1]
    BY <1>3, NextPoolType, PoolsAreDistinct DEF ListInstances, TypeOK
  <2>1. /\ visited \in Nat /\ visited < Len(Pools)
        /\ visited' = visited + 1 /\ phase = "reaping" /\ UNCHANGED phase
    BY <1>3, PoolsAreDistinct DEF ListInstances, TypeOK
  <2>2. /\ NoneAppears /\ limits' = limits /\ toLaunch = <<>> /\ toLaunch' = <<>>
    BY <1>3 DEF NoneAppears, Young, ListInstances, CapInv, LaunchesAlone, LaunchesDone,
           host, operator, launches
  <2>3. live' = [live EXCEPT ![q] = Instances(q) \ Dead(q)] /\ live \in [PoolSet -> SUBSET Names]
    BY <1>3, <2>0 DEF ListInstances, TypeOK
  <2>4. Young(q) \subseteq Instances(q) \ Dead(q)
    BY <1>3, <2>1
       DEF Young, Instances, Dead, Finished, PoolNames, CapInv, LaunchesAlone,
           LaunchesDone
  <2>5. LiveCovers'
    <3> SUFFICES ASSUME NEW i \in 1..Len(Pools), i <= visited + 1
                 PROVE  Young(Pools[i])' \subseteq live'[Pools[i]]
      BY <2>1 DEF LiveCovers, Covered
    <3>1. Pools[i] \in PoolSet
      BY NextPoolType
    <3>2. CASE i = visited + 1
      BY <2>0, <2>2, <2>3, <2>4, <3>2 DEF NoneAppears
    <3>3. CASE i <= visited
      <4>1. Pools[i] # q
        BY <2>0, <2>1, <3>3, PoolsAreDistinct
      <4>0. Covered(i)
        BY <2>1, <3>3 DEF Covered
      <4>2. Young(Pools[i]) \subseteq live[Pools[i]]
        BY <4>0 DEF CapInv, LiveCovers
      <4> QED
        BY <2>2, <2>3, <3>1, <4>1, <4>2 DEF NoneAppears
    <3> QED
      BY <2>1, <3>2, <3>3
  <2>6. PromisesFit'
    BY <2>2, FewerFit, PromisedType DEF CapInv, Promised
  <2> QED
    BY <2>1, <2>2, <2>5, <2>6 DEF CapInv, SettableLimits
<1>4. ASSUME PollJobs PROVE CapInv'
  BY <1>4, PolledStep DEF PollJobs
<1>5. ASSUME AssignNextJob PROVE CapInv'
  <2>1. NoneAppears
    BY <1>0, <1>5
       DEF NoneAppears, Young, PoolNames, AssignNextJob, github, host, operator, pass,
           launches
  <2>2. /\ UNCHANGED <<phase, visited, live, toLaunch>>
        /\ \A q \in PoolSet : limits'[q] \in SettableLimits(q)
    BY <1>0, <1>5 DEF CapInv, AssignNextJob, SettableLimits, host, operator, pass, launches
  <2> QED
    BY <2>1, <2>2, QuietStep
<1>6. ASSUME ScaleUp PROVE CapInv'
  <2>0. PICK q \in PoolSet : q = NextPool
    BY <1>6, NextPoolType, PoolsAreDistinct DEF ScaleUp, TakePool, NextPool, TypeOK
  <2>c. PICK c \in Nat : c = ToCreate(q)
    BY DecisionType
  <2>1. /\ visited \in Nat /\ visited < Len(Pools) /\ q = Pools[visited + 1]
        /\ visited' = visited + 1 /\ phase = "applying" /\ UNCHANGED <<phase, live>>
    BY <1>6, <2>0, PoolsAreDistinct DEF ScaleUp, TakePool, Applying, NextPool, TypeOK
  <2>2. /\ NoneAppears /\ limits' = limits /\ toLaunch = <<>>
    BY <1>6 DEF NoneAppears, Young, ScaleUp, TakePool, Applying, CapInv, LaunchesDone,
           host, operator
  <2>3. c > 0 /\ toLaunch' = LaunchRepos(c, demand.jobs[q]) /\ q \notin drained
    BY <1>6, <2>0, <2>c DEF ScaleUp
  <2>4. Len(toLaunch') \in Nat /\ Len(toLaunch') <= c
    BY <2>3, LaunchReposLength
  <2>5. Young(q) \subseteq live[q]
    <3>1. Covered(visited + 1) /\ visited + 1 \in 1..Len(Pools)
      BY <2>1, PoolsAreDistinct DEF Covered
    <3> QED
      BY <2>1, <3>1 DEF CapInv, LiveCovers
  <2>6. Cardinality(Young(q)') + Len(toLaunch') <= limits[q].max
    <3>1. Cardinality(live[q]) \in Nat /\ IsFiniteSet(live[q])
      BY <2>1, LiveIsFinite
    <3>2. /\ Cardinality(Young(q)') \in Nat
          /\ Cardinality(Young(q)') <= Cardinality(live[q])
      <4>1. Young(q)' \subseteq live[q]
        BY <2>2, <2>5 DEF NoneAppears
      <4> QED
        BY <3>1, <4>1, FS_Subset, FS_CardinalityType
    <3>3. Cardinality(live[q]) + c <= limits[q].max
      BY <2>c, <2>3, LaunchesFit
    <3>4. limits[q].max \in Nat
      BY DEF TypeOK, Limits
    <3> QED
      BY <2>3, <2>4, <3>1, <3>2, <3>3, <3>4
  <2>7. PromisesFit'
    <3> SUFFICES ASSUME NEW p \in PoolSet
                 PROVE  \E l \in SettableLimits(p) :
                            Cardinality(Young(p)') + Promised(p)' <= l.max
      BY DEF PromisesFit, SettableLimits
    <3>1. CASE p = q
      <4>1. Promised(p)' <= Len(toLaunch') /\ Promised(p)' \in Nat
        BY <2>4 DEF Promised
      <4>2. Cardinality(Young(q)') \in Nat /\ limits[q].max \in Nat
        <5>1. limits[q].max \in Nat
          BY DEF TypeOK, Limits
        <5> QED
          BY <5>1, OfPoolIsFinite, YoungOfPool
      <4>3. Cardinality(Young(p)') + Promised(p)' <= limits[p].max
        BY <2>4, <2>6, <3>1, <4>1, <4>2
      <4> QED
        BY <4>3 DEF CapInv
    <3>2. CASE p # q
      <4>1. PICK l \in SettableLimits(p) : Cardinality(Young(p)) + Promised(p) <= l.max
        BY DEF CapInv, PromisesFit
      <4>2. Promised(p) = 0 /\ Promised(p)' = 0
        BY <2>1, <2>2, <3>2 DEF Promised
      <4>3. /\ Cardinality(Young(p)') \in Nat /\ Cardinality(Young(p)) \in Nat
            /\ Cardinality(Young(p)') <= Cardinality(Young(p))
        BY <2>2, OfPoolIsFinite, YoungOfPool, FS_Subset DEF NoneAppears
      <4>4. Cardinality(Young(p)') + Promised(p)' <= l.max
        BY <4>1, <4>2, <4>3, SettableLimitsType
      <4> QED
        BY <4>4
    <3> QED
      BY <3>1, <3>2
  <2>8. LiveCovers'
    <3> SUFFICES ASSUME NEW i \in 1..Len(Pools), i > visited + 1
                 PROVE  Young(Pools[i])' \subseteq live[Pools[i]]
      BY <2>1 DEF LiveCovers, Covered
    <3>1. Pools[i] \in PoolSet /\ Covered(i)
      BY <2>1, NextPoolType DEF Covered
    <3> QED
      BY <2>2, <3>1 DEF NoneAppears, CapInv, LiveCovers
  <2> QED
    BY <2>1, <2>2, <2>7, <2>8 DEF CapInv, SettableLimits
<1>7. ASSUME ScaleDown PROVE CapInv'
  <2>1. /\ NoneAppears /\ limits' = limits
        /\ toLaunch = <<>> /\ toLaunch' = <<>> /\ UNCHANGED <<phase, live>>
        /\ phase = "applying" /\ visited' = visited + 1
    BY <1>7
       DEF CapInv, NoneAppears, Young, ScaleDown, TakePool, Applying, LaunchesDone,
           host, operator
  <2> QED
    BY <2>1, NothingLaunched
<1>8. ASSUME AtTarget PROVE CapInv'
  <2>1. /\ NoneAppears /\ limits' = limits
        /\ toLaunch = <<>> /\ toLaunch' = <<>> /\ UNCHANGED <<phase, live>>
        /\ phase = "applying" /\ visited' = visited + 1
    BY <1>8
       DEF CapInv, NoneAppears, Young, AtTarget, TakePool, Applying, LaunchesDone, host,
           operator
  <2> QED
    BY <2>1, NothingLaunched
<1>9. ASSUME EndPass PROVE CapInv'
  <2>1. NoneAppears
    BY <1>0, <1>9
       DEF NoneAppears, Young, PoolNames, EndPass, Rest, Applying, LaunchesDone, host,
           launches
  <2>2. limits' = limits /\ toLaunch' = <<>>
    BY <1>9 DEF CapInv, EndPass, Rest, Applying, LaunchesDone, host, operator, launches
  <2>3. phase' \in {"asleep", "listing", "reaping"} /\ visited' = 0
    BY <1>9 DEF CapInv, EndPass, Rest, Applying, LaunchesDone
  <2> QED
    BY <2>1, <2>2, <2>3, NothingCovered
<1>10. ASSUME NEW n \in Names, RemoveOrphan(n) PROVE CapInv'
  <2>1. NoneAppears
    BY <1>0, <1>10
       DEF NoneAppears, Young, PoolNames, RemoveOrphan, github, host, operator, pass,
           launches
  <2>2. /\ UNCHANGED <<phase, visited, live, toLaunch>>
        /\ \A q \in PoolSet : limits'[q] \in SettableLimits(q)
    BY <1>0, <1>10 DEF CapInv, RemoveOrphan, SettableLimits, host, operator, pass, launches
  <2> QED
    BY <2>1, <2>2, QuietStep
<1>11. ASSUME NEW n \in Names, DeregisterVictim(n) PROVE CapInv'
  <2>1. NoneAppears
    BY <1>0, <1>11
       DEF NoneAppears, Young, PoolNames, DeregisterVictim, TakeVictim, github, host,
           operator, pass, launches
  <2>2. /\ UNCHANGED <<phase, visited, live, toLaunch>>
        /\ \A q \in PoolSet : limits'[q] \in SettableLimits(q)
    BY <1>0, <1>11
       DEF CapInv, DeregisterVictim, TakeVictim, SettableLimits, host, operator, pass, launches
  <2> QED
    BY <2>1, <2>2, QuietStep
<1>12. ASSUME NEW n \in Names, VictimIsBusy(n) PROVE CapInv'
  <2>1. NoneAppears
    BY <1>0, <1>12
       DEF NoneAppears, Young, PoolNames, VictimIsBusy, TakeVictim, github, host,
           operator, pass, launches
  <2>2. /\ UNCHANGED <<phase, visited, live, toLaunch>>
        /\ \A q \in PoolSet : limits'[q] \in SettableLimits(q)
    BY <1>0, <1>12
       DEF CapInv, VictimIsBusy, TakeVictim, SettableLimits, host, operator, pass, launches
  <2> QED
    BY <2>1, <2>2, QuietStep
<1>13. ASSUME NEW n \in Names, VictimUnregistered(n) PROVE CapInv'
  <2>1. NoneAppears
    BY <1>0, <1>13
       DEF NoneAppears, Young, PoolNames, VictimUnregistered, TakeVictim, github, host,
           operator, pass, launches
  <2>2. /\ UNCHANGED <<phase, visited, live, toLaunch>>
        /\ \A q \in PoolSet : limits'[q] \in SettableLimits(q)
    BY <1>0, <1>13
       DEF CapInv, VictimUnregistered, TakeVictim, SettableLimits, host, operator, pass,
           launches
  <2> QED
    BY <2>1, <2>2, QuietStep
<1>14. ASSUME NEW n \in Names, DestroyInstance(n) PROVE CapInv'
  <2>1. NoneAppears
    BY <1>0, <1>14
       DEF NoneAppears, Young, PoolNames, DestroyInstance, github, host, operator, pass,
           launches
  <2>2. /\ UNCHANGED <<phase, visited, live, toLaunch>>
        /\ \A q \in PoolSet : limits'[q] \in SettableLimits(q)
    BY <1>0, <1>14 DEF CapInv, DestroyInstance, SettableLimits, host, operator, pass, launches
  <2> QED
    BY <2>1, <2>2, QuietStep
<1>15. ASSUME NEW n \in Names, RegisterRunner(n) PROVE CapInv'
  <2> DEFINE q == PoolOf[n]
  <2>1. /\ limits' = limits /\ UNCHANGED <<phase, visited>>
        /\ toLaunch # <<>> /\ toLaunch' = Tail(toLaunch)
        /\ q = Pools[visited] /\ q \in PoolSet
    BY <1>15, ReconcileAssumption
       DEF RegisterRunner, Register, TakeLaunch, CapInv, host, operator
  <2>2. /\ n \notin Young(q) /\ Young(q)' = Young(q) \cup {n}
        /\ \A p \in PoolSet \ {q} : Young(p)' = Young(p)
    BY <1>15, <1>0, <2>1
       DEF RegisterRunner, Register, Unused, TakeLaunch, Young, PoolNames, host
  <2>3. PromisesFit'
    <3> SUFFICES ASSUME NEW p \in PoolSet
                 PROVE  \E l \in SettableLimits(p) :
                            Cardinality(Young(p)') + Promised(p)' <= l.max
      BY DEF PromisesFit, SettableLimits
    <3>1. PICK l \in SettableLimits(p) : Cardinality(Young(p)) + Promised(p) <= l.max
      BY DEF CapInv, PromisesFit
    <3>2. IsFiniteSet(Young(p)) /\ Cardinality(Young(p)) \in Nat /\ l.max \in Nat
      BY OfPoolIsFinite, YoungOfPool, SettableLimitsType
    <3>3. CASE p = q
      <4>0. n \notin Young(p) /\ Young(p)' = Young(p) \cup {n}
        BY <2>2, <3>3
      <4>1. Cardinality(Young(p)') = Cardinality(Young(p)) + 1
        BY <3>2, <4>0, FS_AddElement
      <4>2. Promised(p) = Len(toLaunch) /\ Promised(p)' \in Nat /\ Promised(p)' <= Len(toLaunch) - 1
        BY <2>1, <3>3, TailType DEF Promised, TypeOK
      <4>3. Len(toLaunch) \in Nat
        BY DEF TypeOK
      <4>4. Cardinality(Young(p)') + Promised(p)' <= l.max
        BY <3>1, <3>2, <4>1, <4>2, <4>3
      <4> QED
        BY <4>4
    <3>4. CASE p # q
      BY <2>1, <2>2, <3>1, <3>2, <3>4 DEF Promised
    <3> QED
      BY <3>3, <3>4
  <2>4. LiveCovers'
    <3> SUFFICES ASSUME NEW i \in 1..Len(Pools), Covered(i)
                 PROVE  Young(Pools[i])' \subseteq live'[Pools[i]]
      BY <2>1 DEF LiveCovers, Covered
    <3>1. phase = "applying" /\ visited > 0 /\ i > visited
      BY <2>1 DEF LaunchesAlone, LaunchesDone, CapInv, Covered
    <3>2. Pools[i] \in PoolSet /\ Pools[i] # q
      BY <2>1, <3>1, NextPoolType, PoolsAreDistinct DEF TypeOK
    <3>3. live'[Pools[i]] = live[Pools[i]]
      BY <1>15, <1>0, <2>1, <3>2 DEF RegisterRunner, Register
    <3> QED
      BY <2>2, <3>2, <3>3 DEF CapInv, LiveCovers
  <2> QED
    BY <2>1, <2>3, <2>4 DEF CapInv, SettableLimits
<1>16. ASSUME NEW n \in Names, CreateInstance(n) PROVE CapInv'
  <2>1. NoneAppears
    BY <1>0, <1>16
       DEF NoneAppears, Young, PoolNames, CreateInstance, github, host, operator, pass,
           launches
  <2>2. /\ UNCHANGED <<phase, visited, live, toLaunch>>
        /\ \A q \in PoolSet : limits'[q] \in SettableLimits(q)
    BY <1>0, <1>16 DEF CapInv, CreateInstance, SettableLimits, host, operator, pass, launches
  <2> QED
    BY <2>1, <2>2, QuietStep
<1>17. ASSUME NEW n \in Names, StartInstance(n) PROVE CapInv'
  <2>1. NoneAppears
    BY <1>0, <1>17
       DEF NoneAppears, Young, PoolNames, StartInstance, github, host, operator, pass,
           launches
  <2>2. /\ UNCHANGED <<phase, visited, live, toLaunch>>
        /\ \A q \in PoolSet : limits'[q] \in SettableLimits(q)
    BY <1>0, <1>17 DEF CapInv, StartInstance, SettableLimits, host, operator, pass, launches
  <2> QED
    BY <2>1, <2>2, QuietStep
<1>18. ASSUME NEW n \in Names, CleanUp(n) PROVE CapInv'
  <2>1. NoneAppears
    BY <1>0, <1>18
       DEF NoneAppears, Young, PoolNames, CleanUp, github, host, operator, pass,
           launches
  <2>2. /\ UNCHANGED <<phase, visited, live, toLaunch>>
        /\ \A q \in PoolSet : limits'[q] \in SettableLimits(q)
    BY <1>0, <1>18 DEF CapInv, CleanUp, SettableLimits, host, operator, pass, launches
  <2> QED
    BY <2>1, <2>2, QuietStep
<1>19. ASSUME SitOut PROVE CapInv'
  <2>1. NoneAppears
    BY <1>0, <1>19
       DEF NoneAppears, Young, PoolNames, SitOut, github, host, operator, pass, launches
  <2>2. /\ UNCHANGED <<phase, visited, live, toLaunch>>
        /\ \A q \in PoolSet : limits'[q] \in SettableLimits(q)
    BY <1>0, <1>19 DEF CapInv, SitOut, SettableLimits, host, operator, pass, launches
  <2> QED
    BY <2>1, <2>2, QuietStep
<1>20. ASSUME ListRunnersFails PROVE CapInv'
  <2>1. NoneAppears
    BY <1>0, <1>20
       DEF NoneAppears, Young, PoolNames, ListRunnersFails, Rest, LaunchesAlone,
           LaunchesDone, host, launches
  <2>2. limits' = limits /\ toLaunch' = <<>>
    BY <1>20
       DEF CapInv, ListRunnersFails, Rest, LaunchesAlone, LaunchesDone, host, operator,
           launches
  <2>3. phase' \in {"asleep", "listing", "reaping"} /\ visited' = 0
    BY <1>20 DEF CapInv, ListRunnersFails, Rest, LaunchesAlone, LaunchesDone
  <2> QED
    BY <2>1, <2>2, <2>3, NothingCovered
<1>21. ASSUME ListInstancesFails PROVE CapInv'
  BY <1>21 DEF ListInstancesFails, Fault, ListingsSucceed
<1>22. ASSUME PollJobsPartially PROVE CapInv'
  BY <1>22, PolledStep DEF PollJobsPartially
<1>23. ASSUME PollJobsFails PROVE CapInv'
  <2>1. NoneAppears
    BY <1>0, <1>23
       DEF NoneAppears, Young, PoolNames, PollJobsFails, Reaped, Rest, LaunchesAlone,
           LaunchesDone, host, launches
  <2>2. limits' = limits /\ toLaunch' = <<>>
    BY <1>23
       DEF CapInv, PollJobsFails, Reaped, Rest, LaunchesAlone, LaunchesDone, host, operator,
           launches
  <2>3. phase' \in {"asleep", "listing", "reaping"} /\ visited' = 0
    BY <1>23 DEF CapInv, PollJobsFails, Reaped, Rest, LaunchesAlone, LaunchesDone
  <2> QED
    BY <2>1, <2>2, <2>3, NothingCovered
<1>24. ASSUME ScaleUpFails PROVE CapInv'
  <2>1. /\ NoneAppears /\ limits' = limits
        /\ toLaunch = <<>> /\ toLaunch' = <<>> /\ UNCHANGED <<phase, live>>
        /\ phase = "applying" /\ visited' = visited + 1
    BY <1>24
       DEF CapInv, NoneAppears, Young, ScaleUpFails, TakePool, Applying, LaunchesDone,
           host, operator
  <2> QED
    BY <2>1, NothingLaunched
<1>25. ASSUME RegisterFails PROVE CapInv'
  <2>1. /\ NoneAppears /\ limits' = limits /\ UNCHANGED <<phase, visited, live>>
    BY <1>25 DEF NoneAppears, Young, RegisterFails, TakeLaunch, CapInv, host, operator
  <2>2. toLaunch # <<>> /\ toLaunch' = Tail(toLaunch)
    BY <1>25 DEF RegisterFails, TakeLaunch
  <2> QED
    BY <2>1, <2>2, LaunchGivenUp
<1>26. ASSUME Crash PROVE CapInv'
  <2>1. NoneAppears
    BY <1>0, <1>26 DEF NoneAppears, Young, PoolNames, Crash, Rest, host, launches
  <2>2. limits' = limits /\ toLaunch' = <<>>
    BY <1>26 DEF CapInv, Crash, Rest, host, operator, launches
  <2>3. phase' \in {"asleep", "listing", "reaping"} /\ visited' = 0
    BY <1>26 DEF CapInv, Crash, Rest
  <2> QED
    BY <2>1, <2>2, <2>3, NothingCovered
<1>27. ASSUME NEW n \in Names, RemoveOrphanFails(n) PROVE CapInv'
  <2>1. NoneAppears
    BY <1>0, <1>27
       DEF NoneAppears, Young, PoolNames, RemoveOrphanFails, github, host, operator,
           pass, launches
  <2>2. /\ UNCHANGED <<phase, visited, live, toLaunch>>
        /\ \A q \in PoolSet : limits'[q] \in SettableLimits(q)
    BY <1>0, <1>27 DEF CapInv, RemoveOrphanFails, SettableLimits, host, operator, pass, launches
  <2> QED
    BY <2>1, <2>2, QuietStep
<1>28. ASSUME NEW n \in Names, DeregisterVictimFails(n) PROVE CapInv'
  <2>1. NoneAppears
    BY <1>0, <1>28
       DEF NoneAppears, Young, PoolNames, DeregisterVictimFails, TakeVictim, github,
           host, operator, pass, launches
  <2>2. /\ UNCHANGED <<phase, visited, live, toLaunch>>
        /\ \A q \in PoolSet : limits'[q] \in SettableLimits(q)
    BY <1>0, <1>28
       DEF CapInv, DeregisterVictimFails, TakeVictim, SettableLimits, host, operator, pass,
           launches
  <2> QED
    BY <2>1, <2>2, QuietStep
<1>29. ASSUME NEW n \in Names, DestroyInstanceFails(n) PROVE CapInv'
  <2>1. NoneAppears
    BY <1>0, <1>29
       DEF NoneAppears, Young, PoolNames, DestroyInstanceFails, github, host, operator,
           pass, launches
  <2>2. /\ UNCHANGED <<phase, visited, live, toLaunch>>
        /\ \A q \in PoolSet : limits'[q] \in SettableLimits(q)
    BY <1>0, <1>29
       DEF CapInv, DestroyInstanceFails, SettableLimits, host, operator, pass, launches
  <2> QED
    BY <2>1, <2>2, QuietStep
<1>30. ASSUME NEW n \in Names, RegisterAnswerLost(n) PROVE CapInv'
  <2>1. /\ NoneAppears /\ limits' = limits /\ UNCHANGED <<phase, visited>>
    BY <1>30
       DEF NoneAppears, Young, RegisterAnswerLost, TakeLaunch, CapInv, host, operator
  <2>2. toLaunch # <<>> /\ toLaunch' = Tail(toLaunch)
    BY <1>30 DEF RegisterAnswerLost, TakeLaunch
  <2>3. \A p \in PoolSet \ {Pools[visited]} : live'[p] = live[p]
    BY <1>30, <1>0 DEF RegisterAnswerLost, Register
  <2> QED
    BY <2>1, <2>2, <2>3, LaunchGivenUp
<1>31. ASSUME NEW n \in Names, CreateFails(n) PROVE CapInv'
  <2>1. NoneAppears
    BY <1>0, <1>31
       DEF NoneAppears, Young, PoolNames, CreateFails, github, host, operator, pass,
           launches
  <2>2. /\ UNCHANGED <<phase, visited, live, toLaunch>>
        /\ \A q \in PoolSet : limits'[q] \in SettableLimits(q)
    BY <1>0, <1>31 DEF CapInv, CreateFails, SettableLimits, host, operator, pass, launches
  <2> QED
    BY <2>1, <2>2, QuietStep
<1>32. ASSUME NEW n \in Names, CleanUpFails(n) PROVE CapInv'
  <2>1. NoneAppears
    BY <1>0, <1>32
       DEF NoneAppears, Young, PoolNames, CleanUpFails, github, host, operator, pass,
           launches
  <2>2. /\ UNCHANGED <<phase, visited, live, toLaunch>>
        /\ \A q \in PoolSet : limits'[q] \in SettableLimits(q)
    BY <1>0, <1>32 DEF CapInv, CleanUpFails, SettableLimits, host, operator, pass, launches
  <2> QED
    BY <2>1, <2>2, QuietStep
<1>33. ASSUME Housekeep PROVE CapInv'
  <2>1. NoneAppears
    BY <1>0, <1>33
       DEF NoneAppears, Young, PoolNames, Housekeep, github, host, operator, pass,
           launches
  <2>2. /\ UNCHANGED <<phase, visited, live, toLaunch>>
        /\ \A q \in PoolSet : limits'[q] \in SettableLimits(q)
    BY <1>0, <1>33 DEF CapInv, Housekeep, SettableLimits, host, operator, pass, launches
  <2> QED
    BY <2>1, <2>2, QuietStep
<1>34. ASSUME NEW j \in Jobs, JobArrives(j) PROVE CapInv'
  <2>1. NoneAppears
    BY <1>0, <1>34
       DEF NoneAppears, Young, PoolNames, JobArrives, github, host, operator, pass,
           launches
  <2>2. /\ UNCHANGED <<phase, visited, live, toLaunch>>
        /\ \A q \in PoolSet : limits'[q] \in SettableLimits(q)
    BY <1>0, <1>34 DEF CapInv, JobArrives, SettableLimits, host, operator, pass, launches
  <2> QED
    BY <2>1, <2>2, QuietStep
<1>35. ASSUME NEW j \in Jobs, JobCancelled(j) PROVE CapInv'
  <2>1. NoneAppears
    BY <1>0, <1>35
       DEF NoneAppears, Young, PoolNames, JobCancelled, github, host, operator, pass,
           launches
  <2>2. /\ UNCHANGED <<phase, visited, live, toLaunch>>
        /\ \A q \in PoolSet : limits'[q] \in SettableLimits(q)
    BY <1>0, <1>35 DEF CapInv, JobCancelled, SettableLimits, host, operator, pass, launches
  <2> QED
    BY <2>1, <2>2, QuietStep
<1>36. ASSUME NEW n \in Names, NEW j \in Jobs, JobStarts(n, j) PROVE CapInv'
  <2>1. NoneAppears
    BY <1>0, <1>36
       DEF NoneAppears, Young, PoolNames, JobStarts, github, host, operator, pass,
           launches
  <2>2. /\ UNCHANGED <<phase, visited, live, toLaunch>>
        /\ \A q \in PoolSet : limits'[q] \in SettableLimits(q)
    BY <1>0, <1>36 DEF CapInv, JobStarts, SettableLimits, host, operator, pass, launches
  <2> QED
    BY <2>1, <2>2, QuietStep
<1>37. ASSUME NEW n \in Names, JobCompletes(n) PROVE CapInv'
  <2>1. NoneAppears
    BY <1>0, <1>37
       DEF NoneAppears, Young, PoolNames, JobCompletes, github, host, operator, pass,
           launches
  <2>2. /\ UNCHANGED <<phase, visited, live, toLaunch>>
        /\ \A q \in PoolSet : limits'[q] \in SettableLimits(q)
    BY <1>0, <1>37 DEF CapInv, JobCompletes, SettableLimits, host, operator, pass, launches
  <2> QED
    BY <2>1, <2>2, QuietStep
<1>38. ASSUME NEW n \in Names, RunnerConnects(n) PROVE CapInv'
  <2>1. NoneAppears
    BY <1>0, <1>38
       DEF NoneAppears, Young, PoolNames, RunnerConnects, github, host, operator, pass,
           launches
  <2>2. /\ UNCHANGED <<phase, visited, live, toLaunch>>
        /\ \A q \in PoolSet : limits'[q] \in SettableLimits(q)
    BY <1>0, <1>38 DEF CapInv, RunnerConnects, SettableLimits, host, operator, pass, launches
  <2> QED
    BY <2>1, <2>2, QuietStep
<1>39. ASSUME NEW n \in Names, RunnerDisconnects(n) PROVE CapInv'
  <2>1. NoneAppears
    BY <1>0, <1>39
       DEF NoneAppears, Young, PoolNames, RunnerDisconnects, github, host, operator,
           pass, launches
  <2>2. /\ UNCHANGED <<phase, visited, live, toLaunch>>
        /\ \A q \in PoolSet : limits'[q] \in SettableLimits(q)
    BY <1>0, <1>39 DEF CapInv, RunnerDisconnects, SettableLimits, host, operator, pass, launches
  <2> QED
    BY <2>1, <2>2, QuietStep
<1>40. ASSUME NEW n \in Names, RunnerExits(n) PROVE CapInv'
  <2>1. NoneAppears
    BY <1>0, <1>40
       DEF NoneAppears, Young, PoolNames, RunnerExits, github, host, operator, pass,
           launches
  <2>2. /\ UNCHANGED <<phase, visited, live, toLaunch>>
        /\ \A q \in PoolSet : limits'[q] \in SettableLimits(q)
    BY <1>0, <1>40 DEF CapInv, RunnerExits, SettableLimits, host, operator, pass, launches
  <2> QED
    BY <2>1, <2>2, QuietStep
<1>41. ASSUME NEW n \in Names, RunnerDies(n) PROVE CapInv'
  <2>1. NoneAppears
    BY <1>0, <1>41
       DEF NoneAppears, Young, PoolNames, RunnerDies, github, host, operator, pass,
           launches
  <2>2. /\ UNCHANGED <<phase, visited, live, toLaunch>>
        /\ \A q \in PoolSet : limits'[q] \in SettableLimits(q)
    BY <1>0, <1>41 DEF CapInv, RunnerDies, SettableLimits, host, operator, pass, launches
  <2> QED
    BY <2>1, <2>2, QuietStep
<1>42. ASSUME NEW n \in Names, RunnerLost(n) PROVE CapInv'
  <2>1. NoneAppears
    BY <1>0, <1>42
       DEF NoneAppears, Young, PoolNames, RunnerLost, github, host, operator, pass,
           launches
  <2>2. /\ UNCHANGED <<phase, visited, live, toLaunch>>
        /\ \A q \in PoolSet : limits'[q] \in SettableLimits(q)
    BY <1>0, <1>42 DEF CapInv, RunnerLost, SettableLimits, host, operator, pass, launches
  <2> QED
    BY <2>1, <2>2, QuietStep
<1>43. ASSUME NEW n \in Names, TurnsOverdue(n) PROVE CapInv'
  <2>1. NoneAppears
    BY <1>0, <1>43
       DEF NoneAppears, Young, PoolNames, TurnsOverdue, github, operator, pass, launches
  <2>2. /\ UNCHANGED <<phase, visited, live, toLaunch>>
        /\ \A q \in PoolSet : limits'[q] \in SettableLimits(q)
    BY <1>0, <1>43 DEF CapInv, TurnsOverdue, SettableLimits, operator, pass, launches
  <2> QED
    BY <2>1, <2>2, QuietStep
<1>44. ASSUME NEW p \in PoolSet, NEW l \in LimitChoices, SetLimits(p, l) PROVE CapInv'
  <2>1. NoneAppears
    BY <1>0, <1>44
       DEF NoneAppears, Young, PoolNames, SetLimits, github, host, operator, pass,
           launches
  <2>2. /\ UNCHANGED <<phase, visited, live, toLaunch>>
        /\ \A q \in PoolSet : limits'[q] \in SettableLimits(q)
    BY <1>0, <1>44 DEF CapInv, SetLimits, SettableLimits, host, operator, pass, launches
  <2> QED
    BY <2>1, <2>2, QuietStep
<1>45. ASSUME NEW p \in DrainablePools, SetDrained(p) PROVE CapInv'
  <2>1. NoneAppears
    BY <1>0, <1>45
       DEF NoneAppears, Young, PoolNames, SetDrained, github, host, operator, pass,
           launches
  <2>2. /\ UNCHANGED <<phase, visited, live, toLaunch>>
        /\ \A q \in PoolSet : limits'[q] \in SettableLimits(q)
    BY <1>0, <1>45 DEF CapInv, SetDrained, SettableLimits, host, operator, pass, launches
  <2> QED
    BY <2>1, <2>2, QuietStep
<1>46. CASE UNCHANGED vars
  <2>1. /\ NoneAppears /\ UNCHANGED <<phase, visited, live, toLaunch, limits>>
    BY <1>46 DEF vars, NoneAppears, Young, CapInv, host, operator, pass, launches
  <2> QED
    BY <2>1, QuietStep DEF CapInv
<1> QED
  BY <1>1, <1>2, <1>3, <1>4, <1>5, <1>6, <1>7, <1>8, <1>9, <1>10, <1>11, <1>12, <1>13,
     <1>14, <1>15, <1>16, <1>17, <1>18, <1>19, <1>20, <1>21, <1>22, <1>23, <1>24, <1>25,
     <1>26, <1>27, <1>28, <1>29, <1>30, <1>31, <1>32, <1>33, <1>34, <1>35, <1>36, <1>37,
     <1>38, <1>39, <1>40, <1>41, <1>42, <1>43, <1>44, <1>45, <1>46
     DEF Next, LoopStep, LoopFault, World, Operator

LEMMA CapInit == Init => CapInv
<1> SUFFICES ASSUME Init PROVE CapInv
  OBVIOUS
<1>1. \A p \in PoolSet : Young(p) = {} /\ Promised(p) = 0
  BY DEF Init, Young, PoolNames, Promised
<1>2. PromisesFit
  <2> SUFFICES ASSUME NEW p \in PoolSet
               PROVE  \E l \in SettableLimits(p) : Cardinality(Young(p)) + Promised(p) <= l.max
    BY DEF PromisesFit
  <2>1. InitLimits[p] \in SettableLimits(p)
    BY DEF SettableLimits
  <2>2. Cardinality(Young(p)) = 0 /\ Promised(p) = 0
    BY <1>1, FS_EmptySet
  <2> QED
    BY <2>1, <2>2, SettableLimitsType
<1> QED
  BY <1>1, <1>2 DEF Init, CapInv, LiveCovers, Covered, SettableLimits

LEMMA CapImpliesYoung == TypeOK /\ CapInv => YoungRunnersWithinMax
<1> SUFFICES ASSUME TypeOK, CapInv, NEW p \in PoolSet
             PROVE  \E l \in SettableLimits(p) : Cardinality(Young(p)) <= l.max
  BY DEF YoungRunnersWithinMax
<1>1. PICK l \in SettableLimits(p) : Cardinality(Young(p)) + Promised(p) <= l.max
  BY DEF CapInv, PromisesFit
<1>2. Cardinality(Young(p)) <= l.max
  BY <1>1, PromisedType, OfPoolIsFinite, YoungOfPool, SettableLimitsType
<1> QED
  BY <1>2

\* YoungRunnersWithinMax, whatever else fails and however long jobs hang, as long as no
\* instance listing fails.
THEOREM YoungAreCapped ==
    ASSUME ListingsSucceed
    PROVE  Spec => []YoungRunnersWithinMax
<1>1. TypeOK /\ LaunchesAlone /\ CapInv /\ [Next]_vars => CapInv'
  BY CapStep
<1> QED
  BY <1>1, CapImpliesYoung, TypeCorrect, LaunchesAreAlone, CapInit, PTL DEF Spec

\* Only TurnsOverdue makes a runner overdue.
NoneOverdue == overdue = {}

LEMMA NoneTurnsOverdue ==
    ASSUME NoLateRunners
    PROVE  NoneOverdue /\ [Next]_vars => NoneOverdue'
<1> SUFFICES ASSUME overdue = {}, [Next]_vars PROVE overdue' = {}
  BY DEF NoneOverdue
<1> USE DEF host
<1>1. CASE LoopStep
  <2>1. CASE \/ \E S \in SUBSET {n \in Names : idle[n] \in {"fresh", "ripe"}} : BeginPass(S)
             \/ ListRunners \/ ListInstances \/ PollJobs \/ AssignNextJob
             \/ ScaleUp \/ ScaleDown \/ AtTarget \/ EndPass
    BY <2>1 DEF BeginPass, ListRunners, ListInstances, PollJobs, StartAssigning, AssignNextJob,
                ScaleUp, ScaleDown, AtTarget, TakePool, EndPass
  <2>2. ASSUME NEW n \in Names,
               \/ RemoveOrphan(n) \/ DeregisterVictim(n) \/ VictimIsBusy(n)
               \/ VictimUnregistered(n) \/ DestroyInstance(n)
               \/ RegisterRunner(n) \/ CreateInstance(n) \/ StartInstance(n) \/ CleanUp(n)
        PROVE  overdue' = {}
    BY <2>2 DEF RemoveOrphan, DeregisterVictim, VictimIsBusy, VictimUnregistered, TakeVictim,
                DestroyInstance, RegisterRunner, TakeLaunch, CreateInstance, StartInstance, CleanUp
  <2> QED
    BY <1>1, <2>1, <2>2 DEF LoopStep
<1>2. CASE LoopFault
  <2>1. CASE \/ SitOut \/ ListRunnersFails \/ ListInstancesFails
             \/ PollJobsPartially \/ PollJobsFails \/ ScaleUpFails \/ RegisterFails \/ Crash
    BY <2>1 DEF SitOut, ListRunnersFails, ListInstancesFails, PollJobsPartially, StartAssigning,
                PollJobsFails, ScaleUpFails, TakePool, RegisterFails, TakeLaunch, Crash
  <2>2. ASSUME NEW n \in Names,
               \/ RemoveOrphanFails(n) \/ DeregisterVictimFails(n) \/ DestroyInstanceFails(n)
               \/ RegisterAnswerLost(n) \/ CreateFails(n) \/ CleanUpFails(n)
        PROVE  overdue' = {}
    BY <2>2 DEF RemoveOrphanFails, DeregisterVictimFails, TakeVictim, DestroyInstanceFails,
                RegisterAnswerLost, TakeLaunch, CreateFails, CleanUpFails
  <2> QED
    BY <1>2, <2>1, <2>2 DEF LoopFault
<1>3. CASE Housekeep
  BY <1>3 DEF Housekeep
<1>4. CASE World
  <2>1. ASSUME NEW j \in Jobs, JobArrives(j) \/ JobCancelled(j) \/ \E n \in Names : JobStarts(n, j)
        PROVE  overdue' = {}
    BY <2>1 DEF JobArrives, JobCancelled, JobStarts
  <2>2. ASSUME NEW n \in Names,
               \/ JobCompletes(n) \/ RunnerConnects(n) \/ RunnerDisconnects(n)
               \/ RunnerExits(n) \/ RunnerDies(n) \/ RunnerLost(n) \/ TurnsOverdue(n)
        PROVE  overdue' = {}
    BY <2>2 DEF JobCompletes, RunnerConnects, RunnerDisconnects, RunnerExits, RunnerDies,
                RunnerLost, TurnsOverdue, Fault, NoLateRunners
  <2> QED
    BY <1>4, <2>1, <2>2 DEF World
<1>5. CASE Operator
  BY <1>5 DEF Operator, SetLimits, SetDrained
<1>6. CASE UNCHANGED vars
  BY <1>6 DEF vars
<1> QED
  BY <1>1, <1>2, <1>3, <1>4, <1>5, <1>6 DEF Next

\* RunnersWithinMax, whatever else fails, as long as no instance listing does and no
\* instance turns older than job_timeout.
THEOREM MaxIsKept ==
    ASSUME ListingsSucceed, NoLateRunners
    PROVE  Spec => []RunnersWithinMax
<1>1. Init => NoneOverdue
  BY DEF Init, NoneOverdue
<1>2. NoneOverdue /\ YoungRunnersWithinMax => RunnersWithinMax
  <2> SUFFICES ASSUME NoneOverdue, YoungRunnersWithinMax PROVE RunnersWithinMax
    OBVIOUS
  <2>1. \A p \in PoolSet : Occupying(p) = Young(p)
    BY DEF Occupying, Young, NoneOverdue
  <2> QED
    BY <2>1 DEF YoungRunnersWithinMax, RunnersWithinMax
<1>3. NoneOverdue /\ [Next]_vars => NoneOverdue'
  BY NoneTurnsOverdue
<1>4. Spec => []YoungRunnersWithinMax
  BY YoungAreCapped
<1> QED
  BY <1>1, <1>2, <1>3, <1>4, PTL DEF Spec

-----------------------------------------------------------------------------
(***************************************************************************)
(* A pass comes to its end                                                 *)
(***************************************************************************)
\* Jobs arrive one at a time, so a poll returns finitely many.
FiniteQueue == IsFiniteSet(queue) /\ IsFiniteSet(unplaced)

LEMMA FiniteStep == FiniteQueue /\ [Next]_vars => FiniteQueue'
<1> SUFFICES ASSUME FiniteQueue, [Next]_vars PROVE FiniteQueue'
  OBVIOUS
<1>0. ASSUME queue' \subseteq queue \/ (\E j : queue' = queue \cup {j}),
             unplaced' \subseteq unplaced \/ unplaced' \subseteq queue
      PROVE  FiniteQueue'
  BY <1>0, FS_Subset, FS_AddElement DEF FiniteQueue
<1> USE DEF github, pass
<1>1. CASE LoopStep
  <2>1. CASE \/ \E S \in SUBSET {n \in Names : idle[n] \in {"fresh", "ripe"}} : BeginPass(S)
             \/ ListRunners \/ ListInstances \/ PollJobs \/ AssignNextJob
             \/ ScaleUp \/ ScaleDown \/ AtTarget \/ EndPass
    BY <1>0, <2>1 DEF BeginPass, ListRunners, ListInstances, PollJobs, StartAssigning,
                      AssignNextJob, ScaleUp, ScaleDown, AtTarget, TakePool, EndPass, Rest
  <2>2. ASSUME NEW n \in Names,
               \/ RemoveOrphan(n) \/ DeregisterVictim(n) \/ VictimIsBusy(n)
               \/ VictimUnregistered(n) \/ DestroyInstance(n)
               \/ RegisterRunner(n) \/ CreateInstance(n) \/ StartInstance(n) \/ CleanUp(n)
        PROVE  FiniteQueue'
    BY <1>0, <2>2
       DEF RemoveOrphan, DeregisterVictim, VictimIsBusy, VictimUnregistered, TakeVictim,
           DestroyInstance, RegisterRunner, TakeLaunch, CreateInstance, StartInstance, CleanUp
  <2> QED
    BY <1>1, <2>1, <2>2 DEF LoopStep
<1>2. CASE LoopFault
  <2>1. CASE \/ SitOut \/ ListRunnersFails \/ ListInstancesFails
             \/ PollJobsPartially \/ PollJobsFails \/ ScaleUpFails \/ RegisterFails \/ Crash
    BY <1>0, <2>1 DEF SitOut, ListRunnersFails, ListInstancesFails, PollJobsPartially,
                      StartAssigning, PollJobsFails, ScaleUpFails, TakePool, RegisterFails,
                      TakeLaunch, Crash, Rest
  <2>2. ASSUME NEW n \in Names,
               \/ RemoveOrphanFails(n) \/ DeregisterVictimFails(n) \/ DestroyInstanceFails(n)
               \/ RegisterAnswerLost(n) \/ CreateFails(n) \/ CleanUpFails(n)
        PROVE  FiniteQueue'
    BY <1>0, <2>2 DEF RemoveOrphanFails, DeregisterVictimFails, TakeVictim,
                      DestroyInstanceFails, RegisterAnswerLost, TakeLaunch, CreateFails,
                      CleanUpFails
  <2> QED
    BY <1>2, <2>1, <2>2 DEF LoopFault
<1>3. CASE Housekeep
  BY <1>0, <1>3 DEF Housekeep
<1>4. CASE World
  <2>1. ASSUME NEW j \in Jobs, JobArrives(j) \/ JobCancelled(j) \/ \E n \in Names : JobStarts(n, j)
        PROVE  FiniteQueue'
    BY <1>0, <2>1 DEF JobArrives, JobCancelled, JobStarts
  <2>2. ASSUME NEW n \in Names,
               \/ JobCompletes(n) \/ RunnerConnects(n) \/ RunnerDisconnects(n)
               \/ RunnerExits(n) \/ RunnerDies(n) \/ RunnerLost(n) \/ TurnsOverdue(n)
        PROVE  FiniteQueue'
    BY <1>0, <2>2 DEF JobCompletes, RunnerConnects, RunnerDisconnects, RunnerExits, RunnerDies,
                      RunnerLost, TurnsOverdue
  <2> QED
    BY <1>4, <2>1, <2>2 DEF World
<1>5. CASE Operator
  BY <1>0, <1>5 DEF Operator, SetLimits, SetDrained
<1>6. CASE UNCHANGED vars
  BY <1>0, <1>6 DEF vars
<1> QED
  BY <1>1, <1>2, <1>3, <1>4, <1>5, <1>6 DEF Next

LEMMA OneLess ==
    ASSUME NEW S, IsFiniteSet(S), NEW T, T \subseteq S, NEW x \in S, x \notin T
    PROVE  Cardinality(T) < Cardinality(S)
<1>1. Cardinality(T) <= Cardinality(S) /\ Cardinality(T) # Cardinality(S)
  BY FS_Subset
<1>2. Cardinality(T) \in Nat /\ Cardinality(S) \in Nat
  BY FS_Subset, FS_CardinalityType
<1> QED
  BY <1>1, <1>2

\* What makes the list of what is to be done shorter: a step that does a part of it, and
\* leaves what comes before that part alone.
Shorter == Less(ToDo', ToDo)

LEMMA NearerTheEnd ==
    /\ Turns' < Turns => Shorter
    /\ UNCHANGED phase /\ Len(Pools) - visited' < Len(Pools) - visited => Shorter
    /\ UNCHANGED <<phase, visited>> /\ Cardinality(unplaced') < Cardinality(unplaced) => Shorter
    /\ UNCHANGED <<phase, visited, unplaced>> /\ Len(toLaunch') < Len(toLaunch) => Shorter
    /\ /\ UNCHANGED <<phase, visited, unplaced, toLaunch>>
       /\ Cardinality(victims') < Cardinality(victims)
       => Shorter
    /\ /\ UNCHANGED <<phase, visited, unplaced, toLaunch, victims>>
       /\ Cardinality(target') < Cardinality(target)
       => Shorter
    /\ /\ UNCHANGED <<phase, visited, unplaced, toLaunch, victims, target>>
       /\ Cardinality(orphans') < Cardinality(orphans)
       => Shorter
<1>1. /\ ToDo[1] = Turns /\ ToDo[2] = Len(Pools) - visited
      /\ ToDo[3] = Cardinality(unplaced) /\ ToDo[4] = Len(toLaunch)
      /\ ToDo[5] = Cardinality(victims) /\ ToDo[6] = Cardinality(target)
      /\ ToDo[7] = Cardinality(orphans)
  BY DEF ToDo
<1>2. /\ ToDo'[1] = Turns' /\ ToDo'[2] = Len(Pools) - visited'
      /\ ToDo'[3] = Cardinality(unplaced') /\ ToDo'[4] = Len(toLaunch')
      /\ ToDo'[5] = Cardinality(victims') /\ ToDo'[6] = Cardinality(target')
      /\ ToDo'[7] = Cardinality(orphans')
  BY DEF ToDo
<1>3. UNCHANGED phase => Turns' = Turns
  BY DEF Turns
<1>4. ASSUME NEW i \in 1..7, ToDo'[i] < ToDo[i],
             \A k \in 1..7 : k < i => ToDo'[k] = ToDo[k]
      PROVE  Shorter
  <2>1. i \in 1..10 /\ \A k \in 1..10 : k < i => k \in 1..7
    OBVIOUS
  <2> QED
    BY <1>4, <2>1 DEF Shorter, Less
<1>5. Turns' < Turns => Shorter
  <2>1. \A k \in 1..7 : ~(k < 1)
    OBVIOUS
  <2> QED
    BY <1>1, <1>2, <1>4, <2>1
<1>6. \A k \in 1..7 : /\ k < 2 => k = 1
                      /\ k < 3 => k \in {1, 2}
                      /\ k < 4 => k \in {1, 2, 3}
                      /\ k < 5 => k \in {1, 2, 3, 4}
                      /\ k < 6 => k \in {1, 2, 3, 4, 5}
                      /\ k < 7 => k \in {1, 2, 3, 4, 5, 6}
  OBVIOUS
<1> HIDE DEF Shorter, Turns, ToDo
<1>7. UNCHANGED phase /\ Len(Pools) - visited' < Len(Pools) - visited => Shorter
  BY <1>1, <1>2, <1>3, <1>4, <1>6
<1>8. UNCHANGED <<phase, visited>> /\ Cardinality(unplaced') < Cardinality(unplaced) => Shorter
  BY <1>1, <1>2, <1>3, <1>4, <1>6
<1>9. UNCHANGED <<phase, visited, unplaced>> /\ Len(toLaunch') < Len(toLaunch) => Shorter
  BY <1>1, <1>2, <1>3, <1>4, <1>6
<1>10. ASSUME UNCHANGED <<phase, visited, unplaced, toLaunch>>,
              Cardinality(victims') < Cardinality(victims)
       PROVE  Shorter
  BY <1>1, <1>2, <1>3, <1>4, <1>6, <1>10
<1>11. ASSUME UNCHANGED <<phase, visited, unplaced, toLaunch, victims>>,
              Cardinality(target') < Cardinality(target)
       PROVE  Shorter
  BY <1>1, <1>2, <1>3, <1>4, <1>6, <1>11
<1>12. ASSUME UNCHANGED <<phase, visited, unplaced, toLaunch, victims, target>>,
              Cardinality(orphans') < Cardinality(orphans)
       PROVE  Shorter
  BY <1>1, <1>2, <1>3, <1>4, <1>6, <1>12
<1> QED
  BY <1>5, <1>7, <1>8, <1>9, <1>10, <1>11, <1>12

\* A launch under way goes from stage to stage and does not come back to one.
LEMMA LaunchMovesOn ==
    ASSUME TypeOK, NEW n \in Names, NEW s \in LaunchState,
           launch' = [launch EXCEPT ![n] = s],
           \/ launch[n] = "creating" /\ s # "creating"
           \/ launch[n] = "starting" /\ s \in {"cleanup", "none"}
           \/ launch[n] = "cleanup" /\ s = "none",
           UNCHANGED <<phase, visited, unplaced, toLaunch, victims, target, orphans>>
    PROVE  Shorter
<1>0. PICK was : was = launch[n]
  OBVIOUS
<1>1. \A m \in Names : launch'[m] = IF m = n THEN s ELSE launch[m]
  BY DEF TypeOK
<1>2. \A t : At(t) \subseteq Names /\ IsFiniteSet(At(t))
  BY ReconcileAssumption, FS_Subset DEF At
<1>3. At(was)' \subseteq At(was) /\ n \in At(was) /\ n \notin At(was)'
  BY <1>0, <1>1 DEF At
<1>4. Cardinality(At(was)') < Cardinality(At(was))
  BY <1>2, <1>3, OneLess
<1>5. \A t : t # was /\ t # s => At(t)' = At(t)
  BY <1>0, <1>1 DEF At
<1>6. /\ \A k \in 1..7 : ToDo'[k] = ToDo[k]
      /\ ToDo[8] = Cardinality(At("creating")) /\ ToDo'[8] = Cardinality(At("creating")')
      /\ ToDo[9] = Cardinality(At("starting")) /\ ToDo'[9] = Cardinality(At("starting")')
      /\ ToDo[10] = Cardinality(At("cleanup")) /\ ToDo'[10] = Cardinality(At("cleanup")')
  BY DEF ToDo, Turns
<1>7. \A k \in 1..10 : k < 8 => k \in 1..7
  OBVIOUS
<1>8. \A k \in 1..10 : (k < 9 => k = 8 \/ k \in 1..7) /\ (k < 10 => k = 9 \/ k = 8 \/ k \in 1..7)
  OBVIOUS
<1>9. CASE was = "creating"
  BY <1>4, <1>6, <1>7, <1>9 DEF Shorter, Less
<1>10. CASE was = "starting" /\ s \in {"cleanup", "none"}
  <2>1. At("creating")' = At("creating")
    BY <1>5, <1>10
  <2> QED
    BY <1>4, <1>6, <1>8, <1>10, <2>1 DEF Shorter, Less
<1>11. CASE was = "cleanup" /\ s = "none"
  <2>1. At("creating")' = At("creating") /\ At("starting")' = At("starting")
    BY <1>5, <1>11
  <2> QED
    BY <1>4, <1>6, <1>8, <1>11, <2>1 DEF Shorter, Less
<1> QED
  BY <1>0, <1>9, <1>10, <1>11

Advances == UNCHANGED <<pass, launches>> \/ Shorter

LEMMA PassStep ==
    TypeOK /\ FiniteQueue /\ [Next]_vars =>
        (phase # "asleep" => UNCHANGED <<pass, launches>> \/ Less(ToDo', ToDo))
<1> SUFFICES ASSUME TypeOK, FiniteQueue, [Next]_vars, phase # "asleep"
             PROVE  Advances
  BY DEF Advances, Shorter
<1>0. /\ phase \in Phases /\ visited \in 0..Len(Pools) /\ Len(Pools) \in Nat
      /\ IsFiniteSet(victims) /\ IsFiniteSet(target) /\ IsFiniteSet(orphans)
      /\ victims \subseteq Names /\ target \subseteq Names /\ orphans \subseteq Names
  <2>1. IsFiniteSet(Names) /\ Len(Pools) \in Nat
    BY ReconcileAssumption, PoolsAreDistinct
  <2> QED
    BY <2>1, FS_Subset DEF TypeOK
<1>1. /\ phase = "listing" => Turns = 3
      /\ phase = "reaping" => Turns = 2
      /\ phase = "applying" => Turns = 1
      /\ phase' = "reaping" => Turns' = 2
      /\ phase' = "applying" => Turns' = 1
      /\ phase' = "asleep" => Turns' = 0
  BY DEF Turns
<1>2. ASSUME phase' = "asleep" PROVE Advances
  BY <1>0, <1>1, <1>2, NearerTheEnd DEF Phases, Advances
<1>3. ASSUME UNCHANGED phase, visited < Len(Pools), visited' = visited + 1 PROVE Advances
  BY <1>0, <1>3, NearerTheEnd DEF Advances
<1>4. ASSUME NEW n \in orphans, orphans' = orphans \ {n},
             UNCHANGED <<phase, visited, unplaced, toLaunch, victims, target>>
      PROVE  Advances
  BY <1>0, <1>4, OneLess, NearerTheEnd DEF Advances
<1>5. ASSUME NEW n, TakeVictim(n) PROVE Advances
  <2>1. Cardinality(victims') < Cardinality(victims)
    BY <1>0, <1>5, OneLess DEF TakeVictim
  <2> QED
    BY <1>5, <2>1, NearerTheEnd DEF TakeVictim, launches, Advances
<1>6. ASSUME NEW n \in target, target' = {},
             UNCHANGED <<phase, visited, unplaced, toLaunch, victims>>
      PROVE  Advances
  BY <1>0, <1>6, OneLess, NearerTheEnd DEF Advances
<1>7. ASSUME TakeLaunch PROVE Advances
  <2>1. Len(toLaunch') < Len(toLaunch)
    BY <1>7 DEF TakeLaunch, TypeOK
  <2> QED
    BY <1>7, <2>1, NearerTheEnd DEF TakeLaunch, Advances
<1>8. CASE LoopStep
  <2>1. ASSUME NEW S, BeginPass(S) PROVE Advances
    BY <2>1 DEF BeginPass
  <2>2. CASE ListRunners
    BY <1>1, <2>2, NearerTheEnd DEF ListRunners, Advances
  <2>3. CASE ListInstances
    BY <1>3, <2>3 DEF ListInstances
  <2>4. CASE PollJobs
    BY <1>1, <2>4, NearerTheEnd DEF PollJobs, Reaped, StartAssigning, Advances
  <2>5. CASE AssignNextJob
    <3>1. PICK j \in unplaced : unplaced' = unplaced \ {j}
      BY <2>5 DEF AssignNextJob
    <3>2. Cardinality(unplaced') < Cardinality(unplaced)
      BY <3>1, OneLess DEF FiniteQueue
    <3> QED
      BY <2>5, <3>2, NearerTheEnd DEF AssignNextJob, Advances
  <2>6. CASE TakePool
    BY <1>3, <2>6 DEF TakePool
  <2>7. CASE EndPass
    BY <1>2, <2>7 DEF EndPass, Rest
  <2>8. ASSUME NEW n \in Names, RemoveOrphan(n) PROVE Advances
    BY <1>4, <2>8 DEF RemoveOrphan, launches
  <2>9. ASSUME NEW n \in Names, DestroyInstance(n) PROVE Advances
    BY <1>6, <2>9 DEF DestroyInstance, launches
  <2>10. ASSUME NEW n \in Names, CreateInstance(n) \/ StartInstance(n) \/ CleanUp(n) PROVE Advances
    BY <2>10, LaunchMovesOn
       DEF CreateInstance, StartInstance, CleanUp, pass, LaunchState, Advances
  <2> QED
    BY <1>5, <1>7, <1>8, <2>1, <2>2, <2>3, <2>4, <2>5, <2>6, <2>7, <2>8, <2>9, <2>10
       DEF LoopStep, ScaleUp, ScaleDown, AtTarget, DeregisterVictim, VictimIsBusy,
           VictimUnregistered, RegisterRunner
<1>9. CASE LoopFault
  <2>1. CASE SitOut
    BY <2>1 DEF SitOut, Advances
  <2>2. CASE ListRunnersFails \/ PollJobsFails \/ Crash
    BY <1>2, <2>2 DEF ListRunnersFails, PollJobsFails, Crash, Rest
  <2>3. CASE ListInstancesFails
    BY <1>3, <2>3 DEF ListInstancesFails
  <2>4. CASE PollJobsPartially
    BY <1>1, <2>4, NearerTheEnd DEF PollJobsPartially, Reaped, StartAssigning, Advances
  <2>5. ASSUME NEW n \in Names, RemoveOrphanFails(n) PROVE Advances
    BY <1>4, <2>5 DEF RemoveOrphanFails, launches
  <2>6. ASSUME NEW n \in Names, DestroyInstanceFails(n) PROVE Advances
    BY <1>6, <2>6 DEF DestroyInstanceFails, launches
  <2>7. ASSUME NEW n \in Names, CreateFails(n) \/ CleanUpFails(n) PROVE Advances
    BY <2>7, LaunchMovesOn DEF CreateFails, CleanUpFails, pass, LaunchState, Advances
  <2>8. CASE TakePool
    BY <1>3, <2>8 DEF TakePool
  <2> QED
    BY <1>5, <1>7, <1>9, <2>1, <2>2, <2>3, <2>4, <2>5, <2>6, <2>7, <2>8
       DEF LoopFault, ScaleUpFails, RegisterFails, DeregisterVictimFails, RegisterAnswerLost
<1>10. CASE Housekeep
  BY <1>10 DEF Housekeep, Advances
<1>11. CASE World
  <2>1. ASSUME NEW j \in Jobs, JobArrives(j) \/ JobCancelled(j) \/ \E n \in Names : JobStarts(n, j)
        PROVE  Advances
    BY <2>1 DEF JobArrives, JobCancelled, JobStarts, Advances
  <2>2. ASSUME NEW n \in Names,
               \/ JobCompletes(n) \/ RunnerConnects(n) \/ RunnerDisconnects(n)
               \/ RunnerExits(n) \/ RunnerDies(n) \/ RunnerLost(n) \/ TurnsOverdue(n)
        PROVE  Advances
    BY <2>2 DEF JobCompletes, RunnerConnects, RunnerDisconnects, RunnerExits, RunnerDies,
                RunnerLost, TurnsOverdue, Advances
  <2> QED
    BY <1>11, <2>1, <2>2 DEF World
<1>12. CASE Operator
  BY <1>12 DEF Operator, SetLimits, SetDrained, Advances
<1>13. CASE UNCHANGED vars
  BY <1>13 DEF vars, Advances
<1> QED
  BY <1>8, <1>9, <1>10, <1>11, <1>12, <1>13 DEF Next

\* No step of a pass is undone or repeated, whatever fails and whatever happens around the
\* loop: the numbers of ToDo go down in their lexicographic order, so a pass has finitely
\* many steps, however many pools, runners and jobs there are.
THEOREM EveryPassGetsDone == Spec => PassesGetDone
<1>1. Init => FiniteQueue
  BY FS_EmptySet DEF Init, FiniteQueue
<1> QED
  BY <1>1, FiniteStep, PassStep, TypeCorrect, PTL DEF Spec, PassesGetDone

-----------------------------------------------------------------------------
(***************************************************************************)
(* What the order of ToDo is worth: it has no infinite descent.            *)
(***************************************************************************)
Measures == [1..10 -> Nat]

\* u comes before v by one of the first k numbers.
LessWithin(k, u, v) == \E i \in 1..k : u[i] < v[i] /\ \A j \in 1..10 : j < i => u[j] = v[j]

\* The members of T that nothing in T precedes by one of the first k numbers.
Best(k, T) == {v \in T : \A u \in T : ~LessWithin(k, u, v)}

\* Those that are best by k - 1 numbers and have the least k-th one are best by k.
LEMMA BestStep ==
    ASSUME NEW T, T \subseteq Measures, NEW k \in 1..10, Best(k - 1, T) # {}
    PROVE  Best(k, T) # {}
<1> DEFINE B == Best(k - 1, T)
<1>1. B \subseteq T
  BY DEF Best
<1>2. \A u \in T : \A i \in 1..10 : u[i] \in Nat
  BY DEF Measures
<1>3. {v[k] : v \in B} \subseteq Nat /\ {v[k] : v \in B} # {}
  BY <1>1, <1>2
<1>4. PICK x \in {v[k] : v \in B} : \A y \in {v[k] : v \in B} : x <= y
  BY <1>3, LeastNatural
<1>5. PICK v \in B : x = v[k]
  BY <1>4
<1>6. \A u \in B : v[k] <= u[k]
  BY <1>4, <1>5
<1>7. ASSUME NEW u \in T, LessWithin(k, u, v) PROVE FALSE
  <2>1. PICK i \in 1..k : u[i] < v[i] /\ \A j \in 1..10 : j < i => u[j] = v[j]
    BY <1>7 DEF LessWithin
  <2>2. CASE i \in 1..(k - 1)
    <3>1. LessWithin(k - 1, u, v)
      BY <2>1, <2>2 DEF LessWithin
    <3> QED
      BY <3>1 DEF Best
  <2>3. CASE i = k
    <3>1. \A j \in 1..(k - 1) : u[j] = v[j]
      BY <2>1, <2>3
    <3>2. ASSUME NEW w \in T, LessWithin(k - 1, w, u) PROVE FALSE
      <4>1. PICK m \in 1..(k - 1) : w[m] < u[m] /\ \A j \in 1..10 : j < m => w[j] = u[j]
        BY <3>2 DEF LessWithin
      <4>2. w[m] < v[m] /\ \A j \in 1..10 : j < m => w[j] = v[j]
        BY <3>1, <4>1
      <4>3. LessWithin(k - 1, w, v)
        BY <4>2 DEF LessWithin
      <4> QED
        BY <4>3 DEF Best
    <3>3. u \in B
      BY <3>2 DEF Best
    <3>4. v[k] <= u[k] /\ u[k] < v[k] /\ u[k] \in Nat /\ v[k] \in Nat
      BY <1>1, <1>2, <1>6, <2>1, <2>3, <3>3
    <3> QED
      BY <3>4
  <2> QED
    BY <2>2, <2>3
<1>8. v \in Best(k, T)
  BY <1>1, <1>7 DEF Best
<1> QED
  BY <1>8

\* Some member of a non-empty set of measures is preceded by none.
LEMMA LessHasMinimum ==
    ASSUME NEW T, T \subseteq Measures, T # {}
    PROVE  \E v \in T : \A u \in T : ~Less(u, v)
<1> DEFINE Failed == {k \in 0..10 : Best(k, T) = {}}
<1>1. Failed = {}
  <2> SUFFICES ASSUME Failed # {} PROVE FALSE
    OBVIOUS
  <2>1. PICK k \in Failed : \A m \in Failed : k <= m
    <3>1. Failed \subseteq Nat
      OBVIOUS
    <3> HIDE DEF Failed
    <3> QED
      BY <3>1, LeastNatural
  <2>2. k # 0
    <3>1. Best(0, T) = T
      BY DEF Best, LessWithin
    <3> QED
      BY <3>1
  <2>3. k \in 1..10 /\ k - 1 \in 0..10 /\ k - 1 \notin Failed
    BY <2>1, <2>2
  <2>4. Best(k - 1, T) # {}
    BY <2>3
  <2>5. Best(k, T) # {}
    BY <2>3, <2>4, BestStep
  <2> QED
    BY <2>5
<1>2. PICK v : v \in Best(10, T)
  BY <1>1
<1>3. v \in T /\ \A u \in T : ~LessWithin(10, u, v)
  BY <1>2 DEF Best
<1> QED
  BY <1>3 DEF LessWithin, Less

\* orchestrator.go:224: no sequence of measures goes down for ever, so the steps that
\* EveryPassGetsDone counts run out: a pass cannot go round in circles, whatever GitHub,
\* the runners and the operator do while it lasts.
THEOREM NoPassIsEndless ==
    ASSUME NEW f \in [Nat -> Measures]
    PROVE  ~ \A i \in Nat : Less(f[i + 1], f[i])
<1> SUFFICES ASSUME \A i \in Nat : Less(f[i + 1], f[i]) PROVE FALSE
  OBVIOUS
<1> DEFINE T == {f[i] : i \in Nat}
<1>1. T \subseteq Measures /\ T # {}
  OBVIOUS
<1>2. PICK v \in T : \A u \in T : ~Less(u, v)
  <2> HIDE DEF T
  <2> QED
    BY <1>1, LessHasMinimum
<1>3. PICK i \in Nat : v = f[i]
  BY <1>2
<1>4. f[i + 1] \in T
  BY <1>3
<1> QED
  BY <1>2, <1>3, <1>4

LEMMA TenNaturals ==
    ASSUME NEW a \in Nat, NEW b \in Nat, NEW c \in Nat, NEW d \in Nat, NEW e \in Nat,
           NEW f \in Nat, NEW g \in Nat, NEW h \in Nat, NEW i \in Nat, NEW j \in Nat
    PROVE  <<a, b, c, d, e, f, g, h, i, j>> \in Measures
BY DEF Measures

\* The numbers of ToDo are natural, so that its descent is one of measures.
THEOREM ToDoIsAMeasure == Spec => [](ToDo \in Measures)
<1>1. ASSUME TypeOK, FiniteQueue PROVE ToDo \in Measures
  <2>0. /\ victims \subseteq Names /\ target \subseteq Names /\ orphans \subseteq Names
        /\ \A stage : At(stage) \subseteq Names
    BY <1>1 DEF TypeOK, At
  <2>1. /\ IsFiniteSet(unplaced) /\ IsFiniteSet(victims) /\ IsFiniteSet(target)
        /\ IsFiniteSet(orphans) /\ \A stage : IsFiniteSet(At(stage))
    BY <1>1, <2>0, ReconcileAssumption, FS_Subset DEF FiniteQueue
  <2>2. /\ Cardinality(unplaced) \in Nat /\ Cardinality(victims) \in Nat
        /\ Cardinality(target) \in Nat /\ Cardinality(orphans) \in Nat
        /\ Cardinality(At("creating")) \in Nat /\ Cardinality(At("starting")) \in Nat
        /\ Cardinality(At("cleanup")) \in Nat
    BY <2>1, FS_CardinalityType
  <2>3. Turns \in Nat
    BY DEF Turns
  <2>4. Len(Pools) - visited \in Nat /\ Len(toLaunch) \in Nat
    BY <1>1, PoolsAreDistinct DEF TypeOK
  <2> QED
    BY <2>2, <2>3, <2>4, TenNaturals DEF ToDo
<1>2. Init => FiniteQueue
  BY FS_EmptySet DEF Init, FiniteQueue
<1> QED
  BY <1>1, <1>2, FiniteStep, TypeCorrect, PTL DEF Spec

-----------------------------------------------------------------------------
(***************************************************************************)
(* What a decision provides for                                            *)
(***************************************************************************)
\* What is desired is the warm floor and a runner for each busy one and each job, or max.
LEMMA DesiredIsEnough ==
    ASSUME NEW st \in PoolState, NEW d \in Nat, NEW l \in Limits, l.min <= l.max
    PROVE  /\ Desired(st, d, l) >= l.min
           /\ Desired(st, d, l) >= st.busy + d \/ Desired(st, d, l) >= l.max
BY DEF Desired, PoolState, Limits

LEMMA LimitsNowInOrder ==
    ASSUME TypeOK, NEW p \in PoolSet
    PROVE  LimitsNow(p) \in Limits /\ LimitsNow(p).min <= LimitsNow(p).max
<1>1. limits[p] \in Limits
  BY DEF TypeOK
<1>2. EffectiveLimits(limits[p]).min <= EffectiveLimits(limits[p]).max
  BY <1>1, EffectiveLimitsInOrder
<1>3. [min |-> 0, max |-> 0].min <= [min |-> 0, max |-> 0].max
  OBVIOUS
<1> QED
  BY <1>2, <1>3, LimitsNowType DEF LimitsNow

\* With a place to register each of them, as many launches are made as were decided on.
LEMMA LaunchReposAll ==
    ASSUME NEW c \in Nat, NEW jobs, ~RepoLevel \/ jobs # <<>>
    PROVE  Len(LaunchRepos(c, jobs)) = c
BY DEF LaunchRepos

\* Only a decision takes a pool without a failing call.
LEMMA TakesByDecision ==
    ASSUME TypeOK, [Next]_vars, Applying, visited' = visited + 1, faults' = faults
    PROVE  ScaleUp \/ ScaleDown \/ AtTarget
<1>0. /\ visited \in Nat /\ faults \in Nat /\ phase = "applying"
      /\ visited' # visited /\ visited' # 0 /\ faults' # faults + 1
  BY PoolsAreDistinct DEF TypeOK, Applying
<1>1. CASE LoopStep
  <2>1. \A S : ~BeginPass(S)
    BY <1>0 DEF BeginPass
  <2>2. ~ListRunners /\ ~ListInstances /\ ~PollJobs
    BY <1>0 DEF ListRunners, ListInstances, PollJobs, Reaped
  <2>3. ~AssignNextJob /\ ~EndPass
    BY <1>0 DEF AssignNextJob, EndPass, Rest
  <2>4. ASSUME NEW n \in Names,
               \/ RemoveOrphan(n) \/ DeregisterVictim(n) \/ VictimIsBusy(n)
               \/ VictimUnregistered(n) \/ DestroyInstance(n)
               \/ RegisterRunner(n) \/ CreateInstance(n) \/ StartInstance(n) \/ CleanUp(n)
        PROVE  FALSE
    BY <1>0, <2>4 DEF RemoveOrphan, DeregisterVictim, VictimIsBusy, VictimUnregistered,
                TakeVictim, DestroyInstance, RegisterRunner, TakeLaunch, CreateInstance,
                StartInstance, CleanUp, pass
  <2> QED
    BY <1>1, <2>1, <2>2, <2>3, <2>4 DEF LoopStep
<1>2. CASE LoopFault
  <2>1. ASSUME \/ SitOut \/ ListRunnersFails \/ ListInstancesFails
               \/ PollJobsPartially \/ PollJobsFails \/ ScaleUpFails \/ RegisterFails \/ Crash
        PROVE  FALSE
    BY <1>0, <2>1 DEF SitOut, ListRunnersFails, ListInstancesFails, PollJobsPartially,
                PollJobsFails, ScaleUpFails, RegisterFails, Crash, Fault
  <2>2. ASSUME NEW n \in Names,
               \/ RemoveOrphanFails(n) \/ DeregisterVictimFails(n) \/ DestroyInstanceFails(n)
               \/ RegisterAnswerLost(n) \/ CreateFails(n) \/ CleanUpFails(n)
        PROVE  FALSE
    BY <1>0, <2>2 DEF RemoveOrphanFails, DeregisterVictimFails, TakeVictim,
                DestroyInstanceFails, RegisterAnswerLost, TakeLaunch, CreateFails,
                CleanUpFails, Fault, pass
  <2> QED
    BY <1>2, <2>1, <2>2 DEF LoopFault
<1>3. CASE Housekeep
  BY <1>0, <1>3 DEF Housekeep, pass
<1>4. CASE World
  <2>1. ASSUME NEW j \in Jobs, JobArrives(j) \/ JobCancelled(j) \/ \E n \in Names : JobStarts(n, j)
        PROVE  visited' = visited
    BY <2>1 DEF JobArrives, JobCancelled, JobStarts, pass
  <2>2. ASSUME NEW n \in Names,
               \/ JobCompletes(n) \/ RunnerConnects(n) \/ RunnerDisconnects(n)
               \/ RunnerExits(n) \/ RunnerDies(n) \/ RunnerLost(n) \/ TurnsOverdue(n)
        PROVE  visited' = visited
    BY <2>2 DEF JobCompletes, RunnerConnects, RunnerDisconnects, RunnerExits, RunnerDies,
                RunnerLost, TurnsOverdue, pass
  <2> QED
    BY <1>0, <1>4, <2>1, <2>2 DEF World
<1>5. CASE Operator
  BY <1>0, <1>5 DEF Operator, SetLimits, SetDrained, pass
<1>6. CASE UNCHANGED vars
  BY <1>0, <1>6 DEF vars, pass
<1> QED
  BY <1>1, <1>2, <1>3, <1>4, <1>5, <1>6 DEF Next

\* Each decision keeps what is desired of the pool, or all it has where it may not launch.
LEMMA DecisionKeepsEnough ==
    ASSUME TypeOK, ScaleUp \/ ScaleDown \/ AtTarget, NEW p, p = NextPool
    PROVE  /\ p \in PoolSet
           /\ Kept(p)' \in Nat
           /\ \/ Kept(p)' >= Desired(Observed(p), DemandNow(p), LimitsNow(p))
              \/ RepoLevel /\ demand.jobs[p] = <<>> /\ Kept(p)' >= Observed(p).live
<1> DEFINE want == Desired(Observed(p), DemandNow(p), LimitsNow(p))
<1>1. TakePool
  BY DEF ScaleUp, ScaleDown, AtTarget
<1>2. p \in PoolSet
  BY <1>1, NextPoolType, PoolsAreDistinct DEF TakePool, NextPool, TypeOK
<1>3. victims = {} /\ toLaunch = <<>> /\ live' = live
  BY <1>1 DEF TakePool, Applying, PoolDone, LaunchesDone
<1>4. /\ Observed(p) \in PoolState /\ DemandNow(p) \in Nat /\ LimitsNow(p) \in Limits
      /\ want \in Nat
  <2>1. DemandNow(p) \in Nat
    BY <1>2 DEF DemandNow, TypeOK
  <2>2. Observed(p) \in PoolState /\ LimitsNow(p) \in Limits
    BY <1>2, ObservedType, LimitsNowType
  <2> QED
    BY <2>1, <2>2, DesiredType
<1>5. /\ Observed(p).live = Cardinality(live[p]) /\ Observed(p).idle = Cardinality(ObservedIdle(p))
      /\ Observed(p).live \in Nat /\ Observed(p).idle \in Nat
  BY <1>4 DEF Observed, PoolState
<1>6. Kept(p)' = Cardinality(live[p] \ victims') + Len(toLaunch')
  BY <1>3 DEF Kept
<1>7. CASE ScaleUp
  <2>1. /\ victims' = {} /\ toLaunch' = LaunchRepos(ToCreate(p), demand.jobs[p])
        /\ ToCreate(p) > 0
    BY <1>3, <1>7 DEF ScaleUp
  <2>2. live[p] \ victims' = live[p]
    BY <2>1
  <2>3. ToCreate(p) \in Nat /\ Len(toLaunch') \in Nat
    BY <1>2, <2>1, DecisionType, LaunchReposLength
  <2>4. ToCreate(p) = want - Observed(p).live
    BY <1>4, <1>5, <2>1 DEF ToCreate, Create
  <2>5. Kept(p)' = Observed(p).live + Len(toLaunch')
    BY <1>5, <1>6, <2>2
  <2>6. CASE ~RepoLevel \/ demand.jobs[p] # <<>>
    <3>1. Len(toLaunch') = ToCreate(p)
      BY <2>1, <2>3, <2>6, LaunchReposAll
    <3> QED
      BY <1>2, <1>4, <1>5, <2>4, <2>5, <3>1
  <2>7. CASE RepoLevel /\ demand.jobs[p] = <<>>
    BY <1>2, <1>5, <2>3, <2>5, <2>7
  <2> QED
    BY <2>6, <2>7
<1>8. CASE ScaleDown
  <2>1. /\ victims' \subseteq ObservedIdle(p) /\ toLaunch' = <<>>
        /\ ToCull(p) > 0
    BY <1>3, <1>8 DEF ScaleDown
  <2>2. Cardinality(victims') <= ToCull(p)
    <3> DEFINE eligible == {n \in ObservedIdle(p) : idle[n] \in {"ripe", "stale"}}
    <3>1. Cardinality(victims') = IF Cardinality(eligible) > ToCull(p)
                                  THEN ToCull(p) ELSE Cardinality(eligible)
      BY <1>8 DEF ScaleDown
    <3>2. Cardinality(eligible) \in Nat /\ ToCull(p) \in Nat
      BY <1>2, LiveIsFinite, DecisionType DEF ObservedIdle
    <3> HIDE DEF eligible
    <3> QED
      BY <3>1, <3>2
  <2>3. /\ IsFiniteSet(live[p]) /\ victims' \subseteq live[p]
        /\ Cardinality(victims') \in Nat /\ ToCull(p) \in Nat
    BY <1>2, <2>1, LiveIsFinite, DecisionType DEF ObservedIdle
  <2>4. Cardinality(live[p] \ victims') = Cardinality(live[p]) - Cardinality(victims')
    <3>1. Cardinality(live[p] \ victims') = Cardinality(live[p]) - Cardinality(live[p] \cap victims')
      BY <2>3, FS_Difference
    <3>2. live[p] \cap victims' = victims'
      BY <2>3
    <3> QED
      BY <3>1, <3>2
  <2>5. Observed(p).live - ToCull(p) >= want
    BY <1>4, <2>1, PlanIsSafe DEF ToCull
  <2>6. Len(toLaunch') = 0
    BY <2>1
  <2> QED
    BY <1>2, <1>4, <1>5, <1>6, <2>2, <2>3, <2>4, <2>5, <2>6
<1>9. CASE AtTarget
  <2>1. victims' = {} /\ toLaunch' = <<>> /\ ToCreate(p) = 0
    BY <1>3, <1>9 DEF AtTarget
  <2>2. live[p] \ victims' = live[p]
    BY <2>1
  <2>3. Observed(p).live >= want
    BY <1>4, <1>5, <2>1 DEF ToCreate, Create
  <2>4. Kept(p)' = Observed(p).live
    <3>1. Len(toLaunch') = 0
      BY <2>1
    <3>2. Cardinality(live[p] \ victims') = Observed(p).live
      BY <1>5, <2>2
    <3> QED
      BY <1>5, <1>6, <3>1, <3>2
  <2> QED
    BY <1>2, <1>4, <1>5, <2>3, <2>4
<1> QED
  BY <1>7, <1>8, <1>9

\* A pass that takes up a pool leaves enough: what it spares and what it is about to launch
\* make up the floor and a runner for every job charged to the pool beside the busy ones,
\* or the max in force, however limits and drain changed since the demand was assigned.
THEOREM PlansAreEnough == Spec => PlansMeetTheDemand
<1>1. ASSUME TypeOK, [Next]_vars, Applying, visited' = visited + 1, faults' = faults,
             NEW p \in {NextPool}
      PROVE  /\ \/ Kept(p)' >= LimitsNow(p).min
                \/ RepoLevel /\ demand.jobs[p] = <<>>
             /\ \/ Kept(p)' >= Observed(p).busy + DemandNow(p)
                \/ Kept(p)' >= LimitsNow(p).max
  <2> DEFINE want == Desired(Observed(p), DemandNow(p), LimitsNow(p))
  <2>1. /\ p \in PoolSet
        /\ Kept(p)' \in Nat
        /\ Kept(p)' >= want \/ (RepoLevel /\ demand.jobs[p] = <<>> /\ Kept(p)' >= Observed(p).live)
    <3>1. ScaleUp \/ ScaleDown \/ AtTarget
      BY <1>1, TakesByDecision
    <3> QED
      BY <1>1, <3>1, DecisionKeepsEnough
  <2>2. /\ Observed(p) \in PoolState /\ DemandNow(p) \in Nat /\ LimitsNow(p) \in Limits
        /\ LimitsNow(p).min <= LimitsNow(p).max
    BY <1>1, <2>1, ObservedType, LimitsNowInOrder DEF DemandNow, TypeOK
  <2>3. /\ want \in Nat
        /\ want >= LimitsNow(p).min
        /\ want >= Observed(p).busy + DemandNow(p) \/ want >= LimitsNow(p).max
    BY <2>2, DesiredType, DesiredIsEnough
  <2>4. /\ Observed(p).busy \in Nat /\ Observed(p).live \in Nat
        /\ LimitsNow(p).min \in Nat /\ LimitsNow(p).max \in Nat
    BY <2>2 DEF PoolState, Limits
  <2>5. CASE Kept(p)' >= want
    BY <2>1, <2>2, <2>3, <2>4, <2>5
  <2>6. CASE RepoLevel /\ demand.jobs[p] = <<>> /\ Kept(p)' >= Observed(p).live
    <3>1. DemandNow(p) = 0
      BY <2>6 DEF DemandNow
    <3>2. Observed(p).busy <= Observed(p).live
      <4>1. IsFiniteSet(live[p])
        BY <1>1, <2>1, LiveIsFinite
      <4>2. {n \in live[p] : byName[n] = "busy"} \subseteq live[p]
        OBVIOUS
      <4>3. Cardinality({n \in live[p] : byName[n] = "busy"}) <= Cardinality(live[p])
        BY <4>1, <4>2, FS_Subset
      <4> QED
        BY <4>3 DEF Observed
    <3> QED
      BY <2>1, <2>4, <2>6, <3>1, <3>2
  <2> QED
    BY <2>1, <2>5, <2>6
<1>2. TypeOK /\ [Next]_vars
        => (Applying /\ visited' = visited + 1 /\ faults' = faults =>
              \A p \in {NextPool} :
                 /\ \/ Kept(p)' >= LimitsNow(p).min
                    \/ RepoLevel /\ demand.jobs[p] = <<>>
                 /\ \/ Kept(p)' >= Observed(p).busy + DemandNow(p)
                    \/ Kept(p)' >= LimitsNow(p).max)
  BY <1>1
<1> QED
  BY <1>2, TypeCorrect, PTL DEF Spec, PlansMeetTheDemand
=============================================================================
