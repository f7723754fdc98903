------------------------------ MODULE Reconcile ------------------------------
(***************************************************************************)
(* One arc host: the reconcile loop of internal/orchestrator, step by step *)
(* between the calls it makes, together with everything it talks to --     *)
(* GitHub (runner registrations and queued jobs), the providers (runner    *)
(* instances on the machine), and the operator (scale, drain).             *)
(*                                                                         *)
(* The loop is one goroutine, so its own steps are sequential; between any *)
(* two of them GitHub, the runner processes and the operator move freely,  *)
(* which is what makes every listing it acts on potentially stale.  Only   *)
(* the launches of scaleUp run concurrently with each other.               *)
(*                                                                         *)
(* A runner is known by its name everywhere: to GitHub, to the provider and*)
(* in the loop's maps.  Names are random, so Names is a finite stock whose *)
(* members are minted only when nothing in the system refers to them any   *)
(* more.  No runner of another host is registered here (discountForeignIdle*)
(* then returns early); that function is checked in module Assign.         *)
(***************************************************************************)
EXTENDS Scale

CONSTANTS
    Names,            \* runner names that can be minted
    PoolOf,           \* name -> the pool belongsToPool reads off it
    NoJob,
    RepoLevel,        \* TRUE in personal-account mode: one registration per repo
    UnknownPools,     \* pools whose provider lists a half-created instance as
                      \* unknown (process); the others list it as starting (docker)
    InitLimits,       \* pool -> configured min and max
    LimitChoices,     \* what `arc scale` may set a pool to, or reset it to
    DrainablePools,   \* pools the operator may drain and resume
    MaxCreateConcurrency,
    FaultKinds,       \* which faults this instance injects
    MaxFaults         \* and how many of them a behaviour may have

RegState  == {"none", "offline", "idle", "busy"}
InstState == {"none", "created", "running", "exited"}
Phases    == {"asleep", "listing", "reaping", "applying"}
Clocks    == {"unset", "fresh", "ripe", "stale"}
LaunchState == {"none", "creating", "starting", "cleanup"}

ASSUME ReconcileAssumption ==
    /\ PoolOf \in [Names -> PoolSet]
    /\ NoJob \notin Jobs
    /\ NoRepo \notin Repos
    /\ JobRepo \in [Jobs -> Repos]
    /\ IsFiniteSet(Names)
    /\ RepoLevel \in BOOLEAN
    /\ UnknownPools \subseteq PoolSet
    /\ InitLimits \in [PoolSet -> Limits]
    /\ LimitChoices \subseteq Limits
    /\ DrainablePools \subseteq PoolSet
    /\ MaxCreateConcurrency \in Nat \ {0}
    /\ MaxFaults \in Nat

VARIABLES
    \* GitHub
    reg,        \* name -> its registration, as GitHub would list it
    regRepo,    \* name -> the repository it is registered on
    job,        \* name -> the job its runner is executing, or NoJob
    queue,      \* jobs waiting for a runner
    \* the providers
    inst,       \* name -> the instance behind it
    overdue,    \* names whose instance is older than job_timeout
    \* the operator
    limits,     \* pool -> limits after overrides (persisted)
    drained,    \* drained pools (in memory)
    \* the loop
    phase,
    byName,     \* the registrations as ListRunners returned them this pass
    visited,    \* how many pools this phase of the pass has taken up
    live,       \* pool -> names reap left standing
    victims,    \* instances still to be destroyed for the current pool
    orphans,    \* registrations still to be removed for the current pool
    target,     \* instances deregistered and about to be destroyed (at most one)
    unplaced,   \* the polled jobs AssignDemand has not looked at yet
    demand,     \* AssignDemand's accumulator
    toLaunch,   \* repositories of the runners scaleUp has not started launching
    launch,     \* name -> where its launchOne goroutine is
    idle,       \* name -> its idleSince clock
    faults      \* faults injected so far

github   == <<reg, regRepo, job, queue>>
host     == <<inst, overdue>>
operator == <<limits, drained>>
pass     == <<phase, byName, visited, live, victims, orphans, target, unplaced, demand>>
launches == <<toLaunch, launch>>
vars     == <<github, host, operator, pass, launches, idle, faults>>

NoDemands == NoDemand([p \in PoolSet |-> 0])

Init ==
    /\ reg = [n \in Names |-> "none"]
    /\ regRepo = [n \in Names |-> NoRepo]
    /\ job = [n \in Names |-> NoJob]
    /\ queue = {}
    /\ inst = [n \in Names |-> "none"]
    /\ overdue = {}
    /\ limits = InitLimits
    /\ drained = {}
    /\ phase = "asleep"
    /\ byName = [n \in Names |-> "none"]
    /\ visited = 0
    /\ live = [p \in PoolSet |-> {}]
    /\ victims = {}
    /\ orphans = {}
    /\ target = {}
    /\ unplaced = {}
    /\ demand = NoDemands
    /\ toLaunch = <<>>
    /\ launch = [n \in Names |-> "none"]
    /\ idle = [n \in Names |-> "unset"]
    /\ faults = 0

Fault(kind) ==
    /\ kind \in FaultKinds
    /\ faults < MaxFaults
    /\ faults' = faults + 1

NoFault == faults' = faults

PoolNames(p) == {n \in Names : PoolOf[n] = p}

\* Nothing is left to be done for the pool the pass is at.
PoolDone == victims = {} /\ orphans = {} /\ target = {}

LaunchesDone == toLaunch = <<>> /\ \A n \in Names : launch[n] = "none"

\* The locals of reconcileOnce go out of scope.
Rest ==
    /\ phase' = "asleep"
    /\ byName' = [n \in Names |-> "none"]
    /\ visited' = 0
    /\ live' = [p \in PoolSet |-> {}]
    /\ victims' = {}
    /\ orphans' = {}
    /\ target' = {}
    /\ unplaced' = {}
    /\ demand' = NoDemands

(***************************************************************************)
(* RemoveRunner as GitHub answers it: refused while the runner executes a  *)
(* job, otherwise the registration is gone, whether or not it was there.   *)
(***************************************************************************)
Unregister(n) ==
    /\ reg' = [reg EXCEPT ![n] = "none"]
    /\ regRepo' = [regRepo EXCEPT ![n] = NoRepo]

RemoveRunner(n) ==
    IF reg[n] = "busy" THEN UNCHANGED <<reg, regRepo>> ELSE Unregister(n)

\* The call fails on the way there, or on the way back after it took effect.
RemoveRunnerFails(n) ==
    /\ Fault("removeRunner")
    /\ \/ UNCHANGED <<reg, regRepo>>
       \/ reg[n] # "busy" /\ Unregister(n)

-----------------------------------------------------------------------------
(***************************************************************************)
(* The start of a pass                                                     *)
(***************************************************************************)

\* A tick or a poke.  Time is seen only by scaleDown and housekeep, so the idle
\* clocks are advanced here: those in S have passed their next threshold
\* (idle_timeout, then 24h) since the previous pass.
BeginPass(S) ==
    /\ phase = "asleep"
    /\ phase' = "listing"
    /\ idle' = [n \in Names |-> CASE n \in S /\ idle[n] = "fresh" -> "ripe"
                                  [] n \in S /\ idle[n] = "ripe"  -> "stale"
                                  [] OTHER -> idle[n]]
    /\ NoFault
    /\ UNCHANGED <<github, host, operator, byName, visited, live, victims, orphans,
                   target, unplaced, demand, launches>>

\* The circuit breaker: the rate limit is nearly exhausted.  (recordFailure only
\* touches the snapshot that is served to the outside.)
SitOut ==
    /\ phase = "asleep"
    /\ Fault("rateLimit")
    /\ UNCHANGED <<github, host, operator, pass, launches, idle>>

\* All the registrations of an organization.  With RepoLevel the code asks in the
\* repositories that it polls, which here are those of the jobs and do not change.
ListRunners ==
    /\ phase = "listing"
    /\ phase' = "reaping"
    /\ byName' = reg
    /\ NoFault
    /\ UNCHANGED <<github, host, operator, visited, live, victims, orphans, target,
                   unplaced, demand, launches, idle>>

\* pollableRepos with nothing cached, or ListRunners, fails.
ListRunnersFails ==
    /\ phase = "listing"
    /\ Fault("listRunners")
    /\ Rest
    /\ UNCHANGED <<github, host, operator, launches, idle>>

-----------------------------------------------------------------------------
(***************************************************************************)
(* reap                                                                    *)
(***************************************************************************)

\* Exited or Unknown, as the pool's provider reports it.
Finished(n) ==
    \/ inst[n] = "exited"
    \/ inst[n] = "created" /\ PoolOf[n] \in UnknownPools

Instances(p) == {n \in PoolNames(p) : inst[n] # "none"}

BugNeverOverdue(p) == {n \in Instances(p) : Finished(n)}

\* What reap does not let live.
Dead(p) == {n \in Instances(p) : Finished(n) \/ n \in overdue}

BugOnlyOnline(p) == {n \in PoolNames(p) \ Instances(p) : byName[n] = "idle"}

BugHaveOnlyLive(p) ==
    {n \in PoolNames(p) \ (Instances(p) \ Dead(p)) : byName[n] \in {"offline", "idle"}}

\* Registrations of the pool's names, not busy, with no instance listed behind them.
OrphansOf(p) == {n \in PoolNames(p) \ Instances(p) : byName[n] \in {"offline", "idle"}}

\* The provider lists the next pool's instances; reap splits them, and picks the
\* registrations with no instance behind them.
ListInstances ==
    /\ phase = "reaping" /\ PoolDone /\ visited < Len(Pools)
    /\ LET p == Pools[visited + 1]
       IN  /\ victims' = Dead(p)
           /\ live' = [live EXCEPT ![p] = Instances(p) \ Dead(p)]
           /\ orphans' = OrphansOf(p)
    /\ visited' = visited + 1
    /\ NoFault
    /\ UNCHANGED <<github, host, operator, phase, byName, target, unplaced, demand,
                   launches, idle>>

\* The pool is left out of the reaping; it is still applied, with nothing live.
ListInstancesFails ==
    /\ phase = "reaping" /\ PoolDone /\ visited < Len(Pools)
    /\ Fault("listInstances")
    /\ visited' = visited + 1
    /\ UNCHANGED <<github, host, operator, phase, byName, live, victims, orphans,
                   target, unplaced, demand, launches, idle>>

RemoveOrphan(n) ==
    /\ victims = {} /\ target = {}
    /\ n \in orphans
    /\ orphans' = orphans \ {n}
    /\ RemoveRunner(n)
    /\ NoFault
    /\ UNCHANGED <<job, queue, host, operator, phase, byName, visited, live, victims,
                   target, unplaced, demand, launches, idle>>

RemoveOrphanFails(n) ==
    /\ victims = {} /\ target = {}
    /\ n \in orphans
    /\ orphans' = orphans \ {n}
    /\ RemoveRunnerFails(n)
    /\ UNCHANGED <<job, queue, host, operator, phase, byName, visited, live, victims,
                   target, unplaced, demand, launches, idle>>

-----------------------------------------------------------------------------
(***************************************************************************)
(* destroyInstance, for the victims of reap and of scaleDown: the          *)
(* registration first, then the instance.                                  *)
(***************************************************************************)

\* The call to GitHub that takes n from the victims, and what it leaves alone.
TakeVictim(n) ==
    /\ target = {}
    /\ n \in victims
    /\ victims' = victims \ {n}
    /\ UNCHANGED <<job, queue, host, operator, phase, byName, visited, live, orphans,
                   unplaced, demand, launches, idle>>

DeregisterVictim(n) ==
    /\ TakeVictim(n)
    /\ byName[n] # "none"
    /\ reg[n] # "busy"
    /\ RemoveRunner(n)
    /\ target' = {n}
    /\ NoFault

BugBusyIsJustAnError(n) ==
    /\ TakeVictim(n)
    /\ byName[n] # "none"
    /\ reg[n] = "busy"
    /\ RemoveRunner(n)
    /\ target' = {n}
    /\ NoFault

\* ErrRunnerBusy: it picked up a job, leave it alone.
VictimIsBusy(n) ==
    /\ TakeVictim(n)
    /\ byName[n] # "none"
    /\ reg[n] = "busy"
    /\ RemoveRunner(n)
    /\ NoFault
    /\ UNCHANGED target

\* Any other error: destroyed anyway.
DeregisterVictimFails(n) ==
    /\ TakeVictim(n)
    /\ byName[n] # "none"
    /\ RemoveRunnerFails(n)
    /\ target' = {n}

\* Not registered when the pass began, so GitHub is not asked.
VictimUnregistered(n) ==
    /\ TakeVictim(n)
    /\ byName[n] = "none"
    /\ target' = {n}
    /\ NoFault
    /\ UNCHANGED <<reg, regRepo>>

DestroyInstance(n) ==
    /\ n \in target
    /\ target' = {}
    /\ inst' = [inst EXCEPT ![n] = "none"]
    /\ overdue' = overdue \ {n}
    /\ idle' = [idle EXCEPT ![n] = "unset"]
    /\ NoFault
    /\ UNCHANGED <<github, operator, phase, byName, visited, live, victims, orphans,
                   unplaced, demand, launches>>

DestroyInstanceFails(n) ==
    /\ n \in target
    /\ Fault("destroy")
    /\ target' = {}
    /\ UNCHANGED <<github, host, operator, phase, byName, visited, live, victims,
                   orphans, unplaced, demand, launches, idle>>

-----------------------------------------------------------------------------
(***************************************************************************)
(* PollJobs and AssignDemand                                               *)
(***************************************************************************)
Reaped == phase = "reaping" /\ PoolDone /\ visited = Len(Pools)

\* The queued jobs polled are those of seen; the headroom is taken from the instances
\* reap left and the limits of this moment.
StartAssigning(seen) ==
    /\ phase' = "applying"
    /\ visited' = 0
    /\ unplaced' = seen
    /\ demand' = NoDemand(Headroom([p \in PoolSet |-> Cardinality(live[p])],
                                   [p \in PoolSet |-> EffectiveLimits(limits[p])]))
    /\ UNCHANGED <<github, host, operator, byName, live, victims, orphans, target,
                   launches, idle>>

PollJobs ==
    /\ Reaped
    /\ StartAssigning(queue)
    /\ NoFault

\* PartialError: some repositories could not be polled, the others stand.
PollJobsPartially ==
    /\ Reaped
    /\ Fault("pollPartial")
    /\ \E broken \in SUBSET Repos \ {{}, Repos} :
          StartAssigning({j \in queue : JobRepo[j] \notin broken})

PollJobsFails ==
    /\ Reaped
    /\ Fault("pollJobs")
    /\ Rest
    /\ UNCHANGED <<github, host, operator, launches, idle>>

AssignNextJob ==
    /\ phase = "applying"
    /\ \E j \in unplaced :
          /\ IsFirst(j, unplaced)
          /\ demand' = AssignJob(demand, j)
          /\ unplaced' = unplaced \ {j}
    /\ NoFault
    /\ UNCHANGED <<github, host, operator, phase, byName, visited, live, victims,
                   orphans, target, launches, idle>>

-----------------------------------------------------------------------------
(***************************************************************************)
(* applyPool                                                               *)
(***************************************************************************)
Applying == phase = "applying" /\ unplaced = {} /\ PoolDone /\ LaunchesDone

NextPool == Pools[visited + 1]

ObservedIdle(p) == {n \in live[p] : byName[n] = "idle"}

BugStartingNotLive(p) ==
    LET up == {n \in live[p] : byName[n] \in {"idle", "busy"}}
    IN  [live |-> Cardinality(up), starting |-> 0,
         busy |-> Cardinality(up \ ObservedIdle(p)), idle |-> Cardinality(ObservedIdle(p))]

Observed(p) ==
    [live     |-> Cardinality(live[p]),
     busy     |-> Cardinality({n \in live[p] : byName[n] = "busy"}),
     idle     |-> Cardinality(ObservedIdle(p)),
     starting |-> Cardinality({n \in live[p] : byName[n] \in {"none", "offline"}})]

BugDrainIgnored(p) == EffectiveLimits(limits[p])

\* Limits and drain state are read again here, after the demand was assigned.
LimitsNow(p) ==
    IF p \in drained THEN [min |-> 0, max |-> 0] ELSE EffectiveLimits(limits[p])

DemandNow(p) == IF p \in drained THEN 0 ELSE Len(demand.jobs[p])

BugOneRunnerPerJob(p) == DemandNow(p)

ToCreate(p) == Create(Observed(p), DemandNow(p), LimitsNow(p))
ToCull(p)   == Cull(Observed(p), DemandNow(p), LimitsNow(p))

\* The repository each of c new runners registers on: the i-th takes the i-th
\* assigned job's, the surplus the last one's, and with no job at all there is
\* none to launch.  On an organisation there is only one place to register.
LaunchRepos(c, jobs) ==
    IF ~RepoLevel THEN [i \in 1..c |-> NoRepo]
    ELSE IF jobs = <<>> THEN <<>>
    ELSE [i \in 1..c |-> JobRepo[jobs[IF i < Len(jobs) THEN i ELSE Len(jobs)]]]

TakePool ==
    /\ Applying /\ visited < Len(Pools)
    /\ visited' = visited + 1
    /\ UNCHANGED <<github, host, operator, phase, byName, live, orphans, target,
                   unplaced, demand, launch>>

ScaleUp ==
    /\ TakePool
    /\ ToCreate(NextPool) > 0 /\ NextPool \notin drained
    /\ toLaunch' = LaunchRepos(ToCreate(NextPool), demand.jobs[NextPool])
    /\ NoFault
    /\ UNCHANGED <<victims, idle>>

\* RunnerGroupID fails.
ScaleUpFails ==
    /\ TakePool
    /\ ToCreate(NextPool) > 0 /\ NextPool \notin drained
    /\ Fault("runnerGroup")
    /\ UNCHANGED <<toLaunch, victims, idle>>

\* Start or forget the idle clocks of the pool's runners; those that ran out
\* are destroyed, at most as many as the surplus.
ScaleDown ==
    /\ TakePool
    /\ ToCull(NextPool) > 0
    /\ LET p        == NextPool
           eligible == {n \in ObservedIdle(p) : idle[n] \in {"ripe", "stale"}}
       IN  /\ idle' = [n \in Names |->
                         IF n \in live[p] \ ObservedIdle(p) THEN "unset"
                         ELSE IF n \in ObservedIdle(p) /\ idle[n] = "unset" THEN "fresh"
                         ELSE idle[n]]
           /\ \E S \in SUBSET eligible :
                 /\ Cardinality(S) = IF Cardinality(eligible) > ToCull(p)
                                     THEN ToCull(p) ELSE Cardinality(eligible)
                 /\ victims' = S
    /\ NoFault
    /\ UNCHANGED toLaunch

AtTarget ==
    /\ TakePool
    /\ ToCreate(NextPool) = 0 /\ ToCull(NextPool) = 0
    /\ NoFault
    /\ UNCHANGED <<toLaunch, victims, idle>>

EndPass ==
    /\ Applying /\ visited = Len(Pools)
    /\ Rest
    /\ NoFault
    /\ UNCHANGED <<github, host, operator, launches, idle>>

-----------------------------------------------------------------------------
(***************************************************************************)
(* scaleUp's goroutines, each running launchOne                            *)
(***************************************************************************)
\* Nothing of an earlier runner of that name is left outside the loop.
Unused(n) ==
    reg[n] = "none" /\ inst[n] = "none" /\ job[n] = NoJob /\ launch[n] = "none"

InFlight == {n \in Names : launch[n] # "none"}

\* A goroutine takes the semaphore, mints a name and asks for a JIT config.
TakeLaunch ==
    /\ toLaunch # <<>>
    /\ Cardinality(InFlight) < MaxCreateConcurrency
    /\ toLaunch' = Tail(toLaunch)
    /\ UNCHANGED <<job, queue, host, operator, phase, visited, victims, orphans, target,
                   unplaced, demand>>

\* The name is a new one: what the loop's maps still say of an earlier runner under
\* the recycled name is about a name that is never looked up again.
Register(n) ==
    /\ PoolOf[n] = Pools[visited] /\ Unused(n)
    /\ reg' = [reg EXCEPT ![n] = "offline"]
    /\ regRepo' = [regRepo EXCEPT ![n] = Head(toLaunch)]
    /\ byName' = [byName EXCEPT ![n] = "none"]
    /\ live' = [live EXCEPT ![PoolOf[n]] = @ \ {n}]
    /\ idle' = [idle EXCEPT ![n] = "unset"]

RegisterRunner(n) ==
    /\ TakeLaunch
    /\ Register(n)
    /\ launch' = [launch EXCEPT ![n] = "creating"]
    /\ NoFault

RegisterFails ==
    /\ TakeLaunch
    /\ Fault("register")
    /\ UNCHANGED <<reg, regRepo, byName, live, idle, launch>>

\* GitHub registered the runner, the answer never arrived.
RegisterAnswerLost(n) ==
    /\ TakeLaunch
    /\ Fault("registerLost")
    /\ Register(n)
    /\ UNCHANGED launch

\* The provider makes the container or the directory, then starts the runner.
CreateInstance(n) ==
    /\ launch[n] = "creating"
    /\ launch' = [launch EXCEPT ![n] = "starting"]
    /\ inst' = [inst EXCEPT ![n] = "created"]
    /\ NoFault
    /\ UNCHANGED <<github, overdue, operator, pass, toLaunch, idle>>

StartInstance(n) ==
    /\ launch[n] = "starting"
    /\ launch' = [launch EXCEPT ![n] = "none"]
    /\ inst' = [inst EXCEPT ![n] = IF @ = "created" THEN "running" ELSE @]
    /\ NoFault
    /\ UNCHANGED <<github, overdue, operator, pass, toLaunch, idle>>

\* Create fails at either step; the provider removes what it had made.  (What stays where
\* it cannot is a matter of ProcessHost and DockerHost.)
CreateFails(n) ==
    /\ launch[n] \in {"creating", "starting"}
    /\ Fault("create")
    /\ launch' = [launch EXCEPT ![n] = "cleanup"]
    /\ inst' = [inst EXCEPT ![n] = "none"]
    /\ overdue' = overdue \ {n}
    /\ UNCHANGED <<github, operator, pass, toLaunch, idle>>

BugLaunchedAgain(n) ==
    /\ launch[n] = "cleanup"
    /\ launch' = [launch EXCEPT ![n] = "creating"]
    /\ NoFault
    /\ UNCHANGED <<github, host, operator, pass, toLaunch, idle>>

\* The registration nobody will claim is removed.
CleanUp(n) ==
    /\ launch[n] = "cleanup"
    /\ launch' = [launch EXCEPT ![n] = "none"]
    /\ RemoveRunner(n)
    /\ NoFault
    /\ UNCHANGED <<job, queue, host, operator, pass, toLaunch, idle>>

CleanUpFails(n) ==
    /\ launch[n] = "cleanup"
    /\ launch' = [launch EXCEPT ![n] = "none"]
    /\ RemoveRunnerFails(n)
    /\ UNCHANGED <<job, queue, host, operator, pass, toLaunch, idle>>

-----------------------------------------------------------------------------
(***************************************************************************)
(* housekeep, and the end of the process                                   *)
(***************************************************************************)

\* Each provider prunes its debris; clocks that started over 24h ago are dropped,
\* whether or not the instance still exists.
Housekeep ==
    /\ phase = "asleep"
    /\ \E pruned \in IF "prune" \in FaultKinds THEN SUBSET PoolSet ELSE {PoolSet} :
         LET debris == {n \in Names : Finished(n) /\ PoolOf[n] \in pruned}
         IN  /\ inst' = [n \in Names |-> IF n \in debris THEN "none" ELSE inst[n]]
             /\ overdue' = overdue \ debris
    /\ idle' = [n \in Names |-> IF idle[n] = "stale" THEN "unset" ELSE idle[n]]
    /\ NoFault
    /\ UNCHANGED <<github, operator, pass, launches>>

\* The process stops anywhere and is started again: every map it kept in memory
\* is gone, overrides are read back, instances and registrations are as they were.
Crash ==
    /\ Fault("crash")
    /\ Rest
    /\ toLaunch' = <<>>
    /\ launch' = [n \in Names |-> "none"]
    /\ idle' = [n \in Names |-> "unset"]
    /\ drained' = {}
    /\ UNCHANGED <<github, host, limits>>

-----------------------------------------------------------------------------
(***************************************************************************)
(* The world around the loop                                               *)
(***************************************************************************)
Executing == {job[n] : n \in Names} \ {NoJob}

JobArrives(j) ==
    /\ j \notin queue \cup Executing
    /\ queue' = queue \cup {j}
    /\ NoFault
    /\ UNCHANGED <<reg, regRepo, job, host, operator, pass, launches, idle>>

\* Somebody cancels a job nobody has started.
JobCancelled(j) ==
    /\ j \in queue
    /\ Fault("cancel")
    /\ queue' = queue \ {j}
    /\ UNCHANGED <<reg, regRepo, job, host, operator, pass, launches, idle>>

\* GitHub gives a queued job to an online runner that carries its labels.
JobStarts(n, j) ==
    /\ j \in queue
    /\ reg[n] = "idle" /\ inst[n] = "running"
    /\ CanServe(PoolOf[n], j)
    /\ RepoLevel => regRepo[n] = JobRepo[j]
    /\ queue' = queue \ {j}
    /\ job' = [job EXCEPT ![n] = j]
    /\ reg' = [reg EXCEPT ![n] = "busy"]
    /\ NoFault
    /\ UNCHANGED <<regRepo, host, operator, pass, launches, idle>>

\* An ephemeral runner does one job; GitHub drops its registration with it.
JobCompletes(n) ==
    /\ job[n] # NoJob /\ inst[n] = "running"
    /\ job' = [job EXCEPT ![n] = NoJob]
    /\ Unregister(n)
    /\ NoFault
    /\ UNCHANGED <<queue, host, operator, pass, launches, idle>>

RunnerConnects(n) ==
    /\ inst[n] = "running" /\ reg[n] = "offline"
    /\ reg' = [reg EXCEPT ![n] = "idle"]
    /\ NoFault
    /\ UNCHANGED <<regRepo, job, queue, host, operator, pass, launches, idle>>

RunnerDisconnects(n) ==
    /\ inst[n] = "running" /\ reg[n] = "idle"
    /\ Fault("disconnect")
    /\ reg' = [reg EXCEPT ![n] = "offline"]
    /\ UNCHANGED <<regRepo, job, queue, host, operator, pass, launches, idle>>

\* A runner without a registration ends by itself.
RunnerExits(n) ==
    /\ inst[n] = "running" /\ reg[n] = "none"
    /\ inst' = [inst EXCEPT ![n] = "exited"]
    /\ NoFault
    /\ UNCHANGED <<github, overdue, operator, pass, launches, idle>>

\* It dies, or somebody removes the instance behind arc's back.
RunnerDies(n) ==
    /\ inst[n] = "running"
    /\ Fault("die")
    /\ \E s \in {"exited", "none"} : inst' = [inst EXCEPT ![n] = s]
    /\ overdue' = IF inst'[n] = "none" THEN overdue \ {n} ELSE overdue
    /\ UNCHANGED <<github, operator, pass, launches, idle>>

\* GitHub finds out that nobody is behind a registration; a job it ran has failed.
RunnerLost(n) ==
    /\ inst[n] # "running" /\ reg[n] \in {"idle", "busy"}
    /\ reg' = [reg EXCEPT ![n] = "offline"]
    /\ job' = [job EXCEPT ![n] = NoJob]
    /\ NoFault
    /\ UNCHANGED <<regRepo, queue, host, operator, pass, launches, idle>>

\* Nothing is about to happen to the instance: it is executing a job, or online with
\* no job waiting, or it was never started.
Settled(n) ==
    \/ reg[n] = "busy"
    \/ reg[n] = "idle" /\ queue = {}
    \/ inst[n] = "created" /\ launch[n] = "none"

\* The instance's age passes job_timeout.  The timeout is hours, so it passes of its
\* own accord only while the instance is settled; "earlyTimeout" lets it pass a number
\* of times when it is not.  ("jobTimeout" says whether a behaviour is that long.)
TurnsOverdue(n) ==
    /\ inst[n] \in {"created", "running"} /\ n \notin overdue
    /\ \/ "jobTimeout" \in FaultKinds /\ Settled(n) /\ NoFault
       \/ Fault("earlyTimeout")
    /\ overdue' = overdue \cup {n}
    /\ UNCHANGED <<github, inst, operator, pass, launches, idle>>

SetLimits(p, l) ==
    /\ limits' = [limits EXCEPT ![p] = l]
    /\ NoFault
    /\ UNCHANGED <<github, host, drained, pass, launches, idle>>

SetDrained(p) ==
    /\ drained' = IF p \in drained THEN drained \ {p} ELSE drained \cup {p}
    /\ NoFault
    /\ UNCHANGED <<github, host, limits, pass, launches, idle>>

-----------------------------------------------------------------------------
\* What the loop does of its own accord when every call it makes succeeds.
LoopStep ==
    \/ \E S \in SUBSET {n \in Names : idle[n] \in {"fresh", "ripe"}} : BeginPass(S)
    \/ ListRunners \/ ListInstances \/ PollJobs \/ AssignNextJob
    \/ ScaleUp \/ ScaleDown \/ AtTarget \/ EndPass
    \/ \E n \in Names :
         \/ RemoveOrphan(n) \/ DeregisterVictim(n) \/ VictimIsBusy(n)
         \/ VictimUnregistered(n) \/ DestroyInstance(n)
         \/ RegisterRunner(n) \/ CreateInstance(n) \/ StartInstance(n) \/ CleanUp(n)

LoopFault ==
    \/ SitOut \/ ListRunnersFails \/ ListInstancesFails
    \/ PollJobsPartially \/ PollJobsFails \/ ScaleUpFails \/ RegisterFails \/ Crash
    \/ \E n \in Names :
         \/ RemoveOrphanFails(n) \/ DeregisterVictimFails(n) \/ DestroyInstanceFails(n)
         \/ RegisterAnswerLost(n) \/ CreateFails(n) \/ CleanUpFails(n)

World ==
    \/ \E j \in Jobs : JobArrives(j) \/ JobCancelled(j)
    \/ \E n \in Names :
         \/ \E j \in Jobs : JobStarts(n, j)
         \/ JobCompletes(n) \/ RunnerConnects(n) \/ RunnerDisconnects(n)
         \/ RunnerExits(n) \/ RunnerDies(n) \/ RunnerLost(n) \/ TurnsOverdue(n)

Operator ==
    \/ \E p \in PoolSet, l \in LimitChoices : SetLimits(p, l)
    \/ \E p \in DrainablePools : SetDrained(p)

Next == LoopStep \/ LoopFault \/ Housekeep \/ World \/ Operator

Spec == Init /\ [][Next]_vars

-----------------------------------------------------------------------------
(***************************************************************************)
(* Fairness                                                                *)
(***************************************************************************)

\* The ticker keeps the loop going and every call returns; an online runner
\* that could take a queued job is eventually given one; a process that was
\* started connects, one that is no longer registered ends, and GitHub notices
\* runners that are gone.
RunnerFairness(n) ==
    /\ WF_vars(RunnerConnects(n))
    /\ WF_vars(RunnerExits(n))
    /\ WF_vars(RunnerLost(n))
    /\ WF_vars(NoFault /\ TurnsOverdue(n))

LoopFairness == WF_vars(LoopStep)

JobStartFairness(j) == SF_vars(\E n \in Names : JobStarts(n, j))

\* Time passes: an idle clock that keeps running reaches its thresholds.
ClockFairness ==
    \A n \in Names :
        SF_vars(\E S \in SUBSET {m \in Names : idle[m] \in {"fresh", "ripe"}} :
                    n \in S /\ BeginPass(S))

\* Jobs may hang for ever:
FairSpec == /\ Spec /\ LoopFairness
            /\ \A n \in Names : RunnerFairness(n)
            /\ \A j \in Jobs : JobStartFairness(j)

\* Every job ends:
FairJobsSpec == FairSpec /\ \A n \in Names : WF_vars(JobCompletes(n))

FairClockSpec == FairSpec /\ ClockFairness

-----------------------------------------------------------------------------
(***************************************************************************)
(* Properties                                                              *)
(***************************************************************************)

\* Every variable has its type.
TypeOK ==
    /\ reg \in [Names -> RegState]
    /\ regRepo \in [Names -> Repos \cup {NoRepo}]
    /\ job \in [Names -> Jobs \cup {NoJob}]
    /\ queue \in SUBSET Jobs
    /\ inst \in [Names -> InstState]
    /\ overdue \in SUBSET Names
    /\ limits \in [PoolSet -> Limits]
    /\ drained \in SUBSET PoolSet
    /\ phase \in Phases
    /\ byName \in [Names -> RegState]
    /\ visited \in 0..Len(Pools)
    /\ live \in [PoolSet -> SUBSET Names]
    /\ victims \in SUBSET Names
    /\ orphans \in SUBSET Names
    /\ target \in SUBSET Names
    /\ unplaced \in SUBSET Jobs
    /\ demand \in [room: [PoolSet -> Nat], jobs: [PoolSet -> Seq(Jobs)], unassigned: Seq(Jobs)]
    /\ toLaunch \in Seq(Repos \cup {NoRepo})
    /\ launch \in [Names -> LaunchState]
    /\ idle \in [Names -> Clocks]
    /\ faults \in 0..MaxFaults

\* docs/scaling.md:17 and teardown.go:32: a runner that is executing a job is never
\* destroyed.  Once an instance is the target, Destroy is called whatever happens, so
\* the runner must not be able to be in the middle of a job then.
NeverKillsAJob == \A n \in target : inst[n] = "running" => job[n] = NoJob

\* reap's orphan loop only takes registrations nobody will ever claim: not those of a
\* runner that is running, nor of one that is being launched.
OrphansHaveNoRunner ==
    \A n \in orphans : inst[n] \notin {"created", "running"} /\ launch[n] = "none"

\* orchestrator.go:336: reap "deregisters runners GitHub still lists but that no longer
\* have a live instance behind them".  When the pass turns to launching, a registration
\* that it listed as not busy, and whose instance is not among the live ones, is gone --
\* unless its runner took a job after the listing, and so was refused.  (As long as the
\* calls of reap are answered and no such runner dies of itself after the refusal.)
ReapLeavesNoGhost ==
    phase = "applying" =>
        \A n \in Names : byName[n] \in {"offline", "idle"} /\ n \notin live[PoolOf[n]]
                          => reg[n] \in {"none", "busy"}

\* config.go:118: a pool's max caps its concurrent runners, the ones being launched
\* included, through every crash and restart.  (An override can lower max under the
\* runners that exist, so the cap is the largest max that the configuration and the
\* operator can set; with limits that do not change it is the max in force.)
Occupying(p) ==
    {n \in PoolNames(p) : inst[n] = "running" \/ launch[n] \in {"creating", "starting"}}

SettableLimits(p) == {InitLimits[p]} \cup LimitChoices

RunnersWithinMax ==
    \A p \in PoolSet : \E l \in SettableLimits(p) : Cardinality(Occupying(p)) <= l.max

\* orchestrator.go:349: a pool goes beyond its max by no more than the runners that are
\* older than job_timeout, which reap counts out although those that execute a job stay.
Young(p) == {n \in PoolNames(p) : \/ inst[n] = "running" /\ n \notin overdue
                                 \/ launch[n] \in {"creating", "starting"}}

YoungRunnersWithinMax ==
    \A p \in PoolSet : \E l \in SettableLimits(p) : Cardinality(Young(p)) <= l.max

\* orchestrator.go:224: a pass comes to its end.  There is one loop for all the pools, so
\* a pass that could go round in circles would hold up every one of them: whatever fails,
\* and whatever GitHub, the runners and the operator do in the meantime, each step that
\* changes anything of a pass leaves less to be done, the earlier numbers counting more.
At(stage) == {n \in Names : launch[n] = stage}

Turns == CASE phase = "listing" -> 3 [] phase = "reaping" -> 2 [] phase = "applying" -> 1
           [] OTHER -> 0

ToDo == <<Turns, Len(Pools) - visited, Cardinality(unplaced), Len(toLaunch),
          Cardinality(victims), Cardinality(target), Cardinality(orphans),
          Cardinality(At("creating")), Cardinality(At("starting")), Cardinality(At("cleanup"))>>

Less(a, b) == \E i \in 1..10 : a[i] < b[i] /\ \A k \in 1..10 : k < i => a[k] = b[k]

PassesGetDone ==
    [][phase # "asleep" => UNCHANGED <<pass, launches>> \/ Less(ToDo', ToDo)]_vars

\* scale.go:164: the runners a pass spares in a pool and those it is about to launch make
\* up the warm floor and one runner for each job of the pool's demand beside those seen
\* busy, or else the max in force; it is not cut short by runners that start, linger past
\* their idle time or are in the way.  Only where a runner has to be registered on a job's
\* repository is there no floor without a job.
Kept(p) == Cardinality(live[p] \ victims) + Len(toLaunch)

PlansMeetTheDemand ==
    [][Applying /\ visited' = visited + 1 /\ faults' = faults =>
         \A p \in {NextPool} :
            /\ \/ Kept(p)' >= LimitsNow(p).min
               \/ RepoLevel /\ demand.jobs[p] = <<>>
            /\ \/ Kept(p)' >= Observed(p).busy + DemandNow(p)
               \/ Kept(p)' >= LimitsNow(p).max]_vars

\* Once the faults are over, nothing that a finished, crashed or abandoned launch left
\* behind stays: neither the registration of a runner that is gone, nor a dead instance.
Leftover(n) ==
    \/ reg[n] # "none" /\ inst[n] = "none" /\ launch[n] = "none"
    \/ inst[n] = "exited"

LeftoversGo == \A n \in Names : Leftover(n) ~> ~Leftover(n)

\* A queued job that a pool can serve gets a runner.
JobsServed == \A j \in Jobs : j \in queue ~> j \notin queue

\* config.go:122: an instance older than job_timeout is destroyed.
OverdueGo == \A n \in Names : n \in overdue ~> n \notin overdue

\* orchestrator.go:792: a drained pool ends up with no idle runner, and launches none.
DrainedPoolEmpties ==
    \A p \in DrainablePools :
        <>[](p \in drained) => <>[](\A n \in PoolNames(p) : reg[n] # "idle" /\ launch[n] = "none")
==============================================================================
