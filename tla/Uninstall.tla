------------------------------ MODULE Uninstall ------------------------------
(***************************************************************************)
(* arc uninstall (cmd/arc/uninstall.go) and the orchestrator's Teardown    *)
(* (internal/orchestrator/teardown.go) beside everything that goes on      *)
(* meanwhile: an arc that launches runners until it is stopped, jobs that  *)
(* start and end, runners that die, calls that fail.  With a personal      *)
(* account runners and webhooks belong to repositories, and the command    *)
(* sees those of the repositories ListRepos returns.                       *)
(*                                                                         *)
(* One action is one call the command makes to GitHub, to a provider or to *)
(* the service manager, or one answer of its user.                         *)
(***************************************************************************)
EXTENDS Naturals

CONSTANTS
    Names,         \* runner names
    Pools,         \* the pools of this host
    PoolOf,        \* name -> the pool belongsToPool finds in it, or NoPool
    NoPool,        \* of a runner of another host
    ProcessPools,  \* pools whose runners are processes in directories
    DefaultDirs,   \* those whose directories are where they are without a config
    Repos,         \* repositories; of an organization one that stands for all
    RepoOf,        \* name -> the repository it is registered in
    Fickle,        \* repositories that ListRepos leaves out at times; of an
                   \* organization none
    Modes,         \* what the command has: "orch", "config", or "none" of it
    FaultKinds     \* calls that may fail

ASSUME UninstallConstants ==
    /\ NoPool \notin Pools
    /\ PoolOf \in [Names -> Pools \cup {NoPool}]
    /\ DefaultDirs \subseteq ProcessPools /\ ProcessPools \subseteq Pools
    /\ RepoOf \in [Names -> Repos] /\ Fickle \subseteq Repos
    /\ Modes \subseteq {"orch", "config", "none"}

VARIABLES
    arc,      \* the orchestrator: down, up, or sick (up, /healthz answers 503)
    asUnit,   \* it was started by the service manager
    unit,     \* the service is installed
    reg,      \* name -> GitHub's registration
    inst,     \* name -> the provider's instance
    files,    \* names whose instance directory exists
    hook,     \* the repositories this host's webhook is registered in
    watched,  \* the repositories ListRepos returns
    pc,       \* where the command stands
    forced,   \* -force
    mode,
    seen,     \* Teardown's byName
    pool,     \* the pool Teardown is at
    pools,    \* pools it has not come to
    todo,     \* instances of the current pool it has not come to
    orphans,  \* registrations without instance it has not come to
    target,   \* the instance whose deregistration was tried
    left,     \* TeardownResult.Busy
    errs,     \* a warning was printed
    killed,   \* history: runners destroyed in the middle of a job
    cut,      \* history: runners whose files went in the middle of a job
    excuse,   \* history: "arc" was running when Teardown began; calls of it that failed
    missed    \* history: the repositories that ListRepos left out when Teardown
              \* listed runners, and when the hooks were removed

world   == <<arc, asUnit, unit, reg, inst, files, hook, watched>>
flow    == <<pc, forced, mode>>
picture == <<seen, pool, pools, todo, orphans, target>>
report  == <<left, errs, killed, cut, excuse, missed>>
vars    == <<world, flow, picture, report>>

Ours       == {n \in Names : PoolOf[n] # NoPool}
Executing  == {n \in Names : reg[n] = "busy" /\ inst[n] = "up"}
Nobody     == [n \in Names |-> "none"]
Teardowns  == {"list", "pool", "instances", "destroy", "orphans", "prune"}
Steps      == {"off", "check", "confirm", "stop", "unit", "probe", "hooks", "files",
               "aborted", "done"} \cup Teardowns

TypeOK ==
    /\ arc \in {"down", "up", "sick"} /\ asUnit \in BOOLEAN /\ unit \in BOOLEAN
    /\ reg \in [Names -> {"none", "idle", "busy"}]
    /\ inst \in [Names -> {"new", "none", "up", "dead"}]
    /\ files \subseteq Ours /\ hook \subseteq Repos /\ watched \subseteq Repos
    /\ pc \in Steps /\ forced \in BOOLEAN /\ mode \in Modes
    /\ seen \in [Names -> {"none", "idle", "busy"}]
    /\ pool \in Pools \cup {NoPool} /\ pools \subseteq Pools
    /\ todo \subseteq Ours /\ orphans \subseteq Ours
    /\ target \subseteq Ours
    /\ left \subseteq Ours /\ errs \in BOOLEAN
    /\ killed \subseteq Ours /\ cut \subseteq Ours
    /\ excuse \subseteq {"arc", "listRunners", "deregister"}
    /\ missed \in [runners : SUBSET Repos, hooks : SUBSET Repos]

Init ==
    /\ arc = "up" /\ unit = TRUE /\ asUnit \in BOOLEAN
    /\ reg = [n \in Names |-> IF n \in Ours THEN "none" ELSE "idle"]
    /\ inst = [n \in Names |-> IF n \in Ours THEN "new" ELSE "none"]
    /\ files = {} /\ hook = Repos /\ watched = Repos
    /\ pc = "off" /\ forced = FALSE /\ mode \in Modes
    /\ seen = Nobody /\ pool = NoPool /\ pools = {} /\ todo = {} /\ orphans = {} /\ target = {}
    /\ left = {} /\ errs = FALSE /\ killed = {} /\ cut = {} /\ excuse = {}
    /\ missed = [runners |-> {}, hooks |-> {}]

-----------------------------------------------------------------------------
(* The world: an arc, GitHub, and the runners of this host.                *)
Register(n) ==
    /\ arc # "down"
    /\ inst[n] = "new" /\ RepoOf[n] \in watched
    /\ reg' = [reg EXCEPT ![n] = "idle"]
    /\ inst' = [inst EXCEPT ![n] = "none"]
    /\ UNCHANGED <<arc, asUnit, unit, files, hook, watched, flow, picture, report>>

Launch(n) ==
    /\ arc # "down"
    /\ inst[n] = "none" /\ reg[n] = "idle" /\ n \in Ours
    /\ inst' = [inst EXCEPT ![n] = "up"]
    /\ files' = IF PoolOf[n] \in ProcessPools THEN files \cup {n} ELSE files
    /\ UNCHANGED <<arc, asUnit, unit, reg, hook, watched, flow, picture, report>>

JobStarts(n) ==
    /\ inst[n] = "up" /\ reg[n] = "idle"
    /\ reg' = [reg EXCEPT ![n] = "busy"]
    /\ UNCHANGED <<arc, asUnit, unit, inst, files, hook, watched, flow, picture, report>>

JobEnds(n) ==
    /\ inst[n] = "up" /\ reg[n] = "busy"
    /\ reg' = [reg EXCEPT ![n] = "none"]
    /\ inst' = [inst EXCEPT ![n] = "dead"]
    /\ UNCHANGED <<arc, asUnit, unit, files, hook, watched, flow, picture, report>>

RunnerDies(n) ==
    /\ inst[n] = "up"
    /\ inst' = [inst EXCEPT ![n] = "dead"]
    /\ reg' = [reg EXCEPT ![n] = IF reg[n] = "busy" THEN "none" ELSE reg[n]]
    /\ UNCHANGED <<arc, asUnit, unit, files, hook, watched, flow, picture, report>>

TurnsSick ==
    /\ arc = "up"
    /\ arc' = "sick"
    /\ UNCHANGED <<asUnit, unit, reg, inst, files, hook, watched, flow, picture, report>>

(* a foreground arc run is stopped by its user *)
Interrupted ==
    /\ arc # "down" /\ ~asUnit
    /\ arc' = "down"
    /\ UNCHANGED <<asUnit, unit, reg, inst, files, hook, watched, flow, picture, report>>

(* A repository has had no push for a while or again, is archived, excluded*)
(* or taken off the allowlist.                                             *)
ReposChange ==
    /\ \E r \in Fickle : watched' = IF r \in watched THEN watched \ {r} ELSE watched \cup {r}
    /\ UNCHANGED <<arc, asUnit, unit, reg, inst, files, hook, flow, picture, report>>

World == \/ TurnsSick \/ Interrupted \/ ReposChange
         \/ \E n \in Names : Register(n) \/ Launch(n) \/ JobStarts(n) \/ JobEnds(n) \/ RunnerDies(n)

-----------------------------------------------------------------------------
Goto(step) == pc' = step /\ UNCHANGED <<forced, mode>>

(* cmdUninstall up to the point of no return; after an abort it can be run *)
(* again                                                                   *)
Begin ==
    /\ pc \in {"off", "aborted"}
    /\ forced' \in BOOLEAN /\ UNCHANGED mode
    /\ pc' = IF mode = "orch" /\ ~forced' THEN "check" ELSE "confirm"
    /\ errs' = FALSE
    /\ UNCHANGED <<world, picture, left, killed, cut, excuse, missed>>

Visible     == {n \in Names : RepoOf[n] \in watched}
BusyRunners == {n \in Ours \cap Visible : reg[n] = "busy"}

CheckNoBusyRunners ==
    /\ pc = "check"
    /\ Goto(IF BusyRunners # {} THEN "aborted" ELSE "confirm")
    /\ UNCHANGED <<world, picture, report>>

CheckFails ==
    /\ pc = "check" /\ "check" \in FaultKinds
    /\ Goto("confirm")
    /\ UNCHANGED <<world, picture, report>>

Confirm ==
    /\ pc = "confirm"
    /\ \E answer \in {"stop", "aborted"} : Goto(answer)
    /\ UNCHANGED <<world, picture, report>>

(* removeService: that the service cannot be stopped goes unnoticed *)
StopService ==
    /\ pc = "stop"
    /\ arc' = IF asUnit THEN "down" ELSE arc
    /\ Goto("unit")
    /\ UNCHANGED <<asUnit, unit, reg, inst, files, hook, watched, picture, report>>

StopFails ==
    /\ pc = "stop" /\ "stop" \in FaultKinds
    /\ Goto("unit")
    /\ UNCHANGED <<world, picture, report>>

AfterUnit == IF mode # "none" /\ ~forced THEN "probe" ELSE IF mode = "orch" THEN "list" ELSE "files"

RemoveUnit ==
    /\ pc = "unit"
    /\ unit' = FALSE
    /\ Goto(AfterUnit)
    /\ UNCHANGED <<arc, asUnit, reg, inst, files, hook, watched, picture, report>>

RemoveUnitFails ==
    /\ pc = "unit" /\ "unit" \in FaultKinds
    /\ Goto("aborted")
    /\ UNCHANGED <<world, picture, report>>

(* checkNotRunning: an answer other than 200 passes for none *)
CheckNotRunning ==
    /\ pc = "probe"
    /\ Goto(IF arc = "up" THEN "aborted" ELSE IF mode = "orch" THEN "list" ELSE "files")
    /\ UNCHANGED <<world, picture, report>>

-----------------------------------------------------------------------------
(* Teardown                                                                *)
Beside == IF arc = "down" THEN {} ELSE {"arc"}

ListRunners ==
    /\ pc = "list"
    /\ seen' = [n \in Names |-> IF n \in Visible THEN reg[n] ELSE "none"]
    /\ pools' = Pools
    /\ excuse' = Beside
    /\ missed' = [missed EXCEPT !.runners = Repos \ watched]
    /\ Goto("pool")
    /\ UNCHANGED <<world, pool, todo, orphans, target, left, errs, killed, cut>>

ListRunnersFails ==
    /\ pc = "list" /\ "listRunners" \in FaultKinds
    /\ seen' = Nobody /\ pools' = Pools
    /\ errs' = TRUE /\ excuse' = Beside \cup {"listRunners"}
    /\ Goto("pool")
    /\ UNCHANGED <<world, pool, todo, orphans, target, left, killed, cut, missed>>

(* What the pool has, without what is listed as busy. *)
Take(p, have) ==
    LET stray == {n \in Names : PoolOf[n] = p /\ seen[n] # "none" /\ n \notin have}
        busy  == {n \in have \cup stray : seen[n] = "busy"}
    IN  /\ todo' = have \ busy
        /\ orphans' = stray \ busy
        /\ left' = left \cup busy

ListPool(p) ==
    /\ pc = "pool" /\ p \in pools
    /\ Take(p, {n \in Ours : PoolOf[n] = p /\ inst[n] \in {"up", "dead"}})
    /\ pool' = p /\ pools' = pools \ {p}
    /\ Goto("instances")
    /\ UNCHANGED <<world, seen, target, errs, killed, cut, excuse, missed>>

ListPoolFails(p) ==
    /\ pc = "pool" /\ p \in pools /\ "listPool" \in FaultKinds
    /\ Take(p, {})
    /\ pool' = p /\ pools' = pools \ {p}
    /\ errs' = TRUE
    /\ Goto("instances")
    /\ UNCHANGED <<world, seen, target, killed, cut, excuse, missed>>

(* RemoveRunner's answers: removed or already gone, refused, an error *)
Deregister(n) ==
    /\ pc = "instances" /\ n \in todo
    /\ seen[n] # "none" => reg[n] # "busy"
    /\ reg' = IF seen[n] = "none" THEN reg ELSE [reg EXCEPT ![n] = "none"]
    /\ todo' = todo \ {n} /\ target' = {n}
    /\ Goto("destroy")
    /\ UNCHANGED <<arc, asUnit, unit, inst, files, hook, watched, seen, pool, pools, orphans, report>>

BugRefusedIsAnError(n) ==
    /\ pc = "instances" /\ n \in todo
    /\ seen[n] # "none" /\ reg[n] = "busy"
    /\ todo' = todo \ {n} /\ target' = {n}
    /\ Goto("destroy")
    /\ UNCHANGED <<world, seen, pool, pools, orphans, report>>

BugRefusedNotNamed(n) ==
    /\ pc = "instances" /\ n \in todo
    /\ seen[n] # "none" /\ reg[n] = "busy"
    /\ todo' = todo \ {n}
    /\ UNCHANGED <<world, flow, seen, pool, pools, orphans, target, report>>

DeregisterRefused(n) ==
    /\ pc = "instances" /\ n \in todo
    /\ seen[n] # "none" /\ reg[n] = "busy"
    /\ todo' = todo \ {n} /\ left' = left \cup {n}
    /\ UNCHANGED <<world, flow, seen, pool, pools, orphans, target, errs, killed, cut, excuse, missed>>

(* "deregister failed, destroying anyway": not an error of Teardown *)
DeregisterFails(n) ==
    /\ pc = "instances" /\ n \in todo /\ "deregister" \in FaultKinds
    /\ seen[n] # "none"
    /\ todo' = todo \ {n} /\ target' = {n}
    /\ excuse' = excuse \cup {"deregister"}
    /\ Goto("destroy")
    /\ UNCHANGED <<world, seen, pool, pools, orphans, left, errs, killed, cut, missed>>

Destroy(n) ==
    /\ pc = "destroy" /\ n \in target
    /\ inst' = [inst EXCEPT ![n] = "none"]
    /\ files' = files \ {n}
    /\ killed' = killed \cup ({n} \cap Executing)
    /\ reg' = [reg EXCEPT ![n] = IF n \in Executing THEN "none" ELSE reg[n]]
    /\ target' = {}
    /\ Goto("instances")
    /\ UNCHANGED <<arc, asUnit, unit, hook, watched, seen, pool, pools, todo, orphans,
                   left, errs, cut, excuse, missed>>

DestroyFails(n) ==
    /\ pc = "destroy" /\ n \in target /\ "destroy" \in FaultKinds
    /\ errs' = TRUE
    /\ target' = {}
    /\ Goto("instances")
    /\ UNCHANGED <<world, seen, pool, pools, todo, orphans, left, killed, cut, excuse, missed>>

InstancesDone ==
    /\ pc = "instances" /\ todo = {}
    /\ Goto("orphans")
    /\ UNCHANGED <<world, picture, report>>

RemoveOrphan(n) ==
    /\ pc = "orphans" /\ n \in orphans
    /\ orphans' = orphans \ {n}
    /\ IF reg[n] = "busy" THEN left' = left \cup {n} /\ UNCHANGED reg
                          ELSE reg' = [reg EXCEPT ![n] = "none"] /\ UNCHANGED left
    /\ UNCHANGED <<arc, asUnit, unit, inst, files, hook, watched, flow, seen, pool, pools, todo, target,
                   errs, killed, cut, excuse, missed>>

BugOrphanOnlyLogged(n) ==
    /\ pc = "orphans" /\ n \in orphans /\ "orphan" \in FaultKinds
    /\ orphans' = orphans \ {n}
    /\ UNCHANGED <<world, flow, seen, pool, pools, todo, target, left, errs, killed, cut, excuse, missed>>

RemoveOrphanFails(n) ==
    /\ pc = "orphans" /\ n \in orphans /\ "orphan" \in FaultKinds
    /\ orphans' = orphans \ {n}
    /\ errs' = TRUE
    /\ UNCHANGED <<world, flow, seen, pool, pools, todo, target, left, killed, cut, excuse, missed>>

OrphansDone ==
    /\ pc = "orphans" /\ orphans = {}
    /\ Goto("prune")
    /\ UNCHANGED <<world, picture, report>>

(* Teardown's picture ends with it. *)
NextPool ==
    /\ Goto(IF pools = {} THEN "hooks" ELSE "pool")
    /\ seen' = IF pools = {} THEN Nobody ELSE seen
    /\ pool' = NoPool
    /\ UNCHANGED <<pools, todo, orphans, target>>

Prune ==
    /\ pc = "prune"
    /\ LET dead == {n \in Ours : inst[n] = "dead" /\ PoolOf[n] = pool}
       IN  /\ inst' = [n \in Names |-> IF n \in dead THEN "none" ELSE inst[n]]
           /\ files' = files \ dead
    /\ NextPool
    /\ UNCHANGED <<arc, asUnit, unit, reg, hook, watched, report>>

PruneFails ==
    /\ pc = "prune" /\ "prune" \in FaultKinds
    /\ errs' = TRUE
    /\ NextPool
    /\ UNCHANGED <<world, left, killed, cut, excuse, missed>>

-----------------------------------------------------------------------------
(* DeleteWebhook, repository by repository *)
Unregister ==
    /\ pc = "hooks"
    /\ hook' = hook \ watched
    /\ missed' = [missed EXCEPT !.hooks = Repos \ watched]
    /\ Goto("files")
    /\ UNCHANGED <<arc, asUnit, unit, reg, inst, files, watched, picture,
                   left, errs, killed, cut, excuse>>

(* the list of repositories, or some of them *)
UnregisterFails ==
    /\ pc = "hooks" /\ "hooks" \in FaultKinds
    /\ hook' \in SUBSET hook
    /\ errs' = TRUE
    /\ Goto("files")
    /\ UNCHANGED <<arc, asUnit, unit, reg, inst, files, watched, picture,
                   left, killed, cut, excuse, missed>>

(* the instances directories, whatever is still in them, of the pools that *)
(* the command knows of                                                    *)
Targets == IF mode = "none" THEN {n \in files : PoolOf[n] \in DefaultDirs} ELSE files

(* a process whose directory is gone is gone from the provider's sight     *)
(* when it has ended                                                       *)
RemoveTargets ==
    /\ pc = "files"
    /\ files' = files \ Targets
    /\ cut' = cut \cup (Targets \cap Executing)
    /\ inst' = [n \in Names |-> IF n \in Targets /\ inst[n] = "dead" THEN "none" ELSE inst[n]]
    /\ Goto("done")
    /\ UNCHANGED <<arc, asUnit, unit, reg, hook, watched, picture,
                   left, errs, killed, excuse, missed>>

RemoveTargetsFails ==
    /\ pc = "files" /\ "files" \in FaultKinds
    /\ errs' = TRUE
    /\ Goto("done")
    /\ UNCHANGED <<world, picture, left, killed, cut, excuse, missed>>

Command ==
    \/ Begin \/ CheckNoBusyRunners \/ CheckFails \/ Confirm
    \/ StopService \/ StopFails \/ RemoveUnit \/ RemoveUnitFails \/ CheckNotRunning
    \/ ListRunners \/ ListRunnersFails
    \/ \E p \in Pools : ListPool(p) \/ ListPoolFails(p)
    \/ \E n \in Names : \/ Deregister(n) \/ DeregisterRefused(n) \/ DeregisterFails(n)
                        \/ Destroy(n) \/ DestroyFails(n)
                        \/ RemoveOrphan(n) \/ RemoveOrphanFails(n)
    \/ InstancesDone \/ OrphansDone \/ Prune \/ PruneFails
    \/ Unregister \/ UnregisterFails \/ RemoveTargets \/ RemoveTargetsFails

Next == World \/ Command

Spec == Init /\ [][Next]_vars

-----------------------------------------------------------------------------
(* No runner is destroyed in the middle of a job, when GitHub can be       *)
(* reached and no arc is left running that launches runners Teardown has   *)
(* not listed, but runners of a repository that the listing left out.      *)
SparesTheBusy == excuse = {} => \A n \in killed : RepoOf[n] \in missed.runners

(* An uninstall that ends without a warning, with no arc beside it and     *)
(* every deregistration answered, leaves no instance of this host, no      *)
(* registration and no webhook but those of the runners it named as busy   *)
(* and those of the repositories its listing did not name.                 *)
NothingLeftUnreported ==
    pc = "done" /\ mode = "orch" /\ ~errs /\ excuse = {} =>
        /\ hook \subseteq missed.hooks
        /\ \A n \in Ours \ left :
              /\ inst[n] \in {"new", "none"}
              /\ reg[n] = "none" \/ RepoOf[n] \in missed.runners

(* RemoveTargets deletes directories whoever works in them.  Under the      *)
(* same conditions it cuts off only runners that Teardown named: a runner  *)
(* that took its job after the listing is refused by GitHub or named when  *)
(* its turn comes, so none is cut off without its user being told.         *)
OnlyTheNamedAreCut ==
    mode = "orch" /\ ~errs /\ excuse = {} => cut \subseteq left

-----------------------------------------------------------------------------
(* What the code's own comments promise and the code does not keep.        *)

(* teardown.go:32: "Runners executing a job are never touched". *)
BusyNeverTouched == excuse = {} => killed = {}

(* teardown.go:28: "The returned error collects everything that could not  *)
(* be removed".                                                            *)
ErrorNamesTheRest ==
    pc = "done" /\ mode = "orch" /\ ~errs /\ excuse = {}
        => hook = {} /\ \A n \in Ours \ left : reg[n] = "none"

(* uninstall.go:47: "Runners mid-job are left alone unless -force": their  *)
(* files are not taken from them either.                                   *)
BusyKeepTheirFiles == ~forced => cut = {}
=============================================================================
