# Formal model of arc

`arc` runs self-hosted GitHub Actions runners on machines one already owns. On each
host a single process looks at GitHub (which runners are registered, which jobs wait)
and at its providers (which runner processes or containers exist), and launches or
removes runners accordingly. This directory holds TLA+ modules that model it, TLC
configurations that check small instances, and proofs checked by TLAPS.

```
tlc -workers 2 -config reconcile_safety.cfg MCReconcile.tla
tlc -workers 2 -config providers.cfg MCProviders.tla
tlapm ProvidersProofs.tla
```

`PROJECT.json` lists the runs, the seeded mistake (mutant) that shows each property can
fail, the lines of the code each definition models, the hazards and the theorems.

## 1. Inventory

| Component (source under `src/`) | State | Operations | Interacts with | Correct when |
| --- | --- | --- | --- | --- |
| **Reconcile loop** `internal/orchestrator/orchestrator.go` | idle clocks, drained set, last snapshot; per pass: registrations, live instances, demand | `Run`, `reconcileOnce`, `reap`, `destroyInstance`, `applyPool`, `scaleUp`/`launchOne`, `scaleDown`, `housekeep`, `SetDrained` | calls GitHub and every provider; poked by webhooks and the API | never destroys a working runner, never takes a live runner's registration, keeps every max, leaves no debris, serves every job |
| **Scaling arithmetic** `scale.go` | none | `CanServe`, `Candidates`, `AssignDemand`, `Plan` | called by the loop | each job counted once and for the tightest open pool; decisions within the limits |
| **Foreign discount** `discountForeignIdle` | none | drops the jobs another host's idle runner can take | runs between `AssignDemand` and `applyPool` | the jobs dropped match runners one to one |
| **Runner API, jobs API** `internal/ghapi/runners.go`, `jobs.go` | ETag cache, list of pollable repositories | `ListRunners`, `GenerateJITConfig`, `RemoveRunner`, `RunnerGroupID`, `PollJobs` | GitHub over HTTP | a failure is told apart from "busy" and from "gone"; partial results are marked |
| **HTTP client** `internal/ghapi/client.go` | rate limit, ETag cache, credentials | `do`: retry, wait, revalidate, refresh | all API calls | bounded retries, never a stale answer for a mutation |
| **Authentication** `internal/ghapi/auth.go`, `cmd/arc/vaultauth.go` | token and its expiry, time of the last refresh | `Authorization`, `Refresh` | HTTP client | no storm of refreshes; an expired token is replaced |
| **Process provider** `internal/provider/processprov` | a directory and a state file per runner; cache of process identities | `Create`, `List`, `Destroy`, `Prune` | the OS | signals no process it can tell from its own; debris recognisable after a crash |
| **Docker provider** `internal/provider/dockerprov` | containers; whether the image was pulled | the same | the engine | the same |
| **Overrides** `internal/state/overrides.go` | map and its file | `Set`, `Clear`, `Get`, `LoadOverrides` | API writes, loop reads | the file is what the map says, and always parses |
| **Control API** `internal/api/server.go` | none | scale, drain, resume, status, health, metrics | overrides, loop | min never above max |
| **Webhooks** `internal/webhook`, `internal/ghapi/hooks.go` | tunnel, hooks on GitHub | start a tunnel, register hooks, handle a delivery | pokes the loop | one hook per repository and host; polling covers its absence |
| **Teardown** `internal/orchestrator/teardown.go`, `cmd/arc/uninstall.go` | none | remove every runner of this host | GitHub, providers | spares the busy ones unless forced |
| **arc run** `cmd/arc/run.go` | goroutines | starts and stops all of the above | all | shuts down without leaving a launch half done |
| **Health, snapshot** `Healthy`, `Snapshot` | failure counter | record, report | API | a stuck loop shows |
| **Vault configuration** `internal/opconfig` | `~/.arc/credentials.json` | `Load`, cached items | authentication, `arc run` | a start without network works after a verified one |
| Configuration, host identity, most of the command line, bootstrap, packaging | — | — | — | not modelled (section 6) |

**How they interact.** Everything meets in `reconcileOnce`, one goroutine that ticks or
is poked: list registrations, list the instances of every pool, remove what is dead,
poll the jobs, assign them to pools, then act on one pool after the other. Only the
launches within one `scaleUp` run concurrently. But GitHub, the runner processes, and
the operator's requests (which take other locks in other goroutines) move between any
two of these steps, and arc can die at any of them. There is no transaction between
GitHub and a provider: a runner exists in both or in either, and its name is the only
link.

**What is hard here.** Acting on a stale listing (a runner listed idle takes a job
before it is removed); answers that are lost after the call took effect; a crash between
registering a runner and starting it; a provider that cannot list; limits read twice in
one pass; jobs that hang; pools that share labels; a cap that must hold through all of
this. `PROJECT.json` lists each at its line, with the properties about it.

## 2. Modules

| Module | What it is | Code |
| --- | --- | --- |
| `Scale` | `scale.go` and `limitsFor` as pure operators | `internal/orchestrator/scale.go` |
| `Assign` | `AssignDemand` then `discountForeignIdle`, one step per job, over all small inputs | the same, `orchestrator.go` |
| `Reconcile` | the loop step by step, GitHub, providers, operator, faults; uses `Scale` | `orchestrator.go` |
| `Overrides` | scale requests, the override map and its file, crashes and starts | `internal/api/server.go`, `internal/state/overrides.go` |
| `LimitStore` | abstract: a save is one step, a restart comes back with what was saved | |
| `Credentials` | how a running arc holds, caches, probes and replaces its token | `cmd/arc/run.go`, `vaultauth.go`, `internal/opconfig` |
| `GhClient` | the requests made with it: extends `Credentials` | `internal/ghapi/client.go` |
| `ArcProcess` | arc up or down, and the budget of faults, for the two providers | |
| `ProcessHost` | Create, List, Destroy, Prune against pids, directories, signals | `internal/provider/processprov` |
| `DockerHost` | the same against containers and images | `internal/provider/dockerprov` |
| `Providers` | a pool with the one or the other: composes the two | `buildProvider` |
| `Instances` | abstract: the life of an instance goes one way | `internal/provider/provider.go` |
| `Uninstall` | `arc uninstall` and `Teardown` beside an arc and its runners | `cmd/arc/uninstall.go`, `teardown.go` |
| `Webhook` | tunnel, registration of hooks, deliveries, the doorbell | `internal/webhook`, `internal/ghapi/hooks.go` |
| `Demand` | how a queued job becomes known, by ring and by poll: extends `Webhook` | `internal/ghapi/jobs.go`, `Run` |
| `MC*` | values of the constants for TLC | |
| `*Proofs` | theorems and proofs of the module they are named after (section 5) | |

### How Reconcile corresponds to the code

* **GitHub.** `reg[n]` is what `ListRunners` would return for the name `n` (absent,
  offline, idle, busy), `regRepo[n]` where it is registered, `job[n]` what it executes,
  `queue` the queued jobs. These and `RunnerConnects`, `JobStarts`, `JobCompletes`, ...
  are external: how GitHub and the actions runner behave as far as the code relies on it.
* **Providers.** `inst[n]`: absent; `created` (a container created and not started, a
  runner directory without a process); `running`; `exited`. `Finished` says which of
  these the provider reports as over: the process provider calls a half-created instance
  unknown and reap removes it (`UnknownPools`); docker calls it starting and it counts as
  live.
* **The pass.** `phase` says how far `reconcileOnce` is and `visited` how many pools the
  current loop over pools has taken. `byName` and `live` are the locals of that name,
  `victims`, `orphans` and `target` what is left to remove for the current pool.
  `destroyInstance` is two steps, the call to GitHub (`DeregisterVictim`, `VictimIsBusy`,
  `VictimUnregistered`, `DeregisterVictimFails`) and the call to the provider
  (`DestroyInstance`, `DestroyInstanceFails`), with the world moving in between.
* **Launches.** `toLaunch` are the goroutines of `scaleUp` that wait for the semaphore,
  `launch[n]` where the one that minted the name `n` is: registered, instance created, or
  cleaning up after a failure. The provider's `Create` is two steps.
* **Faults.** Each call has its failing variant. `Fault(kind)` bounds how many happen;
  `FaultKinds` selects which. A call that mutates GitHub may fail before or after it took
  effect. `Crash` drops every in-memory variable and keeps registrations, instances and
  limits.
* **Time** occurs in two comparisons. `idle_timeout` and the 24 hours of `housekeep` are
  the clock values `fresh`, `ripe`, `stale`, advanced when a pass begins. `job_timeout` is
  the set `overdue`: `TurnsOverdue` may add an instance that nothing is about to happen
  to (it works, it idles with no job waiting, or nobody finished creating it); the fault
  `earlyTimeout` adds any.
* **Names** are random and never reused in the code. The model reuses a name once neither
  GitHub nor a provider nor a launch knows it, and then forgets what the loop's maps say
  about the earlier runner.

Abstracted: `ListRunners` and `PollJobs` are one step each (their pages and the
per-repository requests are not separate), conditional requests always answer fresh, the
snapshot and the failure counter do not influence the loop and are left out, and the
process provider's "start the process" and "write the state file" are one step; `Demand`,
`GhClient` and `ProcessHost` have these in detail. No foreign runners are in `Reconcile`;
`Assign` covers the function they matter to. `ListRunners` returns every registration, which is what an
organization answers; with `RepoLevel` the code asks in the repositories it polls, which in
`Reconcile` are those of the jobs and do not change (`Uninstall` has a list that does). A failing
`Create` leaves nothing, and an instance that has exited stays so; where the providers fall short of
that (a removal that fails, a look-alike on a recycled pid) is in `ProcessHost` and `DockerHost`.
`DrainedPoolEmpties` takes `idle_timeout` to be below the 24 hours after which `housekeep` drops
a clock, which the configuration does not enforce.

### How the other modules correspond to the code

* **Overrides.** A handler is a goroutine of `net/http`; `op[h]` is how far it is:
  validated (`Check`), map changed under the lock (`Set`, `Clear`), temporary file opened
  and cut to nothing, written, renamed, answered. A file is followed by what its
  descriptors refer to (`fd`), so that a write after another handler's rename goes to
  `overrides.json` itself. A write that fails or a crash leaves a `Torn` text. `Start` is
  `LoadOverrides`: with a text that is not JSON arc does not start. Two history variables
  are read by properties only: `apart` (no two requests have been saving, from change to
  rename, at once) and `overtaken` (the requests that were accepted and whose pool another
  request has changed since).
* **Credentials, GhClient.** `req[w]` is a call of `Client.request`: its attempt, the token
  and tag it was sent with, what came back. Every way an attempt can end is an action
  (`Success`, `NotModified`, `Limited`, `NoAnswer`, `Rejected`, `Unauthorized`).
  `lock`, `cooling` and `item` are those of `vaultAuth`; `Refresh` is split where it
  waits for `op`. `NoAnswer` may or may not have taken effect, which `done` counts.
  `boot` is the probe of `autoConfig` before arc is up. Versions of the resource
  stand for the bodies a GET can return.
* **ProcessHost.** `proc` is the process table, `dir` and `pidOf` the instance directory and
  its state file, `seen` the verifier's cache, `creating` and `ending` how far `Create`
  and `Destroy` are. A pid without a process may be given to a stranger; while arc is up
  only if no state file names it, unless `RecycleWhileUp`. There are strangers of two kinds:
  `Other`, and `Alike`, whose command line has `run.sh` or `Runner.Listener` in it and passes
  `processMatches` like a runner's own. The results that the code drops may be failures: the
  directory stays after an undone `Create` (`Undo`), the process outlives its SIGKILL
  (`Killed`), a state file cannot be read (`DestroyUnread`). `lost` is history: the runners arc
  has lost sight of by a crash, such a file or such a process. `Prune` is `Destroy` of what
  `List` calls finished.
* **DockerHost.** `ctr` is the container the daemon has, `making` how far a `Create` is,
  `image`, `policy` and `pulled` what `ensureImage` looks at. Calls fail before or after
  they took effect; a removal that fails may have stopped the container already
  (`HalfRemoved`). Of the engine's states `dead` counts as `exited` and those that `List` calls running as
  `running`.
* **Uninstall.** `pc` is the step the command is at, from the check for busy runners to the
  removal of files; `seen`, `pool`, `pools`, `todo`, `orphans` and `target` are `Teardown`'s
  locals, `left` and `errs` what it reports. World steps interleave everywhere. `watched` are
  the repositories `ListRepos` returns, and they alone are seen by the check for busy runners, by the
  listing of `Teardown` and by `Unregister`. Those in `Fickle` come and go as they are archived,
  excluded, taken off the allowlist or not pushed to for `active_within`; of an
  organization there are none, and one repository stands for it. `excuse`, `missed` (what the
  list left out when it was used) and the other history variables remember what the code cannot know.
* **Webhook, Demand.** `mgr` is `Manager.Run`; `ListHooks` and the rewriting or creation in
  `EnsureWebhook` are separate calls. A hook keeps URL and secret, of which a delivery
  has those of its time, so late ones meet another tunnel or another start. The poll lists
  runs by status in two calls, then reads the jobs of each run; runs and jobs move
  between any two calls. A personal account whose repositories cannot be listed registers no
  hook (`ReposFail`). A `POST` that is sent again because its answer was lost is taken to be
  refused, as GitHub keeps no two hooks of one URL. The filters of `ListRepos` and labels are left
  out here: every job is self-hosted, the repositories watched and the scopes are fixed.
  A run that was deleted since it was listed answers 404 and is passed over, which is the same
  as reading a run that has ended.

## 3. Runs

| Run | Question | Bounds |
| --- | --- | --- |
| `reconcile_safety` | `NeverKillsAJob`, `OrphansHaveNoRunner`, `RunnersWithinMax`; does a pass come to its end (`PassesGetDone`); does it leave a runner for every job (`PlansMeetTheDemand`); under crashes, failed and lost calls, dying runners, and limits changed in mid-pass | 1 pool (max 2, lowered to 1 or raised to a floor of 2), 1 job, 3 names, 1 fault |
| `reconcile_retry` | is every leftover removed and every job served (`LeftoversGo`, `JobsServed`) | 1 pool, 1 job, 2 names, 2 faults, failing deregistration included |
| `reconcile_docker` | does `job_timeout` free a docker pool from a half-created container (`JobsServed`); is max exceeded by no more than the runners older than `job_timeout` (`YoungRunnersWithinMax`); is every registration without a runner gone when launches begin (`ReapLeavesNoGhost`) | 1 pool, 1 job, 3 names, 1 crash |
| `reconcile_drain` | does a drained pool empty (`DrainedPoolEmpties`) though its idle clocks restart and a listing fails | warm floor 1, max 2, 2 names, 1 failing listing |
| `reconcile_spill` | do jobs overflow to another pool though jobs may hang (`JobsServed`) | 2 pools of max 1, 2 jobs of 2 repositories, of which one may fail to be polled |
| `assign` | `EveryJobOnce`, `ChargedBeyondRoomOnlyWhenFull`, `TightestFirst`, `DiscountIsAMatching` | 3 pools, every subset of 4 jobs, every fill, up to 2 foreign runners |
| `overrides` | requests that overlap in every way: `WholeIfWritesApart`, `OnlyOvertakenBreakOrder` and the refinement `SavedAtomically` | 2 handlers, 1 pool, limits 0 and 2, two configurations, any number of requests, failures and crashes |
| `ghclient` | `OneReadPerRefusal`, `CacheIsComplete`, `NeverStale`, `RepeatedOnlyInDoubt`, `NoRetryWithRefusedToken`, `Recovers` | 2 goroutines, 2 tokens, 2 attempts a request, 2 versions of the resource, 2 faults |
| `providers` | `SignalsOnlyRunners`, `NoRunnerUnseen`, `PruneKnowsTheDead`, `NothingLeftHalfMade`, `DebrisGoes` and the refinement `LivesGoOneWay` | 2 instances over 2 pids with strangers of both kinds, or 2 containers under every pull policy; 3 faults |
| `uninstall` | `SparesTheBusy`, `NothingLeftUnreported`, `OnlyTheNamedAreCut` | a process pool of 2 runners, a docker pool of 1, a runner of another host; 2 repositories, of which one may leave the list and come back; every call may fail, any number of times |
| `demand` | `PollMissesNoQueuedJob`, `HooksFollowTheTunnel`, `OtherHooksStay`, `NoRingIsLost`, `RingsAreAnswered` | 1 scope, 1 repository, 1 run of 2 jobs, 2 tunnels, 2 starts, 1 loss |
| `find_second_page` | the disagreement of section 4 | as `demand`, with pages of one entry |

The type invariant of each module is a theorem (section 5) and in no run: its deeper conjuncts
(headroom never negative, a recorded pid exactly with a state file) are proved for every
instance.

*Why the bounds are enough.* In `Reconcile` pools interact only through `AssignDemand`:
two of them show spilling, three (in `assign`) a tie between candidates of different
specificity. Max 2 with a floor of 2 lets one runner work while another starts, ends or
fails; the third name is the launch too many or the leftover of a crashed one. Every
action is disturbed by one fault, and in `reconcile_retry` the cleaning up after a fault
fails as well. In `ghclient` two goroutines meet the same refused token, and two faults
let a retry fail as well; in `providers` two pids let a runner's pid pass to a stranger
or to the other runner while that has one too, and three faults are a crash, a failing call and a failing
cleaning up; in `overrides` a second handler is enough for each hazard of sharing (one temporary file, a check
that is overtaken), and pools share nothing but the file, which one pool fills; in `uninstall` two runners of one pool differ in what happened to them
since the listing, and the repository that leaves the list has runners beside one that stays; in `demand` the second tunnel and the second start make hooks and
deliveries old. `LastToken`, `LastVersion`, `MaxTunnels`, `MaxStarts`,
`MaxFaults` and `MaxLosses` are the bounds on counters that grow; each is in a guard. The
safety properties are moreover all proved without these numbers (section 5). Runs with only invariants use symmetry in names that the model
never orders.

*Mutants.* Every property of a passing run has one plausible mistake in a mapped
definition (the operators whose name begins with `Bug`) that makes it fail in that run.

*Deadlock* is not checked in `assign` (the loops end), `overrides` (arc with a file that does
not parse stays down), `uninstall` (the command ends) and `providers` (names are used once).

*Fairness.*

* `Reconcile`. `LoopFairness`: the ticker keeps the loop going and each call returns (the
  HTTP client and the providers have timeouts). `RunnerFairness`: a started runner process
  connects, a runner without registration ends, GitHub notices a vanished runner, time
  passes. `JobStartFairness` is strong, per job: GitHub hands a job to a matching online
  runner though it may repeatedly prefer another job. `FairJobsSpec` adds that each job
  ends; `FairSpec` does not, because jobs hang. `ClockFairness` is strong: an idle clock
  that keeps running reaches its next threshold.
* `GhClient`. Each goroutine's attempts end (the HTTP client and `op` have timeouts), the
  loop polls again and again, the cooldown passes, the service manager restarts arc.
  Nobody promises a rotation: `Recovers` assumes a valid token in the vault for good.
* `Providers`. Calls return and arc is restarted. `Prune` is strong: the loop prunes
  between creates, which keep disabling it.
* `Demand`. `RingsAreAnswered` assumes only that calls return (`PollStep`) and that a poked loop
  begins a pass (`Poked`); nothing of the ticker, whose interval is long when there are
  webhooks.
* Faults, operator, strangers, jobs that arrive and tunnels have no fairness anywhere. Where
  an action has a part that is a fault, as `TurnsOverdue` with `earlyTimeout`, fairness is of the
  other part.

*Refinements.* `SavedAtomically` maps `Overrides` to `LimitStore` (`live` is the map, `durable`
what `LoadOverrides` would return, `pending` the snapshot of the request under way) up to the
first moment two requests are saving at once (`apart'`), which is where the code stops doing so;
`LivesGoOneWay` maps either provider to `Instances` (`life` is what `List` says of the
name). Both are properties of a run and theorems.

## 4. Where the code and what it says disagree

One is a run with a finding in `PROJECT.json`:

* `find_second_page` — `PollJobs` is documented to return every waiting job; it reads the
  first page of a repository's runs and of a run's jobs only.

The configurations below are not in the list of runs, to keep it short; each shows a
disagreement with one command of the form
`tlc -config find_hung_job.cfg MCReconcile.tla`:

| Configuration | Module | Violates | What it shows |
| --- | --- | --- | --- |
| `find_hung_job` | `MCReconcile` | `OverdueGo` | `job_timeout` is documented to force-destroy jobs that hang; a runner whose job hangs is busy, and busy runners are always left alone |
| `find_max_blind` | `MCReconcile` | `RunnersWithinMax` | a pool whose instances cannot be listed is planned as if it were empty, and goes beyond its max |
| `find_max_overdue` | `MCReconcile` | `RunnersWithinMax` | a busy runner past `job_timeout` is not counted as live, and the pool goes beyond its max, by no more than such runners (`YoungRunnersWithinMax`) |
| `find_job_killed` | `MCReconcile` | `NeverKillsAJob` | when the deregistration fails with anything but "busy" the instance is destroyed, so GitHub's refusal is not the backstop the docs describe |
| `find_repo_starved` | `MCReconcile` | `JobsServed` | in personal-account mode an idle runner of one repository counts against the demand of another, whose job then waits for ever |
| `find_torn_overrides` | `MCOverrides` | `FileParses` | two requests that overlap share one temporary file, and a crash in between leaves a file the next start cannot parse, against the comment at `overrides.go:107` |
| `find_busy_files` | `MCUninstall` | `BusyKeepTheirFiles` | "Runners mid-job are left alone unless -force" (`uninstall.go:47`); `removeTargets` then deletes the directories of those very runners |
| `find_unlisted_busy` | `MCUninstall` | `BusyNeverTouched` | "Runners executing a job are never touched" (`teardown.go:32`); with a personal account the busy runner of a repository that `ListRepos` no longer returns is not in the listing and is destroyed, with no call having failed |
| `find_unlisted_left` | `MCUninstall` | `ErrorNamesTheRest` | "The returned error collects everything that could not be removed" (`teardown.go:28`); registrations and the hook of such a repository stay without a word |
| `find_lookalike` | `MCProviders` | `SignalsOnlyItsOwn` | "Treat the instance as finished and never signal that pid" (`process.go:348`); where the recycled pid went to a process with `run.sh` or `Runner.Listener` in its command line, the instance counts as running and that process is signalled |

### Observations without a property

* A job charged to the headroom of a drained pool does not spill over to another pool, as
  `AssignDemand` knows nothing of drain (`orchestrator.go:425`). Drain is forgotten on
  restart, as the set is not persisted (`orchestrator.go:129`).
* `Teardown` does not add a failed deregistration to the error that "collects everything
  that could not be removed" (`teardown.go:28`): the registration may stay behind without
  a word. When its listing of GitHub fails it destroys busy runners, though "never
  touched" (`teardown.go:32`). `excuse` in `Uninstall` stands for both.
* The greedy discount (`orchestrator.go:681`) need not find the largest matching, so with several
  foreign runners a runner too many may be launched (`docs/scaling.md:65` accepts as much of two hosts), and it does not
  look at runner groups.
* An arc whose `/healthz` answers 503 passes `checkNotRunning` for one that is not
  running, and launches runners beside `Teardown`.
* The process provider asks `ps` once per pid and directory and keeps the answer. A pid that
  is recycled under a running arc is therefore signalled, whoever has it: with
  `RecycleWhileUp = TRUE` `SignalsOnlyRunners` fails.
* While a look-alike has the pid of an ended instance, `List` calls the instance running and `Prune`
  leaves it (`Mistaken`); a `Destroy` of it signals the look-alike.
* A runner whose `Create` was cut by a crash before its state file was written stays unseen,
  and `Prune` removes its directory under it. The same happens to a runner whose state file
  exists and cannot be read, and a process that outlives the SIGKILL, whose result is dropped
  (`process.go:376`), is forgotten with its directory (`lost`).
* The filter of `ListRepos` in `Teardown`, `BusyRunners` and `Unregister` matters to a personal
  account only. Its effect on busy runners and on what stays is in the table above; the
  check for busy runners (`teardown.go:122`) does not see such a runner either, so the user is
  not asked.
* `deploy/systemd/arc.service:33-35` says that runners finish their job across a restart; the unit
  sets no `KillMode`, so stopping it ends the processes of the process provider too.
* A failed registration of a webhook is not tried again until the tunnel dies
  (`manager.go:105`).

## 5. Proofs

Every theorem holds for any number of pools, labels, jobs, names, goroutines, pids,
tunnels, tokens and faults. The named assumptions on constants (`PoolsAreDistinct`,
`ReconcileAssumption`, `HostConstants`, `CredentialConstants`, ...) only give them their
types; what a theorem assumes beyond is in its ASSUME.

**Scale, Reconcile**

* `PlanIsSafe`, `EffectiveLimitsInOrder` (`ScaleProofs`): a launch decision stays within
  max, a removal takes only idle surplus, never both.
* `PlanSettles`, `StartingAJobMovesNothing` (`ScaleProofs`): a decision that is carried out
  leaves nothing to launch or remove for the same demand, and a jobless runner for every
  job unless max forbids it; a runner that takes a job leaves the target where it was. So
  the plan does not swing between launching and culling.
* `TightestExists` (`ScaleProofs`): the stable sort has a first element, so a job is charged
  to one of its candidates. The proof takes the least label count, then the least position.
* `TypeCorrect`: `Spec => []TypeOK`. Its one deep conjunct is that no pool's headroom goes
  negative, which needs `TightestExists` and the clamp in `AssignDemand`.
* `LaunchesAreAlone`: a launch in flight means the loop waits in `applyPool` with nothing
  left to destroy. `scaleUp` waits for its goroutines, and the next two rest on that.
* `NoRunnerIsOrphaned` (`OrphansHaveNoRunner`): reap takes a registration only if its
  instance was not listed, nothing is launched while orphans remain, and by
  `LaunchesAlone` nothing was in mid-launch. No assumption on faults.
* `NoJobIsKilled` (`NeverKillsAJob`), assuming no fault `removeRunner`. `NeverKillsAJob` is not
  inductive: it must be known that the *registration* of a target is gone. `RemovalInv`
  adds that a job is executed only under a busy registration, that a target has no
  registration, and that a victim that was unregistered when the pass began still is,
  since nothing is launched until then. `find_job_killed` shows the assumption is needed.
* `YoungAreCapped` (`YoungRunnersWithinMax`), assuming only that instances can be listed
  (`ListingsSucceed`): however many calls fail and however long jobs hang, the runners not
  older than `job_timeout` and the launches fit the largest max that the configuration and the
  operator can set (the max in force, where limits do not change). `CapInv` says
  that `live` covers every such runner of a pool from its listing until its turn in
  `applyPool` (`LiveCovers`), and that from then on runners and the launches still promised
  together fit the max (`PromisesFit`). `MaxIsKept` (`RunnersWithinMax`) follows when no
  instance turns older (`NoLateRunners`). `find_max_blind` and `find_max_overdue` show that
  both assumptions are needed.
* `NoGhostIsLeft` (`ReapLeavesNoGhost`), assuming that reap's calls are answered
  (`ReapIsAnswered`: no failing deregistration or listing of instances, no runner that dies of itself): when a pass
  comes to act on its pools, a registration that its listing showed idle or offline
  belongs to a runner that was listed too, or is gone or busy by now. `SweptInv` says up to which pool that
  is so while reap is on its way (`Swept`), that a name in launch is new to
  the maps of the pass (`LaunchesAreFresh`), and that a busy registration has a running instance (`BusyRun`). This is
  what makes an abandoned registration a leftover of one pass.
* `PlansAreEnough` (`PlansMeetTheDemand`): when a pass has decided on a pool, the runners it
  spares and those it is about to launch make up the floor and one runner for each job of the pool
  beside those seen busy, or the max in force, though limits and drain are read again after the
  demand was assigned. It puts `PlanIsSafe` to work on sets: the victims are at most the
  surplus, the launches as many as were decided on (`LaunchReposAll`).
* `EveryPassGetsDone` (`PassesGetDone`): each step that changes anything of a pass lowers
  `ToDo`, ten numbers in lexicographic order (phase, pools left, jobs to assign, launches,
  victims, targets, orphans, and the launches at each stage), whatever fails and whatever
  GitHub, runners and operator do. A pass therefore has finitely many steps: this is the
  safety half of termination; that the next step is taken is fairness. It needs that
  a poll returns finitely many jobs (`FiniteQueue`). `ToDoIsAMeasure` (the ten numbers are natural) and
  `NoPassIsEndless` (their order has no infinite descent) say what that is worth. The latter is
  no induction over data: `BestStep` narrows a set of measures to its least k-th numbers, ten
  times, by `LeastNatural`.

**Assign** — `AssignTypeCorrect`, `JobsAreChargedOnce`, `SpillsBeforeOverflowing`,
`ScarcePoolsAreSpared`. The first three properties are made inductive together
(`AssignInv`) by `Spent`: what is left of a pool's room and the jobs charged to it add up
to the room it began with, and a pool that is charged beyond it has none left.
`TheDiscountMatches` (`DiscountIsAMatching`) for any list of foreign runners: `DiscountInv` keeps
a matching of the jobs dropped so far with the runners used up, and of each job kept that no
runner still unused covers it; a step either extends the matching by one pair or
keeps the job, and as unused runners only get fewer, what was kept stays rightly kept.

**Overrides** — for any number of handlers, however their requests overlap: `OverridesTypeCorrect`;
`WholeFilesNeedWritesApart` (`WholeIfWritesApart`), from `FileInv`, which says per stage what the
temporary file holds: nothing once it is opened, the whole snapshot when it is renamed;
`OnlyTheOvertaken` (`OnlyOvertakenBreakOrder`), from `OrderInv`: what `Check` accepted is still
acceptable (`StillAccepted`) until another request changes the pool, so only the `Set` of a request
in `overtaken` can break the order; and
`SavesAreAtomic` (`SavedAtomically`), from `ApartInv`: until two saves have met, none are under way at
once and `FileInv` holds. Its step has one case per action (`ServeIsAStep`, `CrashIsAStep`), by what is
pending before and after (`OnlySaver`). The promises one would like to have without condition follow
where requests are served one at a time (`OneAtATime`): `FileAlwaysParses`, `AnswersAreSaved`,
and `OrderIsKept`, since nobody is overtaken then (`NoneOvertaken`; `find_torn_overrides` shows
of the file what a second handler breaks).

**Providers**

* `RunnersAreFound` (`NoRunnerUnseen`), whatever `ps` answers and however pids are recycled.
  `LifeInv` adds, per name and pid: a runner has one process; its state file names it; a
  destruction reaches its last step only with the process gone, unless it is in `lost`; and an
  answer that a pid is alien is never given of a pid that the runner has.
* `FailedCreatesClearUp` (`NothingLeftHalfMade`) from `DockerInv`, which says at which point of
  `Create` a container may exist.
* `StrangersAreSpared` (`SignalsOnlyRunners`), assuming `PsIsReliable` (`ps` answers, no pid that
  a state file names is recycled under a running arc). `SignalInv`: where "ours" is the
  cached answer, the pid belongs to the instance's runner, to nobody, or to a look-alike.
* `PruneIsRight` (`PruneKnowsTheDead`), under the same assumption: Prune, which goes by a pid
  and an old answer, misses no instance whose runner ended unless a look-alike has the pid
  (`SignalInv`), and takes none for finished whose runner is up, but one in `lost` (`LifeInv`).
* `ProvidersImplementInstances` (`LivesGoOneWay`), under the same assumption: every step changes the
  lives of a set of names, each to a later one, or back from exited to running where a
  look-alike has the pid (`Mistaken`, `mistaken` in `Instances`). One lemma per group of actions.

**Uninstall** — `TeardownSparesTheBusy`: `SpareInv` says that Teardown's old picture of GitHub
holds where it matters (who is not in it is not registered, since no arc registers, or belongs to a
repository that the list left out) and that the target of a destruction is off. `TeardownReportsWhatIsLeft`: `ReportInv` says that
what remains and is not reported is still on one of the lists to come (`Covered`), or belongs to
a repository in `missed`.
`TheNamedAreCut` (`OnlyTheNamedAreCut`) adds to it that no directory is deleted before the report is
complete: a busy runner may lose its files, but not without being named.

**Demand** — `HooksAreOursAndCurrent`, `HooksOfOthersStay` from `HookInv`: what was listed of a
scope is still exactly what GitHub has of ours there. `PollsAreComplete`
(`PollMissesNoQueuedJob`), assuming `OnePage` (finitely many runs and jobs, no more than a page):
`JobInv` follows a job through the two listings; its run may leave "queued" only for "in
progress", which is listed later, so it is never missed in between. The order of
the two calls matters, and `BugInProgressFirst` swaps it. `find_second_page` shows
that the assumption is needed. `TheDoorbellIsHeard` (`NoRingIsLost`), under the same assumption:
as long as a queued job whose event was accepted is not found, either the loop is poked,
or the pass under way has its repository still before it, has failed on it, or is going to
find the job (`BellInv` builds on `JobInv`). So the channel of one place, which drops a ring
that finds it full, loses nothing; `RingsAreAnswered` rests on it.

**GhClient** — `StormReadsOnce`, `CacheStaysComplete`, `BodiesAreConfirmed`, `PostsRepeatInDoubt`,
`RefusedTokenIsReplaced`, all from `CredInv` (a read that has ended was followed by a
cooldown or a new token; a running arc is verified) and `WorkerOK` (a cached body
belongs to its tag, a request under way carries that tag, and its POST has taken effect
no more often than its outcome was in doubt).

*Only model-checked.* Liveness (`LeftoversGo`, `JobsServed`, `DrainedPoolEmpties`, `Recovers`,
`DebrisGoes`, `RingsAreAnswered`), as the provers know no fairness. The safety that some
of them rest on is proved: `PassesGetDone` (a pass ends) for the first three, `ReapLeavesNoGhost` (what it leaves no leftover of) for
`LeftoversGo`, `PlansMeetTheDemand` (jobs get runners) for `JobsServed`, `PruneKnowsTheDead` (the
dead are recognised) for `DebrisGoes`, `NoRingIsLost` for `RingsAreAnswered`. Every invariant
and action property of the runs is a theorem.

## 6. Not modelled

* **Configuration, host identity**: sequential code over text. What validation guarantees is
  in the assumptions on the constants (min not above max, distinct pools).
* **Template bootstrap, deployment, images**: downloads, packaging.
* **Most of the command line** (`status`, `doctor`, `update`, `install`): one-shot requests
  with output. `Uninstall` has the parts it calls.
* **App tokens** in `auth.go`: minted and replaced under one lock, with no state to disagree
  with. `Credentials` is the vault mode, which has one.
* **The filters of `ListRepos` one by one** (included, excluded, archived, active): `Uninstall` has
  their effect, a list of repositories that changes. In `Reconcile` and `Demand` the repositories are
  fixed: a job in one that is not watched is none of theirs. **Labels of jobs** outside `Assign`,
  **listings of runners page by page**: data that no property tells apart.
* **Health counter, snapshot, metrics**: they only report. **`cloudflared`'s download**, the
  **docker wire protocol** and **Windows process calls**: I/O with the same steps as
  what is modelled.
* In `Reconcile`: `ListRunners` and `PollJobs` are one step (`Demand` has the latter in parts),
  the provider's `Create` two (`ProcessHost` and `DockerHost` have all), requests answer as
  `GhClient` says they do.

## 7. Plan

What is left, in order of importance.

1. `Reconcile` over `Instances`: replace its provider actions by steps of the abstract
   provider, so that what `Providers` promises is what the loop assumes, by construction.
2. A changing `ListRepos` and the budget of calls (`orchestrator.go`, `rateLimit`) in `Demand`: a
   repository that is skipped for lack of budget is polled later.
3. Two hosts with one organization: foreign runners inside `Reconcile`.
4. App tokens and their expiry beside `GhClient`.
