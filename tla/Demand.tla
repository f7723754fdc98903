------------------------------- MODULE Demand --------------------------------
(***************************************************************************)
(* How a queued job becomes known to the loop: the doorbell of Webhook,    *)
(* the ticker, and PollJobs (internal/ghapi/jobs.go), which lists the runs *)
(* of each repository by status, one status after the other, and then      *)
(* reads the jobs of every run, while jobs queue, start and end.           *)
(***************************************************************************)
EXTENDS Webhook, FiniteSetsExt

CONSTANTS
    Repos,    \* the watched repositories
    Runs,     \* workflow runs
    Jobs,     \* their jobs
    RepoOf,   \* run -> repository
    RunOf,    \* job -> run
    ScopeOf,  \* repository -> the scope of the hook that covers it
    PageSize  \* entries in a page of a listing, 100 in the code

ASSUME DemandConstants ==
    /\ RepoOf \in [Runs -> Repos]
    /\ RunOf \in [Jobs -> Runs]
    /\ ScopeOf \in [Repos -> Scopes]
    /\ PageSize \in Nat \ {0}

VARIABLES
    run,      \* run -> its status
    job,      \* job -> its status
    polling,  \* a pass is under way
    stage,    \* repository -> where repoActiveJobs stands
    toRead,   \* repository -> the runs it listed and has not read
    found,    \* the queued jobs it read
    steady,   \* history: jobs queued since the poll of their repository began
    rung      \* history: queued jobs whose event rang, and no pass has answered

pollVars   == <<polling, stage, toRead, found>>
githubVars == <<run, job>>
vars == <<webhookVars, githubVars, pollVars, steady, rung>>

JobsOf(r)  == {j \in Jobs : RepoOf[RunOf[j]] = r}
Queued     == {j \in Jobs : job[j] = "queued"}

TypeOK ==
    /\ start \in 1..MaxStarts /\ tunnels \in 0..MaxTunnels /\ url \in 0..MaxTunnels
    /\ open \in BOOLEAN /\ mgr \in {"starting", "registering", "serving"}
    /\ scopesLeft \subseteq Scopes /\ registered \subseteq Scopes
    /\ listed \subseteq [scope: Scopes, ours: SUBSET hooks]
    /\ hooks \subseteq Hook /\ poke \in BOOLEAN /\ losses \in 0..MaxLosses
    /\ mail \subseteq [url: 0..MaxTunnels, secret: 0..MaxStarts, job: Jobs]
    /\ run \in [Runs -> {"none", "queued", "in_progress", "completed"}]
    /\ job \in [Jobs -> {"none", "queued", "in_progress", "completed"}]
    /\ polling \in BOOLEAN
    /\ stage \in [Repos -> {"queued", "in_progress", "jobs", "done", "failed"}]
    /\ toRead \in [Repos -> SUBSET Runs]
    /\ \A r \in Repos : stage[r] \in {"done", "failed"} => toRead[r] = {}
    /\ found \subseteq Jobs /\ steady \subseteq Jobs /\ rung \subseteq Jobs

Init ==
    /\ WebhookInit
    /\ run = [w \in Runs |-> "none"]
    /\ job = [j \in Jobs |-> "none"]
    /\ polling = FALSE
    /\ stage = [r \in Repos |-> "done"]
    /\ toRead = [r \in Repos |-> {}]
    /\ found = {} /\ steady = {} /\ rung = {}

-----------------------------------------------------------------------------
(* GitHub.  A job may queue when its run has started already (a leg of a   *)
(* matrix, a job that needs another).                                      *)
JobQueues(j) ==
    /\ job[j] = "none" /\ run[RunOf[j]] # "completed"
    /\ job' = [job EXCEPT ![j] = "queued"]
    /\ run' = [run EXCEPT ![RunOf[j]] = IF run[RunOf[j]] = "none" THEN "queued" ELSE @]
    /\ Ring(ScopeOf[RepoOf[RunOf[j]]], j)
    /\ UNCHANGED <<hookVars, poke, losses, pollVars, steady, rung>>

JobStarts(j) ==
    /\ job[j] = "queued"
    /\ job' = [job EXCEPT ![j] = "in_progress"]
    /\ run' = [run EXCEPT ![RunOf[j]] = "in_progress"]
    /\ steady' = steady \ {j} /\ rung' = rung \ {j}
    /\ UNCHANGED <<webhookVars, pollVars>>

(* a run is complete with its last job *)
JobEnds(j) ==
    /\ job[j] = "in_progress"
    /\ job' = [job EXCEPT ![j] = "completed"]
    /\ \/ UNCHANGED run
          /\ \E i \in Jobs \ {j} : RunOf[i] = RunOf[j] /\ job[i] # "completed"
       \/ run' = [run EXCEPT ![RunOf[j]] = "completed"]
          /\ \A i \in Jobs \ {j} : RunOf[i] = RunOf[j] => job[i] \in {"none", "completed"}
    /\ Ring(ScopeOf[RepoOf[RunOf[j]]], j)
    /\ UNCHANGED <<hookVars, poke, losses, pollVars, steady, rung>>

BugPokedOnlyWhenIdle(m) ==
    /\ m \in mail /\ Arrives(m)
    /\ poke' = (poke \/ ~polling)
    /\ mail' \in {mail, mail \ {m}}
    /\ rung' = rung \cup ({m.job} \cap Queued)
    /\ UNCHANGED <<hookVars, losses, githubVars, pollVars, steady>>

(* the doorbell is rung *)
Rings(m) ==
    /\ Deliver(m)
    /\ rung' = rung \cup ({m.job} \cap Queued)
    /\ UNCHANGED <<githubVars, pollVars, steady>>

-----------------------------------------------------------------------------
BeginPoll ==
    /\ polling' = TRUE
    /\ stage' = [r \in Repos |-> "queued"]
    /\ toRead' = [r \in Repos |-> {}]
    /\ found' = {}

(* The loop wakes to the ticker or to a poke. *)
Tick ==
    /\ ~polling
    /\ BeginPoll
    /\ UNCHANGED <<webhookVars, githubVars, steady, rung>>

Poked ==
    /\ ~polling /\ poke
    /\ BeginPoll
    /\ poke' = FALSE
    /\ UNCHANGED <<hookVars, mail, losses, githubVars, steady, rung>>

(* the pass ends before it polls: no budget, no list of repositories or of *)
(* runners                                                                 *)
PassFails ==
    /\ ~polling
    /\ Loss
    /\ poke' \in {poke, FALSE}
    /\ rung' = {}
    /\ UNCHANGED <<hookVars, mail, githubVars, pollVars, steady>>

(* repoActiveJobs: the runs that are queued, then those in progress, then   *)
(* the jobs of each, of which it reads the first page only                 *)
FirstPage(S) == IF Cardinality(S) <= PageSize THEN {S} ELSE kSubset(PageSize, S)

RunsThatAre(r, status) == {w \in Runs : RepoOf[w] = r /\ run[w] = status}
JobsIn(w) == {j \in Jobs : RunOf[j] = w /\ job[j] # "none"}

NextStage == [queued |-> "in_progress", in_progress |-> "jobs"]

BugInProgressFirst(r) ==
    LET other == [queued |-> "in_progress", in_progress |-> "queued"]
    IN  /\ polling /\ stage[r] \in {"queued", "in_progress"}
        /\ \E page \in FirstPage(RunsThatAre(r, other[stage[r]])) :
              toRead' = [toRead EXCEPT ![r] = @ \cup page]
        /\ stage' = [stage EXCEPT ![r] = NextStage[@]]
        /\ steady' = IF stage[r] = "queued" THEN steady \cup (Queued \cap JobsOf(r)) ELSE steady
        /\ UNCHANGED <<webhookVars, githubVars, polling, found, rung>>

ListRuns(r) ==
    /\ polling /\ stage[r] \in {"queued", "in_progress"}
    /\ \E page \in FirstPage(RunsThatAre(r, stage[r])) :
          toRead' = [toRead EXCEPT ![r] = @ \cup page]
    /\ stage' = [stage EXCEPT ![r] = NextStage[@]]
    /\ steady' = IF stage[r] = "queued" THEN steady \cup (Queued \cap JobsOf(r)) ELSE steady
    /\ UNCHANGED <<webhookVars, githubVars, polling, found, rung>>

(* a run that was deleted in the meantime answers 404 and is passed over:  *)
(* the same as reading one that has ended, which has no queued job         *)
ReadJobs(r, w) ==
    /\ polling /\ stage[r] = "jobs" /\ w \in toRead[r]
    /\ toRead' = [toRead EXCEPT ![r] = @ \ {w}]
    /\ \E page \in FirstPage(JobsIn(w)) : found' = found \cup (page \cap Queued)
    /\ UNCHANGED <<webhookVars, githubVars, polling, stage, steady, rung>>

RepoDone(r) ==
    /\ polling /\ stage[r] = "jobs" /\ toRead[r] = {}
    /\ stage' = [stage EXCEPT ![r] = "done"]
    /\ UNCHANGED <<webhookVars, githubVars, polling, toRead, found, steady, rung>>

(* one broken repository does not blind the poll to the others: what was   *)
(* found in it is dropped                                                  *)
RepoFails(r) ==
    /\ polling /\ stage[r] \notin {"done", "failed"}
    /\ Loss
    /\ stage' = [stage EXCEPT ![r] = "failed"]
    /\ toRead' = [toRead EXCEPT ![r] = {}]
    /\ found' = found \ JobsOf(r)
    /\ UNCHANGED <<hookVars, mail, poke, githubVars, polling, steady, rung>>

BugBellClearedAfter ==
    /\ polling /\ \A r \in Repos : stage[r] \in {"done", "failed"}
    /\ polling' = FALSE
    /\ poke' = FALSE
    /\ rung' = {j \in rung \ found : stage[RepoOf[RunOf[j]]] = "done"}
    /\ steady' = {}
    /\ UNCHANGED <<hookVars, mail, losses, githubVars, stage, toRead, found>>

(* what was queued when its repository was polled is answered *)
EndPoll ==
    /\ polling /\ \A r \in Repos : stage[r] \in {"done", "failed"}
    /\ polling' = FALSE
    /\ rung' = {j \in rung \ found : stage[RepoOf[RunOf[j]]] = "done"}
    /\ steady' = {}
    /\ UNCHANGED <<webhookVars, githubVars, stage, toRead, found>>

Restart ==
    /\ RestartPipeline
    /\ polling' = FALSE
    /\ stage' = [r \in Repos |-> "done"]
    /\ toRead' = [r \in Repos |-> {}]
    /\ found' = {} /\ steady' = {} /\ rung' = {}
    /\ UNCHANGED githubVars

-----------------------------------------------------------------------------
PollStep == \/ EndPoll
            \/ \E r \in Repos : ListRuns(r) \/ RepoDone(r) \/ \E w \in Runs : ReadJobs(r, w)

Pipeline == PipelineStep /\ UNCHANGED <<githubVars, pollVars, steady, rung>>

Next ==
    \/ Pipeline
    \/ TunnelDies /\ UNCHANGED <<githubVars, pollVars, steady, rung>>
    \/ \E m \in mail : Rings(m) \/ (Lose(m) /\ UNCHANGED <<githubVars, pollVars, steady, rung>>)
    \/ \E j \in Jobs : JobQueues(j) \/ JobStarts(j) \/ JobEnds(j)
    \/ Tick \/ Poked \/ PassFails \/ PollStep \/ \E r \in Repos : RepoFails(r)
    \/ Restart

Spec == Init /\ [][Next]_vars

(* Calls return, and a woken loop begins a pass.  Nothing is assumed of    *)
(* the ticker, whose interval is long when there are webhooks.             *)
FairSpec == Spec /\ WF_vars(PollStep) /\ WF_vars(Poked)

-----------------------------------------------------------------------------
(* "PollJobs returns every self-hosted job across the given repos that is   *)
(* waiting for a runner": a poll of a repository that succeeds returns     *)
(* every job that was queued all the time, whatever its run and the other  *)
(* jobs did between the calls.                                             *)
PollMissesNoQueuedJob ==
    \A j \in steady : stage[RepoOf[RunOf[j]]] = "done" => j \in found

(* orchestrator.go:217: a queued job whose event was accepted is never      *)
(* forgotten: the loop will wake for it, or the pass under way has its      *)
(* repository still to list, has the job, or has failed on the repository. *)
NoRingIsLost ==
    \A j \in rung : LET r == RepoOf[RunOf[j]] IN
        poke \/ (polling /\ (stage[r] \in {"queued", "failed"} \/ j \in steady))

(* A queued job whose event was accepted is found without the ticker,      *)
(* unless the pass it woke fails: a poke during a pass is not lost.        *)
RingsAreAnswered == \A j \in Jobs : j \in rung ~> j \notin rung
=============================================================================
