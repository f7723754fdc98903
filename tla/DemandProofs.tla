---------------------------- MODULE DemandProofs -----------------------------
(***************************************************************************)
(* What the webhook pipeline keeps at GitHub and what a poll returns, for  *)
(* any scopes, repositories, runs and jobs, and for any tunnels, restarts, *)
(* losses and failures.                                                    *)
(***************************************************************************)
EXTENDS Demand, FiniteSetTheorems, TLAPS

(* What EnsureWebhook listed stays true until it acts, and a scope is      *)
(* counted as registered only once it no longer waits.                     *)
HookInv ==
    /\ \A g, h \in hooks : g.host = Me /\ h.host = Me /\ g.scope = h.scope => g = h
    /\ \A s \in registered : Current(s) \in hooks
    /\ \A l \in listed : l.ours = Mine(l.scope) /\ l.scope \in scopesLeft
    /\ registered \cap scopesLeft = {}
    /\ \A s \in Scopes : \E h \in hooks : h.scope = s /\ h.host = Other

(* What becomes of the hooks when those of one scope are rewritten.        *)
LEMMA Rewritten ==
    ASSUME TypeOK, HookInv, NEW s \in Scopes, NEW l \in listed, l.scope = s,
           \/ l.ours = {} /\ hooks' = hooks \cup {Current(s)}
           \/ \E h \in l.ours : hooks' = (hooks \ {h}) \cup {Current(s)}
    PROVE  /\ hooks' \subseteq Hook /\ Current(s) \in hooks'
           /\ \A g, h \in hooks' : g.host = Me /\ h.host = Me /\ g.scope = h.scope => g = h
           /\ \A k \in Scopes : \E h \in hooks' : h.scope = k /\ h.host = Other
           /\ \A h \in hooks : h.scope # s => h \in hooks'
<1>1. Current(s) \in Hook /\ Current(s).scope = s /\ Current(s).host = Me
  BY WebhookConstants DEF TypeOK, Current, Hook
<1>2. l.ours = {h \in hooks : h.scope = s /\ h.host = Me}
  BY DEF HookInv, Mine
<1>3. \A h \in hooks' : h = Current(s) \/ (h \in hooks /\ ~(h.scope = s /\ h.host = Me))
  BY <1>2 DEF HookInv
<1>4. \A h \in hooks : ~(h.scope = s /\ h.host = Me) => h \in hooks'
  BY <1>2
<1>5. \A g, h \in hooks' : g.host = Me /\ h.host = Me /\ g.scope = h.scope => g = h
  BY <1>1, <1>3 DEF HookInv
<1>6. \A k \in Scopes : \E h \in hooks' : h.scope = k /\ h.host = Other
  BY <1>4, WebhookConstants DEF HookInv
<1>7. hooks' \subseteq Hook
  BY <1>1, <1>3 DEF TypeOK
<1> QED
  BY <1>4, <1>5, <1>6, <1>7

-----------------------------------------------------------------------------
(* The type invariant, the pipeline first.                                 *)
HookType ==
    /\ start \in 1..MaxStarts /\ tunnels \in 0..MaxTunnels /\ url \in 0..MaxTunnels
    /\ open \in BOOLEAN /\ mgr \in {"starting", "registering", "serving"}
    /\ scopesLeft \subseteq Scopes /\ registered \subseteq Scopes
    /\ listed \subseteq [scope: Scopes, ours: SUBSET hooks]
    /\ hooks \subseteq Hook

PollType ==
    /\ run \in [Runs -> {"none", "queued", "in_progress", "completed"}]
    /\ job \in [Jobs -> {"none", "queued", "in_progress", "completed"}]
    /\ polling \in BOOLEAN
    /\ stage \in [Repos -> {"queued", "in_progress", "jobs", "done", "failed"}]
    /\ toRead \in [Repos -> SUBSET Runs]
    /\ \A r \in Repos : stage[r] \in {"done", "failed"} => toRead[r] = {}
    /\ found \subseteq Jobs /\ steady \subseteq Jobs /\ rung \subseteq Jobs

BellType == /\ poke \in BOOLEAN /\ losses \in 0..MaxLosses
            /\ mail \subseteq [url: 0..MaxTunnels, secret: 0..MaxStarts, job: Jobs]

LEMMA TypeParts ==
    /\ TypeOK <=> HookType /\ BellType /\ PollType
    /\ TypeOK' <=> HookType' /\ BellType' /\ PollType'
BY DEF TypeOK, HookType, BellType, PollType

LEMMA InitOK == Init => TypeOK /\ HookInv
<1> SUFFICES ASSUME Init PROVE TypeOK /\ HookInv
  OBVIOUS
<1> USE WebhookConstants DEF Init, WebhookInit
<1>1. hooks \subseteq Hook
  BY DEF Hook
<1>2. TypeOK
  <2>0. open \in BOOLEAN /\ poke \in BOOLEAN
    OBVIOUS
  <2>1. start \in 1..MaxStarts /\ tunnels \in 0..MaxTunnels /\ url \in 0..MaxTunnels
    OBVIOUS
  <2>3. HookType
    BY <1>1, <2>0, <2>1 DEF HookType
  <2>4. BellType
    BY <2>0 DEF BellType
  <2>2. PollType
    BY DEF PollType
  <2> QED
    BY <2>2, <2>3, <2>4, TypeParts
<1>3. \A h \in hooks : h.host # Me
  OBVIOUS
<1>4. \A s \in Scopes : \E h \in hooks : h.scope = s /\ h.host = Other
  <2> TAKE s \in Scopes
  <2>1. [scope |-> s, host |-> Other, url |-> 0, secret |-> 0] \in hooks
    OBVIOUS
  <2> QED
    BY <2>1
<1> QED
  BY <1>2, <1>3, <1>4 DEF HookInv

LEMMA PipelineStepOK ==
    ASSUME TypeOK, HookInv, PipelineStep
    PROVE  HookType' /\ HookInv' /\ losses' \in 0..MaxLosses /\ UNCHANGED <<mail, poke>>
<1> DEFINE Goal == HookType' /\ HookInv' /\ losses' \in 0..MaxLosses /\ UNCHANGED <<mail, poke>>
<1> USE WebhookConstants DEF HookType, Loss
<1>0. HookType /\ losses \in 0..MaxLosses
  BY DEF TypeOK
<1>1. CASE TunnelUp
  <2>1. HookType' /\ losses' \in 0..MaxLosses /\ UNCHANGED <<mail, poke>>
    BY <1>0, <1>1 DEF TunnelUp
  <2>2. \A l \in listed : l.scope \in Scopes
    BY <1>0
  <2>3. HookInv'
    BY <1>1, <2>2 DEF TunnelUp, HookInv, Mine
  <2> QED
    BY <2>1, <2>3
<1>2. CASE ReposFail \/ Registered \/ TunnelExited
  BY <1>0, <1>2 DEF ReposFail, Registered, TunnelExited, HookInv, Mine, Current
<1>3. ASSUME NEW s \in Scopes, ListHooks(s) PROVE Goal
  BY <1>0, <1>3 DEF ListHooks, HookInv, Mine, Current
<1>4. ASSUME NEW s \in Scopes, NEW l \in listed, l.scope = s, Settled(s),
             \/ l.ours = {} /\ hooks' = hooks \cup {Current(s)}
             \/ \E h \in l.ours : hooks' = (hooks \ {h}) \cup {Current(s)},
             registered' \in {registered, registered \cup {s}},
             UNCHANGED <<start, tunnels, url, open, mgr>>
      PROVE  HookType' /\ HookInv'
  <2>1. /\ hooks' \subseteq Hook /\ Current(s) \in hooks'
        /\ \A g, h \in hooks' : g.host = Me /\ h.host = Me /\ g.scope = h.scope => g = h
        /\ \A k \in Scopes : \E h \in hooks' : h.scope = k /\ h.host = Other
        /\ \A h \in hooks : h.scope # s => h \in hooks'
    BY <1>4, Rewritten
  <2>2. s \in scopesLeft /\ s \notin registered
    BY <1>4 DEF HookInv
  <2>3. \A k \in registered' : Current(k)' \in hooks'
    BY <1>4, <2>1, <2>2 DEF HookInv, Current
  <2>4. HookType'
    BY <1>0, <1>4, <2>1 DEF Settled
  <2> QED
    BY <1>4, <2>1, <2>3, <2>4 DEF HookInv, Settled
<1>5. ASSUME NEW s \in Scopes, EnsureWebhook(s) PROVE Goal
  BY <1>0, <1>4, <1>5 DEF EnsureWebhook
<1>6. ASSUME NEW s \in Scopes, EnsureWebhookFails(s) PROVE Goal
  <2>0. losses' \in 0..MaxLosses /\ UNCHANGED <<mail, poke>>
    BY <1>0, <1>6 DEF EnsureWebhookFails
  <2>1. CASE UNCHANGED hooks
    BY <1>0, <1>6, <2>0, <2>1 DEF EnsureWebhookFails, Settled, HookInv, Current
  <2>2. CASE ~UNCHANGED hooks
    BY <1>4, <1>6, <2>0, <2>2 DEF EnsureWebhookFails
  <2> QED
    BY <2>1, <2>2
<1> QED
  BY <1>1, <1>2, <1>3, <1>5, <1>6 DEF PipelineStep

(* The steps of GitHub and of the poll leave the pipeline alone.           *)
LEMMA HooksUnchanged ==
    HookType /\ HookInv /\ UNCHANGED hookVars => HookType' /\ HookInv'
BY DEF hookVars, HookType, HookInv, Mine, Current

LEMMA RestartOK ==
    TypeOK /\ RestartPipeline =>
        (HookInv => HookType' /\ HookInv' /\ BellType')
<1> SUFFICES ASSUME TypeOK, RestartPipeline, HookInv PROVE HookType' /\ HookInv' /\ BellType'
  OBVIOUS
<1> USE WebhookConstants DEF RestartPipeline
<1>1. BellType'
  BY DEF TypeOK, BellType
<1>2. HookType'
  <2>1. open' \in BOOLEAN
    OBVIOUS
  <2>2. start' \in 1..MaxStarts /\ url' \in 0..MaxTunnels
    BY DEF TypeOK
  <2>3. hooks' \subseteq Hook /\ tunnels' \in 0..MaxTunnels
    BY DEF TypeOK
  <2> QED
    BY <2>1, <2>2, <2>3 DEF HookType
<1>3. HookInv'
  BY DEF HookInv
<1> QED
  BY <1>1, <1>2, <1>3

-----------------------------------------------------------------------------
(* A job that has been queued since the poll of its repository began: its  *)
(* run is in one of the two listings still to be made, or is to be read,   *)
(* or the job was found.                                                   *)
JobInv(j) ==
    LET w == RunOf[j]
        r == RepoOf[RunOf[j]]
    IN  /\ job[j] = "queued" => run[w] \in {"queued", "in_progress"}
        /\ j \in steady =>
              /\ polling /\ job[j] = "queued" /\ stage[r] # "queued"
              /\ stage[r] = "in_progress" => run[w] = "in_progress" \/ w \in toRead[r]
              /\ stage[r] = "jobs" => w \in toRead[r] \/ j \in found
              /\ stage[r] = "done" => j \in found

PollInv == \A j \in Jobs : JobInv(j)

(* The first page holds everything.                                        *)
OnePage == /\ IsFiniteSet(Runs) /\ Cardinality(Runs) <= PageSize
           /\ IsFiniteSet(Jobs) /\ Cardinality(Jobs) <= PageSize

LEMMA AllOnFirstPage ==
    OnePage => /\ \A S \in SUBSET Runs : FirstPage(S) = {S}
               /\ \A S \in SUBSET Jobs : FirstPage(S) = {S}
<1> SUFFICES ASSUME OnePage PROVE /\ \A S \in SUBSET Runs : FirstPage(S) = {S}
                                  /\ \A S \in SUBSET Jobs : FirstPage(S) = {S}
  OBVIOUS
<1>1. \A T, S : IsFiniteSet(T) /\ Cardinality(T) <= PageSize /\ S \subseteq T => Cardinality(S) <= PageSize
  BY FS_Subset, FS_CardinalityType, DemandConstants
<1> QED
  BY <1>1 DEF OnePage, FirstPage

LEMMA PageIn == \A S : \A page \in FirstPage(S) : page \subseteq S
BY DEF FirstPage, kSubset

LEMMA GithubType ==
    ASSUME TypeOK, NEW j \in Jobs, JobQueues(j) \/ JobStarts(j) \/ JobEnds(j)
    PROVE  PollType' /\ BellType'
<1> USE DemandConstants, WebhookConstants DEF TypeOK, PollType, BellType, githubVars, pollVars, webhookVars
<1>1. ASSUME NEW s \in Scopes, Ring(s, j) PROVE mail' \subseteq [url: 0..MaxTunnels, secret: 0..MaxStarts, job: Jobs]
  <2>1. \A h \in hooks : h.url \in 0..MaxTunnels /\ h.secret \in 0..MaxStarts
    BY DEF Hook
  <2> QED
    BY <1>1, <2>1 DEF Ring
<1>2. ScopeOf[RepoOf[RunOf[j]]] \in Scopes /\ RunOf[j] \in Runs
  OBVIOUS
<1>3. CASE JobQueues(j)
  BY <1>1, <1>2, <1>3 DEF JobQueues
<1>4. CASE JobStarts(j)
  BY <1>2, <1>4 DEF JobStarts
<1>5. CASE JobEnds(j)
  BY <1>1, <1>2, <1>5 DEF JobEnds
<1> QED
  BY <1>3, <1>4, <1>5

LEMMA PollTypeOK ==
    ASSUME TypeOK, \/ Tick \/ Poked \/ PassFails \/ PollStep \/ \E r \in Repos : RepoFails(r)
    PROVE  PollType' /\ BellType' /\ UNCHANGED hookVars
<1> DEFINE Goal == PollType' /\ BellType' /\ UNCHANGED hookVars
<1> USE WebhookConstants DEF PollType, BellType, githubVars, pollVars, webhookVars, Loss
<1>0. PollType /\ BellType
  BY TypeParts
<1>1. CASE Tick \/ Poked
  BY <1>0, <1>1 DEF Tick, Poked, BeginPoll
<1>2. CASE PassFails
  <2>1. poke' \in BOOLEAN
    BY <1>0, <1>2 DEF PassFails
  <2>2. losses' \in 0..MaxLosses /\ rung' = {} /\ UNCHANGED <<hookVars, mail, githubVars, pollVars, steady>>
    BY <1>0, <1>2 DEF PassFails
  <2> QED
    BY <1>0, <2>1, <2>2
<1>3. ASSUME NEW r \in Repos, ListRuns(r) PROVE Goal
  <2>1. PICK page \in FirstPage(RunsThatAre(r, stage[r])) :
            toRead' = [toRead EXCEPT ![r] = @ \cup page]
    BY <1>3 DEF ListRuns
  <2>2. page \subseteq Runs
    BY <2>1, PageIn DEF RunsThatAre
  <2>3. steady' \subseteq Jobs
    BY <1>0, <1>3 DEF ListRuns, Queued
  <2> QED
    BY <1>0, <1>3, <2>1, <2>2, <2>3 DEF ListRuns, NextStage
<1>4. ASSUME NEW r \in Repos, NEW w \in Runs, ReadJobs(r, w) PROVE Goal
  <2>1. found' \subseteq Jobs
    BY <1>0, <1>4 DEF ReadJobs, Queued
  <2> QED
    BY <1>0, <1>4, <2>1 DEF ReadJobs
<1>5. ASSUME NEW r \in Repos, RepoDone(r) \/ RepoFails(r) PROVE Goal
  BY <1>0, <1>5 DEF RepoDone, RepoFails
<1>6. CASE EndPoll
  BY <1>0, <1>6 DEF EndPoll
<1> QED
  BY <1>1, <1>2, <1>3, <1>4, <1>5, <1>6 DEF PollStep

(* A poll keeps its promise whatever GitHub does between its calls.        *)
LEMMA GithubKeepsPoll ==
    ASSUME TypeOK, PollInv, NEW j \in Jobs, JobQueues(j) \/ JobStarts(j) \/ JobEnds(j)
    PROVE  PollInv'
<1> SUFFICES ASSUME NEW i \in Jobs PROVE JobInv(i)'
  BY DEF PollInv
<1>0. /\ JobInv(i) /\ JobInv(j)
      /\ RunOf[i] \in Runs /\ RunOf[j] \in Runs /\ RepoOf[RunOf[i]] \in Repos
      /\ job \in [Jobs -> {"none", "queued", "in_progress", "completed"}]
      /\ run \in [Runs -> {"none", "queued", "in_progress", "completed"}]
  BY DemandConstants DEF PollInv, TypeOK
<1> USE DEF JobInv, pollVars
<1>1. CASE JobQueues(j)
  BY <1>0, <1>1 DEF JobQueues
<1>2. CASE JobStarts(j)
  BY <1>0, <1>2 DEF JobStarts
<1>3. CASE JobEnds(j)
  BY <1>0, <1>3 DEF JobEnds
<1> QED
  BY <1>1, <1>2, <1>3

LEMMA PollKeepsPoll ==
    ASSUME OnePage, TypeOK, PollInv,
           \/ Tick \/ Poked \/ PassFails \/ PollStep \/ \E r \in Repos : RepoFails(r)
    PROVE  PollInv'
<1> SUFFICES ASSUME NEW i \in Jobs PROVE JobInv(i)'
  BY DEF PollInv
<1> DEFINE w == RunOf[i]
           q == RepoOf[RunOf[i]]
<1>0. /\ JobInv(i) /\ w \in Runs /\ q \in Repos
      /\ stage \in [Repos -> {"queued", "in_progress", "jobs", "done", "failed"}]
      /\ toRead \in [Repos -> SUBSET Runs]
      /\ job \in [Jobs -> {"none", "queued", "in_progress", "completed"}]
  BY DemandConstants DEF PollInv, TypeOK
<1> USE DEF JobInv, githubVars, pollVars
<1>1. CASE Tick \/ Poked
  BY <1>0, <1>1 DEF Tick, Poked, BeginPoll
<1>2. CASE PassFails
  BY <1>0, <1>2 DEF PassFails
<1>3. ASSUME NEW r \in Repos, ListRuns(r) PROVE JobInv(i)'
  <2>1. /\ toRead' = [toRead EXCEPT ![r] = @ \cup RunsThatAre(r, stage[r])]
        /\ stage[r] \in {"queued", "in_progress"} /\ polling
        /\ stage' = [stage EXCEPT ![r] = IF stage[r] = "queued" THEN "in_progress" ELSE "jobs"]
        /\ steady' = IF stage[r] = "queued" THEN steady \cup (Queued \cap JobsOf(r)) ELSE steady
        /\ UNCHANGED <<run, job, polling, found>>
    <3>1. RunsThatAre(r, stage[r]) \subseteq Runs
      BY DEF RunsThatAre
    <3>2. FirstPage(RunsThatAre(r, stage[r])) = {RunsThatAre(r, stage[r])}
      BY <3>1, AllOnFirstPage
    <3>3. stage[r] \in {"queued", "in_progress"}
      BY <1>3 DEF ListRuns
    <3>4. stage' = [stage EXCEPT ![r] = IF stage[r] = "queued" THEN "in_progress" ELSE "jobs"]
      <4>1. stage' = [stage EXCEPT ![r] = NextStage[stage[r]]]
        BY <1>3 DEF ListRuns
      <4>2. NextStage["queued"] = "in_progress" /\ NextStage["in_progress"] = "jobs"
        BY DEF NextStage
      <4> QED
        BY <3>3, <4>1, <4>2
    <3> QED
      BY <1>3, <3>2, <3>3, <3>4 DEF ListRuns
  <2>2. CASE q # r
    BY <1>0, <2>1, <2>2 DEF JobsOf
  <2>3. CASE q = r
    <3>1. run[w] = stage[r] => w \in toRead'[r]
      BY <1>0, <2>1, <2>3 DEF RunsThatAre
    <3>2. \A v \in toRead[r] : v \in toRead'[r]
      BY <1>0, <2>1
    <3>3. CASE stage[r] = "queued"
      <4>1. i \in steady' => job[i] = "queued" /\ run[w] \in {"queued", "in_progress"}
        BY <1>0, <2>1, <2>3, <3>3 DEF Queued
      <4> QED
        BY <1>0, <2>1, <2>3, <3>1, <3>3, <4>1
    <3>4. CASE stage[r] = "in_progress"
      BY <1>0, <2>1, <2>3, <3>1, <3>2, <3>4
    <3> QED
      BY <2>1, <3>3, <3>4
  <2> QED
    BY <2>2, <2>3
<1>4. ASSUME NEW r \in Repos, NEW v \in Runs, ReadJobs(r, v) PROVE JobInv(i)'
  <2>1. found' = found \cup (JobsIn(v) \cap Queued)
    BY <1>4, AllOnFirstPage DEF ReadJobs, JobsIn
  <2>2. w = v /\ job[i] = "queued" => i \in found'
    BY <2>1 DEF JobsIn, Queued
  <2> QED
    BY <1>0, <1>4, <2>1, <2>2 DEF ReadJobs
<1>5. ASSUME NEW r \in Repos, RepoDone(r) PROVE JobInv(i)'
  BY <1>0, <1>5 DEF RepoDone
<1>6. ASSUME NEW r \in Repos, RepoFails(r) PROVE JobInv(i)'
  BY <1>0, <1>6 DEF RepoFails, JobsOf
<1>7. CASE EndPoll
  BY <1>0, <1>7 DEF EndPoll
<1> QED
  BY <1>1, <1>2, <1>3, <1>4, <1>5, <1>6, <1>7 DEF PollStep

LEMMA PollUnchanged ==
    PollInv /\ UNCHANGED <<githubVars, pollVars, steady>> => PollInv'
BY DEF PollInv, JobInv, githubVars, pollVars

-----------------------------------------------------------------------------
(* One lemma over the disjuncts of Next for all three invariants.          *)
LEMMA StepOK ==
    ASSUME TypeOK, HookInv, [Next]_vars
    PROVE  TypeOK' /\ HookInv' /\ (OnePage /\ PollInv => PollInv')
<1> DEFINE Goal == TypeOK' /\ HookInv' /\ (OnePage /\ PollInv => PollInv')
<1>0. HookType /\ BellType /\ PollType
  BY TypeParts
<1>1. CASE Pipeline
  <2>1. HookType' /\ HookInv' /\ BellType'
    BY <1>0, <1>1, PipelineStepOK DEF Pipeline, BellType
  <2>2. PollType' /\ (PollInv => PollInv')
    BY <1>0, <1>1, PollUnchanged DEF Pipeline, PollType, githubVars, pollVars
  <2> QED
    BY <2>1, <2>2, TypeParts
<1>2. ASSUME UNCHANGED hookVars, PollType', BellType', OnePage /\ PollInv => PollInv' PROVE Goal
  BY <1>0, <1>2, HooksUnchanged, TypeParts
<1>3. CASE TunnelDies /\ UNCHANGED <<githubVars, pollVars, steady, rung>>
  <2>1. HookType' /\ BellType'
    BY <1>0, <1>3 DEF TunnelDies, HookType, BellType
  <2>2. HookInv'
    BY <1>3 DEF TunnelDies, HookInv, Mine, Current
  <2>3. PollType' /\ (PollInv => PollInv')
    BY <1>0, <1>3, PollUnchanged DEF PollType, githubVars, pollVars
  <2> QED
    BY <2>1, <2>2, <2>3, TypeParts
<1>4. ASSUME NEW m \in mail, Rings(m) PROVE Goal
  <2>1. BellType' /\ UNCHANGED hookVars
    BY <1>0, <1>4 DEF Rings, Deliver, BellType
  <2>2. PollType' /\ (PollInv => PollInv')
    BY <1>0, <1>4, PollUnchanged DEF Rings, PollType, githubVars, pollVars, Queued
  <2> QED
    BY <1>2, <2>1, <2>2
<1>5. ASSUME NEW m \in mail, Lose(m), UNCHANGED <<githubVars, pollVars, steady, rung>> PROVE Goal
  <2>1. BellType' /\ UNCHANGED hookVars
    BY <1>0, <1>5, WebhookConstants DEF Lose, Loss, BellType
  <2>2. PollType' /\ (PollInv => PollInv')
    BY <1>0, <1>5, PollUnchanged DEF PollType, githubVars, pollVars
  <2> QED
    BY <1>2, <2>1, <2>2
<1>6. ASSUME NEW j \in Jobs, JobQueues(j) \/ JobStarts(j) \/ JobEnds(j) PROVE Goal
  <2>1. UNCHANGED hookVars
    BY <1>6 DEF JobQueues, JobStarts, JobEnds, webhookVars
  <2> QED
    BY <1>2, <1>6, <2>1, GithubType, GithubKeepsPoll
<1>7. CASE \/ Tick \/ Poked \/ PassFails \/ PollStep \/ \E r \in Repos : RepoFails(r)
  BY <1>2, <1>7, PollTypeOK, PollKeepsPoll
<1>8. CASE Restart
  <2>1. HookType' /\ HookInv' /\ BellType'
    BY <1>8, RestartOK DEF Restart
  <2>2. PollType' /\ (PollInv => PollInv')
    BY <1>0, <1>8 DEF Restart, PollType, PollInv, JobInv, githubVars
  <2> QED
    BY <2>1, <2>2, TypeParts
<1>9. CASE UNCHANGED vars
  <2>1. UNCHANGED hookVars /\ BellType'
    BY <1>0, <1>9 DEF vars, webhookVars, BellType
  <2>2. PollType' /\ (PollInv => PollInv')
    BY <1>0, <1>9, PollUnchanged DEF vars, PollType, githubVars, pollVars
  <2> QED
    BY <1>2, <2>1, <2>2
<1> QED
  BY <1>1, <1>3, <1>4, <1>5, <1>6, <1>7, <1>8, <1>9 DEF Next

LEMMA AlwaysHookInv == Spec => [](TypeOK /\ HookInv)
BY InitOK, StepOK, PTL DEF Spec

(* Every variable has its type in every behaviour.                         *)
THEOREM DemandTypeCorrect == Spec => []TypeOK
BY AlwaysHookInv, PTL

(* Whatever tunnels die, calls fail and restarts come, there is at most    *)
(* one hook of this host per scope, and in a scope that was registered it  *)
(* is the one whose deliveries this arc accepts.                           *)
THEOREM HooksAreOursAndCurrent == Spec => []HooksFollowTheTunnel
<1>1. TypeOK /\ HookInv => HooksFollowTheTunnel
  <2> SUFFICES ASSUME TypeOK, HookInv PROVE HooksFollowTheTunnel
    OBVIOUS
  <2>1. ASSUME NEW s \in Scopes PROVE Cardinality(Mine(s)) <= 1
    <3>1. CASE Mine(s) = {}
      BY <3>1, FS_EmptySet
    <3>2. CASE Mine(s) # {}
      <4>1. PICK h \in Mine(s) : TRUE
        BY <3>2
      <4>2. Mine(s) = {h}
        BY <4>1 DEF HookInv, Mine
      <4> QED
        BY <4>2, FS_Singleton
    <3> QED
      BY <3>1, <3>2
  <2> QED
    BY <2>1 DEF HookInv, HooksFollowTheTunnel
<1> QED
  BY <1>1, AlwaysHookInv, PTL

(* No hook of another host is removed or rewritten away.                   *)
THEOREM HooksOfOthersStay == Spec => []OtherHooksStay
<1>1. HookInv => OtherHooksStay
  BY DEF HookInv, OtherHooksStay
<1> QED
  BY <1>1, AlwaysHookInv, PTL

(* When a page holds every entry, a poll of a repository that succeeds     *)
(* returns every job that was queued all along, however its runs and jobs  *)
(* move between the listings.                                              *)
THEOREM PollsAreComplete ==
    ASSUME OnePage
    PROVE  Spec => []PollMissesNoQueuedJob
<1>1. Init => PollInv
  BY DemandConstants DEF Init, PollInv, JobInv
<1>2. TypeOK /\ HookInv /\ PollInv /\ [Next]_vars => PollInv'
  BY OnePage, StepOK
<1>3. TypeOK /\ PollInv => PollMissesNoQueuedJob
  BY DEF TypeOK, PollInv, JobInv, PollMissesNoQueuedJob
<1> QED
  BY <1>1, <1>2, <1>3, AlwaysHookInv, PTL DEF Spec

-----------------------------------------------------------------------------
(* What has rung and is not answered is queued, and wakes the loop or is   *)
(* in the hands of the pass under way.                                     *)
BellInv == rung \subseteq Queued /\ NoRingIsLost

LEMMA BellUnchanged ==
    ASSUME BellInv, poke => poke', UNCHANGED <<githubVars, pollVars, steady, rung>>
    PROVE  BellInv'
BY DEF BellInv, NoRingIsLost, Queued, githubVars, pollVars

LEMMA GithubKeepsBell ==
    ASSUME TypeOK, BellInv, NEW j \in Jobs, JobQueues(j) \/ JobStarts(j) \/ JobEnds(j)
    PROVE  BellInv'
<1>0. /\ job \in [Jobs -> {"none", "queued", "in_progress", "completed"}]
      /\ rung \subseteq Jobs /\ \A i \in rung : job[i] = "queued"
  BY DEF TypeOK, BellInv, Queued
<1>1. CASE JobQueues(j) \/ JobEnds(j)
  <2>1. /\ \A i \in rung : job'[i] = "queued"
        /\ UNCHANGED <<poke, polling, stage, toRead, found, steady, rung>>
    BY <1>0, <1>1 DEF JobQueues, JobEnds, pollVars
  <2> QED
    BY <1>0, <2>1 DEF BellInv, NoRingIsLost, Queued
<1>2. CASE JobStarts(j)
  <2>1. /\ rung' = rung \ {j} /\ steady' = steady \ {j} /\ \A i \in rung' : job'[i] = "queued"
        /\ UNCHANGED <<poke, polling, stage>>
    BY <1>0, <1>2 DEF JobStarts, pollVars, webhookVars
  <2> QED
    BY <1>0, <2>1 DEF BellInv, NoRingIsLost, Queued
<1> QED
  BY <1>1, <1>2

LEMMA PollKeepsBell ==
    ASSUME TypeOK, PollInv, BellInv,
           \/ Tick \/ Poked \/ PassFails \/ PollStep \/ \E r \in Repos : RepoFails(r)
    PROVE  BellInv'
<1>0. /\ rung \subseteq Queued /\ rung \subseteq Jobs /\ poke \in BOOLEAN
      /\ \A j \in Jobs : RunOf[j] \in Runs /\ RepoOf[RunOf[j]] \in Repos
      /\ stage \in [Repos -> {"queued", "in_progress", "jobs", "done", "failed"}]
  BY DemandConstants DEF TypeOK, BellInv
<1>1. CASE Tick \/ Poked
  <2>1. /\ polling' /\ stage' = [r \in Repos |-> "queued"] /\ UNCHANGED <<job, rung>>
    BY <1>1 DEF Tick, Poked, BeginPoll, githubVars
  <2> QED
    BY <1>0, <2>1 DEF BellInv, NoRingIsLost, Queued
<1>2. CASE PassFails
  BY <1>2 DEF PassFails, BellInv, NoRingIsLost
<1>3. ASSUME NEW r \in Repos, ListRuns(r) PROVE BellInv'
  <2>1. /\ stage[r] \in {"queued", "in_progress"} /\ steady \subseteq steady'
        /\ stage[r] = "queued" => Queued \cap JobsOf(r) \subseteq steady'
        /\ \A q \in Repos : q # r => stage'[q] = stage[q]
        /\ UNCHANGED <<poke, job, polling, rung>>
    BY <1>0, <1>3 DEF ListRuns, webhookVars, githubVars
  <2>2. ASSUME NEW j \in rung, ~poke
        PROVE  polling /\ (stage'[RepoOf[RunOf[j]]] \in {"queued", "failed"} \/ j \in steady')
    <3>1. j \in Jobs /\ j \in Queued /\ RepoOf[RunOf[j]] \in Repos
      BY <1>0
    <3>2. polling /\ (stage[RepoOf[RunOf[j]]] \in {"queued", "failed"} \/ j \in steady)
      BY <2>2 DEF BellInv, NoRingIsLost
    <3> QED
      BY <2>1, <3>1, <3>2 DEF JobsOf
  <2> QED
    BY <1>0, <2>1, <2>2 DEF BellInv, NoRingIsLost, Queued
<1>4. ASSUME NEW r \in Repos, RepoDone(r) \/ (\E w \in Runs : ReadJobs(r, w)) PROVE BellInv'
  <2>1. /\ stage[r] = "jobs" /\ \A q \in Repos : stage'[q] = stage[q] \/ q = r
        /\ UNCHANGED <<poke, job, polling, steady, rung>>
    BY <1>0, <1>4 DEF RepoDone, ReadJobs, webhookVars, githubVars
  <2> QED
    BY <1>0, <2>1 DEF BellInv, NoRingIsLost, Queued
<1>5. ASSUME NEW r \in Repos, RepoFails(r) PROVE BellInv'
  <2>1. /\ stage' = [stage EXCEPT ![r] = "failed"]
        /\ UNCHANGED <<poke, job, polling, steady, rung>>
    BY <1>5 DEF RepoFails, githubVars
  <2> QED
    BY <1>0, <2>1 DEF BellInv, NoRingIsLost, Queued
<1>6. CASE EndPoll
  <2>1. /\ rung' = {j \in rung \ found : stage[RepoOf[RunOf[j]]] = "done"}
        /\ UNCHANGED <<poke, job>>
    BY <1>6 DEF EndPoll, webhookVars, githubVars
  <2>2. \A j \in rung' : poke
    <3> TAKE j \in rung'
    <3>1. j \in Jobs /\ j \in rung /\ j \notin found /\ stage[RepoOf[RunOf[j]]] = "done"
      BY <1>0, <2>1
    <3>2. j \notin steady
      BY <3>1 DEF PollInv, JobInv
    <3> QED
      BY <3>1, <3>2 DEF BellInv, NoRingIsLost
  <2> QED
    BY <1>0, <2>1, <2>2 DEF BellInv, NoRingIsLost, Queued
<1> QED
  BY <1>1, <1>2, <1>3, <1>4, <1>5, <1>6 DEF PollStep

LEMMA BellStep == TypeOK /\ PollInv /\ BellInv /\ [Next]_vars => BellInv'
<1> SUFFICES ASSUME TypeOK, PollInv, BellInv, [Next]_vars PROVE BellInv'
  OBVIOUS
<1>1. CASE Pipeline
  <2>1. UNCHANGED <<mail, poke>>
    BY <1>1 DEF Pipeline, PipelineStep, TunnelUp, ReposFail, Registered, TunnelExited, ListHooks,
                EnsureWebhook, EnsureWebhookFails
  <2> QED
    BY <1>1, <2>1, BellUnchanged DEF Pipeline
<1>2. CASE \/ TunnelDies /\ UNCHANGED <<githubVars, pollVars, steady, rung>>
           \/ \E m \in mail : Lose(m) /\ UNCHANGED <<githubVars, pollVars, steady, rung>>
  BY <1>2, BellUnchanged DEF TunnelDies, Lose
<1>3. ASSUME NEW m \in mail, Rings(m) PROVE BellInv'
  BY <1>3 DEF Rings, Deliver, BellInv, NoRingIsLost, Queued, githubVars, pollVars
<1>4. CASE \E j \in Jobs : JobQueues(j) \/ JobStarts(j) \/ JobEnds(j)
  BY <1>4, GithubKeepsBell
<1>5. CASE \/ Tick \/ Poked \/ PassFails \/ PollStep \/ \E r \in Repos : RepoFails(r)
  BY <1>5, PollKeepsBell
<1>6. CASE Restart
  BY <1>6 DEF Restart, BellInv, NoRingIsLost
<1>7. CASE UNCHANGED vars
  BY <1>7, BellUnchanged DEF vars, webhookVars
<1> QED
  BY <1>1, <1>2, <1>3, <1>4, <1>5, <1>6, <1>7 DEF Next

(* A doorbell rung while a pass is under way is not lost: until the job it *)
(* is about starts or is found, the loop is to wake or the pass will see   *)
(* it.  This is the safety half of RingsAreAnswered.                       *)
THEOREM TheDoorbellIsHeard ==
    ASSUME OnePage
    PROVE  Spec => []NoRingIsLost
<1>1. Init => PollInv /\ BellInv
  BY DemandConstants DEF Init, PollInv, JobInv, BellInv, NoRingIsLost
<1>2. TypeOK /\ HookInv /\ PollInv /\ [Next]_vars => PollInv'
  BY OnePage, StepOK
<1>3. BellInv => NoRingIsLost
  BY DEF BellInv
<1> QED
  BY <1>1, <1>2, <1>3, BellStep, AlwaysHookInv, PTL DEF Spec
=============================================================================
