-------------------------------- MODULE Scale --------------------------------
(***************************************************************************)
(* The scaling arithmetic of internal/orchestrator/scale.go: which pool a  *)
(* queued job is charged to, and what one pool should do about the jobs it *)
(* has been charged with.                                                  *)
(*                                                                         *)
(* Everything here is a pure function of one pass's observations.  Labels  *)
(* are compared lower-cased by the code, so a label is an abstract value.  *)
(*                                                                         *)
(* Here and in the other modules an operator whose name begins with Bug is *)
(* a seeded mistake in the definition after it, for checking that the      *)
(* properties notice; no specification uses it.                            *)
(***************************************************************************)
EXTENDS Integers, Sequences, FiniteSets, SequencesExt

CONSTANTS
    Pools,        \* the configured pools, in configuration order (a sequence)
    PoolLabels,   \* pool -> its configured labels
    SelfHosted,   \* the label every self-hosted runner carries
    Jobs,         \* every job that can exist
    JobId,        \* job -> its id, which orders the queue
    JobLabels,    \* job -> the labels of its runs-on
    JobRepo,      \* job -> the repository it belongs to
    NoRepo        \* the empty repository: a runner registered on the organisation

PoolSet == ToSet(Pools)
Repos   == {JobRepo[j] : j \in Jobs}

ASSUME PoolsAreDistinct ==
    /\ Pools \in Seq(PoolSet)
    /\ \A i, j \in 1..Len(Pools) : Pools[i] = Pools[j] => i = j

ASSUME LabelsAreFinite == \A p \in PoolSet : IsFiniteSet(PoolLabels[p])

ASSUME JobsAreOrdered ==
    /\ JobId \in [Jobs -> Nat]
    /\ \A j, k \in Jobs : JobId[j] = JobId[k] => j = k

(* limits and what a pass observed of one pool *)
Limits    == [min : Nat, max : Nat]
PoolState == [live : Nat, busy : Nat, idle : Nat, starting : Nat]

(***************************************************************************)
(* Matching                                                                *)
(***************************************************************************)
LabelSet(p) == PoolLabels[p] \cup {SelfHosted}

CanServe(p, j) == JobLabels[j] \subseteq LabelSet(p)

Position(p) == CHOOSE i \in 1..Len(Pools) : Pools[i] = p

\* The stable sort of Candidates: fewer labels first, then configuration order.
Tighter(p, q) ==
    \/ Cardinality(LabelSet(p)) < Cardinality(LabelSet(q))
    \/ /\ Cardinality(LabelSet(p)) = Cardinality(LabelSet(q))
       /\ Position(p) < Position(q)

Candidates(j) == {p \in PoolSet : CanServe(p, j)}

BugFirstConfigured(S) == CHOOSE p \in S : \A q \in S \ {p} : Position(p) < Position(q)

Tightest(S) == CHOOSE p \in S : \A q \in S \ {p} : Tighter(p, q)

(***************************************************************************)
(* AssignDemand                                                            *)
(***************************************************************************)
Headroom(live, limits) ==
    [p \in PoolSet |-> IF limits[p].max > live[p] THEN limits[p].max - live[p] ELSE 0]

NoDemand(room) ==
    [room |-> room, jobs |-> [p \in PoolSet |-> <<>>], unassigned |-> <<>>]

\* The job of S the loop takes first: PollJobs sorts the queue by job id.
IsFirst(j, S) == \A k \in S : JobId[j] <= JobId[k]

BugNoSpill(d, j) ==
    LET fits == Candidates(j)
    IN  IF fits = {} THEN [d EXCEPT !.unassigned = Append(@, j)]
        ELSE [d EXCEPT !.jobs[Tightest(fits)] = Append(@, j)]

BugChargedTwice(d, j) ==
    LET fits == Candidates(j)
        open == {p \in fits : d.room[p] > 0}
    IN  IF fits = {} THEN [d EXCEPT !.unassigned = Append(@, j)]
        ELSE [d EXCEPT !.jobs = [p \in PoolSet |->
                                  IF p \in open \cup {Tightest(fits)} THEN Append(@[p], j) ELSE @[p]]]

\* One turn of the loop over the queued jobs: the tightest candidate with
\* headroom takes the job; with none left it is charged to the tightest one.
AssignJob(d, j) ==
    LET fits == Candidates(j)
        open == {p \in fits : d.room[p] > 0}
    IN  IF fits = {} THEN [d EXCEPT !.unassigned = Append(@, j)]
        ELSE IF open # {}
             THEN [d EXCEPT !.room[Tightest(open)] = @ - 1,
                            !.jobs[Tightest(open)] = Append(@, j)]
             ELSE [d EXCEPT !.jobs[Tightest(fits)] = Append(@, j)]

(***************************************************************************)
(* Plan                                                                    *)
(***************************************************************************)
\* limitsFor: an override that leaves min above max is clamped, not refused.
EffectiveLimits(l) == [l EXCEPT !.min = IF @ > l.max THEN l.max ELSE @]

Desired(st, demand, l) ==
    LET want   == st.busy + demand
        raised == IF want < l.min THEN l.min ELSE want
    IN  IF raised > l.max THEN l.max ELSE raised

BugOneShort(st, demand, l) ==
    IF st.live + 1 < Desired(st, demand, l) THEN Desired(st, demand, l) - st.live - 1 ELSE 0

Create(st, demand, l) ==
    IF st.live < Desired(st, demand, l) THEN Desired(st, demand, l) - st.live ELSE 0

Cull(st, demand, l) ==
    LET surplus == st.live - Desired(st, demand, l)
    IN  IF surplus <= 0 THEN 0
        ELSE IF surplus > st.idle THEN st.idle ELSE surplus
==============================================================================
