----------------------------- MODULE ScaleProofs -----------------------------
(***************************************************************************)
(* What the scaling decisions guarantee for every pool state, demand and   *)
(* limits, and the types of the operators of Scale.                        *)
(***************************************************************************)
EXTENDS Scale, TLAPS, FiniteSetTheorems, WellFoundedInduction

DemandType ==
    [room: [PoolSet -> Nat], jobs: [PoolSet -> Seq(Jobs)], unassigned: Seq(Jobs)]

\* limitsFor never hands out a min above the max, and leaves the max alone.
THEOREM EffectiveLimitsInOrder ==
    ASSUME NEW l \in Limits
    PROVE  /\ EffectiveLimits(l) \in Limits
           /\ EffectiveLimits(l).min <= EffectiveLimits(l).max
           /\ EffectiveLimits(l).max = l.max
BY DEF EffectiveLimits, Limits

LEMMA DesiredType ==
    ASSUME NEW st \in PoolState, NEW d \in Nat, NEW l \in Limits
    PROVE  Desired(st, d, l) \in Nat /\ Desired(st, d, l) <= l.max
BY DEF Desired, PoolState, Limits

LEMMA CreateCullType ==
    ASSUME NEW st \in PoolState, NEW d \in Nat, NEW l \in Limits
    PROVE  Create(st, d, l) \in Nat /\ Cull(st, d, l) \in Nat
<1>1. Desired(st, d, l) \in Nat
  BY DesiredType
<1>2. st.live \in Nat /\ st.idle \in Nat
  BY DEF PoolState
<1> QED
  BY <1>1, <1>2 DEF Create, Cull

\* scale.go:166-207: a decision to launch never takes the pool beyond its max, a decision
\* to remove takes idle runners only and never more than the surplus over what is
\* desired, and no pass decides on both for one pool.
THEOREM PlanIsSafe ==
    ASSUME NEW st \in PoolState, NEW d \in Nat, NEW l \in Limits
    PROVE  /\ Create(st, d, l) > 0 => st.live + Create(st, d, l) <= l.max
           /\ Cull(st, d, l) <= st.idle
           /\ Cull(st, d, l) > 0 => st.live - Cull(st, d, l) >= Desired(st, d, l)
           /\ Create(st, d, l) = 0 \/ Cull(st, d, l) = 0
<1>1. Desired(st, d, l) \in Nat /\ Desired(st, d, l) <= l.max
  BY DesiredType
<1>2. st.live \in Nat /\ st.idle \in Nat /\ l.max \in Nat
  BY DEF PoolState, Limits
<1> QED
  BY <1>1, <1>2 DEF Create, Cull

\* What the pool looks like once the decision has been carried out, and once one of its
\* idle runners has taken one of the jobs it was charged with.
CarriedOut(st, d, l) ==
    [live |-> st.live + Create(st, d, l) - Cull(st, d, l), busy |-> st.busy,
     idle |-> st.idle - Cull(st, d, l), starting |-> st.starting + Create(st, d, l)]

JobTaken(st) ==
    [live |-> st.live, busy |-> st.busy + 1, idle |-> st.idle - 1, starting |-> st.starting]

\* scale.go:164-207: a decision settles the pool in one pass.  Carried out, it leaves the
\* plan for the same demand nothing to launch and nothing to remove, so that no launch is
\* answered by a removal; and unless max stands against it there is a runner without a
\* job for each of the jobs, since a busy runner cannot help a queued one.
THEOREM PlanSettles ==
    ASSUME NEW st \in PoolState, NEW d \in Nat, NEW l \in Limits
    PROVE  /\ CarriedOut(st, d, l) \in PoolState
           /\ Create(CarriedOut(st, d, l), d, l) = 0
           /\ Cull(CarriedOut(st, d, l), d, l) = 0
           /\ st.busy + d <= l.max =>
                 CarriedOut(st, d, l).live >= CarriedOut(st, d, l).busy + d
<1> DEFINE want == Desired(st, d, l)
           made == Create(st, d, l)
           gone == Cull(st, d, l)
           s == CarriedOut(st, d, l)
<1>1. /\ want \in Nat /\ made \in Nat /\ gone \in Nat
      /\ st.live \in Nat /\ st.busy \in Nat /\ st.idle \in Nat /\ st.starting \in Nat
      /\ l.max \in Nat
  BY DesiredType, CreateCullType DEF PoolState, Limits
<1>2. /\ s.live = st.live + made - gone /\ s.busy = st.busy
      /\ s.idle = st.idle - gone /\ s.starting = st.starting + made
  BY DEF CarriedOut
<1>3. Desired(s, d, l) = want
  BY <1>2 DEF Desired
<1>4. \/ st.live < want /\ made = want - st.live /\ gone = 0
      \/ st.live >= want /\ made = 0 /\ gone = st.live - want /\ gone <= st.idle
      \/ st.live > want /\ made = 0 /\ gone = st.idle /\ gone < st.live - want
  BY <1>1 DEF Create, Cull
<1>5. s \in PoolState
  BY <1>1, <1>4 DEF CarriedOut, PoolState
<1>6. s.live >= want
  BY <1>1, <1>2, <1>4
<1>7. Create(s, d, l) = 0
  BY <1>1, <1>2, <1>3, <1>6 DEF Create
<1>8. s.live = want \/ s.idle = 0
  BY <1>1, <1>2, <1>4
<1>9. Cull(s, d, l) = 0
  BY <1>1, <1>2, <1>3, <1>6, <1>8 DEF Cull
<1>10. st.busy + d <= l.max => want >= st.busy + d
  BY <1>1 DEF Desired
<1> QED
  BY <1>1, <1>2, <1>5, <1>6, <1>7, <1>9, <1>10

\* scale.go:166-172: a runner that takes a queued job moves one from the demand to the
\* busy, and the target stays what it was: starting a job launches nothing and removes
\* nothing that was not surplus before.
THEOREM StartingAJobMovesNothing ==
    ASSUME NEW st \in PoolState, NEW d \in Nat, NEW l \in Limits, st.idle > 0, d > 0
    PROVE  /\ Desired(JobTaken(st), d - 1, l) = Desired(st, d, l)
           /\ Create(JobTaken(st), d - 1, l) = Create(st, d, l)
           /\ Cull(JobTaken(st), d - 1, l) <= Cull(st, d, l)
<1>1. /\ st.live \in Nat /\ st.busy \in Nat /\ st.idle \in Nat /\ Desired(st, d, l) \in Nat
  BY DesiredType DEF PoolState
<1>2. /\ JobTaken(st).live = st.live /\ JobTaken(st).busy = st.busy + 1
      /\ JobTaken(st).idle = st.idle - 1
  BY DEF JobTaken
<1>3. Desired(JobTaken(st), d - 1, l) = Desired(st, d, l)
  <2>1. st.busy + 1 + (d - 1) = st.busy + d
    BY <1>1
  <2> QED
    BY <1>2, <2>1 DEF Desired
<1>4. Create(JobTaken(st), d - 1, l) = Create(st, d, l)
  BY <1>2, <1>3 DEF Create
<1>5. Cull(JobTaken(st), d - 1, l) <= Cull(st, d, l)
  BY <1>1, <1>2, <1>3 DEF Cull
<1> QED
  BY <1>3, <1>4, <1>5

LEMMA HeadroomType ==
    ASSUME NEW live \in [PoolSet -> Nat], NEW limits \in [PoolSet -> Limits]
    PROVE  Headroom(live, limits) \in [PoolSet -> Nat]
<1>1. ASSUME NEW p \in PoolSet
      PROVE  live[p] \in Nat /\ limits[p].max \in Nat
  BY DEF Limits
<1> QED
  BY <1>1 DEF Headroom

LEMMA NoDemandType ==
    ASSUME NEW room \in [PoolSet -> Nat]
    PROVE  NoDemand(room) \in DemandType
BY DEF NoDemand, DemandType

LEMMA LeastNatural ==
    ASSUME NEW T, T \subseteq Nat, T # {}
    PROVE  \E x \in T : \A y \in T : x <= y
<1> DEFINE R == OpToRel(<, Nat)
<1>1. IsWellFoundedOn(R, Nat)
  BY NatLessThanWellFounded
<1> HIDE DEF R
<1>2. PICK x \in T : \A y \in T : <<y, x>> \notin R
  BY <1>1, WFMin
<1>3. \A y \in T : ~ (y < x)
  BY <1>2 DEF R, OpToRel
<1>4. x \in Nat /\ \A y \in T : y \in Nat
  OBVIOUS
<1> QED
  BY <1>3, <1>4

LEMMA PositionType ==
    ASSUME NEW p \in PoolSet
    PROVE  Position(p) \in 1..Len(Pools) /\ Pools[Position(p)] = p
<1>1. \E i \in 1..Len(Pools) : Pools[i] = p
  BY PoolsAreDistinct DEF PoolSet, ToSet
<1> QED
  BY <1>1 DEF Position

\* scale.go:58-69: Tightest is well defined: any set of candidates has a member that the
\* stable sort puts before all others.
THEOREM TightestExists ==
    ASSUME NEW S, S \subseteq PoolSet, S # {}
    PROVE  Tightest(S) \in S /\ \A q \in S \ {Tightest(S)} : Tighter(Tightest(S), q)
<1> DEFINE size(p) == Cardinality(LabelSet(p))
           least(p) == \A q \in S : size(p) <= size(q)
           M == {p \in S : least(p)}
<1>1. ASSUME NEW p \in PoolSet
      PROVE  size(p) \in Nat
  BY LabelsAreFinite, FS_AddElement, FS_CardinalityType DEF LabelSet
<1>2. M # {}
  <2>1. {size(p) : p \in S} \subseteq Nat /\ {size(p) : p \in S} # {}
    BY <1>1
  <2>2. PICK x \in {size(p) : p \in S} : \A y \in {size(p) : p \in S} : x <= y
    BY <2>1, LeastNatural
  <2>3. PICK p \in S : x = size(p)
    BY <2>2
  <2>4. p \in M
    BY <2>2, <2>3
  <2> QED
    BY <2>4
<1>3. PICK p \in M : \A q \in M : Position(p) <= Position(q)
  <2>1. {Position(p) : p \in M} \subseteq Nat /\ {Position(p) : p \in M} # {}
    BY <1>2, PositionType
  <2>2. PICK x \in {Position(p) : p \in M} : \A y \in {Position(p) : p \in M} : x <= y
    BY <2>1, LeastNatural
  <2> QED
    BY <2>2
<1>4. ASSUME NEW q \in S \ {p}
      PROVE  Tighter(p, q)
  <2>1. size(p) \in Nat /\ size(q) \in Nat /\ size(p) <= size(q)
    BY <1>1, <1>3
  <2>2. CASE size(p) < size(q)
    BY <2>2 DEF Tighter
  <2>3. CASE size(p) = size(q)
    <3>1. q \in M
      BY <1>3, <2>3
    <3>2. Position(p) <= Position(q) /\ Position(p) # Position(q)
      BY <1>3, <3>1, PositionType
    <3>3. Position(p) < Position(q)
      BY <3>2, PositionType, <1>3
    <3> QED
      BY <2>3, <3>3 DEF Tighter
  <2> QED
    BY <2>1, <2>2, <2>3
<1>5. \E t \in S : \A q \in S \ {t} : Tighter(t, q)
  BY <1>3, <1>4
<1> QED
  BY <1>5 DEF Tightest

LEMMA RoomTaken ==
    ASSUME NEW room \in [PoolSet -> Nat], NEW t \in PoolSet, room[t] > 0
    PROVE  [room EXCEPT ![t] = @ - 1] \in [PoolSet -> Nat]
OBVIOUS

\* AssignDemand keeps its accumulator well formed, whichever pool it charges: what is
\* decremented is the headroom of a pool that has some.
LEMMA AssignJobType ==
    ASSUME NEW d \in DemandType, NEW j \in Jobs
    PROVE  AssignJob(d, j) \in DemandType
<1> DEFINE open == {p \in Candidates(j) : d.room[p] > 0}
<1>1. Append(d.unassigned, j) \in Seq(Jobs)
  BY DEF DemandType
<1>2. d.jobs \in [PoolSet -> Seq(Jobs)] /\ d.room \in [PoolSet -> Nat]
  BY DEF DemandType
<1>3. ASSUME NEW q
      PROVE  [d.jobs EXCEPT ![q] = Append(@, j)] \in [PoolSet -> Seq(Jobs)]
  <2>1. ASSUME NEW p \in PoolSet
        PROVE  [d.jobs EXCEPT ![q] = Append(@, j)][p] \in Seq(Jobs)
    BY <1>2
  <2> QED
    BY <1>2, <2>1
<1>4. ASSUME open # {}
      PROVE  [d.room EXCEPT ![Tightest(open)] = @ - 1] \in [PoolSet -> Nat]
  <2>1. Tightest(open) \in open
    BY <1>4, TightestExists DEF Candidates
  <2>2. Tightest(open) \in PoolSet /\ d.room[Tightest(open)] > 0
    BY <2>1 DEF Candidates
  <2> QED
    BY <1>2, <2>2, RoomTaken
<1> QED
  BY <1>1, <1>2, <1>3, <1>4 DEF AssignJob, DemandType
==============================================================================
