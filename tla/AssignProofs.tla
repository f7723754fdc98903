----------------------------- MODULE AssignProofs -----------------------------
(***************************************************************************)
(* Where the queued jobs of a pass go, for any pools, jobs, labels, limits *)
(* and any headroom.                                                       *)
(***************************************************************************)
EXTENDS Assign, ScaleProofs, SequenceTheorems

LEMMA AppendedSet ==
    ASSUME NEW T, NEW s \in Seq(T), NEW x
    PROVE  ToSet(Append(s, x)) = ToSet(s) \cup {x}
<1>1. /\ Len(Append(s, x)) = Len(s) + 1 /\ Append(s, x)[Len(s) + 1] = x
      /\ \A i \in 1..Len(s) : Append(s, x)[i] = s[i]
      /\ DOMAIN Append(s, x) = 1..(Len(s) + 1) /\ DOMAIN s = 1..Len(s)
      /\ Len(s) \in Nat
  OBVIOUS
<1> QED
  BY <1>1 DEF ToSet

LEMMA TighterIsStrict ==
    ASSUME NEW p \in PoolSet, NEW q \in PoolSet, Tighter(p, q)
    PROVE  ~Tighter(q, p)
<1>1. \A k \in PoolSet : Cardinality(LabelSet(k)) \in Nat
  BY LabelsAreFinite, FS_AddElement, FS_CardinalityType DEF LabelSet
<1>2. Position(p) \in Nat /\ Position(q) \in Nat
  BY PositionType
<1> QED
  BY <1>1, <1>2 DEF Tighter

(* What one turn of the loop does with a job: it has no candidate, or goes *)
(* to a candidate with room all tighter ones lack, or nobody has room.     *)
Charged(d, e, j, p) ==
    /\ p \in Candidates(j) /\ e.unassigned = d.unassigned
    /\ e.jobs = [d.jobs EXCEPT ![p] = Append(d.jobs[p], j)]
    /\ \A q \in Candidates(j) : Tighter(q, p) => d.room[q] = 0
    /\ \/ d.room[p] > 0 /\ e.room = [d.room EXCEPT ![p] = d.room[p] - 1]
       \/ e.room = d.room /\ \A q \in Candidates(j) : d.room[q] = 0

LEMMA OneTurn ==
    ASSUME NEW d \in DemandType, NEW j \in Jobs
    PROVE  \/ /\ Candidates(j) = {}
              /\ AssignJob(d, j).room = d.room /\ AssignJob(d, j).jobs = d.jobs
              /\ AssignJob(d, j).unassigned = Append(d.unassigned, j)
           \/ \E p \in PoolSet : Charged(d, AssignJob(d, j), j, p)
<1> DEFINE fits == Candidates(j)
           open == {p \in fits : d.room[p] > 0}
<1>0. fits \subseteq PoolSet /\ open \subseteq PoolSet /\ d.room \in [PoolSet -> Nat]
  BY DEF Candidates, DemandType
<1>1. CASE fits = {}
  BY <1>1 DEF AssignJob, DemandType
<1>2. CASE open # {}
  <2> DEFINE p == Tightest(open)
  <2>1. p \in open /\ \A q \in open \ {p} : Tighter(p, q)
    BY <1>0, <1>2, TightestExists
  <2>2. \A q \in fits : Tighter(q, p) => d.room[q] = 0
    <3> TAKE q \in fits
    <3>1. q \in open => ~Tighter(q, p)
      BY <1>0, <2>1, TighterIsStrict
    <3> QED
      BY <1>0, <3>1
  <2>3. AssignJob(d, j) = [d EXCEPT !.room[p] = @ - 1, !.jobs[p] = Append(@, j)]
    BY <1>2 DEF AssignJob
  <2> HIDE DEF p
  <2>4. /\ AssignJob(d, j).room = [d.room EXCEPT ![p] = d.room[p] - 1]
        /\ AssignJob(d, j).jobs = [d.jobs EXCEPT ![p] = Append(d.jobs[p], j)]
        /\ AssignJob(d, j).unassigned = d.unassigned
    BY <2>3 DEF DemandType
  <2>5. Charged(d, AssignJob(d, j), j, p)
    BY <2>1, <2>2, <2>4 DEF Charged
  <2> QED
    BY <1>0, <2>1, <2>5
<1>3. CASE open = {} /\ fits # {}
  <2> DEFINE p == Tightest(fits)
  <2>1. p \in fits
    BY <1>0, <1>3, TightestExists
  <2>2. \A q \in fits : d.room[q] = 0
    BY <1>0, <1>3
  <2>3. AssignJob(d, j) = [d EXCEPT !.jobs[p] = Append(@, j)]
    BY <1>3 DEF AssignJob
  <2> HIDE DEF p
  <2>4. /\ AssignJob(d, j).room = d.room /\ AssignJob(d, j).unassigned = d.unassigned
        /\ AssignJob(d, j).jobs = [d.jobs EXCEPT ![p] = Append(d.jobs[p], j)]
    BY <2>3 DEF DemandType
  <2>5. Charged(d, AssignJob(d, j), j, p)
    BY <2>1, <2>2, <2>4 DEF Charged
  <2> QED
    BY <1>0, <2>1, <2>5
<1> QED
  BY <1>1, <1>2, <1>3

-----------------------------------------------------------------------------
(* Headroom is spent one job at a time and never overdrawn; the charged    *)
(* jobs of a pool are finitely many; the second loop is at a pool.         *)
Spent(p) ==
    /\ Len(demand.jobs[p]) <= room[p] => demand.room[p] = room[p] - Len(demand.jobs[p])
    /\ Len(demand.jobs[p]) > room[p] => demand.room[p] = 0

AssignInv ==
    /\ TypeOK /\ EveryJobOnce /\ TightestFirst /\ ChargedBeyondRoomOnlyWhenFull
    /\ \A p \in PoolSet : Spent(p) /\ IsFiniteSet(ChargedTo(p))
    /\ todo # <<>> => at \in 1..Len(Pools)

LEMMA DemandIsTyped == TypeOK => demand \in DemandType
BY DEF TypeOK, DemandType

LEMMA PoolsAreFinite == Len(Pools) \in Nat /\ \A i \in 1..Len(Pools) : Pools[i] \in PoolSet
BY PoolsAreDistinct

LEMMA InitAssign == Init => AssignInv
<1> SUFFICES ASSUME Init PROVE AssignInv
  OBVIOUS
<1>1. room \in [PoolSet -> Nat]
  <2>1. PICK live \in [PoolSet -> UNION {LiveCounts[p] : p \in PoolSet}] :
            room = Headroom(live, PoolLimits) /\ \A p \in PoolSet : live[p] \in LiveCounts[p]
    BY DEF Init
  <2>2. live \in [PoolSet -> Nat]
    BY <2>1, AssignAssumption
  <2> QED
    BY <2>1, <2>2, AssignAssumption, HeadroomType
<1>2. demand \in DemandType /\ \A p \in PoolSet : demand.jobs[p] = <<>> /\ demand.room[p] = room[p]
  BY <1>1, NoDemandType DEF Init, NoDemand
<1>3. idleAway \in Seq(Foreign) /\ free = idleAway
  BY AssignAssumption DEF Init
<1>4. TypeOK
  BY <1>1, <1>2, <1>3, PoolsAreFinite DEF Init, TypeOK, DemandType
<1>5. ToSet(<<>>) = {} /\ Len(<<>>) = 0
  BY DEF ToSet
<1>6. /\ \A p \in PoolSet : ChargedTo(p) = {} /\ Len(demand.jobs[p]) = 0
      /\ ToSet(demand.unassigned) = {} /\ unplaced = queued
  BY <1>2, <1>5 DEF ChargedTo, Init, NoDemand
<1>7. EveryJobOnce
  BY <1>6, FS_EmptySet DEF EveryJobOnce
<1>8. TightestFirst
  BY <1>6 DEF TightestFirst
<1>9. ChargedBeyondRoomOnlyWhenFull /\ \A p \in PoolSet : Spent(p)
  BY <1>1, <1>2, <1>6 DEF ChargedBeyondRoomOnlyWhenFull, Spent
<1> QED
  BY <1>4, <1>6, <1>7, <1>8, <1>9, FS_EmptySet DEF AssignInv, Init

(* The job that is placed was nowhere before.                              *)
LEMMA PlaceKeeps == ASSUME AssignInv, PlaceJob PROVE AssignInv'
<1>0. TypeOK /\ demand \in DemandType
  BY DemandIsTyped DEF AssignInv
<1>1. PICK j \in unplaced : demand' = AssignJob(demand, j) /\ unplaced' = unplaced \ {j}
  BY DEF PlaceJob
<1>2. j \in Jobs /\ j \in queued
  BY <1>0 DEF TypeOK, AssignInv, EveryJobOnce
<1>3. UNCHANGED <<queued, room, idleAway, stage, at, todo, kept, free>>
  BY DEF PlaceJob, inputs
<1>4. demand' \in DemandType
  BY <1>0, <1>1, <1>2, AssignJobType
<1>5. TypeOK'
  BY <1>0, <1>1, <1>3, <1>4 DEF TypeOK, DemandType
<1> USE DEF AssignInv
<1>6. CASE /\ Candidates(j) = {} /\ demand'.room = demand.room /\ demand'.jobs = demand.jobs
           /\ demand'.unassigned = Append(demand.unassigned, j)
  <2>1. ToSet(demand'.unassigned) = ToSet(demand.unassigned) \cup {j}
    BY <1>0, <1>6, AppendedSet DEF DemandType
  <2>2. \A p \in PoolSet : ChargedTo(p)' = ChargedTo(p) /\ j \notin ChargedTo(p)
    BY <1>1, <1>6 DEF ChargedTo, EveryJobOnce
  <2>3. EveryJobOnce'
    BY <1>1, <1>2, <1>3, <1>6, <2>1, <2>2 DEF EveryJobOnce
  <2>4. TightestFirst' /\ ChargedBeyondRoomOnlyWhenFull'
    BY <1>3, <1>6, <2>2 DEF TightestFirst, ChargedBeyondRoomOnlyWhenFull
  <2>5. \A p \in PoolSet : Spent(p)' /\ IsFiniteSet(ChargedTo(p))'
    BY <1>3, <1>6, <2>2 DEF Spent
  <2> QED
    BY <1>3, <1>5, <2>3, <2>4, <2>5
<1>7. ASSUME NEW p \in PoolSet, Charged(demand, demand', j, p) PROVE AssignInv'
  <2>0. /\ demand.jobs \in [PoolSet -> Seq(Jobs)] /\ demand.room \in [PoolSet -> Nat]
        /\ demand'.room \in [PoolSet -> Nat]
        /\ room \in [PoolSet -> Nat]
    BY <1>0, <1>4 DEF DemandType, TypeOK
  <2>1. /\ demand'.jobs[p] = Append(demand.jobs[p], j) /\ demand.jobs[p] \in Seq(Jobs)
        /\ \A q \in PoolSet : q # p => demand'.jobs[q] = demand.jobs[q]
        /\ p \in Candidates(j) /\ demand'.unassigned = demand.unassigned
    BY <1>7, <2>0 DEF Charged
  <2>a. /\ Len(demand.jobs[p]) \in Nat /\ Len(demand'.jobs[p]) = Len(demand.jobs[p]) + 1
        /\ demand'.jobs[p][Len(demand.jobs[p]) + 1] = j
        /\ \A i \in 1..Len(demand.jobs[p]) : demand'.jobs[p][i] = demand.jobs[p][i]
    <3>1. \A t \in Seq(Jobs) : /\ Len(t) \in Nat /\ Len(Append(t, j)) = Len(t) + 1
                               /\ Append(t, j)[Len(t) + 1] = j
                               /\ \A i \in 1..Len(t) : Append(t, j)[i] = t[i]
      OBVIOUS
    <3> QED
      BY <2>1, <3>1
  <2>2. \A q \in PoolSet : ChargedTo(q)' = IF q = p THEN ChargedTo(p) \cup {j} ELSE ChargedTo(q)
    <3>1. ChargedTo(p)' = ChargedTo(p) \cup {j}
      BY <2>1, AppendedSet DEF ChargedTo
    <3>2. \A q \in PoolSet : q # p => ChargedTo(q)' = ChargedTo(q)
      BY <2>1 DEF ChargedTo
    <3> QED
      BY <3>1, <3>2
  <2>3. \A q \in PoolSet : j \notin ChargedTo(q)
    BY <1>1 DEF EveryJobOnce
  <2>4. \A q \in PoolSet : demand.jobs[q] \in Seq(Jobs) /\ Len(demand.jobs[q]) \in Nat
    BY <2>0
  <2>5. \A q \in PoolSet : IsFiniteSet(ChargedTo(q))' /\ Cardinality(ChargedTo(q)') = Len(demand'.jobs[q])
    <3>1. /\ IsFiniteSet(ChargedTo(p)') /\ Cardinality(ChargedTo(p)') = Cardinality(ChargedTo(p)) + 1
      BY <2>2, <2>3, FS_AddElement
    <3>2. Cardinality(ChargedTo(p)) = Len(demand.jobs[p])
      BY DEF EveryJobOnce
    <3>3. \A q \in PoolSet : q # p =>
             IsFiniteSet(ChargedTo(q))' /\ Cardinality(ChargedTo(q)') = Len(demand'.jobs[q])
      BY <2>1, <2>2 DEF EveryJobOnce
    <3> QED
      BY <2>a, <3>1, <3>2, <3>3
  <2>6. EveryJobOnce'
    <3>1. /\ queued' = unplaced' \cup ToSet(demand'.unassigned) \cup UNION {ChargedTo(q)' : q \in PoolSet}
          /\ unplaced' \cap (ToSet(demand'.unassigned) \cup UNION {ChargedTo(q)' : q \in PoolSet}) = {}
      BY <1>1, <1>3, <2>1, <2>2, <2>3 DEF EveryJobOnce
    <3>2. \A q, r \in PoolSet : q # r => ChargedTo(q)' \cap ChargedTo(r)' = {}
      BY <2>2, <2>3 DEF EveryJobOnce
    <3>3. \A k \in queued' \ unplaced' : k \in ToSet(demand'.unassigned) <=> Candidates(k) = {}
      BY <1>1, <1>3, <2>1 DEF EveryJobOnce
    <3> QED
      BY <2>5, <3>1, <3>2, <3>3 DEF EveryJobOnce
  <2>7. \A q \in PoolSet : demand.room[q] = 0 => demand'.room[q] = 0
    <3> TAKE q \in PoolSet
    <3>1. CASE demand'.room = demand.room
      BY <3>1
    <3>2. CASE demand.room[p] > 0 /\ demand'.room = [demand.room EXCEPT ![p] = demand.room[p] - 1]
      BY <2>0, <3>2
    <3> QED
      BY <1>7, <3>1, <3>2 DEF Charged
  <2>8. TightestFirst'
    <3> SUFFICES ASSUME NEW k \in PoolSet, NEW i \in ChargedTo(k)', NEW q \in Candidates(i), Tighter(q, k)
                 PROVE  demand'.room[q] = 0
      BY DEF TightestFirst
    <3>1. q \in PoolSet
      BY DEF Candidates
    <3>2. demand.room[q] = 0
      BY <1>7, <2>2 DEF TightestFirst, Charged
    <3> QED
      BY <2>7, <3>1, <3>2
  <2>9. \A q \in PoolSet : Spent(q)'
    <3> TAKE q \in PoolSet
    <3>1. CASE q # p
      <4>1. demand'.room[q] = demand.room[q] /\ demand'.jobs[q] = demand.jobs[q]
        BY <1>7, <2>0, <2>1, <3>1 DEF Charged
      <4> QED
        BY <1>3, <4>1 DEF Spent
    <3>2. CASE q = p
      <4>1. \/ demand.room[p] > 0 /\ demand'.room[p] = demand.room[p] - 1
            \/ demand.room[p] = 0 /\ demand'.room[p] = 0
        BY <1>7, <2>0, <2>1 DEF Charged
      <4>2. Len(demand'.jobs[p]) = Len(demand.jobs[p]) + 1 /\ Len(demand.jobs[p]) \in Nat
        BY <2>a
      <4>3. room'[p] = room[p] /\ room[p] \in Nat /\ demand.room[p] \in Nat /\ Spent(p)
        BY <1>3, <2>0
      <4>4. Spent(p)'
        BY <4>1, <4>2, <4>3 DEF Spent
      <4> QED
        BY <3>2, <4>4
    <3> QED
      BY <3>1, <3>2
  <2>10. ChargedBeyondRoomOnlyWhenFull'
    <3> SUFFICES ASSUME NEW k \in PoolSet, Len(demand'.jobs[k]) > room[k],
                        NEW i \in room[k] + 1 .. Len(demand'.jobs[k]),
                        NEW q \in Candidates(demand'.jobs[k][i])
                 PROVE  demand'.room[q] = 0
      BY <1>3 DEF ChargedBeyondRoomOnlyWhenFull
    <3>1. q \in PoolSet
      BY DEF Candidates
    <3>2. CASE i <= Len(demand.jobs[k])
      <4>1. demand'.jobs[k][i] = demand.jobs[k][i] /\ Len(demand.jobs[k]) > room[k]
            /\ i \in room[k] + 1 .. Len(demand.jobs[k])
        <5>1. room[k] \in Nat /\ Len(demand.jobs[k]) \in Nat
          BY <2>0, <2>4
        <5>2. i \in 1..Len(demand.jobs[k])
          BY <3>2, <5>1
        <5> QED
          <6>1. demand'.jobs[k][i] = demand.jobs[k][i]
            BY <2>1, <2>a, <5>2
          <6>2. Len(demand.jobs[k]) > room[k] /\ i \in room[k] + 1 .. Len(demand.jobs[k])
            BY <3>2, <5>1
          <6> QED
            BY <6>1, <6>2
      <4>2. demand.room[q] = 0
        BY <4>1 DEF ChargedBeyondRoomOnlyWhenFull
      <4> QED
        BY <2>7, <3>1, <4>2
    <3>3. CASE i > Len(demand.jobs[k])
      <4>1. k = p /\ i = Len(demand.jobs[p]) + 1 /\ demand'.jobs[k][i] = j
        <5>1. room[k] \in Nat /\ Len(demand.jobs[k]) \in Nat
          BY <2>0, <2>4
        <5>2. i \in Nat /\ i <= Len(demand'.jobs[k])
          BY <2>1, <2>a, <5>1
        <5>3. k = p
          BY <2>1, <3>3, <5>1, <5>2
        <5> QED
          BY <2>a, <3>3, <5>1, <5>2, <5>3
      <4>2. demand.room[p] = 0
        <5>1. room[p] \in Nat /\ Len(demand.jobs[p]) \in Nat /\ Spent(p) /\ demand.room[p] \in Nat
          BY <2>0, <2>4
        <5>2. Len(demand.jobs[p]) >= room[p]
          BY <4>1, <5>1
        <5> QED
          BY <5>1, <5>2 DEF Spent
      <4>3. demand.room[q] = 0
        BY <1>7, <4>1, <4>2 DEF Charged
      <4> QED
        BY <2>7, <3>1, <4>3
    <3> QED
      BY <2>0, <2>4, <3>2, <3>3
  <2> QED
    BY <1>3, <1>5, <2>5, <2>6, <2>8, <2>9, <2>10
<1> QED
  BY <1>0, <1>1, <1>2, <1>6, <1>7, OneTurn

(* The second loop touches none of it.                                     *)
LEMMA DiscountKeeps ==
    ASSUME AssignInv, UNCHANGED <<inputs, unplaced, demand>>, TypeOK',
           todo' # <<>> => at' \in 1..Len(Pools)
    PROVE  AssignInv'
<1>1. \A p \in PoolSet : ChargedTo(p)' = ChargedTo(p)
  BY DEF ChargedTo
<1>2. EveryJobOnce'
  BY <1>1 DEF AssignInv, EveryJobOnce, inputs
<1>3. TightestFirst' /\ ChargedBeyondRoomOnlyWhenFull'
  BY <1>1 DEF AssignInv, TightestFirst, ChargedBeyondRoomOnlyWhenFull, inputs
<1>4. \A p \in PoolSet : Spent(p)' /\ IsFiniteSet(ChargedTo(p))'
  BY <1>1 DEF AssignInv, Spent, inputs
<1> QED
  BY <1>2, <1>3, <1>4 DEF AssignInv

LEMMA Removed ==
    ASSUME NEW T, NEW s \in Seq(T), NEW i \in 1..Len(s)
    PROVE  RemoveAt(s, i) \in Seq(T)
<1>1. SubSeq(s, 1, i - 1) \in Seq(T) /\ SubSeq(s, i + 1, Len(s)) \in Seq(T)
  OBVIOUS
<1> QED
  BY <1>1 DEF RemoveAt

LEMMA StepAssign == AssignInv /\ [Next]_vars => AssignInv'
<1> SUFFICES ASSUME AssignInv, [Next]_vars PROVE AssignInv'
  OBVIOUS
<1>0. TypeOK /\ (todo # <<>> => at \in 1..Len(Pools))
  BY DEF AssignInv
<1>1. CASE PlaceJob
  BY <1>1, PlaceKeeps
<1>2. CASE AllPlaced \/ Finish
  BY <1>0, <1>2, DiscountKeeps DEF AllPlaced, Finish, TypeOK, inputs
<1>3. CASE NextPool
  <2>1. at + 1 \in 1..Len(Pools) /\ Pools[at + 1] \in PoolSet
    BY <1>0, <1>3, PoolsAreFinite DEF NextPool, TypeOK
  <2>2. demand.jobs[Pools[at + 1]] \in Seq(Jobs)
    BY <1>0, <2>1 DEF TypeOK
  <2> QED
    BY <1>0, <1>3, <2>1, <2>2, DiscountKeeps, PoolsAreFinite DEF NextPool, TypeOK, inputs
<1>4. CASE DiscountJob
  <2>1. Tail(todo) \in Seq(Jobs)
    BY <1>0, <1>4 DEF DiscountJob, TypeOK
  <2>2. free' \in Seq(Foreign)
    BY <1>0, <1>4, Removed DEF DiscountJob, Covering, TypeOK
  <2> QED
    BY <1>0, <1>4, <2>1, <2>2, DiscountKeeps DEF DiscountJob, TypeOK, inputs
<1>5. CASE KeepJob
  <2>1. Tail(todo) \in Seq(Jobs) /\ Head(todo) \in Jobs
    BY <1>0, <1>5 DEF KeepJob, TypeOK
  <2>2. Pools[at] \in PoolSet
    BY <1>0, <1>5, PoolsAreFinite DEF KeepJob
  <2>3. kept' \in [PoolSet -> Seq(Jobs)]
    <3>1. Append(kept[Pools[at]], Head(todo)) \in Seq(Jobs)
      BY <1>0, <2>1, <2>2 DEF TypeOK
    <3> QED
      BY <1>0, <1>5, <3>1 DEF KeepJob, TypeOK
  <2> QED
    BY <1>0, <1>5, <2>1, <2>3, DiscountKeeps DEF KeepJob, TypeOK, inputs
<1>6. CASE UNCHANGED vars
  BY <1>0, <1>6, DiscountKeeps DEF vars, TypeOK, inputs
<1> QED
  BY <1>1, <1>2, <1>3, <1>4, <1>5, <1>6 DEF Next

LEMMA AlwaysAssignInv == Spec => []AssignInv
BY InitAssign, StepAssign, PTL DEF Spec

(* Every variable of the pass has its type; above all no headroom goes     *)
(* below zero.                                                             *)
THEOREM AssignTypeCorrect == Spec => []TypeOK
<1>1. AssignInv => TypeOK
  BY DEF AssignInv
<1> QED
  BY <1>1, AlwaysAssignInv, PTL

(* No polled job is lost and none is charged twice, and only a job no pool *)
(* can serve is left unassigned.                                           *)
THEOREM JobsAreChargedOnce == Spec => []EveryJobOnce
<1>1. AssignInv => EveryJobOnce
  BY DEF AssignInv
<1> QED
  BY <1>1, AlwaysAssignInv, PTL

(* A job is charged beyond a pool's headroom only when no pool that could  *)
(* serve it has any.                                                       *)
THEOREM SpillsBeforeOverflowing == Spec => []ChargedBeyondRoomOnlyWhenFull
<1>1. AssignInv => ChargedBeyondRoomOnlyWhenFull
  BY DEF AssignInv
<1> QED
  BY <1>1, AlwaysAssignInv, PTL

(* A job goes to the tightest pool that has headroom.                      *)
THEOREM ScarcePoolsAreSpared == Spec => []TightestFirst
<1>1. AssignInv => TightestFirst
  BY DEF AssignInv
<1> QED
  BY <1>1, AlwaysAssignInv, PTL

-----------------------------------------------------------------------------
(* The second loop.  Dropped is what it has dropped so far: charged to a   *)
(* pool it has reached, no longer to be looked at, and not kept.           *)
Pending(i) == IF i = at THEN ToSet(todo) ELSE {}
DroppedAt(i) == (ChargedTo(Pools[i]) \ ToSet(kept[Pools[i]])) \ Pending(i)
Dropped == UNION {DroppedAt(i) : i \in 1..at}

ChargedOnceEach ==
    \A p \in PoolSet : \A a, b \in 1..Len(demand.jobs[p]) :
        demand.jobs[p][a] = demand.jobs[p][b] => a = b

LoopInv ==
    /\ at = 0 => todo = <<>>
    /\ stage = "assigning" => at = 0
    /\ stage = "done" => at = Len(Pools) /\ todo = <<>>
    /\ \A a, b \in 1..Len(todo) : todo[a] = todo[b] => a = b
    /\ at > 0 => ToSet(todo) \subseteq ChargedTo(Pools[at]) \ ToSet(kept[Pools[at]])
    /\ \A i \in 1..Len(Pools) : i > at => kept[Pools[i]] = <<>>

KeptInv ==
    \A p \in PoolSet :
        /\ ToSet(kept[p]) \subseteq ChargedTo(p)
        /\ \A j \in ToSet(kept[p]) : \A f \in ToSet(free) : ~Covers(f, j)

Matched ==
    \E m \in [Dropped -> 1..Len(idleAway)], g \in [1..Len(free) -> 1..Len(idleAway)] :
        Matches(Dropped, m, g)

DiscountInv == ChargedOnceEach /\ LoopInv /\ KeptInv /\ Matched

LEMMA RemovedAt ==
    ASSUME NEW T, NEW s \in Seq(T), NEW i \in 1..Len(s)
    PROVE  /\ Len(RemoveAt(s, i)) = Len(s) - 1
           /\ \A k \in 1..Len(s) - 1 : RemoveAt(s, i)[k] = IF k < i THEN s[k] ELSE s[k + 1]
<1> DEFINE a == SubSeq(s, 1, i - 1)
           b == SubSeq(s, i + 1, Len(s))
<1>0. Len(s) \in Nat /\ i \in Nat /\ 1 <= i /\ i <= Len(s)
  OBVIOUS
<1>1. /\ a \in Seq(T) /\ Len(a) = i - 1 /\ \A k \in 1..i - 1 : a[k] = s[k]
      /\ b \in Seq(T) /\ Len(b) = Len(s) - i /\ \A k \in 1..Len(s) - i : b[k] = s[i + k]
  BY <1>0
<1> HIDE DEF a, b
<1>2. /\ Len(a \o b) = Len(s) - 1
      /\ \A k \in 1..Len(a) + Len(b) : (a \o b)[k] = IF k <= Len(a) THEN a[k] ELSE b[k - Len(a)]
  <2>1. /\ Len(a \o b) = Len(a) + Len(b)
        /\ \A k \in 1..Len(a) + Len(b) : (a \o b)[k] = IF k <= Len(a) THEN a[k] ELSE b[k - Len(a)]
    BY <1>1, ConcatProperties, Zenon
  <2> QED
    BY <1>0, <1>1, <2>1
<1>3. ASSUME NEW k \in 1..Len(s) - 1
      PROVE  (a \o b)[k] = IF k < i THEN s[k] ELSE s[k + 1]
  <2>0. k \in Nat /\ k \in 1..Len(a) + Len(b)
    BY <1>0, <1>1
  <2>1. CASE k < i
    <3>1. k <= Len(a) /\ k \in 1..i - 1
      BY <1>0, <1>1, <2>0, <2>1
    <3> QED
      BY <1>1, <1>2, <2>0, <2>1, <3>1
  <2>2. CASE ~(k < i)
    <3>1. ~(k <= Len(a)) /\ k - Len(a) \in 1..Len(s) - i /\ i + (k - Len(a)) = k + 1
      BY <1>0, <1>1, <2>0, <2>2
    <3>2. (a \o b)[k] = b[k - Len(a)] /\ b[k - Len(a)] = s[i + (k - Len(a))]
      BY <1>1, <1>2, <2>0, <3>1
    <3> QED
      BY <2>2, <3>1, <3>2
  <2> QED
    BY <2>1, <2>2
<1>4. RemoveAt(s, i) = a \o b
  BY DEF RemoveAt, a, b
<1> QED
  BY <1>2, <1>3, <1>4

(* The dropped jobs and the free runners decide the matching.              *)
LEMMA MatchingStands ==
    ASSUME Matched, Dropped' = Dropped, UNCHANGED <<free, idleAway>>
    PROVE  Matched'
<1>1. PICK m \in [Dropped -> 1..Len(idleAway)], g \in [1..Len(free) -> 1..Len(idleAway)] :
          Matches(Dropped, m, g)
  BY DEF Matched
<1>2. Matches(Dropped, m, g)'
  BY <1>1 DEF Matches, Covers
<1> QED
  BY <1>2 DEF Matched

LEMMA HeadAndTail ==
    ASSUME NEW T, NEW s \in Seq(T), s # <<>>, \A a, b \in 1..Len(s) : s[a] = s[b] => a = b
    PROVE  /\ ToSet(Tail(s)) = ToSet(s) \ {Head(s)} /\ Head(s) \in ToSet(s)
           /\ \A a, b \in 1..Len(Tail(s)) : Tail(s)[a] = Tail(s)[b] => a = b
<1>1. /\ Len(s) \in Nat /\ Len(s) > 0 /\ Head(s) = s[1] /\ Len(Tail(s)) = Len(s) - 1
      /\ \A k \in 1..Len(s) - 1 : Tail(s)[k] = s[k + 1]
      /\ DOMAIN s = 1..Len(s) /\ DOMAIN Tail(s) = 1..Len(s) - 1
  OBVIOUS
<1>2. ASSUME NEW k \in 2..Len(s) PROVE s[k] \in ToSet(Tail(s))
  <2>1. PICK i \in 1..Len(s) - 1 : i + 1 = k
    BY <1>1
  <2>2. i \in DOMAIN Tail(s) /\ Tail(s)[i] = s[k]
    BY <1>1, <2>1
  <2> QED
    BY <2>2 DEF ToSet
<1>3. ASSUME NEW k \in 1..Len(s) - 1 PROVE Tail(s)[k] \in ToSet(s) \ {Head(s)}
  <2>1. k + 1 \in 1..Len(s) /\ k + 1 # 1 /\ 1 \in 1..Len(s)
    BY <1>1
  <2> QED
    BY <1>1, <2>1 DEF ToSet
<1>4. ToSet(Tail(s)) \subseteq ToSet(s) \ {Head(s)}
  BY <1>1, <1>3 DEF ToSet
<1>5. ToSet(s) \ {Head(s)} \subseteq ToSet(Tail(s))
  <2>1. \A k \in 1..Len(s) : k # 1 => k \in 2..Len(s)
    BY <1>1
  <2> QED
    BY <1>1, <1>2, <2>1 DEF ToSet
<1>6. ASSUME NEW a \in 1..Len(Tail(s)), NEW b \in 1..Len(Tail(s)), Tail(s)[a] = Tail(s)[b]
      PROVE  a = b
  <2>1. a + 1 \in 1..Len(s) /\ b + 1 \in 1..Len(s) /\ s[a + 1] = s[b + 1]
    BY <1>1, <1>6
  <2> QED
    BY <2>1
<1>7. Head(s) \in ToSet(s)
  BY <1>1 DEF ToSet
<1> QED
  BY <1>4, <1>5, <1>6, <1>7

LEMMA InitDiscount == Init => DiscountInv
<1> SUFFICES ASSUME Init PROVE DiscountInv
  OBVIOUS
<1>1. AssignInv
  BY InitAssign
<1>2. idleAway \in Seq(Foreign) /\ free = idleAway /\ Len(idleAway) \in Nat
  BY <1>1 DEF AssignInv, TypeOK, Init
<1>3. Dropped = {}
  BY DEF Init, Dropped
<1>4. ToSet(<<>>) = {} /\ Len(<<>>) = 0
  BY DEF ToSet
<1>5. ChargedOnceEach
  BY <1>4 DEF ChargedOnceEach, Init, NoDemand
<1>6. LoopInv
  BY <1>4, PoolsAreFinite DEF LoopInv, Init
<1>7. KeptInv
  BY <1>4 DEF KeptInv, Init
<1>8. Matched
  <2> DEFINE m == [j \in {} |-> 0]
             g == [i \in 1..Len(free) |-> i]
  <2>1. m \in [{} -> 1..Len(idleAway)] /\ g \in [1..Len(free) -> 1..Len(idleAway)]
    BY <1>2
  <2>2. Matches({}, m, g)
    BY <1>2, <2>1 DEF Matches
  <2> QED
    BY <1>3, <2>1, <2>2 DEF Matched
<1> QED
  BY <1>5, <1>6, <1>7, <1>8 DEF DiscountInv

LEMMA PoolAt == ASSUME NEW p \in PoolSet PROVE \E i \in 1..Len(Pools) : Pools[i] = p
BY PoolsAreDistinct DEF PoolSet, ToSet

LEMMA PlaceDiscount == ASSUME AssignInv, DiscountInv, PlaceJob PROVE DiscountInv'
<1>0. TypeOK /\ demand \in DemandType
  BY DemandIsTyped DEF AssignInv
<1>1. PICK j \in unplaced : demand' = AssignJob(demand, j) /\ unplaced' = unplaced \ {j}
  BY DEF PlaceJob
<1>2. j \in Jobs /\ \A p \in PoolSet : j \notin ChargedTo(p)
  BY <1>0, <1>1 DEF TypeOK, AssignInv, EveryJobOnce
<1>3. /\ at = 0 /\ todo = <<>> /\ stage = "assigning"
      /\ UNCHANGED <<queued, room, idleAway, stage, at, todo, kept, free>>
  BY DEF PlaceJob, inputs, DiscountInv, LoopInv
<1>4. \A p \in PoolSet : kept[p] = <<>>
  <2> TAKE p \in PoolSet
  <2>1. PICK i \in 1..Len(Pools) : Pools[i] = p
    BY PoolAt
  <2>2. i > at
    BY <1>3, PoolsAreFinite
  <2> QED
    BY <2>1, <2>2 DEF DiscountInv, LoopInv
<1>5. ToSet(<<>>) = {} /\ Len(<<>>) = 0
  BY DEF ToSet
<1>6. Dropped = {} /\ Dropped' = {}
  BY <1>3 DEF Dropped
<1>7. Matched'
  BY <1>3, <1>6, MatchingStands DEF DiscountInv
<1>8. KeptInv'
  BY <1>3, <1>4, <1>5 DEF KeptInv
<1>9. LoopInv'
  BY <1>3 DEF DiscountInv, LoopInv
<1>10. ChargedOnceEach'
  <2>1. CASE demand'.jobs = demand.jobs
    BY <2>1 DEF DiscountInv, ChargedOnceEach
  <2>2. ASSUME NEW p \in PoolSet, Charged(demand, demand', j, p) PROVE ChargedOnceEach'
    <3>1. /\ demand.jobs[p] \in Seq(Jobs) /\ demand'.jobs[p] = Append(demand.jobs[p], j)
          /\ \A q \in PoolSet : q # p => demand'.jobs[q] = demand.jobs[q]
      BY <1>0, <2>2 DEF Charged, DemandType
    <3>2. \A i \in 1..Len(demand.jobs[p]) : demand.jobs[p][i] # j
      BY <1>2, <3>1 DEF ChargedTo, ToSet
    <3>3. ASSUME NEW a \in 1..Len(demand'.jobs[p]), NEW b \in 1..Len(demand'.jobs[p]),
                 demand'.jobs[p][a] = demand'.jobs[p][b]
          PROVE  a = b
      <4> DEFINE s == demand.jobs[p]
      <4>0. s \in Seq(Jobs) /\ \A x, y \in 1..Len(s) : s[x] = s[y] => x = y
        BY <3>1 DEF DiscountInv, ChargedOnceEach
      <4>1. \A i \in 1..Len(s) : s[i] # j
        BY <3>2
      <4>2. /\ a \in 1..Len(Append(s, j)) /\ b \in 1..Len(Append(s, j))
            /\ Append(s, j)[a] = Append(s, j)[b]
        BY <3>1, <3>3
      <4> HIDE DEF s
      <4> QED
        BY <4>0, <4>1, <4>2
    <3> QED
      BY <3>1, <3>3 DEF DiscountInv, ChargedOnceEach
  <2> QED
    BY <1>0, <1>1, <1>2, <2>1, <2>2, OneTurn
<1> QED
  BY <1>7, <1>8, <1>9, <1>10 DEF DiscountInv

(* A step that leaves the loop where it is.                                *)
LEMMA LoopStands ==
    ASSUME DiscountInv, UNCHANGED <<idleAway, demand, at, todo, kept, free>>,
           stage' = "assigning" => at = 0,
           stage' = "done" => at = Len(Pools) /\ todo = <<>>
    PROVE  DiscountInv'
<1>1. \A p \in PoolSet : ChargedTo(p)' = ChargedTo(p)
  BY DEF ChargedTo
<1>2. Dropped' = Dropped
  BY DEF Dropped, DroppedAt, Pending, ChargedTo
<1>3. ChargedOnceEach' /\ KeptInv'
  BY <1>1 DEF DiscountInv, ChargedOnceEach, KeptInv, Covers
<1>4. LoopInv'
  BY DEF DiscountInv, LoopInv, ChargedTo
<1> QED
  BY <1>2, <1>3, <1>4, MatchingStands DEF DiscountInv

(* What the loop relies on at a job: it is charged to this pool alone and  *)
(* its list holds it once.                                                 *)
LEMMA AtAJob ==
    ASSUME AssignInv, DiscountInv, todo # <<>>
    PROVE  /\ at \in 1..Len(Pools) /\ Pools[at] \in PoolSet /\ Head(todo) \in Jobs
           /\ Head(todo) \in ToSet(todo) /\ ToSet(Tail(todo)) = ToSet(todo) \ {Head(todo)}
           /\ Head(todo) \in ChargedTo(Pools[at]) /\ Head(todo) \notin ToSet(kept[Pools[at]])
           /\ \A a, b \in 1..Len(Tail(todo)) : Tail(todo)[a] = Tail(todo)[b] => a = b
           /\ \A i \in 1..Len(Pools) : i # at =>
                 Pools[i] # Pools[at] /\ Head(todo) \notin ChargedTo(Pools[i])
<1>1. at \in 1..Len(Pools) /\ todo \in Seq(Jobs)
  BY DEF AssignInv, TypeOK
<1>2. Pools[at] \in PoolSet /\ \A i \in 1..Len(Pools) : i # at => Pools[i] # Pools[at]
  BY <1>1, PoolsAreFinite, PoolsAreDistinct
<1>3. /\ Head(todo) \in ToSet(todo) /\ ToSet(Tail(todo)) = ToSet(todo) \ {Head(todo)}
      /\ \A a, b \in 1..Len(Tail(todo)) : Tail(todo)[a] = Tail(todo)[b] => a = b
  BY <1>1, HeadAndTail DEF DiscountInv, LoopInv
<1>4. Head(todo) \in ChargedTo(Pools[at]) /\ Head(todo) \notin ToSet(kept[Pools[at]])
  BY <1>1, <1>3 DEF DiscountInv, LoopInv
<1>5. \A i \in 1..Len(Pools) : i # at => Head(todo) \notin ChargedTo(Pools[i])
  BY <1>2, <1>4, PoolsAreFinite DEF AssignInv, EveryJobOnce
<1> QED
  BY <1>1, <1>2, <1>3, <1>4, <1>5

LEMMA NextPoolDiscount == ASSUME AssignInv, DiscountInv, NextPool PROVE DiscountInv'
<1>0. TypeOK /\ at \in Nat /\ Len(Pools) \in Nat /\ at < Len(Pools)
  BY PoolsAreFinite DEF AssignInv, TypeOK, NextPool
<1>1. /\ at' = at + 1 /\ at + 1 \in 1..Len(Pools) /\ Pools[at + 1] \in PoolSet
      /\ todo = <<>> /\ todo' = demand.jobs[Pools[at + 1]] /\ stage = "discounting"
      /\ UNCHANGED <<idleAway, stage, demand, kept, free>>
  BY <1>0, PoolsAreFinite DEF NextPool, inputs
<1>2. \A p \in PoolSet : ChargedTo(p)' = ChargedTo(p)
  BY <1>1 DEF ChargedTo
<1>3. ToSet(<<>>) = {} /\ kept[Pools[at + 1]] = <<>>
  BY <1>0, <1>1 DEF ToSet, DiscountInv, LoopInv
<1>4. ToSet(todo)' = ChargedTo(Pools[at + 1])
  BY <1>1 DEF ChargedTo
<1>5. LoopInv'
  BY <1>0, <1>1, <1>2, <1>3, <1>4 DEF DiscountInv, LoopInv, ChargedOnceEach
<1>6. ChargedOnceEach' /\ KeptInv'
  <2>1. ChargedOnceEach'
    BY <1>1 DEF DiscountInv, ChargedOnceEach
  <2>2. KeptInv'
    BY <1>1, <1>2 DEF DiscountInv, KeptInv, Covers
  <2> QED
    BY <2>1, <2>2
<1>7. Dropped' = Dropped
  <2>0. PICK n \in 1..Len(Pools) : n = at + 1
    BY <1>1
  <2>1. DroppedAt(n)' = {}
    BY <1>1, <1>2, <1>4, <2>0 DEF DroppedAt, Pending
  <2>2. ASSUME NEW i \in 1..at PROVE DroppedAt(i)' = DroppedAt(i)
    <3>1. i # at + 1 /\ i \in 1..Len(Pools) /\ Pools[i] \in PoolSet
      BY <1>0, PoolsAreFinite
    <3>2. Pending(i) = {} /\ Pending(i)' = {}
      BY <1>1, <1>3, <3>1 DEF Pending
    <3> QED
      BY <1>1, <1>2, <3>1, <3>2 DEF DroppedAt
  <2>3. 1..at' = 1..at \cup {n}
    BY <1>0, <1>1, <2>0
  <2>4. \A x : x \in Dropped' <=> \E i \in 1..at' : x \in DroppedAt(i)'
    BY DEF Dropped
  <2>5. \A x : x \in Dropped <=> \E i \in 1..at : x \in DroppedAt(i)
    BY DEF Dropped
  <2>6. \A x : x \in Dropped' <=> x \in Dropped
    BY <2>1, <2>2, <2>3, <2>4, <2>5
  <2> QED
    BY <2>6
<1> QED
  BY <1>1, <1>5, <1>6, <1>7, MatchingStands DEF DiscountInv

LEMMA KeepDiscount == ASSUME AssignInv, DiscountInv, KeepJob PROVE DiscountInv'
<1> DEFINE h == Head(todo)
           p == Pools[at]
<1>0. TypeOK /\ at \in Nat /\ Len(Pools) \in Nat /\ todo # <<>>
  BY PoolsAreFinite DEF AssignInv, TypeOK, KeepJob
<1>1. /\ at \in 1..Len(Pools) /\ p \in PoolSet /\ h \in Jobs /\ h \in ToSet(todo)
      /\ ToSet(Tail(todo)) = ToSet(todo) \ {h} /\ h \in ChargedTo(p)
      /\ \A i \in 1..Len(Pools) : i # at => Pools[i] # p
  BY <1>0, AtAJob
<1>2. /\ kept' = [kept EXCEPT ![p] = Append(kept[p], h)] /\ todo' = Tail(todo) /\ Covering(h) = {}
      /\ UNCHANGED <<idleAway, stage, demand, at, free>>
  BY DEF KeepJob, inputs
<1>3. \A q \in PoolSet : ChargedTo(q)' = ChargedTo(q)
  BY <1>2 DEF ChargedTo
<1>4. /\ kept'[p] = Append(kept[p], h) /\ ToSet(kept'[p]) = ToSet(kept[p]) \cup {h}
      /\ \A q \in PoolSet : q # p => kept'[q] = kept[q]
  <2>1. kept \in [PoolSet -> Seq(Jobs)] /\ kept[p] \in Seq(Jobs)
    BY <1>0, <1>1 DEF TypeOK
  <2>2. kept'[p] = Append(kept[p], h) /\ \A q \in PoolSet : q # p => kept'[q] = kept[q]
    BY <1>1, <1>2, <2>1
  <2> HIDE DEF h, p
  <2>3. ToSet(kept'[p]) = ToSet(kept[p]) \cup {h}
    BY <2>1, <2>2, AppendedSet
  <2> QED
    BY <2>2, <2>3
<1> HIDE DEF p
<1>5. LoopInv'
  <2>0. LoopInv
    BY DEF DiscountInv
  <2>1. at' > 0 => ToSet(todo') \subseteq ChargedTo(Pools[at])' \ ToSet(kept'[Pools[at]])
    BY <1>0, <1>1, <1>2, <1>3, <1>4, <2>0 DEF LoopInv, p
  <2>2. \A i \in 1..Len(Pools) : i > at' => kept'[Pools[i]] = <<>>
    <3> SUFFICES ASSUME NEW i \in 1..Len(Pools), i > at PROVE kept'[Pools[i]] = <<>>
      BY <1>2
    <3>1. Pools[i] # p /\ Pools[i] \in PoolSet /\ kept[Pools[i]] = <<>>
      BY <1>0, <1>1, <2>0, PoolsAreFinite DEF LoopInv
    <3> QED
      BY <1>4, <3>1
  <2>3. \A a, b \in 1..Len(todo') : todo'[a] = todo'[b] => a = b
    BY <1>0, <1>2, AtAJob
  <2>4. (at' = 0 => todo' = <<>>) /\ (stage' = "assigning" => at' = 0)
        /\ (stage' = "done" => at' = Len(Pools) /\ todo' = <<>>)
    BY <1>0, <1>1, <1>2, <2>0 DEF LoopInv
  <2> QED
    BY <1>2, <2>1, <2>2, <2>3, <2>4 DEF LoopInv
<1>6. ChargedOnceEach'
  BY <1>2 DEF DiscountInv, ChargedOnceEach
<1>7. KeptInv'
  <2>1. \A f \in ToSet(free) : ~Covers(f, h)
    <3>1. free \in Seq(Foreign) /\ DOMAIN free = 1..Len(free)
      BY <1>0 DEF TypeOK
    <3> HIDE DEF h
    <3> QED
      BY <1>2, <3>1 DEF Covering, ToSet
  <2>2. \A q \in PoolSet : \A j \in ToSet(kept'[q]) : j \in ToSet(kept[q]) \/ (q = p /\ j = h)
    BY <1>4
  <2>3. \A q \in PoolSet : \A j \in ToSet(kept'[q]) :
            j \in ChargedTo(q) /\ \A f \in ToSet(free) : ~Covers(f, j)
    BY <1>1, <2>1, <2>2 DEF DiscountInv, KeptInv, p
  <2> QED
    BY <1>2, <1>3, <2>3 DEF KeptInv, Covers
<1>8. Dropped' = Dropped
  <2>1. ASSUME NEW i \in 1..at PROVE DroppedAt(i)' = DroppedAt(i)
    <3>0. i \in 1..Len(Pools) /\ Pools[i] \in PoolSet
      BY <1>1, PoolsAreFinite
    <3>1. CASE i = at
      BY <1>1, <1>2, <1>3, <1>4, <3>0, <3>1 DEF DroppedAt, Pending, p
    <3>2. CASE i # at
      <4>1. kept'[Pools[i]] = kept[Pools[i]]
        BY <1>1, <1>4, <3>0, <3>2
      <4> QED
        BY <1>2, <1>3, <3>0, <3>2, <4>1 DEF DroppedAt, Pending
    <3> QED
      BY <3>1, <3>2
  <2>2. \A x : x \in Dropped' <=> \E i \in 1..at' : x \in DroppedAt(i)'
    BY DEF Dropped
  <2>3. \A x : x \in Dropped <=> \E i \in 1..at : x \in DroppedAt(i)
    BY DEF Dropped
  <2>4. \A x : x \in Dropped' <=> x \in Dropped
    BY <1>2, <2>1, <2>2, <2>3
  <2> QED
    BY <2>4
<1> QED
  BY <1>2, <1>5, <1>6, <1>7, <1>8, MatchingStands DEF DiscountInv

(* The runner used up is the one the new dropped job is matched with.      *)
LEMMA MatchOneMore ==
    ASSUME Matched, idleAway \in Seq(Foreign), free \in Seq(Foreign), UNCHANGED idleAway,
           NEW h, h \notin Dropped, NEW i \in Covering(h), free' = RemoveAt(free, i),
           Dropped' = Dropped \cup {h}
    PROVE  Matched'
<1>0. Len(free) \in Nat /\ Len(idleAway) \in Nat /\ i \in 1..Len(free) /\ Covers(free[i], h)
  BY DEF Covering
<1>1. PICK m \in [Dropped -> 1..Len(idleAway)], g \in [1..Len(free) -> 1..Len(idleAway)] :
          Matches(Dropped, m, g)
  BY DEF Matched
<1>m. PICK more : more = [j \in Dropped \cup {h} |-> IF j = h THEN g[i] ELSE m[j]]
  OBVIOUS
<1>l. PICK less : less = [k \in 1..Len(free) - 1 |-> IF k < i THEN g[k] ELSE g[k + 1]]
  OBVIOUS
<1> DEFINE skip(k) == IF k < i THEN k ELSE k + 1
<1>2. Len(free') = Len(free) - 1 /\ \A k \in 1..Len(free) - 1 : free'[k] = free[skip(k)]
  BY <1>0, RemovedAt
<1>3. \A k \in 1..Len(free) - 1 :
          skip(k) \in 1..Len(free) /\ skip(k) # i /\ less[k] = g[skip(k)]
  BY <1>0, <1>l
<1>4. \A k, l \in 1..Len(free) - 1 : skip(k) = skip(l) => k = l
  BY <1>0
<1>5. \A x \in 1..Len(free) : x # i => \E k \in 1..Len(free) - 1 : skip(k) = x
  <2> SUFFICES ASSUME NEW x \in 1..Len(free), x # i
               PROVE  \E k \in 1..Len(free) - 1 : skip(k) = x
    OBVIOUS
  <2>1. CASE x < i
    <3>1. x \in 1..Len(free) - 1 /\ skip(x) = x
      BY <1>0, <2>1
    <3> QED
      BY <3>1
  <2>2. CASE x > i
    <3>1. x - 1 \in 1..Len(free) - 1 /\ ~(x - 1 < i) /\ (x - 1) + 1 = x
      BY <1>0, <2>2
    <3> QED
      BY <3>1
  <2> QED
    BY <1>0, <2>1, <2>2
<1>6. /\ more \in [Dropped \cup {h} -> 1..Len(idleAway)]
      /\ less \in [1..Len(free) - 1 -> 1..Len(idleAway)]
      /\ more[h] = g[i] /\ \A j \in Dropped : more[j] = m[j]
  BY <1>0, <1>3, <1>m, <1>l
<1> HIDE DEF skip
<1> DEFINE D == Dropped
           n == Len(free)
           away == idleAway
<1>7. /\ \A j, k \in D : m[j] = m[k] => j = k
      /\ \A k, l \in 1..n : g[k] = g[l] => k = l
      /\ \A j \in D : \A k \in 1..n : m[j] # g[k]
      /\ \A x \in 1..Len(away) : (\E j \in D : m[j] = x) \/ (\E k \in 1..n : g[k] = x)
      /\ \A j \in D : Covers(away[m[j]], j)
      /\ \A k \in 1..n : free[k] = away[g[k]]
  BY <1>1 DEF Matches
<1>8. /\ \A j, k \in D \cup {h} : more[j] = more[k] => j = k
      /\ \A k, l \in 1..n - 1 : less[k] = less[l] => k = l
      /\ \A j \in D \cup {h} : \A k \in 1..n - 1 : more[j] # less[k]
  BY <1>0, <1>3, <1>4, <1>6, <1>7
<1>9. \A x \in 1..Len(away) :
          (\E j \in D \cup {h} : more[j] = x) \/ (\E k \in 1..n - 1 : less[k] = x)
  <2> TAKE x \in 1..Len(away)
  <2>1. CASE \E j \in D : m[j] = x
    BY <1>6, <2>1
  <2>2. ASSUME NEW k \in 1..n, g[k] = x
        PROVE  (\E j \in D \cup {h} : more[j] = x) \/ (\E l \in 1..n - 1 : less[l] = x)
    <3>1. CASE k = i
      BY <1>6, <2>2, <3>1
    <3>2. CASE k # i
      BY <1>3, <1>5, <2>2, <3>2
    <3> QED
      BY <3>1, <3>2
  <2> QED
    BY <1>7, <2>1, <2>2
<1>10. /\ \A j \in D \cup {h} : Covers(away[more[j]], j)
       /\ \A k \in 1..n - 1 : free'[k] = away[less[k]]
  BY <1>0, <1>2, <1>3, <1>6, <1>7
<1>11. Matches(Dropped, more, less)'
  <2>1. Len(free)' = n - 1 /\ Len(idleAway)' = Len(away)
    BY <1>2
  <2>2. /\ more \in [Dropped' -> 1..Len(idleAway)'] /\ less \in [1..Len(free)' -> 1..Len(idleAway)']
    BY <1>6, <2>1
  <2>3. /\ \A j, k \in Dropped' : more[j] = more[k] => j = k
        /\ \A k, l \in 1..Len(free)' : less[k] = less[l] => k = l
        /\ \A j \in Dropped' : \A k \in 1..Len(free)' : more[j] # less[k]
    BY <1>8, <2>1
  <2>4. \A x \in 1..Len(idleAway)' :
            (\E j \in Dropped' : more[j] = x) \/ (\E k \in 1..Len(free)' : less[k] = x)
    BY <1>9, <2>1
  <2>5. /\ \A j \in Dropped' : Covers(idleAway'[more[j]], j)
        /\ \A k \in 1..Len(free)' : free'[k] = idleAway'[less[k]]
    BY <1>10, <2>1
  <2> QED
    BY <2>2, <2>3, <2>4, <2>5 DEF Matches, Covers
<1> QED
  BY <1>2, <1>6, <1>11 DEF Matched

LEMMA DropDiscount == ASSUME AssignInv, DiscountInv, DiscountJob PROVE DiscountInv'
<1> DEFINE h == Head(todo)
           p == Pools[at]
<1>0. TypeOK /\ at \in Nat /\ Len(Pools) \in Nat /\ todo # <<>>
  BY PoolsAreFinite DEF AssignInv, TypeOK, DiscountJob
<1>1. /\ at \in 1..Len(Pools) /\ p \in PoolSet /\ h \in Jobs /\ h \in ToSet(todo)
      /\ ToSet(Tail(todo)) = ToSet(todo) \ {h} /\ h \in ChargedTo(p) /\ h \notin ToSet(kept[p])
      /\ \A i \in 1..Len(Pools) : i # at => h \notin ChargedTo(Pools[i])
  BY <1>0, AtAJob
<1>2. PICK i \in Covering(h) : free' = RemoveAt(free, i)
  BY DEF DiscountJob
<1>3. todo' = Tail(todo) /\ UNCHANGED <<idleAway, stage, demand, at, kept>>
  BY DEF DiscountJob, inputs
<1>4. \A q \in PoolSet : ChargedTo(q)' = ChargedTo(q)
  BY <1>3 DEF ChargedTo
<1>5. LoopInv'
  <2>0. LoopInv
    BY DEF DiscountInv
  <2>1. at' > 0 => ToSet(todo') \subseteq ChargedTo(p)' \ ToSet(kept'[p])
    BY <1>0, <1>1, <1>3, <1>4, <2>0 DEF LoopInv
  <2>2. \A a, b \in 1..Len(todo') : todo'[a] = todo'[b] => a = b
    BY <1>0, <1>3, AtAJob
  <2>3. (at' = 0 => todo' = <<>>) /\ (stage' = "assigning" => at' = 0)
        /\ (stage' = "done" => at' = Len(Pools) /\ todo' = <<>>)
        /\ \A k \in 1..Len(Pools) : k > at' => kept'[Pools[k]] = <<>>
    BY <1>0, <1>1, <1>3, <2>0 DEF LoopInv
  <2> QED
    BY <1>3, <2>1, <2>2, <2>3 DEF LoopInv
<1>6. ChargedOnceEach'
  BY <1>3 DEF DiscountInv, ChargedOnceEach
<1>7. KeptInv'
  <2>0. free \in Seq(Foreign) /\ Len(free) \in Nat /\ i \in 1..Len(free)
    BY <1>0, <1>2 DEF TypeOK, Covering
  <2>1. /\ Len(free') = Len(free) - 1 /\ free' \in Seq(Foreign)
        /\ \A k \in 1..Len(free) - 1 : free'[k] = IF k < i THEN free[k] ELSE free[k + 1]
    BY <1>2, <2>0, RemovedAt, Removed
  <2>2. \A k \in 1..Len(free') : \E l \in 1..Len(free) : free'[k] = free[l]
    BY <2>0, <2>1
  <2>3. DOMAIN free = 1..Len(free) /\ DOMAIN free' = 1..Len(free')
    BY <2>0, <2>1
  <2>4. ToSet(free') \subseteq ToSet(free)
    BY <2>2, <2>3 DEF ToSet
  <2> QED
    BY <1>3, <1>4, <2>4 DEF DiscountInv, KeptInv, Covers
<1>8. h \notin Dropped
  <2>1. ASSUME NEW k \in 1..at PROVE h \notin DroppedAt(k)
    <3>1. k \in 1..Len(Pools)
      BY <1>1, <1>0
    <3> QED
      BY <1>1, <3>1 DEF DroppedAt, Pending
  <2> QED
    BY <2>1 DEF Dropped
<1>9. Dropped' = Dropped \cup {h}
  <2>1. ASSUME NEW k \in 1..at
        PROVE  DroppedAt(k)' = IF k = at THEN DroppedAt(k) \cup {h} ELSE DroppedAt(k)
    <3>0. k \in 1..Len(Pools) /\ Pools[k] \in PoolSet
      BY <1>0, <1>1, PoolsAreFinite
    <3>1. CASE k = at
      BY <1>1, <1>3, <1>4, <3>0, <3>1 DEF DroppedAt, Pending
    <3>2. CASE k # at
      BY <1>3, <1>4, <3>0, <3>2 DEF DroppedAt, Pending
    <3> QED
      BY <3>1, <3>2
  <2>2. \A x : x \in Dropped' <=> \E k \in 1..at' : x \in DroppedAt(k)'
    BY DEF Dropped
  <2>3. \A x : x \in Dropped <=> \E k \in 1..at : x \in DroppedAt(k)
    BY DEF Dropped
  <2>4. at \in 1..at
    BY <1>0, <1>1
  <2>5. ASSUME NEW x PROVE x \in Dropped' <=> x \in Dropped \cup {h}
    <3>1. x \in Dropped' => x \in Dropped \cup {h}
      BY <1>3, <2>1, <2>2, <2>3
    <3>2. x \in Dropped => x \in Dropped'
      BY <1>3, <2>1, <2>2, <2>3
    <3>3. h \in DroppedAt(at)'
      BY <1>3, <2>1, <2>4
    <3>4. h \in Dropped'
      BY <1>3, <2>4, <3>3 DEF Dropped
    <3> QED
      BY <3>1, <3>2, <3>4
  <2> QED
    BY <2>5
<1>10. Matched'
  <2>1. idleAway \in Seq(Foreign) /\ free \in Seq(Foreign)
    BY <1>0 DEF TypeOK
  <2> HIDE DEF h
  <2> QED
    BY <1>2, <1>3, <1>8, <1>9, <2>1, MatchOneMore DEF DiscountInv
<1> QED
  BY <1>5, <1>6, <1>7, <1>10 DEF DiscountInv

LEMMA StepDiscount == AssignInv /\ DiscountInv /\ [Next]_vars => DiscountInv'
<1> SUFFICES ASSUME AssignInv, DiscountInv, [Next]_vars PROVE DiscountInv'
  OBVIOUS
<1>0. LoopInv
  BY DEF DiscountInv
<1>1. CASE AllPlaced \/ Finish \/ UNCHANGED vars
  BY <1>0, <1>1, LoopStands DEF AllPlaced, Finish, vars, inputs, LoopInv
<1> QED
  BY <1>1, PlaceDiscount, NextPoolDiscount, DropDiscount, KeepDiscount DEF Next

LEMMA DroppedInTheEnd ==
    ASSUME AssignInv, DiscountInv, stage = "done"
    PROVE  Dropped = (UNION {ChargedTo(p) : p \in PoolSet})
                         \ (UNION {ToSet(kept[p]) : p \in PoolSet})
<1>1. at = Len(Pools) /\ todo = <<>> /\ Len(Pools) \in Nat /\ ToSet(<<>>) = {}
  BY PoolsAreFinite DEF DiscountInv, LoopInv, ToSet
<1>2. \A i \in 1..Len(Pools) : DroppedAt(i) = ChargedTo(Pools[i]) \ ToSet(kept[Pools[i]])
  BY <1>1 DEF DroppedAt, Pending
<1>3. ASSUME NEW p \in PoolSet, NEW j \in ChargedTo(p)
      PROVE  j \in ToSet(kept[p]) <=> \E q \in PoolSet : j \in ToSet(kept[q])
  BY DEF AssignInv, EveryJobOnce, DiscountInv, KeptInv
<1>4. ASSUME NEW j
      PROVE  j \in Dropped <=> \E p \in PoolSet : j \in ChargedTo(p) /\ j \notin ToSet(kept[p])
  <2>1. j \in Dropped <=> \E i \in 1..Len(Pools) : j \in ChargedTo(Pools[i]) \ ToSet(kept[Pools[i]])
    BY <1>1, <1>2 DEF Dropped
  <2> QED
    BY <2>1, PoolAt, PoolsAreFinite
<1> DEFINE before == UNION {ChargedTo(p) : p \in PoolSet}
           after  == UNION {ToSet(kept[p]) : p \in PoolSet}
<1>5. \A j : j \in Dropped <=> j \in before /\ j \notin after
  BY <1>3, <1>4
<1> HIDE DEF before, after
<1>6. Dropped = before \ after
  BY <1>5
<1> QED
  BY <1>6 DEF before, after

(* orchestrator.go:623: discountForeignIdle drops as many jobs as foreign  *)
(* runners it uses up, each for a runner that covers it, and a job it      *)
(* leaves as demand is one no runner left over could take.                 *)
THEOREM TheDiscountMatches == Spec => []DiscountIsAMatching
<1>1. AssignInv /\ DiscountInv => DiscountIsAMatching
  <2> SUFFICES ASSUME AssignInv, DiscountInv, stage = "done" PROVE DiscountIsAMatching
    BY DEF DiscountIsAMatching
  <2>1. Dropped = (UNION {ChargedTo(p) : p \in PoolSet})
                 \ (UNION {ToSet(kept[p]) : p \in PoolSet})
    BY DroppedInTheEnd
  <2> DEFINE before == UNION {ChargedTo(p) : p \in PoolSet}
             after  == UNION {ToSet(kept[p]) : p \in PoolSet}
  <2>2. /\ \A p \in PoolSet : ToSet(kept[p]) \subseteq ChargedTo(p)
        /\ \A j \in after : \A f \in ToSet(free) : ~Covers(f, j)
    BY DEF DiscountInv, KeptInv
  <2>3. \E m \in [before \ after -> 1..Len(idleAway)], g \in [1..Len(free) -> 1..Len(idleAway)] :
            Matches(before \ after, m, g)
    <3>1. Dropped = before \ after
      BY <2>1
    <3> HIDE DEF before, after
    <3> QED
      BY <3>1 DEF DiscountInv, Matched
  <2> QED
    BY <2>2, <2>3 DEF DiscountIsAMatching
<1>2. Spec => [](AssignInv /\ DiscountInv)
  BY InitAssign, InitDiscount, StepAssign, StepDiscount, PTL DEF Spec
<1> QED
  BY <1>1, <1>2, PTL
==============================================================================
