-------------------------------- MODULE Assign --------------------------------
(***************************************************************************)
(* What one pass makes of the jobs it polled: AssignDemand (scale.go)      *)
(* charges each to a pool, then discountForeignIdle (orchestrator.go)      *)
(* drops those a runner of another host is online to take.  One step is    *)
(* one turn of the loops over jobs.  The inputs -- which jobs are queued,  *)
(* how much each pool may still grow, which foreign runners are free --    *)
(* are chosen in the initial state and never change.                       *)
(***************************************************************************)
EXTENDS Scale

CONSTANTS
    LiveCounts,    \* pool -> how many instances it may have
    PoolLimits,    \* pool -> its limits
    Foreign,       \* runners of other hosts
    ForeignLabels, \* foreign runner -> its labels, as GitHub lists them
    ForeignRepo,   \* foreign runner -> the repository it serves, or NoRepo
    FreeLists      \* the lists of free foreign runners that GitHub may return

ASSUME AssignAssumption ==
    /\ PoolLimits \in [PoolSet -> Limits]
    /\ LiveCounts \in [PoolSet -> SUBSET Nat]
    /\ ForeignRepo \in [Foreign -> Repos \cup {NoRepo}]
    /\ FreeLists \subseteq Seq(Foreign)

VARIABLES
    queued,     \* the jobs polled
    room,       \* pool -> its headroom before any job is placed
    idleAway,   \* the free foreign runners listed
    stage,      \* "assigning", then "discounting", then "done"
    unplaced,   \* jobs the first loop has not looked at
    demand,     \* its accumulator
    at,         \* the pool the second loop is at
    todo,       \* that pool's jobs it has not looked at
    kept,       \* pool -> the jobs that stay demand
    free        \* the foreign runners not used up

inputs == <<queued, room, idleAway>>
vars   == <<inputs, stage, unplaced, demand, at, todo, kept, free>>

Init ==
    /\ queued \in SUBSET Jobs
    /\ \E live \in {f \in [PoolSet -> UNION {LiveCounts[p] : p \in PoolSet}] :
                        \A p \in PoolSet : f[p] \in LiveCounts[p]} :
          room = Headroom(live, PoolLimits)
    /\ idleAway \in FreeLists
    /\ stage = "assigning"
    /\ unplaced = queued
    /\ demand = NoDemand(room)
    /\ at = 0
    /\ todo = <<>>
    /\ kept = [p \in PoolSet |-> <<>>]
    /\ free = idleAway

PlaceJob ==
    /\ stage = "assigning"
    /\ \E j \in unplaced :
          /\ IsFirst(j, unplaced)
          /\ demand' = AssignJob(demand, j)
          /\ unplaced' = unplaced \ {j}
    /\ UNCHANGED <<inputs, stage, at, todo, kept, free>>

AllPlaced ==
    /\ stage = "assigning" /\ unplaced = {}
    /\ stage' = "discounting"
    /\ UNCHANGED <<inputs, unplaced, demand, at, todo, kept, free>>

NextPool ==
    /\ stage = "discounting" /\ todo = <<>> /\ at < Len(Pools)
    /\ at' = at + 1
    /\ todo' = demand.jobs[Pools[at + 1]]
    /\ UNCHANGED <<inputs, stage, unplaced, demand, kept, free>>

Covers(f, j) ==
    /\ ForeignRepo[f] # NoRepo => ForeignRepo[f] = JobRepo[j]
    /\ JobLabels[j] \subseteq ForeignLabels[f]

Covering(j) == {i \in 1..Len(free) : Covers(free[i], j)}

BugNeverUsedUp ==
    /\ todo # <<>>
    /\ Covering(Head(todo)) # {}
    /\ todo' = Tail(todo)
    /\ UNCHANGED <<inputs, stage, unplaced, demand, at, kept, free>>

\* The first free runner that covers the job takes it and is used up.
DiscountJob ==
    /\ todo # <<>>
    /\ \E i \in Covering(Head(todo)) :
          /\ \A k \in Covering(Head(todo)) : i <= k
          /\ free' = RemoveAt(free, i)
    /\ todo' = Tail(todo)
    /\ UNCHANGED <<inputs, stage, unplaced, demand, at, kept>>

KeepJob ==
    /\ todo # <<>>
    /\ Covering(Head(todo)) = {}
    /\ kept' = [kept EXCEPT ![Pools[at]] = Append(@, Head(todo))]
    /\ todo' = Tail(todo)
    /\ UNCHANGED <<inputs, stage, unplaced, demand, at, free>>

Finish ==
    /\ stage = "discounting" /\ todo = <<>> /\ at = Len(Pools)
    /\ stage' = "done"
    /\ UNCHANGED <<inputs, unplaced, demand, at, todo, kept, free>>

Next == PlaceJob \/ AllPlaced \/ NextPool \/ DiscountJob \/ KeepJob \/ Finish

Spec == Init /\ [][Next]_vars

-----------------------------------------------------------------------------
ChargedTo(p) == ToSet(demand.jobs[p])

\* Every variable has its type.
TypeOK ==
    /\ queued \in SUBSET Jobs
    /\ room \in [PoolSet -> Nat]
    /\ idleAway \in Seq(Foreign)
    /\ stage \in {"assigning", "discounting", "done"}
    /\ unplaced \in SUBSET Jobs
    /\ demand \in [room: [PoolSet -> Nat], jobs: [PoolSet -> Seq(Jobs)], unassigned: Seq(Jobs)]
    /\ at \in 0..Len(Pools)
    /\ todo \in Seq(Jobs)
    /\ kept \in [PoolSet -> Seq(Jobs)]
    /\ free \in Seq(Foreign)

\* scale.go:87: no polled job is lost and none is counted twice: each is waiting to be
\* looked at, charged to one pool, or unassigned because no pool can serve it.
EveryJobOnce ==
    /\ queued = unplaced \cup ToSet(demand.unassigned) \cup UNION {ChargedTo(p) : p \in PoolSet}
    /\ unplaced \cap (ToSet(demand.unassigned) \cup UNION {ChargedTo(p) : p \in PoolSet}) = {}
    /\ \A p, q \in PoolSet : p # q => ChargedTo(p) \cap ChargedTo(q) = {}
    /\ \A p \in PoolSet : Cardinality(ChargedTo(p)) = Len(demand.jobs[p])
    /\ \A j \in queued \ unplaced : j \in ToSet(demand.unassigned) <=> Candidates(j) = {}

\* scale.go:83: a job counts against a pool that cannot grow to serve it only while no
\* other pool that could serve it has headroom.
ChargedBeyondRoomOnlyWhenFull ==
    \A p \in PoolSet :
        Len(demand.jobs[p]) > room[p] =>
            \A i \in room[p] + 1 .. Len(demand.jobs[p]) :
                \A q \in Candidates(demand.jobs[p][i]) : demand.room[q] = 0

\* scale.go:54: a job within a pool's headroom is there because every tighter fit is
\* full, so that scarce machines are left to the jobs that ask for them.
TightestFirst ==
    \A p \in PoolSet : \A j \in ChargedTo(p) :
        \A q \in Candidates(j) : Tighter(q, p) => demand.room[q] = 0

\* m gives each dropped job a foreign runner that covers it and g finds the runners still
\* free in the list; no two share one, and every runner listed is one or the other.
Matches(dropped, m, g) ==
    /\ m \in [dropped -> 1..Len(idleAway)] /\ g \in [1..Len(free) -> 1..Len(idleAway)]
    /\ \A j, k \in dropped : m[j] = m[k] => j = k
    /\ \A i, k \in 1..Len(free) : g[i] = g[k] => i = k
    /\ \A j \in dropped : \A i \in 1..Len(free) : m[j] # g[i]
    /\ \A x \in 1..Len(idleAway) :
          (\E j \in dropped : m[j] = x) \/ (\E i \in 1..Len(free) : g[i] = x)
    /\ \A j \in dropped : Covers(idleAway[m[j]], j)
    /\ \A i \in 1..Len(free) : free[i] = idleAway[g[i]]

\* orchestrator.go:623: the jobs dropped are matched one to one with foreign runners
\* that can take them, and a job that stays is one that no unused foreign runner covers.
DiscountIsAMatching ==
    stage = "done" =>
        LET before == UNION {ChargedTo(p) : p \in PoolSet}
            after  == UNION {ToSet(kept[p]) : p \in PoolSet}
        IN  /\ \A p \in PoolSet : ToSet(kept[p]) \subseteq ChargedTo(p)
            /\ \A j \in after : \A f \in ToSet(free) : ~Covers(f, j)
            /\ \E m \in [before \ after -> 1..Len(idleAway)],
                  g \in [1..Len(free) -> 1..Len(idleAway)] : Matches(before \ after, m, g)
==============================================================================
