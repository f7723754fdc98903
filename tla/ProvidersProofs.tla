--------------------------- MODULE ProvidersProofs ---------------------------
(***************************************************************************)
(* What the providers leave behind and whom they signal, for any instances,*)
(* process ids, faults and crashes.                                        *)
(***************************************************************************)
EXTENDS Providers, TLAPS

(* A Create makes its directory once and a Destroy begins when it is over, *)
(* so the state file and the pid in it come and go together.               *)
Stage(n) ==
    /\ creating[n] = "fresh" => dir[n] = "none"
    /\ creating[n] \in {"cloned", "started"} => dir[n] = "bare"
    /\ ending[n] # "no" => creating[n] = "done" /\ dir[n] # "none"
    /\ ending[n] = "signalled" => dir[n] = "state"

HostType == TypeOK /\ \A n \in Names : Stage(n)

LEMMA AnswerType ==
    TypeOK => \A n \in Names, p \in Pids : Matches(p, n) \subseteq {"ours", "alien"}
BY DEF TypeOK, Matches, PsSays, Verdicts

LEMMA RecordedPid ==
    ASSUME TypeOK, NEW n \in Names, dir[n] = "state"
    PROVE  pidOf[n] \in Pids
BY DEF TypeOK

LEMMA HostInitType == Init => HostType
BY HostConstants, FaultBound DEF Init, HostType, Stage, TypeOK, Owners, Verdicts, Unasked

LEMMA HostStepType == HostType /\ [Next]_vars => HostType'
<1> SUFFICES ASSUME HostType, [Next]_vars PROVE HostType'
  OBVIOUS
<1> USE HostConstants, FaultBound DEF HostType, Stage, TypeOK, Fault
<1>1. ASSUME NEW n \in Names, Create(n) PROVE HostType'
  <2>0. CASE CloneFails(n)
    BY <2>0 DEF CloneFails
  <2>1. CASE Clone(n)
    BY <2>1 DEF Clone
  <2>2. CASE StartFails(n)
    BY <2>2 DEF StartFails, Undo
  <2>3. ASSUME NEW p \in Pids, Start(n, p) PROVE HostType'
    BY <2>3 DEF Start, Owners
  <2>4. ASSUME NEW p \in Pids, WriteState(n, p) PROVE HostType'
    BY <2>4 DEF WriteState
  <2>5. ASSUME NEW p \in Pids, WriteStateFails(n, p) PROVE HostType'
    <3>1. proc' \in [Pids -> Owners] /\ lost' \subseteq Names
      BY <2>5 DEF WriteStateFails, Killed, Owners
    <3>2. /\ dir' \in [Names -> {"none", "bare", "state"}] /\ dir'[n] \in {"none", "bare"}
          /\ dir[n] = "bare" /\ \A k \in Names : k # n => dir'[k] = dir[k]
      BY <2>5 DEF WriteStateFails, Undo
    <3>3. /\ creating[n] = "started" /\ creating' = [creating EXCEPT ![n] = "done"]
          /\ faults' \in 0..MaxFaults /\ UNCHANGED <<up, pidOf, seen, ending, hit>>
      BY <2>5 DEF WriteStateFails
    <3> QED
      BY <3>1, <3>2, <3>3
  <2> QED
    BY <1>1, <2>0, <2>1, <2>2, <2>3, <2>4, <2>5 DEF Create
<1>2. ASSUME NEW n \in Names, List(n) PROVE HostType'
  <2>1. pidOf[n] \in Pids
    BY <1>2, RecordedPid DEF List, Listens
  <2>2. PICK v \in Matches(pidOf[n], n) : seen' = [seen EXCEPT ![n][pidOf[n]] = v]
    BY <1>2 DEF List
  <2>3. v \in Verdicts
    BY <2>1, <2>2, AnswerType DEF Verdicts
  <2> QED
    BY <1>2, <2>1, <2>2, <2>3 DEF List
<1>3. ASSUME NEW n \in Names, Destroy(n) PROVE HostType'
  <2>1. CASE Listens(n)
    <3>1. pidOf[n] \in Pids
      BY <2>1, RecordedPid DEF Listens
    <3>2. seen' \in [Names -> [Pids -> Verdicts]]
      <4>1. PICK v \in Matches(pidOf[n], n) : seen' = [seen EXCEPT ![n][pidOf[n]] = v]
        BY <1>3, <2>1 DEF Destroy
      <4>2. v \in Verdicts
        BY <3>1, <4>1, AnswerType DEF Verdicts
      <4> QED
        BY <3>1, <4>1, <4>2
    <3>3. hit' \subseteq Owners
      BY <1>3, <3>1 DEF Destroy
    <3> QED
      BY <1>3, <2>1, <3>2, <3>3 DEF Destroy, Creating, Listens
  <2>2. CASE ~Listens(n)
    BY <1>3, <2>2 DEF Destroy, Creating
  <2> QED
    BY <2>1, <2>2
<1>9. ASSUME NEW n \in Names, DestroyUnread(n) PROVE HostType'
  BY <1>9 DEF DestroyUnread, Creating
<1>4. ASSUME NEW n \in Names, EndDestroy(n) PROVE HostType'
  <2>1. CASE WaitOver(n)
    <3>1. pidOf[n] \in Pids
      BY <2>1, RecordedPid DEF WaitOver
    <3>2. Killed(n, pidOf[n]) /\ faults' \in 0..MaxFaults /\ hit' \subseteq Owners
      BY <2>1, <3>1 DEF WaitOver
    <3>3. proc' \in [Pids -> Owners] /\ lost' \subseteq Names
      BY <3>1, <3>2 DEF Killed, Owners
    <3> QED
      BY <2>1, <3>2, <3>3 DEF WaitOver
  <2>2. CASE RemoveDir(n)
    BY <2>2 DEF RemoveDir, Gone
  <2>3. CASE RemoveDirFails(n)
    <3>1. CASE UNCHANGED <<dir, pidOf>>
      BY <2>3, <3>1 DEF RemoveDirFails
    <3>2. CASE dir' = [dir EXCEPT ![n] = "bare"] /\ pidOf' = Gone(n)
      BY <2>3, <3>2 DEF RemoveDirFails, Gone
    <3> QED
      BY <2>3, <3>1, <3>2 DEF RemoveDirFails
  <2> QED
    BY <1>4, <2>1, <2>2, <2>3 DEF EndDestroy
<1>5. ASSUME NEW p \in Pids, RunnerExits(p) \/ OtherStarts(p) \/ OtherEnds(p) PROVE HostType'
  BY <1>5 DEF RunnerExits, OtherStarts, OtherEnds, Owners
<1>6. CASE Crash
  <2>1. seen' \in [Names -> [Pids -> Verdicts]] /\ lost' \subseteq Names
    BY <1>6 DEF Crash, Verdicts, Unasked
  <2>2. creating' \in [Names -> {"fresh", "cloned", "started", "done"}]
    BY <1>6 DEF Crash
  <2>3. ending' \in [Names -> {"no", "signalled", "gone"}]
    BY <1>6 DEF Crash
  <2>4. \A n \in Names : creating'[n] \in {"fresh", "done"} /\ ending'[n] = "no"
                         /\ (creating'[n] = "fresh" => creating[n] = "fresh")
    BY <1>6 DEF Crash
  <2>5. up' = FALSE /\ faults' \in 0..MaxFaults /\ UNCHANGED <<proc, dir, pidOf, hit>>
    BY <1>6 DEF Crash
  <2> QED
    BY <2>1, <2>2, <2>3, <2>4, <2>5
<1>7. CASE Restart
  BY <1>7 DEF Restart
<1>8. CASE UNCHANGED vars
  BY <1>8 DEF vars
<1> QED
  BY <1>1, <1>2, <1>3, <1>4, <1>5, <1>6, <1>7, <1>8, <1>9 DEF Next, AnyDestroy

-----------------------------------------------------------------------------
(* Of one instance and one process id: a runner is started once, it can be *)
(* found unless arc lost it, what ps said was said of an instance          *)
(* that was complete, and a directory that Destroy is about to remove has  *)
(* no runner any more.                                                     *)
Found(n, p) == creating[n] = "started" \/ n \in lost \/ (dir[n] = "state" /\ pidOf[n] = p)

RunnerInv(n, p) ==
    /\ proc[p] = n =>
          /\ creating[n] \in {"started", "done"}
          /\ \A q \in Pids : proc[q] = n => q = p
          /\ Found(n, p)
          /\ ending[n] = "gone" => n \in lost
    /\ seen[n][p] # "unasked" => creating[n] = "done"
    /\ seen[n][p] = "alien" => proc[p] # n

LifeInv == \A n \in Names, p \in Pids : RunnerInv(n, p)

LEMMA InitLife == Init => LifeInv
BY HostConstants DEF Init, LifeInv, RunnerInv, Unasked

LEMMA AskKeepsLife ==
    ASSUME HostType, LifeInv, NEW n \in Names, NEW p \in Pids, dir[n] = "state", pidOf[n] = p,
           NEW v \in Matches(p, n), seen' = [seen EXCEPT ![n][p] = v],
           UNCHANGED <<proc, dir, pidOf, creating, lost>>,
           \A k \in Names : ending'[k] = "gone" => ending[k] = "gone" \/ (k = n /\ v = "alien")
    PROVE  LifeInv'
<1>0. TypeOK
  BY DEF HostType
<1>1. creating[n] = "done"
  BY <1>0 DEF HostType, Stage, TypeOK
<1>2. /\ v \in {"ours", "alien"} /\ seen'[n][p] = v
      /\ \A k \in Names, q \in Pids : k # n \/ q # p => seen'[k][q] = seen[k][q]
  <2>1. v \in {"ours", "alien"}
    BY <1>0, AnswerType
  <2> QED
    BY <1>0, <2>1 DEF TypeOK, Verdicts
<1>3. v = "alien" => proc[p] # n
  BY <1>0, <1>2 DEF Matches, PsSays, LifeInv, RunnerInv
<1>4. v = "alien" => \A q \in Pids : proc[q] = n => n \in lost
  BY <1>0, <1>1, <1>3 DEF LifeInv, RunnerInv, Found
<1> SUFFICES ASSUME NEW k \in Names, NEW q \in Pids PROVE RunnerInv(k, q)'
  BY DEF LifeInv
<1>5. RunnerInv(k, q)
  BY DEF LifeInv
<1>6. seen'[k][q] # "unasked" => creating[k] = "done"
  BY <1>1, <1>2, <1>5 DEF RunnerInv
<1>7. seen'[k][q] = "alien" => proc[q] # k
  BY <1>2, <1>3, <1>5 DEF RunnerInv
<1>8. proc[q] = k /\ ending'[k] = "gone" => k \in lost
  BY <1>4, <1>5 DEF RunnerInv
<1> QED
  BY <1>5, <1>6, <1>7, <1>8 DEF RunnerInv, Found

LEMMA StepLife == HostType /\ LifeInv /\ [Next]_vars => LifeInv'
<1> SUFFICES ASSUME HostType, LifeInv, [Next]_vars PROVE LifeInv'
  OBVIOUS
<1>0. TypeOK
  BY DEF HostType
<1> USE HostConstants DEF TypeOK, LifeInv, RunnerInv, Found
<1>1. ASSUME NEW n \in Names, Create(n) PROVE LifeInv'
  <2>1. CASE Clone(n)
    BY <1>0, <2>1 DEF Clone
  <2>2. CASE CloneFails(n)
    BY <1>0, <2>2 DEF CloneFails
  <2>3. CASE StartFails(n)
    BY <1>0, <2>3 DEF StartFails, Undo
  <2>4. ASSUME NEW p \in Pids, Start(n, p) PROVE LifeInv'
    <3>1. /\ creating[n] = "cloned" /\ proc[p] = Free /\ proc' = [proc EXCEPT ![p] = n]
          /\ creating' = [creating EXCEPT ![n] = "started"]
          /\ UNCHANGED <<dir, pidOf, seen, ending, lost>>
      BY <2>4 DEF Start, Available
    <3>2. \A q \in Pids : proc[q] # n /\ seen[n][q] = "unasked"
      BY <1>0, <3>1
    <3>3. \A k \in Names, q \in Pids : seen[k][q] # "unasked" => k # n
      BY <3>2
    <3>4. \A q \in Pids : proc'[q] = IF q = p THEN n ELSE proc[q]
      BY <1>0, <3>1
    <3>5. \A k \in Names : creating'[k] = IF k = n THEN "started" ELSE creating[k]
      BY <1>0, <3>1
    <3>6. ending[n] = "no"
      BY <1>0, <3>1 DEF HostType, Stage
    <3> QED
      BY <1>0, <3>1, <3>2, <3>3, <3>4, <3>5, <3>6
  <2>5. ASSUME NEW p \in Pids, WriteState(n, p) PROVE LifeInv'
    BY <1>0, <2>5 DEF WriteState
  <2>6. ASSUME NEW p \in Pids, WriteStateFails(n, p) PROVE LifeInv'
    <3>1. \A k \in Names, q \in Pids : proc'[q] = k => proc[q] = k /\ (k = n => n \in lost')
      BY <1>0, <2>6 DEF WriteStateFails, Killed
    <3>2. lost \subseteq lost' /\ \A k \in Names : k # n => dir'[k] = dir[k]
      BY <1>0, <2>6 DEF WriteStateFails, Killed, Undo
    <3> QED
      BY <1>0, <2>6, <3>1, <3>2 DEF WriteStateFails
  <2> QED
    BY <1>1, <2>1, <2>2, <2>3, <2>4, <2>5, <2>6 DEF Create
<1>2. ASSUME NEW n \in Names, List(n) PROVE LifeInv'
  <2>1. pidOf[n] \in Pids /\ dir[n] = "state"
    BY <1>0, <1>2, RecordedPid DEF List, Listens
  <2>2. PICK v \in Matches(pidOf[n], n) : seen' = [seen EXCEPT ![n][pidOf[n]] = v]
    BY <1>2 DEF List
  <2>3. UNCHANGED <<proc, dir, pidOf, creating, lost, ending>>
    BY <1>2 DEF List
  <2> QED
    BY <2>1, <2>2, <2>3, AskKeepsLife
<1>3. ASSUME NEW n \in Names, Destroy(n) PROVE LifeInv'
  <2>1. CASE Listens(n)
    <3>0. pidOf[n] \in Pids /\ dir[n] = "state"
      BY <1>0, <2>1, RecordedPid DEF Listens
    <3>1. PICK v \in Matches(pidOf[n], n) :
            /\ seen' = [seen EXCEPT ![n][pidOf[n]] = v]
            /\ ending' = [ending EXCEPT ![n] = IF v = "ours" THEN "signalled" ELSE "gone"]
      BY <1>3, <2>1 DEF Destroy
    <3>2. v \in {"ours", "alien"}
      BY <1>0, <3>0, <3>1, AnswerType
    <3>3. \A k \in Names : ending'[k] = "gone" => ending[k] = "gone" \/ (k = n /\ v = "alien")
      BY <1>0, <3>1, <3>2
    <3>4. UNCHANGED <<proc, dir, pidOf, creating, lost>>
      BY <1>3 DEF Destroy
    <3> HIDE DEF TypeOK, LifeInv, RunnerInv, Found
    <3> QED
      BY <3>0, <3>1, <3>3, <3>4, AskKeepsLife
  <2>2. CASE ~Listens(n)
    <3>1. /\ ending' = [ending EXCEPT ![n] = "gone"] /\ creating[n] # "started"
          /\ UNCHANGED <<proc, dir, pidOf, creating, lost, seen>>
      BY <1>3, <2>2 DEF Destroy, Creating
    <3>2. \A p \in Pids : proc[p] = n => n \in lost
      BY <2>2, <3>1 DEF Listens
    <3> QED
      BY <1>0, <3>1, <3>2
  <2> QED
    BY <2>1, <2>2
<1>9. ASSUME NEW n \in Names, DestroyUnread(n) PROVE LifeInv'
  BY <1>0, <1>9 DEF DestroyUnread
<1>4. ASSUME NEW n \in Names, EndDestroy(n) PROVE LifeInv'
  <2>1. CASE WaitOver(n)
    <3>1. pidOf[n] \in Pids /\ creating[n] = "done"
      BY <1>0, <2>1, RecordedPid DEF WaitOver, HostType, Stage
    <3>2. lost \subseteq lost' /\ \A k \in Names, p \in Pids : proc'[p] = k => proc[p] = k
      BY <1>0, <2>1, <3>1 DEF WaitOver, Killed
    <3>3. \A p \in Pids : proc'[p] = n => n \in lost'
      <4>1. \A p \in Pids : proc[p] = n => n \in lost \/ p = pidOf[n]
        BY <3>1
      <4>2. proc'[pidOf[n]] = n => n \in lost'
        <5>1. \/ proc' = [proc EXCEPT ![pidOf[n]] = Free]
              \/ proc' = proc /\ lost' = lost \cup ({proc[pidOf[n]]} \cap {n})
          BY <2>1 DEF WaitOver, Killed
        <5>2. proc' = [proc EXCEPT ![pidOf[n]] = Free] => proc'[pidOf[n]] = Free
          BY <1>0, <3>1
        <5>3. Free # n
          OBVIOUS
        <5> QED
          BY ONLY <5>1, <5>2, <5>3
      <4> QED
        BY <3>2, <4>1, <4>2
    <3> QED
      BY <1>0, <2>1, <3>1, <3>2, <3>3 DEF WaitOver
  <2>2. CASE RemoveDir(n)
    BY <1>0, <2>2 DEF RemoveDir, Gone
  <2>3. CASE RemoveDirFails(n)
    BY <1>0, <2>3 DEF RemoveDirFails, Gone
  <2> QED
    BY <1>4, <2>1, <2>2, <2>3 DEF EndDestroy
<1>5. ASSUME NEW p \in Pids, RunnerExits(p) \/ OtherStarts(p) \/ OtherEnds(p) PROVE LifeInv'
  BY <1>0, <1>5 DEF RunnerExits, OtherStarts, OtherEnds
<1>6. CASE Crash
  BY <1>0, <1>6 DEF Crash, Unasked
<1>7. CASE Restart
  BY <1>0, <1>7 DEF Restart
<1>8. CASE UNCHANGED vars
  BY <1>8 DEF vars
<1> QED
  BY <1>1, <1>2, <1>3, <1>4, <1>5, <1>6, <1>7, <1>8, <1>9 DEF Next, AnyDestroy

-----------------------------------------------------------------------------
(* Whom arc signals, when ps answers and no pid that a state file names is *)
(* recycled under it: such a pid is the instance's, a stranger's or free,  *)
(* the stranger was there before ps was asked, and one of whom ps said     *)
(* "ours" looks like a runner.                                             *)
PsIsReliable == ~PsFails /\ ~RecycleWhileUp

OwnInv(n, p) ==
    /\ pidOf[n] = p /\ proc[p] \in Names => proc[p] = n
    /\ ~up => seen[n][p] = "unasked"
    /\ seen[n][p] = "ours" /\ pidOf[n] = p => proc[p] \in {n, Free, Alike}
    /\ seen[n][p] = "alien" /\ pidOf[n] = p => proc[p] # Alike
    /\ ending[n] = "signalled" /\ pidOf[n] = p => seen[n][p] = "ours"

SignalInv == hit \subseteq {Alike} /\ \A n \in Names, p \in Pids : OwnInv(n, p)

LEMMA InitSignal == Init => SignalInv
BY HostConstants DEF Init, SignalInv, OwnInv, Unasked

(* What ps says now, or said before, is ours of our runner and look-alikes.*)
LEMMA OursIsOurs ==
    PsIsReliable /\ TypeOK /\ SignalInv =>
        \A n \in Names, p \in Pids :
            /\ pidOf[n] = p /\ "ours" \in Matches(p, n) => proc[p] \in {n, Free, Alike}
            /\ ending[n] = "signalled" /\ pidOf[n] = p => Matches(p, n) = {"ours"}
BY HostConstants DEF PsIsReliable, TypeOK, SignalInv, OwnInv, Matches, PsSays, Verdicts

LEMMA AskKeepsSignal ==
    ASSUME PsIsReliable, HostType, SignalInv, NEW n \in Names, NEW p \in Pids, Listens(n),
           pidOf[n] = p, NEW v \in Matches(p, n), seen' = [seen EXCEPT ![n][p] = v], up,
           \A k \in Names : ending'[k] = "signalled" => ending[k] = "signalled" \/ (k = n /\ v = "ours"),
           hit' \subseteq {Alike}, UNCHANGED <<up, proc, dir, pidOf>>
    PROVE  SignalInv'
<1>0. TypeOK
  BY DEF HostType
<1>1. /\ v \in {"ours", "alien"}
      /\ v = "ours" => proc[p] \in {n, Free, Alike}
      /\ v = "alien" => proc[p] # Alike
      /\ ending[n] = "signalled" => v = "ours"
  <2>1. v = "alien" => proc[p] # Alike
    BY <1>0 DEF Matches, PsSays, SignalInv, OwnInv
  <2> QED
    BY <1>0, <2>1, AnswerType, OursIsOurs
<1>2. /\ seen'[n][p] = v
      /\ \A k \in Names, q \in Pids : k # n \/ q # p => seen'[k][q] = seen[k][q]
  BY <1>0, <1>1 DEF TypeOK, Verdicts
<1>3. \A k \in Names, q \in Pids : OwnInv(k, q)
  BY DEF SignalInv
<1>4. ASSUME NEW k \in Names, NEW q \in Pids PROVE OwnInv(k, q)'
  <2>1. seen'[k][q] = "ours" /\ pidOf[k] = q => proc[q] \in {k, Free, Alike}
    BY <1>1, <1>2, <1>3 DEF OwnInv
  <2>2. ending'[k] = "signalled" /\ pidOf[k] = q => seen'[k][q] = "ours"
    BY <1>1, <1>2, <1>3 DEF OwnInv
  <2>3. seen'[k][q] = "alien" /\ pidOf[k] = q => proc[q] # Alike
    BY <1>1, <1>2, <1>3 DEF OwnInv
  <2> QED
    BY <1>3, <2>1, <2>2, <2>3 DEF OwnInv
<1> QED
  BY <1>4 DEF SignalInv

LEMMA StepSignal == PsIsReliable /\ HostType /\ SignalInv /\ [Next]_vars => SignalInv'
<1> SUFFICES ASSUME PsIsReliable, HostType, SignalInv, [Next]_vars PROVE SignalInv'
  OBVIOUS
<1>0. TypeOK
  BY DEF HostType
<1> USE HostConstants DEF TypeOK, SignalInv, OwnInv
<1>1. ASSUME NEW n \in Names, Create(n) PROVE SignalInv'
  <2>1. CASE Clone(n)
    BY <1>0, <2>1 DEF Clone
  <2>2. CASE CloneFails(n)
    BY <1>0, <2>2 DEF CloneFails
  <2>3. CASE StartFails(n)
    BY <1>0, <2>3 DEF StartFails, Undo
  <2>4. ASSUME NEW p \in Pids, Start(n, p) PROVE SignalInv'
    <3>1. \A k \in Names : pidOf[k] # p
      BY <1>0, <2>4 DEF Start, Available, Recorded, PsIsReliable
    <3> QED
      BY <1>0, <2>4, <3>1 DEF Start
  <2>5. ASSUME NEW p \in Pids, WriteState(n, p) PROVE SignalInv'
    <3>1. ending[n] = "no"
      BY <1>0, <2>5 DEF WriteState, HostType, Stage
    <3> QED
      BY <1>0, <2>5, <3>1 DEF WriteState
  <2>6. ASSUME NEW p \in Pids, WriteStateFails(n, p) PROVE SignalInv'
    <3>1. Free \notin Names /\ Free # Alike /\ \A q \in Pids : proc'[q] \in {proc[q], Free}
      BY <1>0, <2>6 DEF WriteStateFails, Killed
    <3> QED
      BY <1>0, <2>6, <3>1 DEF WriteStateFails
  <2> QED
    BY <1>1, <2>1, <2>2, <2>3, <2>4, <2>5, <2>6 DEF Create
<1>2. ASSUME NEW n \in Names, List(n) PROVE SignalInv'
  <2>1. pidOf[n] \in Pids /\ Listens(n) /\ up
    BY <1>0, <1>2, RecordedPid DEF List, Listens
  <2>2. PICK v \in Matches(pidOf[n], n) : seen' = [seen EXCEPT ![n][pidOf[n]] = v]
    BY <1>2 DEF List
  <2>3. hit' \subseteq {Alike} /\ UNCHANGED <<up, proc, dir, pidOf, ending>>
    BY <1>2 DEF List
  <2> HIDE DEF TypeOK, SignalInv, OwnInv
  <2> QED
    BY <2>1, <2>2, <2>3, AskKeepsSignal
<1>3. ASSUME NEW n \in Names, Destroy(n) PROVE SignalInv'
  <2>1. CASE Listens(n)
    <3>1. pidOf[n] \in Pids /\ up
      BY <1>0, <1>3, <2>1, RecordedPid DEF Destroy, Listens
    <3>2. PICK v \in Matches(pidOf[n], n) :
            /\ seen' = [seen EXCEPT ![n][pidOf[n]] = v]
            /\ ending' = [ending EXCEPT ![n] = IF v = "ours" THEN "signalled" ELSE "gone"]
            /\ hit' = IF v = "ours" THEN hit \cup ({proc[pidOf[n]]} \ {n}) ELSE hit
      BY <1>3, <2>1 DEF Destroy
    <3>3. v = "ours" => proc[pidOf[n]] \in {n, Alike}
      <4> HIDE DEF TypeOK, SignalInv, OwnInv
      <4>1. v = "ours" => proc[pidOf[n]] \in {n, Free, Alike}
        BY <1>0, <3>1, <3>2, OursIsOurs
      <4> QED
        BY <2>1, <4>1 DEF Listens
    <3>4. hit' \subseteq {Alike}
      BY <3>2, <3>3
    <3>5. \A k \in Names : ending'[k] = "signalled" => ending[k] = "signalled" \/ (k = n /\ v = "ours")
      BY <1>0, <3>2
    <3>6. UNCHANGED <<up, proc, dir, pidOf>>
      BY <1>3 DEF Destroy
    <3> HIDE DEF TypeOK, SignalInv, OwnInv
    <3> QED
      BY <2>1, <3>1, <3>2, <3>4, <3>5, <3>6, AskKeepsSignal
  <2>2. CASE ~Listens(n)
    BY <1>0, <1>3, <2>2 DEF Destroy
  <2> QED
    BY <2>1, <2>2
<1>10. ASSUME NEW n \in Names, DestroyUnread(n) PROVE SignalInv'
  BY <1>0, <1>10 DEF DestroyUnread
<1>4. ASSUME NEW n \in Names, EndDestroy(n) PROVE SignalInv'
  <2>1. CASE WaitOver(n)
    <3>1. pidOf[n] \in Pids /\ proc[pidOf[n]] \in {n, Free, Alike}
      BY <1>0, <2>1, RecordedPid DEF WaitOver, HostType, Stage
    <3>2. hit' \subseteq {Alike}
      BY <2>1, <3>1 DEF WaitOver
    <3>3. Free \notin Names /\ \A q \in Pids : proc'[q] \in {proc[q], Free}
      BY <1>0, <2>1, <3>1 DEF WaitOver, Killed
    <3> QED
      BY <1>0, <2>1, <3>1, <3>2, <3>3 DEF WaitOver
  <2>2. CASE RemoveDir(n)
    BY <1>0, <2>2 DEF RemoveDir, Gone
  <2>3. CASE RemoveDirFails(n)
    BY <1>0, <2>3 DEF RemoveDirFails, Gone
  <2> QED
    BY <1>4, <2>1, <2>2, <2>3 DEF EndDestroy
<1>5. ASSUME NEW p \in Pids, RunnerExits(p) \/ OtherEnds(p) PROVE SignalInv'
  <2>1. /\ proc' = [proc EXCEPT ![p] = Free]
        /\ UNCHANGED <<up, pidOf, seen, ending, hit>>
    BY <1>5 DEF RunnerExits, OtherEnds
  <2>2. Free \notin Names /\ \A q \in Pids : proc'[q] = IF q = p THEN Free ELSE proc[q]
    BY <1>0, <2>1
  <2> QED
    BY <2>1, <2>2
<1>6. ASSUME NEW p \in Pids, OtherStarts(p) PROVE SignalInv'
  <2>1. (\A k \in Names : pidOf[k] # p) \/ ~up
    BY <1>0, <1>6 DEF OtherStarts, Available, Recorded, PsIsReliable
  <2> QED
    BY <1>0, <1>6, <2>1 DEF OtherStarts
<1>7. CASE Crash
  BY <1>0, <1>7 DEF Crash, Unasked
<1>8. CASE Restart
  BY <1>0, <1>8 DEF Restart
<1>9. CASE UNCHANGED vars
  BY <1>9 DEF vars
<1> QED
  BY <1>1, <1>2, <1>3, <1>4, <1>5, <1>6, <1>7, <1>8, <1>9, <1>10 DEF Next, AnyDestroy

-----------------------------------------------------------------------------
(* A container is made after its image and a failed Create accounts for it.*)
DockerInv ==
    /\ NothingLeftHalfMade
    /\ \A n \in Containers :
          /\ making[n] \in {"fresh", "image"} => ctr[n] = "new"
          /\ making[n] = "created" => ctr[n] = "created"
          /\ making[n] = "broken" => ctr[n] \in {"created", "running", "exited"}

LEMMA InitDocker == DockerInit => DockerTypeOK /\ DockerInv
BY DEF DockerInit, DockerTypeOK, DockerInv, NothingLeftHalfMade

LEMMA EnsureSteps ==
    ASSUME DockerTypeOK, NEW n \in Containers, EnsureImage(n)
    PROVE  /\ image' \in BOOLEAN /\ pulled' \in {"unasked", "ok", "failed"}
           /\ \E s \in {"image", "failed"} : making' = [making EXCEPT ![n] = s]
           /\ making[n] = "fresh" /\ UNCHANGED <<up, policy, ctr, stray>>
           /\ faults' = faults \/ Fault
<1> USE DEF EnsureImage, DockerTypeOK, Ensured
<1>1. CASE EnsureNever(n)
  BY <1>1 DEF EnsureNever
<1>2. CASE EnsureAlways(n)
  BY <1>2 DEF EnsureAlways, CanPull, NoPull
<1>3. CASE EnsureMissing(n)
  BY <1>3 DEF EnsureMissing, CanPull, NoPull
<1> QED
  BY <1>1, <1>2, <1>3

LEMMA StepDocker ==
    ASSUME up \in BOOLEAN, faults \in 0..MaxFaults, DockerTypeOK, DockerInv, DockerNext
    PROVE  up' \in BOOLEAN /\ faults' \in 0..MaxFaults /\ DockerTypeOK' /\ DockerInv'
<1> DEFINE Goal == up' \in BOOLEAN /\ faults' \in 0..MaxFaults /\ DockerTypeOK' /\ DockerInv'
<1> USE FaultBound DEF DockerTypeOK, DockerInv, NothingLeftHalfMade, Fault
<1>1. ASSUME NEW n \in Containers, CreateStep(n) PROVE Goal
  <2>1. CASE EnsureImage(n)
    BY <2>1, EnsureSteps
  <2>2. CASE CreateContainer(n)
    BY <2>2 DEF CreateContainer
  <2>3. CASE CreateContainerFails(n)
    BY <2>3 DEF CreateContainerFails
  <2>4. CASE StartContainer(n)
    BY <2>4 DEF StartContainer
  <2>5. CASE StartContainerFails(n)
    BY <2>5 DEF StartContainerFails
  <2>6. CASE RemoveBroken(n)
    BY <2>6 DEF RemoveBroken
  <2>7. CASE RemoveBrokenFails(n)
    BY <2>7 DEF RemoveBrokenFails, HalfRemoved
  <2> QED
    BY <1>1, <2>1, <2>2, <2>3, <2>4, <2>5, <2>6, <2>7 DEF CreateStep
<1>2. ASSUME NEW n \in Containers, DestroyContainer(n) PROVE Goal
  BY <1>2 DEF DestroyContainer, NoneMade, HalfRemoved
<1>3. ASSUME NEW n \in Containers, ContainerExits(n) PROVE Goal
  BY <1>3 DEF ContainerExits
<1>4. CASE DockerCrash
  <2>1. /\ \A n \in Containers : making[n] \in {"image", "created", "broken"} => n \in stray'
        /\ stray \subseteq stray' /\ stray' \subseteq Containers
        /\ making' \in [Containers -> {"fresh", "ok", "failed"}]
        /\ \A n \in Containers : making'[n] = making[n] \/ n \in stray'
    BY <1>4 DEF DockerCrash
  <2>2. /\ up' = FALSE /\ pulled' = "unasked" /\ faults' \in 0..MaxFaults
        /\ UNCHANGED <<policy, image, ctr>>
    BY <1>4 DEF DockerCrash
  <2>3. DockerTypeOK'
    BY <2>1, <2>2
  <2>4. \A n \in Containers : making'[n] = "fresh" => making[n] = "fresh"
    BY <1>4 DEF DockerCrash
  <2>5. DockerInv'
    BY <2>1, <2>2, <2>4
  <2> QED
    BY <2>2, <2>3, <2>5
<1>5. CASE DockerRestart
  BY <1>5 DEF DockerRestart, dockerVars
<1>6. CASE ImageChanges
  BY <1>6 DEF ImageChanges
<1> QED
  BY <1>1, <1>2, <1>3, <1>4, <1>5, <1>6 DEF DockerNext

-----------------------------------------------------------------------------
(* The two providers together: the one that is not the pool's does nothing.*)
AllInv ==
    /\ HostType /\ LifeInv /\ DockerTypeOK /\ DockerInv
    /\ kind = "docker" => seen = Unasked

LEMMA ProvidersInitOK == ProvidersInit => AllInv
BY InitLife, HostInitType, InitDocker DEF ProvidersInit, AllInv, Init

LEMMA ProvidersStepOK ==
    AllInv /\ [ProvidersNext]_<<vars, dockerVars, kind>> => AllInv'
<1> SUFFICES ASSUME AllInv, [ProvidersNext]_<<vars, dockerVars, kind>> PROVE AllInv'
  OBVIOUS
<1>1. CASE kind = "process" /\ Next /\ UNCHANGED <<kind, dockerVars>>
  <2>1. HostType' /\ LifeInv'
    BY <1>1, HostStepType, StepLife DEF AllInv
  <2>2. DockerTypeOK' /\ DockerInv' /\ kind' # "docker"
    BY <1>1 DEF AllInv, dockerVars, DockerTypeOK, DockerInv, NothingLeftHalfMade
  <2> QED
    BY <2>1, <2>2 DEF AllInv
<1>2. CASE /\ DockerNext
           /\ UNCHANGED <<kind, proc, dir, pidOf, seen, creating, ending, lost, hit>>
  <2>1. up' \in BOOLEAN /\ faults' \in 0..MaxFaults /\ DockerTypeOK' /\ DockerInv'
    BY <1>2, StepDocker DEF AllInv, HostType, TypeOK
  <2>2. HostType'
    BY <1>2, <2>1 DEF AllInv, HostType, TypeOK, Stage
  <2>3. LifeInv'
    BY <1>2 DEF AllInv, LifeInv, RunnerInv, Found
  <2> QED
    BY <1>2, <2>1, <2>2, <2>3 DEF AllInv
<1>3. CASE UNCHANGED <<vars, dockerVars, kind>>
  <2>1. HostType' /\ LifeInv'
    BY <1>3 DEF AllInv, vars, HostType, TypeOK, Stage, LifeInv, RunnerInv, Found
  <2>2. DockerTypeOK' /\ DockerInv'
    BY <1>3 DEF AllInv, dockerVars, DockerTypeOK, DockerInv, NothingLeftHalfMade
  <2> QED
    BY <1>3, <2>1, <2>2 DEF AllInv, vars
<1> QED
  BY <1>1, <1>2, <1>3 DEF ProvidersNext

LEMMA AlwaysAllInv == ProvidersSpec => []AllInv
BY ProvidersInitOK, ProvidersStepOK, PTL DEF ProvidersSpec

(* Every variable of the two providers has its type in every behaviour.    *)
THEOREM ProvidersTypeCorrect == ProvidersSpec => []ProvidersTypeOK
<1>1. AllInv => ProvidersTypeOK
  BY DEF AllInv, HostType, ProvidersTypeOK
<1> QED
  BY <1>1, AlwaysAllInv, PTL

(* Whatever fails and whenever arc dies, and even when pids are recycled   *)
(* under it and ps fails, a runner that is running is named by a state     *)
(* file, but while it is being created or when arc died over it.           *)
THEOREM RunnersAreFound == ProvidersSpec => []NoRunnerUnseen
<1>1. AllInv => NoRunnerUnseen
  BY DEF AllInv, HostType, TypeOK, LifeInv, RunnerInv, Found, NoRunnerUnseen
<1> QED
  BY <1>1, AlwaysAllInv, PTL

(* A Create of the docker provider that failed leaves no container, but    *)
(* where an answer of the daemon was lost or arc died on the way.          *)
THEOREM FailedCreatesClearUp == ProvidersSpec => []NothingLeftHalfMade
<1>1. AllInv => NothingLeftHalfMade
  BY DEF AllInv, DockerInv
<1> QED
  BY <1>1, AlwaysAllInv, PTL

LEMMA AlwaysSignalInv ==
    ASSUME PsIsReliable
    PROVE  ProvidersSpec => []SignalInv
<1>1. ProvidersInit => SignalInv
  BY InitSignal DEF ProvidersInit
<1>2. AllInv /\ SignalInv /\ [ProvidersNext]_<<vars, dockerVars, kind>> => SignalInv'
  <2> SUFFICES ASSUME AllInv, SignalInv, [ProvidersNext]_<<vars, dockerVars, kind>>
               PROVE  SignalInv'
    OBVIOUS
  <2>1. CASE Next
    BY <2>1, PsIsReliable, StepSignal DEF AllInv
  <2>2. CASE /\ kind = "docker"
             /\ UNCHANGED <<proc, dir, pidOf, seen, creating, ending, lost, hit>>
    <3>1. \A n \in Names, p \in Pids : seen'[n][p] = "unasked"
      BY <2>2 DEF AllInv, Unasked
    <3> QED
      BY <2>2, <3>1 DEF SignalInv, OwnInv
  <2>3. CASE UNCHANGED <<vars, dockerVars, kind>>
    BY <2>3 DEF SignalInv, OwnInv, vars
  <2> QED
    BY <2>1, <2>2, <2>3 DEF ProvidersNext
<1> QED
  BY <1>1, <1>2, AlwaysAllInv, PTL DEF ProvidersSpec

(* When ps answers and a pid in a state file is not recycled under a       *)
(* running arc, no process is signalled but the instance's own runner and  *)
(* a stranger that looks like a runner.                                    *)
THEOREM StrangersAreSpared ==
    ASSUME PsIsReliable
    PROVE  ProvidersSpec => []SignalsOnlyRunners
<1>1. SignalInv => SignalsOnlyRunners
  BY DEF SignalInv, SignalsOnlyRunners
<1> QED
  BY <1>1, PsIsReliable, AlwaysSignalInv, PTL

(* What Prune goes by agrees with what runs.                               *)
LEMMA TheDeadAreKnown ==
    ASSUME PsIsReliable, HostType, LifeInv, SignalInv
    PROVE  PruneKnowsTheDead
<1>0. TypeOK
  BY DEF HostType
<1> SUFFICES ASSUME NEW n \in Names
             PROVE  /\ Debris(n) => Finished(n) \/ Mistaken(n)
                    /\ Finished(n) /\ creating[n] = "done" /\ Alive(n) => n \in lost
  BY DEF PruneKnowsTheDead
<1>1. ASSUME Debris(n), ~Mistaken(n) PROVE Finished(n)
  <2>1. CASE dir[n] = "bare"
    BY <2>1 DEF Finished
  <2>2. CASE dir[n] = "state" /\ Listens(n)
    <3>1. pidOf[n] \in Pids
      BY <1>0, <2>2, RecordedPid
    <3>2. proc[pidOf[n]] \notin {n, Free, Alike}
      BY <1>1, <2>2, <3>1 DEF Debris, Alive, Listens, Mistaken
    <3>3. "ours" \notin Matches(pidOf[n], n)
      BY <1>0, <3>1, <3>2, OursIsOurs
    <3>4. Matches(pidOf[n], n) # {}
      BY <3>1 DEF Matches, PsSays
    <3>5. "alien" \in Matches(pidOf[n], n)
      BY <1>0, <3>1, <3>3, <3>4, AnswerType
    <3> QED
      BY <2>2, <3>5 DEF Finished
  <2>3. CASE dir[n] = "state" /\ ~Listens(n)
    BY <2>3 DEF Finished
  <2> QED
    BY <1>0, <1>1, <2>1, <2>2, <2>3 DEF Debris, TypeOK
<1>2. ASSUME Finished(n), creating[n] = "done", Alive(n), n \notin lost PROVE FALSE
  <2>1. PICK p \in Pids : proc[p] = n
    BY <1>2 DEF Alive
  <2>2. dir[n] = "state" /\ pidOf[n] = p /\ seen[n][p] # "alien"
    BY <1>2, <2>1 DEF LifeInv, RunnerInv, Found
  <2>3. Listens(n)
    BY <2>1, <2>2, HostConstants DEF Listens
  <2>4. "alien" \notin Matches(p, n)
    BY <2>1, <2>2 DEF Matches, PsSays
  <2> QED
    BY <1>2, <2>2, <2>3, <2>4 DEF Finished
<1> QED
  BY <1>1, <1>2

(* Under the same assumption Prune, which knows a pid and an old answer of *)
(* ps, misses no instance whose runner has ended but for a look-alike, and *)
(* takes no running one for finished but one that was lost: SignalInv for  *)
(* the first, LifeInv for the second.                                      *)
THEOREM PruneIsRight ==
    ASSUME PsIsReliable
    PROVE  ProvidersSpec => []PruneKnowsTheDead
<1>1. AllInv /\ SignalInv => PruneKnowsTheDead
  BY PsIsReliable, TheDeadAreKnown DEF AllInv
<1> QED
  BY <1>1, PsIsReliable, AlwaysAllInv, AlwaysSignalInv, PTL

-----------------------------------------------------------------------------
(* The refinement of Instances, one instance at a time.                    *)
OneWay(was, is) == is = was \/ is \in ProcessLife!Later[was]

(* or is brought back by a look-alike *)
Moves(n, was, is) == OneWay(was, is) \/ (was = "exited" /\ is = "running" /\ Mistaken(n)')

(* What List reports depends on the processes and not on what ps said.     *)
Lives(n) ==
    CASE dir[n] = "none"  -> IF creating[n] = "fresh" THEN "new" ELSE "gone"
      [] dir[n] = "bare"  -> IF creating[n] = "done" THEN "debris" ELSE "starting"
      [] dir[n] = "state" -> IF proc[pidOf[n]] \in {n, Alike} THEN "running" ELSE "exited"

SameLives == \A n \in Names : Listing(n) = Lives(n)

LEMMA ListingIsLives ==
    PsIsReliable /\ HostType /\ LifeInv /\ SignalInv => SameLives
<1> SUFFICES ASSUME PsIsReliable, HostType, LifeInv, SignalInv, NEW n \in Names
             PROVE  Listing(n) = Lives(n)
  BY DEF SameLives
<1>0. TypeOK
  BY DEF HostType
<1>1. CASE dir[n] = "state"
  <2>1. pidOf[n] \in Pids
    BY <1>0, <1>1, RecordedPid
  <2>2. "ours" \in Matches(pidOf[n], n) => proc[pidOf[n]] \in {n, Free, Alike}
    BY <1>0, <2>1, OursIsOurs
  <2>3. proc[pidOf[n]] \in {n, Alike} => Listens(n) /\ "ours" \in Matches(pidOf[n], n)
    BY <1>0, <1>1, <2>1, HostConstants
       DEF LifeInv, RunnerInv, SignalInv, OwnInv, TypeOK, Verdicts, Listens, Matches, PsSays
  <2>4. Listens(n) => proc[pidOf[n]] # Free
    BY DEF Listens
  <2> QED
    BY <1>1, <2>2, <2>3, <2>4 DEF Listing, Lives
<1>2. CASE dir[n] # "state"
  BY <1>0, <1>2 DEF TypeOK, Listing, Lives
<1> QED
  BY <1>1, <1>2

LEMMA LivesStep ==
    ASSUME HostType, SignalInv, [Next]_vars, NEW k \in Names
    PROVE  Moves(k, Lives(k), Lives(k)')
<1>0. TypeOK
  BY DEF HostType
<1> USE HostConstants DEF TypeOK, Moves, OneWay, ProcessLife!Later, Lives
<1>1. ASSUME NEW n \in Names, Create(n) PROVE Moves(k, Lives(k), Lives(k)')
  <2>1. CASE Clone(n)
    BY <1>0, <2>1 DEF Clone, HostType, Stage
  <2>2. CASE CloneFails(n)
    BY <1>0, <2>2 DEF CloneFails, HostType, Stage
  <2>3. CASE StartFails(n)
    BY <1>0, <2>3 DEF StartFails, Undo, HostType, Stage
  <2>4. ASSUME NEW p \in Pids, Start(n, p) PROVE Moves(k, Lives(k), Lives(k)')
    BY <1>0, <2>4 DEF Start, Available, HostType, Stage
  <2>5. ASSUME NEW p \in Pids, WriteState(n, p) PROVE Moves(k, Lives(k), Lives(k)')
    BY <1>0, <2>5 DEF WriteState, HostType, Stage
  <2>6. ASSUME NEW p \in Pids, WriteStateFails(n, p) PROVE Moves(k, Lives(k), Lives(k)')
    BY <1>0, <2>6 DEF WriteStateFails, Killed, Undo, HostType, Stage
  <2> QED
    BY <1>1, <2>1, <2>2, <2>3, <2>4, <2>5, <2>6 DEF Create
<1>2. ASSUME NEW n \in Names, List(n) PROVE Moves(k, Lives(k), Lives(k)')
  BY <1>2 DEF List
<1>3. ASSUME NEW n \in Names, Destroy(n) PROVE Moves(k, Lives(k), Lives(k)')
  BY <1>3 DEF Destroy
<1>9. ASSUME NEW n \in Names, DestroyUnread(n) PROVE Moves(k, Lives(k), Lives(k)')
  BY <1>9 DEF DestroyUnread
<1>4. ASSUME NEW n \in Names, EndDestroy(n) PROVE Moves(k, Lives(k), Lives(k)')
  <2>1. CASE WaitOver(n)
    BY <1>0, <2>1 DEF WaitOver, Killed
  <2>2. CASE RemoveDir(n)
    BY <1>0, <2>2 DEF RemoveDir, Gone, HostType, Stage
  <2>3. CASE RemoveDirFails(n)
    BY <1>0, <2>3 DEF RemoveDirFails, Gone, HostType, Stage
  <2> QED
    BY <1>4, <2>1, <2>2, <2>3 DEF EndDestroy
<1>5. ASSUME NEW p \in Pids, RunnerExits(p) \/ OtherStarts(p) \/ OtherEnds(p)
      PROVE  Moves(k, Lives(k), Lives(k)')
  BY <1>0, <1>5 DEF RunnerExits, OtherStarts, OtherEnds, Available, Mistaken
<1>6. CASE Crash
  BY <1>0, <1>6 DEF Crash, HostType, Stage
<1>7. CASE Restart
  BY <1>7 DEF Restart
<1>8. CASE UNCHANGED vars
  BY <1>8 DEF vars
<1> QED
  BY <1>1, <1>2, <1>3, <1>4, <1>5, <1>6, <1>7, <1>8, <1>9 DEF Next, AnyDestroy

LEMMA ContainerStep ==
    ASSUME DockerTypeOK, DockerInv, DockerNext, NEW k \in Containers
    PROVE  OneWay(Listed(k), Listed(k)')
<1> USE DEF DockerTypeOK, DockerInv, Listed, OneWay, ProcessLife!Later
<1>1. ASSUME NEW n \in Containers, CreateStep(n) PROVE OneWay(Listed(k), Listed(k)')
  <2>1. CASE EnsureImage(n)
    BY <2>1 DEF EnsureImage
  <2>2. CASE CreateContainer(n)
    BY <2>2 DEF CreateContainer
  <2>3. CASE CreateContainerFails(n)
    BY <2>3 DEF CreateContainerFails
  <2>4. CASE StartContainer(n)
    BY <2>4 DEF StartContainer
  <2>5. CASE StartContainerFails(n)
    BY <2>5 DEF StartContainerFails
  <2>6. CASE RemoveBroken(n)
    BY <2>6 DEF RemoveBroken
  <2>7. CASE RemoveBrokenFails(n)
    BY <2>7 DEF RemoveBrokenFails, HalfRemoved
  <2> QED
    BY <1>1, <2>1, <2>2, <2>3, <2>4, <2>5, <2>6, <2>7 DEF CreateStep
<1>2. ASSUME NEW n \in Containers, DestroyContainer(n) PROVE OneWay(Listed(k), Listed(k)')
  BY <1>2 DEF DestroyContainer, HalfRemoved
<1>3. ASSUME NEW n \in Containers, ContainerExits(n) PROVE OneWay(Listed(k), Listed(k)')
  BY <1>3 DEF ContainerExits
<1>4. CASE DockerCrash \/ DockerRestart \/ ImageChanges
  BY <1>4 DEF DockerCrash, DockerRestart, dockerVars, ImageChanges
<1> QED
  BY <1>1, <1>2, <1>3, <1>4 DEF DockerNext

LEMMA NextOfProcessLife ==
    (\A n \in Names : Moves(n, Listing(n), Listing(n)'))
        => [ProcessLife!Next]_([n \in Names |-> Listing(n)])
<1> DEFINE L == [n \in Names |-> Listing(n)]
           S == {n \in Names : L'[n] # L[n]}
<1> SUFFICES ASSUME \A n \in Names : Moves(n, Listing(n), Listing(n)') PROVE ProcessLife!Next
  OBVIOUS
<1>1. \A n \in S : ProcessLife!Moves(n)
  BY DEF Moves, OneWay, ProcessLife!Moves
<1>2. L' = [n \in Names |-> IF n \in S THEN L'[n] ELSE L[n]]
  OBVIOUS
<1>3. S \in SUBSET Names
  OBVIOUS
<1> QED
  BY <1>1, <1>2, <1>3 DEF ProcessLife!Next

LEMMA NextOfContainerLife ==
    (\A n \in Containers : OneWay(Listed(n), Listed(n)'))
        => [ContainerLife!Next]_([n \in Containers |-> Listed(n)])
<1> DEFINE L == [n \in Containers |-> Listed(n)]
           S == {n \in Containers : L'[n] # L[n]}
<1> SUFFICES ASSUME \A n \in Containers : OneWay(Listed(n), Listed(n)') PROVE ContainerLife!Next
  OBVIOUS
<1>1. \A n \in S : ContainerLife!Moves(n)
  BY DEF OneWay, ProcessLife!Later, ContainerLife!Later, ContainerLife!Moves
<1>2. L' = [n \in Containers |-> IF n \in S THEN L'[n] ELSE L[n]]
  OBVIOUS
<1>3. S \in SUBSET Containers
  OBVIOUS
<1> QED
  BY <1>1, <1>2, <1>3 DEF ContainerLife!Next

(* Under the same assumption both providers implement Instances: the life  *)
(* of an instance, as the loop sees it in the listings, goes one way.      *)
THEOREM ProvidersImplementInstances ==
    ASSUME PsIsReliable
    PROVE  ProvidersSpec => LivesGoOneWay
<1>0. (AllInv /\ SignalInv => SameLives) /\ (AllInv' /\ SignalInv' => SameLives')
  <2>1. AllInv /\ SignalInv => SameLives
    BY PsIsReliable, ListingIsLives DEF AllInv, SameLives
  <2> QED
    BY <2>1, PTL
<1>1. ProvidersInit => ProcessLife!Init /\ ContainerLife!Init
  <2> SUFFICES ASSUME ProvidersInit PROVE ProcessLife!Init /\ ContainerLife!Init
    OBVIOUS
  <2>1. \A n \in Names : Listing(n) = "new"
    BY DEF ProvidersInit, Init, Listing
  <2>2. \A n \in Containers : Listed(n) = "new"
    BY DEF ProvidersInit, DockerInit, Listed
  <2> QED
    BY <2>1, <2>2 DEF ProcessLife!Init, ContainerLife!Init
<1>2. /\ AllInv /\ SignalInv /\ AllInv' /\ SignalInv'
      /\ [ProvidersNext]_<<vars, dockerVars, kind>>
      => [ProcessLife!Next]_([n \in Names |-> Listing(n)])
  <2> SUFFICES ASSUME AllInv, SignalInv, AllInv', SignalInv',
                      [ProvidersNext]_<<vars, dockerVars, kind>>
               PROVE  \A n \in Names : Moves(n, Listing(n), Listing(n)')
    BY NextOfProcessLife
  <2> TAKE n \in Names
  <2>1. Listing(n) = Lives(n)
    BY <1>0 DEF SameLives
  <2>2. Listing(n)' = Lives(n)'
    BY <1>0 DEF SameLives
  <2>3. Moves(n, Lives(n), Lives(n)')
    <3>1. CASE Next
      BY <3>1, LivesStep DEF AllInv
    <3>2. CASE UNCHANGED <<proc, dir, pidOf, creating>>
      BY <3>2 DEF Moves, OneWay, Lives
    <3> QED
      BY <3>1, <3>2 DEF ProvidersNext, vars
  <2> QED
    BY <2>1, <2>2, <2>3
<1>3. AllInv /\ [ProvidersNext]_<<vars, dockerVars, kind>>
      => [ContainerLife!Next]_([n \in Containers |-> Listed(n)])
  <2> SUFFICES ASSUME AllInv, [ProvidersNext]_<<vars, dockerVars, kind>>
               PROVE  \A n \in Containers : OneWay(Listed(n), Listed(n)')
    BY NextOfContainerLife
  <2> TAKE n \in Containers
  <2>1. CASE DockerNext
    BY <2>1, ContainerStep DEF AllInv
  <2>2. CASE UNCHANGED ctr
    BY <2>2 DEF OneWay, Listed
  <2> QED
    BY <2>1, <2>2 DEF ProvidersNext, dockerVars
<1>4. ProvidersSpec => ProcessLife!Spec
  BY <1>1, <1>2, AlwaysAllInv, AlwaysSignalInv, PsIsReliable, PTL DEF ProvidersSpec, ProcessLife!Spec
<1>5. ProvidersSpec => ContainerLife!Spec
  BY <1>1, <1>3, AlwaysAllInv, PTL DEF ProvidersSpec, ContainerLife!Spec
<1> QED
  BY <1>4, <1>5 DEF LivesGoOneWay
=============================================================================
