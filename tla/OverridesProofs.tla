--------------------------- MODULE OverridesProofs ---------------------------
(***************************************************************************)
(* The file of overrides and the order of the limits, for any pools,       *)
(* limits and handlers: what holds however requests overlap, what holds    *)
(* until their saves do (WritesApart, apart), and what needs requests to   *)
(* be served one at a time (OneAtATime).                                   *)
(***************************************************************************)
EXTENDS Overrides, TLAPS

OneAtATime == \A g, h \in Handlers : g = h

(* Where the file stands at each stage of a request.  The temporary file   *)
(* is what makes FileParses inductive: it may hold anything before a       *)
(* request opens it and holds the whole snapshot when it is renamed.       *)
FileAt(h) ==
    /\ op[h].fd = IF op[h].at = "opened" THEN "tmp" ELSE "none"
    /\ op[h].at = "opened" => tmp = Empty
    /\ op[h].at = "written" => tmp = op[h].snap

FileInv == /\ FileParses
           /\ \A h \in Handlers : FileAt(h)
           /\ ~up => \A h \in Handlers : op[h] = Idle

(* A request that is about to be applied names a pool. *)
TypeInv == TypeOK /\ \A h \in Handlers : op[h].at = "checked" => op[h].pool \in Pools

(* A request that was checked and not overtaken can still be applied, as   *)
(* the configuration changes only while no request is served.              *)
StillAccepted(h) ==
    op[h].at = "checked" /\ h \notin overtaken => Accepts(m, op[h].pool, op[h].min, op[h].max)

OrderInv == /\ \A h \in Handlers : StillAccepted(h)
            /\ ~up => \A h \in Handlers : op[h] = Idle

-----------------------------------------------------------------------------
LEMMA IdleType ==
    Idle \in [at : Stages, pool : Pools \cup {None}, min : Opt, max : Opt,
              snap : Maps, fd : Refers]
BY DEF Idle, Stages, Opt, Maps, Override, NoOverrides, NoOverride, Refers

(* The records of the requests in flight.                                  *)
Records == [at : Stages, pool : Pools \cup {None}, min : Opt, max : Opt,
            snap : Maps, fd : Refers]

(* One request moves to another stage, with its file open or not.          *)
LEMMA RecordMoves ==
    ASSUME TypeInv, NEW h \in Handlers, NEW at \in Stages \ {"checked"}, NEW fd \in Refers,
           op' = [op EXCEPT ![h].at = at, ![h].fd = fd]
    PROVE  /\ op' \in [Handlers -> Records]
           /\ \A g \in Handlers : op'[g].at = "checked" => op'[g].pool \in Pools
<1>1. op \in [Handlers -> Records]
  BY DEF TypeInv, TypeOK, Records
<1>2. PICK r : r = [op[h] EXCEPT !.at = at, !.fd = fd]
  OBVIOUS
<1>3. r \in Records /\ r.at # "checked"
  BY <1>1, <1>2 DEF Records
<1>4. op' = [op EXCEPT ![h] = r]
  BY <1>1, <1>2
<1> QED
  BY <1>1, <1>3, <1>4 DEF TypeInv

(* One request ends.                                                       *)
LEMMA RecordEnds ==
    ASSUME TypeInv, NEW h \in Handlers, op' = [op EXCEPT ![h] = Idle]
    PROVE  /\ op' \in [Handlers -> Records]
           /\ \A g \in Handlers : op'[g].at = "checked" => op'[g].pool \in Pools
<1>1. op \in [Handlers -> Records]
  BY DEF TypeInv, TypeOK, Records
<1>2. Idle \in Records /\ Idle.at # "checked"
  BY IdleType DEF Records, Idle
<1> QED
  BY <1>1, <1>2 DEF TypeInv

LEMMA WithType ==
    ASSUME NEW o \in Maps, NEW p \in Pools, NEW min \in Opt, NEW max \in Opt
    PROVE  With(o, p, min, max) \in Maps
BY DEF With, Maps, Override

LEMMA InitType == Init => TypeInv
BY IdleType DEF Init, TypeInv, TypeOK, Idle, Maps, Override, NoOverrides, NoOverride, Opt, Texts

LEMMA HistoryType == TypeOK /\ [Next]_vars => apart' \in BOOLEAN /\ overtaken' \subseteq Handlers
<1>1. TypeOK /\ Next => apart' \in BOOLEAN /\ overtaken' \subseteq Handlers
  BY DEF Next, SavesApart
<1>2. TypeOK /\ UNCHANGED vars => apart' \in BOOLEAN /\ overtaken' \subseteq Handlers
  BY DEF TypeOK, vars
<1> QED
  BY <1>1, <1>2

LEMMA StepType == TypeInv /\ [Next]_vars => TypeInv'
<1> SUFFICES ASSUME TypeInv, [Next]_vars PROVE TypeInv'
  OBVIOUS
<1> apart' \in BOOLEAN /\ overtaken' \subseteq Handlers
  BY HistoryType DEF TypeInv
<1> USE DEF TypeInv, TypeOK
<1>1. ASSUME NEW h \in Handlers, Serve(h) PROVE TypeInv'
  <2>1. ASSUME NEW p \in Pools, NEW min \in Opt, NEW max \in Opt, Check(h, p, min, max) PROVE TypeInv'
    BY <2>1, IdleType DEF Idle, Check, Stages
  <2>2. ASSUME NEW p \in Pools, Clear(h, p) PROVE TypeInv'
    <3>1. m' \in Maps
      BY <2>2 DEF Clear, Maps, Override, NoOverride, Opt
    <3> QED
      BY <2>2, <3>1, IdleType DEF Idle, Clear, Stages
  <2>3. CASE Set(h)
    <3>1. op[h].pool \in Pools /\ op[h].min \in Opt /\ op[h].max \in Opt
      BY <2>3 DEF Set
    <3>2. m' \in Maps
      BY <2>3, <3>1, WithType DEF Set
    <3> DEFINE r == [op[h] EXCEPT !.at = "changed", !.snap = m']
    <3>3. r \in Records /\ r.at = "changed" /\ op' = [op EXCEPT ![h] = r]
      BY <2>3, <3>2 DEF Set, Stages, Records
    <3>4. UNCHANGED <<up, cfg, path, tmp>>
      BY <2>3 DEF Set
    <3> HIDE DEF r
    <3> QED
      BY <3>2, <3>3, <3>4 DEF Records
  <2>4. CASE Open(h)
    <3>1. /\ op' \in [Handlers -> Records]
          /\ \A g \in Handlers : op'[g].at = "checked" => op'[g].pool \in Pools
      BY <2>4, RecordMoves DEF Open, Stages, Refers
    <3>2. UNCHANGED <<up, cfg, m, path>> /\ tmp' \in Texts
      BY <2>4 DEF Open, Texts
    <3> QED
      BY <3>1, <3>2 DEF Records
  <2>5. CASE Write(h)
    <3>1. /\ op' \in [Handlers -> Records]
          /\ \A g \in Handlers : op'[g].at = "checked" => op'[g].pool \in Pools
      BY <2>5, RecordMoves DEF Write, Stages, Refers
    <3>2. op[h].snap \in Maps
      OBVIOUS
    <3>3. UNCHANGED <<up, cfg, m>> /\ path' \in Texts \cup {NoFile} /\ tmp' \in Texts \cup {NoFile}
      BY <2>5, <3>2 DEF Write, Overwritten, Texts
    <3> QED
      BY <3>1, <3>3 DEF Records
  <2>6. CASE Rename(h)
    <3>1. ASSUME NEW g \in Handlers
          PROVE  op'[g] \in Records /\ (op'[g].at = "checked" => op'[g].pool \in Pools)
      <4>1. op[g] \in Records
        BY DEF Records
      <4> QED
        BY <2>6, <4>1 DEF Rename, Records, Stages, Refers
    <3>2. op' = [g \in Handlers |-> op'[g]]
      BY <2>6 DEF Rename
    <3>3. op' \in [Handlers -> Records]
      BY <3>1, <3>2
    <3> QED
      BY <2>6, <3>1, <3>3 DEF Rename, Records
  <2>7. CASE PersistFails(h)
    <3>1. /\ op' \in [Handlers -> Records]
          /\ \A g \in Handlers : op'[g].at = "checked" => op'[g].pool \in Pools
      BY <2>7, RecordEnds DEF PersistFails
    <3>2. UNCHANGED <<up, cfg, m>> /\ path' \in Texts \cup {NoFile} /\ tmp' \in Texts \cup {NoFile}
      BY <2>7 DEF PersistFails, Texts
    <3> QED
      BY <3>1, <3>2 DEF Records
  <2>8. CASE Answer(h)
    <3>1. /\ op' \in [Handlers -> Records]
          /\ \A g \in Handlers : op'[g].at = "checked" => op'[g].pool \in Pools
      BY <2>8, RecordEnds DEF Answer
    <3> QED
      BY <2>8, <3>1 DEF Answer, Records
  <2> QED
    BY <1>1, <2>1, <2>2, <2>3, <2>4, <2>5, <2>6, <2>7, <2>8 DEF Serve
<1>2. CASE Crash
  BY <1>2, IdleType DEF Idle, Crash
<1>3. CASE Start
  BY <1>3 DEF Start, Loaded, Texts, NoOverrides, NoOverride, Maps, Override, Opt
<1>4. CASE UNCHANGED vars
  BY <1>4 DEF vars
<1> QED
  BY <1>1, <1>2, <1>3, <1>4 DEF Next, Step

-----------------------------------------------------------------------------
LEMMA InitFile == Init => FileInv /\ AnsweredIsSaved
BY MarkersAreDistinct DEF Init, FileInv, FileParses, FileAt, AnsweredIsSaved, Idle

(* What a request's step leaves of the others: their stage and snapshot,   *)
(* and, but for a rename, what their descriptor refers to.                 *)
LEMMA OthersStay ==
    ASSUME TypeInv, NEW h \in Handlers, Serve(h), NEW g \in Handlers, g # h
    PROVE  /\ op'[g].at = op[g].at /\ op'[g].snap = op[g].snap
           /\ op'[g].fd = op[g].fd \/ Rename(h)
<1>0. op \in [Handlers -> Records]
  BY DEF TypeInv, TypeOK, Records
<1>1. CASE Rename(h)
  <2>1. op'[g].at = op[g].at /\ op'[g].snap = op[g].snap
    BY <1>0, <1>1 DEF Rename, Records
  <2> QED
    BY <1>1, <2>1
<1>2. CASE ~Rename(h)
  <2>1. op'[g] = op[g]
    BY <1>0, <1>2 DEF Serve, Check, Clear, Set, Open, Write, PersistFails, Answer
  <2> QED
    BY <2>1
<1> QED
  BY <1>1, <1>2

LEMMA StepFile ==
    TypeInv /\ FileInv /\ WritesApart /\ WritesApart' /\ [Next]_vars => FileInv'
<1> SUFFICES ASSUME TypeInv, FileInv, WritesApart, WritesApart', [Next]_vars PROVE FileInv'
  OBVIOUS
<1>0. op \in [Handlers -> Records]
  BY DEF TypeInv, TypeOK, Records
<1>1. ASSUME NEW h \in Handlers, Serve(h) PROVE FileInv'
  <2>0. FileParses /\ FileAt(h)
    BY DEF FileInv
  <2>u. up'
    <3>1. up /\ up' = up
      BY <1>1 DEF Serve, Check, Clear, Set, Open, Write, Rename, PersistFails, Answer
    <3> QED
      BY <3>1
  <2>o. ASSUME NEW g \in Handlers, g # h, tmp' = tmp \/ op[h].at \in {"opened", "written"}
                                                     \/ op'[h].at \in {"opened", "written"}
        PROVE  FileAt(g)'
    <3>1. FileAt(g)
      BY DEF FileInv
    <3>2. op'[g].at = op[g].at /\ op'[g].snap = op[g].snap
      BY <1>1, <2>o, OthersStay
    <3>3. CASE op[g].at \in {"opened", "written"}
      <4>1. op[h].at \notin {"opened", "written"} /\ op'[h].at \notin {"opened", "written"}
        BY <2>o, <3>2, <3>3 DEF WritesApart
      <4>2. tmp' = tmp /\ ~Rename(h)
        BY <2>o, <4>1 DEF Rename
      <4>3. op'[g].fd = op[g].fd
        BY <1>1, <2>o, <4>2, OthersStay
      <4> QED
        BY <3>1, <3>2, <4>2, <4>3 DEF FileAt
    <3>4. CASE op[g].at \notin {"opened", "written"}
      <4>1. op[g].fd = "none"
        BY <3>1, <3>4 DEF FileAt
      <4>2. op'[g].fd = "none"
        <5>1. CASE Rename(h)
          BY <1>0, <4>1, <5>1 DEF Rename, Records
        <5>2. CASE ~Rename(h)
          BY <1>1, <2>o, <4>1, <5>2, OthersStay
        <5> QED
          BY <5>1, <5>2
      <4> QED
        BY <3>2, <3>4, <4>2 DEF FileAt
    <3> QED
      BY <3>3, <3>4
  <2>1. ASSUME FileParses', FileAt(h)',
               \/ tmp' = tmp
               \/ op[h].at \in {"opened", "written"} \/ op'[h].at \in {"opened", "written"}
        PROVE  FileInv'
    <3>1. \A g \in Handlers : FileAt(g)'
      BY <2>1, <2>o
    <3> QED
      BY <2>1, <2>u, <3>1 DEF FileInv
  <2>2. ASSUME NEW p \in Pools, NEW min \in Opt, NEW max \in Opt, Check(h, p, min, max) PROVE FileInv'
    <3>1. op'[h].at = "checked" /\ op'[h].fd = "none" /\ UNCHANGED <<path, tmp>>
      BY <1>0, <2>2 DEF Check, Idle
    <3> QED
      BY <2>0, <2>1, <3>1 DEF FileAt, FileParses
  <2>3. ASSUME NEW p \in Pools, Clear(h, p) PROVE FileInv'
    <3>1. op'[h].at = "changed" /\ op'[h].fd = "none" /\ UNCHANGED <<path, tmp>>
      BY <1>0, <2>3 DEF Clear, Idle
    <3> QED
      BY <2>0, <2>1, <3>1 DEF FileAt, FileParses
  <2>4. CASE Set(h)
    <3>1. op[h].at = "checked" /\ op'[h].at = "changed" /\ op'[h].fd = op[h].fd
          /\ UNCHANGED <<path, tmp>>
      BY <1>0, <2>4 DEF Set
    <3> QED
      BY <2>0, <2>1, <3>1 DEF FileAt, FileParses
  <2>5. CASE Open(h)
    <3>1. op'[h].at = "opened" /\ op'[h].fd = "tmp" /\ tmp' = Empty /\ path' = path
      BY <1>0, <2>5 DEF Open
    <3> QED
      BY <2>0, <2>1, <3>1 DEF FileAt, FileParses
  <2>6. CASE Write(h)
    <3>1. op[h].at = "opened" /\ op[h].fd = "tmp" /\ tmp = Empty
      BY <2>0, <2>6 DEF Write, FileAt
    <3>2. op'[h].at = "written" /\ op'[h].fd = "none" /\ op'[h].snap = op[h].snap
      BY <1>0, <2>6 DEF Write
    <3>3. path' = path /\ tmp' = op[h].snap
      BY <2>6, <3>1 DEF Write, Overwritten
    <3> QED
      BY <2>0, <2>1, <3>1, <3>2, <3>3 DEF FileAt, FileParses
  <2>7. CASE Rename(h)
    <3>1. op[h].at = "written" /\ op[h].fd = "none" /\ tmp = op[h].snap /\ path' = tmp
      BY <2>0, <2>7 DEF Rename, FileAt
    <3>2. tmp \notin {Empty, Torn}
      BY <1>0, <3>1, MarkersAreDistinct DEF Records
    <3>3. op'[h].at = "renamed" /\ op'[h].fd = "none"
      BY <1>0, <2>7, <3>1 DEF Rename, Records
    <3> QED
      BY <2>1, <3>1, <3>2, <3>3 DEF FileAt, FileParses
  <2>8. CASE PersistFails(h)
    <3>1. op[h].at = "opened" => op[h].fd = "tmp"
      BY <2>0 DEF FileAt
    <3>2. path' = path /\ (tmp' = tmp \/ op[h].at = "opened")
      BY <2>8, <3>1 DEF PersistFails
    <3>3. op'[h].at = "idle" /\ op'[h].fd = "none"
      BY <1>0, <2>8 DEF PersistFails, Idle
    <3> QED
      BY <2>0, <2>1, <3>2, <3>3 DEF FileAt, FileParses
  <2>9. CASE Answer(h)
    <3>1. op'[h].at = "idle" /\ op'[h].fd = "none" /\ UNCHANGED <<path, tmp>>
      BY <1>0, <2>9 DEF Answer, Idle
    <3> QED
      BY <2>0, <2>1, <3>1 DEF FileAt, FileParses
  <2> QED
    BY <1>1, <2>2, <2>3, <2>4, <2>5, <2>6, <2>7, <2>8, <2>9 DEF Serve
<1>2. CASE Crash
  <2>1. \A h \in Handlers : op'[h] = Idle
    BY <1>2 DEF Crash
  <2>2. path' = path
    BY <1>2 DEF Crash
  <2> QED
    BY <2>1, <2>2 DEF FileInv, FileAt, FileParses, Idle
<1>3. CASE Start
  BY <1>3 DEF Start, FileInv, FileAt, FileParses, Idle
<1>4. CASE UNCHANGED vars
  BY <1>4 DEF vars, FileInv, FileAt, FileParses
<1> QED
  BY <1>1, <1>2, <1>3, <1>4 DEF Next, Step

(* A rename brings a request's own snapshot; with no other request about,  *)
(* it is still there when the request is answered.                         *)
LEMMA StepAnswered ==
    ASSUME OneAtATime
    PROVE  TypeInv /\ FileInv /\ AnsweredIsSaved /\ [Next]_vars => AnsweredIsSaved'
<1> SUFFICES ASSUME TypeInv, FileInv, AnsweredIsSaved, [Next]_vars PROVE AnsweredIsSaved'
  OBVIOUS
<1>0. op \in [Handlers -> Records]
  BY DEF TypeInv, TypeOK, Records
<1>1. ASSUME NEW h \in Handlers, Serve(h) PROVE AnsweredIsSaved'
  <2>0. Handlers = {h}
    BY DEF OneAtATime
  <2>1. CASE Rename(h)
    <3>1. path' = op[h].snap /\ op'[h].snap = op[h].snap
      BY <1>0, <2>1 DEF Rename, FileInv, FileAt, Records
    <3> QED
      BY <2>0, <3>1 DEF AnsweredIsSaved
  <2>2. CASE ~Rename(h)
    <3>1. op'[h].at # "renamed"
      <4>1. ASSUME NEW p \in Pools, NEW min \in Opt, NEW max \in Opt,
                   Check(h, p, min, max) \/ Clear(h, p)
            PROVE  op'[h].at \in {"checked", "changed"}
        BY <1>0, <4>1 DEF Check, Clear, Idle
      <4>2. Set(h) \/ Open(h) \/ Write(h) => op'[h].at \in {"changed", "opened", "written"}
        BY <1>0 DEF Set, Open, Write, Records
      <4>3. PersistFails(h) \/ Answer(h) => op'[h].at = "idle"
        BY <1>0 DEF PersistFails, Answer, Idle
      <4>4. Inherit \in Opt
        BY DEF Opt
      <4> QED
        BY <1>1, <2>2, <4>1, <4>2, <4>3, <4>4 DEF Serve
    <3> QED
      BY <2>0, <3>1 DEF AnsweredIsSaved
  <2> QED
    BY <2>1, <2>2
<1>2. CASE Crash \/ Start
  BY <1>2 DEF Crash, Start, FileInv, AnsweredIsSaved, Idle
<1>3. CASE UNCHANGED vars
  BY <1>3 DEF vars, AnsweredIsSaved
<1> QED
  BY <1>1, <1>2, <1>3 DEF Next, Step

-----------------------------------------------------------------------------
LEMMA InitOrder == Init => OrderInv
BY DEF Init, OrderInv, StillAccepted, Idle

(* Whether a request is accepted depends on its pool's limits alone.       *)
LEMMA AcceptsKept ==
    ASSUME TypeOK, TypeOK', NEW p \in Pools, NEW min, NEW max,
           cfg' = cfg, m'[p] = m[p], Accepts(m, p, min, max)
    PROVE  Accepts(m, p, min, max)'
<1> DEFINE o == With(m, p, min, max)
           q == With(m', p, min, max)
<1>1. m \in Maps /\ m' \in Maps
  BY DEF TypeOK
<1>2. q[p] = o[p]
  BY <1>1 DEF With, Maps
<1>3. Asked(o, p)' = [min |-> IF q[p].min = Inherit THEN cfg'[p].min ELSE q[p].min,
                      max |-> IF q[p].max = Inherit THEN cfg'[p].max ELSE q[p].max]
  BY DEF Asked, With
<1>4. Asked(o, p)' = Asked(o, p)
  BY <1>2, <1>3 DEF Asked
<1> HIDE DEF o, q
<1> QED
  BY <1>4 DEF Accepts, o

(* A request that is checked after a request's step was so before it, with *)
(* the same question, or that step was its check.                          *)
LEMMA WhoIsChecked ==
    ASSUME TypeInv, NEW h \in Handlers, Serve(h), NEW g \in Handlers, op'[g].at = "checked"
    PROVE  \/ /\ op[g].at = "checked"
              /\ op'[g].pool = op[g].pool /\ op'[g].min = op[g].min /\ op'[g].max = op[g].max
           \/ /\ g = h
              /\ \E p \in Pools, min, max \in Opt : Check(h, p, min, max)
<1>0. op \in [Handlers -> Records]
  BY DEF TypeInv, TypeOK, Records
<1>1. CASE Rename(h)
  BY <1>0, <1>1 DEF Rename, Records
<1>2. ASSUME g # h, ~Rename(h) PROVE op'[g] = op[g]
  BY <1>0, <1>2 DEF Serve, Check, Clear, Set, Open, Write, PersistFails, Answer
<1>3. ASSUME g = h, ~Rename(h) PROVE \E p \in Pools, min, max \in Opt : Check(h, p, min, max)
  <2>1. \A p \in Pools : Clear(h, p) => op'[h].at = "changed"
    BY <1>0 DEF Clear
  <2>2. Set(h) => op'[h].at = "changed"
    BY <1>0 DEF Set
  <2>3. Open(h) \/ Write(h) => op'[h].at \in {"opened", "written"}
    BY <1>0 DEF Open, Write, Records
  <2>4. PersistFails(h) \/ Answer(h) => op'[h].at = "idle"
    BY <1>0 DEF PersistFails, Answer, Idle
  <2> QED
    BY <1>3, <2>1, <2>2, <2>3, <2>4 DEF Serve
<1> QED
  BY <1>1, <1>2, <1>3

LEMMA StepOrder == TypeInv /\ TypeInv' /\ OrderInv /\ [Next]_vars => OrderInv'
<1> SUFFICES ASSUME TypeInv, TypeInv', OrderInv, [Next]_vars PROVE OrderInv'
  OBVIOUS
<1>0. TypeOK /\ TypeOK' /\ \A h \in Handlers : op[h].at = "checked" => op[h].pool \in Pools
  BY DEF TypeInv
<1>1. ASSUME NEW h \in Handlers, Serve(h), Next PROVE OrderInv'
  <2>1. up /\ up' = up /\ cfg' = cfg
    BY <1>1 DEF Serve, Check, Clear, Set, Open, Write, Rename, PersistFails, Answer
  <2>2. ASSUME NEW g \in Handlers, op'[g].at = "checked", g \notin overtaken'
        PROVE  Accepts(m, op[g].pool, op[g].min, op[g].max)'
    <3>1. CASE /\ op[g].at = "checked"
               /\ op'[g].pool = op[g].pool /\ op'[g].min = op[g].min /\ op'[g].max = op[g].max
      <4>1. g \notin overtaken /\ m'[op[g].pool] = m[op[g].pool]
        BY <1>1, <2>2, <3>1 DEF Next, StaysChecked
      <4>2. Accepts(m, op[g].pool, op[g].min, op[g].max) /\ op[g].pool \in Pools
        BY <1>0, <3>1, <4>1 DEF OrderInv, StillAccepted
      <4>3. \A p \in Pools : \A min, max :
              m'[p] = m[p] /\ Accepts(m, p, min, max) => Accepts(m, p, min, max)'
        BY <1>0, <2>1, AcceptsKept
      <4> QED
        BY <3>1, <4>1, <4>2, <4>3 DEF Accepts
    <3>2. ASSUME g = h, NEW p \in Pools, NEW min \in Opt, NEW max \in Opt, Check(h, p, min, max)
          PROVE  Accepts(m, op[g].pool, op[g].min, op[g].max)'
      <4>1. op'[g].pool = p /\ op'[g].min = min /\ op'[g].max = max /\ m' = m
        BY <1>0, <3>2 DEF Check, Idle, TypeOK
      <4>2. Accepts(m, p, min, max)'
        BY <1>0, <2>1, <3>2, <4>1, AcceptsKept DEF Check
      <4> QED
        BY <4>1, <4>2 DEF Accepts
    <3> QED
      BY <1>1, <2>2, <3>1, <3>2, WhoIsChecked
  <2> QED
    BY <2>1, <2>2 DEF OrderInv, StillAccepted
<1>2. CASE Crash \/ Start
  <2>1. \A h \in Handlers : op'[h] = Idle
    BY <1>2 DEF Crash, Start, OrderInv
  <2> QED
    BY <2>1 DEF OrderInv, StillAccepted, Idle
<1>3. CASE UNCHANGED vars
  <2>1. UNCHANGED <<up, op, m, cfg, overtaken>>
    BY <1>3 DEF vars
  <2>2. \A p \in Pools : \A min, max : Accepts(m, p, min, max) => Accepts(m, p, min, max)'
    BY <1>0, <2>1, AcceptsKept
  <2>3. ASSUME NEW h \in Handlers, op[h].at = "checked", h \notin overtaken
        PROVE  Accepts(m, op[h].pool, op[h].min, op[h].max)'
    BY <1>0, <2>1, <2>2, <2>3 DEF OrderInv, StillAccepted
  <2> QED
    BY <2>1, <2>3 DEF OrderInv, StillAccepted
<1> QED
  BY <1>1, <1>2, <1>3 DEF Next, Step

(* A request that is alone is not overtaken.                               *)
NoneOvertaken == overtaken = {}

LEMMA StepNoneOvertaken ==
    ASSUME OneAtATime
    PROVE  TypeInv /\ OrderInv /\ NoneOvertaken /\ [Next]_vars => NoneOvertaken'
<1> SUFFICES ASSUME TypeInv, OrderInv, NoneOvertaken, [Next]_vars PROVE NoneOvertaken'
  OBVIOUS
<1> USE DEF NoneOvertaken
<1>1. ASSUME Next, NEW g \in Handlers, StaysChecked(g) PROVE m' = m
  <2>0. op \in [Handlers -> Records]
    BY DEF TypeInv, TypeOK, Records
  <2>1. \A h \in Handlers : h = g
    BY DEF OneAtATime
  <2>2. ~Set(g) /\ \A p \in Pools : ~Clear(g, p)
    <3>1. op'[g].at = "checked" /\ op[g].at = "checked"
      BY <1>1 DEF StaysChecked
    <3>2. Set(g) => op'[g].at = "changed"
      BY <2>0 DEF Set, Records
    <3> QED
      BY <3>1, <3>2 DEF Clear
  <2>3. ~Start
    BY <1>1 DEF Start, OrderInv, StaysChecked, Idle
  <2> QED
    BY <1>1, <2>1, <2>2, <2>3
       DEF Next, Step, Serve, Crash, Check, Open, Write, Rename, PersistFails, Answer
<1>2. CASE Next
  BY <1>1, <1>2 DEF Next
<1>3. CASE UNCHANGED vars
  BY <1>3 DEF vars
<1> QED
  BY <1>2, <1>3

-----------------------------------------------------------------------------
(* Every variable of Overrides has its type, however many requests are     *)
(* served at once.                                                         *)
THEOREM OverridesTypeCorrect == Spec => []TypeOK
<1>1. TypeInv => TypeOK
  BY DEF TypeInv
<1> QED
  BY <1>1, InitType, StepType, PTL DEF Spec

(* With requests one at a time, no two writes and no two saves meet. *)
LEMMA OneIsApart == OneAtATime => WritesApart /\ SavesApart
BY DEF OneAtATime, WritesApart, SavesApart

LEMMA InvariantsHold ==
    ASSUME OneAtATime
    PROVE  Spec => [](TypeInv /\ FileInv /\ NoneOvertaken /\ AnsweredIsSaved)
<1>1. WritesApart /\ WritesApart'
  BY DEF OneAtATime, WritesApart
<1>2. Init => NoneOvertaken
  BY DEF Init, NoneOvertaken
<1> QED
  BY <1>1, <1>2, InitType, InitFile, InitOrder, StepType, StepFile, StepOrder, StepAnswered,
     StepNoneOvertaken, PTL DEF Spec

(* However requests overlap otherwise: as long as no two of them are       *)
(* between opening and renaming the temporary file, the file of overrides  *)
(* that is in place parses wherever arc dies.                              *)
THEOREM WholeFilesNeedWritesApart == Spec => WholeIfWritesApart
<1>1. FileInv => FileParses
  BY DEF FileInv
<1> QED
  BY <1>1, InitType, InitFile, StepType, StepFile, PTL DEF Spec, WholeIfWritesApart

(* Wherever arc dies, the file of overrides that is in place parses, when  *)
(* requests are served one at a time.                                      *)
THEOREM FileAlwaysParses ==
    ASSUME OneAtATime
    PROVE  Spec => []FileParses
<1>1. FileInv => FileParses
  BY DEF FileInv
<1> QED
  BY <1>1, InvariantsHold, PTL

(* A request is answered with a 200 only when a restart would find it.     *)
THEOREM AnswersAreSaved ==
    ASSUME OneAtATime
    PROVE  Spec => []AnsweredIsSaved
BY InvariantsHold, PTL

-----------------------------------------------------------------------------
(* The clamp never shows in what a request leaves. *)
Ordered(p) == Asked(m, p).min <= Asked(m, p).max

LEMMA InOrderMeans == TypeOK => \A p \in Pools : InOrder(p) <=> Ordered(p)
<1> SUFFICES ASSUME TypeOK, NEW p \in Pools PROVE InOrder(p) <=> Ordered(p)
  OBVIOUS
<1>1. cfg[p].min \in Int /\ cfg[p].max \in Int
  BY ConfigsAreValid DEF TypeOK
<1>2. m[p].min \in Limits \cup {Inherit} /\ m[p].max \in Limits \cup {Inherit}
  BY DEF TypeOK, Maps, Override, Opt
<1>3. Asked(m, p).min \in Int /\ Asked(m, p).max \in Int
  BY <1>1, <1>2, ConfigsAreValid DEF Asked
<1>4. Asked(m, p) = [min |-> Asked(m, p).min, max |-> Asked(m, p).max]
  BY DEF Asked
<1> QED
  BY <1>3, <1>4 DEF InOrder, InForce, Ordered

(* However requests overlap: Set applies what was checked, which holds as  *)
(* long as no other request changes the pool (StillAccepted), Clear        *)
(* returns to the configuration, and no other step of a request touches    *)
(* the limits.                                                             *)
THEOREM OnlyTheOvertaken == Spec => OnlyOvertakenBreakOrder
<1>0. (TypeOK => \A p \in Pools : InOrder(p) <=> Ordered(p))'
  BY InOrderMeans, PTL
<1>1. ASSUME TypeInv, TypeInv', OrderInv, [Next]_vars, up, up', NEW p \in Pools, InOrder(p),
             \A h \in overtaken : ~Set(h)
      PROVE  InOrder(p)'
  <2> TypeOK /\ TypeOK'
    BY <1>1 DEF TypeInv
  <2> USE DEF Ordered
  <2> SUFFICES Ordered(p)'
    BY <1>0
  <2>1. Ordered(p)
    BY <1>1, InOrderMeans
  <2>2. CASE m' = m /\ cfg' = cfg
    BY <2>1, <2>2 DEF Asked
  <2>3. ASSUME NEW h \in Handlers, Set(h) PROVE Ordered(p)'
    <3>1. op[h].pool \in Pools /\ Accepts(m, op[h].pool, op[h].min, op[h].max)
      BY <1>1, <2>3 DEF Set, TypeInv, OrderInv, StillAccepted
    <3>2. m' = With(m, op[h].pool, op[h].min, op[h].max) /\ cfg' = cfg
      BY <2>3 DEF Set
    <3>3. CASE op[h].pool = p
      BY <3>1, <3>2, <3>3 DEF Accepts, Asked
    <3>4. CASE op[h].pool # p
      BY <2>1, <3>1, <3>2, <3>4 DEF With, Asked, TypeOK, Maps
    <3> QED
      BY <3>3, <3>4
  <2>4. ASSUME NEW h \in Handlers, NEW q \in Pools, Clear(h, q)
        PROVE  Ordered(p)'
    <3>1. m' = [m EXCEPT ![q] = NoOverride] /\ cfg' = cfg
      BY <2>4 DEF Clear
    <3>2. CASE q = p
      <4>1. cfg[p].min <= cfg[p].max
        BY ConfigsAreValid DEF TypeOK
      <4>2. m'[p] = NoOverride
        BY <3>1, <3>2 DEF TypeOK, Maps
      <4> QED
        BY <3>1, <4>1, <4>2 DEF Asked, NoOverride
    <3>3. CASE q # p
      BY <2>1, <3>1, <3>3 DEF Asked, TypeOK, Maps
    <3> QED
      BY <3>2, <3>3
  <2>5. \/ m' = m /\ cfg' = cfg
        \/ \E h \in Handlers : Set(h)
        \/ \E h \in Handlers, q \in Pools : Clear(h, q)
    BY <1>1 DEF Next, Step, Serve, Crash, Start, Check, Open, Write, Rename, PersistFails, Answer, vars
  <2> QED
    BY <2>2, <2>3, <2>4, <2>5
<1>2. TypeInv /\ TypeInv' /\ OrderInv /\ [Next]_vars
          => [up /\ up' => \A p \in Pools :
                InOrder(p) => InOrder(p)' \/ \E h \in overtaken : Set(h)]_vars
  BY <1>1
<1> QED
  BY <1>2, InitType, InitOrder, StepType, StepOrder, PTL DEF Spec, OnlyOvertakenBreakOrder

(* One at a time, no request is overtaken, and the order is kept.          *)
THEOREM OrderIsKept ==
    ASSUME OneAtATime
    PROVE  Spec => RequestsKeepOrder
<1>1. NoneOvertaken /\ [up /\ up' => \A p \in Pools :
                          InOrder(p) => InOrder(p)' \/ \E h \in overtaken : Set(h)]_vars
          => [up /\ up' => \A p \in Pools : InOrder(p) => InOrder(p)']_vars
  BY DEF NoneOvertaken
<1> QED
  BY <1>1, InvariantsHold, OnlyTheOvertaken, PTL DEF RequestsKeepOrder, OnlyOvertakenBreakOrder

-----------------------------------------------------------------------------
(* What is being saved, while no two requests save at once.                *)
PendingIs ==
    SavesApart => /\ \A h \in Handlers : Saving(h) => Pending = op[h].snap
                  /\ (\A h \in Handlers : ~Saving(h)) => Pending = None

LEMMA PendingFound == PendingIs
<1> SUFFICES ASSUME SavesApart PROVE /\ \A h \in Handlers : Saving(h) => Pending = op[h].snap
                                     /\ (\A h \in Handlers : ~Saving(h)) => Pending = None
  BY DEF PendingIs
<1>1. ASSUME NEW h \in Handlers, Saving(h) PROVE Pending = op[h].snap
  <2>1. InFlight = {h}
    BY <1>1 DEF SavesApart, Saving, InFlight
  <2> QED
    BY <2>1 DEF Pending
<1>2. (\A h \in Handlers : ~Saving(h)) => Pending = None
  BY DEF InFlight, Pending
<1> QED
  BY <1>1, <1>2

LEMMA PendingFoundNext == PendingIs'
BY PendingFound, PTL

(* A request that is saving, or comes to, is the only one.                 *)
LEMMA OnlySaver ==
    ASSUME TypeInv, SavesApart, SavesApart', NEW h \in Handlers, Serve(h)
    PROVE  /\ Saving(h)' => /\ Pending' = op'[h].snap
                            /\ Pending = IF Saving(h) THEN op[h].snap ELSE None
           /\ Saving(h) => /\ Pending = op[h].snap
                           /\ Saving(h)' \/ Pending' = None
           /\ ~Saving(h) /\ ~Saving(h)' => Pending' = Pending
<1>1. \A g \in Handlers : g # h => /\ Saving(g)' = Saving(g) /\ op'[g].snap = op[g].snap
  BY OthersStay DEF Saving
<1>2. /\ \A g \in Handlers : Saving(g)' => Pending' = op'[g].snap
      /\ (\A g \in Handlers : ~Saving(g)') => Pending' = None
  BY PendingFoundNext DEF PendingIs
<1>3. /\ \A g \in Handlers : Saving(g) => Pending = op[g].snap
      /\ (\A g \in Handlers : ~Saving(g)) => Pending = None
  BY PendingFound DEF PendingIs
<1>4. Saving(h)' => \A g \in Handlers : g # h => ~Saving(g)
  BY <1>1 DEF SavesApart
<1>5. Saving(h) => \A g \in Handlers : g # h => ~Saving(g)'
  BY <1>1 DEF SavesApart
<1>6. CASE Saving(h)'
  BY <1>2, <1>3, <1>4, <1>6
<1>7. CASE ~Saving(h)' /\ Saving(h)
  BY <1>2, <1>3, <1>5, <1>7
<1>8. CASE ~Saving(h)' /\ ~Saving(h)
  <2>1. CASE \E g \in Handlers : Saving(g)
    BY <1>1, <1>2, <1>3, <1>8, <2>1
  <2>2. CASE \A g \in Handlers : ~Saving(g)
    BY <1>1, <1>2, <1>3, <1>8, <2>2
  <2> QED
    BY <1>8, <2>1, <2>2
<1> QED
  BY <1>6, <1>7, <1>8

(* One step of a request is one of the store, or none: the limits change   *)
(* with Set or Clear, the saved ones with Rename.                          *)
LEMMA ServeIsAStep ==
    ASSUME TypeInv, TypeInv', FileInv, SavesApart, SavesApart', NEW h \in Handlers, Serve(h)
    PROVE  Store!Next \/ UNCHANGED Store!vars
<1> USE DEF Store!Next, Store!vars
<1>a. /\ Saving(h)' => /\ Pending' = op'[h].snap
                       /\ Pending = IF Saving(h) THEN op[h].snap ELSE None
      /\ Saving(h) => /\ Pending = op[h].snap
                      /\ Saving(h)' \/ Pending' = None
      /\ ~Saving(h) /\ ~Saving(h)' => Pending' = Pending
  BY OnlySaver
<1>c. op \in [Handlers -> Records]
  BY DEF TypeInv, TypeOK, Records
<1>d. None \notin Maps /\ NoFile \notin Maps
  BY MarkersAreDistinct
<1>e. op[h].snap \in Maps /\ FileAt(h)
  BY <1>c DEF Records, FileInv
<1>1. ASSUME NEW p \in Pools, NEW min \in Opt, NEW max \in Opt, Check(h, p, min, max)
      PROVE  UNCHANGED Store!vars
  <2>1. ~Saving(h) /\ ~Saving(h)'
    BY <1>1, <1>c DEF Check, Saving, Idle
  <2> QED
    BY <1>1, <1>a, <2>1 DEF Check
<1>2. ASSUME NEW p \in Pools, Clear(h, p) PROVE Store!Change
  <2>1. ~Saving(h) /\ Saving(h)' /\ op'[h].snap = m'
    BY <1>2, <1>c DEF Clear, Saving, Idle
  <2> QED
    BY <1>2, <1>a, <2>1 DEF Clear, Store!Change, TypeInv, TypeOK
<1>3. CASE Set(h)
  <2>1. ~Saving(h) /\ Saving(h)' /\ op'[h].snap = m'
    BY <1>3, <1>c DEF Set, Saving
  <2>2. Store!Change
    BY <1>3, <1>a, <2>1 DEF Set, Store!Change, TypeInv, TypeOK
  <2> QED
    BY <2>2
<1>4. CASE Open(h) \/ Write(h)
  <2>1. Saving(h) /\ op[h] \in Records
    BY <1>4, <1>c DEF Open, Write, Saving
  <2>2. path' = path /\ m' = m
    BY <1>4, <1>e DEF Open, Write, FileAt
  <2>3. Saving(h)' /\ op'[h].snap = op[h].snap
    <3>1. CASE Open(h)
      <4>1. op'[h] = [op[h] EXCEPT !.at = "opened", !.fd = "tmp"]
        BY <1>c, <3>1 DEF Open
      <4> QED
        BY <2>1, <4>1 DEF Saving, Records
    <3>2. CASE Write(h)
      <4>1. op'[h] = [op[h] EXCEPT !.at = "written", !.fd = "none"]
        BY <1>c, <3>2 DEF Write
      <4> QED
        BY <2>1, <4>1 DEF Saving, Records
    <3> QED
      BY <1>4, <3>1, <3>2
  <2> QED
    BY <1>a, <2>1, <2>2, <2>3
<1>5. CASE Rename(h)
  <2>1. Saving(h) /\ tmp = op[h].snap
    BY <1>5, <1>e DEF Rename, Saving, FileAt
  <2>2. ~Saving(h)'
    BY <1>5, <1>c DEF Rename, Saving, Records
  <2>3. path' = op[h].snap /\ m' = m
    BY <1>5, <2>1 DEF Rename
  <2>4. Store!Commit
    BY <1>a, <1>d, <1>e, <2>1, <2>2, <2>3 DEF Store!Commit, Loaded
  <2> QED
    BY <2>4
<1>6. CASE PersistFails(h)
  <2>1. Saving(h) /\ ~Saving(h)'
    BY <1>6, <1>c DEF PersistFails, Saving, Idle
  <2>2. path' = path /\ m' = m
    BY <1>6, <1>e DEF PersistFails, FileAt
  <2>3. Store!Abandon
    BY <1>a, <1>d, <1>e, <2>1, <2>2 DEF Store!Abandon
  <2> QED
    BY <2>3
<1>7. CASE Answer(h)
  <2>1. ~Saving(h) /\ ~Saving(h)'
    BY <1>7, <1>c DEF Answer, Saving, Idle
  <2> QED
    BY <1>7, <1>a, <2>1 DEF Answer
<1> QED
  BY <1>1, <1>2, <1>3, <1>4, <1>5, <1>6, <1>7 DEF Serve

LEMMA CrashIsAStep ==
    ASSUME TypeInv, SavesApart, Crash
    PROVE  Store!Next \/ UNCHANGED Store!vars
<1>1. Pending' = None
  BY DEF Crash, Pending, InFlight, Saving, Idle
<1>2. CASE \E h \in Handlers : Saving(h)
  <2>1. PICK h \in Handlers : Saving(h)
    BY <1>2
  <2>2. Pending = op[h].snap /\ op[h].snap \in Maps
    BY <2>1, PendingFound DEF PendingIs, TypeInv, TypeOK
  <2> QED
    BY <1>1, <2>2, MarkersAreDistinct DEF Crash, Store!Next, Store!Abandon
<1>3. CASE \A h \in Handlers : ~Saving(h)
  <2>1. Pending = None
    BY <1>3, PendingFound DEF PendingIs
  <2> QED
    BY <1>1, <2>1 DEF Crash, Store!vars
<1> QED
  BY <1>2, <1>3

LEMMA StoreStep ==
    ASSUME TypeInv, TypeInv', FileInv, SavesApart, SavesApart', [Next]_vars
    PROVE  [Store!Next]_(Store!vars)
<1>1. ASSUME NEW h \in Handlers, Serve(h) PROVE Store!Next \/ UNCHANGED Store!vars
  BY <1>1, ServeIsAStep
<1>2. CASE Crash
  BY <1>2, CrashIsAStep
<1>3. CASE Start
  <2>1. Pending' = None
    BY <1>3 DEF Start, Pending, InFlight, Saving, FileInv, Idle
  <2> QED
    BY <1>3, <2>1 DEF Start, Store!Next, Store!Restart
<1>4. CASE UNCHANGED vars
  BY <1>4 DEF vars, Store!vars, Pending, InFlight, Saving
<1> QED
  BY <1>1, <1>2, <1>3, <1>4 DEF Next, Step

(* The history variable says what it is for: until two requests have been  *)
(* saving at once, none are, and the file is as it should be.              *)
ApartInv == apart => SavesApart /\ FileInv

LEMMA ApartImplies == SavesApart => WritesApart
BY DEF SavesApart, WritesApart, Saving

LEMMA InitApart == Init => ApartInv
<1>1. Init => SavesApart
  BY DEF Init, SavesApart, Saving, Idle
<1> QED
  BY <1>1, InitFile DEF ApartInv

(* A step after which no two saves have met is one before which none had.  *)
LEMMA ApartBefore ==
    ASSUME ApartInv, [Next]_vars, apart'
    PROVE  /\ apart /\ SavesApart /\ FileInv /\ WritesApart
           /\ SavesApart' /\ WritesApart'
<1>1. apart /\ SavesApart'
  <2>1. CASE Next
    BY <2>1 DEF Next
  <2>2. CASE UNCHANGED vars
    <3>1. apart /\ SavesApart
      BY <2>2 DEF vars, ApartInv
    <3> QED
      BY <2>2, <3>1 DEF vars, SavesApart, Saving
  <2> QED
    BY <2>1, <2>2
<1>2. SavesApart /\ FileInv
  BY <1>1 DEF ApartInv
<1>3. SavesApart' => WritesApart'
  BY DEF SavesApart, WritesApart, Saving
<1> QED
  BY <1>1, <1>2, <1>3, ApartImplies

LEMMA StepApart == TypeInv /\ ApartInv /\ [Next]_vars => ApartInv'
<1> SUFFICES ASSUME TypeInv, ApartInv, [Next]_vars, apart' PROVE SavesApart' /\ FileInv'
  BY DEF ApartInv
<1>1. FileInv /\ WritesApart /\ SavesApart' /\ WritesApart'
  BY ApartBefore
<1> QED
  BY <1>1, StepFile

(* Any number of requests, through every failing call, crash and restart,  *)
(* keep the promise of LimitStore until two of them are between their      *)
(* change and their rename at once: always, if the lock were held over     *)
(* persist.                                                                *)
THEOREM SavesAreAtomic == Spec => SavedAtomically
<1>1. Init => Store!Init
  BY DEF Init, Store!Init, Loaded, Pending, InFlight, Saving, Idle
<1>2. TypeInv /\ TypeInv' /\ ApartInv /\ [Next]_vars => (apart' => [Store!Next]_(Store!vars))
  <2> SUFFICES ASSUME TypeInv, TypeInv', ApartInv, [Next]_vars, apart'
               PROVE  [Store!Next]_(Store!vars)
    OBVIOUS
  <2>1. FileInv /\ SavesApart /\ SavesApart'
    BY ApartBefore
  <2> QED
    BY <2>1, StoreStep
<1>3. TypeInv /\ TypeInv' /\ ApartInv /\ [Next]_vars
          => [apart' => [Store!Next]_(Store!vars)]_vars
  BY <1>2
<1> QED
  BY <1>1, <1>3, InitType, InitApart, StepType, StepApart, PTL DEF Spec, SavedAtomically
=============================================================================
