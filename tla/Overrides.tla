------------------------------ MODULE Overrides ------------------------------
(***************************************************************************)
(* Live limits: the scale handler of internal/api/server.go, the override  *)
(* map of internal/state/overrides.go with the file it is saved in, and    *)
(* arc's crashes and restarts.                                             *)
(*                                                                         *)
(* net/http serves every request on a goroutine of its own, so handlers    *)
(* interleave.  The map is changed under a lock; the snapshot is written   *)
(* outside it, by every handler through the same temporary file.  A file   *)
(* is followed through the renames by what its open descriptors refer to.  *)
(***************************************************************************)
EXTENDS Integers, FiniteSets

CONSTANTS
    Pools,       \* the pools of the configuration
    Limits,      \* the numbers a request may ask for
    Configs,     \* the limits, pool -> [min, max], a valid configuration may give
    Handlers,    \* the goroutines that can serve a scale request at once
    Empty, Torn, \* file contents that are not JSON: cut to nothing, two texts mixed
    NoFile,      \* no such file
    Inherit,     \* nil: the limit comes from the configuration
    None         \* no request

ASSUME ConfigsAreValid ==
    /\ Limits \subseteq Int
    /\ Configs \subseteq [Pools -> [min : Nat, max : Nat]]
    /\ Configs # {}
    /\ \A c \in Configs, p \in Pools : c[p].max >= 1 /\ c[p].min <= c[p].max

ASSUME MarkersAreNoLimits == Inherit \notin Int

VARIABLES
    up,       \* arc is running
    cfg,      \* pool -> limits of the configuration arc was started with
    m,        \* Overrides.m: pool -> its override
    path,     \* what overrides.json holds
    tmp,      \* what overrides.json.tmp holds
    op,       \* handler -> the request it serves
    apart,    \* history: no two requests have been saving at once
    overtaken \* history: the checked requests whose pool has got other limits
              \* from another request since their check

vars == <<up, cfg, m, path, tmp, op, apart, overtaken>>

Opt      == Limits \cup {Inherit}
Override == [min : Opt, max : Opt]
Maps     == [Pools -> Override]
Texts    == Maps \cup {Empty, Torn}
NoOverride  == [min |-> Inherit, max |-> Inherit]
NoOverrides == [p \in Pools |-> NoOverride]

ASSUME MarkersAreDistinct ==
    /\ Empty \notin Maps \cup {Torn, NoFile}
    /\ Torn \notin Maps \cup {NoFile}
    /\ {NoFile, None} \cap Maps = {}

Stages == {"idle", "checked", "changed", "opened", "written", "renamed"}
Refers == {"none", "tmp", "path", "gone"}   \* what a descriptor refers to
Idle == [at |-> "idle", pool |-> None, min |-> Inherit, max |-> Inherit,
         snap |-> NoOverrides, fd |-> "none"]

TypeOK ==
    /\ up \in BOOLEAN
    /\ cfg \in Configs
    /\ m \in Maps
    /\ path \in Texts \cup {NoFile}
    /\ tmp \in Texts \cup {NoFile}
    /\ op \in [Handlers -> [at : Stages, pool : Pools \cup {None}, min : Opt, max : Opt,
                            snap : Maps, fd : Refers]]
    /\ apart \in BOOLEAN
    /\ overtaken \subseteq Handlers

Init ==
    /\ up = TRUE
    /\ cfg \in Configs
    /\ m = NoOverrides
    /\ path = NoFile
    /\ tmp = NoFile
    /\ op = [h \in Handlers |-> Idle]
    /\ apart = TRUE
    /\ overtaken = {}

-----------------------------------------------------------------------------
(* the limits of p under the overrides o, before and after the clamp *)
Asked(o, p) == [min |-> IF o[p].min = Inherit THEN cfg[p].min ELSE o[p].min,
                max |-> IF o[p].max = Inherit THEN cfg[p].max ELSE o[p].max]

InForce(p) == LET l == Asked(m, p)
              IN  [l EXCEPT !.min = IF @ > l.max THEN l.max ELSE @]

(* o with the limits a request for p names *)
With(o, p, min, max) ==
    [o EXCEPT ![p] = [min |-> IF min = Inherit THEN @.min ELSE min,
                      max |-> IF max = Inherit THEN @.max ELSE max]]

Accepts(o, p, min, max) ==
    LET l == Asked(With(o, p, min, max), p)
    IN  /\ min # Inherit \/ max # Inherit
        /\ l.min >= 0
        /\ l.max >= 1
        /\ l.min <= l.max

BugChecksTheRequestAlone(h, p, min, max) ==
    /\ up
    /\ op[h].at = "idle"
    /\ min # Inherit \/ max # Inherit
    /\ min # Inherit /\ max # Inherit => min <= max
    /\ op' = [op EXCEPT ![h] = [Idle EXCEPT !.at = "checked", !.pool = p, !.min = min, !.max = max]]
    /\ UNCHANGED <<up, cfg, m, path, tmp>>

(* handleScale up to the Set: the limits are checked against what is in    *)
(* force now.  A request that is refused changes nothing.                  *)
Check(h, p, min, max) ==
    /\ up
    /\ op[h].at = "idle"
    /\ Accepts(m, p, min, max)
    /\ op' = [op EXCEPT ![h] = [Idle EXCEPT !.at = "checked", !.pool = p, !.min = min, !.max = max]]
    /\ UNCHANGED <<up, cfg, m, path, tmp>>

(* Set: the lock is held from the change to the copy *)
Set(h) ==
    /\ up
    /\ op[h].at = "checked"
    /\ m' = With(m, op[h].pool, op[h].min, op[h].max)
    /\ op' = [op EXCEPT ![h].at = "changed", ![h].snap = m']
    /\ UNCHANGED <<up, cfg, path, tmp>>

Clear(h, p) ==
    /\ up
    /\ op[h].at = "idle"
    /\ m' = [m EXCEPT ![p] = NoOverride]
    /\ op' = [op EXCEPT ![h] = [Idle EXCEPT !.at = "changed", !.pool = p, !.snap = m']]
    /\ UNCHANGED <<up, cfg, path, tmp>>

BugWriteInPlace(h) ==
    /\ up
    /\ op[h].at = "changed"
    /\ path' = Empty
    /\ op' = [op EXCEPT ![h].at = "opened", ![h].fd = "path"]
    /\ UNCHANGED <<up, cfg, m, tmp>>

(***************************************************************************)
(* persist: os.WriteFile cuts the temporary file, or creates it, writes    *)
(* the snapshot into it, and os.Rename puts it in place.                   *)
(***************************************************************************)
Open(h) ==
    /\ up
    /\ op[h].at = "changed"
    /\ tmp' = Empty
    /\ op' = [op EXCEPT ![h].at = "opened", ![h].fd = "tmp"]
    /\ UNCHANGED <<up, cfg, m, path>>

(* what writing a text from the start of a file leaves: all of it in a     *)
(* file that was cut, otherwise the end of a longer text survives it       *)
Overwritten(old, text) == IF old \in {Empty, text} THEN {text} ELSE {text, Torn}

Write(h) ==
    /\ up
    /\ op[h].at = "opened"
    /\ \/ op[h].fd = "tmp"  /\ tmp' \in Overwritten(tmp, op[h].snap) /\ UNCHANGED path
       \/ op[h].fd = "path" /\ path' \in Overwritten(path, op[h].snap) /\ UNCHANGED tmp
       \/ op[h].fd = "gone" /\ UNCHANGED <<path, tmp>>
    /\ op' = [op EXCEPT ![h].at = "written", ![h].fd = "none"]
    /\ UNCHANGED <<up, cfg, m>>

BugRenameBeforeWrite(h) ==
    /\ up
    /\ op[h].at \in {"opened", "written"}
    /\ path' = tmp
    /\ tmp' = NoFile
    /\ op' = [op EXCEPT ![h].at = "renamed"]
    /\ UNCHANGED <<up, cfg, m>>

(* open descriptors follow the file they were opened on *)
Rename(h) ==
    /\ up
    /\ op[h].at = "written"
    /\ tmp # NoFile
    /\ path' = tmp
    /\ tmp' = NoFile
    /\ op' = [g \in Handlers |->
                [op[g] EXCEPT !.at = IF g = h THEN "renamed" ELSE @,
                              !.fd = CASE @ = "tmp"  -> "path"
                                       [] @ = "path" -> "gone"
                                       [] OTHER      -> @]]
    /\ UNCHANGED <<up, cfg, m>>

(* any of the three calls fails: the request is answered with a 500, and   *)
(* the changed limits stay in force.  A write that fails half way leaves   *)
(* a part of the text behind.                                              *)
PersistFails(h) ==
    /\ up
    /\ \/ op[h].at \in {"changed", "written"} /\ UNCHANGED <<path, tmp>>
       \/ op[h].at = "opened" /\ op[h].fd = "tmp"  /\ tmp' = Torn  /\ UNCHANGED path
       \/ op[h].at = "opened" /\ op[h].fd = "path" /\ path' = Torn /\ UNCHANGED tmp
       \/ op[h].at = "opened" /\ op[h].fd = "gone" /\ UNCHANGED <<path, tmp>>
    /\ op' = [op EXCEPT ![h] = Idle]
    /\ UNCHANGED <<up, cfg, m>>

(* the request is answered with a 200 *)
Answer(h) ==
    /\ up
    /\ op[h].at = "renamed"
    /\ op' = [op EXCEPT ![h] = Idle]
    /\ UNCHANGED <<up, cfg, m, path, tmp>>

(* arc dies, or is stopped with requests in flight *)
Crash ==
    /\ up
    /\ up' = FALSE
    /\ op' = [h \in Handlers |-> Idle]
    /\ UNCHANGED <<cfg, m, path, tmp>>

(* LoadOverrides: no file is no override; a file that is not JSON is an    *)
(* error, on which arc run returns before it does anything.                *)
Loaded(text) == IF text = NoFile THEN NoOverrides ELSE text

Start ==
    /\ ~up
    /\ path \notin {Empty, Torn}
    /\ up' = TRUE
    /\ cfg' \in Configs
    /\ m' = Loaded(path)
    /\ UNCHANGED <<path, tmp, op>>

Serve(h) == \/ \E p \in Pools, min, max \in Opt : Check(h, p, min, max)
            \/ \E p \in Pools : Clear(h, p)
            \/ Set(h)
            \/ Open(h)
            \/ Write(h)
            \/ Rename(h)
            \/ PersistFails(h)
            \/ Answer(h)

Step == Crash \/ Start \/ \E h \in Handlers : Serve(h)

(* A request saves from its change to its rename. *)
Saving(h) == op[h].at \in {"changed", "opened", "written"}

SavesApart == \A g, h \in Handlers : Saving(g) /\ Saving(h) => g = h

StaysChecked(h) == op[h].at = "checked" /\ op'[h].at = "checked"

Next ==
    /\ Step
    /\ apart' = (apart /\ SavesApart')
    /\ overtaken' = {h \in Handlers : StaysChecked(h) /\ (\/ h \in overtaken
                                                          \/ m'[op[h].pool] # m[op[h].pool])}

Spec == Init /\ [][Next]_vars

-----------------------------------------------------------------------------
(* An overrides file that is in place can be parsed, whatever arc was      *)
(* doing when it died: persist "writes atomically: a torn overrides file   *)
(* would fail to parse at the next start and take the orchestrator down".  *)
FileParses == path \notin {Empty, Torn}

(* A request that has been saved and is about to be answered with a 200    *)
(* comes back after a restart.                                             *)
AnsweredIsSaved == \A h \in Handlers : op[h].at = "renamed" => path = op[h].snap

(* A floor above the ceiling is refused, not clamped: a request leaves the *)
(* limits of every pool in order if it found them so (a configuration that *)
(* changed under a saved override may break the order, a request may not). *)
InOrder(p) == InForce(p) = Asked(m, p)

RequestsKeepOrder == [][up /\ up' => \A p \in Pools : InOrder(p) => InOrder(p)']_vars

(* With any number of requests at once: the file stays whole as long as no *)
(* two of them are between the opening and the renaming of the temporary   *)
(* file they share, whatever else overlaps.                                *)
WritesApart ==
    \A g, h \in Handlers :
        op[g].at \in {"opened", "written"} /\ op[h].at \in {"opened", "written"} => g = h

WholeIfWritesApart == []WritesApart => []FileParses

(* And the limits get out of order only by a request that was overtaken:   *)
(* another one changed its pool between its check and its own change.      *)
(* What the handler compared, the limits asked for with those it read, is  *)
(* then enough for every request that was not.                             *)
OnlyOvertakenBreakOrder ==
    [][up /\ up' => \A p \in Pools :
          InOrder(p) => InOrder(p)' \/ \E h \in overtaken : Set(h)]_vars

(* Crashes, failed writes and restarts included, the saved limits change   *)
(* by single steps from one map that was in force to the next: as long as  *)
(* no two requests have been saving at once, Overrides does what           *)
(* LimitStore does.                                                        *)
InFlight == {h \in Handlers : Saving(h)}

Pending == IF InFlight = {} THEN None ELSE op[CHOOSE h \in InFlight : TRUE].snap

Store == INSTANCE LimitStore WITH
    Maps <- Maps, NoOverrides <- NoOverrides, None <- None,
    live <- m,
    durable <- Loaded(path),
    pending <- Pending

SavedAtomically == Store!Init /\ [][apart' => [Store!Next]_(Store!vars)]_vars
=============================================================================
