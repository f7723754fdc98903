----------------------------- MODULE ProcessHost -----------------------------
(***************************************************************************)
(* The process provider (internal/provider/processprov) against the        *)
(* operating system: instance directories with a state file that names a   *)
(* pid, pids that are recycled, an arc that dies between two steps.  Of    *)
(* two kinds of strangers the provider can tell one from its runners: the  *)
(* other is a look-alike, such as a runner another program has started.    *)
(*                                                                         *)
(* Create, List, Destroy and Prune are called by one reconcile loop: the   *)
(* creates of a pass overlap each other and nothing else.                  *)
(***************************************************************************)
EXTENDS ArcProcess, FiniteSets

CONSTANTS
    Names,           \* runner names, each the name of an instance directory
    Pids,            \* process ids
    Free,            \* owner of a pid nobody has
    Other, Alike,    \* unrelated processes: Alike's command line is a runner's
    NoPid,
    RecycleWhileUp,  \* a pid that a state file names may be recycled under a running arc
    PsFails          \* ps may fail

ASSUME HostConstants ==
    /\ {Free, Other, Alike} \cap Names = {} /\ NoPid \notin Pids
    /\ Free # Other /\ Free # Alike /\ Other # Alike
    /\ RecycleWhileUp \in BOOLEAN /\ PsFails \in BOOLEAN

VARIABLES
    proc,      \* pid -> the runner that has it, a stranger or Free
    dir,       \* name -> its directory: none, without a state file, with one
    pidOf,     \* name -> the pid in its state file
    seen,      \* name -> pid -> verifier.seen: the answer ps gave once
    creating,  \* name -> where its Create stands
    ending,    \* name -> where its Destroy stands
    lost,      \* history: runners whose state file was not written or not
               \* read when it counted, or that outlived a SIGKILL
    hit        \* history: processes that were signalled for another's instance

vars == <<up, proc, dir, pidOf, seen, creating, ending, lost, hit, faults>>

Owners == Names \cup {Free, Other, Alike}
Verdicts == {"unasked", "ours", "alien"}
Unasked  == [n \in Names |-> [p \in Pids |-> "unasked"]]

TypeOK ==
    /\ up \in BOOLEAN
    /\ proc \in [Pids -> Owners]
    /\ dir \in [Names -> {"none", "bare", "state"}]
    /\ pidOf \in [Names -> Pids \cup {NoPid}]
    /\ \A n \in Names : (pidOf[n] # NoPid) = (dir[n] = "state")
    /\ seen \in [Names -> [Pids -> Verdicts]]
    /\ creating \in [Names -> {"fresh", "cloned", "started", "done"}]
    /\ ending \in [Names -> {"no", "signalled", "gone"}]
    /\ lost \subseteq Names
    /\ hit \subseteq Owners
    /\ faults \in 0..MaxFaults

Init ==
    /\ up = TRUE
    /\ proc = [p \in Pids |-> Free]
    /\ dir = [n \in Names |-> "none"]
    /\ pidOf = [n \in Names |-> NoPid]
    /\ seen = Unasked
    /\ creating = [n \in Names |-> "fresh"]
    /\ ending = [n \in Names |-> "no"]
    /\ lost = {}
    /\ hit = {}
    /\ faults = 0

Alive(n)   == \E p \in Pids : proc[p] = n
Recorded   == {pidOf[n] : n \in Names} \ {NoPid}
Destroying == \E n \in Names : ending[n] # "no"
Creating   == \E n \in Names : creating[n] \in {"cloned", "started"}
Gone(n)    == [pidOf EXCEPT ![n] = NoPid]

-----------------------------------------------------------------------------
(* Create up to the clone; a clone that fails leaves the directory, which  *)
(* is undone only from the next step on.  Names are random and not reused. *)
Clone(n) ==
    /\ up /\ ~Destroying
    /\ creating[n] = "fresh"
    /\ dir' = [dir EXCEPT ![n] = "bare"]
    /\ creating' = [creating EXCEPT ![n] = "cloned"]
    /\ UNCHANGED <<up, proc, pidOf, seen, ending, lost, hit, faults>>

CloneFails(n) ==
    /\ up /\ ~Destroying
    /\ creating[n] = "fresh"
    /\ Fault
    /\ dir' = [dir EXCEPT ![n] = "bare"]
    /\ creating' = [creating EXCEPT ![n] = "done"]
    /\ UNCHANGED <<up, proc, pidOf, seen, ending, lost, hit>>

(* a pid a new process may get *)
Available(p) == proc[p] = Free /\ (p \notin Recorded \/ RecycleWhileUp \/ ~up)

Start(n, p) ==
    /\ up
    /\ creating[n] = "cloned"
    /\ Available(p)
    /\ proc' = [proc EXCEPT ![p] = n]
    /\ creating' = [creating EXCEPT ![n] = "started"]
    /\ UNCHANGED <<up, dir, pidOf, seen, ending, lost, hit, faults>>

(* RemoveAll, whose error is dropped, may leave the directory *)
Undo(n) == \E d \in {"none", "bare"} : dir' = [dir EXCEPT ![n] = d]

(* the preflight script, the log file or the start fails *)
StartFails(n) ==
    /\ up
    /\ creating[n] = "cloned"
    /\ Fault \/ (UNCHANGED faults /\ ~\E p \in Pids : Available(p))
    /\ Undo(n)
    /\ creating' = [creating EXCEPT ![n] = "done"]
    /\ UNCHANGED <<up, proc, pidOf, seen, ending, lost, hit>>

(* killGroup, whose error is dropped, may not end the process *)
Killed(n, p) == \/ proc' = [proc EXCEPT ![p] = Free] /\ UNCHANGED lost
                \/ lost' = lost \cup ({proc[p]} \cap {n}) /\ UNCHANGED proc

(* until Create waits for it, a runner that exits keeps its pid as a zombie *)
WriteState(n, p) ==
    /\ up
    /\ creating[n] = "started"
    /\ proc[p] = n
    /\ dir' = [dir EXCEPT ![n] = "state"]
    /\ pidOf' = [pidOf EXCEPT ![n] = p]
    /\ creating' = [creating EXCEPT ![n] = "done"]
    /\ UNCHANGED <<up, proc, seen, ending, lost, hit, faults>>

BugRunnerLeft(n, p) ==
    /\ up
    /\ creating[n] = "started"
    /\ proc[p] = n
    /\ Fault
    /\ dir' = [dir EXCEPT ![n] = "none"]
    /\ creating' = [creating EXCEPT ![n] = "done"]
    /\ UNCHANGED <<up, proc, pidOf, seen, ending, lost, hit>>

WriteStateFails(n, p) ==
    /\ up
    /\ creating[n] = "started"
    /\ proc[p] = n
    /\ Fault
    /\ Killed(n, p)
    /\ Undo(n)
    /\ creating' = [creating EXCEPT ![n] = "done"]
    /\ UNCHANGED <<up, pidOf, seen, ending, hit>>

-----------------------------------------------------------------------------
(* processMatches: what ps says of a pid is asked once per pid and         *)
(* directory.  A command line with run.sh or Runner.Listener in it passes, *)
(* whoever's it is, and a ps that fails is taken for a yes.                *)
PsSays(p) == (IF proc[p] \in Names \cup {Alike} THEN {"ours"} ELSE {"alien"})
             \cup (IF PsFails THEN {"ours"} ELSE {})

BugNotAsked(p, n) == {"ours"}

BugAskedPerPid(p, n) == LET said == {seen[k][p] : k \in Names} \ {"unasked"}
                        IN  IF said = {} THEN PsSays(p) ELSE said

Matches(p, n) == IF seen[n][p] = "unasked" THEN PsSays(p) ELSE {seen[n][p]}

Listens(n) == dir[n] = "state" /\ proc[pidOf[n]] # Free

(* List leaves nothing behind but the answers of ps *)
List(n) ==
    /\ up
    /\ Listens(n)
    /\ \E v \in Matches(pidOf[n], n) : seen' = [seen EXCEPT ![n][pidOf[n]] = v]
    /\ UNCHANGED <<up, proc, dir, pidOf, creating, ending, lost, hit, faults>>

(* Destroy: a process that is alive and passes for ours gets a SIGTERM *)
Destroy(n) ==
    /\ up /\ ~Creating /\ ~Destroying
    /\ dir[n] # "none"
    /\ \/ /\ ~Listens(n)
          /\ ending' = [ending EXCEPT ![n] = "gone"]
          /\ UNCHANGED <<seen, hit>>
       \/ /\ Listens(n)
          /\ \E v \in Matches(pidOf[n], n) :
                /\ seen' = [seen EXCEPT ![n][pidOf[n]] = v]
                /\ ending' = [ending EXCEPT ![n] = IF v = "ours" THEN "signalled" ELSE "gone"]
                /\ hit' = IF v = "ours" THEN hit \cup ({proc[pidOf[n]]} \ {n}) ELSE hit
    /\ UNCHANGED <<up, proc, dir, pidOf, creating, lost, faults>>

(* a state file that cannot be read says nothing of the runner: the        *)
(* directory goes without a signal                                         *)
DestroyUnread(n) ==
    /\ up /\ ~Creating /\ ~Destroying
    /\ dir[n] = "state"
    /\ Fault
    /\ ending' = [ending EXCEPT ![n] = "gone"]
    /\ lost' = lost \cup {n}
    /\ UNCHANGED <<up, proc, dir, pidOf, seen, creating, hit>>

BugUnknownIsSpared(n) == dir[n] = "state" /\ (~Listens(n) \/ "alien" \in Matches(pidOf[n], n))

(* Prune destroys what List calls neither running nor starting *)
Finished(n) == \/ dir[n] = "bare"
               \/ dir[n] = "state" /\ (~Listens(n) \/ "alien" \in Matches(pidOf[n], n))

Prune(n) == Finished(n) /\ Destroy(n)

(* the process is gone in time, or gets a SIGKILL, and may outlive both *)
WaitOver(n) ==
    /\ up
    /\ ending[n] = "signalled"
    /\ Killed(n, pidOf[n])
    /\ Fault \/ (proc'[pidOf[n]] = Free /\ UNCHANGED faults)
    /\ hit' = hit \cup ({proc[pidOf[n]]} \ {n, Free})
    /\ ending' = [ending EXCEPT ![n] = "gone"]
    /\ UNCHANGED <<up, dir, pidOf, seen, creating>>

RemoveDir(n) ==
    /\ up
    /\ ending[n] = "gone"
    /\ dir' = [dir EXCEPT ![n] = "none"]
    /\ pidOf' = Gone(n)
    /\ ending' = [ending EXCEPT ![n] = "no"]
    /\ UNCHANGED <<up, proc, seen, creating, lost, hit, faults>>

(* RemoveAll stops half way, before or after the state file *)
RemoveDirFails(n) ==
    /\ up
    /\ ending[n] = "gone"
    /\ Fault
    /\ \/ UNCHANGED <<dir, pidOf>>
       \/ dir' = [dir EXCEPT ![n] = "bare"] /\ pidOf' = Gone(n)
    /\ ending' = [ending EXCEPT ![n] = "no"]
    /\ UNCHANGED <<up, proc, seen, creating, lost, hit>>

-----------------------------------------------------------------------------
RunnerExits(p) ==
    /\ proc[p] \in Names
    /\ creating[proc[p]] # "started"
    /\ proc' = [proc EXCEPT ![p] = Free]
    /\ UNCHANGED <<up, dir, pidOf, seen, creating, ending, lost, hit, faults>>

OtherStarts(p) ==
    /\ Available(p)
    /\ \E o \in {Other, Alike} : proc' = [proc EXCEPT ![p] = o]
    /\ UNCHANGED <<up, dir, pidOf, seen, creating, ending, lost, hit, faults>>

OtherEnds(p) ==
    /\ proc[p] \in {Other, Alike}
    /\ proc' = [proc EXCEPT ![p] = Free]
    /\ UNCHANGED <<up, dir, pidOf, seen, creating, ending, lost, hit, faults>>

(* runners outlive arc: they are in process groups of their own *)
Crash ==
    /\ up
    /\ Fault
    /\ up' = FALSE
    /\ seen' = Unasked
    /\ lost' = lost \cup {n \in Names : creating[n] = "started"}
    /\ creating' = [n \in Names |-> IF creating[n] = "fresh" THEN "fresh" ELSE "done"]
    /\ ending' = [n \in Names |-> "no"]
    /\ UNCHANGED <<proc, dir, pidOf, hit>>

Restart ==
    /\ ~up
    /\ up' = TRUE
    /\ UNCHANGED <<proc, dir, pidOf, seen, creating, ending, lost, hit, faults>>

Create(n) == \/ Clone(n) \/ CloneFails(n) \/ StartFails(n)
             \/ \E p \in Pids : Start(n, p) \/ WriteState(n, p) \/ WriteStateFails(n, p)

AnyDestroy(n) == Destroy(n) \/ DestroyUnread(n)
EndDestroy(n) == WaitOver(n) \/ RemoveDir(n) \/ RemoveDirFails(n)

Next == \/ Crash \/ Restart
        \/ \E n \in Names : Create(n) \/ List(n) \/ AnyDestroy(n) \/ EndDestroy(n)
        \/ \E p \in Pids : RunnerExits(p) \/ OtherStarts(p) \/ OtherEnds(p)

Spec == Init /\ [][Next]_vars

(* The service manager restarts arc.  Calls return.  The loop prunes every *)
(* few passes, between creates.                                            *)
Fairness ==
    /\ WF_vars(Restart)
    /\ \A n \in Names :
          /\ WF_vars(creating[n] \in {"cloned", "started"} /\ Create(n))
          /\ WF_vars(EndDestroy(n))
          /\ SF_vars(Prune(n))

FairSpec == Spec /\ Fairness

-----------------------------------------------------------------------------
(* A comment of List promises more than the code keeps: "Treat the         *)
(* instance as finished and never signal that pid" (process.go:348).       *)
SignalsOnlyItsOwn == hit = {}

(* arc never signals a process it can tell from a runner, nor a runner of  *)
(* its own for another's instance: where the pid in a state file went to a *)
(* stranger while arc was down, only one that looks like a runner is taken *)
(* for the instance's and signalled.                                       *)
SignalsOnlyRunners == hit \subseteq {Alike}

(* Every runner that is running can be found: a state file names its pid,  *)
(* unless it is being created, arc died before the file was written, a     *)
(* Destroy could not read it, or the process outlived a SIGKILL.  So no    *)
(* failing create and no other Destroy leaves a runner behind unseen.      *)
NoRunnerUnseen ==
    \A p \in Pids : proc[p] \in Names =>
        LET n == proc[p]
        IN  \/ creating[n] = "started"
            \/ n \in lost
            \/ dir[n] = "state" /\ pidOf[n] = p

(* What List calls the instance: a directory without a state file is       *)
(* unknown to it, the debris of a create or of a removal.                  *)
Listing(n) ==
    CASE dir[n] = "none"  -> IF creating[n] = "fresh" THEN "new" ELSE "gone"
      [] dir[n] = "bare"  -> IF creating[n] = "done" THEN "debris" ELSE "starting"
      [] dir[n] = "state" -> IF Listens(n) /\ "ours" \in Matches(pidOf[n], n)
                             THEN "running" ELSE "exited"

(* the pid of the instance went to a process that looks like a runner *)
Mistaken(n) == dir[n] = "state" /\ proc[pidOf[n]] = Alike

(* The life of an instance goes one way: above all, no stranger that got   *)
(* the pid of a runner that has ended brings it back to life, but one that *)
(* looks like a runner.                                                    *)
ProcessLife == INSTANCE Instances WITH life     <- [n \in Names |-> Listing(n)],
                                       mistaken <- {n \in Names : Mistaken(n)}

(* what a create or a crash left on disk *)
Debris(n) == dir[n] # "none" /\ creating[n] = "done" /\ ~Alive(n)

(* Prune judges a runner by a pid and by what ps once said of it.  Where   *)
(* the state files can be read it finds every instance whose runner has    *)
(* ended, unless a look-alike has the pid now, and takes none for finished *)
(* whose runner is up, but one that arc lost before.                       *)
PruneKnowsTheDead ==
    \A n \in Names :
        /\ Debris(n) => Finished(n) \/ Mistaken(n)
        /\ Finished(n) /\ creating[n] = "done" /\ Alive(n) => n \in lost
=============================================================================
