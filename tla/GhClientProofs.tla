---------------------------- MODULE GhClientProofs ---------------------------
(***************************************************************************)
(* What the GitHub client keeps, for any workers, retries, rotations and   *)
(* failures: one vault read per refusal, no stale body, no POST repeated   *)
(* without a doubt, no cache that could not bring arc up.                  *)
(***************************************************************************)
EXTENDS GhClient, TLAPS

Requests == [at : Stages, kind : Kinds, attempt : 0..MaxRetries, token : Tokens \cup {0},
             tag : {NoTag} \cup Versions, body : {NoTag} \cup Versions,
             seen : {NoTag} \cup Versions]
Entries  == [tag : {NoTag} \cup Versions, body : {NoTag} \cup Versions]
Counts   == [effects : Nat, doubts : Nat]

(* What requests become.                                                   *)
LEMMA Fresh ==
    \A k \in Kinds : NewRequest(k) \in Requests /\ Idle \in Requests
                     /\ NewRequest(k).at = "ready" /\ NewRequest(k).kind = k /\ Idle.at = "idle"
BY RetriesAreNat, CredentialConstants DEF NewRequest, Idle, Requests, Stages, Kinds, NoTag, Versions, Tokens

LEMMA Ended ==
    \A r \in Requests :
        /\ Failed(r) \in Requests /\ Failed(r).at = "error" /\ Failed(r).kind = r.kind
        /\ Again(r) \in Requests /\ Again(r).at \in {"ready", "error"} /\ Again(r).kind = r.kind
BY RetriesAreNat, CredentialConstants
   DEF Failed, Again, NewRequest, Requests, Stages, Kinds, NoTag, Versions, Tokens

LEMMA Successes ==
    version \in Versions =>
        \A r \in Requests :
            /\ Succeeded(r) \in Requests /\ Succeeded(r).at = "ok" /\ Succeeded(r).kind = r.kind
            /\ Succeeded(r).body = version /\ Succeeded(r).seen = version
<1> SUFFICES ASSUME version \in Versions, NEW r \in Requests
             PROVE  /\ Succeeded(r) \in Requests /\ Succeeded(r).at = "ok"
                    /\ Succeeded(r).kind = r.kind
                    /\ Succeeded(r).body = version /\ Succeeded(r).seen = version
  OBVIOUS
<1>1. NewRequest(r.kind) \in Requests /\ NewRequest(r.kind).kind = r.kind
  BY Fresh DEF Requests
<1> QED
  BY <1>1 DEF Succeeded, Requests, Stages

-----------------------------------------------------------------------------
(* The credential: a running arc has one that was verified; a vault read   *)
(* that nobody is making any more has started a cooldown or been counted   *)
(* off.                                                                    *)
CredInv ==
    /\ boot # "down" => item \in Items
    /\ boot = "up" => item.type # ""
    /\ cache # NoItem => cache.type # ""
    /\ reads \in {0, 1}
    /\ boot = "up" => reads = 0 \/ cooling = TRUE \/ lock # Nobody

(* One worker: its request, the entry of the resource it polls, and what   *)
(* its POST has done so far.                                               *)
WorkerOK(r, e, d) ==
    /\ r \in Requests /\ e \in Entries /\ d \in Counts
    /\ e.tag = e.body
    /\ r.at = "sent" /\ r.kind = "get" => r.tag = e.tag
    /\ r.at = "ok" => r.body = r.seen
    /\ d.effects <= d.doubts + 1
    /\ r.at \notin {"ok", "error"} => d.effects <= d.doubts
    /\ r.at = "ok" /\ r.kind = "post" => d.effects >= 1

WorkerInv ==
    \A w \in Workers : /\ WorkerOK(req[w], etag[w], done[w])
                       /\ req[w].at # "idle" => boot = "up"

Inv == TypeOK /\ CredInv /\ WorkerInv

(* A step of one worker, given what it makes of its three records.         *)
LEMMA OneWorker ==
    ASSUME Inv, NEW w \in Workers, NEW r \in Requests, NEW e \in Entries, NEW d \in Counts,
           req' = [req EXCEPT ![w] = r], etag' = [etag EXCEPT ![w] = e],
           done' = [done EXCEPT ![w] = d],
           WorkerOK(r, e, d), r.at # "idle" => boot = "up", boot' = boot,
           UNCHANGED version, CredTypeOK', CredInv',
           \A v \in Workers : (lock' = v) = (IF v = w THEN r.at = "reading" ELSE lock = v)
    PROVE  Inv'
<1>1. /\ req \in [Workers -> Requests] /\ etag \in [Workers -> Entries] /\ done \in [Workers -> Counts]
      /\ \A v \in Workers : (lock = v) = (req[v].at = "reading")
  BY DEF Inv, TypeOK, GhTypeOK, Requests, Entries, Counts
<1>2. /\ req' \in [Workers -> Requests] /\ etag' \in [Workers -> Entries] /\ done' \in [Workers -> Counts]
  BY <1>1
<1>3. \A v \in Workers : /\ req'[v] = IF v = w THEN r ELSE req[v]
                         /\ etag'[v] = IF v = w THEN e ELSE etag[v]
                         /\ done'[v] = IF v = w THEN d ELSE done[v]
  BY <1>1
<1>4. \A v \in Workers : (lock' = v) = (req'[v].at = "reading")
  BY <1>1, <1>3
<1>5. version' \in Versions
  BY DEF Inv, TypeOK, GhTypeOK
<1>6. GhTypeOK'
  BY <1>2, <1>4, <1>5 DEF GhTypeOK, Requests, Entries, Counts
<1>7. WorkerInv'
  BY <1>3 DEF Inv, WorkerInv
<1> QED
  BY <1>6, <1>7 DEF Inv, TypeOK

LEMMA InitInv == Init => Inv
<1> SUFFICES ASSUME Init PROVE Inv
  OBVIOUS
<1>0. cached \in BOOLEAN /\ cooling \in BOOLEAN
  BY DEF Init, CredInit
<1>1. CredTypeOK /\ CredInv
  <2>1. /\ vault \in Tokens /\ valid \subseteq Tokens /\ faults \in 0..MaxFaults
    BY CredentialConstants DEF Init, CredInit, Tokens
  <2>2. CredTypeOK
    BY <1>0, <2>1 DEF Init, CredInit, CredTypeOK, BootStates
  <2>3. CredInv
    BY DEF Init, CredInit, CredInv
  <2> QED
    BY <2>2, <2>3
<1>2. NoEntry \in Entries /\ NoEffects \in Counts /\ Idle \in Requests /\ Idle.at = "idle"
  BY Fresh DEF NoEntry, Entries, NoEffects, Counts, Kinds
<1>3. WorkerOK(Idle, NoEntry, NoEffects)
  BY <1>2 DEF WorkerOK, NoEntry, NoEffects
<1>4. WorkerInv
  BY <1>2, <1>3 DEF Init, WorkerInv
<1>5. GhTypeOK
  BY <1>2, RetriesAreNat, CredentialConstants
     DEF Init, CredInit, GhTypeOK, Versions, Requests, Entries, Counts
<1> QED
  BY <1>1, <1>4, <1>5 DEF Inv, TypeOK

(* The credential under the steps that leave it alone, or only fail.       *)
LEMMA CredKept ==
    Inv /\ UNCHANGED <<environment, cache, boot, item, cached, cooling, lock, reads>>
        /\ (Fail(1) \/ faults' = faults) => CredTypeOK' /\ CredInv'
<1> SUFFICES ASSUME Inv, UNCHANGED <<environment, cache, boot, item, cached, cooling, lock, reads>>,
                    Fail(1) \/ faults' = faults
             PROVE  CredTypeOK' /\ CredInv'
  OBVIOUS
<1>1. CredTypeOK /\ CredInv
  BY DEF Inv, TypeOK
<1>2. faults' \in 0..MaxFaults
  BY <1>1, CredentialConstants DEF CredTypeOK, Fail
<1> QED
  BY <1>1, <1>2 DEF CredTypeOK, CredInv, environment

LEMMA Records ==
    Inv => \A w \in Workers :
        /\ req[w] \in Requests /\ etag[w] \in Entries /\ done[w] \in Counts
        /\ etag = [etag EXCEPT ![w] = etag[w]] /\ done = [done EXCEPT ![w] = done[w]]
        /\ WorkerOK(req[w], etag[w], done[w]) /\ version \in Versions
        /\ (lock = w) = (req[w].at = "reading") /\ Nobody # w
BY CredentialConstants DEF Inv, TypeOK, GhTypeOK, WorkerInv, WorkerOK, Requests, Entries, Counts

(* A step of one worker that changes its request and nothing else of it.   *)
LEMMA OneRequest ==
    ASSUME Inv, NEW w \in Workers, NEW r \in Requests,
           req' = [req EXCEPT ![w] = r], UNCHANGED <<boot, version, etag, done>>,
           WorkerOK(r, etag[w], done[w]), r.at # "idle" => boot = "up",
           CredTypeOK', CredInv',
           \A v \in Workers : (lock' = v) = (IF v = w THEN r.at = "reading" ELSE lock = v)
    PROVE  Inv'
<1>1. /\ etag[w] \in Entries /\ done[w] \in Counts
      /\ etag' = [etag EXCEPT ![w] = etag[w]] /\ done' = [done EXCEPT ![w] = done[w]]
  BY Records
<1> QED
  BY <1>1, OneWorker

LEMMA SendOK == ASSUME Inv, NEW w \in Workers, Send(w) PROVE Inv'
<1> DEFINE r == [req[w] EXCEPT !.at = "sent", !.token = item.token,
                               !.tag = IF req[w].kind = "get" THEN etag[w].tag ELSE NoTag]
<1>0. /\ req[w] \in Requests /\ etag[w] \in Entries /\ WorkerOK(req[w], etag[w], done[w])
      /\ (lock = w) = (req[w].at = "reading") /\ req[w].at = "ready" /\ boot = "up"
  BY Records DEF Send, Inv, WorkerInv
<1>1. item.token \in Tokens
  BY <1>0 DEF Inv, CredInv, Items
<1>2. r \in Requests /\ r.at = "sent" /\ r.kind = req[w].kind
      /\ (r.kind = "get" => r.tag = etag[w].tag)
  BY <1>0, <1>1 DEF Requests, Entries, Stages
<1>3. req' = [req EXCEPT ![w] = r]
  BY DEF Send
<1>4. WorkerOK(r, etag[w], done[w])
  BY <1>0, <1>2 DEF WorkerOK
<1>5. CredTypeOK' /\ CredInv' /\ UNCHANGED <<lock, boot, version, etag, done>>
  BY CredKept DEF Send, credVars, environment
<1> HIDE DEF r
<1> QED
  BY <1>0, <1>2, <1>3, <1>4, <1>5, OneRequest

LEMMA RequestOK == ASSUME Inv, NEW w \in Workers, NEW k \in Kinds, Request(w, k) PROVE Inv'
<1>0. /\ WorkerOK(req[w], etag[w], done[w]) /\ (lock = w) = (req[w].at = "reading")
      /\ req[w].at = "idle" /\ boot = "up"
  BY Records DEF Request
<1>2. NewRequest(k) \in Requests /\ NewRequest(k).at = "ready"
  BY Fresh
<1>3. req' = [req EXCEPT ![w] = NewRequest(k)]
  BY DEF Request
<1>4. WorkerOK(NewRequest(k), etag[w], done[w])
  BY <1>0, <1>2 DEF WorkerOK
<1>5. CredTypeOK' /\ CredInv' /\ UNCHANGED <<lock, boot, version, etag, done>>
  BY CredKept DEF Request, credVars, environment
<1> QED
  BY <1>0, <1>2, <1>3, <1>4, <1>5, OneRequest

(* Whatever ends a request without an effect, or has it try again.         *)
LEMMA GoesOn ==
    ASSUME Inv, NEW w \in Workers, NEW r \in {Failed(req[w]), Again(req[w])},
           req[w].at \notin {"idle", "ok", "error"}, req' = [req EXCEPT ![w] = r],
           UNCHANGED <<boot, version, etag, done>>, CredTypeOK', CredInv',
           lock' = IF req[w].at = "reading" THEN Nobody ELSE lock
    PROVE  Inv'
<1>0. /\ req[w] \in Requests /\ WorkerOK(req[w], etag[w], done[w])
      /\ (lock = w) = (req[w].at = "reading") /\ boot = "up"
  BY Records DEF Inv, WorkerInv
<1>1. r \in Requests /\ r.at \in {"ready", "error"}
  BY <1>0, Ended
<1>2. WorkerOK(r, etag[w], done[w])
  BY <1>0, <1>1 DEF WorkerOK
<1>3. \A v \in Workers : (lock' = v) = (IF v = w THEN r.at = "reading" ELSE lock = v)
  BY <1>0, <1>1, CredentialConstants
<1> QED
  BY <1>0, <1>1, <1>2, <1>3, OneRequest

LEMMA FailuresOK ==
    ASSUME Inv, NEW w \in Workers, Limited(w) \/ Rejected(w) \/ RefreshUnneeded(w) \/ RefreshCooling(w)
    PROVE  Inv'
<1>1. CredTypeOK' /\ CredInv' /\ UNCHANGED <<lock, boot, version, etag, done>>
  BY CredKept DEF Limited, Rejected, RefreshUnneeded, RefreshCooling, credVars, environment
<1>2. PICK r \in {Failed(req[w]), Again(req[w])} : req' = [req EXCEPT ![w] = r]
  BY DEF Limited, Rejected, RefreshUnneeded, RefreshCooling
<1>3. req[w].at \in {"sent", "refused"}
  BY DEF Limited, Rejected, RefreshUnneeded, RefreshCooling
<1> QED
  BY <1>1, <1>2, <1>3, GoesOn

LEMMA UnauthorizedOK == ASSUME Inv, NEW w \in Workers, Unauthorized(w) PROVE Inv'
<1>1. CredTypeOK' /\ CredInv' /\ UNCHANGED <<lock, boot, version, etag, done>> /\ req[w].at = "sent"
  BY CredKept DEF Unauthorized, credVars, environment
<1>2. CASE req[w].attempt < MaxRetries
  <2> DEFINE r == [req[w] EXCEPT !.at = "refused"]
  <2>0. /\ req[w] \in Requests /\ WorkerOK(req[w], etag[w], done[w])
        /\ (lock = w) = (req[w].at = "reading") /\ boot = "up"
    BY <1>1, Records DEF Inv, WorkerInv
  <2>1. r \in Requests /\ r.at = "refused" /\ req' = [req EXCEPT ![w] = r]
    BY <1>2, <2>0 DEF Unauthorized, Requests, Stages
  <2>2. WorkerOK(r, etag[w], done[w])
    BY <1>1, <2>0, <2>1 DEF WorkerOK
  <2> HIDE DEF r
  <2> QED
    BY <1>1, <2>0, <2>1, <2>2, OneRequest
<1>3. CASE ~(req[w].attempt < MaxRetries)
  <2>1. req' = [req EXCEPT ![w] = Failed(req[w])]
    BY <1>3 DEF Unauthorized
  <2> QED
    BY <1>1, <2>1, GoesOn
<1> QED
  BY <1>2, <1>3

(* A POST that takes effect n times and leaves so many doubts.             *)
LEMMA Counted ==
    ASSUME Inv, NEW w \in Workers, NEW n \in {0, 1}, NEW doubt \in {0, 1}, Effect(w, n, doubt)
    PROVE  done' = [done EXCEPT ![w] =
              [effects |-> done[w].effects + (IF req[w].kind = "post" THEN n ELSE 0),
               doubts  |-> done[w].doubts + doubt]]
BY DEF Effect

(* The lock is not the worker's, and stays as it is.                       *)
LEMMA LockKept ==
    Inv => \A w \in Workers : lock # w /\ lock' = lock =>
        \A r \in Requests : r.at # "reading" =>
            \A v \in Workers : (lock' = v) = (IF v = w THEN r.at = "reading" ELSE lock = v)
OBVIOUS

LEMMA NoAnswerOK == ASSUME Inv, NEW w \in Workers, NoAnswer(w) PROVE Inv'
<1> DEFINE r == Again(req[w])
<1>0. /\ req[w] \in Requests /\ etag[w] \in Entries /\ done[w] \in Counts
      /\ WorkerOK(req[w], etag[w], done[w]) /\ etag = [etag EXCEPT ![w] = etag[w]]
      /\ (lock = w) = (req[w].at = "reading") /\ req[w].at = "sent" /\ boot = "up"
  BY Records DEF NoAnswer, Inv, WorkerInv
<1>1. r \in Requests /\ r.at \in {"ready", "error"} /\ req' = [req EXCEPT ![w] = r]
  BY <1>0, Ended DEF NoAnswer
<1>2. PICK n \in {0, 1} : Effect(w, n, 1)
  BY DEF NoAnswer
<1> DEFINE d == [effects |-> done[w].effects + (IF req[w].kind = "post" THEN n ELSE 0),
                 doubts  |-> done[w].doubts + 1]
<1>3. d \in Counts /\ d.effects <= d.doubts
  BY <1>0 DEF WorkerOK, Counts
<1>4. done' = [done EXCEPT ![w] = d]
  BY <1>2, Counted
<1>5. WorkerOK(r, etag[w], d)
  BY <1>0, <1>1, <1>3 DEF WorkerOK, Counts
<1>6. CredTypeOK' /\ CredInv' /\ UNCHANGED <<lock, boot, version, etag>>
  BY CredKept DEF NoAnswer, environment
<1>7. \A v \in Workers : (lock' = v) = (IF v = w THEN r.at = "reading" ELSE lock = v)
  BY <1>0, <1>1, <1>6
<1>8. etag' = [etag EXCEPT ![w] = etag[w]]
  BY <1>0, <1>6
<1> HIDE DEF r, d
<1> QED
  BY <1>0, <1>1, <1>3, <1>4, <1>5, <1>6, <1>7, <1>8, OneWorker

LEMMA CancelOK == ASSUME Inv, NEW w \in Workers, Cancel(w) PROVE Inv'
<1> DEFINE r == Failed(req[w])
           n == IF req[w].at = "sent" THEN 1 ELSE 0
           d == [effects |-> done[w].effects, doubts |-> done[w].doubts + n]
<1>0. /\ req[w] \in Requests /\ etag[w] \in Entries /\ done[w] \in Counts
      /\ WorkerOK(req[w], etag[w], done[w]) /\ etag = [etag EXCEPT ![w] = etag[w]]
      /\ (lock = w) = (req[w].at = "reading") /\ req[w].at \in {"ready", "sent"} /\ boot = "up"
  BY Records DEF Cancel, Inv, WorkerInv
<1>1. r \in Requests /\ r.at = "error" /\ req' = [req EXCEPT ![w] = r]
  BY <1>0, Ended DEF Cancel
<1>3. d \in Counts /\ d.effects <= d.doubts + 1
  BY <1>0 DEF WorkerOK, Counts
<1>4. done' = [done EXCEPT ![w] = d]
  <2>1. Effect(w, 0, n) /\ n \in {0, 1}
    BY DEF Cancel
  <2>2. done' = [done EXCEPT ![w] =
           [effects |-> done[w].effects + (IF req[w].kind = "post" THEN 0 ELSE 0),
            doubts  |-> done[w].doubts + n]]
    BY <2>1, Counted
  <2>3. done[w].effects + (IF req[w].kind = "post" THEN 0 ELSE 0) = done[w].effects
    BY <1>0 DEF Counts
  <2> QED
    BY <2>2, <2>3
<1>5. WorkerOK(r, etag[w], d)
  BY <1>0, <1>1, <1>3 DEF WorkerOK, Counts
<1>6. CredTypeOK' /\ CredInv' /\ UNCHANGED <<lock, boot, version, etag>>
  BY CredKept DEF Cancel, environment
<1> HIDE DEF r, d
<1>7. \A v \in Workers : (lock' = v) = (IF v = w THEN r.at = "reading" ELSE lock = v)
  BY <1>0, <1>1, <1>6, LockKept
<1> QED
  BY <1>7, <1>0, <1>1, <1>3, <1>4, <1>5, <1>6, OneWorker

LEMMA SuccessOK == ASSUME Inv, NEW w \in Workers, Success(w) PROVE Inv'
<1> DEFINE r == Succeeded(req[w])
           e == IF req[w].kind = "get" THEN Entry(version) ELSE etag[w]
           n == IF req[w].kind = "post" THEN 1 ELSE 0
           d == [effects |-> done[w].effects + n, doubts |-> done[w].doubts]
<1>0. /\ req[w] \in Requests /\ etag[w] \in Entries /\ done[w] \in Counts
      /\ WorkerOK(req[w], etag[w], done[w]) /\ etag = [etag EXCEPT ![w] = etag[w]]
      /\ version \in Versions
      /\ (lock = w) = (req[w].at = "reading") /\ req[w].at = "sent" /\ boot = "up"
  BY Records DEF Success, Answered, Inv, WorkerInv
<1>1. /\ r \in Requests /\ r.at = "ok" /\ r.kind = req[w].kind /\ r.body = r.seen
      /\ req' = [req EXCEPT ![w] = r]
  BY <1>0, Successes DEF Success, Answered
<1>2. e \in Entries /\ e.tag = e.body /\ etag' = [etag EXCEPT ![w] = e]
  BY <1>0 DEF Success, Entry, Entries, WorkerOK
<1>3. d \in Counts /\ d.effects <= d.doubts + 1 /\ (req[w].kind = "post" => d.effects >= 1)
  BY <1>0 DEF WorkerOK, Counts
<1>4. done' = [done EXCEPT ![w] = d]
  <2>1. Effect(w, 1, 0)
    BY DEF Success, Answered
  <2>2. done' = [done EXCEPT ![w] =
           [effects |-> done[w].effects + n, doubts |-> done[w].doubts + 0]]
    BY <2>1, Counted
  <2>3. done[w].doubts + 0 = done[w].doubts
    BY <1>0 DEF Counts
  <2> QED
    BY <2>2, <2>3
<1>5. WorkerOK(r, e, d)
  BY <1>1, <1>2, <1>3 DEF WorkerOK
<1>6. CredTypeOK' /\ CredInv' /\ UNCHANGED <<lock, boot, version>>
  BY CredKept DEF Success, Answered, credVars, environment
<1> HIDE DEF r, e, d, n
<1>7. \A v \in Workers : (lock' = v) = (IF v = w THEN r.at = "reading" ELSE lock = v)
  BY <1>0, <1>1, <1>6, LockKept
<1> QED
  BY <1>7, <1>0, <1>1, <1>2, <1>3, <1>4, <1>5, <1>6, OneWorker

LEMMA NotModifiedOK == ASSUME Inv, NEW w \in Workers, NotModified(w) PROVE Inv'
<1>0. /\ req[w] \in Requests /\ etag[w] \in Entries /\ WorkerOK(req[w], etag[w], done[w])
      /\ version \in Versions
      /\ (lock = w) = (req[w].at = "reading") /\ req[w].at = "sent" /\ boot = "up"
  BY Records DEF NotModified, Inv, WorkerInv
<1>1. etag[w].body = version
  BY <1>0 DEF NotModified, WorkerOK
<1>2. etag[w] # NoEntry
  BY <1>0, <1>1, RetriesAreNat DEF NoEntry, NoTag, Versions
<1> DEFINE r == [Succeeded(req[w]) EXCEPT !.body = etag[w].body]
<1>3. /\ r \in Requests /\ r.at = "ok" /\ r.kind = req[w].kind /\ r.body = r.seen
  BY <1>0, <1>1, Successes DEF Requests
<1>4. req' = [req EXCEPT ![w] = r]
  BY <1>2 DEF NotModified
<1>5. WorkerOK(r, etag[w], done[w])
  BY <1>0, <1>3 DEF WorkerOK, NotModified
<1>6. CredTypeOK' /\ CredInv' /\ UNCHANGED <<lock, boot, version, etag, done>>
  BY CredKept DEF NotModified, credVars, environment
<1> HIDE DEF r
<1> QED
  BY <1>0, <1>3, <1>4, <1>5, <1>6, OneRequest

LEMMA FinishOK == ASSUME Inv, NEW w \in Workers, Finish(w) PROVE Inv'
<1>0. /\ etag[w] \in Entries /\ WorkerOK(req[w], etag[w], done[w]) /\ etag = [etag EXCEPT ![w] = etag[w]]
      /\ (lock = w) = (req[w].at = "reading") /\ req[w].at \in {"ok", "error"}
  BY Records DEF Finish
<1>1. Idle \in Requests /\ Idle.at = "idle" /\ NoEffects \in Counts
  BY Fresh DEF NoEffects, Counts, Kinds
<1>2. WorkerOK(Idle, etag[w], NoEffects)
  BY <1>0, <1>1 DEF WorkerOK, NoEffects
<1>3. CredTypeOK' /\ CredInv' /\ UNCHANGED <<lock, boot, version, etag>>
  BY CredKept DEF Finish, credVars, environment
<1>4. req' = [req EXCEPT ![w] = Idle] /\ done' = [done EXCEPT ![w] = NoEffects]
  BY DEF Finish
<1>5. \A v \in Workers : (lock' = v) = (IF v = w THEN Idle.at = "reading" ELSE lock = v)
  BY <1>0, <1>1, <1>3, LockKept
<1> QED
  BY <1>5, <1>0, <1>1, <1>2, <1>3, <1>4, OneWorker

LEMMA SweepOK == ASSUME Inv, NEW w \in Workers, Sweep(w) PROVE Inv'
<1>0. /\ req[w] \in Requests /\ done[w] \in Counts /\ WorkerOK(req[w], etag[w], done[w])
      /\ done = [done EXCEPT ![w] = done[w]] /\ (lock = w) = (req[w].at = "reading")
      /\ req[w].at = "idle"
  BY Records DEF Sweep
<1>1. NoEntry \in Entries /\ NoEntry.tag = NoEntry.body
  BY DEF NoEntry, Entries
<1>2. WorkerOK(req[w], NoEntry, done[w])
  BY <1>0, <1>1 DEF WorkerOK
<1>3. req = [req EXCEPT ![w] = req[w]]
  BY DEF Inv, TypeOK, GhTypeOK
<1>4. CredTypeOK' /\ CredInv' /\ UNCHANGED <<lock, boot, version>>
  BY CredKept DEF Sweep, credVars, environment
<1>5. etag' = [etag EXCEPT ![w] = NoEntry] /\ req' = req /\ done' = done
  BY DEF Sweep
<1>6. req' = [req EXCEPT ![w] = req[w]] /\ done' = [done EXCEPT ![w] = done[w]]
  BY <1>0, <1>3, <1>5
<1>7. \A v \in Workers : (lock' = v) = (IF v = w THEN req[w].at = "reading" ELSE lock = v)
  BY <1>0, <1>4
<1> QED
  BY <1>0, <1>1, <1>2, <1>4, <1>5, <1>6, <1>7, OneWorker

-----------------------------------------------------------------------------
(* The vault is read under the lock, and every read is answered for.       *)
LEMMA ReadVaultOK == ASSUME Inv, NEW w \in Workers, ReadVault(w) PROVE Inv'
<1> DEFINE r == [req[w] EXCEPT !.at = "reading"]
<1>0. /\ req[w] \in Requests /\ WorkerOK(req[w], etag[w], done[w]) /\ Nobody # w
      /\ req[w].at = "refused" /\ boot = "up" /\ CredTypeOK /\ CredInv
  BY Records DEF ReadVault, Inv, WorkerInv, TypeOK
<1>1. r \in Requests /\ r.at = "reading" /\ req' = [req EXCEPT ![w] = r]
  BY <1>0 DEF ReadVault, Requests, Stages
<1>2. WorkerOK(r, etag[w], done[w])
  BY <1>0, <1>1 DEF WorkerOK
<1>3. \A v \in Workers : (lock' = v) = (IF v = w THEN r.at = "reading" ELSE lock = v)
  BY <1>1, CredentialConstants DEF ReadVault
<1>4. reads = 0
  BY <1>0 DEF ReadVault, CredInv
<1>5. reads' = 1 /\ lock' = w
  BY <1>4 DEF ReadVault
<1>6. UNCHANGED <<vault, valid, cache, boot, item, cached, cooling, faults>>
  BY DEF ReadVault, environment
<1>7. CredTypeOK'
  BY <1>0, <1>5, <1>6 DEF CredTypeOK
<1>8. CredInv'
  BY <1>0, <1>1, <1>5, <1>6 DEF CredInv
<1>9. UNCHANGED <<boot, version, etag, done>>
  BY DEF ReadVault
<1> HIDE DEF r
<1> QED
  BY <1>0, <1>1, <1>2, <1>3, <1>7, <1>8, <1>9, OneRequest

LEMMA NothingNewOK == ASSUME Inv, NEW w \in Workers, NothingNew(w) PROVE Inv'
<1>0. CredTypeOK /\ CredInv /\ req[w].at = "reading" /\ lock' = Nobody
  BY DEF NothingNew, Inv, TypeOK
<1>1. faults' \in 0..MaxFaults
  BY <1>0, CredentialConstants DEF NothingNew, Fail, CredTypeOK
<1>2. /\ cooling' = TRUE /\ req' = [req EXCEPT ![w] = Failed(req[w])]
      /\ UNCHANGED <<vault, valid, cache, boot, item, cached, reads, version, etag, done>>
  BY DEF NothingNew, environment
<1>3. CredTypeOK'
  BY <1>0, <1>1, <1>2 DEF CredTypeOK
<1>4. CredInv'
  BY <1>0, <1>2 DEF CredInv
<1> QED
  BY <1>0, <1>2, <1>3, <1>4, GoesOn

LEMMA ReplaceOK == ASSUME Inv, NEW w \in Workers, Replace(w) PROVE Inv'
<1>0. CredTypeOK /\ CredInv /\ req[w].at = "reading" /\ lock' = Nobody /\ boot = "up"
  BY DEF Replace, Inv, TypeOK, WorkerInv
<1>1. faults' \in 0..MaxFaults
  BY <1>0, CredentialConstants DEF Replace, WriteCache, Fail, CredTypeOK
<1>2. item' \in Items /\ item'.type = item.type
  BY <1>0 DEF Replace, FromVault, Items, CredInv, CredTypeOK
<1>3. cache' \in {item', NoItem} /\ cooling' = FALSE /\ reads' = 0
  BY DEF Replace, WriteCache
<1>4. /\ req' = [req EXCEPT ![w] = Again(req[w])]
      /\ UNCHANGED <<vault, valid, boot, cached, version, etag, done>>
  BY DEF Replace, environment
<1>5. CredTypeOK'
  BY <1>0, <1>1, <1>2, <1>3, <1>4 DEF CredTypeOK
<1>6. CredInv'
  BY <1>0, <1>2, <1>3, <1>4 DEF CredInv
<1> QED
  BY <1>0, <1>4, <1>5, <1>6, GoesOn

LEMMA AttemptOK == ASSUME Inv, NEW w \in Workers, Attempt(w) PROVE Inv'
BY SendOK, NoAnswerOK, FailuresOK, SuccessOK, NotModifiedOK, UnauthorizedOK, CancelOK, FinishOK,
   ReadVaultOK, NothingNewOK, ReplaceOK DEF Attempt

-----------------------------------------------------------------------------
(* Steps that touch no worker.                                             *)
LEMMA NoWorker ==
    ASSUME Inv, CredTypeOK', CredInv', UNCHANGED <<lock, etag, req, done>>,
           version' \in Versions, boot = "up" => boot' = "up"
    PROVE  Inv'
BY DEF Inv, TypeOK, GhTypeOK, WorkerInv

LEMMA BootOK == ASSUME Inv, Boot PROVE Inv'
<1>0. CredTypeOK /\ CredInv /\ UNCHANGED <<version, etag, req, done>> /\ version' \in Versions
  BY DEF Boot, Inv, TypeOK, GhTypeOK
<1> USE CredentialConstants
<1>1. FromVault \in Items
  BY <1>0 DEF FromVault, Items, CredTypeOK
<1>2. ASSUME NEW n \in 0..1, Probing, ComeUp("User", n)
      PROVE  Inv'
  <2>1. item \in Items
    BY <1>0, <1>2 DEF CredInv, Probing
  <2>2. item' \in Items /\ item'.type # ""
    BY <1>2, <2>1 DEF ComeUp, Items
  <2>3. faults' \in 0..MaxFaults /\ cache' \in {item', NoItem}
    <3>1. WriteCache(item', n)
      BY <1>2 DEF ComeUp
    <3>0. n \in 0..1 /\ n + 1 \in 0..2
      BY <1>2
    <3>2. faults \in 0..MaxFaults
      BY <1>0 DEF CredTypeOK
    <3>3. ASSUME NEW k \in 0..2, Fail(k) PROVE faults' \in 0..MaxFaults
      BY <3>2, <3>3, CredentialConstants DEF Fail
    <3> QED
      BY <3>0, <3>1, <3>3 DEF WriteCache
  <2>4. /\ boot' = "up" /\ cooling' = FALSE /\ reads' = 0
        /\ UNCHANGED <<vault, valid, cached, lock>>
    BY <1>2 DEF ComeUp, environment
  <2>5. CredTypeOK'
    BY <1>0, <2>2, <2>3, <2>4 DEF CredTypeOK, BootStates
  <2>6. CredInv'
    BY <2>2, <2>3, <2>4 DEF CredInv
  <2> QED
    BY <1>0, <2>4, <2>5, <2>6, NoWorker
<1>3. ASSUME boot # "up", boot' \in {"down", "probing", "reprobing"}, faults' \in 0..MaxFaults,
             cached' \in BOOLEAN, item' \in Items \/ (item' = NoItem /\ boot' = "down"),
             UNCHANGED <<vault, valid, cache, cooling, lock, reads>>
      PROVE  Inv'
  <2>1. CredTypeOK'
    BY <1>0, <1>3 DEF CredTypeOK, BootStates
  <2>2. CredInv'
    BY <1>0, <1>3 DEF CredInv
  <2> QED
    BY <1>0, <1>3, <2>1, <2>2, NoWorker
<1>4. CASE StartFromCache \/ StartFromVault
  <2>1. item' \in Items
    BY <1>0, <1>1, <1>4 DEF StartFromCache, StartFromVault, CredTypeOK
  <2>2. cached' \in BOOLEAN
    BY <1>4 DEF StartFromCache, StartFromVault
  <2>3. /\ boot = "down" /\ boot' = "probing" /\ faults' \in 0..MaxFaults
        /\ UNCHANGED <<vault, valid, cache, cooling, lock, reads>>
    BY <1>0, <1>4 DEF StartFromCache, StartFromVault, environment, CredTypeOK
  <2> QED
    BY <1>3, <2>1, <2>2, <2>3
<1>5. CASE ProbeAccepted
  BY <1>2, <1>5 DEF ProbeAccepted
<1>6. ASSUME GiveUp, Probing, faults' \in 0..MaxFaults PROVE Inv'
  <2>1. cached' \in BOOLEAN
    BY <1>0, <1>6 DEF GiveUp, CredTypeOK
  <2> QED
    BY <1>3, <1>6, <2>1 DEF GiveUp, Probing, environment
<1>7. CASE ProbeRefused
  <2>1. faults' \in 0..MaxFaults
    BY <1>0, <1>7 DEF ProbeRefused, Fail, CredTypeOK
  <2>2. CASE GiveUp
    BY <1>6, <1>7, <2>1, <2>2 DEF ProbeRefused
  <2>3. CASE ~GiveUp
    <3>1. /\ boot' = "reprobing" /\ item' = FromVault /\ boot # "up"
          /\ UNCHANGED <<vault, valid, cache, cooling, lock, reads>>
      BY <1>7, <2>3 DEF ProbeRefused, Probing, environment
    <3>2. cached' \in BOOLEAN
      BY <1>7, <2>3 DEF ProbeRefused
    <3> QED
      BY <1>1, <1>3, <2>1, <3>1, <3>2
  <2> QED
    BY <2>2, <2>3
<1>8. CASE ProbeUnreachable
  <2>1. CASE item.type # "" /\ ComeUp(item.type, 1)
    <3>1. item.type = "User"
      BY <1>0, <2>1, <1>8 DEF ProbeUnreachable, Probing, CredInv, Items
    <3> QED
      BY <1>2, <1>8, <2>1, <3>1 DEF ProbeUnreachable
  <2>2. CASE GiveUp /\ Fail(1)
    <3>1. faults' \in 0..MaxFaults
      BY <1>0, <2>2 DEF Fail, CredTypeOK
    <3> QED
      BY <1>6, <1>8, <2>2, <3>1 DEF ProbeUnreachable
  <2> QED
    BY <1>8, <2>1, <2>2 DEF ProbeUnreachable
<1> QED
  BY <1>4, <1>5, <1>7, <1>8 DEF Boot

LEMMA CrashOK == ASSUME Inv, Crash PROVE Inv'
<1>0. CredTypeOK /\ CredInv /\ version' \in Versions
  BY DEF Crash, Inv, TypeOK, GhTypeOK
<1>1. faults' \in 0..MaxFaults
  BY <1>0, CredentialConstants DEF Crash, Die, Fail, CredTypeOK
<1>2. /\ boot' = "down" /\ item' = NoItem /\ lock' = Nobody
      /\ UNCHANGED <<vault, valid, cache, cached, cooling, reads>>
  BY DEF Crash, Die, environment
<1>3. CredTypeOK'
  BY <1>0, <1>1, <1>2 DEF CredTypeOK, BootStates
<1>4. CredInv'
  BY <1>0, <1>2 DEF CredInv
<1>5. /\ NoEntry \in Entries /\ NoEffects \in Counts /\ Idle \in Requests /\ Idle.at = "idle"
      /\ NoEntry.tag = NoEntry.body /\ NoEffects.effects <= NoEffects.doubts
      /\ NoEffects.effects <= NoEffects.doubts + 1
  BY Fresh DEF NoEntry, Entries, NoEffects, Counts, Kinds
<1>6. WorkerOK(Idle, NoEntry, NoEffects)
  BY <1>5 DEF WorkerOK
<1>7. WorkerInv'
  BY <1>5, <1>6 DEF Crash, WorkerInv
<1>8. GhTypeOK'
  BY <1>0, <1>2, <1>5, CredentialConstants DEF Crash, GhTypeOK, Requests, Entries, Counts
<1> QED
  BY <1>3, <1>4, <1>7, <1>8 DEF Inv, TypeOK

LEMMA WorldOK == ASSUME Inv, Environment \/ Change \/ CooldownEnds PROVE Inv'
<1>0. CredTypeOK /\ CredInv /\ version \in Versions
  BY DEF Inv, TypeOK, GhTypeOK
<1>1. CASE Environment
  <2>1. vault' \in Tokens /\ valid' \subseteq Tokens
    <3>0. vault \in Tokens /\ valid \subseteq Tokens
      BY <1>0 DEF CredTypeOK
    <3>1. CASE Rotate
      BY <3>0, <3>1, CredentialConstants DEF Rotate, Tokens
    <3>2. CASE Expire
      BY <3>0, <3>2 DEF Expire
    <3> QED
      BY <1>1, <3>1, <3>2 DEF Environment
  <2>2. /\ UNCHANGED <<cache, boot, item, cached, cooling, lock, reads, faults>>
        /\ UNCHANGED <<version, etag, req, done>>
    BY <1>1 DEF Environment, Rotate, Expire
  <2>3. CredTypeOK' /\ CredInv'
    BY <1>0, <2>1, <2>2 DEF CredTypeOK, CredInv
  <2> QED
    BY <1>0, <2>2, <2>3, NoWorker
<1>2. CASE Change
  <2>1. version' \in Versions /\ UNCHANGED <<credVars, etag, req, done>>
    BY <1>0, <1>2, RetriesAreNat DEF Change, Versions
  <2>2. CredTypeOK' /\ CredInv' /\ UNCHANGED <<lock, boot>>
    BY <2>1, CredKept DEF credVars, environment
  <2> QED
    BY <2>1, <2>2, NoWorker
<1>3. CASE CooldownEnds
  <2>1. CredTypeOK'
    BY <1>0, <1>3 DEF CooldownEnds, CredTypeOK, environment
  <2>2. CredInv'
    BY <1>0, <1>3 DEF CooldownEnds, CredInv
  <2> QED
    BY <1>0, <1>3, <2>1, <2>2, NoWorker DEF CooldownEnds
<1> QED
  BY <1>1, <1>2, <1>3

LEMMA StepInv == Inv /\ [Next]_vars => Inv'
<1> SUFFICES ASSUME Inv, [Next]_vars PROVE Inv'
  OBVIOUS
<1>1. CASE UNCHANGED vars
  <2>1. CredTypeOK' /\ CredInv'
    BY <1>1, CredKept DEF vars, credVars, environment
  <2>2. UNCHANGED <<lock, boot, version, etag, req, done>> /\ version \in Versions
    BY <1>1 DEF vars, credVars, Inv, TypeOK, GhTypeOK
  <2> QED
    BY <2>1, <2>2, NoWorker
<1> QED
  BY <1>1, AttemptOK, SweepOK, RequestOK, BootOK, CrashOK, WorldOK DEF Next

LEMMA AlwaysInv == Spec => []Inv
BY InitInv, StepInv, PTL DEF Spec

(* Every variable has its type in every behaviour.                         *)
THEOREM ClientTypeCorrect == Spec => []TypeOK
<1>1. Inv => TypeOK
  BY DEF Inv
<1> QED
  BY <1>1, AlwaysInv, PTL

(* However many workers are refused at once, the vault is read once.       *)
THEOREM StormReadsOnce == Spec => []OneReadPerRefusal
<1>1. Inv => OneReadPerRefusal
  <2>1. reads \in {0, 1} => reads <= 1
    OBVIOUS
  <2> QED
    BY <2>1 DEF Inv, CredInv, OneReadPerRefusal
<1> QED
  BY <1>1, AlwaysInv, PTL

(* Whatever is written to the cache can bring arc up without a network.    *)
THEOREM CacheStaysComplete == Spec => []CacheIsComplete
<1>1. Inv => CacheIsComplete
  BY DEF Inv, CredInv, CacheIsComplete
<1> QED
  BY <1>1, AlwaysInv, PTL

(* A conditional GET never returns a body that GitHub did not confirm.     *)
THEOREM BodiesAreConfirmed == Spec => []NeverStale
<1>1. Inv => NeverStale
  BY DEF Inv, WorkerInv, WorkerOK, NeverStale
<1> QED
  BY <1>1, AlwaysInv, PTL

(* A POST takes effect at most once more than its outcome was in doubt.    *)
THEOREM PostsRepeatInDoubt == Spec => []RepeatedOnlyInDoubt
<1>1. Inv => RepeatedOnlyInDoubt
  BY DEF Inv, WorkerInv, WorkerOK, RepeatedOnlyInDoubt
<1> QED
  BY <1>1, AlwaysInv, PTL

(* A step of another worker, or of none, leaves a refused request refused. *)
LEMMA RefusedWaits ==
    ASSUME Inv, NEW w \in Workers, NEW v \in Workers, req[w].at \in {"refused", "reading"},
           req'[w].at = "ready", Attempt(v) \/ Sweep(v) \/ \E k \in Kinds : Request(v, k)
    PROVE  v = w /\ (RefreshUnneeded(w) \/ Replace(w))
<1>0. req \in [Workers -> Requests] /\ req[v] \in Requests
  BY DEF Inv, TypeOK, GhTypeOK, Requests
<1>1. req'[w] # req[w]
  BY DEF Sweep
<1>2. \/ \E r : req' = [req EXCEPT ![v] = r]
      \/ req' = req \/ Send(v)
  BY DEF Attempt, Sweep, Request, NoAnswer, Limited, Success, Answered, NotModified, Rejected,
         Unauthorized, Cancel, Finish, RefreshUnneeded, RefreshCooling, ReadVault, NothingNew, Replace
<1>3. v = w
  BY <1>0, <1>1, <1>2 DEF Send
<1>4. ~Sweep(w) /\ ~\E k \in Kinds : Request(w, k)
  BY <1>1 DEF Sweep, Request
<1>5. ~ReadVault(w)
  <2>1. ReadVault(w) => req'[w].at = "reading"
    BY <1>0, <1>3 DEF ReadVault, Requests
  <2> QED
    BY <2>1
<1>6. ~NothingNew(w) /\ ~RefreshCooling(w)
  BY <1>0, <1>3, Ended DEF NothingNew, RefreshCooling
<1> QED
  BY <1>3, <1>4, <1>5, <1>6
     DEF Attempt, Send, NoAnswer, Limited, Success, Answered, NotModified, Rejected, Unauthorized,
         Cancel, Finish

(* A request that was refused goes on only with another token in hand.     *)
THEOREM RefusedTokenIsReplaced == Spec => NoRetryWithRefusedToken
<1> DEFINE Keeps == \A w \in Workers : req[w].at \in {"refused", "reading"} /\ req'[w].at = "ready"
                      => item'.token # req[w].token
<1>1. Inv /\ [Next]_vars => [Keeps]_vars
  <2> SUFFICES ASSUME Inv, Next, NEW w \in Workers, req[w].at \in {"refused", "reading"},
                      req'[w].at = "ready"
               PROVE  item'.token # req[w].token
    OBVIOUS
  <2>1. CASE RefreshUnneeded(w)
    BY <2>1 DEF RefreshUnneeded, credVars
  <2>2. CASE Replace(w)
    <3>1. item \in Items /\ vault # req[w].token /\ vault \in Tokens
      BY <2>2 DEF Replace, Inv, TypeOK, CredTypeOK, WorkerInv, CredInv
    <3>2. item'.token = vault
      BY <3>1, <2>2 DEF Replace, FromVault
    <3> QED
      BY <3>1, <3>2
  <2>3. CASE \E v \in Workers : Sweep(v) \/ Attempt(v) \/ \E k \in Kinds : Request(v, k)
    BY <2>1, <2>2, <2>3, RefusedWaits
  <2>4. ~(Environment \/ Change \/ Boot \/ CooldownEnds)
    BY DEF Environment, Change, Boot, CooldownEnds
  <2>5. ~Crash
    <3>1. Idle.at # "ready"
      BY Fresh DEF Kinds
    <3> QED
      BY <3>1 DEF Crash
  <2> QED
    BY <2>3, <2>4, <2>5 DEF Next
<1> QED
  BY <1>1, AlwaysInv, PTL DEF Spec, NoRetryWithRefusedToken
=============================================================================
