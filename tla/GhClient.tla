------------------------------- MODULE GhClient -------------------------------
(***************************************************************************)
(* The GitHub REST client of internal/ghapi/client.go under the credential *)
(* of 1Password mode: Client.request with its retries, rate-limit waits,   *)
(* conditional requests and the refresh of a refused credential, made by   *)
(* several goroutines at once against a GitHub that may lose a request or  *)
(* its answer, answer with an error, or change in between.                 *)
(***************************************************************************)
EXTENDS Credentials

CONSTANTS
    MaxRetries,  \* maxRetries
    LastVersion  \* bound: the versions the polled resource goes through

ASSUME RetriesAreNat == MaxRetries \in Nat /\ LastVersion \in Nat

VARIABLES
    version,  \* GitHub: what a GET of the polled resource would return
    etag,     \* worker -> etagCache entry of the resource it polls: tag and body
    req,      \* worker -> the request it is making
    done      \* history: worker -> how often its POST took effect, how often in doubt

vars == <<credVars, version, etag, req, done>>

Versions == 0..LastVersion
NoTag    == -1
Kinds    == {"get", "post"}
Stages   == {"idle", "ready", "sent", "refused", "reading", "ok", "error"}

(* token: what the request was sent with; tag: its If-None-Match; body:    *)
(* what it returned; seen: what the resource was when GitHub answered      *)
NewRequest(kind) == [at |-> "ready", kind |-> kind, attempt |-> 0, token |-> 0,
                     tag |-> NoTag, body |-> NoTag, seen |-> NoTag]
NoEffects == [effects |-> 0, doubts |-> 0]
NoEntry == [tag |-> NoTag, body |-> NoTag]
Entry(v) == [tag |-> v, body |-> v]
Idle == [NewRequest("get") EXCEPT !.at = "idle"]

GhTypeOK ==
    /\ version \in Versions
    /\ etag \in [Workers -> [tag : {NoTag} \cup Versions, body : {NoTag} \cup Versions]]
    /\ req \in [Workers -> [at : Stages, kind : Kinds, attempt : 0..MaxRetries,
                            token : Tokens \cup {0}, tag : {NoTag} \cup Versions,
                            body : {NoTag} \cup Versions, seen : {NoTag} \cup Versions]]
    /\ done \in [Workers -> [effects : Nat, doubts : Nat]]
    /\ \A w \in Workers : (lock = w) = (req[w].at = "reading")

Init ==
    /\ CredInit
    /\ version = 0
    /\ etag = [w \in Workers |-> NoEntry]
    /\ req = [w \in Workers |-> Idle]
    /\ done = [w \in Workers |-> NoEffects]

-----------------------------------------------------------------------------
(* the polled resource changes *)
Change ==
    /\ version < LastVersion
    /\ version' = version + 1
    /\ UNCHANGED <<credVars, etag, req, done>>

Request(w, kind) ==
    /\ boot = "up"
    /\ req[w].at = "idle"
    /\ req' = [req EXCEPT ![w] = NewRequest(kind)]
    /\ UNCHANGED <<credVars, version, etag, done>>

(* an attempt takes the token in hand, which waits for a refresh that is   *)
(* under way, and the tag of the cached body                               *)
Send(w) ==
    /\ req[w].at = "ready"
    /\ lock = Nobody
    /\ req' = [req EXCEPT ![w].at = "sent", ![w].token = item.token,
                          ![w].tag = IF req[w].kind = "get" THEN etag[w].tag ELSE NoTag]
    /\ UNCHANGED <<credVars, version, etag, done>>

(* the end of a request, one more attempt or the end of them *)
Failed(r) == [NewRequest(r.kind) EXCEPT !.at = "error"]
Again(r)  == IF r.attempt < MaxRetries
             THEN [NewRequest(r.kind) EXCEPT !.attempt = r.attempt + 1]
             ELSE Failed(r)

(* GitHub carries a POST out *)
Effect(w, n, doubt) ==
    done' = [done EXCEPT ![w] =
                [effects |-> @.effects + (IF req[w].kind = "post" THEN n ELSE 0),
                 doubts  |-> @.doubts + doubt]]

(* no answer, or one that cannot be read to its end, to a request that     *)
(* GitHub has or has not carried out; a 5xx says as little                 *)
NoAnswer(w) ==
    /\ req[w].at = "sent"
    /\ Fail(1)
    /\ \E n \in {0, 1} : (n = 1 => req[w].token \in valid) /\ Effect(w, n, 1)
    /\ req' = [req EXCEPT ![w] = Again(@)]
    /\ UNCHANGED <<environment, cache, boot, item, cached, cooling, lock, reads, version, etag>>

(* an answer that is no success but asks to wait, and was not carried out: *)
(* it is waited out, and the last attempt fails                            *)
Limited(w) ==
    /\ req[w].at = "sent"
    /\ Fail(1)
    /\ req' = [req EXCEPT ![w] = Again(@)]
    /\ UNCHANGED <<environment, cache, boot, item, cached, cooling, lock, reads,
                   version, etag, done>>

BugWaitFirst(w) ==
    /\ req[w].at = "sent"
    /\ req[w].token \in valid
    /\ Effect(w, 1, 0)
    /\ req' = [req EXCEPT ![w] = Again(@)]
    /\ UNCHANGED <<credVars, version, etag>>

Succeeded(r) == [NewRequest(r.kind) EXCEPT !.at = "ok", !.body = version, !.seen = version]

Answered(w) ==
    /\ req[w].at = "sent"
    /\ req[w].token \in valid
    /\ req[w].kind = "get" => req[w].tag # version
    /\ Effect(w, 1, 0)
    /\ req' = [req EXCEPT ![w] = Succeeded(@)]

BugTagOnly(w) ==
    /\ Answered(w)
    /\ etag' = IF req[w].kind = "get"
               THEN [etag EXCEPT ![w].tag = version, ![w].body = IF @ = NoTag THEN version ELSE @]
               ELSE etag
    /\ UNCHANGED <<credVars, version>>

(* 2xx.  A GET stores body and tag under its key. *)
Success(w) ==
    /\ Answered(w)
    /\ etag' = IF req[w].kind = "get" THEN [etag EXCEPT ![w] = Entry(version)] ELSE etag
    /\ UNCHANGED <<credVars, version>>

(* 304: the cached body, unless it was dropped meanwhile *)
NotModified(w) ==
    /\ req[w].at = "sent"
    /\ req[w].token \in valid
    /\ req[w].kind = "get"
    /\ req[w].tag = version
    /\ req' = [req EXCEPT ![w] = IF etag[w] # NoEntry
                 THEN [Succeeded(@) EXCEPT !.body = etag[w].body]
                 ELSE Again(@)]
    /\ UNCHANGED <<credVars, version, etag, done>>

(* a 4xx that is neither a 401 nor asks to wait fails at once *)
Rejected(w) ==
    /\ req[w].at = "sent"
    /\ req[w].token \in valid
    /\ Fail(1)
    /\ req' = [req EXCEPT ![w] = Failed(@)]
    /\ UNCHANGED <<environment, cache, boot, item, cached, cooling, lock, reads,
                   version, etag, done>>

BugRetriedLikeA5xx(w) ==
    /\ req[w].at = "sent"
    /\ req[w].token \notin valid
    /\ req' = [req EXCEPT ![w] = Again(@)]
    /\ UNCHANGED <<credVars, version, etag, done>>

(* 401: the last attempt fails, another one asks for a new credential *)
Unauthorized(w) ==
    /\ req[w].at = "sent"
    /\ req[w].token \notin valid
    /\ req' = [req EXCEPT ![w] = IF @.attempt < MaxRetries THEN [@ EXCEPT !.at = "refused"]
                                 ELSE Failed(@)]
    /\ UNCHANGED <<credVars, version, etag, done>>

-----------------------------------------------------------------------------
(* vaultAuth.Refresh, which holds the lock from its checks to the end of   *)
(* the vault read.  A refresh that brings nothing new fails the request.   *)
RefreshUnneeded(w) ==
    /\ req[w].at = "refused"
    /\ lock = Nobody
    /\ item.token # req[w].token
    /\ req' = [req EXCEPT ![w] = Again(@)]
    /\ UNCHANGED <<credVars, version, etag, done>>

RefreshCooling(w) ==
    /\ req[w].at = "refused"
    /\ lock = Nobody
    /\ item.token = req[w].token
    /\ cooling
    /\ req' = [req EXCEPT ![w] = Failed(@)]
    /\ UNCHANGED <<credVars, version, etag, done>>

BugUnlockedRead(w) ==
    /\ req[w].at = "refused"
    /\ item.token = req[w].token
    /\ ~cooling
    /\ lock' = w
    /\ reads' = reads + 1
    /\ req' = [req EXCEPT ![w].at = "reading"]
    /\ UNCHANGED <<environment, cache, boot, item, cached, cooling, faults, version, etag, done>>

ReadVault(w) ==
    /\ req[w].at = "refused"
    /\ lock = Nobody
    /\ item.token = req[w].token
    /\ ~cooling
    /\ lock' = w
    /\ reads' = reads + 1
    /\ req' = [req EXCEPT ![w].at = "reading"]
    /\ UNCHANGED <<environment, cache, boot, item, cached, cooling, faults, version, etag, done>>

BugAnyReadIsNew(w) ==
    /\ req[w].at = "reading"
    /\ \/ vault = req[w].token /\ UNCHANGED faults
       \/ Fail(1)
    /\ lock' = Nobody
    /\ req' = [req EXCEPT ![w] = Again(@)]
    /\ UNCHANGED <<environment, cache, boot, item, cached, cooling, reads, version, etag, done>>

(* op fails, or the vault still holds the refused token *)
NothingNew(w) ==
    /\ req[w].at = "reading"
    /\ \/ vault = req[w].token /\ UNCHANGED faults
       \/ Fail(1)
    /\ lock' = Nobody
    /\ cooling' = TRUE
    /\ req' = [req EXCEPT ![w] = Failed(@)]
    /\ UNCHANGED <<environment, cache, boot, item, cached, reads, version, etag, done>>

BugTypeNotKept(w) ==
    /\ req[w].at = "reading"
    /\ vault # req[w].token
    /\ lock' = Nobody
    /\ item' = FromVault
    /\ WriteCache(item', 0)
    /\ cooling' = FALSE
    /\ reads' = 0
    /\ req' = [req EXCEPT ![w] = Again(@)]
    /\ UNCHANGED <<environment, boot, cached, version, etag, done>>

(* the account type is carried over, so that the cache stays complete *)
Replace(w) ==
    /\ req[w].at = "reading"
    /\ vault # req[w].token
    /\ lock' = Nobody
    /\ item' = [FromVault EXCEPT !.type = item.type]
    /\ WriteCache(item', 0)
    /\ cooling' = FALSE
    /\ reads' = 0
    /\ req' = [req EXCEPT ![w] = Again(@)]
    /\ UNCHANGED <<environment, boot, cached, version, etag, done>>

(* vaultRefreshCooldown is over *)
CooldownEnds ==
    /\ cooling
    /\ cooling' = FALSE
    /\ reads' = 0
    /\ UNCHANGED <<environment, cache, boot, item, cached, lock, faults, version, etag, req, done>>

(* the context ends while the request waits or is under way *)
Cancel(w) ==
    /\ req[w].at \in {"ready", "sent"}
    /\ Fail(1)
    /\ req' = [req EXCEPT ![w] = Failed(@)]
    /\ Effect(w, 0, IF req[w].at = "sent" THEN 1 ELSE 0)
    /\ UNCHANGED <<environment, cache, boot, item, cached, cooling, lock, reads, version, etag>>

Finish(w) ==
    /\ req[w].at \in {"ok", "error"}
    /\ req' = [req EXCEPT ![w] = Idle]
    /\ done' = [done EXCEPT ![w] = NoEffects]
    /\ UNCHANGED <<credVars, version, etag>>

(* SweepCache drops an entry nothing has touched for long; housekeeping    *)
(* runs between the passes that poll                                       *)
Sweep(w) ==
    /\ req[w].at = "idle"
    /\ etag[w] # NoEntry
    /\ etag' = [etag EXCEPT ![w] = NoEntry]
    /\ UNCHANGED <<credVars, version, req, done>>

Crash ==
    /\ Die
    /\ etag' = [w \in Workers |-> NoEntry]
    /\ req' = [w \in Workers |-> Idle]
    /\ done' = [w \in Workers |-> NoEffects]
    /\ UNCHANGED version

Boot == /\ \/ StartFromCache \/ StartFromVault
           \/ ProbeAccepted \/ ProbeRefused \/ ProbeUnreachable
        /\ UNCHANGED <<version, etag, req, done>>

Environment == /\ Rotate \/ Expire
               /\ UNCHANGED <<version, etag, req, done>>

Attempt(w) == \/ Send(w) \/ NoAnswer(w) \/ Limited(w) \/ Success(w) \/ NotModified(w)
              \/ Rejected(w) \/ Unauthorized(w) \/ Cancel(w) \/ Finish(w)
              \/ RefreshUnneeded(w) \/ RefreshCooling(w) \/ ReadVault(w)
              \/ NothingNew(w) \/ Replace(w)

Next == \/ Environment \/ Change \/ Boot \/ Crash \/ CooldownEnds
        \/ \E w \in Workers : Sweep(w) \/ Attempt(w) \/ \E k \in Kinds : Request(w, k)

Spec == Init /\ [][Next]_vars

(* Requests are made again and again and every attempt ends (the client    *)
(* has a timeout, op too); the service manager restarts arc; the cooldown  *)
(* passes.  Nobody promises a rotation.                                    *)
Fairness ==
    /\ WF_vars(Boot)
    /\ WF_vars(CooldownEnds)
    /\ \A w \in Workers : WF_vars(Attempt(w)) /\ WF_vars(Request(w, "get"))

FairSpec == Spec /\ Fairness

-----------------------------------------------------------------------------
TypeOK == CredTypeOK /\ GhTypeOK

(* A rejection storm costs one op invocation: the vault is read at most    *)
(* once before the token changes or the cooldown has passed, however many  *)
(* requests are refused at once.                                           *)
OneReadPerRefusal == reads <= 1

(* A request is not sent again with the token it was just refused with.    *)
NoRetryWithRefusedToken ==
    [][\A w \in Workers : req[w].at \in {"refused", "reading"} /\ req'[w].at = "ready"
          => item'.token # req[w].token]_vars

(* A verified account stays verified: arc never writes a cache that could  *)
(* not bring it up without a network.                                      *)
CacheIsComplete == cache # NoItem => cache.type # ""

(* What a GET returns is what the resource was when GitHub answered, be    *)
(* the body fresh or cached.                                               *)
NeverStale == \A w \in Workers : req[w].at = "ok" => req[w].body = req[w].seen

(* A POST is repeated only in doubt: it takes effect once more than there  *)
(* were attempts whose outcome arc cannot know, and one that reports       *)
(* success has taken effect.                                               *)
RepeatedOnlyInDoubt ==
    \A w \in Workers :
        /\ done[w].effects <= done[w].doubts + 1
        /\ req[w].at = "ok" /\ req[w].kind = "post" => done[w].effects >= 1

(* A token that expires under a running arc is survived: once the vault    *)
(* holds a valid token for good, arc comes to hold one too, without        *)
(* anybody restarting it.                                                  *)
HoldsValid == item # NoItem /\ item.token \in valid
Recovers   == <>[](vault \in valid) => <>[]HoldsValid
=============================================================================
