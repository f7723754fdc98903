----------------------------- MODULE Credentials -----------------------------
(***************************************************************************)
(* The credential arc runs on in 1Password mode: how `arc run` obtains it  *)
(* (autoConfig), how a running arc replaces it once GitHub refuses it      *)
(* (vaultAuth.Refresh) and the cache that lets a restart do without the    *)
(* vault (internal/opconfig).  GhClient adds the requests that are made    *)
(* with it.                                                                *)
(***************************************************************************)
EXTENDS Integers, FiniteSets

CONSTANTS
    Workers,    \* the goroutines that make requests
    Nobody,     \* not a worker
    NoItem,     \* no credential
    LastToken,  \* bound: how many tokens the operator creates
    MaxFaults   \* bound: how often the network, op or a write fails, or arc dies

ASSUME CredentialConstants ==
    /\ Nobody \notin Workers
    /\ LastToken \in Nat \ {0}
    /\ MaxFaults \in Nat

VARIABLES
    vault,    \* the token in op://arc/github
    valid,    \* the tokens GitHub accepts
    cache,    \* ~/.arc/credentials.json, NoItem when absent or unreadable
    boot,     \* where `arc run` stands
    item,     \* the credential in hand
    cached,   \* fromCache: the credential in hand was read from the cache
    cooling,  \* lastFailed lies within the vault refresh cooldown
    lock,     \* vaultAuth.mu: the worker that reads the vault, or Nobody
    reads,    \* history: vault reads since the token changed or a cooldown ended
    faults    \* failures so far

credVars == <<vault, valid, cache, boot, item, cached, cooling, lock, reads, faults>>
environment == <<vault, valid>>

Tokens == 1..LastToken
Items  == [token : Tokens, type : {"", "User"}]   \* type: the account type, once verified
BootStates == {"down", "probing", "reprobing", "up"}

CredTypeOK ==
    /\ vault \in Tokens
    /\ valid \subseteq Tokens
    /\ cache \in Items \cup {NoItem}
    /\ boot \in BootStates
    /\ item \in Items \cup {NoItem}
    /\ cached \in BOOLEAN
    /\ cooling \in BOOLEAN
    /\ lock \in Workers \cup {Nobody}
    /\ reads \in Nat
    /\ faults \in 0..MaxFaults

CredInit ==
    /\ vault = 1
    /\ valid = {1}
    /\ cache = NoItem
    /\ boot = "down"
    /\ item = NoItem
    /\ cached = FALSE
    /\ cooling = FALSE
    /\ lock = Nobody
    /\ reads = 0
    /\ faults = 0

(* n things go wrong in a step *)
Fail(n) == faults + n <= MaxFaults /\ faults' = faults + n

-----------------------------------------------------------------------------
(* the operator puts a new token into the vault; a token expires or is     *)
(* revoked, before or after that                                           *)
Rotate ==
    /\ vault < LastToken
    /\ vault' = vault + 1
    /\ valid' = valid \cup {vault'}
    /\ UNCHANGED <<cache, boot, item, cached, cooling, lock, reads, faults>>

Expire ==
    /\ \E t \in valid : valid' = valid \ {t}
    /\ UNCHANGED <<vault, cache, boot, item, cached, cooling, lock, reads, faults>>

FromVault == [token |-> vault, type |-> ""]

(* WriteCache truncates the file and writes it, in n failing steps with    *)
(* the caller's; a file that is cut short is not readable.  Whoever calls  *)
(* it goes on when it fails.                                               *)
WriteCache(it, n) == \/ cache' = it /\ Fail(n)
                     \/ cache' = NoItem /\ Fail(n + 1)

-----------------------------------------------------------------------------
(* autoConfig: the cache is read first, the vault only without one *)
StartFromCache ==
    /\ boot = "down"
    /\ cache # NoItem
    /\ boot' = "probing"
    /\ item' = cache
    /\ cached' = TRUE
    /\ UNCHANGED <<environment, cache, cooling, lock, reads, faults>>

StartFromVault ==
    /\ boot = "down"
    /\ cache = NoItem
    /\ boot' = "probing"
    /\ item' = FromVault
    /\ cached' = FALSE
    /\ UNCHANGED <<environment, cache, cooling, lock, reads, faults>>

(* arc run returns an error; the service manager starts it again *)
GiveUp == /\ boot' = "down"
          /\ item' = NoItem
          /\ UNCHANGED <<environment, cache, cached, cooling, lock, reads>>

(* what the probe found out is kept, in memory and in the cache, and       *)
(* newVaultAuth starts without a failed refresh                            *)
ComeUp(type, n) ==
    /\ boot' = "up"
    /\ item' = [item EXCEPT !.type = type]
    /\ WriteCache(item', n)
    /\ cooling' = FALSE
    /\ reads' = 0
    /\ UNCHANGED <<environment, cached, lock>>

Probing == boot \in {"probing", "reprobing"}

ProbeAccepted ==
    /\ Probing
    /\ item.token \in valid
    /\ ComeUp("User", 0)

(* isAuthError: a 401, or a 403 whatever the reason.  A refused token from *)
(* the cache is replaced from the vault, once.                             *)
ProbeRefused ==
    /\ Probing
    /\ \E n \in {0, 1} :
          /\ n = 0 => item.token \notin valid
          /\ \/ /\ cached
                /\ boot' = "reprobing"
                /\ item' = FromVault
                /\ cached' = FALSE
                /\ Fail(n)
                /\ UNCHANGED <<environment, cache, cooling, lock, reads>>
             \/ cached /\ GiveUp /\ Fail(n + 1)      \* op fails
             \/ ~cached /\ GiveUp /\ Fail(n)

(* any other error: a cache that was verified before will do *)
ProbeUnreachable ==
    /\ Probing
    /\ \/ cached /\ item.type # "" /\ ComeUp(item.type, 1)
       \/ ~(cached /\ item.type # "") /\ GiveUp /\ Fail(1)

(* arc dies; what it had in memory is gone *)
Die == /\ boot # "down"
       /\ Fail(1)
       /\ boot' = "down"
       /\ item' = NoItem
       /\ lock' = Nobody
       /\ UNCHANGED <<environment, cache, cached, cooling, reads>>
=============================================================================
