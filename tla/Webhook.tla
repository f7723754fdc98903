------------------------------- MODULE Webhook -------------------------------
(***************************************************************************)
(* The webhook pipeline (internal/webhook, internal/ghapi/hooks.go): a     *)
(* tunnel with another URL every time it comes up, one hook per scope (the *)
(* organization, or each repository of a personal account) that has to     *)
(* follow it, deliveries that are lost, late, doubled or meant for a URL   *)
(* or a secret of the past, and the doorbell they ring.                    *)
(***************************************************************************)
EXTENDS Naturals, FiniteSets

CONSTANTS
    Scopes,      \* where hooks are registered
    Me, Other,   \* host ids, the marker at the end of a hook's URL
    MaxTunnels,  \* bound: tunnels that come up
    MaxStarts,   \* bound: starts of arc
    MaxLosses    \* bound: deliveries that are lost, calls that fail

ASSUME WebhookConstants ==
    /\ Me # Other
    /\ MaxTunnels \in Nat /\ MaxStarts \in Nat \ {0} /\ MaxLosses \in Nat

VARIABLES
    start,       \* the start of arc: NewServer draws a secret each time
    tunnels,     \* tunnels that came up so far
    url,         \* the URL the manager has, 0 for none
    open,        \* its tunnel still stands
    mgr,         \* where Manager.Run stands: starting, registering, serving
    scopesLeft,  \* scopes register has not come to
    listed,      \* the scope whose hooks are listed, and the hooks of ours in it
    registered,  \* scopes EnsureWebhook succeeded for, for this URL
    hooks,       \* GitHub: the hooks
    mail,        \* deliveries on their way
    poke,        \* the channel of capacity one that wakes the loop
    losses

hookVars == <<start, tunnels, url, open, mgr, scopesLeft, listed, registered, hooks>>
webhookVars == <<hookVars, mail, poke, losses>>

Hook == [scope: Scopes, host: {Me, Other}, url: 0..MaxTunnels, secret: 0..MaxStarts]

Mine(s) == {h \in hooks : h.scope = s /\ h.host = Me}

Current(s) == [scope |-> s, host |-> Me, url |-> url, secret |-> start]

WebhookInit ==
    /\ start = 1 /\ tunnels = 0 /\ url = 0 /\ open = FALSE
    /\ mgr = "starting" /\ scopesLeft = {} /\ listed = {} /\ registered = {}
    /\ hooks = [scope: Scopes, host: {Other}, url: {0}, secret: {0}]
    /\ mail = {} /\ poke = FALSE /\ losses = 0

Loss == losses < MaxLosses /\ losses' = losses + 1

-----------------------------------------------------------------------------
(* StartTunnel; one that fails is tried again after a backoff *)
TunnelUp ==
    /\ mgr = "starting" /\ tunnels < MaxTunnels
    /\ tunnels' = tunnels + 1 /\ url' = tunnels + 1 /\ open' = TRUE
    /\ mgr' = "registering" /\ scopesLeft' = Scopes /\ registered' = {}
    /\ UNCHANGED <<start, listed, hooks, mail, poke, losses>>

TunnelDies ==
    /\ open
    /\ open' = FALSE
    /\ UNCHANGED <<start, tunnels, url, mgr, scopesLeft, listed, registered, hooks,
                   mail, poke, losses>>

BugMarkerIsTheUrl(s) ==
    /\ mgr = "registering" /\ s \in scopesLeft /\ listed = {}
    /\ listed' = {[scope |-> s, ours |-> Mine(s) \cap {Current(s)}]}
    /\ UNCHANGED <<start, tunnels, url, open, mgr, scopesLeft, registered, hooks,
                   mail, poke, losses>>

BugMarkerIsThePath(s) ==
    /\ mgr = "registering" /\ s \in scopesLeft /\ listed = {}
    /\ listed' = {[scope |-> s, ours |-> {h \in hooks : h.scope = s}]}
    /\ UNCHANGED <<start, tunnels, url, open, mgr, scopesLeft, registered, hooks,
                   mail, poke, losses>>

(* EnsureWebhook lists the hooks of a scope, then rewrites ours or adds one *)
ListHooks(s) ==
    /\ mgr = "registering" /\ s \in scopesLeft /\ listed = {}
    /\ listed' = {[scope |-> s, ours |-> Mine(s)]}
    /\ UNCHANGED <<start, tunnels, url, open, mgr, scopesLeft, registered, hooks,
                   mail, poke, losses>>

Settled(s) == scopesLeft' = scopesLeft \ {s} /\ listed' = {}

EnsureWebhook(s) ==
    /\ mgr = "registering" /\ s \in scopesLeft
    /\ \E l \in {k \in listed : k.scope = s} :
          \/ /\ l.ours = {}
             /\ hooks' = hooks \cup {Current(s)}
          \/ \E h \in l.ours : hooks' = (hooks \ {h}) \cup {Current(s)}
    /\ Settled(s)
    /\ registered' = registered \cup {s}
    /\ UNCHANGED <<start, tunnels, url, open, mgr, mail, poke, losses>>

(* a call fails, the last one perhaps after GitHub did what it asks: the   *)
(* scope is given up until the next tunnel.  A POST that is repeated       *)
(* because its answer was lost is such a call: GitHub keeps no two hooks   *)
(* of one URL and refuses the second                                       *)
EnsureWebhookFails(s) ==
    /\ mgr = "registering" /\ s \in scopesLeft
    /\ Loss
    /\ listed = {} \/ \E l \in listed : l.scope = s
    /\ \/ UNCHANGED hooks
       \/ \E l \in {k \in listed : k.scope = s} :
             \/ l.ours = {} /\ hooks' = hooks \cup {Current(s)}
             \/ \E h \in l.ours : hooks' = (hooks \ {h}) \cup {Current(s)}
    /\ Settled(s)
    /\ UNCHANGED <<start, tunnels, url, open, mgr, registered, mail, poke>>

(* the repositories of a personal account cannot be listed: no scope is    *)
(* come to                                                                 *)
ReposFail ==
    /\ mgr = "registering" /\ scopesLeft = Scopes /\ listed = {}
    /\ Loss
    /\ scopesLeft' = {}
    /\ UNCHANGED <<start, tunnels, url, open, mgr, listed, registered, hooks, mail, poke>>

Registered ==
    /\ mgr = "registering" /\ scopesLeft = {}
    /\ mgr' = "serving"
    /\ UNCHANGED <<start, tunnels, url, open, scopesLeft, listed, registered, hooks,
                   mail, poke, losses>>

TunnelExited ==
    /\ mgr = "serving" /\ ~open
    /\ mgr' = "starting"
    /\ UNCHANGED <<start, tunnels, url, open, scopesLeft, listed, registered, hooks,
                   mail, poke, losses>>

(* arc dies and is started again: with it go the tunnel and the token in   *)
(* the channel                                                             *)
RestartPipeline ==
    /\ start < MaxStarts
    /\ start' = start + 1
    /\ url' = 0 /\ open' = FALSE
    /\ mgr' = "starting" /\ scopesLeft' = {} /\ listed' = {} /\ registered' = {}
    /\ poke' = FALSE
    /\ UNCHANGED <<tunnels, hooks, mail, losses>>

PipelineStep ==
    \/ TunnelUp \/ ReposFail \/ Registered \/ TunnelExited
    \/ \E s \in Scopes : ListHooks(s) \/ EnsureWebhook(s) \/ EnsureWebhookFails(s)

-----------------------------------------------------------------------------
(* GitHub sends an event of a job to every hook of its scope *)
Ring(s, j) == mail' = mail \cup {[url |-> h.url, secret |-> h.secret, job |-> j] :
                                 h \in {k \in hooks : k.scope = s /\ k.host = Me}}

(* the tunnel the delivery was sent through leads to this arc, and         *)
(* validSignature finds the secret it drew                                 *)
Arrives(m) == open /\ m.url = url /\ m.secret = start

Lose(m) ==
    /\ m \in mail
    /\ \/ ~Arrives(m) /\ UNCHANGED losses
       \/ Loss
    /\ mail' = mail \ {m}
    /\ UNCHANGED <<hookVars, poke>>

(* Server.handle: the body is a doorbell only.  GitHub may deliver twice. *)
Deliver(m) ==
    /\ m \in mail /\ Arrives(m)
    /\ poke' = TRUE
    /\ mail' \in {mail, mail \ {m}}
    /\ UNCHANGED <<hookVars, losses>>

-----------------------------------------------------------------------------
(* Whatever tunnels die and calls fail, GitHub has at most one hook of     *)
(* this host per scope, and once register succeeded for a scope it is one  *)
(* whose deliveries this arc accepts: they are sent to the URL it has and  *)
(* signed with the secret it drew.                                         *)
HooksFollowTheTunnel ==
    /\ \A s \in Scopes : Cardinality(Mine(s)) <= 1
    /\ \A s \in registered : Current(s) \in hooks

(* The hooks of other hosts are left alone. *)
OtherHooksStay == \A s \in Scopes : \E h \in hooks : h.scope = s /\ h.host = Other
=============================================================================
