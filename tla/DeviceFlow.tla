------------------------------ MODULE DeviceFlow ------------------------------
(***************************************************************************)
(* The grants of /token that are not of an authorization code or a refresh *)
(* token (routes/oauth_grants.py), and the two endpoints of the device     *)
(* flow (routes/oauth.py), over the device-code store.                     *)
(*                                                                         *)
(* A request authenticates its client, then its handler reads the client   *)
(* again, and the device grant once more after the store has given up the  *)
(* code: between any two the operator may load another configuration.      *)
(***************************************************************************)
EXTENDS DeviceCodeStore
INSTANCE GrantRules
Login == INSTANCE LoginRules WITH Blank <- None

CONSTANTS
  Scope, OpenId, Resource,
  Configs,        \* the configurations the operator loads
  DefaultUser     \* default_user, whom client_credentials tokens are for

Policy == [method : {"none", "basic", "post"},  \* token_endpoint_auth_method
           scopes : SUBSET Scope, resources : SUBSET Resource]
ConfigType ==
  [passwordGrant : BOOLEAN, persona : BOOLEAN, twoStep : BOOLEAN, enforced : BOOLEAN,
   vocabulary : SUBSET Scope, clients : [Client -> Policy \cup {None}]]

ASSUME FlowAssumption ==
  /\ Configs \subseteq ConfigType /\ OpenId \in Scope /\ None \notin Policy

VARIABLES
  config,     \* settings and clients; the users are the store's
  bound,      \* bound[c]: scope and resource in the entry of device code c
  req,        \* the requests to /token and /device_authorization
  minted      \* minted[q]: the token request q was answered with

flowVars == <<config, bound, req, minted>>
allVars == <<vars, flowVars>>

Kind == {"device_authorization", "device_code", "password", "client_credentials"}
Idle == [phase |-> "idle", kind |-> "none", client |-> None, scope |-> {},
         wanted |-> {}, inForce |-> {}]

Init ==
  /\ DeviceCodeInit
  /\ config \in Configs
  /\ bound = [c \in Code |-> [scope |-> {}, resource |-> {}]]
  /\ req = [q \in Request |-> Idle]
  /\ minted = [q \in Request |-> None]

-----------------------------------------------------------------------------
(* Client authentication.  A request has a Basic header, a secret in the   *)
(* body, both or neither, and the two may name different clients.          *)
Shown == {"absent", "right", "wrong"}
Credential == [basic : Shown, body : Shown, agree : BOOLEAN]

Public(policy) == policy # None /\ policy.method = "none"

(* _enforce_registered_client_auth; check_client knows no public clients.  *)
RegisteredAuth(policy, cred) ==
  /\ policy # None /\ ~ Public(policy)
  /\ IF policy.method = "post"
     THEN cred.basic = "absent" /\ cred.body = "right"
     ELSE cred.basic = "right" /\ cred.body = "absent"

ClientAuth(kind, policy, cred) ==
  /\ cred.agree
  /\ CASE ~ Public(policy) -> RegisteredAuth(policy, cred)
       [] kind = "device_authorization" -> cred.basic = "absent" /\ cred.body = "absent"
       [] OTHER -> kind # "client_credentials"

Accepted(kind, policy) == {cred \in Credential : ClientAuth(kind, policy, cred)}

Authenticate(q, kind, client, scope, wanted) ==
  /\ req[q].phase = "idle"
  /\ Accepted(kind, config.clients[client]) # {}
  /\ kind = "device_code" => scope = {}     \* a poll names none
  /\ req' = [req EXCEPT ![q] =
       [phase |-> "authenticated", kind |-> kind, client |-> client, scope |-> scope,
        wanted |-> wanted, inForce |-> {config}]]
  /\ UNCHANGED <<vars, config, bound, minted>>

Handles(q, kind) == req[q].phase = "authenticated" /\ req[q].kind = kind
PolicyOf(q) == config.clients[req[q].client]
(* A request is answered once, with a token or without.                    *)
Over == [Idle EXCEPT !.phase = "done"]
Done(q) == req' = [req EXCEPT ![q] = Over]
AnsweredWith(q, allowed, token) ==
  /\ minted' = IF allowed THEN [minted EXCEPT ![q] = token] ELSE minted
  /\ req' = [req EXCEPT ![q] = IF allowed THEN [@ EXCEPT !.phase = "done"] ELSE Over]

-----------------------------------------------------------------------------
(* What a surface without an earlier authorization resolves: a client that *)
(* is gone by now is not checked, but cannot name a resource at /token.    *)
Resolved(q, default) ==
  IF PolicyOf(q) = None THEN req[q].scope
  ELSE EffectiveScope(req[q].scope, PolicyOf(q).scopes, config.enforced, default, FALSE)
MayHave(q, scope) ==
  PolicyOf(q) # None =>
    ScopeAllowed(scope, config.vocabulary, PolicyOf(q).scopes, config.enforced)
MayTarget(q) ==
  IF PolicyOf(q) = None THEN req[q].wanted = {}
  ELSE ResourcesAllowed(req[q].wanted, PolicyOf(q).resources)

(* /device_authorization: with a client that is gone the resources are     *)
(* dropped.                                                                *)
DeviceAuthorization(q, c, u) ==
  LET scope == Resolved(q, {OpenId}) IN
  /\ Handles(q, "device_authorization")
  /\ MayHave(q, scope)
  /\ PolicyOf(q) # None => MayTarget(q)
  /\ Create(c, u, req[q].client)
  /\ bound' = [bound EXCEPT ![c] =
       [scope |-> scope, resource |-> IF PolicyOf(q) = None THEN {} ELSE req[q].wanted]]
  /\ Done(q)
  /\ UNCHANGED <<config, minted>>

DeviceAuthorizationFull(q) ==
  /\ Handles(q, "device_authorization")
  /\ MayHave(q, Resolved(q, {OpenId})) /\ (PolicyOf(q) # None => MayTarget(q))
  /\ CreateRefused
  /\ Done(q)
  /\ UNCHANGED <<config, bound, minted>>

(* The page at /device: a screen of a two-step login decides nothing.      *)
DeviceVerify(u, user, password, action) ==
  LET active == config.twoStep /\ ~ config.persona /\ action # "deny" IN
  /\ Login!TwoStepPhase(active, user, password, FALSE) = "attempt"
  /\ \/ VerifyExpired(u)
     \/ action = "deny" /\ Deny(u)
     \/ /\ action # "deny"
        /\ Login!Authenticates(config.persona, users, user, password)
        /\ Authorize(u, user)
  /\ UNCHANGED flowVars

-----------------------------------------------------------------------------
(* The device_code grant: the store's poll, and the checks that follow it. *)
Owns(client, c) == c \in codes /\ grant[c].client = client
Answerable(c) == Expired(c) \/ (grant[c].status = "authorized" /\ grant[c].username \in users)

DevicePoll(q, c) ==
  LET client == req[q].client IN
  /\ Handles(q, "device_code")
  /\ IF Owns(client, c) /\ Answerable(c)
     THEN \/ PollAuthorized(q, c, client) /\ req' = [req EXCEPT ![q].phase = "polled"]
          \/ PollExpired(c) /\ Done(q)
     ELSE Done(q) /\ UNCHANGED vars
  /\ UNCHANGED <<config, bound, minted>>

(* Mutant: the scope is the one the user has approved, whatever became of  *)
(* the client since.                                                       *)
DeviceScopeAsApproved(q, scope) == TRUE
DeviceScope(q, scope) == MayHave(q, scope)

DeviceTarget(q, resource) ==
  IF PolicyOf(q) = None THEN req[q].wanted = {}
  ELSE TokenResourceAllowed(req[q].wanted, resource, PolicyOf(q).resources)

Token(user, scope, audience, refresh, later) ==
  [user |-> user, scope |-> scope, audience |-> audience, refresh |-> refresh,
   later |-> later]     \* later: the resources of the refresh token

MintDevice(q) ==
  LET b == bound[answer[q].code] IN
  /\ req[q].phase = "polled"
  /\ AnsweredWith(q, DeviceScope(q, b.scope) /\ DeviceTarget(q, b.resource),
       Token(answer[q].user, b.scope, TokenResourceGranted(req[q].wanted, b.resource),
             TRUE, b.resource))
  /\ UNCHANGED <<vars, config, bound>>

PasswordGrant(q, user, password) ==
  LET scope == Resolved(q, {}) IN
  /\ Handles(q, "password")
  /\ AnsweredWith(q,
       /\ config.passwordGrant
       /\ Login!Authenticates(FALSE, users, user, password)
       /\ MayHave(q, scope) /\ MayTarget(q),
       Token(user, scope, req[q].wanted, TRUE, req[q].wanted))
  /\ UNCHANGED <<vars, config, bound>>

(* A token of nobody's, without an ID token and without a refresh token;   *)
(* None is the service account that stands in for a missing default user.  *)
ClientCredentials(q) ==
  LET scope == Resolved(q, {}) IN
  /\ Handles(q, "client_credentials")
  /\ AnsweredWith(q, MayHave(q, scope) /\ MayTarget(q),
       Token(IF DefaultUser \in users THEN DefaultUser ELSE None,
             IF PolicyOf(q) = None THEN scope ELSE scope \ {OpenId},
             req[q].wanted, FALSE, {}))
  /\ UNCHANGED <<vars, config, bound>>

-----------------------------------------------------------------------------
Load ==
  /\ config' \in Configs
  /\ Reload
  /\ req' = [q \in Request |->
               IF req[q].phase \in {"authenticated", "polled"}
               THEN [req[q] EXCEPT !.inForce = @ \cup {config'}] ELSE req[q]]
  /\ UNCHANGED <<bound, minted>>

Crash ==
  /\ Restart
  /\ req' = [q \in Request |-> IF req[q].phase \in {"idle", "done"} THEN req[q]
                               ELSE Over]
  /\ UNCHANGED <<config, bound, minted>>

Handle(q) ==
  \/ \E c \in Code, u \in UserCode : DeviceAuthorization(q, c, u)
  \/ DeviceAuthorizationFull(q)
  \/ \E c \in Code : DevicePoll(q, c)
  \/ MintDevice(q)
  \/ \E user \in User, password \in Login!Password : PasswordGrant(q, user, password)
  \/ ClientCredentials(q)

FlowNext ==
  \/ \E q \in Request, kind \in Kind, client \in Client,
        scope \in SUBSET Scope, wanted \in SUBSET Resource :
       Authenticate(q, kind, client, scope, wanted)
  \/ \E q \in Request : Handle(q)
  \/ \E u \in UserCode, user \in User \cup {None}, password \in Login!Password,
        action \in {"authorize", "deny"} : DeviceVerify(u, user, password, action)
  \/ Load
  \/ Tick /\ UNCHANGED flowVars
  \/ Crash

FlowSpec == Init /\ [][FlowNext]_allVars

-----------------------------------------------------------------------------
(* Every token obeys a configuration that was in force while its request   *)
(* was answered, as long as that knew the client: its scope and audience   *)
(* are within that configuration's allow-lists, even where a device code   *)
(* was approved under another one (issue #276).  A device token says what  *)
(* the device asked for and who approved it; a token of client             *)
(* credentials is no login: without openid, without a refresh token, and   *)
(* never a public client's.                                                *)
TokensObeyPolicy ==
  \A q \in Request : minted[q] # None =>
    LET t == minted[q]
        known == {g \in req[q].inForce : g.clients[req[q].client] # None} IN
    /\ known = req[q].inForce =>
         \E g \in known : LET policy == g.clients[req[q].client] IN
           /\ ScopeAllowed(t.scope, g.vocabulary, policy.scopes, g.enforced)
           /\ ResourcesAllowed(t.audience, policy.resources)
    /\ req[q].kind = "device_code" =>
         LET b == bound[answer[q].code] IN
         /\ t.scope = b.scope /\ t.audience \subseteq b.resource /\ t.later = b.resource
         /\ verdicts[answer[q].code] = {t.user}
    /\ req[q].kind = "client_credentials" =>
         /\ ~ t.refresh /\ (known = req[q].inForce => OpenId \notin t.scope)
         /\ \E g \in known : ~ Public(g.clients[req[q].client])
    /\ req[q].kind = "password" => \E g \in req[q].inForce : g.passwordGrant
=============================================================================
