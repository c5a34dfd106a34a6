---------------------------- MODULE RefreshGrant ----------------------------
(***************************************************************************)
(* Refresh tokens in use: the refresh_token grant of /token                *)
(* (routes/oauth_grants.py), /revoke and /logout (routes/oauth.py), the    *)
(* RevocationStore behind them and the configuration they read while an    *)
(* operator reloads it.                                                    *)
(*                                                                         *)
(* Flask serves every request on a thread of its own, so the refresh grant *)
(* is split where its thread can be preempted between two reads of shared  *)
(* state: client authentication, the validations, the claim (one critical  *)
(* section of the store), and the resource check with the signing.  A      *)
(* refused request goes back to "idle"; the response itself is not kept.   *)
(***************************************************************************)
EXTENDS RevocationStore
INSTANCE GrantRules

CONSTANTS
  Client, User,
  Scope,       \* scope values a grant may carry
  Resource,    \* resource indicators a grant may be bound to
  Request,     \* concurrent requests to /token
  Configs,     \* configurations an operator may switch between
  Life,        \* lifetime of a refresh token: 7 days
  LongLife,    \* lifetime of a token minted through /api: no fixed bound
  MaxDelay,    \* longest time a request takes
  MaxTime      \* bound on the clock

(* The store keeps a revoked family for a day more than its tokens live;   *)
(* two request times have to fit into that day.                            *)
ASSUME LifetimeAssumption ==
  /\ Life \in Nat \ {0} /\ LongLife \in Nat /\ MaxDelay \in Nat /\ MaxTime \in Nat
  /\ Retention >= Life + 2 * MaxDelay
  /\ Forever > MaxTime + Life + LongLife + Retention + Grace

(* What a client's registration says, as far as this grant reads it.       *)
Policy == [public: BOOLEAN, scopes: SUBSET Scope, resources: SUBSET Resource]

ConfigType ==
  [rotation: BOOLEAN,                        \* settings.rotation_enabled
   enforced: BOOLEAN,                        \* settings.scope_enforcement_active
   vocabulary: SUBSET Scope,                 \* settings.scopes_supported
   users: SUBSET User,
   clients: [Client -> Policy \cup {None}]]  \* None: not registered

ASSUME ConfigAssumption == Configs \subseteq ConfigType

(* One issuance of create_token: the claims of its refresh token, and in   *)
(* audience those of the access token minted beside it.  kind "access" is  *)
(* a token of /api/users/<u>/token, which comes without a refresh token.   *)
Token ==
  [kind: {"refresh", "access"}, family: Family \cup {None},
   client: Client \cup {None}, user: User,
   scope: SUBSET Scope, resource: SUBSET Resource, audience: SUBSET Resource, exp: Nat]

(* None is none of the objects it stands in for.                           *)
ASSUME NoneAssumption ==
  /\ None \notin Policy /\ None \notin Token /\ None \notin Family /\ None \notin TokenId
  /\ None \notin Client

Phase == {"idle", "authenticated", "validated", "claimed"}

RequestState ==
  [phase: Phase, token: TokenId \cup {None}, client: Client \cup {None},
   policy: Policy \cup {None}, scope: SUBSET Scope, wanted: SUBSET Resource,
   consumed: BOOLEAN, since: Nat]

IdleRequest ==
  [phase |-> "idle", token |-> None, client |-> None, policy |-> None,
   scope |-> {}, wanted |-> {}, consumed |-> FALSE, since |-> 0]

VARIABLES
  now,         \* time.time()
  config,      \* the ConfigManager's settings, users and clients
  tokens,      \* every token signed so far
  req,         \* the requests in flight
  kept,        \* history: tokens revoked on a verified exp (claim or /revoke)
  spent,       \* history: refresh tokens consumed by rotation
  burnt,       \* history: families revoked on reuse
  forked       \* history: families a token of which was refreshed and not spent

vars == <<storeVars, now, config, tokens, req, kept, spent, burnt, forked>>

RefreshType ==
  /\ StoreType
  /\ now \in 0..MaxTime
  /\ config \in Configs
  /\ tokens \in [TokenId -> Token \cup {None}]
  /\ req \in [Request -> RequestState]
  /\ kept \in SUBSET TokenId
  /\ spent \in SUBSET TokenId
  /\ burnt \in SUBSET Family
  /\ forked \in SUBSET Family

RefreshInit ==
  /\ StoreInit
  /\ now = 0
  /\ config \in Configs
  /\ tokens = [t \in TokenId |-> None]
  /\ req = [r \in Request |-> IdleRequest]
  /\ kept = {} /\ spent = {} /\ burnt = {} /\ forked = {}

Minted(t) == tokens[t] # None
Live(t) == Minted(t) /\ now < tokens[t].exp     \* verify_jwt accepts its exp
Unused(f) == \A t \in TokenId : Minted(t) => tokens[t].family # f

(* create_jwt puts an exp into every token.                                *)
ExpiresIn(life) == now + life

(* A first issuance (code, password or device grant): create_token without *)
(* refresh_family starts a family.                                         *)
IssueRoot(t, f, client, user, scope, resource) ==
  /\ ~Minted(t)
  /\ Unused(f)
  /\ config.clients[client] # None
  /\ user \in config.users
  /\ tokens' = [tokens EXCEPT ![t] =
       [kind |-> "refresh", family |-> f, client |-> client, user |-> user,
        scope |-> scope, resource |-> resource, audience |-> resource, exp |-> ExpiresIn(Life)]]
  /\ UNCHANGED <<storeVars, now, config, req, kept, spent, burnt, forked>>

(* /api/users/<username>/token without a client: an access token alone,    *)
(* bound to no client and of any lifetime.  (With a client it is a first   *)
(* issuance like the others.)                                              *)
IssueAccess(t, user) ==
  /\ ~Minted(t)
  /\ user \in config.users
  /\ tokens' = [tokens EXCEPT ![t] =
       [kind |-> "access", family |-> None, client |-> None, user |-> user,
        scope |-> {}, resource |-> {}, audience |-> {}, exp |-> ExpiresIn(LongLife)]]
  /\ UNCHANGED <<storeVars, now, config, req, kept, spent, burnt, forked>>

(* token(): client authentication, before the grant is dispatched.         *)
Authenticate(r, client, t, scope, wanted) ==
  /\ req[r].phase = "idle"
  /\ config.clients[client] # None
  /\ Minted(t)
  /\ req' = [req EXCEPT ![r] =
       [phase |-> "authenticated", token |-> t, client |-> client, policy |-> None,
        scope |-> scope, wanted |-> wanted, consumed |-> FALSE, since |-> now]]
  /\ UNCHANGED <<storeVars, now, config, tokens, kept, spent, burnt, forked>>

Refuse(r) == req' = [req EXCEPT ![r] = IdleRequest]

(* _grant_refresh_token up to the claim.  The client is looked up again,   *)
(* so its registration may have changed, or gone, since it authenticated;  *)
(* a client that is gone is not checked for scopes at all.                 *)
\* mutant: a grant without scope is filled up from the client's allow-list
GrantedScopeDefaulted(q) ==
  IF q.scope # {} THEN q.scope
  ELSE IF tokens[q.token].scope # {} \/ config.clients[q.client] = None THEN tokens[q.token].scope
  ELSE config.clients[q.client].scopes
GrantedScope(q) == IF q.scope = {} THEN tokens[q.token].scope ELSE q.scope

PassesValidation(q) ==
  LET tok == tokens[q.token]
      policy == config.clients[q.client]
  IN  /\ Live(q.token)
      /\ tok.kind = "refresh"
      /\ tok.client = q.client
      /\ tok.user \in config.users
      /\ q.scope \subseteq tok.scope
      /\ policy # None =>
           ScopeAllowed(GrantedScope(q), config.vocabulary, policy.scopes, config.enforced)

Validate(r) ==
  /\ req[r].phase = "authenticated"
  /\ IF PassesValidation(req[r])
     THEN req' = [req EXCEPT ![r].phase = "validated",
                             ![r].scope = GrantedScope(req[r]),
                             ![r].policy = config.clients[req[r].client]]
     ELSE Refuse(r)
  /\ UNCHANGED <<storeVars, now, config, tokens, kept, spent, burnt, forked>>

(* rotation_enabled, read immediately before the claim.                    *)
Rotates(q) == config.rotation \/ (q.policy # None /\ q.policy.public)

(* check_and_claim_refresh succeeds: from here the token is consumed.  The *)
(* entry of a token that has expired since its validation may be swept     *)
(* before another request that has validated it makes its claim.           *)
Claim(r) ==
  LET q == req[r]
      t == q.token
  IN  /\ q.phase = "validated"
      /\ ClaimRefresh(t, tokens[t].family, Rotates(q), tokens[t].exp, now)
      /\ req' = [req EXCEPT ![r].phase = "claimed", ![r].consumed = Rotates(q)]
      /\ IF Rotates(q)
         THEN kept' = kept \cup {t} /\ spent' = spent \cup {t}
         ELSE UNCHANGED <<kept, spent>>
      /\ forked' = IF Rotates(q) /\ Live(t) THEN forked ELSE forked \cup {tokens[t].family}
      /\ UNCHANGED <<now, config, tokens, burnt>>

(* check_and_claim_refresh reports reuse.                                  *)
DetectReuse(r) ==
  LET q == req[r]
      t == q.token
      f == tokens[t].family
  IN  /\ q.phase = "validated"
      /\ RefuseReuse(t, f, Rotates(q), tokens[t].exp, now)
      /\ Refuse(r)
      /\ burnt' = IF Rotates(q) THEN burnt \cup {f} ELSE burnt
      /\ UNCHANGED <<now, config, tokens, kept, spent, forked>>

(* _resolve_token_resource with the client object of Validate.  Without a  *)
(* client there is no allow-list to inherit under, and a requested         *)
(* resource is refused.                                                    *)
ResourceGranted(q) ==
  LET original == tokens[q.token].resource
  IN  IF q.policy = None THEN q.wanted = {}
      ELSE TokenResourceAllowed(q.wanted, original, q.policy.resources)

(* The rest of the grant and create_token: the new refresh token keeps the *)
(* family and the FULL original resources, the access token beside it gets *)
(* the narrowed ones.                                                      *)
Mint(r, t) ==
  LET q == req[r]
      old == tokens[q.token]
  IN  /\ q.phase = "claimed"
      /\ ResourceGranted(q)
      /\ ~Minted(t)
      /\ tokens' = [tokens EXCEPT ![t] =
           [kind |-> "refresh", family |-> old.family, client |-> old.client,
            user |-> old.user, scope |-> q.scope, resource |-> old.resource,
            audience |-> TokenResourceGranted(q.wanted, old.resource), exp |-> ExpiresIn(Life)]]
      /\ Refuse(r)
      /\ UNCHANGED <<storeVars, now, config, kept, spent, burnt, forked>>

RefuseTarget(r) ==
  /\ req[r].phase = "claimed"
  /\ ~ResourceGranted(req[r])
  /\ Refuse(r)
  /\ UNCHANGED <<storeVars, now, config, tokens, kept, spent, burnt, forked>>

(* /revoke: the payload is verified, a public client may only revoke what  *)
(* it owns.                                                                *)
RevokeToken(client, t) ==
  LET policy == config.clients[client]
  IN  /\ policy # None
      /\ Live(t)
      /\ policy.public => tokens[t].client = client
      /\ Revoke(t, tokens[t].exp, now)
      /\ kept' = kept \cup {t}
      /\ UNCHANGED <<now, config, tokens, req, spent, burnt, forked>>

(* /logout: the hint is decoded without verification, so its expiry is not *)
(* used and an expired token is revoked just the same.                     *)
EndSession(t) ==
  /\ Minted(t)
  /\ Revoke(t, Unset, now)
  /\ UNCHANGED <<now, config, tokens, req, kept, spent, burnt, forked>>

(* The operator saves or reloads the configuration files.                  *)
Reload ==
  /\ config' \in Configs
  /\ UNCHANGED <<storeVars, now, tokens, req, kept, spent, burnt, forked>>

(* The clock; no request is older than MaxDelay.                           *)
Tick ==
  /\ now < MaxTime
  /\ \A r \in Request : req[r].phase # "idle" => now < req[r].since + MaxDelay
  /\ now' = now + 1
  /\ UNCHANGED <<storeVars, config, tokens, req, kept, spent, burnt, forked>>

(* The process restarts.  The signing keys are on disk, so the tokens stay *)
(* valid; the revocations were in memory, and their history starts over.   *)
Restart ==
  /\ StoreReset
  /\ req' = [r \in Request |-> IdleRequest]
  /\ kept' = {} /\ spent' = {} /\ burnt' = {}
  /\ forked' = forked \cup {tokens[t].family : t \in spent}
  /\ UNCHANGED <<now, config, tokens>>

RefreshStep(r) ==
  \/ Validate(r)
  \/ Claim(r)
  \/ DetectReuse(r)
  \/ \E t \in TokenId : Mint(r, t)
  \/ RefuseTarget(r)

Next ==
  \/ \E t \in TokenId, f \in Family, c \in Client, u \in User,
        s \in SUBSET Scope, res \in SUBSET Resource : IssueRoot(t, f, c, u, s, res)
  \/ \E t \in TokenId, u \in User : IssueAccess(t, u)
  \/ \E r \in Request, c \in Client, t \in TokenId,
        s \in SUBSET Scope, w \in SUBSET Resource : Authenticate(r, c, t, s, w)
  \/ \E r \in Request : RefreshStep(r)
  \/ \E c \in Client, t \in TokenId : RevokeToken(c, t)
  \/ \E t \in TokenId : EndSession(t)
  \/ Reload
  \/ Tick
  \/ Restart

Spec == RefreshInit /\ [][Next]_vars

-----------------------------------------------------------------------------
Claims(r) == req[r].phase = "validated" /\ req'[r].phase = "claimed"

(* Rotation spends a refresh token once.  After a claim that rotates, no   *)
(* request gets past check_and_claim_refresh with that token again before  *)
(* the token expires, whatever is revoked, swept or reconfigured meanwhile *)
(* (issue #56).                                                            *)
SpentOnce ==
  [][\A r \in Request : Claims(r) /\ Live(req[r].token) => req[r].token \notin spent]_vars

(* A rotated family is a line and never a tree: of all that was ever       *)
(* signed in it, and of all requests that are about to sign, one at most   *)
(* is good for another refresh, however many present its tokens at once -  *)
(* unless a token of it was refreshed and not spent for good (rotation was *)
(* off, or the token had expired when it was claimed) or a restart has     *)
(* forgotten what was spent.                                               *)
Usable(t, f) == Live(t) /\ tokens[t].family = f /\ ~ReuseDetected(t, f, now)
Signing(r, f) == req[r].phase = "claimed" /\ tokens[req[r].token].family = f

OneHeir ==
  \A f \in Family \ forked :
    /\ \A t, u \in TokenId : Usable(t, f) /\ Usable(u, f) => t = u
    /\ \A q, r \in Request : Signing(q, f) /\ Signing(r, f) => q = r
    /\ \A t \in TokenId, r \in Request : ~(Usable(t, f) /\ Signing(r, f))

(* Once reuse was detected the whole family is dead: no token of it, not   *)
(* even one signed afterwards by a request that was already past its       *)
(* claim, is ever accepted by the grant again (RFC 9700 4.14.2).           *)
BurntFamilyIsDead ==
  [][\A r \in Request : Claims(r) => tokens[req[r].token].family \notin burnt]_vars

(* A revocation that knew the token's expiry outlives the token: sweeps,   *)
(* later revocations with a shorter horizon and logouts never let it lapse *)
(* (issues #288 and #293).                                                 *)
RevocationOutlivesToken ==
  \A t \in kept : Live(t) => IsRevoked(t)

(* A family is revoked only because one of its own tokens was presented    *)
(* after it had been revoked: no family dies of another one's reuse, and   *)
(* none while its rotation is used as intended.                            *)
OnlyReuseBurns ==
  [][\A f \in Family : revokedFamilies[f] = 0 /\ revokedFamilies'[f] # 0
       => \E r \in Request : LET t == req[r].token IN
            /\ req[r].phase = "validated" /\ req'[r].phase = "idle"
            /\ tokens[t].family = f
            /\ IsRevoked(t)]_vars

(* Along any chain of refreshes, under any sequence of reloads, a family   *)
(* only narrows: a token minted by a refresh has no scope and no resource  *)
(* the token it was minted from lacked, keeps the full set of resources    *)
(* for the next refresh, and stays with its client and user.               *)
RefreshOnlyNarrows ==
  [][\A r \in Request, t \in TokenId :
       req[r].phase = "claimed" /\ tokens[t] = None /\ tokens'[t] # None /\ req'[r].phase = "idle"
       => LET old == tokens[req[r].token]
              new == tokens'[t]
          IN  /\ new.scope \subseteq old.scope
              /\ new.resource = old.resource
              /\ new.audience \subseteq old.resource
              /\ new.client = old.client /\ new.user = old.user]_vars

(* What the comment above the claim says: it "sits after every validation  *)
(* that may reject the request, so a rejected request never consumes the   *)
(* token".                                                                 *)
RejectedNeverConsumes ==
  [][\A r \in Request :
       /\ req[r].phase = "claimed" /\ req'[r].phase = "idle"
       /\ tokens' = tokens /\ revokedTokens' = revokedTokens
       => ~req[r].consumed]_vars
=============================================================================
