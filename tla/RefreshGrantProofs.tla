-------------------------- MODULE RefreshGrantProofs ------------------------
(***************************************************************************)
(* Rotation, reuse detection and narrowing hold for any number of tokens,  *)
(* families, clients and concurrent requests, any configurations, and any  *)
(* lifetimes within LifetimeAssumption.                                    *)
(***************************************************************************)
EXTENDS TokenUse, TLAPS

(* A request in flight holds a signed token and is not older than MaxDelay.*)
InFlight(r) ==
  LET q == req[r]
  IN  q.phase # "idle" =>
        /\ q.token \in TokenId /\ q.client \in Client
        /\ tokens[q.token] # None
        /\ q.since <= now /\ now <= q.since + MaxDelay

(* Past validation, that token is a refresh token which had not expired    *)
(* when the request came in, and the scope is within its scope.            *)
PastValidation(r) ==
  LET q == req[r]
      tok == tokens[q.token]
  IN  q.phase \in {"validated", "claimed"} =>
        /\ tok.kind = "refresh" /\ tok.client = q.client
        /\ q.since < tok.exp
        /\ q.scope \subseteq tok.scope

(* Refresh tokens have a family and live at most Life more; the others     *)
(* have none.                                                              *)
WellIssued(tok) ==
  \/ tok.kind = "access" /\ tok.family = None
  \/ tok.kind = "refresh" /\ tok.family \in Family /\ tok.exp <= now + Life

RefreshTokenOK(t) == tokens[t] # None => WellIssued(tokens[t])

(* A revocation made on a verified exp is remembered until that exp; a     *)
(* spent token is a refresh token.                                         *)
KeptUntilExpiry(t) ==
  t \in kept => /\ tokens[t] # None
                /\ tokens[t].exp <= now \/ revokedTokens[t] >= tokens[t].exp

(* The marker of a burnt family outlives each of its tokens by MaxDelay,   *)
(* and the tokens its claimed requests may still mint.                     *)
MarkerOutlives(f) ==
  f \in burnt =>
    /\ \E t \in TokenId : tokens[t] # None /\ tokens[t].family = f
    /\ \A t \in TokenId : tokens[t] # None /\ tokens[t].family = f =>
         revokedFamilies[f] >= tokens[t].exp + MaxDelay \/ now >= tokens[t].exp + MaxDelay
    /\ \A r \in Request :
         req[r].phase = "claimed" /\ tokens[req[r].token].family = f =>
           revokedFamilies[f] >= req[r].since + Life + 2 * MaxDelay

TokensInv == \A t \in TokenId : RefreshTokenOK(t)
RequestsInv == \A r \in Request : InFlight(r) /\ PastValidation(r)
KeptInv ==
  /\ spent \subseteq kept
  /\ \A t \in TokenId : KeptUntilExpiry(t)
  /\ \A t \in spent : tokens[t].family \in Family
BurntInv == \A f \in Family : MarkerOutlives(f) /\ (revokedFamilies[f] # 0 => f \in burnt)

RefreshInv ==
  /\ RefreshType
  /\ RequestsInv
  /\ TokensInv
  /\ KeptInv
  /\ BurntInv

USE DEF storeVars

-----------------------------------------------------------------------------
(* What a sweep leaves: the entries that are later than now.               *)
LEMMA SweptEntries ==
  ASSUME NEW K, NEW entries \in [K -> Nat], NEW t \in Nat
  PROVE  /\ Swept(entries, t) \in [K -> Nat]
         /\ \A k \in K : Swept(entries, t)[k] = IF entries[k] <= t THEN 0 ELSE entries[k]
  BY DEF Swept

LEMMA ExpiryLater ==
  ASSUME NEW e \in Nat \cup {Unset}, NEW t \in Nat
  PROVE  /\ EffectiveExpiry(e, t) \in Nat
         /\ e # Unset => EffectiveExpiry(e, t) >= e
         /\ e = Unset => EffectiveExpiry(e, t) = t + Retention
         /\ EffectiveExpiry(e, t) > t
  BY RetentionAssumption DEF EffectiveExpiry, Later

(* The verified exp of a signed token is a number, so the families are     *)
(* always kept for the default retention.                                  *)
LEMMA SignedToken ==
  ASSUME RefreshType, NEW t \in TokenId, tokens[t] # None
  PROVE  /\ tokens[t] \in Token
         /\ tokens[t].exp \in Nat
         /\ FamilyRetention(tokens[t].exp) = Unset
  BY RetentionAssumption DEF RefreshType, Token, FamilyRetention

LEMMA InitInv == RefreshInit => RefreshInv
  BY ConfigAssumption, LifetimeAssumption DEF RefreshInit, RefreshInv, RefreshType, StoreInit, StoreType,
     RequestsInv, TokensInv, KeptInv, BurntInv,
     InFlight, PastValidation, RefreshTokenOK, WellIssued, KeptUntilExpiry, MarkerOutlives,
     IdleRequest, RequestState, Phase

-----------------------------------------------------------------------------
(* Signing.  A new token joins no burnt family unless a claimed request    *)
(* mints it, and then the marker was set far enough ahead.                 *)
LEMMA AddTokenInv ==
  ASSUME RefreshInv,
         NEW t \in TokenId, tokens[t] = None,
         NEW new \in Token, tokens' = [tokens EXCEPT ![t] = new],
         WellIssued(new),
         \A f \in burnt : new.family = f => revokedFamilies[f] >= new.exp + MaxDelay,
         req' \in [Request -> RequestState],
         \A r \in Request : req'[r] = req[r] \/ req'[r] = IdleRequest,
         UNCHANGED <<storeVars, now, config, kept, spent, burnt, forked>>
  PROVE  RefreshInv'
<1>1. RefreshType'
  BY DEF RefreshInv, RefreshType, StoreType
<1>2. /\ tokens'[t] = new /\ new # None
      /\ \A u \in TokenId : tokens[u] # None => tokens'[u] = tokens[u]
      /\ \A u \in TokenId : u # t => tokens'[u] = tokens[u]
  BY NoneAssumption DEF RefreshInv, RefreshType
<1>3. RequestsInv'
  BY <1>2 DEF RefreshInv, RequestsInv, InFlight, PastValidation, IdleRequest
<1>4. TokensInv'
  BY <1>2 DEF RefreshInv, TokensInv, RefreshTokenOK, WellIssued
<1>5. KeptInv'
  BY <1>2 DEF RefreshInv, KeptInv, KeptUntilExpiry
<1>6. BurntInv'
  BY <1>2 DEF RefreshInv, BurntInv, MarkerOutlives, IdleRequest, RequestsInv, InFlight
<1> QED
  BY <1>1, <1>3, <1>4, <1>5, <1>6 DEF RefreshInv

LEMMA IssueRootInv ==
  ASSUME RefreshInv,
         NEW t \in TokenId, NEW f \in Family, NEW client \in Client, NEW user \in User,
         NEW scope \in SUBSET Scope, NEW resource \in SUBSET Resource,
         IssueRoot(t, f, client, user, scope, resource)
  PROVE  RefreshInv'
<1> DEFINE new == [kind |-> "refresh", family |-> f, client |-> client, user |-> user,
                   scope |-> scope, resource |-> resource, audience |-> resource,
                   exp |-> now + Life]
<1>1. new \in Token
  BY LifetimeAssumption DEF Token, RefreshInv, RefreshType
<1>2. f \notin burnt
  BY DEF IssueRoot, Unused, Minted, RefreshInv, BurntInv, MarkerOutlives
<1>3. /\ tokens[t] = None /\ tokens' = [tokens EXCEPT ![t] = new]
      /\ req' \in [Request -> RequestState] /\ req' = req
      /\ UNCHANGED <<storeVars, now, config, kept, spent, burnt, forked>>
  BY DEF IssueRoot, Minted, ExpiresIn, RefreshInv, RefreshType
<1>4. new.family = f /\ WellIssued(new)
  BY LifetimeAssumption DEF WellIssued, RefreshInv, RefreshType
<1> HIDE DEF new
<1> QED
  BY <1>1, <1>2, <1>3, <1>4, AddTokenInv

LEMMA IssueAccessInv ==
  ASSUME RefreshInv, NEW t \in TokenId, NEW user \in User, IssueAccess(t, user)
  PROVE  RefreshInv'
<1> DEFINE new == [kind |-> "access", family |-> None, client |-> None, user |-> user,
                   scope |-> {}, resource |-> {}, audience |-> {}, exp |-> now + LongLife]
<1>1. new \in Token
  BY LifetimeAssumption DEF Token, RefreshInv, RefreshType
<1>2. None \notin burnt
  BY NoneAssumption DEF RefreshInv, RefreshType
<1>3. /\ tokens[t] = None /\ tokens' = [tokens EXCEPT ![t] = new]
      /\ req' \in [Request -> RequestState] /\ req' = req
      /\ UNCHANGED <<storeVars, now, config, kept, spent, burnt, forked>>
  BY DEF IssueAccess, Minted, ExpiresIn, RefreshInv, RefreshType
<1>4. new.family = None /\ WellIssued(new)
  BY DEF WellIssued
<1> HIDE DEF new
<1> QED
  BY <1>1, <1>2, <1>3, <1>4, AddTokenInv

LEMMA MintInv ==
  ASSUME RefreshInv, NEW r \in Request, NEW t \in TokenId, Mint(r, t)
  PROVE  RefreshInv'
<1> DEFINE q == req[r]
           old == tokens[q.token]
           new == [kind |-> "refresh", family |-> old.family, client |-> old.client,
                   user |-> old.user, scope |-> q.scope, resource |-> old.resource,
                   audience |-> TokenResourceGranted(q.wanted, old.resource),
                   exp |-> now + Life]
<1>1. /\ q \in RequestState /\ q.phase = "claimed" /\ q.token \in TokenId
      /\ old \in Token /\ old.kind = "refresh" /\ old.family \in Family
      /\ now <= q.since + MaxDelay
  BY DEF Mint, RefreshInv, RefreshType, RequestsInv, InFlight, PastValidation, TokensInv, RefreshTokenOK, WellIssued
<1>2. new \in Token
  BY <1>1, LifetimeAssumption DEF Token, RequestState, TokenResourceGranted, RefreshInv, RefreshType
<1>3. old.family \in burnt => revokedFamilies[old.family] >= new.exp + MaxDelay
  BY <1>1, LifetimeAssumption
  DEF RefreshInv, RefreshType, StoreType, BurntInv, MarkerOutlives, RequestState
<1>4. req' \in [Request -> RequestState] /\ \A p \in Request : req'[p] = req[p] \/ req'[p] = IdleRequest
  BY DEF Mint, Refuse, RefreshInv, RefreshType, IdleRequest, RequestState, Phase
<1>5. /\ tokens[t] = None /\ tokens' = [tokens EXCEPT ![t] = new]
      /\ UNCHANGED <<storeVars, now, config, kept, spent, burnt, forked>>
  BY DEF Mint, Minted, ExpiresIn
<1>6. new.family = old.family /\ WellIssued(new)
  BY <1>1, LifetimeAssumption DEF WellIssued, RefreshInv, RefreshType
<1> HIDE DEF new
<1> QED
  BY <1>1, <1>2, <1>3, <1>4, <1>5, <1>6, AddTokenInv

-----------------------------------------------------------------------------
(* Steps that only touch a request that is not claimed afterwards.         *)
LEMMA RequestStepInv ==
  ASSUME RefreshInv, NEW r \in Request,
         NEW q \in RequestState, req' = [req EXCEPT ![r] = q], q.phase # "claimed",
         (InFlight(r) /\ PastValidation(r))',
         UNCHANGED <<storeVars, now, config, tokens, kept, spent, burnt, forked>>
  PROVE  RefreshInv'
<1>1. RefreshType'
  BY DEF RefreshInv, RefreshType, StoreType
<1>2. req'[r] = q /\ \A p \in Request : p # r => req'[p] = req[p]
  BY DEF RefreshInv, RefreshType
<1>3. RequestsInv'
  BY <1>2 DEF RefreshInv, RequestsInv, InFlight, PastValidation
<1>4. TokensInv' /\ KeptInv'
  BY DEF RefreshInv, TokensInv, RefreshTokenOK, WellIssued, KeptInv, KeptUntilExpiry
<1>5. BurntInv'
  BY <1>2 DEF RefreshInv, BurntInv, MarkerOutlives
<1> QED
  BY <1>1, <1>3, <1>4, <1>5 DEF RefreshInv

LEMMA IdleIsRequest == IdleRequest \in RequestState /\ IdleRequest.phase = "idle"
  BY DEF IdleRequest, RequestState, Phase

LEMMA AuthenticateInv ==
  ASSUME RefreshInv, NEW r \in Request, NEW client \in Client, NEW t \in TokenId,
         NEW scope \in SUBSET Scope, NEW wanted \in SUBSET Resource,
         Authenticate(r, client, t, scope, wanted)
  PROVE  RefreshInv'
<1> DEFINE q == [phase |-> "authenticated", token |-> t, client |-> client, policy |-> None,
                 scope |-> scope, wanted |-> wanted, consumed |-> FALSE, since |-> now]
<1>1. q \in RequestState /\ q.phase = "authenticated"
  BY DEF RequestState, Phase, RefreshInv, RefreshType
<1>2. req'[r] = q
  BY DEF Authenticate, RefreshInv, RefreshType
<1>3. (InFlight(r) /\ PastValidation(r))'
  BY <1>2, LifetimeAssumption DEF Authenticate, InFlight, PastValidation, Minted, RefreshInv, RefreshType
<1> QED
  BY <1>1, <1>3, RequestStepInv DEF Authenticate

LEMMA RefuseInv ==
  ASSUME RefreshInv, NEW r \in Request, Refuse(r),
         UNCHANGED <<storeVars, now, config, tokens, kept, spent, burnt, forked>>
  PROVE  RefreshInv'
<1>1. req'[r] = IdleRequest
  BY DEF Refuse, RefreshInv, RefreshType
<1> QED
  BY <1>1, IdleIsRequest, RequestStepInv DEF Refuse, InFlight, PastValidation

LEMMA ValidateInv ==
  ASSUME RefreshInv, NEW r \in Request, Validate(r)
  PROVE  RefreshInv'
<1> DEFINE q == [req[r] EXCEPT !.phase = "validated", !.scope = GrantedScope(req[r]),
                               !.policy = config.clients[req[r].client]]
<1>1. CASE ~PassesValidation(req[r])
  BY <1>1, RefuseInv DEF Validate
<1>2. CASE PassesValidation(req[r])
  <2>1. /\ req[r] \in RequestState /\ req[r].phase = "authenticated"
        /\ req[r].token \in TokenId /\ req[r].client \in Client
        /\ tokens[req[r].token] \in Token
        /\ req[r].since <= now /\ now <= req[r].since + MaxDelay
    BY DEF Validate, RefreshInv, RefreshType, RequestsInv, InFlight
  <2>2. config.clients[req[r].client] \in Policy \cup {None}
    BY <2>1, ConfigAssumption DEF RefreshInv, RefreshType, ConfigType
  <2>3. GrantedScope(req[r]) \in SUBSET Scope
        /\ GrantedScope(req[r]) \subseteq tokens[req[r].token].scope
    BY <1>2, <2>1 DEF GrantedScope, PassesValidation, RequestState, Token
  <2>4. q \in RequestState /\ q.phase = "validated"
    BY <2>1, <2>2, <2>3 DEF RequestState, Phase
  <2>5. req' = [req EXCEPT ![r] = q]
    BY <1>2, <2>1 DEF Validate, RequestState, RefreshInv, RefreshType
  <2>6. req'[r] = q
    BY <2>5 DEF RefreshInv, RefreshType
  <2>7. (InFlight(r) /\ PastValidation(r))'
    BY <1>2, <2>1, <2>3, <2>4, <2>6, LifetimeAssumption
    DEF InFlight, PastValidation, PassesValidation, Live, Validate, RequestsInv, RefreshInv, RefreshType,
        RequestState, Token
  <2> QED
    BY <2>4, <2>5, <2>7, RequestStepInv DEF Validate
<1> QED
  BY <1>1, <1>2

LEMMA RefuseTargetInv ==
  ASSUME RefreshInv, NEW r \in Request, RefuseTarget(r) PROVE RefreshInv'
  BY RefuseInv DEF RefuseTarget

-----------------------------------------------------------------------------
(* The store's steps.  A sweep loses nothing an invariant relies on.       *)
LEMMA SweepKeeps ==
  ASSUME RefreshInv
  PROVE  /\ Swept(revokedTokens, now) \in [TokenId -> Nat]
         /\ Swept(revokedFamilies, now) \in [Family -> Nat]
         /\ \A t \in kept :
              tokens[t].exp <= now \/ Swept(revokedTokens, now)[t] >= tokens[t].exp
         /\ \A f \in burnt, t \in TokenId : tokens[t] # None /\ tokens[t].family = f =>
              \/ Swept(revokedFamilies, now)[f] >= tokens[t].exp + MaxDelay
              \/ now >= tokens[t].exp + MaxDelay
         /\ \A f \in burnt, r \in Request :
              req[r].phase = "claimed" /\ tokens[req[r].token].family = f =>
                Swept(revokedFamilies, now)[f] >= req[r].since + Life + 2 * MaxDelay
         /\ \A f \in Family : Swept(revokedFamilies, now)[f] # 0 => f \in burnt
<1>1. /\ now \in Nat /\ revokedTokens \in [TokenId -> Nat] /\ revokedFamilies \in [Family -> Nat]
      /\ kept \subseteq TokenId /\ burnt \subseteq Family
  BY LifetimeAssumption DEF RefreshInv, RefreshType, StoreType
<1>2. /\ \A t \in TokenId : tokens[t] # None => tokens[t].exp \in Nat
      /\ \A r \in Request : req[r].since \in Nat
  BY DEF RefreshInv, RefreshType, Token, RequestState
<1>t. \A t \in TokenId :
        Swept(revokedTokens, now)[t] = IF revokedTokens[t] <= now THEN 0 ELSE revokedTokens[t]
  BY <1>1, SweptEntries
<1>f. \A f \in Family :
        Swept(revokedFamilies, now)[f] = IF revokedFamilies[f] <= now THEN 0 ELSE revokedFamilies[f]
  BY <1>1, SweptEntries
<1>3. \A t \in kept : tokens[t].exp <= now \/ Swept(revokedTokens, now)[t] >= tokens[t].exp
  <2> TAKE t \in kept
  <2>1. /\ t \in TokenId /\ tokens[t].exp \in Nat /\ revokedTokens[t] \in Nat
        /\ tokens[t].exp <= now \/ revokedTokens[t] >= tokens[t].exp
    BY <1>1, <1>2 DEF RefreshInv, KeptInv, KeptUntilExpiry
  <2> QED
    BY <1>1, <1>t, <2>1
<1>4. \A f \in burnt, t \in TokenId : tokens[t] # None /\ tokens[t].family = f =>
        \/ Swept(revokedFamilies, now)[f] >= tokens[t].exp + MaxDelay
        \/ now >= tokens[t].exp + MaxDelay
  BY <1>1, <1>2, <1>f, LifetimeAssumption DEF RefreshInv, BurntInv, MarkerOutlives
<1>5. \A r \in Request : req[r].phase = "claimed" => now < req[r].since + Life + 2 * MaxDelay
  BY <1>1, <1>2, LifetimeAssumption DEF RefreshInv, RequestsInv, InFlight
<1>6. \A f \in burnt, r \in Request :
        req[r].phase = "claimed" /\ tokens[req[r].token].family = f =>
          Swept(revokedFamilies, now)[f] >= req[r].since + Life + 2 * MaxDelay
  BY <1>1, <1>2, <1>5, <1>f, LifetimeAssumption DEF RefreshInv, BurntInv, MarkerOutlives
<1> QED
  BY <1>1, <1>3, <1>4, <1>6, <1>f, SweptEntries DEF RefreshInv, BurntInv

(* /revoke and /logout: one token gets an entry that is not shorter.       *)
LEMMA RevokeKeeps ==
  ASSUME RefreshInv, NEW t \in TokenId, tokens[t] # None,
         NEW e \in {Unset, tokens[t].exp}, Revoke(t, e, now),
         kept' = IF e = Unset THEN kept ELSE kept \cup {t},
         UNCHANGED <<now, config, tokens, req, spent, burnt, forked>>
  PROVE  RefreshInv'
<1>1. now \in Nat /\ tokens[t] \in Token /\ tokens[t].exp \in Nat
  BY SignedToken, LifetimeAssumption DEF RefreshInv, RefreshType
<1>2. /\ EffectiveExpiry(e, now) \in Nat
      /\ e # Unset => EffectiveExpiry(e, now) >= tokens[t].exp
  BY <1>1, ExpiryLater
<1>3. /\ revokedTokens' \in [TokenId -> Nat]
      /\ \A u \in TokenId : revokedTokens'[u] >= Swept(revokedTokens, now)[u]
      /\ e # Unset => revokedTokens'[t] >= tokens[t].exp
      /\ revokedFamilies' = Swept(revokedFamilies, now)
  BY <1>1, <1>2, SweepKeeps DEF Revoke, Later
<1>4. RefreshType'
  BY <1>3, SweepKeeps DEF RefreshInv, RefreshType, StoreType
<1>5. RequestsInv' /\ TokensInv'
  BY DEF RefreshInv, RequestsInv, InFlight, PastValidation, TokensInv, RefreshTokenOK, WellIssued
<1>6. \A u \in TokenId : tokens[u] # None => tokens[u].exp \in Nat
  BY DEF RefreshInv, RefreshType, Token
<1>7. KeptInv'
  BY <1>1, <1>3, <1>6, SweepKeeps, RetentionAssumption DEF RefreshInv, KeptInv, KeptUntilExpiry
<1>8. BurntInv'
  BY <1>3, SweepKeeps DEF RefreshInv, BurntInv, MarkerOutlives
<1> QED
  BY <1>4, <1>5, <1>7, <1>8 DEF RefreshInv

LEMMA RevokeTokenInv ==
  ASSUME RefreshInv, NEW client \in Client, NEW t \in TokenId, RevokeToken(client, t)
  PROVE  RefreshInv'
<1>1. tokens[t] # None /\ tokens[t].exp # Unset
  BY RetentionAssumption, SignedToken DEF RevokeToken, Live, Minted, RefreshInv
<1> QED
  BY <1>1, RevokeKeeps DEF RevokeToken

LEMMA EndSessionInv ==
  ASSUME RefreshInv, NEW t \in TokenId, EndSession(t) PROVE RefreshInv'
  BY RevokeKeeps DEF EndSession, Minted

(* What a request that is about to claim can rely on.                      *)
LEMMA ValidatedRequest ==
  ASSUME RefreshInv, NEW r \in Request, req[r].phase = "validated"
  PROVE  LET t == req[r].token IN
         /\ req[r] \in RequestState /\ t \in TokenId /\ tokens[t] \in Token /\ tokens[t] # None
         /\ tokens[t].exp \in Nat /\ tokens[t].family \in Family
         /\ tokens[t].exp <= now + Life
         /\ now < tokens[t].exp + MaxDelay
         /\ req[r].since <= now /\ now <= req[r].since + MaxDelay
         /\ now \in Nat /\ req[r].since \in Nat
<1>1. /\ req[r] \in RequestState /\ req[r].token \in TokenId /\ tokens[req[r].token] # None
      /\ now \in Nat /\ req[r].since \in Nat
      /\ req[r].since <= now /\ now <= req[r].since + MaxDelay
  BY LifetimeAssumption DEF RefreshInv, RefreshType, RequestsInv, InFlight, RequestState
<1>2. tokens[req[r].token] \in Token /\ tokens[req[r].token].exp \in Nat
  BY <1>1, SignedToken DEF RefreshInv
<1>3. tokens[req[r].token].kind = "refresh" /\ req[r].since < tokens[req[r].token].exp
  BY DEF RefreshInv, RequestsInv, PastValidation
<1> QED
  BY <1>1, <1>2, <1>3, LifetimeAssumption DEF RefreshInv, TokensInv, RefreshTokenOK, WellIssued

(* The claim of a token whose family is burnt finds the marker.            *)
LEMMA BurntIsDetected ==
  ASSUME RefreshInv, NEW r \in Request, req[r].phase = "validated",
         tokens[req[r].token].family \in burnt
  PROVE  FamilyRevoked(tokens[req[r].token].family, now)
<1>1. \/ Swept(revokedFamilies, now)[tokens[req[r].token].family]
           >= tokens[req[r].token].exp + MaxDelay
      \/ now >= tokens[req[r].token].exp + MaxDelay
  BY ValidatedRequest, SweepKeeps
<1> QED
  BY <1>1, ValidatedRequest, LifetimeAssumption, SweepKeeps DEF FamilyRevoked

LEMMA ClaimInv ==
  ASSUME RefreshInv, NEW r \in Request, Claim(r)
  PROVE  RefreshInv'
<1> DEFINE t == req[r].token
           q == [req[r] EXCEPT !.phase = "claimed", !.consumed = Rotates(req[r])]
<1>0. /\ req[r] \in RequestState /\ t \in TokenId /\ tokens[t] \in Token /\ tokens[t] # None
      /\ tokens[t].exp \in Nat /\ tokens[t].family \in Family /\ now \in Nat
  BY ValidatedRequest DEF Claim
<1>1. req' = [req EXCEPT ![r] = q] /\ req'[r] = q /\ q.phase = "claimed"
      /\ q.token = t /\ q.client = req[r].client /\ q.since = req[r].since
      /\ q.scope = req[r].scope /\ \A p \in Request : p # r => req'[p] = req[p]
  BY <1>0 DEF Claim, RefreshInv, RefreshType, RequestState
<1>2. Rotates(req[r]) \in BOOLEAN
  BY <1>0, ConfigAssumption DEF Rotates, RefreshInv, RefreshType, ConfigType, RequestState, Policy
<1>3. q \in RequestState
  BY <1>0, <1>2 DEF RequestState, Phase
<1>4. tokens[t].family \notin burnt
  BY <1>0, BurntIsDetected DEF Claim, ClaimRefresh, ReuseDetected
<1>5. /\ EffectiveExpiry(tokens[t].exp, now) \in Nat
      /\ EffectiveExpiry(tokens[t].exp, now) >= tokens[t].exp
  BY <1>0, ExpiryLater, RetentionAssumption
<1>6. Swept(revokedTokens, now)[t] = 0
  BY DEF Claim, ClaimRefresh, ReuseDetected
<1>7. /\ revokedTokens' \in [TokenId -> Nat]
      /\ \A u \in TokenId : revokedTokens'[u] >= Swept(revokedTokens, now)[u]
      /\ Rotates(req[r]) => revokedTokens'[t] >= tokens[t].exp
      /\ revokedFamilies' = Swept(revokedFamilies, now)
  BY <1>0, <1>5, <1>6, SweepKeeps DEF Claim, ClaimRefresh
<1>8. /\ kept' = (IF Rotates(req[r]) THEN kept \cup {t} ELSE kept)
      /\ spent' = (IF Rotates(req[r]) THEN spent \cup {t} ELSE spent)
      /\ forked' \in SUBSET Family
      /\ UNCHANGED <<now, config, tokens, burnt>>
  BY <1>0 DEF Claim, RefreshInv, RefreshType
<1>9. RefreshType'
  BY <1>0, <1>1, <1>3, <1>7, <1>8, SweepKeeps DEF RefreshInv, RefreshType, StoreType
<1>10. RequestsInv'
  <2>1. /\ req[r].phase = "validated" /\ InFlight(r) /\ PastValidation(r)
    BY DEF Claim, RefreshInv, RequestsInv
  <2>2. InFlight(r)' /\ PastValidation(r)'
    <3>1. /\ req'[r].phase = "claimed" /\ req'[r].token = req[r].token
          /\ req'[r].client = req[r].client /\ req'[r].since = req[r].since
          /\ req'[r].scope = req[r].scope
      BY <1>1
    <3>2. tokens' = tokens /\ now' = now
      BY <1>8
    <3> QED
      BY <2>1, <3>1, <3>2 DEF InFlight, PastValidation
  <2> QED
    BY <1>1, <1>8, <2>2 DEF RefreshInv, RequestsInv, InFlight, PastValidation
<1>11. TokensInv'
  BY <1>8 DEF RefreshInv, TokensInv, RefreshTokenOK, WellIssued
<1>12. \A u \in TokenId : tokens[u] # None => tokens[u].exp \in Nat
  BY DEF RefreshInv, RefreshType, Token
<1>13. KeptInv'
  BY <1>0, <1>7, <1>8, <1>12, SweepKeeps DEF RefreshInv, KeptInv, KeptUntilExpiry
<1>14. BurntInv'
  BY <1>1, <1>4, <1>7, <1>8, SweepKeeps DEF RefreshInv, BurntInv, MarkerOutlives
<1> QED
  BY <1>9, <1>10, <1>11, <1>13, <1>14 DEF RefreshInv

LEMMA DetectReuseInv ==
  ASSUME RefreshInv, NEW r \in Request, DetectReuse(r)
  PROVE  RefreshInv'
<1> DEFINE t == req[r].token
           f == tokens[t].family
<1>0. /\ t \in TokenId /\ tokens[t] # None /\ tokens[t].exp \in Nat /\ f \in Family /\ now \in Nat
      /\ FamilyRetention(tokens[t].exp) = Unset
  BY ValidatedRequest, SignedToken DEF DetectReuse, RefreshInv
<1>1. req'[r] = IdleRequest /\ \A p \in Request : p # r => req'[p] = req[p]
  BY DEF DetectReuse, Refuse, RefreshInv, RefreshType
<1>2. EffectiveExpiry(Unset, now) = now + Retention
  BY <1>0, ExpiryLater
<1>3. /\ revokedTokens' = Swept(revokedTokens, now)
      /\ revokedFamilies' = IF Rotates(req[r]) /\ ~FamilyRevoked(f, now)
                            THEN [Swept(revokedFamilies, now) EXCEPT ![f] = now + Retention]
                            ELSE Swept(revokedFamilies, now)
      /\ burnt' = (IF Rotates(req[r]) THEN burnt \cup {f} ELSE burnt)
      /\ UNCHANGED <<now, config, tokens, kept, spent, forked>>
  BY <1>0, <1>2 DEF DetectReuse, RefuseReuse
<1>4. RefreshType'
  BY <1>0, <1>1, <1>3, SweepKeeps, IdleIsRequest, RetentionAssumption
  DEF RefreshInv, RefreshType, StoreType, DetectReuse, Refuse
<1>5. RequestsInv'
  BY <1>1, <1>3, IdleIsRequest DEF RefreshInv, RequestsInv, InFlight, PastValidation
<1>6. TokensInv'
  BY <1>3 DEF RefreshInv, TokensInv, RefreshTokenOK, WellIssued
<1>7. KeptInv'
  BY <1>3, SweepKeeps DEF RefreshInv, KeptInv, KeptUntilExpiry
<1>8. BurntInv'
  <2>1. ASSUME NEW g \in Family, g # f \/ ~Rotates(req[r]) \/ FamilyRevoked(f, now)
        PROVE  MarkerOutlives(g)' /\ (revokedFamilies'[g] # 0 => g \in burnt')
    <3>1. revokedFamilies'[g] = Swept(revokedFamilies, now)[g]
      BY <1>0, <1>3, <2>1, SweepKeeps
    <3>2. g \in burnt' <=> g \in burnt
      BY <1>3, <2>1, SweepKeeps DEF FamilyRevoked
    <3> QED
      BY <1>1, <1>3, <3>1, <3>2, SweepKeeps, IdleIsRequest DEF RefreshInv, BurntInv, MarkerOutlives
  <2>2. ASSUME NEW g \in Family, g = f, Rotates(req[r]), ~FamilyRevoked(f, now)
        PROVE  MarkerOutlives(g)' /\ (revokedFamilies'[g] # 0 => g \in burnt')
    <3>1. revokedFamilies'[g] = now + Retention /\ g \in burnt'
      BY <1>0, <1>3, <2>2, SweepKeeps
    <3>2. \A u \in TokenId : tokens[u] # None /\ tokens[u].family = g =>
            tokens[u].exp \in Nat /\ tokens[u].exp <= now + Life
      BY <1>0, NoneAssumption, LifetimeAssumption
      DEF RefreshInv, RefreshType, TokensInv, RefreshTokenOK, WellIssued, Token
    <3>3. \A p \in Request : req'[p].phase = "claimed" =>
            req'[p] = req[p] /\ req[p].since \in Nat /\ req[p].since <= now
      BY <1>1, IdleIsRequest DEF RefreshInv, RefreshType, RequestState, RequestsInv, InFlight
    <3>4. tokens[t].family = g /\ t \in TokenId /\ tokens[t] # None
      BY <1>0, <2>2
    <3> HIDE DEF t, f
    <3> QED
      BY <1>0, <1>3, <3>1, <3>2, <3>3, <3>4, LifetimeAssumption, RetentionAssumption DEF MarkerOutlives
  <2> QED
    BY <2>1, <2>2 DEF BurntInv
<1> QED
  BY <1>4, <1>5, <1>6, <1>7, <1>8 DEF RefreshInv

-----------------------------------------------------------------------------
LEMMA ReloadInv == ASSUME RefreshInv, Reload PROVE RefreshInv'
<1>1. RefreshType'
  BY DEF Reload, RefreshInv, RefreshType, StoreType
<1>2. RequestsInv' /\ TokensInv'
  BY DEF Reload, RefreshInv, RequestsInv, InFlight, PastValidation, TokensInv, RefreshTokenOK, WellIssued
<1>3. KeptInv' /\ BurntInv'
  BY DEF Reload, RefreshInv, KeptInv, KeptUntilExpiry, BurntInv, MarkerOutlives
<1> QED
  BY <1>1, <1>2, <1>3 DEF RefreshInv

LEMMA TickInv == ASSUME RefreshInv, Tick PROVE RefreshInv'
<1>1. RefreshType' /\ now \in Nat /\ now' = now + 1
  BY LifetimeAssumption DEF Tick, RefreshInv, RefreshType, StoreType
<1>2. /\ \A t \in TokenId : tokens[t] # None => tokens[t].exp \in Nat
      /\ \A r \in Request : req[r].since \in Nat
      /\ revokedTokens \in [TokenId -> Nat] /\ revokedFamilies \in [Family -> Nat]
  BY DEF RefreshInv, RefreshType, StoreType, Token, RequestState
<1>3. RequestsInv'
  BY <1>1, <1>2, LifetimeAssumption DEF Tick, RefreshInv, RequestsInv, InFlight, PastValidation
<1>4. TokensInv'
  BY <1>1, <1>2, LifetimeAssumption DEF Tick, RefreshInv, TokensInv, RefreshTokenOK, WellIssued
<1>5. KeptInv'
  BY <1>1, <1>2 DEF Tick, RefreshInv, KeptInv, KeptUntilExpiry
<1>6. BurntInv'
  BY <1>1, <1>2, LifetimeAssumption DEF Tick, RefreshInv, BurntInv, MarkerOutlives
<1> QED
  BY <1>1, <1>3, <1>4, <1>5, <1>6 DEF RefreshInv

LEMMA RestartInv == ASSUME RefreshInv, Restart PROVE RefreshInv'
<1>0. forked' \in SUBSET Family
  BY DEF Restart, RefreshInv, RefreshType, KeptInv
<1>1. RefreshType'
  BY <1>0, IdleIsRequest DEF Restart, StoreReset, RefreshInv, RefreshType, StoreType
<1>2. RequestsInv' /\ TokensInv'
  BY IdleIsRequest
  DEF Restart, RefreshInv, RequestsInv, InFlight, PastValidation, TokensInv, RefreshTokenOK, WellIssued
<1>3. KeptInv' /\ BurntInv'
  BY DEF Restart, StoreReset, KeptInv, KeptUntilExpiry, BurntInv, MarkerOutlives
<1> QED
  BY <1>1, <1>2, <1>3 DEF RefreshInv

LEMMA StutterInv == ASSUME RefreshInv, UNCHANGED vars PROVE RefreshInv'
<1>1. RefreshType'
  BY DEF vars, RefreshInv, RefreshType, StoreType
<1>2. RequestsInv' /\ TokensInv'
  BY DEF vars, RefreshInv, RequestsInv, InFlight, PastValidation, TokensInv, RefreshTokenOK, WellIssued
<1>3. KeptInv' /\ BurntInv'
  BY DEF vars, RefreshInv, KeptInv, KeptUntilExpiry, BurntInv, MarkerOutlives
<1> QED
  BY <1>1, <1>2, <1>3 DEF RefreshInv

LEMMA NextInv == RefreshInv /\ [Next]_vars => RefreshInv'
<1> SUFFICES ASSUME RefreshInv, Next PROVE RefreshInv'
  BY StutterInv
<1>1. ASSUME NEW r \in Request, RefreshStep(r) PROVE RefreshInv'
  BY <1>1, ValidateInv, ClaimInv, DetectReuseInv, MintInv, RefuseTargetInv DEF RefreshStep
<1>2. ASSUME NEW t \in TokenId, NEW f \in Family, NEW c \in Client, NEW u \in User,
             NEW s \in SUBSET Scope, NEW res \in SUBSET Resource, IssueRoot(t, f, c, u, s, res)
      PROVE  RefreshInv'
  BY <1>2, IssueRootInv
<1>3. ASSUME NEW r \in Request, NEW c \in Client, NEW t \in TokenId,
             NEW s \in SUBSET Scope, NEW w \in SUBSET Resource, Authenticate(r, c, t, s, w)
      PROVE  RefreshInv'
  BY <1>3, AuthenticateInv
<1> QED
  BY <1>1, <1>2, <1>3, IssueAccessInv, RevokeTokenInv, EndSessionInv, ReloadInv, TickInv, RestartInv
  DEF Next

LEMMA SpecInv == Spec => []RefreshInv
  BY InitInv, NextInv, PTL DEF Spec

-----------------------------------------------------------------------------
(* The variables keep their types.                                         *)
THEOREM TypeCorrect == Spec => []RefreshType
<1>1. RefreshInv => RefreshType
  BY DEF RefreshInv
<1> QED
  BY <1>1, SpecInv, PTL

(* A revocation made on a verified expiry is in force as long as the token *)
(* would otherwise be accepted.                                            *)
THEOREM RevocationsLast == Spec => []RevocationOutlivesToken
<1>1. ASSUME RefreshInv PROVE RevocationOutlivesToken
  <2> SUFFICES ASSUME NEW t \in kept, Live(t) PROVE IsRevoked(t)
    BY DEF RevocationOutlivesToken
  <2>1. t \in TokenId /\ tokens[t].exp \in Nat /\ now \in Nat /\ revokedTokens[t] \in Nat
    BY <1>1, SignedToken, LifetimeAssumption DEF Live, Minted, RefreshInv, RefreshType, StoreType
  <2>2. now < tokens[t].exp /\ (tokens[t].exp <= now \/ revokedTokens[t] >= tokens[t].exp)
    BY <1>1, <2>1 DEF Live, RefreshInv, KeptInv, KeptUntilExpiry
  <2> QED
    BY <2>1, <2>2 DEF IsRevoked
<1> QED
  BY <1>1, SpecInv, PTL

(* Only Claim takes a request from "validated" to "claimed".               *)
LEMMA ClaimsIsClaim ==
  ASSUME RefreshInv, Next, NEW r \in Request, Claims(r)
  PROVE  Claim(r)
<1>0. /\ req \in [Request -> RequestState]
      /\ req[r].phase = "validated" /\ req'[r].phase = "claimed" /\ req' # req
  BY DEF Claims, RefreshInv, RefreshType
<1>1. PICK p \in Request : RefreshStep(p) \/ \E c \in Client, t \in TokenId,
        s \in SUBSET Scope, w \in SUBSET Resource : Authenticate(p, c, t, s, w)
  BY <1>0, IdleIsRequest DEF Next, IssueRoot, IssueAccess, RevokeToken, EndSession, Reload, Tick, Restart
<1>2. p = r
  BY <1>0, <1>1
  DEF RefreshStep, Authenticate, Validate, Claim, DetectReuse, Mint, RefuseTarget, Refuse
<1> QED
  BY <1>0, <1>1, <1>2, IdleIsRequest
  DEF RefreshStep, Authenticate, Validate, Claim, DetectReuse, Mint, RefuseTarget, Refuse

(* A refresh token that rotation consumed never passes the claim again     *)
(* while it is valid.                                                      *)
THEOREM TokensAreSpentOnce == Spec => SpentOnce
<1> DEFINE Once == \A r \in Request : Claims(r) /\ Live(req[r].token) => req[r].token \notin spent
<1>1. RefreshInv /\ [Next]_vars => [Once]_vars
  <2> SUFFICES ASSUME RefreshInv, Next, NEW r \in Request, Claims(r), Live(req[r].token),
                      req[r].token \in spent
               PROVE  FALSE
    OBVIOUS
  <2>1. Claim(r) /\ req[r].phase = "validated"
    BY ClaimsIsClaim DEF Claims
  <2>2. req[r].token \in kept /\ req[r].token \in TokenId
    BY <2>1, ValidatedRequest DEF RefreshInv, KeptInv
  <2>3. Swept(revokedTokens, now)[req[r].token] >= tokens[req[r].token].exp
        /\ tokens[req[r].token].exp \in Nat /\ now \in Nat /\ now < tokens[req[r].token].exp
    BY <2>1, <2>2, SweepKeeps, ValidatedRequest DEF Live
  <2> QED
    BY <2>1, <2>2, <2>3, SweepKeeps DEF Claim, ClaimRefresh, ReuseDetected
<1> QED
  BY <1>1, SpecInv, PTL DEF Spec, SpentOnce

(* A family revoked on reuse is dead for good, the tokens signed after its *)
(* revocation by requests that had already claimed included.               *)
THEOREM BurntFamiliesStayDead == Spec => BurntFamilyIsDead
<1>1. RefreshInv /\ [Next]_vars =>
        [\A r \in Request : Claims(r) => tokens[req[r].token].family \notin burnt]_vars
  BY ClaimsIsClaim, BurntIsDetected DEF Claims, Claim, ClaimRefresh, ReuseDetected
<1> QED
  BY <1>1, SpecInv, PTL DEF Spec, BurntFamilyIsDead

(* A family is marked only by DetectReuse, and then its token was revoked. *)
THEOREM FamiliesBurnOnReuse == Spec => OnlyReuseBurns
<1> DEFINE Burns(f) ==
      revokedFamilies[f] = 0 /\ revokedFamilies'[f] # 0
        => \E r \in Request : LET t == req[r].token IN
             /\ req[r].phase = "validated" /\ req'[r].phase = "idle"
             /\ tokens[t].family = f
             /\ IsRevoked(t)
<1>1. ASSUME RefreshInv, Next, NEW f \in Family, revokedFamilies[f] = 0, revokedFamilies'[f] # 0
      PROVE  \E r \in Request : DetectReuse(r) /\ revokedFamilies' # Swept(revokedFamilies, now)
  <2>1. revokedFamilies' # revokedFamilies /\ revokedFamilies' # Swept(revokedFamilies, now)
        /\ revokedFamilies'[f] # [g \in Family |-> 0][f]
    BY <1>1, SweptEntries DEF Swept, RefreshInv, RefreshType, StoreType
  <2> QED
    BY <1>1, <2>1
    DEF Next, IssueRoot, IssueAccess, Authenticate, RefreshStep, Validate, Claim, ClaimRefresh, Mint,
        RefuseTarget, RevokeToken, EndSession, Revoke, Reload, Tick, Restart, StoreReset
<1>2. ASSUME RefreshInv, Next, NEW f \in Family PROVE Burns(f)
  <2> SUFFICES ASSUME revokedFamilies[f] = 0, revokedFamilies'[f] # 0
               PROVE  \E r \in Request :
                        /\ req[r].phase = "validated" /\ req'[r].phase = "idle"
                        /\ tokens[req[r].token].family = f /\ IsRevoked(req[r].token)
    OBVIOUS
  <2>1. PICK r \in Request : DetectReuse(r) /\ revokedFamilies' # Swept(revokedFamilies, now)
    BY <1>1, <1>2
  <2>2. /\ req[r].phase = "validated" /\ req'[r] = IdleRequest
        /\ ReuseDetected(req[r].token, tokens[req[r].token].family, now)
        /\ ~FamilyRevoked(tokens[req[r].token].family, now)
        /\ \E e : revokedFamilies' = [Swept(revokedFamilies, now) EXCEPT ![tokens[req[r].token].family] = e]
    BY <1>2, <2>1 DEF DetectReuse, RefuseReuse, Refuse, RefreshInv, RefreshType
  <2>3. req[r].token \in TokenId /\ tokens[req[r].token].family \in Family
    BY <1>2, <2>2, ValidatedRequest
  <2>4. Swept(revokedFamilies, now)[f] = 0
    BY <1>2, SweptEntries DEF Swept, RefreshInv, RefreshType, StoreType
  <2>5. tokens[req[r].token].family = f
    BY <1>2, <2>2, <2>3, <2>4, SweepKeeps
  <2>6. IsRevoked(req[r].token)
    BY <1>2, <2>2, <2>3 DEF ReuseDetected, IsRevoked, Swept, RefreshInv, RefreshType, StoreType
  <2> QED
    BY <2>2, <2>5, <2>6, IdleIsRequest
<1>3. RefreshInv /\ [Next]_vars => [\A f \in Family : Burns(f)]_vars
  BY <1>2
<1> QED
  BY <1>3, SpecInv, PTL DEF Spec, OnlyReuseBurns

(* A refresh never widens what the token it was made from carried.         *)
THEOREM RefreshesNarrow == Spec => RefreshOnlyNarrows
<1> DEFINE Narrows(r, t) ==
      req[r].phase = "claimed" /\ tokens[t] = None /\ tokens'[t] # None /\ req'[r].phase = "idle"
      => LET old == tokens[req[r].token]
             new == tokens'[t]
         IN  /\ new.scope \subseteq old.scope
             /\ new.resource = old.resource
             /\ new.audience \subseteq old.resource
             /\ new.client = old.client /\ new.user = old.user
<1>1. ASSUME RefreshInv, Next, NEW r \in Request, NEW t \in TokenId,
             req[r].phase = "claimed", tokens[t] = None, tokens'[t] # None, req'[r].phase = "idle"
      PROVE  Mint(r, t)
  <2>1. tokens' # tokens /\ req' # req /\ tokens \in [TokenId -> Token \cup {None}]
        /\ req \in [Request -> RequestState]
    BY <1>1 DEF RefreshInv, RefreshType
  <2>2. PICK p \in Request, u \in TokenId : Mint(p, u)
    BY <1>1, <2>1
    DEF Next, IssueRoot, IssueAccess, Authenticate, RefreshStep, Validate, Claim, DetectReuse,
        RefuseTarget, RevokeToken, EndSession, Reload, Tick, Restart
  <2>3. p = r /\ u = t
    BY <1>1, <2>1, <2>2 DEF Mint, Refuse
  <2> QED
    BY <2>2, <2>3
<1>2. ASSUME RefreshInv, Next, NEW r \in Request, NEW t \in TokenId PROVE Narrows(r, t)
  <2> SUFFICES ASSUME req[r].phase = "claimed", tokens[t] = None, tokens'[t] # None,
                      req'[r].phase = "idle"
               PROVE  LET old == tokens[req[r].token]
                          new == tokens'[t]
                      IN  /\ new.scope \subseteq old.scope
                          /\ new.resource = old.resource
                          /\ new.audience \subseteq old.resource
                          /\ new.client = old.client /\ new.user = old.user
    OBVIOUS
  <2>1. Mint(r, t)
    BY <1>1, <1>2
  <2>2. req[r].scope \subseteq tokens[req[r].token].scope
    BY <1>2 DEF RefreshInv, RequestsInv, PastValidation
  <2>3. TokenResourceGranted(req[r].wanted, tokens[req[r].token].resource)
          \subseteq tokens[req[r].token].resource
    BY <2>1 DEF Mint, ResourceGranted, TokenResourceAllowed, TokenResourceGranted
  <2>4. /\ tokens'[t].scope = req[r].scope
        /\ tokens'[t].resource = tokens[req[r].token].resource
        /\ tokens'[t].audience = TokenResourceGranted(req[r].wanted, tokens[req[r].token].resource)
        /\ tokens'[t].client = tokens[req[r].token].client
        /\ tokens'[t].user = tokens[req[r].token].user
    BY <1>2, <2>1 DEF Mint, RefreshInv, RefreshType
  <2> QED
    BY <2>2, <2>3, <2>4
<1>3. RefreshInv /\ [Next]_vars => [\A r \in Request, t \in TokenId : Narrows(r, t)]_vars
  BY <1>2
<1> QED
  BY <1>3, SpecInv, PTL DEF Spec, RefreshOnlyNarrows

-----------------------------------------------------------------------------
(* What the endpoints make of the store.  An entry is of a signed token;   *)
(* for a refresh token, which lives no longer than the default retention,  *)
(* every way to revoke it makes an entry that outlives it.                 *)
EntryOutlives(t) ==
  revokedTokens[t] # 0 =>
    /\ tokens[t] # None
    /\ tokens[t].kind = "refresh" => revokedTokens[t] >= tokens[t].exp

EntriesInv == \A t \in TokenId : EntryOutlives(t)

(* A sweep drops entries, and a revocation makes one that is late enough.  *)
LEMMA RevokingKeepsEntries ==
  ASSUME RefreshInv, EntriesInv, NEW t \in TokenId, tokens[t] # None, tokens' = tokens,
         NEW e \in Nat, tokens[t].kind = "refresh" => e >= tokens[t].exp,
         \/ revokedTokens' = Swept(revokedTokens, now)
         \/ revokedTokens' = [Swept(revokedTokens, now) EXCEPT ![t] = e]
  PROVE  EntriesInv'
<1>1. now \in Nat /\ revokedTokens \in [TokenId -> Nat]
  BY LifetimeAssumption DEF RefreshInv, RefreshType, StoreType
<1>2. /\ Swept(revokedTokens, now) \in [TokenId -> Nat]
      /\ \A u \in TokenId : Swept(revokedTokens, now)[u] =
                              IF revokedTokens[u] <= now THEN 0 ELSE revokedTokens[u]
  BY <1>1, SweptEntries
<1>3. ASSUME NEW u \in TokenId PROVE EntryOutlives(u)'
  <2>1. \/ revokedTokens'[u] = 0 \/ revokedTokens'[u] = revokedTokens[u]
        \/ u = t /\ revokedTokens'[u] = e
    BY <1>2
  <2> QED
    BY <2>1 DEF EntriesInv, EntryOutlives
<1> QED
  BY <1>3 DEF EntriesInv

(* Revoked on its own exp or for the default retention: a refresh token is *)
(* outlived either way.                                                    *)
LEMMA LateEnough ==
  ASSUME RefreshInv, NEW t \in TokenId, tokens[t] # None, NEW e \in {tokens[t].exp, Unset},
         NEW old \in Nat
  PROVE  LET x == EffectiveExpiry(e, now) IN
         /\ x \in Nat /\ (tokens[t].kind = "refresh" => x >= tokens[t].exp)
         /\ Later(old, x) \in Nat /\ (tokens[t].kind = "refresh" => Later(old, x) >= tokens[t].exp)
<1> DEFINE x == EffectiveExpiry(e, now)
<1>1. tokens[t].exp \in Nat /\ now \in Nat
  BY SignedToken, LifetimeAssumption DEF RefreshInv, RefreshType
<1>2. tokens[t].kind = "refresh" => tokens[t].exp <= now + Life
  BY DEF RefreshInv, TokensInv, RefreshTokenOK, WellIssued
<1>3. /\ x \in Nat /\ (e # Unset => x >= e) /\ (e = Unset => x = now + Retention)
  BY <1>1, ExpiryLater
<1>4. x \in Nat /\ (tokens[t].kind = "refresh" => x >= tokens[t].exp)
  BY <1>1, <1>2, <1>3, LifetimeAssumption, RetentionAssumption
<1> HIDE DEF x
<1> QED
  BY <1>1, <1>4 DEF Later, x

LEMMA EntriesNext == RefreshInv /\ EntriesInv /\ [Next]_vars => EntriesInv'
<1> SUFFICES ASSUME RefreshInv, EntriesInv, [Next]_vars PROVE EntriesInv'
  OBVIOUS
<1>1. CASE UNCHANGED <<revokedTokens, tokens>>
  BY <1>1 DEF EntriesInv, EntryOutlives
<1>2. ASSUME NEW t \in TokenId, NEW f \in Family, NEW c \in Client, NEW u \in User,
             NEW s \in SUBSET Scope, NEW res \in SUBSET Resource, IssueRoot(t, f, c, u, s, res)
      PROVE  EntriesInv'
  <2>1. PICK new : tokens' = [tokens EXCEPT ![t] = new]
    BY <1>2 DEF IssueRoot
  <2> QED
    BY <1>2, <2>1 DEF IssueRoot, Minted, EntriesInv, EntryOutlives, RefreshInv, RefreshType
<1>3. ASSUME NEW t \in TokenId, NEW u \in User, IssueAccess(t, u) PROVE EntriesInv'
  <2>1. PICK new : tokens' = [tokens EXCEPT ![t] = new]
    BY <1>3 DEF IssueAccess
  <2> QED
    BY <1>3, <2>1 DEF IssueAccess, Minted, EntriesInv, EntryOutlives, RefreshInv, RefreshType
<1>4. ASSUME NEW r \in Request, NEW t \in TokenId, Mint(r, t) PROVE EntriesInv'
  <2>1. PICK new : tokens' = [tokens EXCEPT ![t] = new]
    BY <1>4 DEF Mint
  <2> QED
    BY <1>4, <2>1 DEF Mint, Minted, EntriesInv, EntryOutlives, RefreshInv, RefreshType
<1>5. ASSUME NEW r \in Request, Claim(r) \/ DetectReuse(r) PROVE EntriesInv'
  <2> DEFINE t == req[r].token
  <2>1. t \in TokenId /\ tokens[t] # None /\ tokens' = tokens
    BY <1>5, ValidatedRequest DEF Claim, DetectReuse
  <2>2. \/ revokedTokens' = Swept(revokedTokens, now)
        \/ revokedTokens' = [Swept(revokedTokens, now) EXCEPT
                               ![t] = EffectiveExpiry(tokens[t].exp, now)]
    BY <1>5 DEF Claim, ClaimRefresh, DetectReuse, RefuseReuse
  <2> HIDE DEF t
  <2> QED
    BY <2>1, <2>2, LateEnough, RevokingKeepsEntries
<1>6. ASSUME NEW t \in TokenId, (\E c \in Client : RevokeToken(c, t)) \/ EndSession(t)
      PROVE  EntriesInv'
  <2>1. tokens[t] # None /\ tokens' = tokens
    BY <1>6 DEF RevokeToken, EndSession, Live, Minted
  <2>2. PICK e \in {tokens[t].exp, Unset} :
          revokedTokens' = [Swept(revokedTokens, now) EXCEPT
            ![t] = Later(Swept(revokedTokens, now)[t], EffectiveExpiry(e, now))]
    BY <1>6, SweepKeeps DEF RevokeToken, EndSession, Revoke
  <2>3. Swept(revokedTokens, now)[t] \in Nat
    BY SweepKeeps
  <2> QED
    BY <2>1, <2>2, <2>3, LateEnough, RevokingKeepsEntries
<1>7. CASE Restart
  BY <1>7 DEF Restart, StoreReset, EntriesInv, EntryOutlives
<1> QED
  BY <1>1, <1>2, <1>3, <1>4, <1>5, <1>6, <1>7
  DEF Next, RefreshStep, Authenticate, Validate, RefuseTarget, Reload, Tick, vars

(* What /introspect says of a live refresh token is what the refresh grant *)
(* does with it, but for burnt families, although it neither locks nor     *)
(* sweeps.                                                                 *)
THEOREM IntrospectionIsTrue == Spec => []EndpointsAgree
<1>1. RefreshInit => EntriesInv
  BY DEF RefreshInit, StoreInit, EntriesInv, EntryOutlives
<1>2. ASSUME RefreshInv, EntriesInv PROVE EndpointsAgree
  <2> SUFFICES ASSUME NEW c \in Client, NEW t \in TokenId,
                      MayIntrospect(c), Live(t), tokens[t].kind = "refresh"
               PROVE  /\ ~ Active(c, t) => Reused(t)
                      /\ Active(c, t) /\ Reused(t) => FamilyRevoked(tokens[t].family, now)
    BY DEF EndpointsAgree
  <2>1. /\ tokens[t].exp \in Nat /\ now \in Nat /\ now < tokens[t].exp
        /\ revokedTokens \in [TokenId -> Nat]
    BY <1>2, SignedToken, LifetimeAssumption
    DEF Live, Minted, RefreshInv, RefreshType, StoreType
  <2>2. Swept(revokedTokens, now)[t] = IF revokedTokens[t] <= now THEN 0 ELSE revokedTokens[t]
    BY <2>1, SweptEntries
  <2>3. revokedTokens[t] # 0 <=> Swept(revokedTokens, now)[t] # 0
    BY <1>2, <2>1, <2>2 DEF EntriesInv, EntryOutlives
  <2> QED
    BY <2>3 DEF Active, Verifies, IsRevoked, Reused, ReuseDetected
<1> QED
  BY <1>1, <1>2, EntriesNext, SpecInv, PTL DEF Spec

(* A token revoked on its own exp is good for nothing that asks, neither   *)
(* at /introspect nor at /userinfo.                                        *)
THEOREM RevokedIsUselessEverywhere == Spec => []RevokedIsUseless
<1>1. RevocationOutlivesToken => RevokedIsUseless
  BY DEF RevocationOutlivesToken, RevokedIsUseless, Active, Informs, Verifies
<1> QED
  BY <1>1, RevocationsLast, PTL

-----------------------------------------------------------------------------
(* The line of a family: of its tokens that were never spent and of the    *)
(* requests that have claimed one and not yet signed there is one at most. *)
Unspent(t, f) == tokens[t] # None /\ tokens[t].family = f /\ t \notin spent

LineOf(f) ==
  /\ \A t, u \in TokenId : Unspent(t, f) /\ Unspent(u, f) => t = u
  /\ \A q, r \in Request : Signing(q, f) /\ Signing(r, f) => q = r
  /\ \A t \in TokenId, r \in Request : ~(Unspent(t, f) /\ Signing(r, f))

LineInv == \A f \in Family \ forked : LineOf(f)

(* Where nothing is signed, claimed or forgotten.                          *)
LEMMA LineKept ==
  ASSUME LineInv, forked \subseteq forked',
         \A f \in Family \ forked' :
           /\ \A t \in TokenId : Unspent(t, f)' => Unspent(t, f)
           /\ \A r \in Request : Signing(r, f)' => Signing(r, f)
  PROVE  LineInv'
BY DEF LineInv, LineOf

(* A token that was spent, or is not live, or is revoked is no heir.       *)
LEMMA SpentIsDetected ==
  ASSUME RefreshInv, NEW t \in spent, Live(t)
  PROVE  ReuseDetected(t, tokens[t].family, now)
<1>1. t \in TokenId /\ t \in kept
  BY DEF RefreshInv, RefreshType, KeptInv
<1>2. /\ tokens[t].exp \in Nat /\ now \in Nat /\ now < tokens[t].exp
      /\ Swept(revokedTokens, now)[t] \in Nat
  BY <1>1, SignedToken, SweepKeeps, LifetimeAssumption DEF Live, Minted, RefreshInv, RefreshType
<1>3. Swept(revokedTokens, now)[t] >= tokens[t].exp
  BY <1>1, <1>2, SweepKeeps
<1> QED
  BY <1>2, <1>3 DEF ReuseDetected

(* A first token starts a family that has no other, and no request.        *)
LEMMA RootStartsLine ==
  ASSUME RefreshInv, LineInv,
         NEW t \in TokenId, NEW f \in Family, NEW client \in Client, NEW user \in User,
         NEW scope \in SUBSET Scope, NEW resource \in SUBSET Resource,
         IssueRoot(t, f, client, user, scope, resource)
  PROVE  LineInv'
<1>1. Unused(f) /\ req' = req /\ spent' = spent /\ forked' = forked
  BY DEF IssueRoot
<1>2. /\ tokens'[t].family = f
      /\ \A u \in TokenId : u # t => tokens'[u] = tokens[u]
      /\ tokens[t] = None
  BY DEF IssueRoot, Minted, RefreshInv, RefreshType
<1>3. \A g \in Family, r \in Request : Signing(r, g)' => Signing(r, g) /\ g # f
  <2> SUFFICES ASSUME NEW g \in Family, NEW r \in Request, Signing(r, g)'
               PROVE  Signing(r, g) /\ g # f
    OBVIOUS
  <2>1. req[r].phase = "claimed" /\ tokens'[req[r].token].family = g
    BY <1>1 DEF Signing
  <2>2. req[r].token \in TokenId /\ tokens[req[r].token] # None
    BY <2>1 DEF RefreshInv, RequestsInv, InFlight
  <2> QED
    BY <1>1, <1>2, <2>1, <2>2 DEF Signing, Unused, Minted
<1>4. \A g \in Family, u \in TokenId :
        Unspent(u, g)' => IF u = t THEN g = f ELSE Unspent(u, g) /\ g # f
  BY <1>1, <1>2 DEF Unspent, Unused, Minted
<1> QED
  BY <1>1, <1>3, <1>4 DEF LineInv, LineOf

(* A claim that rotates puts the request in the place of the token.        *)
LEMMA ClaimKeepsLine ==
  ASSUME RefreshInv, LineInv, NEW r \in Request, Claim(r)
  PROVE  LineInv'
<1>0. PICK t \in TokenId, f \in Family : t = req[r].token /\ f = tokens[t].family
  BY ValidatedRequest DEF Claim
<1>1. tokens[t] # None /\ tokens' = tokens
  BY <1>0, ValidatedRequest DEF Claim
<1>2. /\ spent \subseteq spent' /\ forked \subseteq forked'
      /\ \A p \in Request : p # r => req'[p] = req[p]
      /\ req'[r].token = t
  BY <1>0 DEF Claim, RefreshInv, RefreshType, RequestState
<1>3. \A g \in Family : g # f => \A p \in Request : Signing(p, g)' => Signing(p, g)
  BY <1>0, <1>1, <1>2 DEF Signing
<1>4. \A g \in Family, u \in TokenId : Unspent(u, g)' => Unspent(u, g)
  BY <1>1, <1>2 DEF Unspent
<1>5. CASE f \in forked'
  BY <1>2, <1>3, <1>4, <1>5, LineKept
<1>6. CASE f \notin forked'
  <2>1. Live(t) /\ spent' = spent \cup {t} /\ f \notin forked
    BY <1>0, <1>6 DEF Claim
  <2>2. t \notin spent
    BY <1>0, <2>1, SpentIsDetected DEF Claim, ClaimRefresh
  <2>3. Unspent(t, f) /\ LineOf(f)
    BY <1>0, <1>1, <2>1, <2>2 DEF Unspent, LineInv
  <2>4. \A u \in TokenId : ~Unspent(u, f)'
    BY <1>1, <2>1, <2>3 DEF LineOf, Unspent
  <2>5. \A p \in Request : Signing(p, f)' => p = r
    BY <1>1, <1>2, <2>3 DEF LineOf, Signing
  <2>6. LineOf(f)'
    BY <2>4, <2>5 DEF LineOf
  <2>7. ASSUME NEW g \in Family \ forked', g # f PROVE LineOf(g)'
    BY <1>2, <1>3, <1>4, <2>7 DEF LineInv, LineOf
  <2> QED
    BY <2>6, <2>7 DEF LineInv
<1> QED
  BY <1>5, <1>6

(* The token a request signs takes the place of the request.               *)
LEMMA MintKeepsLine ==
  ASSUME RefreshInv, LineInv, NEW r \in Request, NEW t \in TokenId, Mint(r, t)
  PROVE  LineInv'
<1>1. /\ req[r].phase = "claimed" /\ req[r].token \in TokenId
      /\ tokens[req[r].token] # None /\ tokens[req[r].token].family \in Family
  BY DEF Mint, RefreshInv, RequestsInv, InFlight, PastValidation, TokensInv, RefreshTokenOK, WellIssued
<1>0. PICK f \in Family : f = tokens[req[r].token].family
  BY <1>1
<1>2. /\ spent' = spent /\ forked' = forked /\ tokens[t] = None
      /\ req' = [req EXCEPT ![r] = IdleRequest]
  BY DEF Mint, Minted, Refuse
<1>3. /\ tokens'[t].family = f
      /\ \A u \in TokenId : u # t => tokens'[u] = tokens[u]
      /\ req'[r].phase # "claimed" /\ \A p \in Request : p # r => req'[p] = req[p]
  BY <1>0, <1>2, IdleIsRequest DEF Mint, RefreshInv, RefreshType
<1>4. \A g \in Family, p \in Request : Signing(p, g)' => Signing(p, g) /\ p # r
  <2> SUFFICES ASSUME NEW g \in Family, NEW p \in Request, Signing(p, g)'
               PROVE  Signing(p, g) /\ p # r
    OBVIOUS
  <2>1. p # r /\ req[p].phase = "claimed" /\ tokens'[req[p].token].family = g
    BY <1>3 DEF Signing
  <2>2. req[p].token \in TokenId /\ tokens[req[p].token] # None
    BY <2>1 DEF RefreshInv, RequestsInv, InFlight
  <2> QED
    BY <1>2, <1>3, <2>1, <2>2 DEF Signing
<1>5. \A g \in Family, u \in TokenId :
        Unspent(u, g)' => IF u = t THEN g = f ELSE Unspent(u, g)
  BY <1>2, <1>3 DEF Unspent
<1>6. Signing(r, f)
  BY <1>0, <1>1 DEF Signing
<1>7. ASSUME NEW g \in Family \ forked' PROVE LineOf(g)'
  <2>1. LineOf(g)
    BY <1>2, <1>7 DEF LineInv
  <2>2. CASE g = f
    <3>1. \A u \in TokenId : Unspent(u, f)' => u = t
      BY <1>5, <1>6, <2>1, <2>2 DEF LineOf
    <3>2. \A p \in Request : ~Signing(p, f)'
      BY <1>4, <1>6, <2>1, <2>2 DEF LineOf
    <3> QED
      BY <2>2, <3>1, <3>2 DEF LineOf
  <2>3. CASE g # f
    BY <1>4, <1>5, <2>1, <2>3 DEF LineOf
  <2> QED
    BY <2>2, <2>3
<1> QED
  BY <1>7 DEF LineInv

(* A restart that forgot no spent token of a family leaves it as it was.   *)
LEMMA RestartKeepsLine ==
  ASSUME RefreshInv, LineInv, Restart
  PROVE  LineInv'
<1>1. /\ tokens' = tokens /\ spent' = {} /\ forked' = forked \cup {tokens[t].family : t \in spent}
      /\ \A r \in Request : req'[r].phase # "claimed"
  BY IdleIsRequest DEF Restart
<1>2. \A f \in Family \ forked', t \in TokenId : Unspent(t, f)' => Unspent(t, f)
  BY <1>1 DEF Unspent
<1>3. \A f \in Family, r \in Request : ~Signing(r, f)'
  BY <1>1 DEF Signing
<1> QED
  BY <1>1, <1>2, <1>3, LineKept

LEMMA LineNext == RefreshInv /\ LineInv /\ [Next]_vars => LineInv'
<1> SUFFICES ASSUME RefreshInv, LineInv, [Next]_vars PROVE LineInv'
  OBVIOUS
<1>1. ASSUME UNCHANGED <<tokens, spent, forked>>,
             \A r \in Request : req'[r].phase = "claimed" => req'[r] = req[r]
      PROVE  LineInv'
  BY <1>1, LineKept DEF Unspent, Signing
<1>2. ASSUME NEW t \in TokenId, NEW u \in User, IssueAccess(t, u) PROVE LineInv'
  <2>1. req' = req /\ spent' = spent /\ forked' = forked /\ tokens[t] = None
    BY <1>2 DEF IssueAccess, Minted
  <2>2. /\ tokens'[t].family = None
        /\ \A v \in TokenId : v # t => tokens'[v] = tokens[v]
    BY <1>2 DEF IssueAccess, RefreshInv, RefreshType
  <2>3. \A f \in Family, v \in TokenId : Unspent(v, f)' => Unspent(v, f)
    BY <2>1, <2>2, NoneAssumption DEF Unspent
  <2>4. \A f \in Family, r \in Request : Signing(r, f)' => Signing(r, f)
    BY <2>1, <2>2, NoneAssumption DEF Signing, RefreshInv, RequestsInv, InFlight
  <2> QED
    BY <2>1, <2>3, <2>4, LineKept
<1>3. ASSUME NEW r \in Request,
             \/ Validate(r) \/ DetectReuse(r) \/ RefuseTarget(r)
             \/ \E c \in Client, t \in TokenId, s \in SUBSET Scope, w \in SUBSET Resource :
                  Authenticate(r, c, t, s, w)
      PROVE  LineInv'
  <2>1. UNCHANGED <<tokens, spent, forked>>
    BY <1>3 DEF Validate, DetectReuse, RefuseTarget, Authenticate
  <2>2. \E q : req' = [req EXCEPT ![r] = q] /\ q.phase # "claimed"
    BY <1>3, IdleIsRequest DEF Validate, DetectReuse, RefuseTarget, Authenticate, Refuse,
       RefreshInv, RefreshType, RequestState
  <2>3. \A p \in Request : req'[p].phase = "claimed" => req'[p] = req[p]
    BY <2>2 DEF RefreshInv, RefreshType
  <2> QED
    BY <1>1, <2>1, <2>3
<1>4. ASSUME UNCHANGED <<tokens, spent, forked, req>> PROVE LineInv'
  BY <1>1, <1>4
<1>5. ASSUME NEW r \in Request, RefreshStep(r) PROVE LineInv'
  BY <1>3, <1>5, ClaimKeepsLine, MintKeepsLine DEF RefreshStep
<1>6. ASSUME \/ \E c \in Client, t \in TokenId : RevokeToken(c, t)
             \/ \E t \in TokenId : EndSession(t)
             \/ Reload \/ Tick \/ UNCHANGED vars
      PROVE  LineInv'
  BY <1>4, <1>6 DEF RevokeToken, EndSession, Reload, Tick, vars
<1> QED
  BY <1>2, <1>3, <1>5, <1>6, RootStartsLine, RestartKeepsLine DEF Next

(* Under rotation one token or one request at most, of a whole family, is  *)
(* good for another refresh, with any number of tokens and requests.       *)
THEOREM FamiliesAreLines == Spec => []OneHeir
<1>1. RefreshInit => LineInv
  BY DEF RefreshInit, LineInv, LineOf, Unspent, Signing, IdleRequest
<1>2. ASSUME RefreshInv, LineInv PROVE OneHeir
  <2>1. \A f \in Family, t \in TokenId : Usable(t, f) => Unspent(t, f)
    BY <1>2, SpentIsDetected DEF Usable, Unspent, Live, Minted
  <2> QED
    BY <1>2, <2>1 DEF OneHeir, LineInv, LineOf
<1> QED
  BY <1>1, <1>2, LineNext, SpecInv, PTL DEF Spec
=============================================================================
