--------------------------- MODULE RevocationStore --------------------------
(***************************************************************************)
(* services/revocation.py: the revoked token ids and the revoked rotation  *)
(* families, each remembered until an expiry.                              *)
(*                                                                         *)
(* The two dicts are functions to the expiry of an entry, 0 when there is  *)
(* no entry: revoke itself reads them with .get(id, 0.0), and an expiry is *)
(* never 0.  Both mutating methods run under the store's lock, so each is  *)
(* one formula over the whole method.                                      *)
(***************************************************************************)
EXTENDS Integers

CONSTANTS
  TokenId,     \* jti values
  Family,      \* rt_family values
  Retention,   \* _DEFAULT_RETENTION_SECONDS: 8 days
  Grace,       \* the 60 s a revocation of an expired token is still kept
  Forever,     \* float("inf"): later than every time of a run
  None,        \* expires_at=None: a verified payload without exp
  Unset        \* expires_at omitted: nothing trusted to offer

ASSUME RetentionAssumption ==
  /\ Retention \in Nat /\ Grace \in Nat \ {0} /\ Forever \in Nat
  /\ Retention > 0 /\ Forever > 0
  /\ None \notin Nat /\ Unset \notin Nat /\ None # Unset

VARIABLES
  revokedTokens,    \* _revoked_tokens
  revokedFamilies   \* _revoked_families

storeVars == <<revokedTokens, revokedFamilies>>

StoreType ==
  /\ revokedTokens \in [TokenId -> Nat]
  /\ revokedFamilies \in [Family -> Nat]

StoreInit ==
  /\ revokedTokens = [t \in TokenId |-> 0]
  /\ revokedFamilies = [f \in Family |-> 0]

Later(a, b) == IF a < b THEN b ELSE a

(* _effective_expiry: the three-state trust contract.                      *)
EffectiveExpiry(expires, now) ==
  IF expires = Unset THEN now + Retention
  ELSE IF expires = None THEN Forever
  ELSE Later(expires, now + Grace)

(* _sweep_locked, of one dict.                                             *)
Swept(entries, now) ==
  [k \in DOMAIN entries |-> IF entries[k] <= now THEN 0 ELSE entries[k]]

(* revoke.  Monotonic: a second revocation never shortens the first.       *)
\* mutant: the last revocation wins
RevokeLast(t, expires, now) ==
  /\ revokedTokens' = [Swept(revokedTokens, now) EXCEPT ![t] = EffectiveExpiry(expires, now)]
  /\ revokedFamilies' = Swept(revokedFamilies, now)
Revoke(t, expires, now) ==
  /\ revokedTokens' = [Swept(revokedTokens, now) EXCEPT
                         ![t] = Later(@, EffectiveExpiry(expires, now))]
  /\ revokedFamilies' = Swept(revokedFamilies, now)

(* is_revoked: a membership test outside the lock, and without a sweep.    *)
IsRevoked(t) == revokedTokens[t] # 0

(* check_and_claim_refresh.  Every refresh token create_token mints has a  *)
(* jti and a family, so the two None cases of the code do not arise.       *)
FamilyRevoked(f, now) == Swept(revokedFamilies, now)[f] # 0
ReuseOfFamily(t, f, now) == FamilyRevoked(f, now)     \* mutant: the jti is not looked up
ReuseDetected(t, f, now) == Swept(revokedTokens, now)[t] # 0 \/ FamilyRevoked(f, now)

FamilyUntilExpiry(expires) == expires       \* mutant: kept as long as the ancestor only
FamilyRetention(expires) == IF expires = None THEN None ELSE Unset

\* mutant: rotation marks the family instead of the token
ClaimFamily(t, f, rotate, expires, now) ==
  /\ ~ReuseDetected(t, f, now)
  /\ revokedTokens' = Swept(revokedTokens, now)
  /\ revokedFamilies' = IF rotate THEN [revokedFamilies EXCEPT ![f] = EffectiveExpiry(Unset, now)]
                        ELSE revokedFamilies
\* mutant: what the request's validation saw of the token is good enough
ClaimUnchecked(t, f, rotate, expires, now) ==
  /\ revokedTokens' = IF rotate
                      THEN [Swept(revokedTokens, now) EXCEPT ![t] = EffectiveExpiry(expires, now)]
                      ELSE Swept(revokedTokens, now)
  /\ revokedFamilies' = Swept(revokedFamilies, now)
ClaimRefresh(t, f, rotate, expires, now) ==
  /\ ~ReuseDetected(t, f, now)
  /\ revokedTokens' = IF rotate
                      THEN [Swept(revokedTokens, now) EXCEPT ![t] = EffectiveExpiry(expires, now)]
                      ELSE Swept(revokedTokens, now)
  /\ revokedFamilies' = Swept(revokedFamilies, now)

RefuseReuse(t, f, rotate, expires, now) ==
  /\ ReuseDetected(t, f, now)
  /\ revokedTokens' = Swept(revokedTokens, now)
  /\ revokedFamilies' =
       IF rotate /\ ~FamilyRevoked(f, now)
       THEN [Swept(revokedFamilies, now) EXCEPT
               ![f] = EffectiveExpiry(FamilyRetention(expires), now)]
       ELSE Swept(revokedFamilies, now)

(* The process restarts: a new RevocationStore.  clear() does the same.    *)
StoreReset ==
  /\ revokedTokens' = [t \in TokenId |-> 0]
  /\ revokedFamilies' = [f \in Family |-> 0]
=============================================================================
