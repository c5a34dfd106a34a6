-------------------------- MODULE AuthCodeStoreProofs -----------------------
(***************************************************************************)
(* The store of authorization codes is correct for any number of codes,    *)
(* clients, users, requests and any lifetime.                              *)
(***************************************************************************)
EXTENDS AuthCodeStore, TLAPS

(* What makes OneTimeUse inductive: a code somebody redeemed is no longer  *)
(* fresh, and a receipt repeats what was stored under its code.            *)
RedeemedIsClosed ==
  \A q \in Request : receipt[q] # None => codes[receipt[q].code] \in {"used", "deleted"}

IssuedHasGrant ==
  \A c \in Code : codes[c] # "unissued" => grant[c] # None

AuthCodeInv ==
  /\ AuthCodeType
  /\ RedeemedIsClosed
  /\ IssuedHasGrant
  /\ OneTimeUse
  /\ RedeemedAsIssued

-----------------------------------------------------------------------------
(* What a successful consume_code checked is what RedeemedAsIssued says.   *)
LEMMA PkceChecked ==
  ASSUME NEW g \in AuthorizationCode, NEW v \in Verifier \cup {None},
         PkceSatisfied(g, v), g.challenge # None
  PROVE  g.challenge = IF g.method = "S256" THEN Sha256(v) ELSE v
  BY StoreAssumption DEF PkceSatisfied, VerifyPkce, AuthorizationCode, Method

LEMMA CleanupKeeps ==
  ASSUME AuthCodeType, NEW c \in Code
  PROVE  /\ CleanupExpired \in [Code -> CodeState]
         /\ CleanupExpired[c] = "unissued" <=> codes[c] = "unissued"
         /\ codes[c] \in {"used", "deleted"} => CleanupExpired[c] \in {"used", "deleted"}
         /\ CleanupExpired[c] = "fresh" => codes[c] = "fresh"
  BY DEF CleanupExpired, AuthCodeType, CodeState, Stored

LEMMA InitInv == AuthCodeInit => AuthCodeInv
  BY StoreAssumption DEF AuthCodeInit, AuthCodeInv, AuthCodeType, RedeemedIsClosed,
     IssuedHasGrant, OneTimeUse, RedeemedAsIssued, CodeState

LEMMA CreateInv ==
  ASSUME AuthCodeInv,
         NEW c \in Code, NEW client \in Client, NEW redirect \in RedirectUri, NEW user \in User,
         NEW challenge \in Challenge \cup {None}, NEW method \in Method,
         CreateCode(c, client, redirect, user, challenge, method)
  PROVE  AuthCodeInv'
<1> DEFINE g == [client |-> client, redirect |-> redirect, user |-> user,
                 challenge |-> challenge, method |-> method, expires |-> ExpiresAt]
<1>1. codes[c] = "unissued" /\ codes' = [CleanupExpired EXCEPT ![c] = "fresh"]
      /\ grant' = [grant EXCEPT ![c] = g] /\ now' = now /\ receipt' = receipt
  BY DEF CreateCode
<1>2. g \in AuthorizationCode
  BY StoreAssumption DEF AuthorizationCode, ExpiresAt, AuthCodeInv, AuthCodeType
<1>3. AuthCodeType'
  BY <1>1, <1>2, CleanupKeeps DEF AuthCodeInv, AuthCodeType, CodeState
<1>4. \A q \in Request : receipt[q] # None => receipt[q].code \in Code /\ receipt[q].code # c
  BY <1>1 DEF AuthCodeInv, AuthCodeType, RedeemedIsClosed, Receipt
<1>5. RedeemedIsClosed'
  BY <1>1, <1>3, <1>4, CleanupKeeps DEF AuthCodeInv, AuthCodeType, RedeemedIsClosed
<1>6. IssuedHasGrant'
  BY <1>1, <1>2, <1>3, CleanupKeeps, NoneAssumption DEF AuthCodeInv, AuthCodeType, IssuedHasGrant
<1>7. OneTimeUse'
  BY <1>1 DEF AuthCodeInv, OneTimeUse
<1>8. RedeemedAsIssued'
  BY <1>1, <1>4 DEF AuthCodeInv, AuthCodeType, RedeemedAsIssued
<1> QED
  BY <1>3, <1>5, <1>6, <1>7, <1>8 DEF AuthCodeInv

(* The steps that only take codes away.                                    *)
LEMMA DropInv ==
  ASSUME AuthCodeInv, NEW c \in Code, codes[c] # "unissued",
         codes' = [codes EXCEPT ![c] = "deleted"], UNCHANGED <<now, grant, receipt>>
  PROVE  AuthCodeInv'
  BY DEF AuthCodeInv, AuthCodeType, CodeState, RedeemedIsClosed, IssuedHasGrant,
     OneTimeUse, RedeemedAsIssued, Receipt

LEMMA RedeemInv ==
  ASSUME AuthCodeInv,
         NEW q \in Request, NEW c \in Code, NEW client \in Client, NEW redirect \in RedirectUri,
         NEW verifier \in Verifier \cup {None},
         Redeem(q, c, client, redirect, verifier)
  PROVE  AuthCodeInv'
<1> DEFINE p == [code |-> c, client |-> client, redirect |-> redirect,
                 verifier |-> verifier, user |-> grant[c].user, at |-> now]
<1>1. /\ receipt[q] = None /\ codes[c] = "fresh" /\ ~Expired(c)
      /\ Matches(grant[c], client, redirect, verifier)
      /\ codes' = [codes EXCEPT ![c] = "used"]
      /\ receipt' = [receipt EXCEPT ![q] = p]
      /\ now' = now /\ grant' = grant
  BY DEF Redeem, Spend
<1>2. grant[c] \in AuthorizationCode
  BY <1>1 DEF AuthCodeInv, AuthCodeType, IssuedHasGrant
<1>3. p \in Receipt
  BY <1>2 DEF Receipt, AuthorizationCode, AuthCodeInv, AuthCodeType
<1>4. AuthCodeType'
  BY <1>1, <1>3 DEF AuthCodeInv, AuthCodeType, CodeState
<1>5. \A r \in Request : receipt[r] # None => receipt[r].code \in Code /\ receipt[r].code # c
  BY <1>1 DEF AuthCodeInv, AuthCodeType, RedeemedIsClosed, Receipt
<1>6. p.code = c /\ \A r \in Request : receipt'[r] = IF r = q THEN p ELSE receipt[r]
  BY <1>1 DEF AuthCodeInv, AuthCodeType
<1>7. RedeemedIsClosed'
  BY <1>1, <1>5, <1>6 DEF AuthCodeInv, AuthCodeType, RedeemedIsClosed
<1>8. IssuedHasGrant'
  BY <1>1 DEF AuthCodeInv, AuthCodeType, IssuedHasGrant
<1>9. OneTimeUse'
  BY <1>5, <1>6 DEF AuthCodeInv, OneTimeUse
<1>10. RedeemedAsIssued'
  <2>1. grant[c].client = client /\ grant[c].redirect = redirect /\ now <= grant[c].expires
    BY <1>1, <1>2 DEF Matches, Expired, AuthorizationCode, AuthCodeInv, AuthCodeType
  <2>2. grant[c].challenge # None =>
          grant[c].challenge = IF grant[c].method = "S256" THEN Sha256(verifier) ELSE verifier
    BY <1>1, <1>2, PkceChecked DEF Matches
  <2> QED
    BY <1>1, <1>2, <1>6, <2>1, <2>2, NoneAssumption DEF AuthCodeInv, RedeemedAsIssued
<1> QED
  BY <1>4, <1>7, <1>8, <1>9, <1>10 DEF AuthCodeInv

LEMMA TickInv == ASSUME AuthCodeInv, Tick PROVE AuthCodeInv'
  BY StoreAssumption DEF Tick, AuthCodeInv, AuthCodeType, RedeemedIsClosed, IssuedHasGrant,
     OneTimeUse, RedeemedAsIssued

LEMMA RestartInv == ASSUME AuthCodeInv, Restart PROVE AuthCodeInv'
<1>1. AuthCodeType'
  BY DEF Restart, AuthCodeInv, AuthCodeType, CodeState
<1>2. RedeemedIsClosed' /\ IssuedHasGrant'
  BY DEF Restart, AuthCodeInv, AuthCodeType, RedeemedIsClosed, IssuedHasGrant, Stored, Receipt
<1>3. OneTimeUse' /\ RedeemedAsIssued'
  BY DEF Restart, AuthCodeInv, OneTimeUse, RedeemedAsIssued
<1> QED
  BY <1>1, <1>2, <1>3 DEF AuthCodeInv

LEMMA NextInv == AuthCodeInv /\ [Next]_vars => AuthCodeInv'
<1> SUFFICES ASSUME AuthCodeInv, [Next]_vars PROVE AuthCodeInv'
  OBVIOUS
<1>1. ASSUME NEW c \in Code, NEW client \in Client, NEW redirect \in RedirectUri, NEW user \in User,
             NEW challenge \in Challenge \cup {None}, NEW method \in Method,
             CreateCode(c, client, redirect, user, challenge, method)
      PROVE  AuthCodeInv'
  BY <1>1, CreateInv
<1>2. ASSUME NEW q \in Request, NEW c \in Code, NEW client \in Client, NEW redirect \in RedirectUri,
             NEW verifier \in Verifier \cup {None}, ConsumeCode(q, c, client, redirect, verifier)
      PROVE  AuthCodeInv'
  <2>1. CASE DropExpired(c)
    BY <2>1, DropInv DEF DropExpired, Stored
  <2>2. CASE DropReplayed(c)
    BY <2>2, DropInv DEF DropReplayed
  <2>3. CASE Redeem(q, c, client, redirect, verifier)
    BY <2>3, RedeemInv
  <2> QED
    BY <1>2, <2>1, <2>2, <2>3 DEF ConsumeCode
<1>3. CASE UNCHANGED vars
  BY <1>3 DEF vars, AuthCodeInv, AuthCodeType, RedeemedIsClosed, IssuedHasGrant, OneTimeUse,
     RedeemedAsIssued, Expired
<1> QED
  BY <1>1, <1>2, <1>3, TickInv, RestartInv DEF Next

LEMMA SpecInv == Spec => []AuthCodeInv
  BY InitInv, NextInv, PTL DEF Spec

(* The variables keep their types.                                         *)
THEOREM TypeCorrect == Spec => []AuthCodeType
<1>1. AuthCodeInv => AuthCodeType
  BY DEF AuthCodeInv
<1> QED
  BY <1>1, SpecInv, PTL

(* consume_code answers at most one request per code, whatever requests,   *)
(* sweeps and restarts come in between.                                    *)
THEOREM CodesAreOneTime == Spec => []OneTimeUse
<1>1. AuthCodeInv => OneTimeUse
  BY DEF AuthCodeInv
<1> QED
  BY <1>1, SpecInv, PTL

(* And only the client it was issued to, at its redirect URI, with the     *)
(* verifier of its challenge, within its lifetime.                         *)
THEOREM CodesGoWhereIssued == Spec => []RedeemedAsIssued
<1>1. AuthCodeInv => RedeemedAsIssued
  BY DEF AuthCodeInv
<1> QED
  BY <1>1, SpecInv, PTL

(* A good code only leaves its owner's hands by its redemption or with the *)
(* process: no sweep and no failed presentation takes it (auth_code.py,    *)
(* consume_code and _cleanup_expired).                                     *)
THEOREM OwnersKeepTheirCodes == Spec => OnlyRedemptionBurns
<1> DEFINE Burns == \A c \in Code : codes[c] = "fresh" /\ ~Expired(c) /\ codes'[c] # "fresh"
       => \/ \E q \in Request : receipt[q] = None /\ receipt'[q] # None /\ receipt'[q].code = c
          \/ \A d \in Code : codes'[d] \notin {"fresh", "used"}
<1>1. ASSUME AuthCodeInv, [Next]_vars PROVE [Burns]_vars
  <2>1. SUFFICES ASSUME NEW c \in Code, codes[c] = "fresh", ~Expired(c), codes'[c] # "fresh"
                 PROVE  \/ \E q \in Request : /\ receipt[q] = None
                                            /\ receipt'[q] # None /\ receipt'[q].code = c
                        \/ \A d \in Code : codes'[d] \notin {"fresh", "used"}
    OBVIOUS
  <2>2. codes \in [Code -> CodeState] /\ receipt \in [Request -> Receipt \cup {None}]
    BY <1>1 DEF AuthCodeInv, AuthCodeType
  <2>3. ASSUME NEW d \in Code, NEW client \in Client, NEW redirect \in RedirectUri, NEW user \in User,
               NEW challenge \in Challenge \cup {None}, NEW method \in Method,
               CreateCode(d, client, redirect, user, challenge, method)
        PROVE  FALSE
    BY <2>1, <2>2, <2>3 DEF CreateCode, CleanupExpired
  <2>4. ASSUME NEW q \in Request, NEW d \in Code, NEW client \in Client, NEW redirect \in RedirectUri,
               NEW verifier \in Verifier \cup {None}, Redeem(q, d, client, redirect, verifier)
        PROVE  receipt[q] = None /\ receipt'[q] # None /\ receipt'[q].code = c
    <3> DEFINE p == [code |-> d, client |-> client, redirect |-> redirect,
                     verifier |-> verifier, user |-> grant[d].user, at |-> now]
    <3>1. receipt[q] = None /\ receipt' = [receipt EXCEPT ![q] = p] /\ codes[d] = "fresh"
      BY <2>4 DEF Redeem
    <3>2. d = c
      BY <2>1, <2>2, <2>4 DEF Redeem, Spend
    <3>3. grant[d] \in AuthorizationCode /\ now \in Nat
      BY <1>1, <3>1, StoreAssumption DEF AuthCodeInv, AuthCodeType, IssuedHasGrant
    <3>4. p \in Receipt
      BY <3>3 DEF Receipt, AuthorizationCode
    <3>5. receipt'[q] = p /\ p # None /\ p.code = d
      BY <2>2, <3>1, <3>4, NoneAssumption
    <3> QED BY <3>1, <3>2, <3>5
  <2>5. ASSUME NEW d \in Code, DropExpired(d) \/ DropReplayed(d) PROVE FALSE
    BY <2>1, <2>2, <2>5 DEF DropExpired, DropReplayed
  <2>6. CASE Restart
    BY <2>2, <2>6 DEF Restart, Stored, CodeState
  <2>7. CASE Tick \/ UNCHANGED vars
    BY <2>1, <2>7 DEF Tick, vars
  <2> QED BY <1>1, <2>3, <2>4, <2>5, <2>6, <2>7 DEF Next, ConsumeCode
<1>2. Spec => [][Burns]_vars
  BY <1>1, SpecInv, PTL DEF Spec
<1> QED BY <1>2 DEF OnlyRedemptionBurns

-----------------------------------------------------------------------------
(* What each step is to the one-time grant.                                *)
LEMMA InitRefines == AuthCodeInit => OneTime!OneTimeInit
  BY DEF AuthCodeInit, OneTime!OneTimeInit, standing, redeemers

(* A step that redeems nothing only moves codes along.                     *)
LEMMA ManageRefines ==
  ASSUME codes \in [Code -> CodeState], codes' \in [Code -> CodeState], receipt' = receipt,
         \A c \in Code : \/ codes'[c] = codes[c]
                         \/ codes[c] = "unissued" /\ codes'[c] = "fresh"
                         \/ codes[c] \in {"fresh", "used"} /\ codes'[c] = "deleted"
  PROVE  OneTime!Manage
<1>1. standing' \in [Code -> OneTime!Standing]
  BY DEF standing, OneTime!Standing
<1>2. \A c \in Code : OneTime!LegalMove(standing[c], standing'[c])
  BY DEF standing, OneTime!LegalMove, CodeState
<1>3. redeemers' = redeemers
  BY DEF redeemers
<1> QED
  BY <1>1, <1>2, <1>3 DEF OneTime!Manage

LEMMA RedeemRefines ==
  ASSUME AuthCodeInv,
         NEW q \in Request, NEW c \in Code, NEW client \in Client, NEW redirect \in RedirectUri,
         NEW verifier \in Verifier \cup {None},
         Redeem(q, c, client, redirect, verifier)
  PROVE  OneTime!RedeemGrant(c, q)
<1> DEFINE p == [code |-> c, client |-> client, redirect |-> redirect,
                 verifier |-> verifier, user |-> grant[c].user, at |-> now]
<1>1. /\ codes[c] = "fresh" /\ codes' = [codes EXCEPT ![c] = "used"]
      /\ receipt[q] = None /\ receipt' = [receipt EXCEPT ![q] = p]
  BY DEF Redeem, Spend
<1>2. grant[c] \in AuthorizationCode
  BY <1>1 DEF AuthCodeInv, AuthCodeType, IssuedHasGrant
<1>3. p \in Receipt /\ p # None /\ p.code = c
  BY <1>2, NoneAssumption DEF Receipt, AuthorizationCode, AuthCodeInv, AuthCodeType
<1>4. standing[c] = "open" /\ standing' = [standing EXCEPT ![c] = "closed"]
  BY <1>1 DEF standing, AuthCodeInv, AuthCodeType
<1>5. \A r \in Request : receipt'[r] = IF r = q THEN p ELSE receipt[r]
  BY <1>1 DEF AuthCodeInv, AuthCodeType
<1>6. \A d \in Code : redeemers'[d] = IF d = c THEN redeemers[d] \cup {q} ELSE redeemers[d]
  BY <1>1, <1>3, <1>5 DEF redeemers
<1>7. redeemers' = [redeemers EXCEPT ![c] = @ \cup {q}]
  BY <1>6 DEF redeemers
<1> QED
  BY <1>4, <1>7 DEF OneTime!RedeemGrant

LEMMA NextRefines ==
  AuthCodeInv /\ AuthCodeInv' /\ [Next]_vars => [OneTime!OneTimeNext]_OneTime!oneTimeVars
<1> SUFFICES ASSUME AuthCodeInv, AuthCodeInv', [Next]_vars
             PROVE  [OneTime!OneTimeNext]_OneTime!oneTimeVars
  OBVIOUS
<1>0. codes \in [Code -> CodeState] /\ codes' \in [Code -> CodeState]
  BY DEF AuthCodeInv, AuthCodeType
<1>1. ASSUME NEW c \in Code, NEW client \in Client, NEW redirect \in RedirectUri, NEW user \in User,
             NEW challenge \in Challenge \cup {None}, NEW method \in Method,
             CreateCode(c, client, redirect, user, challenge, method)
      PROVE  OneTime!Manage
  BY <1>0, <1>1, ManageRefines DEF CreateCode, CleanupExpired, Stored
<1>2. ASSUME NEW q \in Request, NEW c \in Code, NEW client \in Client, NEW redirect \in RedirectUri,
             NEW verifier \in Verifier \cup {None}, ConsumeCode(q, c, client, redirect, verifier)
      PROVE  OneTime!OneTimeNext
  <2>1. CASE DropExpired(c)
    BY <1>0, <2>1, ManageRefines DEF DropExpired, Stored, OneTime!OneTimeNext
  <2>2. CASE DropReplayed(c)
    BY <1>0, <2>2, ManageRefines DEF DropReplayed, OneTime!OneTimeNext
  <2>3. CASE Redeem(q, c, client, redirect, verifier)
    BY <2>3, RedeemRefines DEF OneTime!OneTimeNext
  <2> QED
    BY <1>2, <2>1, <2>2, <2>3 DEF ConsumeCode
<1>3. CASE Tick
  BY <1>0, <1>3, ManageRefines DEF Tick, OneTime!OneTimeNext
<1>4. CASE Restart
  BY <1>0, <1>4, ManageRefines DEF Restart, Stored, OneTime!OneTimeNext
<1>5. CASE UNCHANGED vars
  BY <1>0, <1>5, ManageRefines DEF vars, OneTime!OneTimeNext
<1> QED
  BY <1>1, <1>2, <1>3, <1>4, <1>5 DEF Next, OneTime!OneTimeNext

(* The store implements the one-time grant: every step of it opens codes,  *)
(* closes codes, or redeems one open code for one request.                 *)
THEOREM StoreIsOneTimeGrant == Spec => ImplementsOneTimeGrant
<1>1. AuthCodeInit => OneTime!OneTimeInit
  BY InitRefines
<1>2. AuthCodeInv /\ AuthCodeInv' /\ [Next]_vars => [OneTime!OneTimeNext]_OneTime!oneTimeVars
  BY NextRefines
<1> QED
  BY <1>1, <1>2, SpecInv, PTL DEF Spec, OneTime!OneTimeSpec, ImplementsOneTimeGrant

-----------------------------------------------------------------------------
OneTimeInv == OneTime!OneTimeType /\ OneTime!AtMostOneRedeemer

(* The one-time grant has at most one request answered with a grant, and   *)
(* only one that is closed by then (issue #43).  The proof uses nothing    *)
(* but the abstract specification.                                         *)
THEOREM OneRedeemerAtMost == OneTime!OneTimeSpec => []OneTime!AtMostOneRedeemer
<1> USE DEF OneTimeInv, OneTime!OneTimeType, OneTime!AtMostOneRedeemer, OneTime!Standing
<1> HIDE DEF standing, redeemers
<1>1. OneTime!OneTimeInit => OneTimeInv
  BY DEF OneTime!OneTimeInit
<1>2. OneTimeInv /\ [OneTime!OneTimeNext]_OneTime!oneTimeVars => OneTimeInv'
  <2> SUFFICES ASSUME OneTimeInv, [OneTime!OneTimeNext]_OneTime!oneTimeVars PROVE OneTimeInv'
    OBVIOUS
  <2>1. CASE OneTime!Manage
    BY <2>1 DEF OneTime!Manage, OneTime!LegalMove
  <2>2. ASSUME NEW g \in Code, NEW r \in Request, OneTime!RedeemGrant(g, r) PROVE OneTimeInv'
    <3>1. redeemers[g] = {} /\ redeemers' = [redeemers EXCEPT ![g] = {r}]
      BY <2>2 DEF OneTime!RedeemGrant
    <3>2. standing' = [standing EXCEPT ![g] = "closed"]
      BY <2>2 DEF OneTime!RedeemGrant
    <3> QED BY <3>1, <3>2
  <2>3. CASE UNCHANGED OneTime!oneTimeVars
    BY <2>3 DEF OneTime!oneTimeVars
  <2> QED BY <2>1, <2>2, <2>3 DEF OneTime!OneTimeNext
<1>3. OneTimeInv => OneTime!AtMostOneRedeemer
  OBVIOUS
<1> QED BY <1>1, <1>2, <1>3, PTL DEF OneTime!OneTimeSpec
=============================================================================
