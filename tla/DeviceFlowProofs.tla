-------------------------- MODULE DeviceFlowProofs --------------------------
(***************************************************************************)
(* The device-code store is correct for any number of codes, user codes,   *)
(* clients, users and polls, any lifetime and any cap; the flow over it    *)
(* only takes the store's steps, and what it mints obeys the policy, for   *)
(* any configurations the operator may load.                               *)
(***************************************************************************)
EXTENDS DeviceFlow, FiniteSetTheorems, TLAPS

(* What the entry of a code says about the verdicts on it.                 *)
VerdictRecorded(c) ==
  /\ grant[c] = None => verdicts[c] = {}
  /\ grant[c] # None /\ grant[c].status = "pending" => verdicts[c] = {}
  /\ grant[c] # None /\ grant[c].status = "authorized" => verdicts[c] = {grant[c].username}
  /\ \A v, w \in verdicts[c] : v = w

(* An answered code is out of the store, so nothing reaches it any more.   *)
AnsweredIsGone(q) ==
  answer[q] # None =>
    /\ grant[answer[q].code] # None
    /\ answer[q].code \notin codes
    /\ grant[answer[q].code].client = answer[q].client
    /\ verdicts[answer[q].code] = {answer[q].user}

DeviceCodeInv ==
  /\ DeviceCodeType
  /\ \A c \in codes : grant[c] # None
  /\ IndexLeadsToEntry
  /\ \A c \in Code : VerdictRecorded(c)
  /\ \A q \in Request : AnsweredIsGone(q)
  /\ CapHolds

-----------------------------------------------------------------------------
LEMMA InitInv == ASSUME DeviceCodeInit PROVE DeviceCodeInv
<1>1. CapHolds
  BY FS_EmptySet, StoreAssumption DEF DeviceCodeInit, CapHolds
<1> QED
  BY <1>1, StoreAssumption
  DEF DeviceCodeInit, DeviceCodeInv, DeviceCodeType, IndexLeadsToEntry, VerdictRecorded, AnsweredIsGone

(* Taking entries out never grows the store, and adding one grows it by    *)
(* one.                                                                    *)
LEMMA StoreFinite == ASSUME DeviceCodeType, NEW S \in SUBSET codes
                     PROVE  /\ IsFiniteSet(S) /\ Cardinality(S) \in Nat
                            /\ Cardinality(S) <= Cardinality(codes)
                            /\ Cardinality(codes) \in Nat
  BY StoreAssumption, FS_Subset, FS_CardinalityType DEF DeviceCodeType

(* IndexWithout(gone) still leads only to entries that remain.             *)
LEMMA IndexAfter ==
  ASSUME DeviceCodeInv, NEW gone \in SUBSET codes
  PROVE  /\ IndexWithout(gone) \in [UserCode -> Code \cup {None}]
         /\ \A u \in UserCode : IndexWithout(gone)[u] # None =>
              IndexWithout(gone)[u] \in codes \ gone /\ grant[IndexWithout(gone)[u]].userCode = u
  BY DEF IndexWithout, DeviceCodeInv, DeviceCodeType, IndexLeadsToEntry

LEMMA CreateInv ==
  ASSUME DeviceCodeInv, NEW c \in Code, NEW u \in UserCode, NEW client \in Client,
         Create(c, u, client)
  PROVE  DeviceCodeInv'
<1> DEFINE kept == codes \ StaleCodes
           g == [userCode |-> u, client |-> client, expires |-> now + Lifetime,
                 status |-> "pending", username |-> None]
<1>0. StaleCodes \in SUBSET codes /\ kept \in SUBSET codes /\ codes \subseteq Code
  BY DEF StaleCodes, DeviceCodeInv, DeviceCodeType
<1>1. /\ grant[c] = None /\ codes' = kept \cup {c} /\ grant' = [grant EXCEPT ![c] = g]
      /\ byUserCode' = [IndexWithout(StaleCodes) EXCEPT ![u] = c]
      /\ UNCHANGED <<now, users, answer, verdicts>> /\ Cardinality(kept) < MaxPending
  BY DEF Create, Issued, Room
<1>2. g \in DeviceCodeGrant /\ g # None
  BY StoreAssumption, NoneAssumption DEF DeviceCodeGrant, Status, DeviceCodeInv, DeviceCodeType
<1>3. c \notin codes
  BY <1>1 DEF DeviceCodeInv
<1>4. grant'[c] = g /\ \A d \in Code : d # c => grant'[d] = grant[d]
  BY <1>1 DEF DeviceCodeInv, DeviceCodeType
<1>5. DeviceCodeType'
  BY <1>0, <1>1, <1>2, IndexAfter DEF DeviceCodeInv, DeviceCodeType
<1>6. \A d \in codes' : grant'[d] # None
  BY <1>0, <1>1, <1>2, <1>4 DEF DeviceCodeInv
<1>7. IndexLeadsToEntry'
  <2>1. \A w \in UserCode : byUserCode'[w] = IF w = u THEN c ELSE IndexWithout(StaleCodes)[w]
    BY <1>0, <1>1, IndexAfter
  <2> QED
    BY <1>0, <1>1, <1>3, <1>4, <2>1, IndexAfter DEF IndexLeadsToEntry
<1>8. \A d \in Code : VerdictRecorded(d)'
  BY <1>1, <1>2, <1>4 DEF DeviceCodeInv, VerdictRecorded
<1>9. \A q \in Request : AnsweredIsGone(q)'
  BY <1>0, <1>1, <1>4 DEF DeviceCodeInv, DeviceCodeType, AnsweredIsGone, Answer
<1>10. CapHolds'
  <2>1. IsFiniteSet(kept) /\ Cardinality(kept) \in Nat
    BY <1>0, StoreFinite DEF DeviceCodeInv
  <2>2. Cardinality(kept \cup {c}) = Cardinality(kept) + 1
    BY <1>0, <1>3, <2>1, FS_AddElement
  <2> QED
    BY <1>1, <2>1, <2>2, StoreAssumption DEF CapHolds
<1> QED
  BY <1>5, <1>6, <1>7, <1>8, <1>9, <1>10 DEF DeviceCodeInv

(* Steps that take entries out and decide nothing.                         *)
LEMMA RemoveInv ==
  ASSUME DeviceCodeInv, NEW gone \in SUBSET codes,
         codes' = codes \ gone, byUserCode' = IndexWithout(gone),
         UNCHANGED <<now, users, grant, answer, verdicts>>
  PROVE  DeviceCodeInv'
<1>1. DeviceCodeType'
  BY IndexAfter DEF DeviceCodeInv, DeviceCodeType
<1>2. IndexLeadsToEntry'
  BY IndexAfter DEF IndexLeadsToEntry
<1>3. CapHolds'
  <2>1. codes \ gone \in SUBSET codes
    OBVIOUS
  <2> QED
    BY <2>1, StoreFinite, StoreAssumption DEF DeviceCodeInv, CapHolds
<1> QED
  BY <1>1, <1>2, <1>3 DEF DeviceCodeInv, VerdictRecorded, AnsweredIsGone

LEMMA RefusedInv == ASSUME DeviceCodeInv, CreateRefused PROVE DeviceCodeInv'
<1>1. StaleCodes \in SUBSET codes
  BY DEF StaleCodes
<1> QED
  BY <1>1, RemoveInv DEF CreateRefused

LEMMA PollAuthorizedInv ==
  ASSUME DeviceCodeInv, NEW q \in Request, NEW c \in Code, NEW client \in Client,
         PollAuthorized(q, c, client)
  PROVE  DeviceCodeInv'
<1> DEFINE a == [code |-> c, client |-> client, user |-> grant[c].username]
<1>1. /\ answer[q] = None /\ c \in codes /\ grant[c].client = client
      /\ grant[c].status = "authorized" /\ grant[c].username \in users
      /\ codes' = codes \ {c} /\ byUserCode' = IndexWithout({c})
      /\ answer' = [answer EXCEPT ![q] = a]
      /\ UNCHANGED <<now, users, grant, verdicts>>
  BY DEF PollAuthorized, Take
<1>2. a \in Answer
  BY <1>1 DEF Answer, DeviceCodeInv, DeviceCodeType
<1>3. {c} \in SUBSET codes
  BY <1>1
<1>4. DeviceCodeType'
  BY <1>1, <1>2, <1>3, IndexAfter DEF DeviceCodeInv, DeviceCodeType
<1>5. IndexLeadsToEntry'
  BY <1>1, <1>3, IndexAfter DEF IndexLeadsToEntry
<1>6. CapHolds'
  <2>1. codes \ {c} \in SUBSET codes
    OBVIOUS
  <2> QED
    BY <1>1, <2>1, StoreFinite, StoreAssumption DEF DeviceCodeInv, CapHolds
<1>7. \A p \in Request : answer'[p] = IF p = q THEN a ELSE answer[p]
  BY <1>1 DEF DeviceCodeInv, DeviceCodeType
<1>8. \A p \in Request : AnsweredIsGone(p)'
  BY <1>1, <1>7 DEF DeviceCodeInv, DeviceCodeType, AnsweredIsGone, VerdictRecorded
<1> QED
  BY <1>1, <1>4, <1>5, <1>6, <1>8 DEF DeviceCodeInv, VerdictRecorded

(* Steps that change the entry of a stored code in place.                  *)
LEMMA UpdateInv ==
  ASSUME DeviceCodeInv, NEW c \in codes, NEW g \in DeviceCodeGrant,
         grant' = [grant EXCEPT ![c] = g],
         g.userCode = grant[c].userCode, g.client = grant[c].client,
         NEW V \in SUBSET (User \cup {None}), verdicts' = [verdicts EXCEPT ![c] = V],
         g.status # "pending", g.status = "authorized" => V = {g.username},
         \A v, w \in V : v = w,
         UNCHANGED <<now, users, codes, byUserCode, answer>>
  PROVE  DeviceCodeInv'
<1>1. /\ c \in Code /\ g # None
      /\ \A d \in Code : grant'[d] = IF d = c THEN g ELSE grant[d]
      /\ \A d \in Code : verdicts'[d] = IF d = c THEN V ELSE verdicts[d]
  BY NoneAssumption DEF DeviceCodeInv, DeviceCodeType
<1>2. DeviceCodeType'
  BY <1>1 DEF DeviceCodeInv, DeviceCodeType
<1>3. IndexLeadsToEntry' /\ \A d \in codes' : grant'[d] # None
  BY <1>1 DEF DeviceCodeInv, DeviceCodeType, IndexLeadsToEntry
<1>4. \A d \in Code : VerdictRecorded(d)'
  BY <1>1 DEF DeviceCodeInv, VerdictRecorded
<1>5. \A q \in Request : AnsweredIsGone(q)'
  BY <1>1 DEF DeviceCodeInv, DeviceCodeType, AnsweredIsGone, Answer
<1>6. CapHolds'
  BY DEF DeviceCodeInv, CapHolds
<1> QED
  BY <1>2, <1>3, <1>4, <1>5, <1>6 DEF DeviceCodeInv

LEMMA ExpireInv ==
  ASSUME DeviceCodeInv, NEW c \in codes, SetStatus(c, "expired"),
         UNCHANGED <<now, users, codes, byUserCode, answer, verdicts>>
  PROVE  DeviceCodeInv'
<1> DEFINE g == [grant[c] EXCEPT !.status = "expired"]
<1>1. grant[c] \in DeviceCodeGrant /\ c \in Code
  BY DEF DeviceCodeInv, DeviceCodeType
<1>2. g \in DeviceCodeGrant /\ g.status = "expired"
      /\ g.userCode = grant[c].userCode /\ g.client = grant[c].client
  BY <1>1 DEF DeviceCodeGrant, Status
<1>3. grant' = [grant EXCEPT ![c] = g] /\ verdicts' = [verdicts EXCEPT ![c] = verdicts[c]]
  BY <1>1 DEF SetStatus, DeviceCodeInv, DeviceCodeType
<1>4. verdicts[c] \in SUBSET (User \cup {None}) /\ \A v, w \in verdicts[c] : v = w
  BY <1>1 DEF DeviceCodeInv, DeviceCodeType, VerdictRecorded
<1> QED
  BY <1>2, <1>3, <1>4, UpdateInv

LEMMA DenyInv == ASSUME DeviceCodeInv, NEW u \in UserCode, Deny(u) PROVE DeviceCodeInv'
<1> DEFINE c == byUserCode[u]
           g == [grant[c] EXCEPT !.status = "denied"]
<1>1. c \in codes /\ c \in Code /\ grant[c] \in DeviceCodeGrant /\ grant[c].status = "pending"
  BY DEF Deny, Decidable, DeviceCodeInv, DeviceCodeType, IndexLeadsToEntry
<1>2. g \in DeviceCodeGrant /\ g.status = "denied"
      /\ g.userCode = grant[c].userCode /\ g.client = grant[c].client
  BY <1>1 DEF DeviceCodeGrant, Status
<1>3. verdicts[c] = {}
  BY <1>1, NoneAssumption DEF DeviceCodeInv, VerdictRecorded
<1>4. grant' = [grant EXCEPT ![c] = g] /\ verdicts' = [verdicts EXCEPT ![c] = {None}]
  BY <1>1, <1>3 DEF Deny, SetStatus, DeviceCodeInv, DeviceCodeType
<1>5. {None} \in SUBSET (User \cup {None}) /\ UNCHANGED <<now, users, codes, byUserCode, answer>>
  BY DEF Deny
<1> HIDE DEF g, c
<1> QED
  BY <1>1, <1>2, <1>4, <1>5, UpdateInv

LEMMA AuthorizeInv ==
  ASSUME DeviceCodeInv, NEW u \in UserCode, NEW user \in User, Authorize(u, user)
  PROVE  DeviceCodeInv'
<1> DEFINE c == byUserCode[u]
           g == [grant[c] EXCEPT !.status = "authorized", !.username = user]
<1>1. c \in codes /\ c \in Code /\ grant[c] \in DeviceCodeGrant /\ grant[c].status = "pending"
  BY DEF Authorize, Decidable, DeviceCodeInv, DeviceCodeType, IndexLeadsToEntry
<1>2. g \in DeviceCodeGrant /\ g.status = "authorized" /\ g.username = user
      /\ g.userCode = grant[c].userCode /\ g.client = grant[c].client
  BY <1>1 DEF DeviceCodeGrant, Status
<1>3. verdicts[c] = {}
  BY <1>1, NoneAssumption DEF DeviceCodeInv, VerdictRecorded
<1>4. grant' = [grant EXCEPT ![c] = g] /\ verdicts' = [verdicts EXCEPT ![c] = {user}]
  BY <1>1, <1>3 DEF Authorize, DeviceCodeInv, DeviceCodeType
<1>5. {user} \in SUBSET (User \cup {None}) /\ UNCHANGED <<now, users, codes, byUserCode, answer>>
  BY DEF Authorize
<1> HIDE DEF g, c
<1> QED
  BY <1>1, <1>2, <1>4, <1>5, UpdateInv

LEMMA EnvironmentInv ==
  ASSUME DeviceCodeInv, Reload \/ Tick \/ Restart \/ UNCHANGED vars
  PROVE  DeviceCodeInv'
<1>1. CASE Reload \/ Tick \/ UNCHANGED vars
  <2>1. DeviceCodeType'
    BY <1>1, StoreAssumption DEF Reload, Tick, vars, DeviceCodeInv, DeviceCodeType
  <2> QED
    BY <1>1, <2>1 DEF Reload, Tick, vars, DeviceCodeInv, IndexLeadsToEntry, VerdictRecorded,
       AnsweredIsGone, CapHolds
<1>2. CASE Restart
  <2>1. DeviceCodeType' /\ IndexLeadsToEntry'
    BY <1>2 DEF Restart, DeviceCodeInv, DeviceCodeType, IndexLeadsToEntry
  <2>2. CapHolds'
    BY <1>2, FS_EmptySet, StoreAssumption DEF Restart, CapHolds
  <2> QED
    BY <1>2, <2>1, <2>2 DEF Restart, DeviceCodeInv, VerdictRecorded, AnsweredIsGone
<1> QED
  BY <1>1, <1>2

LEMMA NextInv == DeviceCodeInv /\ [Next]_vars => DeviceCodeInv'
<1> SUFFICES ASSUME DeviceCodeInv, Next PROVE DeviceCodeInv'
  BY EnvironmentInv
<1>1. ASSUME NEW q \in Request, NEW c \in Code, NEW client \in Client, Poll(q, c, client)
      PROVE  DeviceCodeInv'
  BY <1>1, PollAuthorizedInv, ExpireInv DEF Poll, PollExpired
<1>2. ASSUME NEW u \in UserCode, Verify(u) PROVE DeviceCodeInv'
  <2>1. CASE VerifyExpired(u)
    <3>1. byUserCode[u] \in codes
      BY <2>1 DEF VerifyExpired, Decidable, DeviceCodeInv, IndexLeadsToEntry
    <3> QED
      BY <2>1, <3>1, ExpireInv DEF VerifyExpired
  <2> QED
    BY <1>2, <2>1, DenyInv, AuthorizeInv DEF Verify
<1> QED
  BY <1>1, <1>2, CreateInv, RefusedInv, EnvironmentInv DEF Next

LEMMA SpecInv == Spec => []DeviceCodeInv
<1>1. DeviceCodeInit => DeviceCodeInv
  BY InitInv
<1> QED
  BY <1>1, NextInv, PTL DEF Spec

-----------------------------------------------------------------------------
(* The variables keep their types.                                         *)
THEOREM TypeCorrect == Spec => []DeviceCodeType
<1>1. DeviceCodeInv => DeviceCodeType
  BY DEF DeviceCodeInv
<1> QED
  BY <1>1, SpecInv, PTL

(* A user code leads to an entry of the store that was made with it.       *)
THEOREM DictsAgree == Spec => []IndexLeadsToEntry
<1>1. DeviceCodeInv => IndexLeadsToEntry
  BY DEF DeviceCodeInv
<1> QED
  BY <1>1, SpecInv, PTL

(* The store never grows past its cap.                                     *)
THEOREM StoreIsCapped == Spec => []CapHolds
<1>1. DeviceCodeInv => CapHolds
  BY DEF DeviceCodeInv
<1> QED
  BY <1>1, SpecInv, PTL

(* A device is answered only with the user who authorized its code.        *)
THEOREM DevicesGetTheirApprover == Spec => []OnlyTheApprover
<1>1. DeviceCodeInv => OnlyTheApprover
  BY DEF DeviceCodeInv, OnlyTheApprover, VerdictRecorded, AnsweredIsGone
<1> QED
  BY <1>1, SpecInv, PTL

-----------------------------------------------------------------------------
(* A step that redeems nothing only moves device codes along.              *)
LEMMA ManageRefines ==
  ASSUME DeviceCodeInv, DeviceCodeInv', answer' = answer,
         codes' \subseteq codes \cup {c \in Code : grant[c] = None},
         \A c \in Code : grant[c] # None => grant'[c] # None,
         \A c \in Code : grant[c] = None /\ grant'[c] # None => c \in codes'
  PROVE  OneTime!Manage
<1>1. standing' \in [Code -> OneTime!Standing]
  BY DEF standing, OneTime!Standing
<1>2. \A c \in Code : OneTime!LegalMove(standing[c], standing'[c])
  BY DEF standing, OneTime!LegalMove, Issued, DeviceCodeInv
<1>3. redeemers' = redeemers
  BY DEF redeemers
<1> QED
  BY <1>1, <1>2, <1>3 DEF OneTime!Manage

(* In most steps no code appears and no entry is made.                     *)
LEMMA QuietRefines ==
  ASSUME DeviceCodeInv, DeviceCodeInv', answer' = answer, codes' \subseteq codes,
         \A c \in Code : grant'[c] = None <=> grant[c] = None
  PROVE  OneTime!OneTimeNext
  BY ManageRefines DEF OneTime!OneTimeNext

LEMMA RedeemRefines ==
  ASSUME DeviceCodeInv, NEW q \in Request, NEW c \in Code, NEW client \in Client,
         PollAuthorized(q, c, client)
  PROVE  OneTime!RedeemGrant(c, q)
<1> DEFINE a == [code |-> c, client |-> client, user |-> grant[c].username]
<1>1. /\ answer[q] = None /\ c \in codes /\ codes' = codes \ {c} /\ grant' = grant
      /\ answer' = [answer EXCEPT ![q] = a] /\ grant[c].username \in users
  BY DEF PollAuthorized, Take
<1>2. a \in Answer /\ a # None /\ a.code = c
  BY <1>1, NoneAssumption DEF Answer, DeviceCodeInv, DeviceCodeType
<1>3. \A p \in Request : answer'[p] = IF p = q THEN a ELSE answer[p]
  BY <1>1 DEF DeviceCodeInv, DeviceCodeType
<1>4. grant[c] # None
  BY <1>1 DEF DeviceCodeInv
<1>5. standing[c] = "open" /\ standing' = [standing EXCEPT ![c] = "closed"]
  BY <1>1, <1>4 DEF standing, Issued
<1>6. \A d \in Code : redeemers'[d] = IF d = c THEN redeemers[d] \cup {q} ELSE redeemers[d]
  BY <1>1, <1>2, <1>3 DEF redeemers
<1>7. redeemers' = [redeemers EXCEPT ![c] = @ \cup {q}]
  BY <1>6 DEF redeemers
<1> QED
  BY <1>5, <1>7 DEF OneTime!RedeemGrant

LEMMA NextRefines ==
  DeviceCodeInv /\ DeviceCodeInv' /\ [Next]_vars => [OneTime!OneTimeNext]_OneTime!oneTimeVars
<1> SUFFICES ASSUME DeviceCodeInv, DeviceCodeInv', [Next]_vars
             PROVE  OneTime!OneTimeNext
  OBVIOUS
<1>0. grant \in [Code -> DeviceCodeGrant \cup {None}] /\ grant' \in [Code -> DeviceCodeGrant \cup {None}]
  BY DEF DeviceCodeInv, DeviceCodeType
<1>1. ASSUME NEW c \in Code, NEW u \in UserCode, NEW client \in Client, Create(c, u, client)
      PROVE  OneTime!OneTimeNext
  <2>1. \A d \in Code : d # c => grant'[d] = grant[d]
    BY <1>0, <1>1 DEF Create
  <2>2. grant[c] = None /\ c \in codes' /\ codes' \subseteq codes \cup {c} /\ answer' = answer
    BY <1>1 DEF Create, Issued
  <2>3. grant'[c] # None
    BY <2>2 DEF DeviceCodeInv
  <2> QED
    BY <2>1, <2>2, <2>3, ManageRefines DEF OneTime!OneTimeNext
<1>2. ASSUME NEW q \in Request, NEW c \in Code, NEW client \in Client, Poll(q, c, client)
      PROVE  OneTime!OneTimeNext
  <2>1. CASE PollExpired(c)
    BY <1>0, <2>1, QuietRefines, NoneAssumption DEF PollExpired, SetStatus, DeviceCodeInv
  <2> QED
    BY <1>2, <2>1, RedeemRefines DEF Poll, OneTime!OneTimeNext
<1>3. ASSUME NEW u \in UserCode, Verify(u) PROVE OneTime!OneTimeNext
  <2>1. byUserCode[u] \in codes /\ answer' = answer /\ codes' = codes
    BY <1>3 DEF Verify, VerifyExpired, Deny, Authorize, Decidable, DeviceCodeInv, IndexLeadsToEntry
  <2>2. \A c \in Code : c # byUserCode[u] => grant'[c] = grant[c]
    BY <1>0, <1>3 DEF Verify, VerifyExpired, Deny, Authorize, SetStatus
  <2>3. grant[byUserCode[u]] # None /\ grant'[byUserCode[u]] # None
    BY <2>1 DEF DeviceCodeInv
  <2> QED
    BY <2>1, <2>2, <2>3, QuietRefines
<1>4. CASE CreateRefused \/ Reload \/ Tick \/ Restart \/ UNCHANGED vars
  BY <1>4, QuietRefines DEF CreateRefused, Reload, Tick, Restart, vars
<1> QED
  BY <1>1, <1>2, <1>3, <1>4 DEF Next

(* The store implements the one-time grant.                                *)
THEOREM StoreIsOneTimeGrant == Spec => ImplementsOneTimeGrant
<1>1. DeviceCodeInit => OneTime!OneTimeInit
  BY DEF DeviceCodeInit, OneTime!OneTimeInit, standing, redeemers, Issued
<1> QED
  BY <1>1, NextRefines, SpecInv, PTL DEF Spec, OneTime!OneTimeSpec, ImplementsOneTimeGrant

-----------------------------------------------------------------------------
(* A live entry leaves by its own redemption or with the process.          *)
LEMMA NextKeepsLive ==
  ASSUME DeviceCodeInv, Next, NEW c \in codes, ~ Expired(c), c \notin codes'
  PROVE  \/ \E q \in Request : answer[q] = None /\ answer'[q] # None /\ answer'[q].code = c
         \/ codes' = {} /\ \A u \in UserCode : byUserCode'[u] = None
<1>1. CASE \E d \in Code, u \in UserCode, client \in Client : Create(d, u, client)
  BY <1>1 DEF Create, StaleCodes
<1>2. CASE CreateRefused
  BY <1>2 DEF CreateRefused, StaleCodes
<1>3. ASSUME NEW q \in Request, NEW d \in Code, NEW client \in Client, Poll(q, d, client)
      PROVE  answer[q] = None /\ answer'[q] # None /\ answer'[q].code = c
  <2> DEFINE a == [code |-> d, client |-> client, user |-> grant[d].username]
  <2>1. /\ answer[q] = None /\ d \in codes /\ codes' = codes \ {d}
        /\ grant[d].username \in users /\ answer' = [answer EXCEPT ![q] = a]
    BY <1>3 DEF Poll, PollExpired, PollAuthorized, Take
  <2>2. a \in Answer /\ a # None /\ a.code = d
    BY <2>1, NoneAssumption DEF Answer, DeviceCodeInv, DeviceCodeType
  <2> QED
    BY <2>1, <2>2 DEF DeviceCodeInv, DeviceCodeType
<1>4. CASE \E u \in UserCode : Verify(u)
  BY <1>4 DEF Verify, VerifyExpired, Deny, Authorize
<1>5. CASE Restart
  BY <1>5 DEF Restart
<1> QED
  BY <1>1, <1>2, <1>3, <1>4, <1>5 DEF Next, Reload, Tick

(* Nothing evicts a live authorization: neither the cap, nor a poll for a  *)
(* vanished user, nor anybody else's expiry.                               *)
THEOREM LiveEntriesAreKept == Spec => LiveEntriesStay
<1> DEFINE A == \A c \in codes : ~Expired(c) /\ c \notin codes'
       => \/ \E q \in Request : answer[q] = None /\ answer'[q] # None /\ answer'[q].code = c
          \/ codes' = {} /\ \A u \in UserCode : byUserCode'[u] = None
<1>1. DeviceCodeInv /\ [Next]_vars => [A]_vars
  BY NextKeepsLive
<1> QED
  BY <1>1, SpecInv, PTL DEF Spec, LiveEntriesStay

-----------------------------------------------------------------------------
(* The flow over the store.                                                *)

(* What a request in flight has: a client, and the configurations in force *)
(* since it arrived, today's among them.  The client of client_credentials *)
(* has authenticated as a confidential one.                                *)
Active(q) == req[q].phase \in {"authenticated", "polled"}

RequestInv(q) ==
  /\ Active(q) =>
       /\ req[q].client \in Client
       /\ config \in req[q].inForce
       /\ req[q].kind = "client_credentials" =>
            \E g \in req[q].inForce :
              g.clients[req[q].client] # None /\ ~ Public(g.clients[req[q].client])
  /\ req[q].phase = "polled" => req[q].kind = "device_code" /\ answer[q] # None

(* What a token is tied to.                                                *)
Known(q) == {g \in req[q].inForce : g.clients[req[q].client] # None}
InPolicy(q, t) ==
  Known(q) = req[q].inForce =>
    \E g \in Known(q) : LET policy == g.clients[req[q].client] IN
      /\ ScopeAllowed(t.scope, g.vocabulary, policy.scopes, g.enforced)
      /\ ResourcesAllowed(t.audience, policy.resources)
DeviceToken(q, t) ==
  req[q].kind = "device_code" =>
    /\ answer[q] # None /\ t.user = answer[q].user
    /\ t.scope = bound[answer[q].code].scope
    /\ t.audience \subseteq bound[answer[q].code].resource
    /\ t.later = bound[answer[q].code].resource
ServiceToken(q, t) ==
  req[q].kind = "client_credentials" =>
    /\ ~ t.refresh /\ (Known(q) = req[q].inForce => OpenId \notin t.scope)
    /\ \E g \in Known(q) : ~ Public(g.clients[req[q].client])
PasswordToken(q) == req[q].kind = "password" => \E g \in req[q].inForce : g.passwordGrant

MintedInv(q) ==
  minted[q] # None =>
    /\ req[q].phase = "done"
    /\ InPolicy(q, minted[q]) /\ DeviceToken(q, minted[q])
    /\ ServiceToken(q, minted[q]) /\ PasswordToken(q)

RequestState ==
  [phase : {"idle", "authenticated", "polled", "done"}, kind : Kind \cup {"none"},
   client : Client \cup {None}, scope : SUBSET Scope, wanted : SUBSET Resource,
   inForce : SUBSET Configs]

FlowShape ==
  /\ req \in [Request -> RequestState]
  /\ minted = [q \in Request |-> minted[q]]
  /\ bound = [c \in Code |-> bound[c]]
  /\ config \in Configs

FlowInv ==
  /\ DeviceCodeInv
  /\ FlowShape
  /\ \A q \in Request : RequestInv(q)
  /\ \A q \in Request : MintedInv(q)

(* Every step of the flow is a step of the store, or leaves it alone.      *)
LEMMA FlowStepIsStoreStep ==
  ASSUME FlowInv, [FlowNext]_allVars
  PROVE  [Next]_vars
<1>1. ASSUME NEW q \in Request, Handle(q) PROVE [Next]_vars
  <2>1. req[q].phase = "authenticated" => req[q].client \in Client
    BY DEF FlowInv, RequestInv, Active
  <2>2. ASSUME NEW c \in Code, NEW u \in UserCode, DeviceAuthorization(q, c, u) PROVE Next
    BY <2>1, <2>2 DEF DeviceAuthorization, Handles, Next
  <2>3. CASE DeviceAuthorizationFull(q)
    BY <2>3 DEF DeviceAuthorizationFull, Next
  <2>4. ASSUME NEW c \in Code, DevicePoll(q, c) PROVE [Next]_vars
    BY <2>1, <2>4 DEF DevicePoll, Handles, Poll, Next
  <2>5. CASE MintDevice(q) \/ (\E user \in User, password \in Login!Password :
                                PasswordGrant(q, user, password)) \/ ClientCredentials(q)
    BY <2>5 DEF MintDevice, PasswordGrant, ClientCredentials
  <2> QED
    BY <1>1, <2>2, <2>3, <2>4, <2>5 DEF Handle
<1>2. ASSUME NEW u \in UserCode, NEW user \in User \cup {None}, NEW password \in Login!Password,
             NEW action \in {"authorize", "deny"}, DeviceVerify(u, user, password, action)
      PROVE  Next
  <2>1. users \subseteq User
    BY DEF FlowInv, DeviceCodeInv, DeviceCodeType
  <2> QED
    BY <1>2, <2>1 DEF DeviceVerify, Login!Authenticates, Verify, Next
<1>3. ASSUME NEW q \in Request, NEW kind \in Kind, NEW client \in Client,
             NEW scope \in SUBSET Scope, NEW wanted \in SUBSET Resource,
             Authenticate(q, kind, client, scope, wanted)
      PROVE  UNCHANGED vars
  BY <1>3 DEF Authenticate
<1>4. CASE Load \/ (Tick /\ UNCHANGED flowVars) \/ Crash \/ UNCHANGED allVars
  BY <1>4 DEF Load, Crash, allVars, Next
<1> QED
  BY <1>1, <1>2, <1>3, <1>4 DEF FlowNext

LEMMA Phases == /\ Idle \in RequestState /\ Over \in RequestState
               /\ Idle.phase = "idle" /\ Over.phase = "done"
  BY DEF Idle, Over, RequestState

LEMMA FlowInitInv == ASSUME Init PROVE FlowInv
<1>1. DeviceCodeInv
  BY InitInv DEF Init
<1> QED
  BY <1>1, Phases DEF Init, FlowInv, FlowShape, RequestInv, Active, MintedInv

(* A request that a step leaves alone keeps what it has: the entry of a    *)
(* code that was answered is never made again.                             *)
LEMMA OthersKeep ==
  ASSUME FlowInv, NEW p \in Request,
         req'[p] = req[p], minted'[p] = minted[p], answer'[p] = answer[p], config' = config,
         \A c \in Code : grant[c] # None => bound'[c] = bound[c]
  PROVE  RequestInv(p)' /\ MintedInv(p)'
<1>1. RequestInv(p) /\ MintedInv(p) /\ AnsweredIsGone(p)
  BY DEF FlowInv, DeviceCodeInv
<1>2. answer[p] # None => answer[p].code \in Code
  BY DEF FlowInv, DeviceCodeInv, DeviceCodeType, Answer
<1>3. RequestInv(p)'
  BY <1>1 DEF RequestInv, Active
<1>4. Known(p)' = Known(p)
  BY DEF Known
<1>5. InPolicy(p, minted[p])' <=> InPolicy(p, minted[p])
  BY <1>4 DEF InPolicy
<1>6. ServiceToken(p, minted[p])' <=> ServiceToken(p, minted[p])
  BY <1>4 DEF ServiceToken
<1>7. PasswordToken(p)' <=> PasswordToken(p)
  BY DEF PasswordToken
<1>8. DeviceToken(p, minted[p]) => DeviceToken(p, minted[p])'
  BY <1>1, <1>2 DEF DeviceToken, AnsweredIsGone
<1>9. MintedInv(p)'
  BY <1>1, <1>5, <1>6, <1>7, <1>8 DEF MintedInv
<1> QED
  BY <1>3, <1>9

(* One request moves on without a token of its own.                        *)
LEMMA MovesOn ==
  ASSUME FlowInv, DeviceCodeInv', NEW q \in Request, NEW r \in RequestState,
         req' = [req EXCEPT ![q] = r], minted' = minted, config' = config,
         \A p \in Request \ {q} : answer'[p] = answer[p],
         bound' = [c \in Code |-> bound'[c]],
         \A c \in Code : grant[c] # None => bound'[c] = bound[c],
         minted[q] = None, RequestInv(q)'
  PROVE  FlowInv'
<1>1. \A p \in Request : req'[p] = IF p = q THEN r ELSE req[p]
  BY DEF FlowInv, FlowShape
<1>2. \A p \in Request : RequestInv(p)' /\ MintedInv(p)'
  <2>1. MintedInv(q)'
    BY DEF MintedInv
  <2> QED
    BY <1>1, <2>1, OthersKeep
<1>3. FlowShape'
  BY DEF FlowInv, FlowShape
<1> QED
  BY <1>2, <1>3 DEF FlowInv

LEMMA Unminted ==
  ASSUME FlowInv, NEW q \in Request, req[q].phase # "done" PROVE minted[q] = None
  BY DEF FlowInv, MintedInv

(* A confidential client is behind every request of client_credentials.    *)
LEMMA AuthenticateKeeps ==
  ASSUME FlowInv, DeviceCodeInv', NEW q \in Request, NEW kind \in Kind, NEW client \in Client,
         NEW scope \in SUBSET Scope, NEW wanted \in SUBSET Resource,
         Authenticate(q, kind, client, scope, wanted)
  PROVE  FlowInv'
<1> DEFINE r == [phase |-> "authenticated", kind |-> kind, client |-> client,
                 scope |-> scope, wanted |-> wanted, inForce |-> {config}]
<1>1. /\ req[q].phase = "idle" /\ Accepted(kind, config.clients[client]) # {}
      /\ req' = [req EXCEPT ![q] = r] /\ UNCHANGED <<vars, config, bound, minted>>
  BY DEF Authenticate
<1>2. req'[q] = r
  BY <1>1 DEF FlowInv, FlowShape
<1>3. kind = "client_credentials" =>
        config.clients[client] # None /\ ~ Public(config.clients[client])
  BY <1>1 DEF Accepted, ClientAuth, RegisteredAuth
<1>4. RequestInv(q)'
  BY <1>1, <1>2, <1>3 DEF RequestInv, Active
<1>5. r \in RequestState
  BY DEF RequestState, FlowInv, FlowShape
<1> HIDE DEF r
<1> QED
  BY <1>1, <1>4, <1>5, MovesOn, Unminted DEF vars, FlowInv, FlowShape

LEMMA DoneKeeps ==
  ASSUME FlowInv, DeviceCodeInv', NEW q \in Request, req[q].phase # "done", Done(q),
         config' = config, minted' = minted, answer' = answer,
         bound' = [c \in Code |-> bound'[c]],
         \A c \in Code : grant[c] # None => bound'[c] = bound[c]
  PROVE  FlowInv'
<1>1. req'[q] = Over
  BY DEF Done, FlowInv, FlowShape
<1>2. RequestInv(q)'
  BY <1>1, Phases DEF RequestInv, Active
<1> QED
  BY <1>2, Phases, MovesOn, Unminted DEF Done

LEMMA DeviceAuthorizationKeeps ==
  ASSUME FlowInv, DeviceCodeInv', NEW q \in Request, NEW c \in Code, NEW u \in UserCode,
         DeviceAuthorization(q, c, u)
  PROVE  FlowInv'
<1>1. /\ grant[c] = None /\ Done(q) /\ req[q].phase = "authenticated"
      /\ config' = config /\ minted' = minted /\ answer' = answer
  BY DEF DeviceAuthorization, Create, Issued, Handles
<1> DEFINE e == [scope |-> Resolved(q, {OpenId}),
                 resource |-> IF PolicyOf(q) = None THEN {} ELSE req[q].wanted]
<1>2. bound' = [bound EXCEPT ![c] = e]
  BY DEF DeviceAuthorization
<1> HIDE DEF e
<1>3. \A d \in Code : d # c => bound'[d] = bound[d]
  BY <1>2 DEF FlowInv, FlowShape
<1>4. bound' = [d \in Code |-> bound'[d]]
  BY <1>2 DEF FlowInv, FlowShape
<1> QED
  BY <1>1, <1>3, <1>4, DoneKeeps

LEMMA DevicePollKeeps ==
  ASSUME FlowInv, DeviceCodeInv', NEW q \in Request, NEW c \in Code, DevicePoll(q, c)
  PROVE  FlowInv'
<1>1. /\ req[q].phase = "authenticated" /\ req[q].kind = "device_code"
      /\ config' = config /\ bound' = bound /\ minted' = minted
  BY DEF DevicePoll, Handles
<1>2. bound' = [d \in Code |-> bound'[d]]
  BY <1>1 DEF FlowInv, FlowShape
<1>3. CASE PollAuthorized(q, c, req[q].client) /\ req' = [req EXCEPT ![q].phase = "polled"]
  <2> DEFINE r == [req[q] EXCEPT !.phase = "polled"]
             a == [code |-> c, client |-> req[q].client, user |-> grant[c].username]
  <2>1. req' = [req EXCEPT ![q] = r] /\ req'[q] = r
    BY <1>3 DEF FlowInv, FlowShape
  <2>2. /\ req[q].client \in Client /\ config \in req[q].inForce
    BY <1>1 DEF FlowInv, RequestInv, Active
  <2>3. answer' = [answer EXCEPT ![q] = a] /\ grant[c].username \in users
    BY <1>3 DEF PollAuthorized
  <2>4. a \in Answer /\ a # None
    BY <2>2, <2>3, NoneAssumption DEF Answer, FlowInv, DeviceCodeInv, DeviceCodeType
  <2>5. answer'[q] # None /\ \A p \in Request \ {q} : answer'[p] = answer[p]
    BY <2>3, <2>4 DEF FlowInv, DeviceCodeInv, DeviceCodeType
  <2> DEFINE SameButPhase ==
        /\ r.client = req[q].client /\ r.kind = req[q].kind /\ r.inForce = req[q].inForce
        /\ r.phase = "polled"
  <2>6. r \in RequestState /\ SameButPhase
    BY DEF FlowInv, FlowShape, RequestState
  <2>7. RequestInv(q)'
    BY <1>1, <2>1, <2>2, <2>5, <2>6 DEF RequestInv, Active
  <2> HIDE DEF r
  <2> QED
    BY <1>1, <1>2, <2>1, <2>5, <2>6, <2>7, MovesOn, Unminted
<1>4. CASE Done(q) /\ (PollExpired(c) \/ UNCHANGED vars)
  BY <1>1, <1>2, <1>4, DoneKeeps DEF PollExpired, vars
<1> QED
  BY <1>3, <1>4 DEF DevicePoll

(* A request that is answered is answered within the rules.                *)
LEMMA AnsweredKeeps ==
  ASSUME FlowInv, DeviceCodeInv', NEW q \in Request, req[q].phase # "done",
         NEW token, NEW allowed \in BOOLEAN, AnsweredWith(q, allowed, token),
         UNCHANGED <<vars, config, bound>>,
         allowed => /\ InPolicy(q, token) /\ DeviceToken(q, token)
                    /\ ServiceToken(q, token) /\ PasswordToken(q)
  PROVE  FlowInv'
<1>0. UNCHANGED <<answer, config, bound>> /\ bound' = [d \in Code |-> bound'[d]]
  BY DEF vars, FlowInv, FlowShape
<1>1. CASE ~ allowed
  BY <1>0, <1>1, DoneKeeps DEF AnsweredWith, Done
<1>2. CASE allowed
  <2> DEFINE r == [req[q] EXCEPT !.phase = "done"]
  <2>1. /\ r \in RequestState /\ r.phase = "done" /\ r.kind = req[q].kind
        /\ r.client = req[q].client /\ r.inForce = req[q].inForce
    BY DEF FlowInv, FlowShape, RequestState
  <2>2. req' = [req EXCEPT ![q] = r] /\ minted' = [minted EXCEPT ![q] = token]
    BY <1>2 DEF AnsweredWith, FlowInv, FlowShape
  <2> HIDE DEF r
  <2>3. FlowShape'
    BY <1>0, <2>1, <2>2 DEF FlowInv, FlowShape
  <2>4. req'[q] = r /\ minted'[q] = token
    BY <2>2 DEF FlowInv, FlowShape
  <2>5. \A p \in Request : p # q => req'[p] = req[p] /\ minted'[p] = minted[p]
    BY <2>2 DEF FlowInv, FlowShape
  <2>6. Known(q)' = Known(q)
    BY <2>1, <2>4 DEF Known
  <2>7. InPolicy(q, token)' /\ ServiceToken(q, token)' /\ PasswordToken(q)'
    BY <1>2, <2>1, <2>4, <2>6 DEF InPolicy, ServiceToken, PasswordToken
  <2>8. DeviceToken(q, token)'
    BY <1>0, <1>2, <2>1, <2>4 DEF DeviceToken
  <2>9. RequestInv(q)' /\ MintedInv(q)'
    BY <2>1, <2>4, <2>7, <2>8 DEF RequestInv, Active, MintedInv
  <2>10. \A p \in Request : RequestInv(p)' /\ MintedInv(p)'
    BY <1>0, <2>5, <2>9, OthersKeep
  <2> QED
    BY <2>3, <2>10 DEF FlowInv
<1> QED
  BY <1>1, <1>2

(* The check of an answer is the rule of one configuration in force,       *)
(* today's, for every scope and audience within the ones checked.          *)
LEMMA TodayIsInForce ==
  ASSUME FlowInv, NEW q \in Request, Active(q), NEW token, NEW scope,
         MayHave(q, scope), token.scope \subseteq scope,
         PolicyOf(q) # None => ResourcesAllowed(token.audience, PolicyOf(q).resources)
  PROVE  InPolicy(q, token)
<1>1. config \in req[q].inForce
  BY DEF FlowInv, RequestInv
<1> SUFFICES ASSUME Known(q) = req[q].inForce PROVE InPolicy(q, token)
  BY DEF InPolicy
<1>2. config \in Known(q) /\ PolicyOf(q) # None
  BY <1>1 DEF Known, PolicyOf
<1>3. ScopeAllowed(token.scope, config.vocabulary, config.clients[req[q].client].scopes,
                   config.enforced)
  BY <1>2 DEF MayHave, PolicyOf, ScopeAllowed
<1>4. ResourcesAllowed(token.audience, config.clients[req[q].client].resources)
  BY <1>2 DEF PolicyOf
<1> QED
  BY <1>2, <1>3, <1>4 DEF InPolicy

LEMMA MintDeviceKeeps ==
  ASSUME FlowInv, DeviceCodeInv', NEW q \in Request, MintDevice(q)
  PROVE  FlowInv'
<1> DEFINE b == bound[answer[q].code]
           t == Token(answer[q].user, b.scope, TokenResourceGranted(req[q].wanted, b.resource),
                      TRUE, b.resource)
           ok == DeviceScope(q, b.scope) /\ DeviceTarget(q, b.resource)
<1>1. req[q].phase = "polled" /\ AnsweredWith(q, ok, t) /\ UNCHANGED <<vars, config, bound>>
  BY DEF MintDevice
<1>2. Active(q) /\ req[q].kind = "device_code" /\ answer[q] # None
  BY <1>1 DEF Active, FlowInv, RequestInv
<1>3. /\ t.user = answer[q].user /\ t.scope = b.scope /\ t.later = b.resource
      /\ t.audience = TokenResourceGranted(req[q].wanted, b.resource)
  BY DEF Token
<1>4. ASSUME ok PROVE InPolicy(q, t) /\ DeviceToken(q, t)
  <2>1. PolicyOf(q) # None => ResourcesAllowed(t.audience, PolicyOf(q).resources)
    BY <1>3, <1>4 DEF DeviceTarget, TokenResourceAllowed
  <2>2. t.audience \subseteq b.resource
    <3>1. req[q].wanted \subseteq b.resource
      BY <1>4 DEF DeviceTarget, TokenResourceAllowed
    <3> QED
      BY <1>3, <3>1 DEF TokenResourceGranted
  <2>3. MayHave(q, b.scope) /\ t.scope \subseteq b.scope
    BY <1>3, <1>4 DEF DeviceScope
  <2> HIDE DEF t
  <2>4. InPolicy(q, t)
    BY <1>2, <2>1, <2>3, TodayIsInForce
  <2> QED
    BY <1>2, <1>3, <2>2, <2>4 DEF DeviceToken
<1>5. ServiceToken(q, t) /\ PasswordToken(q)
  BY <1>2 DEF ServiceToken, PasswordToken
<1>6. ok \in BOOLEAN
  BY DEF DeviceScope, DeviceTarget, MayHave, TokenResourceAllowed
<1> HIDE DEF t, ok
<1> QED
  BY <1>1, <1>4, <1>5, <1>6, AnsweredKeeps

LEMMA PasswordKeeps ==
  ASSUME FlowInv, DeviceCodeInv', NEW q \in Request, NEW user \in User,
         NEW password \in Login!Password, PasswordGrant(q, user, password)
  PROVE  FlowInv'
<1> DEFINE scope == Resolved(q, {})
           t == Token(user, scope, req[q].wanted, TRUE, req[q].wanted)
           ok == /\ config.passwordGrant
                 /\ Login!Authenticates(FALSE, users, user, password)
                 /\ MayHave(q, scope) /\ MayTarget(q)
<1>1. /\ req[q].phase = "authenticated" /\ req[q].kind = "password"
      /\ AnsweredWith(q, ok, t) /\ UNCHANGED <<vars, config, bound>>
  BY DEF PasswordGrant, Handles
<1>2. Active(q) /\ config \in req[q].inForce
  BY <1>1 DEF Active, FlowInv, RequestInv
<1>3. t.scope = scope /\ t.audience = req[q].wanted
  BY DEF Token
<1>4. ASSUME ok PROVE InPolicy(q, t) /\ PasswordToken(q)
  <2>1. PolicyOf(q) # None => ResourcesAllowed(t.audience, PolicyOf(q).resources)
    BY <1>3, <1>4 DEF MayTarget
  <2>2. MayHave(q, scope) /\ t.scope \subseteq scope /\ config.passwordGrant
    BY <1>3, <1>4
  <2> HIDE DEF t, scope, ok
  <2> QED
    BY <1>2, <2>1, <2>2, TodayIsInForce DEF PasswordToken
<1>5. DeviceToken(q, t) /\ ServiceToken(q, t)
  BY <1>1 DEF DeviceToken, ServiceToken
<1>6. ok \in BOOLEAN
  OBVIOUS
<1> HIDE DEF t, ok
<1> QED
  BY <1>1, <1>4, <1>5, <1>6, AnsweredKeeps

LEMMA ClientCredentialsKeeps ==
  ASSUME FlowInv, DeviceCodeInv', NEW q \in Request, ClientCredentials(q)
  PROVE  FlowInv'
<1> DEFINE scope == Resolved(q, {})
           t == Token(IF DefaultUser \in users THEN DefaultUser ELSE None,
                      IF PolicyOf(q) = None THEN scope ELSE scope \ {OpenId},
                      req[q].wanted, FALSE, {})
           ok == MayHave(q, scope) /\ MayTarget(q)
<1>1. /\ req[q].phase = "authenticated" /\ req[q].kind = "client_credentials"
      /\ AnsweredWith(q, ok, t) /\ UNCHANGED <<vars, config, bound>>
  BY DEF ClientCredentials, Handles
<1>2. /\ Active(q) /\ config \in req[q].inForce
      /\ \E g \in Known(q) : ~ Public(g.clients[req[q].client])
  BY <1>1 DEF Active, Known, FlowInv, RequestInv
<1>3. /\ t.scope = IF PolicyOf(q) = None THEN scope ELSE scope \ {OpenId}
      /\ t.audience = req[q].wanted /\ ~ t.refresh
  BY DEF Token
<1>4. ServiceToken(q, t)
  <2>1. Known(q) = req[q].inForce => PolicyOf(q) # None
    BY <1>2 DEF Known, PolicyOf
  <2> QED
    BY <1>2, <1>3, <2>1 DEF ServiceToken
<1>5. ASSUME ok PROVE InPolicy(q, t)
  <2>1. PolicyOf(q) # None => ResourcesAllowed(t.audience, PolicyOf(q).resources)
    BY <1>3, <1>5 DEF MayTarget
  <2>2. MayHave(q, scope) /\ t.scope \subseteq scope
    BY <1>3, <1>5
  <2> HIDE DEF t, scope, ok
  <2> QED
    BY <1>2, <2>1, <2>2, TodayIsInForce
<1>6. DeviceToken(q, t) /\ PasswordToken(q)
  BY <1>1 DEF DeviceToken, PasswordToken
<1>7. ok \in BOOLEAN
  OBVIOUS
<1> HIDE DEF t, ok
<1> QED
  BY <1>1, <1>4, <1>5, <1>6, <1>7, AnsweredKeeps

LEMMA EnvironmentKeeps ==
  ASSUME FlowInv, DeviceCodeInv',
         \/ Load
         \/ Tick /\ UNCHANGED flowVars
         \/ Crash
         \/ UNCHANGED allVars
         \/ \E u \in UserCode, user \in User \cup {None}, password \in Login!Password,
              action \in {"authorize", "deny"} : DeviceVerify(u, user, password, action)
  PROVE  FlowInv'
<1>1. CASE Load
  <2> DEFINE r(q) == [req[q] EXCEPT !.inForce = @ \cup {config'}]
  <2>1. /\ config' \in Configs /\ UNCHANGED <<bound, minted, answer>>
        /\ \A q \in Request : req'[q] = IF Active(q) THEN r(q) ELSE req[q]
    BY <1>1 DEF Load, Reload, Active
  <2>2. \A q \in Request : /\ r(q) \in RequestState /\ r(q).phase = req[q].phase
                           /\ r(q).kind = req[q].kind /\ r(q).client = req[q].client
                           /\ r(q).inForce = req[q].inForce \cup {config'}
    BY <2>1 DEF FlowInv, FlowShape, RequestState
  <2> HIDE DEF r
  <2>3. FlowShape'
    BY <1>1, <2>1, <2>2 DEF Load, FlowInv, FlowShape
  <2>4. ASSUME NEW q \in Request PROVE RequestInv(q)' /\ MintedInv(q)'
    <3>1. CASE Active(q)
      BY <2>1, <2>2, <3>1, Unminted DEF FlowInv, RequestInv, Active, MintedInv
    <3>2. CASE ~ Active(q)
      <4>1. req'[q] = req[q] /\ minted'[q] = minted[q] /\ answer'[q] = answer[q]
        BY <2>1, <3>2
      <4>2. RequestInv(q)'
        BY <3>2, <4>1 DEF FlowInv, RequestInv, Active
      <4>3. Known(q)' = Known(q)
        BY <4>1 DEF Known
      <4>4. MintedInv(q)'
        BY <2>1, <4>1, <4>3 DEF FlowInv, MintedInv, InPolicy, DeviceToken, ServiceToken,
           PasswordToken
      <4> QED
        BY <4>2, <4>4
    <3> QED
      BY <3>1, <3>2
  <2> QED
    BY <2>3, <2>4 DEF FlowInv
<1>2. CASE Crash
  <2>1. /\ UNCHANGED <<config, bound, minted, answer, grant>>
        /\ \A q \in Request : req'[q] = IF Active(q) THEN Over ELSE req[q]
    BY <1>2 DEF Crash, Restart, Active, FlowInv, FlowShape, RequestState
  <2>2. FlowShape'
    BY <1>2, <2>1, Phases DEF Crash, FlowInv, FlowShape
  <2>3. ASSUME NEW q \in Request PROVE RequestInv(q)' /\ MintedInv(q)'
    <3>1. CASE Active(q)
      BY <2>1, <3>1, Phases, Unminted DEF RequestInv, Active, MintedInv
    <3> QED
      BY <2>1, <3>1, OthersKeep
  <2> QED
    BY <2>2, <2>3 DEF FlowInv
<1>3. CASE UNCHANGED flowVars /\ answer' = answer
  <2>1. FlowShape'
    BY <1>3 DEF flowVars, FlowInv, FlowShape
  <2>2. \A p \in Request : RequestInv(p)' /\ MintedInv(p)'
    BY <1>3, OthersKeep DEF flowVars
  <2> QED
    BY <2>1, <2>2 DEF FlowInv
<1>4. ASSUME NEW u \in UserCode, NEW user \in User \cup {None}, NEW password \in Login!Password,
             NEW action \in {"authorize", "deny"}, DeviceVerify(u, user, password, action)
      PROVE  UNCHANGED flowVars /\ answer' = answer
  BY <1>4 DEF DeviceVerify, VerifyExpired, Deny, Authorize
<1> QED
  BY <1>1, <1>2, <1>3, <1>4 DEF Tick, vars, allVars

LEMMA FlowNextInv == FlowInv /\ [FlowNext]_allVars => FlowInv'
<1> SUFFICES ASSUME FlowInv, [FlowNext]_allVars PROVE FlowInv'
  OBVIOUS
<1>1. DeviceCodeInv'
  BY FlowStepIsStoreStep, NextInv DEF FlowInv
<1>2. ASSUME NEW q \in Request, Handle(q) PROVE FlowInv'
  <2>1. ASSUME NEW c \in Code, NEW u \in UserCode, DeviceAuthorization(q, c, u) PROVE FlowInv'
    BY <1>1, <2>1, DeviceAuthorizationKeeps
  <2>2. CASE DeviceAuthorizationFull(q)
    <3>1. /\ req[q].phase # "done" /\ Done(q) /\ UNCHANGED <<config, bound, minted, answer>>
      BY <2>2 DEF DeviceAuthorizationFull, CreateRefused, Handles
    <3>2. bound' = [d \in Code |-> bound'[d]]
      BY <3>1 DEF FlowInv, FlowShape
    <3> QED
      BY <1>1, <3>1, <3>2, DoneKeeps
  <2>3. ASSUME NEW c \in Code, DevicePoll(q, c) PROVE FlowInv'
    BY <1>1, <2>3, DevicePollKeeps
  <2>4. ASSUME NEW user \in User, NEW password \in Login!Password, PasswordGrant(q, user, password)
        PROVE  FlowInv'
    BY <1>1, <2>4, PasswordKeeps
  <2> QED
    BY <1>1, <1>2, <2>1, <2>2, <2>3, <2>4, MintDeviceKeeps, ClientCredentialsKeeps DEF Handle
<1>3. ASSUME NEW q \in Request, NEW kind \in Kind, NEW client \in Client,
             NEW scope \in SUBSET Scope, NEW wanted \in SUBSET Resource,
             Authenticate(q, kind, client, scope, wanted)
      PROVE  FlowInv'
  BY <1>1, <1>3, AuthenticateKeeps
<1>4. CASE UNCHANGED allVars
  BY <1>1, <1>4, EnvironmentKeeps
<1>5. CASE FlowNext
  BY <1>1, <1>2, <1>3, <1>5, EnvironmentKeeps DEF FlowNext
<1> QED
  BY <1>4, <1>5

LEMMA FlowSpecInv == FlowSpec => []FlowInv
<1>1. Init => FlowInv
  BY FlowInitInv
<1> QED
  BY <1>1, FlowNextInv, PTL DEF FlowSpec

(* The endpoints only take the store's steps: whatever holds of the store  *)
(* by itself holds of it under them.                                       *)
THEOREM FlowIsStore == FlowSpec => Spec
<1>1. Init => DeviceCodeInit
  BY DEF Init
<1>2. FlowInv /\ [FlowNext]_allVars => [Next]_vars
  BY FlowStepIsStoreStep
<1> QED
  BY <1>1, <1>2, FlowSpecInv, PTL DEF FlowSpec, Spec

(* Every token obeys a configuration that was in force while its request   *)
(* was answered, whatever the operator loads in between.                   *)
THEOREM TokensAreAllowed == FlowSpec => []TokensObeyPolicy
<1>1. FlowInv => TokensObeyPolicy
  <2> SUFFICES ASSUME FlowInv, NEW q \in Request, minted[q] # None
               PROVE  LET t == minted[q]
                          known == Known(q) IN
    /\ known = req[q].inForce =>
         \E g \in known : LET policy == g.clients[req[q].client] IN
           /\ ScopeAllowed(t.scope, g.vocabulary, policy.scopes, g.enforced)
           /\ ResourcesAllowed(t.audience, policy.resources)
    /\ req[q].kind = "device_code" =>
         LET b == bound[answer[q].code] IN
         /\ t.scope = b.scope /\ t.audience \subseteq b.resource /\ t.later = b.resource
         /\ verdicts[answer[q].code] = {t.user}
    /\ req[q].kind = "client_credentials" =>
         /\ ~ t.refresh /\ (known = req[q].inForce => OpenId \notin t.scope)
         /\ \E g \in known : ~ Public(g.clients[req[q].client])
    /\ req[q].kind = "password" => \E g \in req[q].inForce : g.passwordGrant
    BY DEF TokensObeyPolicy, Known
  <2>1. /\ InPolicy(q, minted[q]) /\ DeviceToken(q, minted[q])
        /\ ServiceToken(q, minted[q]) /\ PasswordToken(q) /\ AnsweredIsGone(q)
    BY DEF FlowInv, MintedInv, DeviceCodeInv
  <2> QED
    BY <2>1 DEF InPolicy, DeviceToken, ServiceToken, PasswordToken, AnsweredIsGone
<1> QED
  BY <1>1, FlowSpecInv, PTL
=============================================================================
