--------------------------- MODULE DeviceCodeStore --------------------------
(***************************************************************************)
(* services/device_code.py: the pending device authorizations of RFC 8628, *)
(* and their lookup by the short code a user types at /device.             *)
(*                                                                         *)
(* create, poll and verify each run under the store's lock, the user       *)
(* lookup of poll and the credential check of verify included, so each is  *)
(* one action.  Device codes come out of secrets.token_urlsafe(32) and do  *)
(* not repeat; user codes are eight letters, and nothing keeps two entries *)
(* from drawing the same one.                                              *)
(***************************************************************************)
EXTENDS Integers, FiniteSets

CONSTANTS
  Code,          \* device codes
  UserCode,      \* user codes
  Client, User,
  Request,       \* polls that may be answered with the authorization
  Lifetime,      \* DEVICE_CODE_EXPIRES_IN: 600 s
  MaxPending,    \* MAX_PENDING_DEVICE_CODES: 10000
  MaxTime,       \* bound on the clock
  None

ASSUME StoreAssumption ==
  /\ IsFiniteSet(Code)
  /\ Lifetime \in Nat /\ MaxPending \in Nat /\ MaxTime \in Nat
  /\ None \notin User /\ None \notin Code

Status == {"pending", "authorized", "denied", "expired"}

DeviceCodeGrant ==
  [userCode: UserCode, client: Client, expires: Nat, status: Status,
   username: User \cup {None}]

Answer == [code: Code, client: Client, user: User]

ASSUME NoneAssumption == None \notin DeviceCodeGrant /\ None \notin Answer

VARIABLES
  now,           \* time.time()
  users,         \* the users the configuration knows, which a reload changes
  codes,         \* the keys of _codes
  grant,         \* grant[c]: the DeviceCodeGrant made for c, kept when c goes
  byUserCode,    \* _by_user_code
  answer,        \* answer[q]: what poll q was authorized for (history)
  verdicts       \* verdicts[c]: who decided on c: users, or None to deny (history)

vars == <<now, users, codes, grant, byUserCode, answer, verdicts>>

DeviceCodeType ==
  /\ now \in 0..MaxTime
  /\ users \subseteq User
  /\ codes \subseteq Code
  /\ grant \in [Code -> DeviceCodeGrant \cup {None}]
  /\ byUserCode \in [UserCode -> Code \cup {None}]
  /\ answer \in [Request -> Answer \cup {None}]
  /\ verdicts \in [Code -> SUBSET (User \cup {None})]

DeviceCodeInit ==
  /\ now = 0
  /\ users \in SUBSET User
  /\ codes = {}
  /\ grant = [c \in Code |-> None]
  /\ byUserCode = [u \in UserCode |-> None]
  /\ answer = [q \in Request |-> None]
  /\ verdicts = [c \in Code |-> {}]

Issued(c) == grant[c] # None
Expired(c) == now > grant[c].expires

(* prune_expired: the entries, and their user codes from the index.        *)
StaleEarly == {c \in codes : now >= grant[c].expires}     \* mutant: one tick too early
StaleCodes == {c \in codes : Expired(c)}

IndexKept(gone) == byUserCode               \* mutant: the index is forgotten
IndexWithout(gone) ==
  [u \in UserCode |-> IF \E c \in gone : grant[c].userCode = u THEN None ELSE byUserCode[u]]

(* create prunes in any case; the cap counts whatever is still in the      *)
(* dict, decided entries included.                                         *)
Room(kept) == Cardinality(kept) < MaxPending

Create(c, u, client) ==
  /\ ~Issued(c)
  /\ Room(codes \ StaleCodes)
  /\ codes' = (codes \ StaleCodes) \cup {c}
  /\ grant' = [grant EXCEPT ![c] =
       [userCode |-> u, client |-> client, expires |-> now + Lifetime,
        status |-> "pending", username |-> None]]
  /\ byUserCode' = [IndexWithout(StaleCodes) EXCEPT ![u] = c]
  /\ UNCHANGED <<now, users, answer, verdicts>>

CreateRefused ==
  /\ ~Room(codes \ StaleCodes)
  /\ codes' = codes \ StaleCodes
  /\ byUserCode' = IndexWithout(StaleCodes)
  /\ UNCHANGED <<now, users, grant, answer, verdicts>>

(* poll by the client the code belongs to.  The other outcomes - not       *)
(* found, wrong client, pending, denied, a user who is gone - change       *)
(* nothing; in particular the last leaves the entry for a later poll.      *)
SetStatus(c, status) == grant' = [grant EXCEPT ![c].status = status]

PollExpired(c) ==
  /\ c \in codes
  /\ Expired(c)
  /\ SetStatus(c, "expired")
  /\ UNCHANGED <<now, users, codes, byUserCode, answer, verdicts>>

TakeNothing(c) == codes                     \* mutant: the entry is not deleted
Take(c) == codes \ {c}

PollAuthorized(q, c, client) ==
  /\ answer[q] = None
  /\ c \in codes
  /\ grant[c].client = client
  /\ ~Expired(c)
  /\ grant[c].status = "authorized"
  /\ grant[c].username \in users
  /\ codes' = Take(c)
  /\ byUserCode' = IndexWithout({c})
  /\ answer' = [answer EXCEPT ![q] = [code |-> c, client |-> client, user |-> grant[c].username]]
  /\ UNCHANGED <<now, users, grant, verdicts>>

Poll(q, c, client) == PollExpired(c) \/ PollAuthorized(q, c, client)

(* verify: what the user code leads to must be pending, whatever the       *)
(* action; the clock comes before the action.                              *)
DecidableAlways(u) == byUserCode[u] # None  \* mutant: a decided code is decided again
Decidable(u) == byUserCode[u] # None /\ grant[byUserCode[u]].status = "pending"

VerifyExpired(u) ==
  /\ Decidable(u)
  /\ Expired(byUserCode[u])
  /\ SetStatus(byUserCode[u], "expired")
  /\ UNCHANGED <<now, users, codes, byUserCode, answer, verdicts>>

Deny(u) ==
  LET c == byUserCode[u]
  IN  /\ Decidable(u)
      /\ ~Expired(c)
      /\ SetStatus(c, "denied")
      /\ verdicts' = [verdicts EXCEPT ![c] = @ \cup {None}]
      /\ UNCHANGED <<now, users, codes, byUserCode, answer>>

(* interactive_authenticate answered with a user the configuration knows;  *)
(* a failed or missing credential leaves the code pending.                 *)
Authorize(u, user) ==
  LET c == byUserCode[u]
  IN  /\ Decidable(u)
      /\ ~Expired(c)
      /\ user \in users
      /\ grant' = [grant EXCEPT ![c].status = "authorized", ![c].username = user]
      /\ verdicts' = [verdicts EXCEPT ![c] = @ \cup {user}]
      /\ UNCHANGED <<now, users, codes, byUserCode, answer>>

Verify(u) == VerifyExpired(u) \/ Deny(u) \/ \E user \in User : Authorize(u, user)

(* The operator edits the users.                                           *)
Reload ==
  /\ users' \in SUBSET User
  /\ UNCHANGED <<now, codes, grant, byUserCode, answer, verdicts>>

Tick ==
  /\ now < MaxTime
  /\ now' = now + 1
  /\ UNCHANGED <<users, codes, grant, byUserCode, answer, verdicts>>

(* A new process, a new store; clear() does the same.                      *)
Restart ==
  /\ codes' = {}
  /\ byUserCode' = [u \in UserCode |-> None]
  /\ UNCHANGED <<now, users, grant, answer, verdicts>>

Next ==
  \/ \E c \in Code, u \in UserCode, client \in Client : Create(c, u, client)
  \/ CreateRefused
  \/ \E q \in Request, c \in Code, client \in Client : Poll(q, c, client)
  \/ \E u \in UserCode : Verify(u)
  \/ Reload
  \/ Tick
  \/ Restart

Spec == DeviceCodeInit /\ [][Next]_vars

-----------------------------------------------------------------------------
(* A device is only ever answered with the user who authorized its code    *)
(* and it is the device's own code: nobody decides on a code twice, and a  *)
(* code that was denied, or that nobody decided on, is never redeemed      *)
(* (issue #43: verification and poll both check and claim).                *)
OnlyTheApprover ==
  /\ \A c \in Code : \A v, w \in verdicts[c] : v = w
  /\ \A q \in Request : answer[q] # None =>
       /\ verdicts[answer[q].code] = {answer[q].user}
       /\ grant[answer[q].code].client = answer[q].client

(* The cap holds, whatever was decided, left behind or has expired.        *)
CapHolds == Cardinality(codes) <= MaxPending

(* The two dicts agree: a user code leads to an entry of the store, and to *)
(* one that was made with this user code.                                  *)
IndexLeadsToEntry ==
  \A u \in UserCode : byUserCode[u] # None =>
    byUserCode[u] \in codes /\ grant[byUserCode[u]].userCode = u

(* A live authorization leaves the store by its own redemption or with the *)
(* process: the cap refuses new ones and evicts none, and neither a poll   *)
(* for a vanished user nor anybody else's expiry takes it along.           *)
LiveEntriesStay ==
  [][\A c \in codes : ~Expired(c) /\ c \notin codes'
       => \/ \E q \in Request : answer[q] = None /\ answer'[q] # None /\ answer'[q].code = c
          \/ codes' = {} /\ \A u \in UserCode : byUserCode'[u] = None]_vars

(* The store implements the one-time grant.                                *)
standing ==
  [c \in Code |-> IF ~Issued(c) THEN "unissued" ELSE IF c \in codes THEN "open" ELSE "closed"]

redeemers == [c \in Code |-> {q \in Request : answer[q] # None /\ answer[q].code = c}]

OneTime == INSTANCE OneTimeGrant WITH Grant <- Code, Redeemer <- Request

(* Every behaviour of the store is one of the one-time grant: a device     *)
(* code is answered at most once, and one that left the store - redeemed,  *)
(* expired or lost with the process - never comes back.                    *)
ImplementsOneTimeGrant == OneTime!OneTimeSpec
=============================================================================
