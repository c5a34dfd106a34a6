---------------------------- MODULE AuthCodeStore ---------------------------
(***************************************************************************)
(* services/auth_code.py: the in-memory store of authorization codes.      *)
(*                                                                         *)
(* Every method runs under the store's RLock, so each is one action.  The  *)
(* state a process keeps is the dict _codes; a restart of the process      *)
(* empties it (nothing is persisted).  Codes come out of                   *)
(* secrets.token_urlsafe(32) and are therefore never handed out twice.     *)
(***************************************************************************)
EXTENDS Integers

CONSTANTS
  Code,          \* values secrets.token_urlsafe can return
  Client,        \* client_id values
  RedirectUri,   \* redirect_uri values
  User,          \* usernames
  Verifier,      \* PKCE code verifiers
  Request,       \* token requests that may redeem a code (one receipt each)
  CodeLifetime,  \* expires_at - created_at: 10 minutes in the code
  MaxTime,       \* bound on the clock
  None           \* Python's None, and "no receipt"

ASSUME StoreAssumption ==
  /\ CodeLifetime \in Nat
  /\ MaxTime \in Nat
  /\ None \notin Client \cup RedirectUri \cup User \cup Verifier \cup {"S256"}

VARIABLES
  now,           \* datetime.now()
  codes,         \* codes[c]: is c in _codes, and with which used flag
  grant,         \* grant[c]: the AuthorizationCode object made for c
  receipt        \* receipt[q]: what request q redeemed (history of results)

vars == <<now, codes, grant, receipt>>

(* The S256 transform.  It is only ever compared with a stored challenge;   *)
(* that two verifiers do not collide is the assumption PKCE makes of       *)
(* SHA-256.                                                                *)
Sha256(v) == <<"sha256", v>>

Challenge == Verifier \cup {Sha256(v) : v \in Verifier}
Method == {"plain", "S256", None}

AuthorizationCode ==
  [client: Client, redirect: RedirectUri, user: User,
   challenge: Challenge \cup {None}, method: Method, expires: Nat]

Receipt ==
  [code: Code, client: Client, redirect: RedirectUri,
   verifier: Verifier \cup {None}, user: User, at: Nat]

(* None is not an object either.                                           *)
ASSUME NoneAssumption == None \notin AuthorizationCode /\ None \notin Receipt

(* A code not in _codes is "unissued" until create_code stores it and      *)
(* "deleted" once del has removed it: the dict does not tell the two       *)
(* apart, and no guard below does.                                         *)
CodeState == {"unissued", "fresh", "used", "deleted"}

Stored(c) == codes[c] \in {"fresh", "used"}
Expired(c) == now > grant[c].expires

AuthCodeType ==
  /\ now \in 0..MaxTime
  /\ codes \in [Code -> CodeState]
  /\ grant \in [Code -> AuthorizationCode \cup {None}]
  /\ receipt \in [Request -> Receipt \cup {None}]

AuthCodeInit ==
  /\ now = 0
  /\ codes = [c \in Code |-> "unissued"]
  /\ grant = [c \in Code |-> None]
  /\ receipt = [q \in Request |-> None]

(* create_code: sweep the expired codes, then store the new one.           *)
CleanupExpired == [c \in Code |-> IF Stored(c) /\ Expired(c) THEN "deleted" ELSE codes[c]]

ExpiresAt == now + CodeLifetime

CreateCode(c, client, redirect, user, challenge, method) ==
  /\ codes[c] = "unissued"
  /\ codes' = [CleanupExpired EXCEPT ![c] = "fresh"]
  /\ grant' = [grant EXCEPT ![c] =
                 [client |-> client, redirect |-> redirect, user |-> user,
                  challenge |-> challenge, method |-> method,
                  expires |-> ExpiresAt]]
  /\ UNCHANGED <<now, receipt>>

(* _verify_pkce.  An absent method is read as "plain" (RFC 7636 4.3).      *)
VerifyPkce(verifier, challenge, method) ==
  \/ method \in {"plain", None} /\ verifier = challenge
  \/ method = "S256" /\ Sha256(verifier) = challenge

\* mutant: a client that sends no verifier is not asked for one
PkceIfPresented(g, verifier) ==
  g.challenge # None /\ verifier # None => VerifyPkce(verifier, g.challenge, g.method)
PkceSatisfied(g, verifier) ==
  g.challenge # None => verifier # None /\ VerifyPkce(verifier, g.challenge, g.method)

(* What consume_code compares the presentation with.                       *)
Matches(g, client, redirect, verifier) ==
  /\ g.client = client
  /\ g.redirect = redirect
  /\ PkceSatisfied(g, verifier)

(* consume_code, the outcomes in the order of its early returns.  A        *)
(* presentation that does not match leaves the entry alone: it is the      *)
(* stuttering step, and so is that of a code the dict does not hold.       *)
DropExpired(c) ==
  /\ Stored(c)
  /\ Expired(c)
  /\ codes' = [codes EXCEPT ![c] = "deleted"]
  /\ UNCHANGED <<now, grant, receipt>>

\* mutant: any failed presentation throws the code away
DropPresented(c) ==
  /\ Stored(c)
  /\ codes' = [codes EXCEPT ![c] = "deleted"]
  /\ UNCHANGED <<now, grant, receipt>>
DropReplayed(c) ==
  /\ codes[c] = "used"
  /\ ~Expired(c)
  /\ codes' = [codes EXCEPT ![c] = "deleted"]
  /\ UNCHANGED <<now, grant, receipt>>

SpendNothing(c) == codes                    \* mutant: used is not set
Spend(c) == [codes EXCEPT ![c] = "used"]

Redeem(q, c, client, redirect, verifier) ==
  /\ receipt[q] = None
  /\ codes[c] = "fresh"
  /\ ~Expired(c)
  /\ Matches(grant[c], client, redirect, verifier)
  /\ codes' = Spend(c)
  /\ receipt' = [receipt EXCEPT ![q] =
                   [code |-> c, client |-> client, redirect |-> redirect,
                    verifier |-> verifier, user |-> grant[c].user, at |-> now]]
  /\ UNCHANGED <<now, grant>>

ConsumeCode(q, c, client, redirect, verifier) ==
  \/ DropExpired(c)
  \/ DropReplayed(c)
  \/ Redeem(q, c, client, redirect, verifier)

Tick ==
  /\ now < MaxTime
  /\ now' = now + 1
  /\ UNCHANGED <<codes, grant, receipt>>

(* The process stops and starts again: a new AuthCodeStore, empty.         *)
Restart ==
  /\ codes' = [c \in Code |-> IF Stored(c) THEN "deleted" ELSE codes[c]]
  /\ UNCHANGED <<now, grant, receipt>>

(* What _issue_authorization_code may pass: the PKCE validation of         *)
(* /authorize lets a method through without a challenge, and never a       *)
(* method other than these.                                                *)
Next ==
  \/ \E c \in Code, client \in Client, redirect \in RedirectUri, user \in User,
        challenge \in Challenge \cup {None}, method \in Method :
       CreateCode(c, client, redirect, user, challenge, method)
  \/ \E q \in Request, c \in Code, client \in Client, redirect \in RedirectUri,
        verifier \in Verifier \cup {None} :
       ConsumeCode(q, c, client, redirect, verifier)
  \/ Tick
  \/ Restart

Spec == AuthCodeInit /\ [][Next]_vars

-----------------------------------------------------------------------------
(* Two token requests never both get an AuthorizationCode for the same     *)
(* code, whatever is swept, replayed or restarted in between ("one-time    *)
(* use can't be defeated by two concurrent redemptions", issue #43).  That *)
(* the store implements the one-time grant implies it.                     *)
OneTimeUse ==
  \A q, r \in Request :
    receipt[q] # None /\ receipt[r] # None /\ receipt[q].code = receipt[r].code => q = r

(* Whoever got the code was the client it was issued to, at the redirect   *)
(* URI of the authorization request, knowing the verifier of its challenge *)
(* and not later than the ten minutes after it was issued.                 *)
RedeemedAsIssued ==
  \A q \in Request : receipt[q] # None =>
    LET p == receipt[q]
        g == grant[p.code]
    IN  /\ g # None
        /\ g.client = p.client /\ g.redirect = p.redirect /\ g.user = p.user
        /\ g.challenge # None =>
             g.challenge = IF g.method = "S256" THEN Sha256(p.verifier) ELSE p.verifier
        /\ p.at <= g.expires

(* A code that is still good is taken away from its owner only by its own  *)
(* redemption or by a restart: no other presentation - wrong client, wrong *)
(* redirect URI, wrong or missing verifier - and no sweep burns it.        *)
OnlyRedemptionBurns ==
  [][\A c \in Code : codes[c] = "fresh" /\ ~Expired(c) /\ codes'[c] # "fresh"
       => \/ \E q \in Request : receipt[q] = None /\ receipt'[q] # None /\ receipt'[q].code = c
          \/ \A d \in Code : codes'[d] \notin {"fresh", "used"}]_vars

(* The store implements the one-time grant.                                *)
standing ==
  [c \in Code |->
     CASE codes[c] = "unissued" -> "unissued"
       [] codes[c] = "fresh" -> "open"
       [] OTHER -> "closed"]

redeemers == [c \in Code |-> {q \in Request : receipt[q] # None /\ receipt[q].code = c}]

OneTime == INSTANCE OneTimeGrant WITH Grant <- Code, Redeemer <- Request

(* Every behaviour of the store is one of the one-time grant: codes are    *)
(* opened by create_code, closed once and for all by their redemption, the *)
(* sweeps and a restart, and consume_code answers for a code at most once. *)
ImplementsOneTimeGrant == OneTime!OneTimeSpec
=============================================================================
