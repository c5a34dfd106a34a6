-------------------------- MODULE AuthorizationFlow -------------------------
(***************************************************************************)
(* The authorization code flow end to end: /authorize (routes/oauth.py)    *)
(* as one browser with several tabs drives it, the code it issues, and the *)
(* authorization_code grant of /token (routes/oauth_grants.py), while an   *)
(* operator changes the configuration.                                     *)
(*                                                                         *)
(* What makes this hard is the session: a cookie in the browser, read when *)
(* a request arrives and replaced when its response does, which every tab  *)
(* shares and every leg falls back on, field by field.  A request is       *)
(* therefore two steps, its arrival and its answer.                        *)
(*                                                                         *)
(* The code store is taken as what AuthCodeStore is shown to be, a one-    *)
(* time grant bound to what it was issued for; its clock is left out, so a *)
(* code may be lost at any time.                                           *)
(***************************************************************************)
INSTANCE GrantRules

CONSTANTS
  Tab,           \* tabs of one browser
  Code,          \* authorization codes
  Client, User, Verifier, Scope, Resource,
  RedirectUri,   \* acceptable redirect URIs; one that is not is like none
  Loopback,      \* those that are http on a loopback address
  Portless,      \* Portless[u]: the loopback URI u without its port
  Queries,       \* the query strings pages and clients open /authorize with
  Configs,       \* configurations an operator may switch between
  DefaultScope,  \* {"openid"}: what an unrestricted client gets by default
  None,          \* the empty string, and no object
  Absent         \* a parameter the query string does not have

(* What a verifier is transformed to by S256, and by plain.                *)
Challenge == {"S256", "plain"} \X Verifier

(* An OAuthClient; empty redirects, scopes and resources restrict nothing. *)
Policy ==
  [public: BOOLEAN, redirects: SUBSET RedirectUri, scopes: SUBSET Scope,
   resources: SUBSET Resource]

(* The settings /authorize and /token decide by, as the properties of      *)
(* Settings that fold the security profile in.                             *)
ConfigType ==
  [pkceRequired: BOOLEAN, plainAllowed: BOOLEAN, oauth21: BOOLEAN, enforced: BOOLEAN,
   autoLogin: BOOLEAN, vocabulary: SUBSET Scope, users: SUBSET User,
   clients: [Client -> Policy \cup {None}]]

(* _AuthorizeParams without state, nonce and claims, which are carried the *)
(* same way and decide nothing.  Any other response_type is "other".       *)
Params ==
  [type: {"code", "other", None}, client: Client \cup {None},
   redirect: RedirectUri \cup {None}, scope: SUBSET Scope,
   challenge: Challenge \cup {None}, method: {"S256", "plain", "other", None},
   resource: SUBSET Resource]

Field == {"type", "client", "redirect", "scope", "challenge", "method", "resource"}

Empty(f) == IF f \in {"scope", "resource"} THEN {} ELSE None
NoParams == [f \in Field |-> Empty(f)]

(* A query string holds some of the fields; an empty `resource` list is an *)
(* absent one (getlist), any other field can be there and be empty.        *)
ASSUME FlowAssumption ==
  /\ None \notin {"S256", "plain", "other"}
  /\ Configs \subseteq ConfigType
  /\ Loopback \subseteq RedirectUri /\ DOMAIN Portless = Loopback
  /\ DefaultScope \subseteq Scope
  /\ \A q \in Queries :
       /\ DOMAIN q = Field
       /\ q["resource"] # {}
       /\ [f \in Field |-> IF q[f] = Absent THEN Empty(f) ELSE q[f]] \in Params

VARIABLES
  config,        \* the ConfigManager's settings, users and clients
  session,       \* the oauth_* part of the browser's cookie
  tab,           \* the tabs: what each shows or waits for
  standing,      \* standing[c]: how far code c has come
  code,          \* code[c]: the AuthorizationCode issued under c
  exchange       \* exchange[c]: what the token request that redeemed c asked for or got

vars == <<config, session, tab, standing, code, exchange>>

NoPage == [phase |-> "blank", url |-> None, params |-> NoParams, user |-> None]

FlowInit ==
  /\ config \in Configs
  /\ session = NoParams
  /\ tab = [t \in Tab |-> NoPage]
  /\ standing = [c \in Code |-> "unissued"]
  /\ code = [c \in Code |-> None]
  /\ exchange = [c \in Code |-> None]

-----------------------------------------------------------------------------
(* What /authorize accepts: the validators, in the order they run.  None   *)
(* of them changes anything, so the order only picks the error.            *)
ClientAccepted(p) ==
  p.client # None /\ p.redirect # None /\ config.clients[p.client] # None

(* Registered and requested URI are equal, but for the port of a native    *)
(* app on loopback, which cannot know it when it registers.                *)
RedirectMatches(requested, registered) ==
  \/ requested = registered
  \/ {requested, registered} \subseteq Loopback /\ Portless[requested] = Portless[registered]

RedirectAccepted(p, policy) ==
  /\ policy.redirects # {} => \E r \in policy.redirects : RedirectMatches(p.redirect, r)
  /\ config.oauth21 => policy.redirects # {}

GrantedScope(p, policy) ==
  EffectiveScope(p.scope, policy.scopes, config.enforced, DefaultScope, FALSE)

ScopeAccepted(p, policy) ==
  ScopeAllowed(GrantedScope(p, policy), config.vocabulary, policy.scopes, config.enforced)

Method(p) == IF p.method = None THEN "plain" ELSE p.method

\* mutant: the rule for plain looks at the method as it was sent
PkceByName(p, policy) ==
  /\ policy.public => p.challenge # None /\ Method(p) = "S256"
  /\ config.pkceRequired => p.challenge # None
  /\ p.challenge # None =>
       /\ Method(p) \in {"plain", "S256"}
       /\ p.method = "plain" => config.plainAllowed
PkceAccepted(p, policy) ==
  /\ policy.public => p.challenge # None /\ Method(p) = "S256"
  /\ config.pkceRequired => p.challenge # None
  /\ p.challenge # None =>
       /\ Method(p) \in {"plain", "S256"}
       /\ Method(p) = "plain" => config.plainAllowed

Accepted(p) ==
  /\ ClientAccepted(p)
  /\ LET policy == config.clients[p.client]
     IN  /\ RedirectAccepted(p, policy)
         /\ p.type = "code"
         /\ ScopeAccepted(p, policy)
         /\ PkceAccepted(p, policy)
         /\ ResourcesAllowed(p.resource, policy.resources)

-----------------------------------------------------------------------------
(* _read_authorize_params: each field from the query string or, where that *)
(* omits it, from the session the request came with.                       *)
SessionFirst(url) ==                        \* mutant: the session wins
  [f \in Field |-> IF url[f] = Absent \/ session[f] # Empty(f) THEN session[f] ELSE url[f]]
Resolve(url) == [f \in Field |-> IF url[f] = Absent THEN session[f] ELSE url[f]]

(* A GET arrives.  hint is the persona named by an auto-login login_hint,  *)
(* read from the request itself and on a GET only.                         *)
Open(t, url, hint) ==
  /\ tab' = [tab EXCEPT ![t] =
               [phase |-> "get", url |-> url, params |-> Resolve(url), user |-> hint]]
  /\ UNCHANGED <<config, session, standing, code, exchange>>

Get(t, url, hint) == tab[t].phase \in {"blank", "page"} /\ Open(t, url, hint)

(* _authorize_query_params: the parameters of the page, the empty ones     *)
(* left out.                                                               *)
QueryOf(p) == [f \in Field |-> IF p[f] = Empty(f) THEN Absent ELSE p[f]]

(* The "Change username" link of the login page.                           *)
ChangeUsername(t) == tab[t].phase = "page" /\ Open(t, QueryOf(tab[t].params), None)

(* The login form is posted to the URL of its page.  user is whom the      *)
(* credentials name; None stands for every submission that authenticates   *)
(* nobody (wrong or missing credentials, the first of the two steps).      *)
Submit(t, user) ==
  /\ tab[t].phase = "page"
  /\ tab' = [tab EXCEPT ![t] =
               [phase |-> "post", url |-> @.url, params |-> Resolve(@.url), user |-> user]]
  /\ UNCHANGED <<config, session, standing, code, exchange>>

Waiting(t) == tab[t].phase \in {"get", "post"}

(* _try_persona_auto_login is in force for this request.                   *)
AutoLogin(t) == tab[t].phase = "get" /\ config.autoLogin /\ tab[t].user # None

Authenticated(t) ==
  /\ tab[t].user \in config.users
  /\ tab[t].phase = "post" \/ AutoLogin(t)

(* An error page or an error redirect.  The session keeps what was asked.  *)
Reject(t) ==
  /\ Waiting(t)
  /\ ~Accepted(tab[t].params) \/ (AutoLogin(t) /\ tab[t].user \notin config.users)
  /\ session' = tab[t].params
  /\ tab' = [tab EXCEPT ![t] = NoPage]
  /\ UNCHANGED <<config, standing, code, exchange>>

(* The login page, with the scope as it was granted; the session keeps it  *)
(* as it was asked for.                                                    *)
ShowPage(t) ==
  LET p == tab[t].params
  IN  /\ Waiting(t)
      /\ Accepted(p)
      /\ ~AutoLogin(t) /\ ~Authenticated(t)
      /\ session' = p
      /\ tab' = [tab EXCEPT ![t] =
                   [phase |-> "page", url |-> @.url, user |-> None,
                    params |-> [p EXCEPT !.scope = GrantedScope(p, config.clients[p.client])]]]
      /\ UNCHANGED <<config, standing, code, exchange>>

(* _issue_authorization_code, which also clears the oauth_ keys.           *)
Issued(p, user) ==
  LET policy == config.clients[p.client]
  IN  [client |-> p.client, redirect |-> p.redirect, user |-> user,
       scope |-> GrantedScope(p, policy), challenge |-> p.challenge, method |-> p.method,
       resource |-> p.resource, public |-> policy.public]

IssueCode(t, c) ==
  LET p == tab[t].params
  IN  /\ Waiting(t)
      /\ Accepted(p)
      /\ Authenticated(t)
      /\ standing[c] = "unissued"
      /\ standing' = [standing EXCEPT ![c] = "fresh"]
      /\ code' = [code EXCEPT ![c] = Issued(p, tab[t].user)]
      /\ session' = NoParams
      /\ tab' = [tab EXCEPT ![t] = NoPage]
      /\ UNCHANGED <<config, exchange>>

-----------------------------------------------------------------------------
(* /token: consume_code under the store's lock, then the checks of the     *)
(* grant under the configuration of that moment.  A presentation that does *)
(* not match the code, or by a client that is not configured, changes      *)
(* nothing.                                                                *)
VerifierIgnored(c, verifier) == TRUE        \* mutant: PKCE is not verified
VerifierFits(c, verifier) ==
  code[c].challenge # None =>
    /\ verifier # None
    /\ code[c].challenge = <<Method(code[c]), verifier>>

Redeem(c, client, redirect, verifier, resource) ==
  /\ standing[c] = "fresh"
  /\ config.clients[client] # None
  /\ code[c].client = client /\ code[c].redirect = redirect
  /\ VerifierFits(c, verifier)
  /\ standing' = [standing EXCEPT ![c] = "redeemed"]
  /\ exchange' = [exchange EXCEPT ![c] =
                    [scope |-> code[c].scope, resource |-> resource,
                     proof |-> IF code[c].challenge = None THEN None ELSE verifier]]
  /\ UNCHANGED <<config, session, tab, code>>

(* The user still exists, and the client - looked up again - may still     *)
(* have the scope and the resources; for a client that is gone there is    *)
(* nothing to check but that it asks for no resource.                      *)
ExchangeUnchecked(c) == code[c].user \in config.users    \* mutant: no second look
ExchangeAllowed(c) ==
  LET policy == config.clients[code[c].client]
  IN  /\ code[c].user \in config.users
      /\ policy = None => exchange[c].resource = {}
      /\ policy # None =>
           /\ ScopeAllowed(code[c].scope, config.vocabulary, policy.scopes, config.enforced)
           /\ TokenResourceAllowed(exchange[c].resource, code[c].resource, policy.resources)

Mint(c) ==
  /\ standing[c] = "redeemed"
  /\ ExchangeAllowed(c)
  /\ standing' = [standing EXCEPT ![c] = "minted"]
  /\ exchange' = [exchange EXCEPT ![c] =
                    [scope |-> @.scope, proof |-> @.proof,
                     resource |-> TokenResourceGranted(@.resource, code[c].resource)]]
  /\ UNCHANGED <<config, session, tab, code>>

(* The code is spent all the same.                                         *)
Refuse(c) ==
  /\ standing[c] = "redeemed"
  /\ ~ExchangeAllowed(c)
  /\ standing' = [standing EXCEPT ![c] = "refused"]
  /\ UNCHANGED <<config, session, tab, code, exchange>>

(* Expiry, replay and restart.                                             *)
LoseCode(c) ==
  /\ standing[c] = "fresh"
  /\ standing' = [standing EXCEPT ![c] = "lost"]
  /\ UNCHANGED <<config, session, tab, code, exchange>>

(* The operator saves or reloads another configuration.                    *)
Reload ==
  /\ config' \in Configs
  /\ UNCHANGED <<session, tab, standing, code, exchange>>

Next ==
  \/ \E t \in Tab :
       \/ \E url \in Queries, hint \in User \cup {None} : Get(t, url, hint)
       \/ ChangeUsername(t)
       \/ \E user \in User \cup {None} : Submit(t, user)
       \/ Reject(t)
       \/ ShowPage(t)
       \/ \E c \in Code : IssueCode(t, c)
  \/ \E c \in Code :
       \/ \E client \in Client, redirect \in RedirectUri, verifier \in Verifier \cup {None},
             resource \in SUBSET Resource :
            Redeem(c, client, redirect, verifier, resource)
       \/ Mint(c)
       \/ Refuse(c)
       \/ LoseCode(c)
  \/ Reload

Spec == FlowInit /\ [][Next]_vars

-----------------------------------------------------------------------------
AuthorizationCode ==
  [client: Client, redirect: RedirectUri, user: User, scope: SUBSET Scope,
   challenge: Challenge \cup {None}, method: {"S256", "plain", "other", None},
   resource: SUBSET Resource, public: BOOLEAN]

Exchange == [scope: SUBSET Scope, resource: SUBSET Resource, proof: Verifier \cup {None}]

Standing == {"unissued", "fresh", "lost", "redeemed", "minted", "refused"}

FlowType ==
  /\ config \in Configs
  /\ session \in Params
  /\ \A t \in Tab :
       /\ tab[t].phase \in {"blank", "get", "page", "post"}
       /\ tab[t].params \in Params
       /\ tab[t].user \in User \cup {None}
       /\ tab[t].phase = "page" => tab[t].params.client # None /\ tab[t].user = None
  /\ \A c \in Code :
       /\ standing[c] \in Standing
       /\ standing[c] # "unissued" => code[c] \in AuthorizationCode
       /\ standing[c] \in {"redeemed", "minted", "refused"} => exchange[c] \in Exchange

(* Whatever the other tabs did to the session and the operator to the      *)
(* configuration since the login page was shown, the code that its         *)
(* submission issues is one the configuration of this moment allows:       *)
(* client, redirect URI, PKCE, scope, resources and user are all looked at *)
(* again on the POST.                                                      *)
MayIssue(g, k) ==
  /\ k # None
  /\ g.user \in config.users
  /\ k.redirects = {} => ~config.oauth21
  /\ k.redirects # {} /\ g.redirect \notin k.redirects =>
       \E r \in k.redirects \cap Loopback :
         g.redirect \in Loopback /\ Portless[g.redirect] = Portless[r]
  /\ k.public => g.challenge # None /\ g.method = "S256"
  /\ config.pkceRequired => g.challenge # None
  /\ g.challenge # None => g.method = "S256" \/ config.plainAllowed
  /\ config.enforced => g.scope \subseteq config.vocabulary
  /\ config.enforced /\ k.scopes # {} => g.scope \subseteq k.scopes
  /\ k.resources # {} => g.resource \subseteq k.resources

CodesObeyPolicy ==
  [][\A c \in Code : standing[c] = "unissued" /\ standing'[c] = "fresh"
       => MayIssue(code'[c], config.clients[code'[c].client])]_vars

(* A page issues codes for the request it shows: every parameter that is   *)
(* in its URL is in the code its submission issues, whichever requests of  *)
(* other tabs the session has seen meanwhile ("binds each POST to its own  *)
(* page", #325).  Parameters the URL omits may come from another tab; the  *)
(* code documents that (#328).                                             *)
PageIssuesForItself ==
  [][\A c \in Code, t \in Tab :
       standing[c] = "unissued" /\ standing'[c] = "fresh" /\ tab[t] # tab'[t] =>
         /\ \A f \in {"client", "redirect", "challenge", "method", "resource"} :
              tab[t].url[f] \in {Absent, code'[c][f]}
         /\ tab[t].url["scope"] \in {Absent, {}, code'[c].scope}]_vars

(* A token made of a code carries no more than the code and, under the     *)
(* configuration of that moment, no more than the client may have; its     *)
(* user still exists.  Between the redemption and this check the operator  *)
(* may have taken any of it away.                                          *)
MintsObeyPolicy ==
  [][\A c \in Code :
       standing[c] # standing'[c] /\ standing'[c] = "minted" =>
         LET k == config.clients[code[c].client]
             e == exchange'[c]
         IN  /\ code[c].user \in config.users
             /\ e.scope = code[c].scope
             /\ e.resource \subseteq code[c].resource
             /\ k # None /\ config.enforced => e.scope \subseteq config.vocabulary
             /\ k # None /\ config.enforced /\ k.scopes # {} => e.scope \subseteq k.scopes
             /\ k # None /\ k.resources # {} => e.resource \subseteq k.resources]_vars

(* No token comes of a code that a public client was given but to whoever  *)
(* knows the S256 verifier of its challenge, with every profile and        *)
(* setting (#188): there is nothing else that ties the two requests.       *)
PublicClientsProvePossession ==
  \A c \in Code :
    standing[c] \in {"redeemed", "minted", "refused"} /\ code[c].public =>
      code[c].method = "S256" /\ code[c].challenge = <<"S256", exchange[c].proof>>
=============================================================================
