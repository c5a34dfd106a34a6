----------------------- MODULE AuthorizationFlowProofs ----------------------
(***************************************************************************)
(* What holds of the authorization code flow for every set of tabs,        *)
(* clients, query strings and configurations.                              *)
(***************************************************************************)
EXTENDS AuthorizationFlow, TLAPS

Exchanged == {"redeemed", "minted", "refused"}

(* A request in flight carries the fields of its own query string.         *)
RequestFollowsUrl ==
  \A t \in Tab : Waiting(t) =>
    \A f \in Field : tab[t].url[f] # Absent => tab[t].params[f] = tab[t].url[f]

(* What was issued to a public client is bound to an S256 challenge.       *)
PublicCodesAreBound ==
  \A c \in Code : standing[c] # "unissued" /\ code[c].public =>
    code[c].challenge # None /\ code[c].method = "S256"

(* What the redemption of a code has established and copied.               *)
ExchangesFit ==
  \A c \in Code : standing[c] \in Exchanged =>
    /\ exchange[c].scope = code[c].scope
    /\ code[c].challenge # None => code[c].challenge = <<Method(code[c]), exchange[c].proof>>

Functions ==
  /\ tab = [t \in Tab |-> tab[t]]
  /\ standing = [c \in Code |-> standing[c]]
  /\ code = [c \in Code |-> code[c]]
  /\ exchange = [c \in Code |-> exchange[c]]

FlowInv == Functions /\ RequestFollowsUrl /\ PublicCodesAreBound /\ ExchangesFit

(* The invariant holds at the start.                                       *)
LEMMA InvInit == FlowInit => FlowInv
  BY DEF FlowInit, FlowInv, Functions, RequestFollowsUrl, PublicCodesAreBound, ExchangesFit,
         Exchanged, Waiting, NoPage

(* A request that arrives resolves to what its URL holds.                  *)
LEMMA ResolveFollows ==
  \A url : \A f \in Field : url[f] # Absent => Resolve(url)[f] = url[f]
  BY DEF Resolve

(* What an accepted request of a public client is issued.                  *)
LEMMA IssuedIsBound ==
  ASSUME NEW p, NEW user, Accepted(p), Issued(p, user).public
  PROVE  Issued(p, user).challenge # None /\ Issued(p, user).method = "S256"
  BY DEF Accepted, Issued, PkceAccepted, Method

(* Every action preserves the invariant.                                   *)
LEMMA InvNext == FlowInv /\ [Next]_vars => FlowInv'
<1> SUFFICES ASSUME FlowInv, [Next]_vars PROVE FlowInv'
  OBVIOUS
<1> USE DEF FlowInv
<1>1. ASSUME NEW t \in Tab, NEW url, NEW hint, Open(t, url, hint) PROVE FlowInv'
  <2>1. /\ tab' = [tab EXCEPT ![t] =
                    [phase |-> "get", url |-> url, params |-> Resolve(url), user |-> hint]]
        /\ UNCHANGED <<standing, code, exchange>>
    BY <1>1 DEF Open
  <2>2. Functions' /\ PublicCodesAreBound' /\ ExchangesFit'
    BY <2>1 DEF Functions, PublicCodesAreBound, ExchangesFit, Method
  <2>3. RequestFollowsUrl'
    BY <2>1, ResolveFollows DEF Functions, RequestFollowsUrl, Waiting
  <2> QED BY <2>2, <2>3
<1>2. ASSUME NEW t \in Tab, NEW user, Submit(t, user) PROVE FlowInv'
  <2>1. /\ tab' = [tab EXCEPT ![t] =
                    [phase |-> "post", url |-> tab[t].url, params |-> Resolve(tab[t].url),
                     user |-> user]]
        /\ UNCHANGED <<standing, code, exchange>>
    BY <1>2 DEF Submit, Functions
  <2>2. Functions' /\ PublicCodesAreBound' /\ ExchangesFit'
    BY <2>1 DEF Functions, PublicCodesAreBound, ExchangesFit, Method
  <2>3. RequestFollowsUrl'
    BY <2>1, ResolveFollows DEF Functions, RequestFollowsUrl, Waiting
  <2> QED BY <2>2, <2>3
<1>3. ASSUME NEW t \in Tab, Reject(t) PROVE FlowInv'
  BY <1>3 DEF Reject, Functions, RequestFollowsUrl, PublicCodesAreBound, ExchangesFit, Method,
              Waiting, NoPage
<1>4. ASSUME NEW t \in Tab, ShowPage(t) PROVE FlowInv'
  <2>1. PICK q : /\ tab' = [tab EXCEPT ![t] = [phase |-> "page", url |-> tab[t].url,
                                               user |-> None, params |-> q]]
                 /\ UNCHANGED <<standing, code, exchange>>
    BY <1>4 DEF ShowPage, Functions
  <2> QED BY <2>1 DEF Functions, RequestFollowsUrl, PublicCodesAreBound, ExchangesFit, Method,
                      Waiting
<1>5. ASSUME NEW t \in Tab, NEW c \in Code, IssueCode(t, c) PROVE FlowInv'
  <2>1. /\ Accepted(tab[t].params)
        /\ standing' = [standing EXCEPT ![c] = "fresh"]
        /\ code' = [code EXCEPT ![c] = Issued(tab[t].params, tab[t].user)]
        /\ tab' = [tab EXCEPT ![t] = NoPage]
        /\ exchange' = exchange
    BY <1>5 DEF IssueCode
  <2>2. Functions'
    BY <2>1 DEF Functions
  <2>3. PublicCodesAreBound'
    BY <2>1, IssuedIsBound DEF Functions, PublicCodesAreBound
  <2>4. RequestFollowsUrl'
    BY <2>1 DEF Functions, RequestFollowsUrl, Waiting, NoPage
  <2>5. ExchangesFit'
    BY <2>1 DEF Functions, ExchangesFit, Exchanged, Method
  <2> QED BY <2>2, <2>3, <2>4, <2>5
<1>6. ASSUME NEW c \in Code, NEW client, NEW redirect, NEW verifier, NEW resource,
             Redeem(c, client, redirect, verifier, resource)
      PROVE FlowInv'
  <2>1. /\ standing[c] = "fresh"
        /\ VerifierFits(c, verifier)
        /\ standing' = [standing EXCEPT ![c] = "redeemed"]
        /\ exchange' = [exchange EXCEPT ![c] =
             [scope |-> code[c].scope, resource |-> resource,
              proof |-> IF code[c].challenge = None THEN None ELSE verifier]]
        /\ UNCHANGED <<tab, code>>
    BY <1>6 DEF Redeem
  <2>2. Functions' /\ RequestFollowsUrl' /\ PublicCodesAreBound'
    BY <2>1 DEF Functions, RequestFollowsUrl, Waiting, PublicCodesAreBound
  <2>3. ExchangesFit'
    BY <2>1 DEF Functions, ExchangesFit, Exchanged, VerifierFits, Method
  <2> QED BY <2>2, <2>3
<1>7. ASSUME NEW c \in Code, Mint(c) PROVE FlowInv'
  <2>1. /\ standing[c] = "redeemed"
        /\ standing' = [standing EXCEPT ![c] = "minted"]
        /\ UNCHANGED <<tab, code>>
    BY <1>7 DEF Mint
  <2>2. PICK r : exchange' = [exchange EXCEPT ![c] =
                   [scope |-> exchange[c].scope, proof |-> exchange[c].proof, resource |-> r]]
    BY <1>7 DEF Mint, Functions
  <2>3. Functions' /\ RequestFollowsUrl' /\ PublicCodesAreBound'
    BY <2>1, <2>2 DEF Functions, RequestFollowsUrl, Waiting, PublicCodesAreBound
  <2>4. ExchangesFit'
    BY <2>1, <2>2 DEF Functions, ExchangesFit, Exchanged, Method
  <2> QED BY <2>3, <2>4
<1>8. ASSUME NEW c \in Code, Refuse(c) PROVE FlowInv'
  BY <1>8 DEF Refuse, Functions, RequestFollowsUrl, PublicCodesAreBound, ExchangesFit, Method,
              Waiting, Exchanged
<1>9. ASSUME NEW c \in Code, LoseCode(c) PROVE FlowInv'
  BY <1>9 DEF LoseCode, Functions, RequestFollowsUrl, PublicCodesAreBound, ExchangesFit, Method,
              Waiting, Exchanged
<1>10. ASSUME UNCHANGED <<tab, standing, code, exchange>> PROVE FlowInv'
  BY <1>10 DEF Functions, RequestFollowsUrl, PublicCodesAreBound, ExchangesFit, Method, Waiting
<1> QED BY <1>1, <1>2, <1>3, <1>4, <1>5, <1>6, <1>7, <1>8, <1>9, <1>10
        DEF Next, Get, ChangeUsername, Reload, vars

(* A token made of a code that a public client was given went to whoever   *)
(* knows the S256 verifier of its challenge (PublicClientsProvePossession, *)
(* _validate_authorize_pkce and _verify_pkce together).                    *)
THEOREM PublicClientsAreBound == Spec => []PublicClientsProvePossession
<1>1. FlowInv => PublicClientsProvePossession
  BY FlowAssumption DEF FlowInv, PublicCodesAreBound, ExchangesFit, Exchanged, Method,
                        PublicClientsProvePossession
<1> QED BY InvInit, InvNext, <1>1, PTL DEF Spec

(* The one action that issues a code.                                      *)
LEMMA OnlyIssueCodeIssues ==
  ASSUME FlowInv, [Next]_vars, NEW c \in Code,
         standing[c] = "unissued", standing'[c] = "fresh"
  PROVE  \E t \in Tab : IssueCode(t, c)
<1>1. ASSUME NEW t \in Tab, NEW d \in Code, IssueCode(t, d) PROVE IssueCode(t, c)
  <2>1. standing' = [standing EXCEPT ![d] = "fresh"]
    BY <1>1 DEF IssueCode
  <2>2. c = d
    BY <2>1 DEF FlowInv, Functions
  <2> QED BY <1>1, <2>2
<1>2. ASSUME NEW d \in Code, \/ \E client, redirect, verifier, resource :
                                  Redeem(d, client, redirect, verifier, resource)
                             \/ Mint(d) \/ Refuse(d) \/ LoseCode(d)
      PROVE FALSE
  BY <1>2 DEF FlowInv, Functions, Redeem, Mint, Refuse, LoseCode
<1>3. ASSUME standing' = standing PROVE FALSE
  BY <1>3
<1>4. \A t \in Tab : \A url, hint, user :
        Get(t, url, hint) \/ ChangeUsername(t) \/ Submit(t, user) \/ Reject(t) \/ ShowPage(t)
          => standing' = standing
  BY DEF Get, ChangeUsername, Open, Submit, Reject, ShowPage
<1>5. Reload \/ UNCHANGED vars => standing' = standing
  BY DEF Reload, vars
<1> QED BY <1>1, <1>2, <1>3, <1>4, <1>5 DEF Next

(* Every code is allowed by the configuration of the moment it is issued   *)
(* (CodesObeyPolicy, the validators of /authorize on the POST leg).        *)
THEOREM CodesAreAllowed == Spec => CodesObeyPolicy
<1>1. ASSUME FlowInv, [Next]_vars, NEW c \in Code,
             standing[c] = "unissued", standing'[c] = "fresh"
      PROVE  MayIssue(code'[c], config.clients[code'[c].client])
  <2>1. PICK t \in Tab : IssueCode(t, c)
    BY <1>1, OnlyIssueCodeIssues
  <2> DEFINE p == tab[t].params
             user == tab[t].user
  <2>2. Accepted(p) /\ user \in config.users /\ code'[c] = Issued(p, user)
    BY <1>1, <2>1 DEF IssueCode, FlowInv, Functions, Authenticated
  <2> HIDE DEF p, user
  <2>3. MayIssue(Issued(p, user), config.clients[p.client])
    BY <2>2 DEF MayIssue, Issued, Accepted, ClientAccepted, RedirectAccepted,
                RedirectMatches, ScopeAccepted, PkceAccepted, Method, ScopeAllowed, ResourcesAllowed
  <2> QED BY <2>2, <2>3 DEF Issued
<1>2. FlowInv /\ [Next]_vars =>
        [\A c \in Code : standing[c] = "unissued" /\ standing'[c] = "fresh"
           => MayIssue(code'[c], config.clients[code'[c].client])]_vars
  BY <1>1
<1> QED BY InvInit, InvNext, <1>2, PTL DEF Spec, CodesObeyPolicy

(* What a submission issues has every field that the URL of its page       *)
(* carries, whatever other tabs left in the session (PageIssuesForItself,  *)
(* _read_authorize_params).                                                *)
THEOREM PagesIssueForThemselves == Spec => PageIssuesForItself
<1> DEFINE Follows(c, t) ==
      /\ \A f \in {"client", "redirect", "challenge", "method", "resource"} :
           tab[t].url[f] \in {Absent, code'[c][f]}
      /\ tab[t].url["scope"] \in {Absent, {}, code'[c].scope}
<1>1. ASSUME FlowInv, [Next]_vars, NEW c \in Code, NEW t \in Tab,
             standing[c] = "unissued", standing'[c] = "fresh", tab[t] # tab'[t]
      PROVE  Follows(c, t)
  <2>1. PICK u \in Tab : IssueCode(u, c)
    BY <1>1, OnlyIssueCodeIssues
  <2>2. u = t
    BY <1>1, <2>1 DEF IssueCode, FlowInv, Functions
  <2> DEFINE p == tab[t].params
  <2>3. Waiting(t) /\ code'[c] = Issued(p, tab[t].user)
    BY <1>1, <2>1, <2>2 DEF IssueCode, FlowInv, Functions
  <2>4. \A f \in Field : tab[t].url[f] # Absent => p[f] = tab[t].url[f]
    BY <1>1, <2>3 DEF FlowInv, RequestFollowsUrl
  <2> HIDE DEF p
  <2>5. /\ code'[c]["client"] = p["client"]
        /\ code'[c]["redirect"] = p["redirect"]
        /\ code'[c]["challenge"] = p["challenge"]
        /\ code'[c]["method"] = p["method"]
        /\ code'[c]["resource"] = p["resource"]
    BY <2>3 DEF Issued
  <2>6. p["scope"] # {} => code'[c].scope = p["scope"]
    BY <2>3 DEF Issued, GrantedScope, EffectiveScope
  <2> QED BY <2>4, <2>5, <2>6 DEF Field
<1>2. FlowInv /\ [Next]_vars =>
        [\A c \in Code, t \in Tab :
           standing[c] = "unissued" /\ standing'[c] = "fresh" /\ tab[t] # tab'[t]
             => Follows(c, t)]_vars
  BY <1>1
<1> QED BY InvInit, InvNext, <1>2, PTL DEF Spec, PageIssuesForItself

(* The one action that makes a token of a code.                            *)
LEMMA OnlyMintMints ==
  ASSUME FlowInv, [Next]_vars, NEW c \in Code,
         standing[c] # standing'[c], standing'[c] = "minted"
  PROVE  Mint(c)
<1>1. ASSUME NEW d \in Code, Mint(d) PROVE Mint(c)
  <2>1. c = d
    BY <1>1 DEF FlowInv, Functions, Mint
  <2> QED BY <1>1, <2>1
<1>2. ASSUME NEW d \in Code, \/ \E t \in Tab : IssueCode(t, d)
                             \/ \E client, redirect, verifier, resource :
                                  Redeem(d, client, redirect, verifier, resource)
                             \/ Refuse(d) \/ LoseCode(d)
      PROVE FALSE
  BY <1>2 DEF FlowInv, Functions, IssueCode, Redeem, Refuse, LoseCode
<1>3. \A t \in Tab : \A url, hint, user :
        Get(t, url, hint) \/ ChangeUsername(t) \/ Submit(t, user) \/ Reject(t) \/ ShowPage(t)
          => standing' = standing
  BY DEF Get, ChangeUsername, Open, Submit, Reject, ShowPage
<1>4. Reload \/ UNCHANGED vars => standing' = standing
  BY DEF Reload, vars
<1> QED BY <1>1, <1>2, <1>3, <1>4 DEF Next

(* A token carries no more than its code, and no more than the             *)
(* configuration of the moment lets the client have (MintsObeyPolicy, the  *)
(* checks of _grant_authorization_code after consume_code).                *)
THEOREM MintsAreAllowed == Spec => MintsObeyPolicy
<1> DEFINE Allowed(c) ==
      LET k == config.clients[code[c].client]
          e == exchange'[c]
      IN  /\ code[c].user \in config.users
          /\ e.scope = code[c].scope
          /\ e.resource \subseteq code[c].resource
          /\ k # None /\ config.enforced => e.scope \subseteq config.vocabulary
          /\ k # None /\ config.enforced /\ k.scopes # {} => e.scope \subseteq k.scopes
          /\ k # None /\ k.resources # {} => e.resource \subseteq k.resources
<1>1. ASSUME FlowInv, [Next]_vars, NEW c \in Code,
             standing[c] # standing'[c], standing'[c] = "minted"
      PROVE  Allowed(c)
  <2>1. Mint(c)
    BY <1>1, OnlyMintMints
  <2>2. /\ exchange'[c].scope = code[c].scope
        /\ exchange'[c].resource = TokenResourceGranted(exchange[c].resource, code[c].resource)
    BY <1>1, <2>1 DEF Mint, FlowInv, Functions, ExchangesFit, Exchanged
  <2>3. ExchangeAllowed(c)
    BY <2>1 DEF Mint
  <2> QED BY <2>2, <2>3 DEF ExchangeAllowed, ScopeAllowed, TokenResourceAllowed,
                            TokenResourceGranted, ResourcesAllowed
<1>2. FlowInv /\ [Next]_vars =>
        [\A c \in Code : standing[c] # standing'[c] /\ standing'[c] = "minted"
           => Allowed(c)]_vars
  BY <1>1
<1> QED BY InvInit, InvNext, <1>2, PTL DEF Spec, MintsObeyPolicy

-----------------------------------------------------------------------------
(* Type correctness: every parameter of a request, wherever it came from - *)
(* the query string, the session or the link of a page - is one a request  *)
(* can have.                                                               *)
ValuesOf(f) ==
  CASE f = "type" -> {"code", "other", None}
    [] f = "client" -> Client \cup {None}
    [] f = "redirect" -> RedirectUri \cup {None}
    [] f = "scope" -> SUBSET Scope
    [] f = "challenge" -> Challenge \cup {None}
    [] f = "method" -> {"S256", "plain", "other", None}
    [] f = "resource" -> SUBSET Resource

IsQuery(url) == \A f \in Field : url[f] = Absent \/ url[f] \in ValuesOf(f)

UrlsFit == \A t \in Tab : tab[t].phase # "blank" => IsQuery(tab[t].url)

TypeInv == Functions /\ FlowType /\ UrlsFit

(* The fields of a request are of their types.                             *)
LEMMA FieldsOfParams == ASSUME NEW p \in Params PROVE \A f \in Field : p[f] \in ValuesOf(f)
  BY DEF Params, Field, ValuesOf

(* And what has such fields is a request.                                  *)
LEMMA ParamsOfFields ==
  ASSUME NEW p, p = [f \in Field |-> p[f]], \A f \in Field : p[f] \in ValuesOf(f)
  PROVE  p \in Params
<1>1. /\ p["type"] \in {"code", "other", None} /\ p["client"] \in Client \cup {None}
      /\ p["redirect"] \in RedirectUri \cup {None} /\ p["scope"] \in SUBSET Scope
      /\ p["challenge"] \in Challenge \cup {None}
      /\ p["method"] \in {"S256", "plain", "other", None}
      /\ p["resource"] \in SUBSET Resource
  BY DEF Field, ValuesOf
<1>2. p = [type |-> p["type"], client |-> p["client"], redirect |-> p["redirect"],
           scope |-> p["scope"], challenge |-> p["challenge"], method |-> p["method"],
           resource |-> p["resource"]]
  BY DEF Field
<1> QED BY <1>1, <1>2 DEF Params

(* The empty request.                                                      *)
LEMMA NothingIsParams == NoParams \in Params
<1> DEFINE p == NoParams
<1>1. p = [f \in Field |-> p[f]] /\ \A f \in Field : p[f] \in ValuesOf(f)
  BY DEF NoParams, Empty, Field, ValuesOf
<1> QED BY <1>1, ParamsOfFields

(* A query string resolves to a request.                                   *)
LEMMA ResolvedIsParams ==
  ASSUME session \in Params, NEW url, IsQuery(url)
  PROVE  Resolve(url) \in Params
<1> DEFINE p == Resolve(url)
<1>1. \A f \in Field : session[f] \in ValuesOf(f)
  BY FieldsOfParams
<1>2. p = [f \in Field |-> p[f]] /\ \A f \in Field : p[f] \in ValuesOf(f)
  BY <1>1 DEF Resolve, IsQuery
<1> QED BY <1>2, ParamsOfFields

(* The query strings from outside, and the one of a link.                  *)
LEMMA QueriesFit ==
  /\ \A url \in Queries : IsQuery(url)
  /\ \A p \in Params : IsQuery(QueryOf(p))
<1>1. ASSUME NEW url \in Queries PROVE IsQuery(url)
  <2> DEFINE p == [f \in Field |-> IF url[f] = Absent THEN Empty(f) ELSE url[f]]
  <2>1. p \in Params
    BY FlowAssumption
  <2>2. \A f \in Field : p[f] \in ValuesOf(f)
    BY <2>1, FieldsOfParams
  <2> QED BY <2>2 DEF IsQuery
<1>2. ASSUME NEW p \in Params PROVE IsQuery(QueryOf(p))
  BY FieldsOfParams DEF IsQuery, QueryOf
<1> QED BY <1>1, <1>2

(* The scope a request is granted.                                         *)
LEMMA GrantedTyped ==
  ASSUME config \in Configs, NEW p \in Params, Accepted(p)
  PROVE  /\ p.client \in Client /\ p.redirect \in RedirectUri
         /\ config.clients[p.client] \in Policy
         /\ GrantedScope(p, config.clients[p.client]) \in SUBSET Scope
<1>1. config \in ConfigType
  BY FlowAssumption
<1>2. p.client \in Client /\ p.redirect \in RedirectUri /\ config.clients[p.client] # None
  BY DEF Accepted, ClientAccepted, Params
<1>3. config.clients[p.client] \in Policy
  BY <1>1, <1>2 DEF ConfigType
<1>4. config.clients[p.client].scopes \in SUBSET Scope /\ p.scope \in SUBSET Scope
  BY <1>3 DEF Policy, Params
<1> QED BY <1>2, <1>3, <1>4, FlowAssumption DEF GrantedScope, EffectiveScope

(* Types hold at the start.                                                *)
LEMMA TypeInit == FlowInit => TypeInv
  BY NothingIsParams DEF FlowInit, TypeInv, Functions, FlowType, UrlsFit, NoPage, Standing

(* Opening a page, or submitting one.                                      *)
LEMMA TypeArrive ==
  ASSUME TypeInv, NEW t \in Tab, NEW url, IsQuery(url), NEW user \in User \cup {None},
         NEW phase \in {"get", "post"},
         tab' = [tab EXCEPT ![t] =
                   [phase |-> phase, url |-> url, params |-> Resolve(url), user |-> user]],
         UNCHANGED <<config, session, standing, code, exchange>>
  PROVE  TypeInv'
<1>1. Resolve(url) \in Params
  BY ResolvedIsParams DEF TypeInv, FlowType
<1>2. /\ tab'[t] = [phase |-> phase, url |-> url, params |-> Resolve(url), user |-> user]
      /\ \A u \in Tab : u # t => tab'[u] = tab[u]
  BY DEF TypeInv, Functions
<1>3. Functions' /\ UrlsFit'
  BY <1>2 DEF TypeInv, Functions, UrlsFit, IsQuery
<1>4. FlowType'
  BY <1>1, <1>2 DEF TypeInv, FlowType
<1> QED BY <1>3, <1>4 DEF TypeInv

(* A tab that gets its answer.                                             *)
LEMMA TypeAnswer ==
  ASSUME TypeInv, NEW t \in Tab, NEW page,
         tab' = [tab EXCEPT ![t] = page], session' \in Params,
         \/ page = NoPage
         \/ /\ page.phase = "page" /\ page.params \in Params /\ page.params.client # None
            /\ page.user = None /\ IsQuery(page.url)
         \/ page = tab[t]
  PROVE  /\ tab' = [u \in Tab |-> tab'[u]] /\ UrlsFit' /\ session' \in Params
         /\ \A u \in Tab :
              /\ tab'[u].phase \in {"blank", "get", "page", "post"}
              /\ tab'[u].params \in Params
              /\ tab'[u].user \in User \cup {None}
              /\ tab'[u].phase = "page" => tab'[u].params.client # None /\ tab'[u].user = None
<1>1. tab'[t] = page /\ \A u \in Tab : u # t => tab'[u] = tab[u]
  BY DEF TypeInv, Functions
<1>2. tab' = [u \in Tab |-> tab'[u]]
  BY DEF TypeInv, Functions
<1>3. UrlsFit'
  BY <1>1 DEF TypeInv, UrlsFit, IsQuery, NoPage
<1> QED BY <1>1, <1>2, <1>3, NothingIsParams DEF TypeInv, FlowType, NoPage

(* Every action preserves the types.                                       *)
LEMMA TypeNext == TypeInv /\ [Next]_vars => TypeInv'
<1> SUFFICES ASSUME TypeInv, [Next]_vars PROVE TypeInv'
  OBVIOUS
<1> USE DEF TypeInv
<1>1. ASSUME NEW t \in Tab, NEW url \in Queries, NEW hint \in User \cup {None}, Get(t, url, hint)
      PROVE  TypeInv'
  BY <1>1, TypeArrive, QueriesFit DEF Get, Open
<1>2. ASSUME NEW t \in Tab, ChangeUsername(t) PROVE TypeInv'
  <2>1. IsQuery(QueryOf(tab[t].params))
    BY QueriesFit DEF FlowType
  <2> QED BY <1>2, <2>1, TypeArrive DEF ChangeUsername, Open
<1>3. ASSUME NEW t \in Tab, NEW user \in User \cup {None}, Submit(t, user) PROVE TypeInv'
  <2>1. IsQuery(tab[t].url)
    BY <1>3 DEF Submit, UrlsFit
  <2>2. tab' = [tab EXCEPT ![t] = [phase |-> "post", url |-> tab[t].url,
                                   params |-> Resolve(tab[t].url), user |-> user]]
    BY <1>3 DEF Submit, Functions
  <2> QED BY <1>3, <2>1, <2>2, TypeArrive DEF Submit
<1>4. ASSUME NEW t \in Tab, Reject(t) PROVE TypeInv'
  <2>1. session' \in Params /\ tab' = [tab EXCEPT ![t] = NoPage]
        /\ UNCHANGED <<config, standing, code, exchange>>
    BY <1>4 DEF Reject, FlowType
  <2> QED BY <2>1, TypeAnswer DEF Functions, FlowType
<1>5. ASSUME NEW t \in Tab, ShowPage(t) PROVE TypeInv'
  <2> DEFINE p == tab[t].params
             page == [phase |-> "page", url |-> tab[t].url, user |-> None,
                      params |-> [p EXCEPT !.scope = GrantedScope(p, config.clients[p.client])]]
  <2>1. /\ p \in Params /\ Accepted(p) /\ IsQuery(tab[t].url)
        /\ tab' = [tab EXCEPT ![t] = page] /\ session' = p
        /\ UNCHANGED <<config, standing, code, exchange>>
    BY <1>5 DEF ShowPage, Waiting, Functions, FlowType, UrlsFit
  <2>2. p.client \in Client /\ GrantedScope(p, config.clients[p.client]) \in SUBSET Scope
    BY <2>1, GrantedTyped DEF FlowType
  <2>3. page.params \in Params /\ page.params.client = p.client
    BY <2>1, <2>2 DEF Params
  <2>4. page.params.client # None
    BY <2>1, <2>3 DEF Accepted, ClientAccepted
  <2>5. page.phase = "page" /\ page.user = None /\ IsQuery(page.url)
    BY <2>1
  <2> HIDE DEF page
  <2> QED BY <2>1, <2>3, <2>4, <2>5, TypeAnswer DEF Functions, FlowType
<1>6. ASSUME NEW t \in Tab, NEW c \in Code, IssueCode(t, c) PROVE TypeInv'
  <2> DEFINE p == tab[t].params
  <2>1. /\ p \in Params /\ Accepted(p) /\ tab[t].user \in config.users
        /\ standing' = [standing EXCEPT ![c] = "fresh"]
        /\ code' = [code EXCEPT ![c] = Issued(p, tab[t].user)]
        /\ session' = NoParams /\ tab' = [tab EXCEPT ![t] = NoPage]
        /\ UNCHANGED <<config, exchange>>
    BY <1>6 DEF IssueCode, FlowType, Authenticated
  <2>2. config.users \subseteq User
    BY FlowAssumption DEF FlowType, ConfigType
  <2>3. Issued(p, tab[t].user) \in AuthorizationCode
    BY <2>1, <2>2, GrantedTyped DEF Issued, AuthorizationCode, FlowType, Params, Policy
  <2> QED BY <2>1, <2>3, TypeAnswer, NothingIsParams DEF Functions, FlowType, Standing
<1>7. ASSUME NEW c \in Code, NEW client \in Client, NEW redirect \in RedirectUri,
             NEW verifier \in Verifier \cup {None}, NEW resource \in SUBSET Resource,
             Redeem(c, client, redirect, verifier, resource)
      PROVE  TypeInv'
  <2>1. code[c] \in AuthorizationCode
    BY <1>7 DEF Redeem, FlowType
  <2> DEFINE x == [scope |-> code[c].scope, resource |-> resource,
                   proof |-> IF code[c].challenge = None THEN None ELSE verifier]
  <2>2. x \in Exchange
    BY <2>1 DEF Exchange, AuthorizationCode
  <2>3. /\ standing' = [standing EXCEPT ![c] = "redeemed"] /\ exchange' = [exchange EXCEPT ![c] = x]
        /\ standing[c] = "fresh" /\ UNCHANGED <<config, session, tab, code>>
    BY <1>7 DEF Redeem
  <2> HIDE DEF x
  <2> QED BY <2>2, <2>3 DEF Functions, FlowType, UrlsFit, Standing
<1>8. ASSUME NEW c \in Code, Mint(c) PROVE TypeInv'
  <2> DEFINE x == [scope |-> exchange[c].scope, proof |-> exchange[c].proof,
                   resource |-> TokenResourceGranted(exchange[c].resource, code[c].resource)]
  <2>1. code[c] \in AuthorizationCode /\ exchange[c] \in Exchange
    BY <1>8 DEF Mint, FlowType
  <2>2. x \in Exchange
    BY <2>1 DEF Exchange, AuthorizationCode, TokenResourceGranted
  <2>3. /\ standing' = [standing EXCEPT ![c] = "minted"] /\ exchange' = [exchange EXCEPT ![c] = x]
        /\ standing[c] = "redeemed" /\ UNCHANGED <<config, session, tab, code>>
    BY <1>8 DEF Mint, Functions
  <2> HIDE DEF x
  <2> QED BY <2>2, <2>3 DEF Functions, FlowType, UrlsFit, Standing
<1>9. ASSUME NEW c \in Code, Refuse(c) \/ LoseCode(c) PROVE TypeInv'
  BY <1>9 DEF Refuse, LoseCode, Functions, FlowType, UrlsFit, Standing
<1>10. ASSUME Reload PROVE TypeInv'
  BY <1>10 DEF Reload, Functions, FlowType, UrlsFit
<1>11. ASSUME UNCHANGED vars PROVE TypeInv'
  BY <1>11 DEF vars, Functions, FlowType, UrlsFit
<1> QED BY <1>1, <1>2, <1>3, <1>4, <1>5, <1>6, <1>7, <1>8, <1>9, <1>10, <1>11 DEF Next

(* Everything a request, a page, a code and a token request consist of has *)
(* its type, and a login page always has a client to log in to (FlowType,  *)
(* _render_authorize_login).                                               *)
THEOREM TypeCorrect == Spec => []FlowType
<1>1. TypeInv => FlowType
  BY DEF TypeInv
<1> QED BY TypeInit, TypeNext, <1>1, PTL DEF Spec
=============================================================================
