---------------------------- MODULE BrowserSessions ----------------------------
(***************************************************************************)
(* What a browser's session with the web server decides: the logins of     *)
(* /login and /saml/sso (routes/ui.py, routes/saml.py), the assertions     *)
(* made of them, the gates in front of everything that writes              *)
(* (routes/_auth.py, mcp_server/__init__.py), and the audit log that is    *)
(* told of it.                                                             *)
(*                                                                         *)
(* The session is a signed cookie: a request works on the copy it arrived  *)
(* with, and its answer replaces the whole cookie, when it has changed and *)
(* after a login (session.permanent) always.  The tabs of a browser share  *)
(* the cookie.  Another thread may load a configuration between arrival    *)
(* and answer, and in a login between the handler's look at the login mode *)
(* and the check of the password, which looks at it again; of the other    *)
(* handlers a step reads one configuration.                                *)
(*                                                                         *)
(* A message is an AuthnRequest with its RelayState; its signature,        *)
(* encoding and addresses are what the checks make of them.                *)
(***************************************************************************)
EXTENDS AuditLog

CONSTANTS
  Tab,            \* tabs of the browser
  Person,         \* user names
  Nobody,
  Secret,         \* values management_secret has
  NoSecret,
  Message,        \* AuthnRequests
  NoMessage,
  Compressed,     \* the messages encoded for the Redirect binding
  NamesAcs,       \* the messages that name an AssertionConsumerServiceURL
  Configuration,  \* the configurations the operator loads
  ReadOnly,       \* the MCP server was started with --readonly
  MaxRequests, MaxLoads

ASSUME SessionAssumption ==
  /\ Nobody \notin Person /\ NoSecret \notin Secret /\ NoMessage \notin Message
  /\ Compressed \subseteq Message /\ NamesAcs \subseteq Message
  /\ Configuration \subseteq
       [persona : BOOLEAN, twoStep : BOOLEAN, users : SUBSET Person,
        secret : Secret \cup {NoSecret}, requireLogin : BOOLEAN,
        signed : BOOLEAN, certified : SUBSET Message, strict : BOOLEAN,
        defaultAcs : BOOLEAN]
  /\ ReadOnly \in BOOLEAN /\ MaxRequests \in Nat /\ MaxLoads \in Nat

VARIABLES
  settings,   \* the web server's configuration
  toolSecret, \* management_secret in the memory of the MCP server
  cookie,     \* the browser's session
  page,       \* page[t]: the SAML login page t shows
  request,    \* request[t]: the request t waits for
  log,        \* the audit logs of the web server and of the MCP server
  requests, loads,
  outcome,    \* history: what the request handled last has brought about
  logins,     \* history: <<user, method>> of each login, as it was checked
  crossings,  \* history: <<user, method>> of the logins that a change of the
              \* login mode came into, as they were recorded
  verified,   \* history: messages whose signature was verified
  proved,     \* history: secrets an unlock has proved to know
  events      \* history: what happened since each log was cleared

browser == <<cookie, page, request>>
operator == <<settings, toolSecret, loads>>
history == <<logins, crossings, verified, proved>>
vars == <<operator, browser, log, requests, outcome, history, events>>

Method == {"none", "password", "persona"}
Verb == {"GET", "POST"}
Fresh == [user |-> Nobody, method |-> "none", marker |-> NoSecret,
          verified |-> NoMessage, permanent |-> FALSE]
NoPage == [message |-> NoMessage, verb |-> "GET", entered |-> "GET"]
Blank == Nobody
Login == INSTANCE LoginRules

NoForm == [kind |-> "none", user |-> Blank, password |-> "absent",
           secret |-> NoSecret, message |-> NoMessage,
           leg |-> "enter", verb |-> "GET", entered |-> "GET"]
(* `mode' is the login mode the handler has read and `crossed' tells that  *)
(* it has changed since (history); `signed' that signatures were required. *)
Idle == [pc |-> "idle", form |-> NoForm, session |-> Fresh, changed |-> FALSE,
         mode |-> "none", crossed |-> FALSE, signed |-> FALSE]
Nothing == [kind |-> "nothing"]
Server == {"web", "mcp"}

Init ==
  /\ settings \in Configuration
  /\ toolSecret = settings.secret
  /\ cookie = Fresh
  /\ page = [t \in Tab |-> NoPage]
  /\ request = [t \in Tab |-> Idle]
  /\ log = [s \in Server |-> EmptyLog]
  /\ requests = 0 /\ loads = 0
  /\ outcome = Nothing
  /\ logins = {} /\ crossings = {} /\ verified = {} /\ proved = {}
  /\ events = [s \in Server |-> << >>]

-----------------------------------------------------------------------------
(* A request arrives with the cookie as it is, and its answer brings it    *)
(* back.                                                                   *)
LoginForm(u, p) == [NoForm EXCEPT !.kind = "login", !.user = u, !.password = p]
PlainForm(k) == [NoForm EXCEPT !.kind = k]
KeyedForm(k, s) == [NoForm EXCEPT !.kind = k, !.secret = s]
SsoEntry(m, v) == [NoForm EXCEPT !.kind = "sso", !.message = m, !.verb = v, !.entered = v]
SsoForm(shown, u, p) ==
  [NoForm EXCEPT !.kind = "sso", !.leg = "form", !.message = shown.message,
                 !.verb = shown.verb, !.entered = shown.entered, !.user = u, !.password = p]

User == Person \cup {Blank}
Plain == {"page", "logout", "end_session", "uiWrite", "uiClear"}
Keyed == {"unlock", "apiRotate", "apiClear"}
Forms(t) ==
  {LoginForm(u, p) : u \in User, p \in Login!Password}
  \cup {PlainForm(k) : k \in Plain}
  \cup {KeyedForm(k, s) : k \in Keyed, s \in Secret \cup {NoSecret}}
  \cup {SsoEntry(m, v) : m \in Message, v \in Verb}
  \cup (IF page[t] = NoPage THEN {}
        ELSE {SsoForm(page[t], u, p) : u \in User, p \in Login!Password})

Arrive(t) ==
  /\ request[t].pc = "idle"
  /\ requests < MaxRequests /\ requests' = requests + 1
  /\ \E f \in Forms(t) :
       request' = [request EXCEPT ![t] =
                     [Idle EXCEPT !.pc = "arrived", !.form = f, !.session = cookie]]
  /\ UNCHANGED <<operator, cookie, page, log, outcome, history, events>>

Answer(t) ==
  /\ request[t].pc = "answered"
  /\ cookie' = IF request[t].changed \/ request[t].session.permanent
               THEN request[t].session ELSE cookie
  /\ request' = [request EXCEPT ![t] = Idle]
  /\ UNCHANGED <<operator, page, log, requests, outcome, history, events>>

(* The effects a handler can have: on its session, the log, the histories. *)
Form(t) == request[t].form
SessionOf(t) == request[t].session
Handling(t, kinds) == request[t].pc = "arrived" /\ Form(t).kind \in kinds
Ends(t, session, changed) ==
  request' = [request EXCEPT ![t] =
                [Idle EXCEPT !.pc = "answered", !.session = session, !.changed = changed]]
Writes(t, session) == Ends(t, session, TRUE)
Leaves(t) == Ends(t, SessionOf(t), FALSE)
Audited(server, es) ==
  /\ log' = [log EXCEPT ![server] =
               CASE Len(es) = 0 -> @
                 [] Len(es) = 1 -> Logged(@, es[1])
                 [] OTHER -> Logged(Logged(@, es[1]), es[2])]
  /\ events' = [events EXCEPT ![server] = @ \o es]
LogCleared(server) ==
  /\ log' = [log EXCEPT ![server] = Cleared(@)]
  /\ events' = [events EXCEPT ![server] = << >>]
Elsewhere == UNCHANGED <<operator, cookie, requests>>

-----------------------------------------------------------------------------
(* Authentication                                                          *)
TwoStepActive == settings.twoStep /\ ~ settings.persona
PhaseOf(f, fresh) == Login!TwoStepPhase(TwoStepActive, f.user, f.password, fresh)
Accepts(f) == Login!Authenticates(settings.persona, settings.users, f.user, f.password)
LoginMethod == IF settings.persona THEN "persona" ELSE "password"
(* Mutant: the method of an earlier login of the session stays.            *)
LoggedInOnce(session, f, mode) ==
  [session EXCEPT !.user = f.user, !.permanent = TRUE,
                  !.method = IF @ = "none" THEN mode ELSE @]
LoggedIn(session, f, mode) ==
  [session EXCEPT !.user = f.user, !.permanent = TRUE, !.method = mode]

(* The login page of /saml/sso carries the verb the flow was entered with. *)
TransportVerb(f) == IF f.leg = "enter" THEN f.verb ELSE "POST"
LoginPageOfTransport(f) ==   \* mutant: the verb of the request that draws it
  [message |-> f.message, verb |-> TransportVerb(f), entered |-> f.entered]
LoginPage(f) == [message |-> f.message, verb |-> f.verb, entered |-> f.entered]

(* /login looks at the mode to see what its form lacks.                    *)
HandleLogin(t) ==
  LET f == Form(t)
      tries == /\ PhaseOf(f, FALSE) = "attempt"
               /\ TwoStepActive \/ f.user # Blank
               /\ TwoStepActive \/ settings.persona \/ Login!Filled(f.password) IN
  /\ Handling(t, {"login"})
  /\ IF tries
     THEN request' = [request EXCEPT ![t].pc = "authenticating", ![t].mode = LoginMethod]
     ELSE Leaves(t)
  /\ outcome' = Nothing
  /\ Elsewhere /\ UNCHANGED <<page, log, history, events>>

(* Then it and /saml/sso have interactive_authenticate decide, by the mode *)
(* of that moment, and record the mode they saw before.  /login is done    *)
(* with it, /saml/sso goes on to its assertion, or back to its page.       *)
Authenticating(t) == request[t].pc = "authenticating"

LoginSucceeds(t) ==
  LET r == request[t]
      f == r.form
      session == LoggedIn(r.session, f, r.mode) IN
  /\ Authenticating(t) /\ Accepts(f)
  /\ IF f.kind = "login" THEN Writes(t, session)
     ELSE request' = [request EXCEPT ![t] =
                        [Idle EXCEPT !.pc = "asserting", !.form = f, !.session = session,
                                     !.changed = TRUE, !.signed = r.signed]]
  /\ Audited("web", <<Happens("login", "success")>>)
  /\ logins' = logins \cup {<<f.user, LoginMethod>>}
  /\ crossings' = crossings \cup (IF r.crossed THEN {<<f.user, r.mode>>} ELSE {})
  /\ outcome' = Nothing
  /\ Elsewhere /\ UNCHANGED <<page, verified, proved>>

LoginFails(t) ==
  LET r == request[t]
      f == r.form
      told == \/ f.kind = "login"
              \/ /\ f.user # Blank
                 /\ r.mode = "persona" \/ Login!Filled(f.password) IN
  /\ Authenticating(t) /\ ~ Accepts(f)
  /\ Ends(t, r.session, r.changed)
  /\ page' = IF f.kind = "sso" THEN [page EXCEPT ![t] = LoginPage(f)] ELSE page
  /\ Audited("web", IF told THEN <<Happens("login", "failed")>> ELSE << >>)
  /\ outcome' = Nothing
  /\ Elsewhere /\ UNCHANGED history

(* ui_login_required, in front of every page of the UI but its two doors.  *)
LoginGate(session) == settings.requireLogin => session.user # Nobody

(* A page shows the messages other requests have flashed and takes them    *)
(* from the session.                                                       *)
HandlePage(t) ==
  /\ Handling(t, {"page"})
  /\ \E flashed \in BOOLEAN : Ends(t, SessionOf(t), flashed)
  /\ outcome' = Nothing
  /\ Elsewhere /\ UNCHANGED <<page, log, history, events>>

(* /ui/logout, and /logout of the OIDC endpoints, which has no gate.       *)
HandleLogout(t) ==
  LET s == SessionOf(t)
      ends == Form(t).kind = "end_session" \/ LoginGate(s) IN
  /\ Handling(t, {"logout", "end_session"})
  /\ IF ends THEN Writes(t, Fresh) ELSE Leaves(t)
  /\ Audited("web",
       IF Form(t).kind = "end_session" THEN <<Happens("logout_request", "success")>>
       ELSE IF ends /\ s.user # Nobody THEN <<Happens("logout", "success")>>
       ELSE << >>)
  /\ outcome' = Nothing
  /\ Elsewhere /\ UNCHANGED <<page, history>>

-----------------------------------------------------------------------------
(* The write guard.  The marker of an unlocked session is an HMAC of the   *)
(* secret.                                                                 *)
HandleUnlock(t) ==
  LET s == Form(t).secret
      opens == settings.secret # NoSecret /\ s = settings.secret IN
  /\ Handling(t, {"unlock"})
  /\ IF opens THEN Writes(t, [SessionOf(t) EXCEPT !.marker = s]) ELSE Leaves(t)
  /\ proved' = IF opens THEN proved \cup {s} ELSE proved
  /\ outcome' = Nothing
  /\ Elsewhere /\ UNCHANGED <<page, log, logins, crossings, verified, events>>

UnlockedByFlag(session) == session.marker # NoSecret   \* mutant: a bare flag
Unlocked(session) == session.marker = settings.secret

ByUi(f) == f.kind \in {"uiWrite", "uiClear"}
MayWrite(f, session) ==
  \/ settings.secret = NoSecret
  \/ Unlocked(session)
  \/ ~ ByUi(f) /\ f.secret = settings.secret

(* Any handler of the UI or the API that changes the configuration, the    *)
(* keys or the log, behind the gates of its blueprint.  The UI flashes     *)
(* what it has done.                                                       *)
HandleWrite(t) ==
  LET f == Form(t)
      s == SessionOf(t)
      allowed == (ByUi(f) => LoginGate(s)) /\ MayWrite(f, s) IN
  /\ Handling(t, {"uiWrite", "uiClear", "apiRotate", "apiClear"})
  /\ Ends(t, s, allowed /\ ByUi(f))
  /\ IF allowed /\ f.kind \in {"uiClear", "apiClear"} THEN LogCleared("web")
     ELSE Audited("web", IF allowed /\ f.kind = "apiRotate"
                         THEN <<Happens("key_rotation", "success")>> ELSE << >>)
  /\ outcome' = IF allowed
                THEN [kind |-> "write", secret |-> settings.secret, shown |-> f.secret,
                      gated |-> ByUi(f) /\ settings.requireLogin, user |-> s.user]
                ELSE Nothing
  /\ Elsewhere /\ UNCHANGED <<page, history>>

-----------------------------------------------------------------------------
(* /saml/sso                                                               *)
(* Where a Redirect-binding request continues with a login form, its       *)
(* signature is no longer there: the session must have verified it.        *)
ContinuesAny(f, session) == session.verified # NoMessage   \* mutant: any verified one will do
Continues(f, session) == session.verified = f.message

SignatureAccepted(f, session) ==
  IF f.leg = "form" /\ f.verb = "GET" THEN Continues(f, session)
  ELSE f.message \in settings.certified

Remembers(f) == settings.signed /\ f.leg = "enter" /\ f.verb = "GET"
Remembering(f, session) ==
  IF Remembers(f) THEN [session EXCEPT !.verified = f.message] ELSE session

(* Parsing: under strict_saml_binding the encoding must be the one of the  *)
(* verb the request entered with; a request that cannot be parsed leaves   *)
(* neither an id nor an address.                                           *)
Parses(f) ==
  settings.strict => (f.verb = "GET") = (f.message \in Compressed)
HasAddress(f) == (Parses(f) /\ f.message \in NamesAcs) \/ settings.defaultAcs

Asserted(f, session, signed) ==
  [kind |-> "assertion", user |-> session.user,
   method |-> IF session.method = "persona" THEN "persona" ELSE "password",
   message |-> f.message, entered |-> f.entered,
   inResponseTo |-> IF Parses(f) THEN f.message ELSE NoMessage,
   signed |-> signed]

(* A session that has a user goes on to the assertion, a filled form to    *)
(* its check; everything else is shown the login page.                     *)
HandleSso(t) ==
  LET f == Form(t)
      session == Remembering(f, SessionOf(t))
      GoesOn(pc, mode) ==
        request' = [request EXCEPT ![t] =
                      [@ EXCEPT !.pc = pc, !.session = session, !.changed = Remembers(f),
                                !.mode = mode, !.signed = settings.signed]]
      attempt == PhaseOf(f, f.leg = "enter") = "attempt" IN
  /\ Handling(t, {"sso"})
  /\ outcome' = Nothing
  /\ Elsewhere /\ UNCHANGED <<logins, crossings, proved>>
  /\ IF settings.signed /\ ~ SignatureAccepted(f, SessionOf(t))
     THEN /\ Leaves(t)
          /\ Audited("web", <<Happens("saml_request", "failed")>>)
          /\ UNCHANGED <<page, verified>>
     ELSE /\ verified' = IF settings.signed /\ ~ (f.leg = "form" /\ f.verb = "GET")
                         THEN verified \cup {f.message} ELSE verified
          /\ UNCHANGED <<log, events>>
          /\ IF session.user # Nobody THEN GoesOn("asserting", "none") /\ UNCHANGED page
             ELSE IF attempt THEN GoesOn("authenticating", LoginMethod) /\ UNCHANGED page
             ELSE /\ Ends(t, session, Remembers(f))
                  /\ page' = [page EXCEPT ![t] = LoginPage(f)]

(* The assertion, or the reason why there is none.                         *)
SsoResponds(t) ==
  LET r == request[t]
      fits == r.session.user \in settings.users /\ HasAddress(r.form) IN
  /\ r.pc = "asserting"
  /\ Ends(t, r.session, r.changed)
  /\ page' = [page EXCEPT ![t] = NoPage]
  /\ Audited("web", <<Happens("saml_request", IF fits THEN "success" ELSE "failed")>>)
  /\ outcome' = IF fits THEN Asserted(r.form, r.session, r.signed) ELSE Nothing
  /\ Elsewhere /\ UNCHANGED history

(* /saml/attribute-query has no session: it answers for the users there    *)
(* are, and with an error for others.                                      *)
AttributeQuery ==
  /\ requests < MaxRequests /\ requests' = requests + 1
  /\ \E u \in Person :
       Audited("web", <<Happens("saml_attribute_query",
                                IF u \in settings.users THEN "success" ELSE "failed")>>)
  /\ UNCHANGED <<operator, browser, outcome, history>>

-----------------------------------------------------------------------------
(* The MCP server: call_tool's checks in their order, then the tool, then  *)
(* the log.                                                                *)
Tool == {"change", "clear", "rotate", "reload", "read", "unknown"}
Mutating(tool) == tool \in {"change", "clear", "rotate"}

Refused(tool, given) ==
  Mutating(tool) /\ (ReadOnly \/ toolSecret \notin {NoSecret, given})

CallTool(tool, given, fits) ==
  LET runs == ~ Refused(tool, given) /\ tool # "unknown" /\ fits IN
  /\ requests < MaxRequests /\ requests' = requests + 1
  /\ \E status \in IF runs THEN Status ELSE {"failed"} :
       LET called == Happens("mcp_tool", status) IN
       IF runs /\ tool = "clear"
       THEN /\ log' = [log EXCEPT !["mcp"] = Logged(Cleared(@), called)]
            /\ events' = [events EXCEPT !["mcp"] = <<called>>]
       ELSE Audited("mcp", IF runs /\ tool = "rotate" /\ status = "success"
                           THEN <<Happens("key_rotation", "success"), called>>
                           ELSE <<called>>)
  /\ toolSecret' = IF runs /\ tool = "reload" THEN settings.secret ELSE toolSecret
  /\ outcome' = IF runs /\ Mutating(tool)
                THEN [kind |-> "write", secret |-> toolSecret, shown |-> given,
                      gated |-> FALSE, user |-> Nobody]
                ELSE Nothing
  /\ UNCHANGED <<settings, loads, browser, history>>

LoadConfiguration ==
  /\ loads < MaxLoads /\ loads' = loads + 1
  /\ settings' \in Configuration \ {settings}
  /\ request' = [t \in Tab |->
                   [request[t] EXCEPT
                      !.crossed = \/ @
                                  \/ /\ Authenticating(t)
                                     /\ settings'.persona # settings.persona]]
  /\ outcome' = Nothing
  /\ UNCHANGED <<toolSecret, cookie, page, log, requests, history, events>>

Handle(t) ==
  \/ HandleLogin(t) \/ LoginSucceeds(t) \/ LoginFails(t)
  \/ HandlePage(t) \/ HandleLogout(t) \/ HandleUnlock(t) \/ HandleWrite(t)
  \/ HandleSso(t) \/ SsoResponds(t)

Next ==
  \/ \E t \in Tab : Arrive(t) \/ Handle(t) \/ Answer(t)
  \/ AttributeQuery
  \/ \E tool \in Tool, given \in Secret \cup {NoSecret}, fits \in BOOLEAN :
       CallTool(tool, given, fits)
  \/ LoadConfiguration

Spec == Init /\ [][Next]_vars

-----------------------------------------------------------------------------
Session == [user : Person \cup {Nobody}, method : Method,
            marker : Secret \cup {NoSecret},
            verified : Message \cup {NoMessage}, permanent : BOOLEAN]
Kind == {"none", "login", "sso"} \cup Plain \cup Keyed
FormType == [kind : Kind, user : User, password : Login!Password,
             secret : Secret \cup {NoSecret}, message : Message \cup {NoMessage},
             leg : {"enter", "form"}, verb : Verb, entered : Verb]
Page == [message : Message \cup {NoMessage}, verb : Verb, entered : Verb]

Request == [pc : {"idle", "arrived", "authenticating", "asserting", "answered"},
            form : FormType, session : Session, changed : BOOLEAN,
            mode : Method, crossed : BOOLEAN, signed : BOOLEAN]

RequestsType ==
  /\ settings \in Configuration /\ toolSecret \in Secret \cup {NoSecret}
  /\ cookie \in Session
  /\ page \in [Tab -> Page]
  /\ request \in [Tab -> Request]
  /\ requests \in Nat /\ loads \in Nat
  /\ logins \subseteq Person \X Method /\ crossings \subseteq Person \X Method
  /\ verified \subseteq Message /\ proved \subseteq Secret
LogsType == log \in [Server -> LogType] /\ events \in [Server -> Seq(Event)]
BrowserType == RequestsType /\ LogsType

(* An assertion tells the service provider how its subject logged in: the  *)
(* user it names has logged in by the method it states, whatever login     *)
(* mode was configured since and in whichever tab; except that a login     *)
(* into which a change of the login mode came, between the handler's two   *)
(* looks at it, is told as the first look saw it (routes/saml.py:588-601,  *)
(* routes/ui.py:96-170, config.py:472).                                    *)
AssertionsTellHow ==
  outcome.kind = "assertion" => <<outcome.user, outcome.method>> \in logins \cup crossings

(* "persona logins must not claim PasswordProtectedTransport"              *)
(* (routes/saml.py:517-520, routes/ui.py:167-169): who is told to have     *)
(* used a password has logged in by one.                                   *)
PersonaIsNotPassword ==
  outcome.kind = "assertion" /\ outcome.method = "password"
    => <<outcome.user, "password">> \in logins

(* Where requests must be signed, every assertion answers one whose        *)
(* signature was verified, at its entry or in its form                     *)
(* (routes/saml.py:368-383).                                               *)
OnlySignedRequestsAreAnswered ==
  outcome.kind = "assertion" /\ outcome.signed => outcome.message \in verified

(* A request that was sent in its own binding is answered by its id,       *)
(* however many login pages and POSTs of forms lie between, and whether    *)
(* or not bindings are strict (routes/saml.py:456-466).                    *)
EntryIsAnswered ==
  outcome.kind = "assertion"
  /\ ((outcome.entered = "GET") <=> (outcome.message \in Compressed))
    => outcome.inResponseTo = outcome.message

(* Nothing writes without the secret that is in force at the time: it was  *)
(* shown with the call or proved in an unlock, and neither an earlier      *)
(* secret nor a login is a substitute; behind the login gate somebody who  *)
(* has logged in writes (routes/_auth.py, mcp_server/__init__.py:158-200). *)
WritesAreUnlocked ==
  outcome.kind = "write" =>
    /\ outcome.secret \in {NoSecret, outcome.shown} \cup proved
    /\ outcome.gated => \E m \in Method : <<outcome.user, m>> \in logins

(* The audit logs tell what happened since they were cleared, the latest   *)
(* events one by one and all of them in the counters, however many they    *)
(* are (services/audit.py:48-190).                                         *)
LogTellsTheLatest == \A s \in Server : TellsOf(log[s], events[s])
=============================================================================
