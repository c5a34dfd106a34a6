------------------------- MODULE BrowserSessionsProofs -------------------------
(***************************************************************************)
(* What a session is trusted with it has earned, for any number of tabs,   *)
(* users, secrets, requests and configurations; and the audit logs tell    *)
(* what happened, at any length.                                           *)
(*                                                                         *)
(* The inductive invariant says it of every session that travels, in the   *)
(* cookie and in each request, since an answer puts any of them back.      *)
(***************************************************************************)
EXTENDS BrowserSessions, SequenceTheorems, TLAPS

(* A user has logged in, by the method the session states or in a login    *)
(* that was crossed; an unlocked session was unlocked, a remembered        *)
(* request was verified.                                                   *)
EarnedBy(s, ls, cs, vs, ps) ==
  /\ s.user # Nobody <=> s.method # "none"
  /\ s.user # Nobody => /\ <<s.user, s.method>> \in ls \cup cs
                        /\ \E m \in Method : <<s.user, m>> \in ls
  /\ s.marker \in ps \cup {NoSecret}
  /\ s.verified \in vs \cup {NoMessage}
Earned(s) == EarnedBy(s, logins, crossings, verified, proved)

(* The verb that a login page and its form carry is the one the flow was   *)
(* entered with.                                                           *)
PageOK(p) == p.verb = p.entered /\ (p # NoPage => p.message \in Message)
FormOK(f) == f.verb = f.entered /\ (f.kind = "sso" => f.message \in Message)

(* A request whose signature had to be checked has had it checked, and     *)
(* while it is authenticated the mode it has seen is the one in force, or  *)
(* it was crossed.                                                         *)
Underway(r) ==
  /\ FormOK(r.form)
  /\ r.signed => r.form.message \in verified
  /\ r.pc = "authenticating" => r.mode # "none" /\ (r.crossed \/ r.mode = LoginMethod)

Trust ==
  /\ Earned(cookie)
  /\ \A t \in Tab : Earned(request[t].session) /\ Underway(request[t])
  /\ \A t \in Tab : PageOK(page[t])

Outcomes ==
  /\ AssertionsTellHow /\ OnlySignedRequestsAreAnswered
  /\ EntryIsAnswered /\ WritesAreUnlocked

SessionInv == RequestsType /\ Trust /\ Outcomes
LogInv == LogsType /\ LogTellsTheLatest
HistoryType ==
  /\ logins \subseteq Person \X Method /\ crossings \subseteq Person \X Method
  /\ verified \subseteq Message /\ proved \subseteq Secret
Grows ==
  /\ logins \subseteq logins' /\ crossings \subseteq crossings'
  /\ verified \subseteq verified' /\ proved \subseteq proved'

-----------------------------------------------------------------------------
(* The audit log                                                           *)

(* Cutting to the latest n entries first makes no difference to cutting    *)
(* after the next one.                                                     *)
LEMMA LatestOfLong ==
  ASSUME NEW n \in Nat, NEW s \in Seq(Event), n <= Len(s)
  PROVE  /\ Latest(n, s) \in Seq(Event) /\ Len(Latest(n, s)) = n
         /\ \A i \in 1..n : Latest(n, s)[i] = s[Len(s) - n + i]
<1>1. CASE Len(s) = n
  BY <1>1 DEF Latest
<1>2. CASE Len(s) > n
  <2> DEFINE k == Len(s) - n
  <2>1. Latest(n, s) = SubSeq(s, k + 1, Len(s)) /\ k \in Nat
    BY <1>2 DEF Latest
  <2>2. \A i \in k + 1 .. Len(s) : s[i] \in Event
    BY <2>1
  <2>3. /\ SubSeq(s, k + 1, Len(s)) \in Seq(Event)
        /\ Len(SubSeq(s, k + 1, Len(s))) =
             IF k + 1 <= Len(s) THEN Len(s) - (k + 1) + 1 ELSE 0
        /\ \A i \in 1 .. Len(s) - (k + 1) + 1 :
             SubSeq(s, k + 1, Len(s))[i] = s[k + 1 + i - 1]
    <3> HIDE DEF k
    <3> QED BY <2>1, <2>2, SubSeqProperties
  <2>4. Len(s) - (k + 1) + 1 = n /\ \A i \in 1..n : k + 1 + i - 1 = Len(s) - n + i
    OBVIOUS
  <2> QED BY <2>1, <2>3, <2>4
<1> QED BY <1>1, <1>2

LEMMA LatestOfLatest ==
  ASSUME NEW n \in Nat \ {0}, NEW s \in Seq(Event), NEW e \in Event
  PROVE  Latest(n, Append(Latest(n, s), e)) = Latest(n, Append(s, e))
<1>1. CASE Len(s) < n
  BY <1>1 DEF Latest
<1>2. CASE Len(s) >= n
  <2> DEFINE k == Len(s) - n
             cut == Latest(n, s)
             longer == Append(cut, e)
             all == Append(s, e)
             left == Latest(n, longer)
             right == Latest(n, all)
  <2>1. cut \in Seq(Event) /\ Len(cut) = n /\ \A i \in 1..n : cut[i] = s[k + i]
    BY <1>2, LatestOfLong
  <2>2. longer \in Seq(Event) /\ Len(longer) = n + 1
    BY <2>1
  <2>3. all \in Seq(Event) /\ Len(all) = Len(s) + 1
    OBVIOUS
  <2>4. left \in Seq(Event) /\ Len(left) = n /\ \A i \in 1..n : left[i] = longer[i + 1]
    <3>1. /\ left \in Seq(Event) /\ Len(left) = n
          /\ \A i \in 1..n : left[i] = longer[Len(longer) - n + i]
      <4> HIDE DEF longer
      <4> QED BY <2>2, LatestOfLong
    <3> HIDE DEF left, longer
    <3> QED BY <3>1, <2>2
  <2>5. right \in Seq(Event) /\ Len(right) = n
        /\ \A i \in 1..n : right[i] = all[k + 1 + i]
    <3>0. n <= Len(all) /\ n \in Nat
      BY <1>2, <2>3
    <3>1. /\ right \in Seq(Event) /\ Len(right) = n
          /\ \A i \in 1..n : right[i] = all[Len(all) - n + i]
      <4> HIDE DEF all
      <4> QED BY <2>3, <3>0, LatestOfLong
    <3>2. \A i \in 1..n : Len(all) - n + i = k + 1 + i
      BY <2>3
    <3> HIDE DEF right, all
    <3> QED BY <3>1, <3>2
  <2>6. ASSUME NEW i \in 1..n PROVE longer[i + 1] = all[k + 1 + i]
    <3>1. CASE i = n
      BY <3>1, <2>1, <1>2
    <3>2. CASE i < n
      <4>1. longer[i + 1] = cut[i + 1] /\ i + 1 \in 1..n
        <5> HIDE DEF cut
        <5> QED BY <3>2, <2>1
      <4>2. all[k + 1 + i] = s[k + 1 + i]
        BY <3>2, <1>2
      <4> QED BY <4>1, <4>2, <2>1
    <3>3. i = n \/ i < n
      OBVIOUS
    <3> HIDE DEF longer, all
    <3> QED BY <3>1, <3>2, <3>3
  <2> HIDE DEF left, right, longer, all, k
  <2>7. left = right
    BY <2>4, <2>5, <2>6
  <2> QED BY <2>7 DEF left, right, longer, all, cut
<1> QED BY <1>1, <1>2

LEMMA LoggedTells ==
  ASSUME NEW l \in LogType, NEW s \in Seq(Event), NEW e \in Event, TellsOf(l, s)
  PROVE  /\ Logged(l, e) \in LogType /\ Append(s, e) \in Seq(Event)
         /\ TellsOf(Logged(l, e), Append(s, e))
<1> DEFINE m == Logged(l, e)
           more == [c \in Counter |-> IF c \in CountedIn(e) THEN 1 ELSE 0]
<1>1. m.entries = Latest(MaxEntries, Append(s, e))
  BY LatestOfLatest, LogAssumption DEF Logged, TellsOf
<1>2. m.entries \in Seq(Event)
  BY <1>1, LogAssumption DEF Latest
<1>3. m.stats \in [Counter -> Nat] /\ \A c \in Counter : m.stats[c] = l.stats[c] + more[c]
  BY DEF Logged, LogType
<1>4. m \in LogType
  BY <1>2, <1>3 DEF Logged, LogType
<1>5. m.stats["total_requests"] = Len(Append(s, e))
  BY <1>3 DEF TellsOf, CountedIn, Counter, LogType
<1>6. more["login_attempts"] = more["successful_logins"] + more["failed_logins"]
  BY DEF CountedIn, Counter, Event, Status
<1>7. m.stats["login_attempts"] = m.stats["successful_logins"] + m.stats["failed_logins"]
  <2>1. more \in [Counter -> Nat] /\ l.stats \in [Counter -> Nat]
    BY DEF LogType
  <2>2. /\ m.stats["login_attempts"] = l.stats["login_attempts"] + more["login_attempts"]
        /\ m.stats["successful_logins"] =
             l.stats["successful_logins"] + more["successful_logins"]
        /\ m.stats["failed_logins"] = l.stats["failed_logins"] + more["failed_logins"]
    <3> HIDE DEF m, more
    <3> QED BY <1>3 DEF Counter
  <2>3. /\ l.stats["successful_logins"] \in Nat /\ more["successful_logins"] \in Nat
        /\ l.stats["failed_logins"] \in Nat /\ more["failed_logins"] \in Nat
    <3> HIDE DEF more
    <3> QED BY <2>1 DEF Counter
  <2>4. l.stats["login_attempts"] = l.stats["successful_logins"] + l.stats["failed_logins"]
    BY DEF TellsOf
  <2> HIDE DEF m, more
  <2> QED BY <1>6, <2>2, <2>3, <2>4
<1> QED BY <1>1, <1>4, <1>5, <1>7 DEF TellsOf

LEMMA EmptyTells == EmptyLog \in LogType /\ << >> \in Seq(Event) /\ TellsOf(EmptyLog, << >>)
  BY LogAssumption DEF EmptyLog, Zeroes, LogType, TellsOf, Latest, Counter

(* What a step writes into a log is at most two events, after it may have  *)
(* cleared it.                                                             *)
Short(es) ==
  \/ es = << >> \/ \E a \in Event : es = <<a>>
  \/ \E a, b \in Event : es = <<a, b>>
ClearedAndLogged(e) ==
  /\ log' = [log EXCEPT !["mcp"] = Logged(Cleared(@), e)]
  /\ events' = [events EXCEPT !["mcp"] = <<e>>]
LogStep ==
  \/ UNCHANGED <<log, events>>
  \/ \E server \in Server, es \in Seq(Event) : Short(es) /\ Audited(server, es)
  \/ \E server \in Server : LogCleared(server)
  \/ \E e \in Event : ClearedAndLogged(e)

LEMMA OneLogChanges ==
  ASSUME LogInv, NEW server \in Server, NEW l \in LogType, NEW s \in Seq(Event),
         TellsOf(l, s),
         log' = [log EXCEPT ![server] = l], events' = [events EXCEPT ![server] = s]
  PROVE  LogInv'
  BY DEF LogInv, LogsType, LogTellsTheLatest

LEMMA AuditedTells ==
  ASSUME LogInv, NEW server \in Server, NEW es \in Seq(Event), Short(es), Audited(server, es)
  PROVE  LogInv'
<1> DEFINE l == log[server]
           s == events[server]
<1>1. l \in LogType /\ s \in Seq(Event) /\ TellsOf(l, s)
  BY DEF LogInv, LogsType, LogTellsTheLatest
<1>2. CASE es = << >>
  <2>1. s \o es = s
    BY <1>1, <1>2
  <2>2. log' = [log EXCEPT ![server] = l] /\ events' = [events EXCEPT ![server] = s]
    BY <1>2, <2>1 DEF Audited
  <2> HIDE DEF l, s
  <2> QED BY <1>1, <2>2, OneLogChanges
<1>3. ASSUME NEW a \in Event, es = <<a>> PROVE LogInv'
  <2>1. s \o es = Append(s, a)
    BY <1>1, <1>3
  <2>2. /\ log' = [log EXCEPT ![server] = Logged(l, a)]
        /\ events' = [events EXCEPT ![server] = Append(s, a)]
    <3>1. Len(es) = 1 /\ es[1] = a
      BY <1>3
    <3>2. log' = [log EXCEPT ![server] = Logged(l, a)]
      BY <3>1 DEF Audited
    <3> QED BY <2>1, <3>2 DEF Audited
  <2> HIDE DEF l, s
  <2>3. /\ Logged(l, a) \in LogType /\ Append(s, a) \in Seq(Event)
        /\ TellsOf(Logged(l, a), Append(s, a))
    BY <1>1, LoggedTells
  <2> QED BY <2>2, <2>3, OneLogChanges
<1>4. ASSUME NEW a \in Event, NEW b \in Event, es = <<a, b>> PROVE LogInv'
  <2>1. s \o es = Append(Append(s, a), b)
    BY <1>1, <1>4
  <2>2. /\ log' = [log EXCEPT ![server] = Logged(Logged(l, a), b)]
        /\ events' = [events EXCEPT ![server] = Append(Append(s, a), b)]
    <3>1. Len(es) = 2 /\ es[1] = a /\ es[2] = b
      BY <1>4
    <3>2. log' = [log EXCEPT ![server] = Logged(Logged(l, a), b)]
      BY <3>1 DEF Audited
    <3> QED BY <2>1, <3>2 DEF Audited
  <2> HIDE DEF l, s
  <2>3. /\ Logged(l, a) \in LogType /\ Append(s, a) \in Seq(Event)
        /\ TellsOf(Logged(l, a), Append(s, a))
    BY <1>1, LoggedTells
  <2>4. /\ Logged(Logged(l, a), b) \in LogType /\ Append(Append(s, a), b) \in Seq(Event)
        /\ TellsOf(Logged(Logged(l, a), b), Append(Append(s, a), b))
    BY <2>3, LoggedTells
  <2> QED BY <2>2, <2>4, OneLogChanges
<1> QED BY <1>2, <1>3, <1>4 DEF Short

LEMMA LogStepTells == ASSUME LogInv, LogStep PROVE LogInv'
<1>1. CASE UNCHANGED <<log, events>>
  BY <1>1 DEF LogInv, LogsType, LogTellsTheLatest
<1>2. ASSUME NEW server \in Server, NEW es \in Seq(Event), Short(es), Audited(server, es)
      PROVE  LogInv'
  BY <1>2, AuditedTells
<1>3. ASSUME NEW server \in Server, LogCleared(server) PROVE LogInv'
  <2>1. /\ log' = [log EXCEPT ![server] = EmptyLog]
        /\ events' = [events EXCEPT ![server] = << >>]
    BY <1>3 DEF LogCleared, Cleared
  <2> QED BY <2>1, EmptyTells, OneLogChanges
<1>4. ASSUME NEW e \in Event, ClearedAndLogged(e) PROVE LogInv'
  <2>1. /\ log' = [log EXCEPT !["mcp"] = Logged(EmptyLog, e)]
        /\ events' = [events EXCEPT !["mcp"] = <<e>>]
    BY <1>4 DEF ClearedAndLogged, Cleared
  <2>2. Append(<< >>, e) = <<e>>
    OBVIOUS
  <2>3. Logged(EmptyLog, e) \in LogType /\ <<e>> \in Seq(Event)
        /\ TellsOf(Logged(EmptyLog, e), <<e>>)
    BY EmptyTells, LoggedTells, <2>2
  <2> QED BY <2>1, <2>3, OneLogChanges DEF Server
<1> QED BY <1>1, <1>2, <1>3, <1>4 DEF LogStep

LEMMA Audits ==
  ASSUME NEW server \in Server, NEW es, Short(es), Audited(server, es)
  PROVE  LogStep
<1>1. es \in Seq(Event)
  <2>1. << >> \in Seq(Event)
    OBVIOUS
  <2>2. \A a \in Event : <<a>> \in Seq(Event)
    OBVIOUS
  <2>3. \A a, b \in Event : <<a, b>> \in Seq(Event)
    OBVIOUS
  <2> QED BY <2>1, <2>2, <2>3, Zenon DEF Short
<1> QED BY <1>1 DEF LogStep

LEMMA AuditsOne ==
  ASSUME NEW server \in Server, NEW type \in EventType, NEW status \in Status,
         NEW told \in BOOLEAN,
         Audited(server, IF told THEN <<Happens(type, status)>> ELSE << >>)
  PROVE  LogStep
<1> DEFINE es == IF told THEN <<Happens(type, status)>> ELSE << >>
<1>1. Happens(type, status) \in Event
  BY DEF Happens, Event
<1>2. Short(es)
  BY <1>1 DEF Short
<1> HIDE DEF es
<1>3. Audited(server, es)
  BY DEF es
<1> QED BY <1>2, <1>3, Audits

(* Every step of the system takes such a step with the logs.               *)
LEMMA NextLogs == ASSUME Next PROVE LogStep
<1> USE DEF Server, EventType, Status
<1>1. ASSUME NEW t \in Tab, Arrive(t) \/ Answer(t) \/ HandlePage(t) \/ HandleUnlock(t)
      PROVE  LogStep
  BY <1>1 DEF Arrive, Answer, HandlePage, HandleUnlock, LogStep
<1>2. ASSUME NEW t \in Tab, HandleLogin(t) \/ LoginSucceeds(t) \/ LoginFails(t)
      PROVE  LogStep
  <2>1. CASE HandleLogin(t)
    BY <2>1 DEF HandleLogin, LogStep
  <2>2. CASE LoginSucceeds(t)
    <3>1. Audited("web", IF TRUE THEN <<Happens("login", "success")>> ELSE << >>)
      BY <2>2 DEF LoginSucceeds
    <3> QED BY <3>1, AuditsOne
  <2>3. CASE LoginFails(t)
    <3> DEFINE f == request[t].form
               told == \/ f.kind = "login"
                       \/ /\ f.user # Blank
                          /\ request[t].mode = "persona" \/ Login!Filled(f.password)
    <3>1. Audited("web", IF told THEN <<Happens("login", "failed")>> ELSE << >>)
      BY <2>3 DEF LoginFails
    <3>2. told \in BOOLEAN
      OBVIOUS
    <3> HIDE DEF told
    <3> QED BY <3>1, <3>2, AuditsOne
  <2> QED BY <1>2, <2>1, <2>2, <2>3
<1>3. ASSUME NEW t \in Tab, HandleLogout(t) PROVE LogStep
  <2> DEFINE s == SessionOf(t)
             ends == Form(t).kind = "end_session" \/ LoginGate(s)
             told == ends /\ s.user # Nobody
  <2>0. told \in BOOLEAN
    OBVIOUS
  <2>1. CASE Form(t).kind = "end_session"
    <3>1. Audited("web", <<Happens("logout_request", "success")>>)
      BY <1>3, <2>1 DEF HandleLogout
    <3>2. Audited("web", IF TRUE THEN <<Happens("logout_request", "success")>> ELSE << >>)
      BY <3>1
    <3> QED BY <3>2, AuditsOne
  <2>2. CASE Form(t).kind # "end_session"
    <3>1. Audited("web", IF told THEN <<Happens("logout", "success")>> ELSE << >>)
      BY <1>3, <2>2 DEF HandleLogout
    <3> HIDE DEF told
    <3> QED BY <2>0, <3>1, AuditsOne
  <2> QED BY <2>1, <2>2
<1>4. ASSUME NEW t \in Tab, HandleWrite(t) PROVE LogStep
  <2> DEFINE f == Form(t)
             allowed == (ByUi(f) => LoginGate(SessionOf(t))) /\ MayWrite(f, SessionOf(t))
             told == allowed /\ f.kind = "apiRotate"
  <2>0. told \in BOOLEAN
    OBVIOUS
  <2>1. CASE allowed /\ f.kind \in {"uiClear", "apiClear"}
    BY <1>4, <2>1 DEF HandleWrite, LogStep
  <2>2. CASE ~ (allowed /\ f.kind \in {"uiClear", "apiClear"})
    <3>1. Audited("web", IF told THEN <<Happens("key_rotation", "success")>> ELSE << >>)
      BY <1>4, <2>2 DEF HandleWrite
    <3> HIDE DEF told
    <3> QED BY <2>0, <3>1, AuditsOne
  <2> QED BY <2>1, <2>2
<1>5. ASSUME NEW t \in Tab, HandleSso(t) \/ SsoResponds(t) PROVE LogStep
  <2>1. CASE HandleSso(t)
    <3> DEFINE unsigned == settings.signed /\ ~ SignatureAccepted(Form(t), SessionOf(t))
    <3>1. CASE unsigned
      <4>1. Audited("web", IF TRUE THEN <<Happens("saml_request", "failed")>> ELSE << >>)
        BY <2>1, <3>1 DEF HandleSso
      <4> QED BY <4>1, AuditsOne
    <3>2. CASE ~ unsigned
      BY <2>1, <3>2 DEF HandleSso, LogStep
    <3> QED BY <3>1, <3>2
  <2>2. CASE SsoResponds(t)
    <3> DEFINE fits == request[t].session.user \in settings.users /\ HasAddress(request[t].form)
               status == IF fits THEN "success" ELSE "failed"
    <3>1. Audited("web", IF TRUE THEN <<Happens("saml_request", status)>> ELSE << >>)
      BY <2>2 DEF SsoResponds
    <3>2. status \in Status
      OBVIOUS
    <3> HIDE DEF status
    <3> QED BY <3>1, <3>2, AuditsOne
  <2> QED BY <1>5, <2>1, <2>2
<1>6. CASE AttributeQuery
  <2>1. PICK u \in Person :
           Audited("web", <<Happens("saml_attribute_query",
                                    IF u \in settings.users THEN "success" ELSE "failed")>>)
    BY <1>6 DEF AttributeQuery
  <2> DEFINE e == Happens("saml_attribute_query",
                          IF u \in settings.users THEN "success" ELSE "failed")
  <2>2. e \in Event
    BY DEF Happens, Event
  <2>3. Audited("web", <<e>>)
    BY <2>1
  <2> HIDE DEF e
  <2>4. Short(<<e>>)
    BY <2>2 DEF Short
  <2> QED BY <2>3, <2>4, Audits
<1>7. ASSUME NEW tool \in Tool, NEW given, NEW fits \in BOOLEAN, CallTool(tool, given, fits)
      PROVE  LogStep
  <2> DEFINE runs == ~ Refused(tool, given) /\ tool # "unknown" /\ fits
  <2>1. PICK status \in IF runs THEN Status ELSE {"failed"} :
           LET called == Happens("mcp_tool", status) IN
           IF runs /\ tool = "clear"
           THEN /\ log' = [log EXCEPT !["mcp"] = Logged(Cleared(@), called)]
                /\ events' = [events EXCEPT !["mcp"] = <<called>>]
           ELSE Audited("mcp", IF runs /\ tool = "rotate" /\ status = "success"
                               THEN <<Happens("key_rotation", "success"), called>>
                               ELSE <<called>>)
    BY <1>7 DEF CallTool
  <2> DEFINE called == Happens("mcp_tool", status)
             rotated == Happens("key_rotation", "success")
             es == IF runs /\ tool = "rotate" /\ status = "success"
                   THEN <<rotated, called>> ELSE <<called>>
  <2>2. called \in Event /\ rotated \in Event
    BY <2>1 DEF Happens, Event
  <2>3. CASE runs /\ tool = "clear"
    BY <2>1, <2>2, <2>3 DEF LogStep, ClearedAndLogged
  <2>4. CASE ~ (runs /\ tool = "clear")
    <3>1. Audited("mcp", es)
      BY <2>1, <2>4
    <3> HIDE DEF called, rotated
    <3>2. Short(es)
      BY <2>2 DEF Short
    <3> HIDE DEF es
    <3> QED BY <3>1, <3>2, Audits
  <2> QED BY <2>3, <2>4
<1>8. CASE LoadConfiguration
  BY <1>8 DEF LoadConfiguration, LogStep
<1> QED BY <1>1, <1>2, <1>3, <1>4, <1>5, <1>6, <1>7, <1>8 DEF Next, Handle

(* The audit logs tell what happened, at any length and any limit.         *)
THEOREM LogsTell == Spec => [](LogsType /\ LogTellsTheLatest)
<1>1. Init => LogInv
  BY EmptyTells DEF Init, LogInv, LogsType, LogTellsTheLatest
<1>2. LogInv /\ [Next]_vars => LogInv'
  <2> SUFFICES ASSUME LogInv, [Next]_vars PROVE LogInv'
    OBVIOUS
  <2>1. LogStep
    BY NextLogs DEF vars, LogStep
  <2> QED BY <2>1, LogStepTells
<1> QED BY <1>1, <1>2, PTL DEF Spec, LogInv

-----------------------------------------------------------------------------
(* Sessions                                                                *)
LEMMA EarnedGrows ==
  ASSUME NEW s, NEW ls, NEW ls2, NEW cs, NEW cs2, NEW vs, NEW vs2, NEW ps, NEW ps2,
         ls \subseteq ls2, cs \subseteq cs2, vs \subseteq vs2, ps \subseteq ps2,
         EarnedBy(s, ls, cs, vs, ps)
  PROVE  EarnedBy(s, ls2, cs2, vs2, ps2)
  BY DEF EarnedBy

LEMMA Configured ==
  ASSUME RequestsType
  PROVE  /\ settings.users \subseteq Person /\ settings.secret \in Secret \cup {NoSecret}
         /\ settings.persona \in BOOLEAN /\ settings.signed \in BOOLEAN
         /\ LoginMethod \in Method \ {"none"}
  BY SessionAssumption DEF RequestsType, LoginMethod, Method

LEMMA Starts ==
  ASSUME Init PROVE SessionInv
<1>1. settings.secret \in Secret \cup {NoSecret}
  BY SessionAssumption DEF Init
<1>2. RequestsType
  BY <1>1, SessionAssumption
  DEF Init, RequestsType, Request, Fresh, NoPage, Idle, NoForm, Session, Page, FormType, Kind, Plain,
      Keyed, User, Verb, Method, Blank, Login!Password
<1>3. Trust
  BY DEF Init, Trust, Earned, EarnedBy, Underway, PageOK, FormOK, Fresh, NoPage, Idle, NoForm
<1>4. Outcomes
  BY DEF Init, Nothing, Outcomes, AssertionsTellHow, OnlySignedRequestsAreAnswered,
         EntryIsAnswered, WritesAreUnlocked
<1> QED BY <1>2, <1>3, <1>4 DEF SessionInv

(* Whatever a handler makes of its request is as trustworthy as the        *)
(* session it goes on with.                                                *)
LEMMA Handled ==
  ASSUME RequestsType, Trust, NEW t \in Tab, NEW r \in Request,
         request' = [request EXCEPT ![t] = r], Elsewhere, Grows, HistoryType',
         EarnedBy(r.session, logins', crossings', verified', proved'),
         FormOK(r.form), r.signed => r.form.message \in verified',
         r.pc = "authenticating" => r.mode # "none" /\ (r.crossed \/ r.mode = LoginMethod),
         page' \in [Tab -> Page], \A u \in Tab : PageOK(page'[u])
  PROVE  RequestsType' /\ Trust'
<1>1. RequestsType'
  BY DEF RequestsType, Elsewhere, operator, HistoryType
<1>2. EarnedBy(cookie', logins', crossings', verified', proved')
  BY EarnedGrows DEF Trust, Earned, Grows, Elsewhere
<1>3. LoginMethod' = LoginMethod
  BY DEF Elsewhere, operator, LoginMethod
<1>4. ASSUME NEW u \in Tab
      PROVE  EarnedBy(request'[u].session, logins', crossings', verified', proved')
             /\ Underway(request[u])'
  <2>1. CASE u = t
    <3>1. request'[u] = r
      BY <2>1 DEF RequestsType
    <3> QED BY <1>3, <3>1 DEF Underway
  <2>2. CASE u # t
    <3>1. request'[u] = request[u]
      BY <2>2 DEF RequestsType
    <3>2. EarnedBy(request[u].session, logins', crossings', verified', proved')
      BY EarnedGrows DEF Trust, Earned, Grows
    <3>3. Underway(request[u])
      BY DEF Trust
    <3> QED BY <1>3, <3>1, <3>2, <3>3 DEF Underway, Grows
  <2> QED BY <2>1, <2>2
<1> QED BY <1>1, <1>2, <1>4 DEF Trust, Earned

LEMMA Ended ==
  ASSUME RequestsType, Trust, NEW t \in Tab, NEW session \in Session, NEW changed \in BOOLEAN,
         Ends(t, session, changed), Elsewhere, Grows, HistoryType',
         EarnedBy(session, logins', crossings', verified', proved'),
         page' \in [Tab -> Page], \A u \in Tab : PageOK(page'[u])
  PROVE  RequestsType' /\ Trust'
<1> DEFINE r == [Idle EXCEPT !.pc = "answered", !.session = session, !.changed = changed]
<1>1. request' = [request EXCEPT ![t] = r]
  BY DEF Ends
<1>2. /\ r.session = session /\ r.form = NoForm /\ r.signed = FALSE /\ r.pc = "answered"
      /\ r \in Request
  BY DEF Idle, Request, NoForm, FormType, Kind, Plain, Keyed, User, Verb, Blank,
         Login!Password, Method
<1>3. FormOK(NoForm)
  BY DEF FormOK, NoForm
<1> HIDE DEF r
<1> QED BY <1>1, <1>2, <1>3, Handled

LEMMA PagesStay ==
  ASSUME RequestsType, Trust, UNCHANGED page
  PROVE  page' \in [Tab -> Page] /\ \A u \in Tab : PageOK(page'[u])
  BY DEF RequestsType, Trust

LEMMA NothingCame == ASSUME outcome' = Nothing PROVE Outcomes'
  BY DEF Nothing, Outcomes, AssertionsTellHow, OnlySignedRequestsAreAnswered,
         EntryIsAnswered, WritesAreUnlocked

LEMMA OutcomesStay == ASSUME Outcomes, UNCHANGED outcome, Grows PROVE Outcomes'
  BY DEF Grows, Outcomes, AssertionsTellHow, OnlySignedRequestsAreAnswered,
         EntryIsAnswered, WritesAreUnlocked

(* A session is written by a login whose user and method are recorded.     *)
LEMMA LogsIn ==
  ASSUME RequestsType, NEW s \in Session, NEW f, Accepts(f), NEW mode \in Method \ {"none"},
         NEW ls, NEW cs, NEW vs, NEW ps, EarnedBy(s, ls, cs, vs, ps),
         <<f.user, LoginMethod>> \in ls, <<f.user, mode>> \in ls \cup cs
  PROVE  LoggedIn(s, f, mode) \in Session /\ EarnedBy(LoggedIn(s, f, mode), ls, cs, vs, ps)
<1>1. f.user \in Person
  BY Configured DEF Accepts, Login!Authenticates
<1>2. LoginMethod \in Method
  BY Configured
<1>3. LoggedIn(s, f, mode) \in Session
  BY <1>1 DEF LoggedIn, Session
<1>4. LoggedIn(s, f, mode) = [s EXCEPT !.user = f.user, !.permanent = TRUE, !.method = mode]
  BY DEF LoggedIn
<1>5. /\ LoggedIn(s, f, mode).user = f.user /\ LoggedIn(s, f, mode).method = mode
      /\ LoggedIn(s, f, mode).marker = s.marker /\ LoggedIn(s, f, mode).verified = s.verified
  BY <1>4 DEF Session
<1>6. f.user # Nobody
  BY <1>1, SessionAssumption
<1> QED BY <1>2, <1>3, <1>5, <1>6 DEF EarnedBy

LEMMA FreshIsEarned == Fresh \in Session /\ EarnedBy(Fresh, logins, crossings, verified, proved)
  BY DEF Fresh, Session, Method, EarnedBy

(* What the invariant says of the request a handler works on.              *)
LEMMA AtWork ==
  ASSUME SessionInv, NEW t \in Tab
  PROVE  /\ RequestsType /\ Trust /\ HistoryType
         /\ request[t] \in Request /\ Underway(request[t])
         /\ Form(t) = request[t].form /\ Form(t) \in FormType /\ FormOK(Form(t))
         /\ SessionOf(t) = request[t].session /\ SessionOf(t) \in Session
         /\ EarnedBy(SessionOf(t), logins, crossings, verified, proved)
  BY DEF SessionInv, Trust, Earned, Underway, RequestsType, HistoryType, Request,
         SessionOf, Form

(* The handlers that record nothing answer with the session they got or    *)
(* with an empty one.                                                      *)
LEMMA QuietHandled ==
  ASSUME SessionInv, NEW t \in Tab, NEW changed \in BOOLEAN,
         Ends(t, SessionOf(t), changed) \/ Ends(t, Fresh, changed),
         Elsewhere, UNCHANGED <<page, logins, crossings, verified, proved>>
  PROVE  RequestsType' /\ Trust'
<1>1. page' \in [Tab -> Page] /\ \A u \in Tab : PageOK(page'[u])
  BY AtWork, PagesStay
<1>2. Grows /\ HistoryType'
  BY AtWork DEF Grows, HistoryType
<1>3. CASE Ends(t, SessionOf(t), changed)
  BY <1>1, <1>2, <1>3, AtWork, Ended
<1>4. CASE Ends(t, Fresh, changed)
  <2>1. Fresh \in Session /\ EarnedBy(Fresh, logins', crossings', verified', proved')
    BY FreshIsEarned
  <2> QED BY <1>1, <1>2, <1>4, <2>1, AtWork, Ended
<1> QED BY <1>3, <1>4

LEMMA LoginKeeps == ASSUME SessionInv, NEW t \in Tab, HandleLogin(t) PROVE SessionInv'
<1>1. /\ Elsewhere /\ UNCHANGED <<page, logins, crossings, verified, proved>>
      /\ outcome' = Nothing
  BY DEF HandleLogin, history
<1>2. RequestsType' /\ Trust'
  <2>1. CASE Leaves(t)
    BY <1>1, <2>1, QuietHandled DEF Leaves
  <2>2. CASE request' = [request EXCEPT ![t].pc = "authenticating", ![t].mode = LoginMethod]
    <3> DEFINE r == [request[t] EXCEPT !.pc = "authenticating", !.mode = LoginMethod]
    <3>1. request' = [request EXCEPT ![t] = r]
      BY <2>2
    <3>2. /\ r \in Request /\ r.session = SessionOf(t) /\ r.form = Form(t)
          /\ r.signed = request[t].signed /\ r.mode = LoginMethod /\ r.mode # "none"
      BY AtWork, Configured DEF Request
    <3>3. Grows /\ HistoryType' /\ (r.signed => r.form.message \in verified')
      BY <1>1, <3>2, AtWork DEF Grows, HistoryType, Underway
    <3>4. page' \in [Tab -> Page] /\ \A u \in Tab : PageOK(page'[u])
      BY <1>1, AtWork, PagesStay
    <3> HIDE DEF r
    <3> QED BY <1>1, <3>1, <3>2, <3>3, <3>4, AtWork, Handled
  <2> QED BY <2>1, <2>2 DEF HandleLogin
<1> QED BY <1>1, <1>2, NothingCame DEF SessionInv

LEMMA SuccessKeeps == ASSUME SessionInv, NEW t \in Tab, LoginSucceeds(t) PROVE SessionInv'
<1> DEFINE f == request[t].form
           mode == request[t].mode
           session == LoggedIn(request[t].session, f, mode)
           r == [Idle EXCEPT !.pc = "asserting", !.form = f, !.session = session,
                             !.changed = TRUE, !.signed = request[t].signed]
<1>1. /\ Accepts(f) /\ Elsewhere /\ UNCHANGED <<page, verified, proved>> /\ outcome' = Nothing
      /\ logins' = logins \cup {<<f.user, LoginMethod>>}
      /\ crossings' = crossings \cup (IF request[t].crossed THEN {<<f.user, mode>>} ELSE {})
      /\ Ends(t, session, TRUE) \/ request' = [request EXCEPT ![t] = r]
  BY DEF LoginSucceeds, Writes
<1>2. mode \in Method \ {"none"} /\ (request[t].crossed \/ mode = LoginMethod)
  BY AtWork DEF LoginSucceeds, Authenticating, Underway, Request
<1>3. f.user \in Person /\ LoginMethod \in Method \ {"none"}
  BY <1>1, AtWork, Configured DEF Accepts, Login!Authenticates
<1>4. Grows /\ HistoryType'
  <2> HIDE DEF f, mode
  <2> QED BY <1>1, <1>2, <1>3, AtWork DEF Grows, HistoryType
<1>5. session \in Session /\ EarnedBy(session, logins', crossings', verified', proved')
  <2>1. <<f.user, LoginMethod>> \in logins' /\ <<f.user, mode>> \in logins' \cup crossings'
    BY <1>1, <1>2
  <2>2. EarnedBy(request[t].session, logins', crossings', verified', proved')
    BY <1>4, AtWork, EarnedGrows DEF Grows
  <2> HIDE DEF f, mode
  <2> QED BY <1>1, <1>2, <2>1, <2>2, AtWork, LogsIn
<1>6. page' \in [Tab -> Page] /\ \A u \in Tab : PageOK(page'[u])
  BY <1>1, AtWork, PagesStay
<1>7. RequestsType' /\ Trust'
  <2>1. CASE Ends(t, session, TRUE)
    <3> HIDE DEF session
    <3> QED BY <1>1, <1>4, <1>5, <1>6, <2>1, AtWork, Ended
  <2>2. CASE request' = [request EXCEPT ![t] = r]
    <3>1. f \in FormType /\ FormOK(f) /\ request[t].signed \in BOOLEAN
          /\ (request[t].signed => f.message \in verified')
      BY <1>1, AtWork DEF Request, Underway
    <3>2. /\ r.session = session /\ r.form = f /\ r.signed = request[t].signed
          /\ r.pc = "asserting" /\ r \in Request
      <4> HIDE DEF f, session
      <4> QED BY <1>5, <3>1 DEF Idle, Request, Method
    <3> HIDE DEF f, session, r
    <3> QED BY <1>1, <1>4, <1>5, <1>6, <2>2, <3>1, <3>2, AtWork, Handled
  <2> QED BY <1>1, <2>1, <2>2
<1> QED BY <1>1, <1>7, NothingCame DEF SessionInv

LEMMA PageShown ==
  ASSUME SessionInv, NEW t \in Tab, NEW f \in FormType, FormOK(f), f.message \in Message,
         page' = [page EXCEPT ![t] = LoginPage(f)]
  PROVE  page' \in [Tab -> Page] /\ \A u \in Tab : PageOK(page'[u])
<1>1. LoginPage(f) \in Page /\ PageOK(LoginPage(f))
  BY DEF LoginPage, Page, PageOK, FormOK, FormType
<1> QED BY <1>1 DEF SessionInv, RequestsType, Trust

LEMMA FailureKeeps == ASSUME SessionInv, NEW t \in Tab, LoginFails(t) PROVE SessionInv'
<1> DEFINE f == request[t].form
           changed == request[t].changed
<1>1. /\ Elsewhere /\ UNCHANGED <<logins, crossings, verified, proved>> /\ outcome' = Nothing
      /\ Ends(t, SessionOf(t), changed)
      /\ page' = IF f.kind = "sso" THEN [page EXCEPT ![t] = LoginPage(f)] ELSE page
  BY DEF LoginFails, history, SessionOf
<1>2. page' \in [Tab -> Page] /\ \A u \in Tab : PageOK(page'[u])
  <2>1. CASE f.kind = "sso"
    <3>1. f \in FormType /\ FormOK(f) /\ f.message \in Message
      BY <2>1, AtWork DEF FormOK
    <3> HIDE DEF f
    <3> QED BY <1>1, <2>1, <3>1, PageShown
  <2>2. CASE f.kind # "sso"
    BY <1>1, <2>2, AtWork, PagesStay
  <2> QED BY <2>1, <2>2
<1>3. Grows /\ HistoryType' /\ changed \in BOOLEAN
  BY <1>1, AtWork DEF Grows, HistoryType, Request
<1>4. RequestsType' /\ Trust'
  <2> HIDE DEF changed
  <2> QED BY <1>1, <1>2, <1>3, AtWork, Ended
<1> QED BY <1>1, <1>4, NothingCame DEF SessionInv

LEMMA PageKeeps == ASSUME SessionInv, NEW t \in Tab, HandlePage(t) PROVE SessionInv'
<1>1. PICK flashed \in BOOLEAN : Ends(t, SessionOf(t), flashed)
  BY DEF HandlePage
<1>2. Elsewhere /\ UNCHANGED <<page, logins, crossings, verified, proved>> /\ outcome' = Nothing
  BY DEF HandlePage, history
<1> QED BY <1>1, <1>2, QuietHandled, NothingCame DEF SessionInv

LEMMA LogoutKeeps == ASSUME SessionInv, NEW t \in Tab, HandleLogout(t) PROVE SessionInv'
<1>1. Ends(t, Fresh, TRUE) \/ Ends(t, SessionOf(t), FALSE)
  BY DEF HandleLogout, Writes, Leaves
<1>2. Elsewhere /\ UNCHANGED <<page, logins, crossings, verified, proved>> /\ outcome' = Nothing
  BY DEF HandleLogout, history
<1> QED BY <1>1, <1>2, QuietHandled, NothingCame DEF SessionInv

LEMMA UnlockKeeps == ASSUME SessionInv, NEW t \in Tab, HandleUnlock(t) PROVE SessionInv'
<1> DEFINE s == SessionOf(t)
           secret == Form(t).secret
           opens == settings.secret # NoSecret /\ secret = settings.secret
           marked == [s EXCEPT !.marker = secret]
<1>1. RequestsType /\ Trust /\ s \in Session /\ EarnedBy(s, logins, crossings, verified, proved)
  BY AtWork
<1>2. /\ UNCHANGED <<page, logins, crossings, verified>> /\ Elsewhere /\ outcome' = Nothing
      /\ \/ opens /\ Ends(t, marked, TRUE) /\ proved' = proved \cup {secret}
         \/ Ends(t, s, FALSE) /\ proved' = proved
  BY DEF HandleUnlock, Writes, Leaves
<1>3. RequestsType' /\ Trust'
  <2>1. CASE opens /\ Ends(t, marked, TRUE) /\ proved' = proved \cup {secret}
    <3>1. secret \in Secret
      BY <2>1, Configured, <1>1
    <3>2. marked \in Session /\ EarnedBy(marked, logins', crossings', verified', proved')
      <4>1. marked \in Session
        BY <3>1, <1>1 DEF Session
      <4>2. /\ marked.user = s.user /\ marked.method = s.method
            /\ marked.marker = secret /\ marked.verified = s.verified
        BY <1>1 DEF Session
      <4> HIDE DEF s, secret, marked
      <4> QED BY <1>1, <1>2, <2>1, <4>1, <4>2 DEF EarnedBy
    <3>3. Grows /\ HistoryType'
      BY <1>2, <2>1, <3>1, AtWork DEF Grows, HistoryType
    <3>4. page' \in [Tab -> Page] /\ \A u \in Tab : PageOK(page'[u])
      BY <1>1, <1>2, PagesStay
    <3> HIDE DEF s, secret, marked
    <3> QED BY <1>1, <1>2, <2>1, <3>2, <3>3, <3>4, Ended
  <2>2. CASE Ends(t, s, FALSE) /\ proved' = proved
    BY <1>2, <2>2, QuietHandled
  <2> QED BY <1>2, <2>1, <2>2
<1> QED BY <1>2, <1>3, NothingCame DEF SessionInv

LEMMA WriteKeeps == ASSUME SessionInv, NEW t \in Tab, HandleWrite(t) PROVE SessionInv'
<1> DEFINE f == Form(t)
           s == SessionOf(t)
           allowed == (ByUi(f) => LoginGate(s)) /\ MayWrite(f, s)
           told == allowed /\ ByUi(f)
           write == [kind |-> "write", secret |-> settings.secret, shown |-> f.secret,
                     gated |-> ByUi(f) /\ settings.requireLogin, user |-> s.user]
<1>1. RequestsType /\ Trust /\ s \in Session /\ EarnedBy(s, logins, crossings, verified, proved)
  BY AtWork
<1>2. Elsewhere /\ UNCHANGED <<page, logins, crossings, verified, proved>>
  BY DEF HandleWrite, history
<1>3. RequestsType' /\ Trust'
  <2>1. told \in BOOLEAN
    OBVIOUS
  <2>2. Ends(t, s, told)
    BY DEF HandleWrite
  <2> HIDE DEF told
  <2> QED BY <1>2, <2>1, <2>2, QuietHandled
<1>4. Outcomes'
  <2>1. CASE ~ allowed
    BY <2>1, NothingCame DEF HandleWrite
  <2>2. CASE allowed
    <3>1. outcome' = write
      BY <2>2 DEF HandleWrite
    <3>2. settings.secret \in {NoSecret, f.secret} \cup proved
      BY <1>1, <2>2 DEF MayWrite, Unlocked, EarnedBy
    <3>3. (ByUi(f) /\ settings.requireLogin) => \E m \in Method : <<s.user, m>> \in logins
      BY <1>1, <2>2 DEF LoginGate, EarnedBy
    <3> QED BY <1>2, <3>1, <3>2, <3>3
        DEF Outcomes, AssertionsTellHow, OnlySignedRequestsAreAnswered, EntryIsAnswered,
            WritesAreUnlocked
  <2> QED BY <2>1, <2>2
<1> QED BY <1>3, <1>4 DEF SessionInv

LEMMA ToolKeeps ==
  ASSUME SessionInv, NEW tool \in Tool, NEW given \in Secret \cup {NoSecret},
         NEW fits \in BOOLEAN, CallTool(tool, given, fits)
  PROVE  SessionInv'
<1> DEFINE runs == ~ Refused(tool, given) /\ tool # "unknown" /\ fits
<1>1. UNCHANGED <<settings, loads, cookie, page, request, logins, crossings, verified, proved>>
  BY DEF CallTool, browser, history
<1>2. toolSecret' \in Secret \cup {NoSecret} /\ requests' \in Nat
  BY Configured DEF CallTool, SessionInv, RequestsType
<1>3. RequestsType'
  BY <1>1, <1>2 DEF SessionInv, RequestsType
<1>4. Trust'
  BY <1>1 DEF SessionInv, Trust, Earned, Underway, LoginMethod
<1>5. Outcomes'
  <2>1. CASE runs /\ Mutating(tool)
    <3>1. outcome' = [kind |-> "write", secret |-> toolSecret, shown |-> given,
                      gated |-> FALSE, user |-> Nobody]
      BY <2>1 DEF CallTool
    <3>2. toolSecret \in {NoSecret, given}
      BY <2>1 DEF Refused
    <3> QED BY <3>1, <3>2 DEF Outcomes, AssertionsTellHow, OnlySignedRequestsAreAnswered,
                              EntryIsAnswered, WritesAreUnlocked
  <2>2. CASE ~ (runs /\ Mutating(tool))
    BY <2>2, NothingCame DEF CallTool
  <2> QED BY <2>1, <2>2
<1> QED BY <1>3, <1>4, <1>5 DEF SessionInv

LEMMA QueryKeeps == ASSUME SessionInv, AttributeQuery PROVE SessionInv'
  BY OutcomesStay
  DEF AttributeQuery, SessionInv, RequestsType, Trust, Earned, Underway, LoginMethod, operator, browser, history, Grows

(* A load that changes the login mode crosses the requests that have seen  *)
(* another one.                                                            *)
LEMMA LoadKeeps == ASSUME SessionInv, LoadConfiguration PROVE SessionInv'
<1>1. /\ UNCHANGED <<toolSecret, cookie, page, requests, logins, crossings, verified, proved>>
      /\ settings' \in Configuration /\ outcome' = Nothing /\ loads' = loads + 1
  BY DEF LoadConfiguration, history
<1>2. ASSUME NEW t \in Tab
      PROVE  /\ request'[t] \in Request /\ request'[t].session = request[t].session
             /\ Underway(request[t])'
  <2> DEFINE r == request[t]
             crossed == \/ r.crossed
                        \/ Authenticating(t) /\ settings'.persona # settings.persona
             next == [r EXCEPT !.crossed = crossed]
  <2>1. request'[t] = next
    BY DEF LoadConfiguration
  <2>2. r \in Request /\ Underway(r) /\ r.crossed \in BOOLEAN
    BY AtWork DEF Request
  <2>3. /\ next \in Request /\ next.crossed = crossed /\ next.session = r.session
        /\ next.form = r.form /\ next.signed = r.signed /\ next.pc = r.pc /\ next.mode = r.mode
    <3>1. crossed \in BOOLEAN
      BY <2>2
    <3> HIDE DEF crossed, r
    <3> QED BY <2>2, <3>1 DEF Request
  <2>4. r.pc = "authenticating" => r.mode # "none" /\ (crossed \/ r.mode = LoginMethod')
    BY <2>2 DEF Underway, Authenticating, LoginMethod
  <2> HIDE DEF r, crossed, next
  <2> QED BY <1>1, <2>1, <2>2, <2>3, <2>4 DEF Underway, r
<1>3. request' \in [Tab -> Request]
  BY <1>2 DEF LoadConfiguration
<1>4. RequestsType'
  BY <1>1, <1>3 DEF SessionInv, RequestsType
<1>5. Trust'
  BY <1>1, <1>2 DEF SessionInv, Trust, Earned
<1> QED BY <1>1, <1>4, <1>5, NothingCame DEF SessionInv

LEMMA IdleIsTrusted ==
  Idle \in Request /\ Idle.session = Fresh /\ Underway(Idle) /\ Idle.signed = FALSE
  BY FreshIsEarned DEF Idle, Request, NoForm, FormType, Kind, Plain, Keyed, User, Verb, Blank,
                       Login!Password, Method, Underway, FormOK

LEMMA AnswerKeeps == ASSUME SessionInv, NEW t \in Tab, Answer(t) PROVE SessionInv'
<1>1. /\ UNCHANGED <<settings, toolSecret, loads, page, requests, outcome,
                     logins, crossings, verified, proved>>
      /\ request' = [request EXCEPT ![t] = Idle]
      /\ cookie' = cookie \/ cookie' = request[t].session
  BY DEF Answer, operator, history
<1>2. RequestsType'
  BY <1>1, IdleIsTrusted DEF SessionInv, RequestsType, Request
<1>3. LoginMethod' = LoginMethod
  BY <1>1 DEF LoginMethod
<1>4. ASSUME NEW u \in Tab
      PROVE  /\ EarnedBy(request'[u].session, logins, crossings, verified, proved)
             /\ Underway(request'[u])
  <2>1. CASE u = t
    BY <1>1, <2>1, FreshIsEarned, IdleIsTrusted DEF SessionInv, RequestsType
  <2>2. CASE u # t
    BY <1>1, <2>2 DEF SessionInv, Trust, Earned, RequestsType
  <2> QED BY <2>1, <2>2
<1>5. EarnedBy(cookie', logins, crossings, verified, proved)
  BY <1>1 DEF SessionInv, Trust, Earned
<1>6. Trust'
  BY <1>1, <1>3, <1>4, <1>5 DEF Trust, Earned, Underway, SessionInv
<1>7. Outcomes'
  BY <1>1, OutcomesStay DEF SessionInv, Grows
<1> QED BY <1>2, <1>6, <1>7 DEF SessionInv

LEMMA FormsFit ==
  ASSUME SessionInv, NEW t \in Tab, NEW f \in Forms(t) PROVE f \in FormType /\ FormOK(f)
<1> DEFINE Fits(g) == g \in FormType /\ FormOK(g)
<1> USE DEF NoForm, FormType, FormOK, Kind, Verb, Plain, Keyed
<1>0. NoForm \in FormType
  BY DEF User, Blank, Login!Password
<1>1. ASSUME NEW u \in User, NEW p \in Login!Password PROVE Fits(LoginForm(u, p))
  BY <1>0 DEF LoginForm
<1>2. ASSUME NEW k \in Plain PROVE Fits(PlainForm(k))
  BY <1>0 DEF PlainForm
<1>3. ASSUME NEW k \in Keyed, NEW z \in Secret \cup {NoSecret} PROVE Fits(KeyedForm(k, z))
  BY <1>0 DEF KeyedForm
<1>4. ASSUME NEW m \in Message, NEW v \in Verb PROVE Fits(SsoEntry(m, v))
  BY <1>0 DEF SsoEntry
<1>5. ASSUME page[t] # NoPage, NEW u \in User, NEW p \in Login!Password
      PROVE  Fits(SsoForm(page[t], u, p))
  <2>1. /\ page[t].message \in Message /\ page[t].verb \in Verb
        /\ page[t].entered \in Verb /\ page[t].verb = page[t].entered
    BY <1>5 DEF SessionInv, RequestsType, Trust, PageOK, Page
  <2> QED BY <2>1, <1>5 DEF SsoForm
<1> HIDE DEF Fits, NoForm, FormType, FormOK, Kind, Verb, Plain, Keyed
<1>6. Fits(f)
  BY <1>1, <1>2, <1>3, <1>4, <1>5 DEF Forms
<1> QED BY <1>6 DEF Fits

LEMMA ArriveKeeps == ASSUME SessionInv, NEW t \in Tab, Arrive(t) PROVE SessionInv'
<1>1. UNCHANGED <<settings, toolSecret, loads, cookie, page, outcome,
                  logins, crossings, verified, proved>>
  BY DEF Arrive, operator, history
<1>2. PICK f \in Forms(t) :
        request' = [request EXCEPT ![t] =
                      [Idle EXCEPT !.pc = "arrived", !.form = f, !.session = cookie]]
  BY DEF Arrive
<1> DEFINE r == [Idle EXCEPT !.pc = "arrived", !.form = f, !.session = cookie]
<1>3. f \in FormType /\ FormOK(f) /\ cookie \in Session
  BY FormsFit DEF SessionInv, RequestsType
<1>4. /\ r \in Request /\ r.session = cookie /\ r.form = f /\ r.signed = FALSE
      /\ r.pc = "arrived"
  BY <1>3 DEF Idle, Request, Method
<1>5. request' = [request EXCEPT ![t] = r]
  BY <1>2
<1> HIDE DEF r
<1>6. RequestsType'
  BY <1>1, <1>4, <1>5 DEF Arrive, SessionInv, RequestsType
<1>7. LoginMethod' = LoginMethod
  BY <1>1 DEF LoginMethod
<1>8. ASSUME NEW u \in Tab
      PROVE  /\ EarnedBy(request'[u].session, logins, crossings, verified, proved)
             /\ Underway(request'[u])
  <2>1. CASE u = t
    <3>1. request'[u] = r
      BY <1>5, <2>1 DEF SessionInv, RequestsType
    <3> QED BY <1>3, <1>4, <3>1 DEF SessionInv, Trust, Earned, Underway
  <2>2. CASE u # t
    BY <1>5, <2>2 DEF SessionInv, Trust, Earned, RequestsType
  <2> QED BY <2>1, <2>2
<1>9. Trust'
  BY <1>1, <1>7, <1>8 DEF Trust, Earned, Underway, SessionInv
<1>10. Outcomes'
  BY <1>1, OutcomesStay DEF SessionInv, Grows
<1> QED BY <1>6, <1>9, <1>10 DEF SessionInv

(* A message whose signature is accepted has been verified: now, or, in    *)
(* the login form of a Redirect-binding request, by the session.           *)
LEMMA AcceptedIsVerified ==
  ASSUME NEW f \in FormType, f.message \in Message,
         NEW s \in Session, NEW ls, NEW cs, NEW vs, NEW ps, EarnedBy(s, ls, cs, vs, ps),
         SignatureAccepted(f, s), settings.signed
  PROVE  f.message \in IF settings.signed /\ ~ (f.leg = "form" /\ f.verb = "GET")
                       THEN vs \cup {f.message} ELSE vs
  BY SessionAssumption DEF SignatureAccepted, Continues, EarnedBy

(* An assertion made of a trusted session keeps the promises.              *)
LEMMA ResponseKeeps == ASSUME SessionInv, NEW t \in Tab, SsoResponds(t) PROVE SessionInv'
<1> DEFINE f == request[t].form
           session == request[t].session
           signed == request[t].signed
           changed == request[t].changed
           fits == session.user \in settings.users /\ HasAddress(f)
<1>1. /\ Ends(t, SessionOf(t), changed) /\ page' = [page EXCEPT ![t] = NoPage] /\ Elsewhere
      /\ UNCHANGED <<logins, crossings, verified, proved>>
      /\ outcome' = IF fits THEN Asserted(f, session, signed) ELSE Nothing
  BY DEF SsoResponds, history, SessionOf
<1>2. NoPage \in Page /\ PageOK(NoPage)
  BY DEF NoPage, Page, PageOK, Verb
<1>3. page' \in [Tab -> Page] /\ \A u \in Tab : PageOK(page'[u])
  BY <1>1, <1>2, AtWork DEF RequestsType, Trust
<1>4. Grows /\ HistoryType' /\ changed \in BOOLEAN
  BY <1>1, AtWork DEF Grows, HistoryType, Request
<1>5. RequestsType' /\ Trust'
  <2> HIDE DEF changed
  <2> QED BY <1>1, <1>3, <1>4, AtWork, Ended
<1>6. CASE ~ fits
  BY <1>1, <1>5, <1>6, NothingCame DEF SessionInv
<1>7. CASE fits
  <2>1. outcome' = Asserted(f, session, signed)
    BY <1>1, <1>7
  <2>2. /\ outcome'.kind = "assertion" /\ outcome'.user = session.user
        /\ outcome'.method = IF session.method = "persona" THEN "persona" ELSE "password"
        /\ outcome'.message = f.message /\ outcome'.entered = f.entered
        /\ outcome'.inResponseTo = IF Parses(f) THEN f.message ELSE NoMessage
        /\ outcome'.signed = signed
    BY <2>1 DEF Asserted
  <2>3. session.user \in Person /\ session.user # Nobody
    BY <1>7, AtWork, Configured, SessionAssumption
  <2>4. /\ session \in Session /\ EarnedBy(session, logins, crossings, verified, proved)
        /\ FormOK(f) /\ (signed => f.message \in verified)
    BY AtWork DEF Underway
  <2>5. session.method \in {"password", "persona"} /\ <<session.user, session.method>> \in logins \cup crossings
    BY <2>3, <2>4 DEF EarnedBy, Session, Method
  <2> HIDE DEF f, session, signed
  <2>6. AssertionsTellHow'
    BY <1>1, <2>2, <2>5 DEF AssertionsTellHow
  <2>7. OnlySignedRequestsAreAnswered'
    BY <1>1, <2>2, <2>4 DEF OnlySignedRequestsAreAnswered
  <2>8. Elsewhere /\ ((f.entered = "GET" <=> f.message \in Compressed) => Parses(f))
    BY <1>1, <2>4 DEF FormOK, Parses
  <2>9. EntryIsAnswered'
    BY <2>2, <2>8 DEF EntryIsAnswered
  <2>10. WritesAreUnlocked'
    BY <2>2 DEF WritesAreUnlocked
  <2> QED BY <1>5, <2>6, <2>7, <2>9, <2>10 DEF SessionInv, Outcomes
<1> QED BY <1>6, <1>7

LEMMA SsoKeeps == ASSUME SessionInv, NEW t \in Tab, HandleSso(t) PROVE SessionInv'
<1> DEFINE f == Form(t)
           s == SessionOf(t)
           session == Remembering(f, s)
           unsigned == settings.signed /\ ~ SignatureAccepted(f, s)
           vs == IF settings.signed /\ ~ (f.leg = "form" /\ f.verb = "GET")
                 THEN verified \cup {f.message} ELSE verified
           Onward(pc, mode) ==
             [request[t] EXCEPT !.pc = pc, !.session = session, !.changed = Remembers(f),
                                !.mode = mode, !.signed = settings.signed]
<1>1. /\ RequestsType /\ Trust /\ HistoryType /\ s \in Session
      /\ EarnedBy(s, logins, crossings, verified, proved)
      /\ request[t] \in Request /\ f = request[t].form
  BY AtWork
<1>2. f \in FormType /\ FormOK(f) /\ f.message \in Message
  BY AtWork DEF FormOK, HandleSso, Handling
<1>3. Elsewhere /\ UNCHANGED <<logins, crossings, proved>> /\ outcome' = Nothing
  BY DEF HandleSso
<1>4. CASE unsigned
  <2>1. Ends(t, s, FALSE) /\ UNCHANGED <<page, verified>>
    BY <1>4 DEF HandleSso, Leaves
  <2> QED BY <1>3, <2>1, QuietHandled, NothingCame DEF SessionInv
<1>5. CASE ~ unsigned
  <2>1. /\ verified' = vs
        /\ \/ request' = [request EXCEPT ![t] = Onward("asserting", "none")] /\ page' = page
           \/ /\ request' = [request EXCEPT ![t] = Onward("authenticating", LoginMethod)]
              /\ page' = page
           \/ Ends(t, session, Remembers(f)) /\ page' = [page EXCEPT ![t] = LoginPage(f)]
    BY <1>5 DEF HandleSso
  <2>2. verified \subseteq vs /\ vs \subseteq Message
    BY <1>1, <1>2 DEF HistoryType
  <2>3. session \in Session /\ EarnedBy(session, logins, crossings, vs, proved)
    <3>1. CASE Remembers(f)
      <4>1. f.message \in vs
        BY <3>1 DEF Remembers
      <4>2. session = [s EXCEPT !.verified = f.message]
        BY <3>1 DEF Remembering
      <4>3. /\ session \in Session
            /\ session.user = s.user /\ session.method = s.method
            /\ session.marker = s.marker /\ session.verified = f.message
        BY <1>1, <1>2, <4>2 DEF Session
      <4> HIDE DEF f, s, session, vs
      <4> QED BY <1>1, <4>1, <4>3 DEF EarnedBy
    <3>2. CASE ~ Remembers(f)
      <4>1. session = s
        BY <3>2 DEF Remembering
      <4> HIDE DEF f, s, session, vs
      <4> QED BY <1>1, <2>2, <4>1, EarnedGrows
    <3> QED BY <3>1, <3>2
  <2>4. settings.signed => f.message \in vs
    <3> SUFFICES ASSUME settings.signed PROVE f.message \in vs
      OBVIOUS
    <3>1. SignatureAccepted(f, s)
      BY <1>5
    <3>2. f.message \in IF settings.signed /\ ~ (f.leg = "form" /\ f.verb = "GET")
                        THEN verified \cup {f.message} ELSE verified
      <4> HIDE DEF f, s
      <4> QED BY <1>1, <1>2, <3>1, AcceptedIsVerified
    <3> QED BY <3>2
  <2>5. Remembers(f) \in BOOLEAN /\ settings.signed \in BOOLEAN /\ LoginMethod \in Method \ {"none"}
    BY <1>1, Configured DEF Remembers
  <2>6. Grows /\ HistoryType'
    <3> HIDE DEF vs
    <3> QED BY <1>1, <1>3, <2>1, <2>2 DEF Grows, HistoryType
  <2>7. EarnedBy(session, logins', crossings', verified', proved')
    BY <1>3, <2>1, <2>3
  <2>8. ASSUME NEW pc \in {"asserting", "authenticating"}, NEW mode \in Method,
               pc = "authenticating" => mode # "none" /\ mode = LoginMethod,
               request' = [request EXCEPT ![t] = Onward(pc, mode)], page' = page
        PROVE  RequestsType' /\ Trust'
    <3> DEFINE r == Onward(pc, mode)
    <3>1. /\ r.session = session /\ r.form = f /\ r.signed = settings.signed
          /\ r.pc = pc /\ r.mode = mode /\ r \in Request
      <4> HIDE DEF f, s, session
      <4> QED BY <1>1, <2>3, <2>5, <2>8 DEF Request
    <3>2. page' \in [Tab -> Page] /\ \A u \in Tab : PageOK(page'[u])
      BY <1>1, <2>8, PagesStay
    <3>3. request' = [request EXCEPT ![t] = r]
      BY <2>8
    <3>4. /\ FormOK(r.form) /\ (r.signed => r.form.message \in verified')
          /\ EarnedBy(r.session, logins', crossings', verified', proved')
      BY <1>2, <2>1, <2>4, <2>7, <3>1
    <3>5. r.pc = "authenticating" => r.mode # "none" /\ (r.crossed \/ r.mode = LoginMethod)
      BY <2>8, <3>1
    <3> HIDE DEF f, s, session, vs, r, Onward
    <3> QED BY <1>1, <1>3, <2>6, <3>1, <3>2, <3>3, <3>4, <3>5, Handled
  <2>9. CASE Ends(t, session, Remembers(f)) /\ page' = [page EXCEPT ![t] = LoginPage(f)]
    <3>1. page' \in [Tab -> Page] /\ \A u \in Tab : PageOK(page'[u])
      <4> HIDE DEF f
      <4> QED BY <1>2, <2>9, PageShown
    <3> HIDE DEF f, s, session, vs
    <3>2. RequestsType' /\ Trust'
      BY <1>1, <1>3, <2>3, <2>5, <2>6, <2>7, <2>9, <3>1, Ended
    <3> QED BY <1>3, <3>2, NothingCame DEF SessionInv
  <2>10. RequestsType' /\ Trust'
    <3>1. CASE request' = [request EXCEPT ![t] = Onward("asserting", "none")] /\ page' = page
      <4>1. "none" \in Method
        BY DEF Method
      <4> HIDE DEF Onward
      <4> QED BY <2>8, <3>1, <4>1
    <3>2. CASE /\ request' = [request EXCEPT ![t] = Onward("authenticating", LoginMethod)]
               /\ page' = page
      <4> HIDE DEF Onward
      <4> QED BY <2>5, <2>8, <3>2
    <3>3. CASE Ends(t, session, Remembers(f)) /\ page' = [page EXCEPT ![t] = LoginPage(f)]
      BY <2>9, <3>3 DEF SessionInv
    <3> QED BY <2>1, <3>1, <3>2, <3>3
  <2> QED BY <1>3, <2>10, NothingCame DEF SessionInv
<1> QED BY <1>4, <1>5

LEMMA SessionsKept == ASSUME SessionInv, [Next]_vars PROVE SessionInv'
<1>1. CASE UNCHANGED vars
  BY <1>1 DEF vars, operator, browser, history, SessionInv, RequestsType, Trust, Earned,
      Underway, LoginMethod,
      Outcomes, AssertionsTellHow, OnlySignedRequestsAreAnswered, EntryIsAnswered,
      WritesAreUnlocked
<1>2. CASE Next
  BY <1>2, ArriveKeeps, AnswerKeeps, LoginKeeps, SuccessKeeps, FailureKeeps, PageKeeps,
     LogoutKeeps, UnlockKeeps, WriteKeeps, SsoKeeps, ResponseKeeps, QueryKeeps, ToolKeeps, LoadKeeps
  DEF Next, Handle
<1> QED BY <1>1, <1>2

THEOREM SessionsEarnTheirTrust == Spec => []SessionInv
  BY Starts, SessionsKept, PTL DEF Spec

(* Sessions, pages, requests and logs have their types.                    *)
THEOREM TypeCorrect == Spec => []BrowserType
<1>1. SessionInv /\ LogsType => BrowserType
  BY DEF SessionInv, BrowserType
<1> QED BY <1>1, SessionsEarnTheirTrust, LogsTell, PTL

(* The subject of an assertion has logged in by the method it states, or   *)
(* in a login that a change of the login mode crossed.                     *)
THEOREM SubjectsLoggedIn == Spec => []AssertionsTellHow
<1>1. SessionInv => AssertionsTellHow
  BY DEF SessionInv, Outcomes
<1> QED BY <1>1, SessionsEarnTheirTrust, PTL

(* Where signatures are required every answered request had a good one.    *)
THEOREM AnsweredWereSigned == Spec => []OnlySignedRequestsAreAnswered
<1>1. SessionInv => OnlySignedRequestsAreAnswered
  BY DEF SessionInv, Outcomes
<1> QED BY <1>1, SessionsEarnTheirTrust, PTL

(* Through any number of login pages, an assertion names its request.      *)
THEOREM EntriesAreAnswered == Spec => []EntryIsAnswered
<1>1. SessionInv => EntryIsAnswered
  BY DEF SessionInv, Outcomes
<1> QED BY <1>1, SessionsEarnTheirTrust, PTL

(* Nobody writes without the secret of the moment, or past the login gate. *)
THEOREM WritersHaveTheSecret == Spec => []WritesAreUnlocked
<1>1. SessionInv => WritesAreUnlocked
  BY DEF SessionInv, Outcomes
<1> QED BY <1>1, SessionsEarnTheirTrust, PTL
=============================================================================
