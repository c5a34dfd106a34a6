------------------------------- MODULE AuditLog -------------------------------
(***************************************************************************)
(* services/audit.py: a log of the latest events and counters of all.      *)
(* log() appends and counts under the log's lock, clear() empties both     *)
(* under it; either is one step of whoever calls it.                       *)
(***************************************************************************)
EXTENDS Integers, Sequences

CONSTANTS MaxEntries    \* the deque's maxlen

ASSUME LogAssumption == MaxEntries \in Nat \ {0}

EventType == {"login", "logout", "saml_request", "saml_attribute_query",
              "logout_request", "mcp_tool", "key_rotation"}
Status == {"success", "failed"}
Event == [type : EventType, status : Status]
Happens(type, status) == [type |-> type, status |-> status]

Counter == {"total_requests", "saml_sso_requests", "saml_attribute_queries",
            "login_attempts", "successful_logins", "failed_logins"}

(* _update_stats: the counters an event counts in.                         *)
CountedIn(e) ==
  {"total_requests"}
    \cup (IF e.type = "saml_request" THEN {"saml_sso_requests"} ELSE {})
    \cup (IF e.type = "saml_attribute_query" THEN {"saml_attribute_queries"} ELSE {})
    \cup (IF e.type = "login"
          THEN {"login_attempts",
                IF e.status = "success" THEN "successful_logins" ELSE "failed_logins"}
          ELSE {})

LogType == [entries : Seq(Event), stats : [Counter -> Nat]]
Zeroes == [c \in Counter |-> 0]
EmptyLog == [entries |-> << >>, stats |-> Zeroes]
Latest(n, s) == IF Len(s) <= n THEN s ELSE SubSeq(s, Len(s) - n + 1, Len(s))

Logged(log, e) ==
  [entries |-> Latest(MaxEntries, Append(log.entries, e)),
   stats |-> [c \in Counter |->
                log.stats[c] + IF c \in CountedIn(e) THEN 1 ELSE 0]]

ClearedEntries(log) == [log EXCEPT !.entries = << >>]   \* mutant: the counters go on
Cleared(log) == EmptyLog

(* What a log says of the events since it was cleared: the entries are the *)
(* latest of them, the counters count them all, and every login attempt    *)
(* succeeded or failed.                                                    *)
TellsOf(log, events) ==
  /\ log.entries = Latest(MaxEntries, events)
  /\ log.stats["total_requests"] = Len(events)
  /\ log.stats["login_attempts"] =
       log.stats["successful_logins"] + log.stats["failed_logins"]
=============================================================================
