---------------------------- MODULE ConfigManager ----------------------------
(***************************************************************************)
(* config.py's ConfigManager, hooks.py's registry of settings.yaml hooks,  *)
(* YamlWriter and the handlers that edit the configuration, in the two     *)
(* processes that share a directory: the web server, whose requests are    *)
(* threads, and the MCP server, which serves one call after the other.     *)
(*                                                                         *)
(* A load reads settings.yaml and then users.yaml, without the lock of the *)
(* writers, and promotes what it read one assignment at a time: the hooks, *)
(* the settings, the users, the revisions.  Any step of another request    *)
(* may come between two of these.                                          *)
(*                                                                         *)
(* A file holds entries (the users; the clients and the page of settings), *)
(* a hooks declaration that no handler edits, and perhaps a key the loader *)
(* refuses.  The value of an entry is the number of the edit that wrote    *)
(* it.  A document is its own revision.  The critical section of the       *)
(* writer (ConfigWriter, one directory) is `lock'.                         *)
(***************************************************************************)
EXTENDS Integers, Sequences

CONSTANTS
  Session,      \* browser sessions at the web UI, and scripts
  Caller,       \* callers of POST /api/config/reload
  Mcp,          \* the MCP server: a process and its only actor
  Web,          \* the web server process
  Person,       \* names of users
  Client,       \* client ids
  Page,         \* the fields of the settings and claims pages
  Declaration,  \* hooks:/plugins: sections
  NoHooks,      \* the empty one
  StrictHooks,  \* hooks.strict
  Absent,       \* the value of an entry that does not exist
  NoRevision,   \* expected_revision None
  NoPage,
  MaxCalls,     \* requests and tool calls
  MaxHandEdits  \* edits with a text editor

File == {"users", "settings"}
EntryOf(f) == IF f = "users" THEN Person ELSE Client \cup {Page}
Entry == Person \cup Client \cup {Page}
FileOf(e) == IF e \in Person THEN "users" ELSE "settings"
Value == Nat \cup {Absent}
Process == {Web, Mcp}
Actor == Session \cup Caller \cup {Mcp}
ProcessOf(a) == IF a = Mcp THEN Mcp ELSE Web

Entries(f) == [EntryOf(f) -> Value]
Document(f) == [entry : Entries(f), hooks : Declaration, bad : BOOLEAN]
AnyDocument == UNION {Document(f) : f \in File}

ASSUME ManagerAssumption ==
  /\ Web # Mcp /\ {Web, Mcp} \cap (Session \cup Caller) = {}
  /\ Session \cap Caller = {}
  /\ Person \cap Client = {} /\ Page \notin Person \cup Client
  /\ NoHooks \in Declaration
  /\ Absent \notin Nat
  /\ \A f \in File : NoRevision \notin Document(f)
  /\ StrictHooks \in BOOLEAN
  /\ MaxCalls \in Nat /\ MaxHandEdits \in Nat

VARIABLES
  disk,         \* disk[f]: the file in the directory
  lock,         \* who is between the two writes of a save: a set
  memory,       \* memory[p][f]: users, or settings, of p's ConfigManager
  revision,     \* revision[p][f]: users_revision, settings_revision
  registry,     \* registry[p]: the hooks registered from settings.yaml
  applied,      \* applied[p]: _hooks_snapshot
  request,      \* request[a]: the request a has under way
  page,         \* page[s]: the form s has before it
  calls, handEdits,
  unsaved,      \* history: files that MCP tools changed in memory only
  current,      \* history: processes that loaded the files as they are
  met           \* history: processes two loads of which overlapped

files == <<disk, lock>>
runtime == <<memory, revision, registry, applied>>
counters == <<calls, handEdits>>
history == <<unsaved, current, met>>
vars == <<files, runtime, request, page, counters, history>>

LoadPhase == {"readSettings", "readUsers", "adoptHooks", "register",
              "adoptSettings", "adoptUsers", "adoptRevisions"}
Phase == {"idle", "write", "second", "pushUsers", "pushSettings", "pull", "load"}
           \cup LoadPhase
Op == {"none", "create", "edit", "regenerate", "delete", "settings", "claims",
       "save", "reload"}

Idle ==
  [pc |-> "idle", op |-> "none", entry |-> Page, value |-> Absent,
   carries |-> {}, expected |-> NoRevision, fresh |-> FALSE,
   staged |-> [f \in File |-> NoRevision], previous |-> << >>,
   hookFailed |-> FALSE, alone |-> FALSE]

Declared(h) == IF h = NoHooks THEN << >> ELSE <<h>>

Init ==
  /\ \E h \in Declaration :
       disk = [f \in File |->
                 [entry |-> [e \in EntryOf(f) |-> 0],
                  hooks |-> IF f = "settings" THEN h ELSE NoHooks,
                  bad |-> FALSE]]
  /\ lock = {}
  /\ memory = [p \in Process |-> [f \in File |-> disk[f].entry]]
  /\ revision = [p \in Process |-> disk]
  /\ registry = [p \in Process |-> Declared(disk["settings"].hooks)]
  /\ applied = [p \in Process |-> disk["settings"].hooks]
  /\ request = [a \in Actor |-> Idle]
  /\ page = [s \in Session |-> NoPage]
  /\ calls = 0 /\ handEdits = 0
  /\ unsaved = {} /\ current = Process /\ met = {}

-----------------------------------------------------------------------------
(* Bookkeeping of the histories: whoever changes a file ends what others   *)
(* know of it.                                                             *)
Restless(b) == [request[b] EXCEPT !.alone = FALSE]
Outdated(s) ==
  IF page[s] = NoPage THEN NoPage
  ELSE [page[s] EXCEPT !.fresh = @ /\ page[s].revision # NoRevision]
Nobody == Web
FilesChangedBy(a, r) ==
  /\ request' = [b \in Actor |-> IF b = a THEN r ELSE Restless(b)]
  /\ page' = [s \in Session |-> Outdated(s)]
  /\ current' = {}

(* The calls are bounded, and number the values they write.                *)
Call == calls < MaxCalls /\ calls' = calls + 1
NextValue == calls + 1

Becomes(a, r) == request' = [request EXCEPT ![a] = r]
At(a, phase) == request[a].pc = phase

(* What a request is told when its load succeeded, or raised.  The hook    *)
(* error of a save goes before its reload error; YamlWriter's reload error *)
(* before its hook error; and of the UI's handlers only that of the        *)
(* settings page tells a hook error from any other.  A plugin that cannot  *)
(* be loaded raises a hook error too, out of the reload.                   *)
LoadedAnswer(r) ==
  IF ~ r.hookFailed THEN "ok"
  ELSE IF r.op \in {"save", "settings"} THEN "hook" ELSE "failed"
RaisedAnswer(r) ==
  IF r.op = "save" THEN IF r.hookFailed THEN "hook" ELSE "reload_after_save"
  ELSE IF r.op = "settings" /\ r.pc = "register" THEN "hook" ELSE "failed"
Answer(r) == IF r.pc = "adoptRevisions" THEN LoadedAnswer(r) ELSE RaisedAnswer(r)

-----------------------------------------------------------------------------
(* Loading                                                                 *)
Overlapped(a) ==
  {b \in Actor \ {a} : ProcessOf(b) = ProcessOf(a) /\ request[b].pc \in LoadPhase}

(* _load_config once its hooks are through; reload_local starts here.      *)
StartLoad(a) ==
  /\ At(a, "load")
  /\ request' =
       [b \in Actor |->
          IF b = a THEN [request[a] EXCEPT !.pc = "readSettings",
                                           !.alone = @ /\ Overlapped(a) = {}]
          ELSE IF b \in Overlapped(a) THEN Restless(b) ELSE request[b]]
  /\ met' = IF Overlapped(a) = {} THEN met ELSE met \cup {ProcessOf(a)}
  /\ UNCHANGED <<files, runtime, page, counters, unsaved, current>>

LoadRaises(a) == Becomes(a, Idle)

(* Mutants: the settings are committed before the users are read; the old  *)
(* hooks stay; the declaration is recorded before it is registered; the    *)
(* revisions of the load before stay.                                      *)
ReadSettingsAndAdopt(a) ==
  /\ At(a, "readSettings")
  /\ IF disk["settings"].bad THEN LoadRaises(a)
     ELSE Becomes(a, [request[a] EXCEPT !.pc = "readUsers",
                        !.staged["settings"] = disk["settings"]])
  /\ memory' = [memory EXCEPT ![ProcessOf(a)]["settings"] = disk["settings"].entry]
  /\ UNCHANGED <<files, revision, registry, applied, page, counters, history>>
AdoptHooksKeeping(a) ==
  /\ At(a, "adoptHooks")
  /\ Becomes(a, [request[a] EXCEPT !.previous = registry[ProcessOf(a)],
       !.pc = IF request[a].staged["settings"].hooks = applied[ProcessOf(a)]
              THEN "adoptSettings" ELSE "register"])
  /\ UNCHANGED <<files, runtime, page, counters, history>>
AdoptHooksRecording(a) ==
  LET p == ProcessOf(a)
      h == request[a].staged["settings"].hooks IN
  /\ At(a, "adoptHooks")
  /\ Becomes(a, [request[a] EXCEPT !.previous = registry[p],
       !.pc = IF h = applied[p] THEN "adoptSettings" ELSE "register"])
  /\ registry' = [registry EXCEPT ![p] = IF h = applied[p] THEN @ ELSE << >>]
  /\ applied' = [applied EXCEPT ![p] = h]
  /\ UNCHANGED <<files, memory, revision, page, counters, history>>
AdoptNoRevisions(a) ==
  /\ At(a, "adoptRevisions")
  /\ Becomes(a, Idle)
  /\ UNCHANGED <<files, runtime, page, counters, history>>

ReadSettings(a) ==
  /\ At(a, "readSettings")
  /\ IF disk["settings"].bad
     THEN LoadRaises(a)
     ELSE Becomes(a, [request[a] EXCEPT !.pc = "readUsers",
                        !.staged["settings"] = disk["settings"]])
  /\ UNCHANGED <<files, runtime, page, counters, history>>

ReadUsers(a) ==
  /\ At(a, "readUsers")
  /\ IF disk["users"].bad
     THEN LoadRaises(a)
     ELSE Becomes(a, [request[a] EXCEPT !.pc = "adoptHooks",
                        !.staged["users"] = disk["users"]])
  /\ UNCHANGED <<files, runtime, page, counters, history>>

(* _configure_hooks_from: nothing when the declaration is the one applied; *)
(* otherwise replace_source takes its snapshot and drops the source.       *)
AdoptHooks(a) ==
  LET p == ProcessOf(a) IN
  /\ At(a, "adoptHooks")
  /\ IF request[a].staged["settings"].hooks = applied[p]
     THEN /\ Becomes(a, [request[a] EXCEPT !.pc = "adoptSettings"])
          /\ UNCHANGED registry
     ELSE /\ Becomes(a, [request[a] EXCEPT !.pc = "register",
                           !.previous = registry[p]])
          /\ registry' = [registry EXCEPT ![p] = << >>]
  /\ UNCHANGED <<files, memory, revision, applied, page, counters, history>>

(* configure_from_sections, and the snapshot recorded after it; a plugin   *)
(* that cannot be loaded fails a strict load, and the registry is          *)
(* restored.                                                               *)
Register(a) ==
  LET p == ProcessOf(a)
      h == request[a].staged["settings"].hooks IN
  /\ At(a, "register")
  /\ \/ /\ registry' = [registry EXCEPT ![p] = @ \o Declared(h)]
        /\ applied' = [applied EXCEPT ![p] = h]
        /\ Becomes(a, [request[a] EXCEPT !.pc = "adoptSettings",
                                         !.previous = << >>])
     \/ /\ StrictHooks /\ h # NoHooks
        /\ registry' = [registry EXCEPT ![p] = request[a].previous]
        /\ LoadRaises(a)
        /\ UNCHANGED applied
  /\ UNCHANGED <<files, memory, revision, page, counters, history>>

AdoptFile(a, f, phase, then) ==
  LET p == ProcessOf(a) IN
  /\ At(a, phase)
  /\ memory' = [memory EXCEPT ![p][f] = request[a].staged[f].entry]
  /\ unsaved' = IF p = Mcp THEN unsaved \ {f} ELSE unsaved
  /\ Becomes(a, [request[a] EXCEPT !.pc = then])
  /\ UNCHANGED <<files, revision, registry, applied, page, counters, current, met>>

AdoptSettings(a) == AdoptFile(a, "settings", "adoptSettings", "adoptUsers")
AdoptUsers(a) == AdoptFile(a, "users", "adoptUsers", "adoptRevisions")

AdoptRevisions(a) ==
  LET p == ProcessOf(a) IN
  /\ At(a, "adoptRevisions")
  /\ revision' = [revision EXCEPT ![p] = request[a].staged]
  /\ current' = IF request[a].alone THEN current \cup {p} ELSE current
  /\ Becomes(a, Idle)
  /\ UNCHANGED <<files, memory, registry, applied, page, counters, unsaved, met>>

Load(a) ==
  \/ StartLoad(a) \/ ReadSettings(a) \/ ReadUsers(a) \/ AdoptHooks(a) \/ Register(a)
  \/ AdoptSettings(a) \/ AdoptUsers(a) \/ AdoptRevisions(a)

-----------------------------------------------------------------------------
(* Hooks are commands and plugins: they succeed or fail, and may edit the  *)
(* files, as a text editor does.                                           *)
HasHooks(a) == registry[ProcessOf(a)] # << >>

Changes ==
  {[disk EXCEPT ![f].bad = ~ @] : f \in File}
    \cup {[disk EXCEPT !["settings"].hooks = h] : h \in Declaration}
    \cup {[disk EXCEPT ![FileOf(e)].entry[e] = MaxCalls + handEdits + 1] : e \in Entry}

ByHand(a, r) ==
  /\ handEdits < MaxHandEdits /\ handEdits' = handEdits + 1
  /\ disk' \in Changes
  /\ FilesChangedBy(a, r)
  /\ UNCHANGED <<lock, runtime, calls, unsaved, met>>

(* notify_saved: the save is on disk, whatever the hook does.              *)
Push(a, phase, then) ==
  LET r == [request[a] EXCEPT !.pc = then]
      ran(s) == Becomes(a, s) /\ UNCHANGED <<files, runtime, page, counters, history>> IN
  /\ At(a, phase)
  /\ \/ ran(r)
     \/ HasHooks(a) /\ StrictHooks /\ ran([r EXCEPT !.hookFailed = TRUE])
     \/ HasHooks(a) /\ ByHand(a, [r EXCEPT !.alone = FALSE])

PushUsers(a) ==
  Push(a, "pushUsers", IF request[a].op = "save" THEN "pushSettings" ELSE "load")
PushSettings(a) == Push(a, "pushSettings", "load")

(* reload(): run_before_load first; under strict its failure ends the load *)
(* before anything is read.                                                *)
Reload(a) ==
  /\ At(a, "idle")
  /\ Becomes(a, [Idle EXCEPT !.op = "reload", !.alone = TRUE,
                    !.pc = IF HasHooks(a) THEN "pull" ELSE "load"])
  /\ Call
  /\ UNCHANGED <<files, runtime, page, handEdits, history>>

Pull(a) ==
  LET r == [request[a] EXCEPT !.pc = "load"] IN
  /\ At(a, "pull")
  /\ \/ Becomes(a, r) /\ UNCHANGED <<files, runtime, page, counters, history>>
     \/ ByHand(a, r)

PullFails(a) ==
  /\ At(a, "pull") /\ StrictHooks
  /\ Becomes(a, Idle)
  /\ UNCHANGED <<files, runtime, page, counters, history>>

-----------------------------------------------------------------------------
(* The web UI: a form is drawn from the runtime, and stamped with the      *)
(* revision the file has on disk when the template is rendered.            *)
Draw(s, op, e) ==
  LET now == memory[Web][FileOf(e)][e] IN
  /\ At(s, "idle") /\ page[s] = NoPage /\ calls < MaxCalls
  /\ op = "create" \/ now # Absent
  /\ page' = [page EXCEPT ![s] =
                [op |-> op, entry |-> e, revision |-> NoRevision,
                 shown |-> IF op = "create" THEN Absent ELSE now,
                 fresh |-> Web \in current]]
  /\ UNCHANGED <<files, runtime, request, counters, history>>

Stamp(s) ==
  /\ page[s] # NoPage
  /\ page[s].revision = NoRevision
  /\ page' = [page EXCEPT ![s].revision = disk[FileOf(page[s].entry)]]
  /\ UNCHANGED <<files, runtime, request, counters, history>>

UserCreateForm(s) == \E e \in Person : Draw(s, "create", e)
UserEditForm(s) == \E e \in Person : Draw(s, "edit", e)
ClientCreateForm(s) == \E e \in Client : Draw(s, "create", e)
ClientEditForm(s) == \E e \in Client : Draw(s, "edit", e)
ClientsList(s) ==
  \E e \in Client, op \in {"regenerate", "delete"} : Draw(s, op, e)
SettingsForm(s) == Draw(s, "settings", Page)
ClaimsForm(s) == Draw(s, "claims", Page)

(* A submission up to YamlWriter's critical section.  `carries' are the    *)
(* values whose content the new value of the entry repeats.  A script may  *)
(* post without having loaded a form: no revision, and nothing carried.    *)
Submit(s, op, e, value, carries, expected, fresh) ==
  /\ Becomes(s, [Idle EXCEPT
        !.pc = "write", !.op = op, !.entry = e, !.value = value,
        !.carries = carries, !.expected = expected, !.fresh = fresh])
  /\ page' = [page EXCEPT ![s] = NoPage]
  /\ Call
  /\ UNCHANGED <<files, runtime, handEdits, history>>

Post(s, op, e, value, kept) ==
  /\ At(s, "idle")
  /\ \/ /\ page[s] # NoPage
        /\ page[s].revision # NoRevision
        /\ page[s].op = op /\ page[s].entry = e
        /\ Submit(s, op, e, value,
                  kept \cup (IF op \in {"create", "regenerate"} THEN {}
                            ELSE {page[s].shown}),
                  page[s].revision,
                  /\ page[s].fresh
                  /\ kept = {} \/ (Web \in current /\ page[s].revision = disk[FileOf(e)]))
     \/ Submit(s, op, e, value, kept, NoRevision, FALSE)

InMemory(e) == memory[Web][FileOf(e)][e]

Refuse(s) ==
  /\ Becomes(s, Idle)
  /\ page' = [page EXCEPT ![s] = NoPage]
  /\ Call
  /\ UNCHANGED <<files, runtime, handEdits, history>>

(* The edit handlers look the entry up in the runtime; a blank password or *)
(* secret is taken from there.                                             *)
Edit(s, e) ==
  IF InMemory(e) = Absent
  THEN At(s, "idle") /\ Refuse(s)
  ELSE \E kept \in {{}, {InMemory(e)}} : Post(s, "edit", e, NextValue, kept)

UserCreate(s) == \E e \in Person : Post(s, "create", e, NextValue, {})
UserEdit(s) == \E e \in Person : Edit(s, e)
(* The page of a user carries no revision for its delete button.           *)
UserDelete(s) ==
  \E e \in Person :
     At(s, "idle") /\ Submit(s, "delete", e, Absent, {}, NoRevision, FALSE)
ClientCreate(s) == \E e \in Client : Post(s, "create", e, NextValue, {})
ClientEdit(s) == \E e \in Client : Edit(s, e)
ClientDelete(s) == \E e \in Client : Post(s, "delete", e, Absent, {})
(* The whole client is copied from the runtime.                            *)
RegenerateSecret(s) ==
  \E e \in Client :
     IF InMemory(e) = Absent
     THEN At(s, "idle") /\ Refuse(s)
     ELSE Post(s, "regenerate", e, NextValue, {InMemory(e)})
SettingsPost(s) == Post(s, "settings", Page, NextValue, {})
ClaimsPost(s) == Post(s, "claims", Page, NextValue, {})

Handle(s) ==
  \/ UserCreate(s) \/ UserEdit(s) \/ UserDelete(s)
  \/ ClientCreate(s) \/ ClientEdit(s) \/ ClientDelete(s) \/ RegenerateSecret(s)
  \/ SettingsPost(s) \/ ClaimsPost(s)

Show(s) ==
  \/ UserCreateForm(s) \/ UserEditForm(s) \/ ClientCreateForm(s)
  \/ ClientEditForm(s) \/ ClientsList(s) \/ SettingsForm(s) \/ ClaimsForm(s)
  \/ Stamp(s)

-----------------------------------------------------------------------------
(* Writing.  The mutations of YamlWriter look at the document under the    *)
(* lock: a create refuses an entry that is there, a delete one that is not.*)
Rejects(r, doc) ==
  \/ r.op = "create" /\ doc.entry[r.entry] # Absent
  \/ r.op = "delete" /\ doc.entry[r.entry] = Absent
Mutated(r, doc) == [doc EXCEPT !.entry[r.entry] = r.value]
(* Mutant: a form is compared with what the runtime was loaded from.       *)
ConflictsWithRuntime(expected, f) ==
  expected # NoRevision /\ expected # revision[Web][f]
Conflicts(expected, f) == expected # NoRevision /\ expected # disk[f]

GiveUp(a) ==
  /\ Becomes(a, Idle)
  /\ UNCHANGED <<files, runtime, page, history>>

(* YamlWriter._atomic_write up to its replacement of the file.             *)
AtomicWrite(s) ==
  LET r == request[s]
      f == FileOf(r.entry) IN
  /\ At(s, "write")
  /\ UNCHANGED counters
  /\ IF lock # {} THEN GiveUp(s)
     ELSE IF Conflicts(r.expected, f) THEN GiveUp(s)
     ELSE IF Rejects(r, disk[f]) THEN GiveUp(s)
     ELSE /\ disk' = [disk EXCEPT ![f] = Mutated(r, @)]
          /\ FilesChangedBy(s, [r EXCEPT !.alone = TRUE,
                !.pc = IF f = "users" THEN "pushUsers" ELSE "pushSettings"])
          /\ UNCHANGED <<lock, runtime, unsaved, met>>

-----------------------------------------------------------------------------
(* The MCP server: tools edit the runtime, save_config writes it.          *)
EditInMemory(e, value) ==
  LET f == FileOf(e) IN
  /\ At(Mcp, "idle")
  /\ memory' = [memory EXCEPT ![Mcp][f][e] = value]
  /\ unsaved' = unsaved \cup {f}
  /\ Call
  /\ UNCHANGED <<files, revision, registry, applied, request, page, handEdits,
                 current, met>>

Held(e) == memory[Mcp][FileOf(e)][e]
CreateUserTool == \E e \in Person : Held(e) = Absent /\ EditInMemory(e, NextValue)
UpdateUserTool == \E e \in Person : Held(e) # Absent /\ EditInMemory(e, NextValue)
DeleteUserTool == \E e \in Person : Held(e) # Absent /\ EditInMemory(e, Absent)
CreateClientTool == \E e \in Client : Held(e) = Absent /\ EditInMemory(e, NextValue)
UpdateClientTool == \E e \in Client : Held(e) # Absent /\ EditInMemory(e, NextValue)
DeleteClientTool == \E e \in Client : Held(e) # Absent /\ EditInMemory(e, Absent)
UpdateSettingsTool == EditInMemory(Page, NextValue)

MemoryTool ==
  \/ CreateUserTool \/ UpdateUserTool \/ DeleteUserTool
  \/ CreateClientTool \/ UpdateClientTool \/ DeleteClientTool
  \/ UpdateSettingsTool

(* save_config: without a revision unconditional, with one of them the     *)
(* other defaults to the one the runtime was loaded from.                  *)
(* Mutant: the other revision does not default to the loaded one.          *)
ExpectedOfOne(guarded, f) ==
  IF guarded /\ f = "users" THEN revision[Mcp][f] ELSE NoRevision
ExpectedOf(guarded, f) == IF guarded THEN revision[Mcp][f] ELSE NoRevision
Saved(f) == [disk[f] EXCEPT !.entry = memory[Mcp][f]]

SaveConfig(guarded) ==
  /\ At(Mcp, "idle")
  /\ Call /\ UNCHANGED handEdits
  /\ IF lock # {} THEN GiveUp(Mcp)
     ELSE IF \E f \in File : Conflicts(ExpectedOf(guarded, f), f)
     THEN GiveUp(Mcp)
     ELSE /\ disk' = [disk EXCEPT !["users"] = Saved("users")]
          /\ lock' = {Mcp}
          /\ FilesChangedBy(Mcp, [Idle EXCEPT
                !.pc = "second", !.op = "save", !.alone = TRUE,
                !.fresh = guarded])
          /\ UNCHANGED <<runtime, unsaved, met>>

SaveSettings ==
  /\ At(Mcp, "second")
  /\ disk' = [disk EXCEPT !["settings"] = Saved("settings")]
  /\ lock' = {}
  /\ FilesChangedBy(Mcp, [request[Mcp] EXCEPT !.pc = "pushUsers"])
  /\ UNCHANGED <<runtime, counters, unsaved, met>>

-----------------------------------------------------------------------------
(* A text editor, which takes no lock.                                     *)
HandEdit == ByHand(Nobody, Idle)

Proceed(a) == Load(a) \/ PushUsers(a) \/ PushSettings(a) \/ Pull(a) \/ PullFails(a)

(* The bound on calls is reached, and nobody waits.                        *)
Rest ==
  /\ calls = MaxCalls /\ \A a \in Actor : At(a, "idle")
  /\ UNCHANGED vars

Next ==
  \/ \E a \in Actor : Proceed(a)
  \/ \E a \in Caller \cup {Mcp} : Reload(a)
  \/ \E s \in Session : Show(s) \/ Handle(s) \/ AtomicWrite(s)
  \/ MemoryTool
  \/ \E guarded \in BOOLEAN : SaveConfig(guarded)
  \/ SaveSettings
  \/ HandEdit
  \/ Rest

Spec == Init /\ [][Next]_vars

-----------------------------------------------------------------------------
Directory == {d \in [File -> AnyDocument] : \A f \in File : d[f] \in Document(f)}
Runtime == {m \in [File -> UNION {Entries(f) : f \in File}] :
              \A f \in File : m[f] \in Entries(f)}
Revision == AnyDocument \cup {NoRevision}
RequestType ==
  [pc : Phase, op : Op, entry : Entry, value : Value, carries : SUBSET Value,
   expected : Revision, fresh : BOOLEAN, staged : [File -> Revision],
   previous : Seq(Declaration), hookFailed : BOOLEAN, alone : BOOLEAN]
PageType ==
  [op : Op, entry : Entry, revision : Revision, shown : Value, fresh : BOOLEAN]

ConfigType ==
  /\ disk \in Directory /\ lock \subseteq {Mcp}
  /\ memory \in [Process -> Runtime] /\ revision \in [Process -> Directory]
  /\ registry \in [Process -> Seq(Declaration)] /\ applied \in [Process -> Declaration]
  /\ request \in [Actor -> RequestType]
  /\ page \in [Session -> PageType \cup {NoPage}]
  /\ calls \in Nat /\ handEdits \in Nat
  /\ unsaved \subseteq File /\ current \subseteq Process /\ met \subseteq Process

Loading(p) == \E a \in Actor : ProcessOf(a) = p /\ request[a].pc \in LoadPhase

(* A process that loaded the files, alone and undisturbed, and has seen no *)
(* change of them since, has in its runtime what they say: settings, users *)
(* and hooks, whatever saves, hooks, failed loads and rollbacks came       *)
(* before (config.py, _load_config, reload_local).                         *)
QuietRuntimeIsCurrent ==
  \A p \in current :
     /\ revision[p] = disk
     /\ \A f \in File :
          (p = Mcp /\ f \in unsaved) \/ memory[p][f] = disk[f].entry
     /\ p \notin met => registry[p] = Declared(disk["settings"].hooks)

(* Unless two loads of it have overlapped, a process that loads nothing    *)
(* runs the hooks of the settings.yaml it has loaded, once each, and knows *)
(* that it does: a failed load has been rolled back, a later one registers *)
(* again (config.py:333-351, hooks.py replace_source).                     *)
HooksFollowSettings ==
  \A p \in Process \ met :
     ~ Loading(p) => /\ applied[p] = revision[p]["settings"].hooks
                     /\ registry[p] = Declared(applied[p])

(* The memory of the MCP server differs from the files it was loaded from  *)
(* only where its tools changed it, and failed loads change nothing.       *)
OnlyUnsavedEditsDiffer ==
  ~ Loading(Mcp) =>
    \A f \in File \ unsaved : memory[Mcp][f] = revision[Mcp][f].entry

(* A save with a revision replaces only what the MCP server had loaded, in *)
(* either file, and changes only files its tools edited - unless somebody  *)
(* without the lock wrote between its two writes (handlers_config.py:      *)
(* 171-189).                                                               *)
GuardedSavesLoseNothing ==
  [][\A f \in File :
       /\ disk'[f] # disk[f]
       /\ \/ request'[Mcp].pc = "second" /\ At(Mcp, "idle")
          \/ request'[Mcp].pc = "pushUsers" /\ At(Mcp, "second") /\ request[Mcp].alone
       /\ request'[Mcp].fresh
       => f \in unsaved /\ disk[f].entry = revision[Mcp][f].entry]_vars

(* What a caller is told is so: whoever is told that it succeeded, or that *)
(* only the hook or the reload failed, finds the file written, and after a *)
(* load that went through the runtime has the files too, unless somebody   *)
(* else changed them meanwhile.  Excepted is the runtime after the hook    *)
(* error of a load that did not go through: the settings page says then    *)
(* that the form is in effect (routes/ui.py:833-838) and it is not; nor is *)
(* a save whose hook and reload have both failed (config.py:566-579).      *)
Ends(a) == request[a].pc \in LoadPhase /\ request'[a].pc = "idle"
AnswersAreTrue ==
  [][\A a \in Actor :
       Ends(a) /\ request[a].alone /\ Answer(request[a]) # "failed" =>
         LET r == request[a]
             p == ProcessOf(a) IN
         /\ CASE r.op = "reload" -> TRUE
              [] r.op = "save" -> \A f \in File : disk[f].entry = memory[Mcp][f]
              [] OTHER -> disk[FileOf(r.entry)].entry[r.entry] = r.value
         /\ At(a, "adoptRevisions") =>
              /\ revision'[p] = disk
              /\ \A f \in File : memory'[p][f] = disk[f].entry]_vars

(* A form drawn by a runtime that has the files as they are, and stamped   *)
(* before they changed, replaces no value but the one its content was made *)
(* from, whoever else writes before its submission does.                   *)
CurrentFormsLoseNothing ==
  [][\A s \in Session :
       At(s, "write") /\ request'[s].pc \in {"pushUsers", "pushSettings"}
         /\ request[s].fresh =>
         \A v \in request[s].carries :
            v = disk[FileOf(request[s].entry)].entry[request[s].entry]]_vars
=============================================================================
