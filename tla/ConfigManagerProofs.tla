------------------------- MODULE ConfigManagerProofs -------------------------
(***************************************************************************)
(* Runtime, hooks and files of the two processes stay related as the       *)
(* properties of ConfigManager say, for any number of sessions, callers,   *)
(* users, clients and declarations, and any number of calls and edits.     *)
(*                                                                         *)
(* The inductive invariant says how far each load has come: what it has    *)
(* read, what of it the runtime has already, and, if nothing disturbed it, *)
(* that what it has read is still what the files say.                      *)
(***************************************************************************)
EXTENDS ConfigManager, TLAPS

Loads(a) == request[a].pc \in LoadPhase
Registering == {"register"}
Registered == {"adoptSettings", "adoptUsers", "adoptRevisions"}

(* The phases of a load that has read file f, and those in which the       *)
(* runtime has it already.                                                 *)
HasRead(f) ==
  {"adoptHooks"} \cup Registering \cup Registered
    \cup (IF f = "settings" THEN {"readUsers"} ELSE {})
HasAdopted(f) ==
  {"adoptRevisions"} \cup (IF f = "settings" THEN {"adoptUsers"} ELSE {})

StagedOK ==
  \A a \in Actor, f \in File :
     request[a].pc \in HasRead(f) => request[a].staged[f] \in Document(f)

TypeInv == ConfigType /\ StagedOK

(* The hooks of process p, at rest and during its only load.               *)
HooksAtRest(p) ==
  /\ applied[p] = revision[p]["settings"].hooks
  /\ registry[p] = Declared(applied[p])
HooksOf(p) ==
  /\ \A a, b \in Actor :
       ProcessOf(a) = p /\ ProcessOf(b) = p /\ Loads(a) /\ Loads(b) => a = b
  /\ (\A a \in Actor :
        ProcessOf(a) = p => request[a].pc \notin Registering \cup Registered)
     => HooksAtRest(p)
  /\ \A a \in Actor :
       ProcessOf(a) = p =>
         /\ request[a].pc \in Registering =>
              /\ registry[p] = << >> /\ request[a].previous = Declared(applied[p])
              /\ applied[p] = revision[p]["settings"].hooks
              /\ applied[p] # request[a].staged["settings"].hooks
         /\ request[a].pc \in Registered =>
              /\ applied[p] = request[a].staged["settings"].hooks
              /\ registry[p] = Declared(applied[p])
HooksInv == \A p \in Process \ met : HooksOf(p)

(* The memory of the MCP server, file by file.                             *)
MemoryInv ==
  \A f \in File :
     IF request[Mcp].pc \in HasAdopted(f)
     THEN f \notin unsaved /\ memory[Mcp][f] = request[Mcp].staged[f].entry
     ELSE f \in unsaved \/ memory[Mcp][f] = revision[Mcp][f].entry

(* What a load has read is what the files say.                             *)
ReadIsDisk(a) ==
  \A f \in File : request[a].pc \in HasRead(f) => request[a].staged[f] = disk[f]
AloneInv ==
  \A a \in Actor :
     Loads(a) /\ request[a].alone =>
       /\ \A b \in Actor : ProcessOf(b) = ProcessOf(a) /\ Loads(b) => b = a
       /\ ReadIsDisk(a)
       /\ \A f \in File :
            request[a].pc \in HasAdopted(f) => memory[ProcessOf(a)][f] = disk[f].entry
CurrentInv ==
  \A p \in current :
     /\ revision[p] = disk
     /\ \A f \in File : (p = Mcp /\ f \in unsaved) \/ memory[p][f] = disk[f].entry
     /\ \A a \in Actor : ProcessOf(a) = p /\ Loads(a) => ReadIsDisk(a)

(* What a request has written is there.                                    *)
Unwritten == {"idle", "write", "second", "pull"}
WrittenTo(d, m, r) ==
  CASE r.op = "reload" -> TRUE
    [] r.op = "save" -> \A f \in File : d[f].entry = m[Mcp][f]
    [] OTHER -> d[FileOf(r.entry)].entry[r.entry] = r.value
WrittenInv ==
  \A a \in Actor :
     /\ request[a].op = "save" => a = Mcp
     /\ request[a].pc = "pull" => request[a].op = "reload"
     /\ request[a].alone /\ request[a].pc \notin Unwritten
          => WrittenTo(disk, memory, request[a])

(* Between the two writes of save_config.                                  *)
SecondInv ==
  request[Mcp].pc = "second" /\ request[Mcp].alone =>
    /\ request[Mcp].op = "save"
    /\ disk["users"].entry = memory[Mcp]["users"]
    /\ request[Mcp].fresh => disk["settings"] = revision[Mcp]["settings"]

(* What a form shows, and what its submission carries.                     *)
PageInv ==
  \A s \in Session :
     page[s] # NoPage =>
       LET e == page[s].entry IN
       /\ page[s].revision \in Document(FileOf(e)) \cup {NoRevision}
       /\ page[s].fresh /\ page[s].op # "create" =>
            page[s].shown = IF page[s].revision = NoRevision
                            THEN disk[FileOf(e)].entry[e]
                            ELSE page[s].revision.entry[e]
CarriesInv ==
  \A s \in Session :
     At(s, "write") /\ request[s].fresh =>
       /\ request[s].expected # NoRevision
       /\ \A v \in request[s].carries : v = request[s].expected.entry[request[s].entry]

ManagerInv ==
  /\ TypeInv /\ HooksInv /\ MemoryInv /\ AloneInv /\ CurrentInv
  /\ WrittenInv /\ SecondInv /\ PageInv /\ CarriesInv

-----------------------------------------------------------------------------
(* Types                                                                   *)

LEMMA Basics ==
  /\ "users" \in File /\ "settings" \in File /\ \A f \in File : f \in {"users", "settings"}
  /\ Web \in Process /\ Mcp \in Process /\ Web # Mcp /\ Web \notin Actor
  /\ Mcp \in Actor /\ Session \subseteq Actor /\ Caller \subseteq Actor
  /\ Mcp \notin Session \cup Caller
  /\ \A a \in Actor : ProcessOf(a) \in Process /\ (ProcessOf(a) = Mcp <=> a = Mcp)
  /\ \A e \in Entry : FileOf(e) \in File /\ e \in EntryOf(FileOf(e))
  /\ \A e \in Person : FileOf(e) = "users"
  /\ \A e \in Client \cup {Page} : FileOf(e) = "settings"
  /\ \A f \in File : NoRevision \notin Document(f)
BY ManagerAssumption
   DEF File, Process, Actor, ProcessOf, Entry, FileOf, EntryOf

LEMMA DirectorySet ==
  ASSUME NEW d \in Directory, NEW f \in File, NEW x \in Document(f)
  PROVE  [d EXCEPT ![f] = x] \in Directory
BY DEF Directory, AnyDocument

LEMMA DocumentSet ==
  ASSUME NEW f \in File, NEW d \in Document(f)
  PROVE  /\ d.entry \in Entries(f) /\ d.hooks \in Declaration /\ d.bad \in BOOLEAN
         /\ \A m \in Entries(f) : [d EXCEPT !.entry = m] \in Document(f)
         /\ \A e \in EntryOf(f), v \in Value : [d EXCEPT !.entry[e] = v] \in Document(f)
         /\ \A h \in Declaration : [d EXCEPT !.hooks = h] \in Document(f)
         /\ [d EXCEPT !.bad = ~ @] \in Document(f)
BY DEF Document, Entries

LEMMA RuntimeSet ==
  ASSUME NEW m \in Runtime, NEW f \in File, NEW x \in Entries(f)
  PROVE  [m EXCEPT ![f] = x] \in Runtime
BY DEF Runtime

LEMMA DirectoryHas ==
  ASSUME NEW d \in Directory, NEW f \in File
  PROVE  d[f] \in Document(f) /\ d[f] \in Revision
BY DEF Directory, AnyDocument, Revision

(* A function that has a document for each file is a directory.            *)
LEMMA StagedIsDirectory ==
  ASSUME NEW d \in [File -> Revision], \A f \in File : d[f] \in Document(f)
  PROVE  d \in Directory
BY DEF Directory, AnyDocument, Revision

LEMMA RequestUpdates ==
  ASSUME NEW r \in RequestType
  PROVE  /\ \A ph \in Phase : [r EXCEPT !.pc = ph] \in RequestType
         /\ \A x \in BOOLEAN : [r EXCEPT !.alone = x] \in RequestType
         /\ \A ph \in Phase, x \in BOOLEAN :
              [r EXCEPT !.pc = ph, !.alone = @ /\ x] \in RequestType
         /\ \A ph \in Phase, x \in Seq(Declaration) :
              [r EXCEPT !.pc = ph, !.previous = x] \in RequestType
         /\ \A ph \in Phase : [r EXCEPT !.pc = ph, !.alone = FALSE] \in RequestType
         /\ \A ph \in Phase : [r EXCEPT !.pc = ph, !.hookFailed = TRUE] \in RequestType
<1>1. \A x \in BOOLEAN : (r.alone /\ x) \in BOOLEAN
  BY DEF RequestType
<1> QED BY <1>1 DEF RequestType

LEMMA StagedUpdate ==
  ASSUME NEW r \in RequestType, NEW ph \in Phase, NEW f \in File, NEW x \in Document(f)
  PROVE  [r EXCEPT !.pc = ph, !.staged[f] = x] \in RequestType
<1>1. x \in Revision
  BY DEF Revision, AnyDocument
<1>2. [r.staged EXCEPT ![f] = x] \in [File -> Revision]
  BY <1>1 DEF RequestType
<1> QED BY <1>2 DEF RequestType

LEMMA IdleIsRequest == Idle \in RequestType
BY Basics DEF Idle, RequestType, Phase, Op, Entry, Value, Revision

(* Only a's request becomes r; nobody else's load phase or staging changes.*)
LEMMA BecomesTypes ==
  ASSUME TypeInv, NEW a \in Actor, NEW r \in RequestType, Becomes(a, r),
         \A f \in File : r.pc \in HasRead(f) => r.staged[f] \in Document(f)
  PROVE  request' \in [Actor -> RequestType] /\ StagedOK'
<1>1. request \in [Actor -> RequestType] /\ StagedOK
  BY DEF TypeInv, ConfigType
<1>2. request' = [request EXCEPT ![a] = r]
  BY DEF Becomes
<1>3. request' \in [Actor -> RequestType]
  BY <1>1, <1>2
<1>4. ASSUME NEW b \in Actor, NEW f \in File, request'[b].pc \in HasRead(f)
      PROVE  request'[b].staged[f] \in Document(f)
  BY <1>1, <1>2, <1>4 DEF StagedOK
<1>5. StagedOK'
  BY <1>4 DEF StagedOK, HasRead, File, Document, Entries, EntryOf, Value
<1> QED BY <1>3, <1>5

LEMMA RestlessTypes ==
  ASSUME TypeInv, NEW a, NEW r \in RequestType,
         NEW Others, request' = [b \in Actor |-> IF b = a THEN r
                                   ELSE IF b \in Others THEN Restless(b) ELSE request[b]],
         \A f \in File : r.pc \in HasRead(f) => r.staged[f] \in Document(f)
  PROVE  request' \in [Actor -> RequestType] /\ StagedOK'
<1>1. request \in [Actor -> RequestType] /\ StagedOK
  BY DEF TypeInv, ConfigType
<1>2. ASSUME NEW b \in Actor
      PROVE  /\ Restless(b) \in RequestType /\ Restless(b).pc = request[b].pc
             /\ Restless(b).staged = request[b].staged
  <2>1. request[b] \in RequestType
    BY <1>1
  <2>2. [request[b] EXCEPT !.alone = FALSE] \in RequestType
    BY <2>1, RequestUpdates
  <2> QED BY <2>1, <2>2 DEF Restless, RequestType
<1>3. request' \in [Actor -> RequestType]
  BY <1>1, <1>2
<1>4. ASSUME NEW b \in Actor, NEW f \in File, request'[b].pc \in HasRead(f)
      PROVE  request'[b].staged[f] \in Document(f)
  BY <1>1, <1>2, <1>4 DEF StagedOK
<1>5. StagedOK'
  BY <1>4 DEF StagedOK, HasRead, File, Document, Entries, EntryOf, Value
<1> QED BY <1>3, <1>5

LEMMA LoadTypes ==
  ASSUME TypeInv, NEW a \in Actor, Load(a)
  PROVE  TypeInv'
<1> DEFINE r == request[a]
           p == ProcessOf(a)
<1>0. /\ ConfigType /\ StagedOK /\ r \in RequestType /\ p \in Process
      /\ disk \in Directory /\ r.alone \in BOOLEAN
  BY Basics DEF TypeInv, ConfigType, RequestType
<1>a. \A f \in File : disk[f] \in Document(f)
  BY <1>0, DirectoryHas
<1>b. LoadPhase \subseteq Phase /\ "idle" \in Phase
  BY DEF Phase, LoadPhase
<1>c. \A f \in File : Idle.pc \notin HasRead(f)
  BY DEF Idle, HasRead, Registering, Registered
<1>d. Idle \in RequestType
  BY IdleIsRequest
<1>1. CASE StartLoad(a)
  <2> DEFINE alone == Overlapped(a) = {}
             q == [r EXCEPT !.pc = "readSettings", !.alone = @ /\ alone]
  <2>1. q \in RequestType
    <3>1. alone \in BOOLEAN
      OBVIOUS
    <3> HIDE DEF alone, r
    <3> QED BY <1>0, <1>b, <3>1, RequestUpdates DEF LoadPhase
  <2>2. q.pc = "readSettings"
    BY <1>0 DEF RequestType
  <2>3. request' = [b \in Actor |-> IF b = a THEN q
                      ELSE IF b \in Overlapped(a) THEN Restless(b) ELSE request[b]]
    BY <1>1 DEF StartLoad
  <2>4. request' \in [Actor -> RequestType] /\ StagedOK'
    <3>1. \A f \in File : q.pc \notin HasRead(f)
      BY <2>2 DEF HasRead, Registering, Registered
    <3> HIDE DEF q
    <3> QED BY <2>1, <2>3, <3>1, RestlessTypes
  <2>5. met' \subseteq Process
    BY <1>0, <1>1 DEF StartLoad, ConfigType
  <2> QED BY <1>0, <1>1, <2>4, <2>5
       DEF TypeInv, ConfigType, StartLoad, files, runtime, counters
<1>2. CASE ReadSettings(a)
  <2> DEFINE q == [r EXCEPT !.pc = "readUsers", !.staged["settings"] = disk["settings"]]
  <2>1. q \in RequestType
    <3> HIDE DEF r
    <3> QED BY <1>0, <1>a, <1>b, StagedUpdate, Basics DEF LoadPhase
  <2>2. q.pc = "readUsers" /\ q.staged["settings"] = disk["settings"]
    BY <1>0, Basics DEF RequestType
  <2>3. Becomes(a, q) \/ Becomes(a, Idle)
    BY <1>2 DEF ReadSettings, LoadRaises
  <2>4. request' \in [Actor -> RequestType] /\ StagedOK'
    <3>1. \A f \in File : q.pc \in HasRead(f) => q.staged[f] \in Document(f)
      BY <2>2, <1>a, Basics DEF HasRead, Registering, Registered
    <3> HIDE DEF q
    <3> QED BY <1>c, <1>d, <2>1, <2>3, <3>1, BecomesTypes
  <2> QED BY <1>0, <1>2, <2>4
       DEF TypeInv, ConfigType, ReadSettings, files, runtime, counters, history
<1>3. CASE ReadUsers(a)
  <2> DEFINE q == [r EXCEPT !.pc = "adoptHooks", !.staged["users"] = disk["users"]]
  <2>0. r.pc = "readUsers" /\ r.staged["settings"] \in Document("settings")
    BY <1>0, <1>3, Basics DEF ReadUsers, At, StagedOK, HasRead
  <2>1. q \in RequestType
    <3> HIDE DEF r
    <3> QED BY <1>0, <1>a, <1>b, StagedUpdate, Basics DEF LoadPhase
  <2>2. /\ q.pc = "adoptHooks" /\ q.staged["users"] = disk["users"]
        /\ q.staged["settings"] = r.staged["settings"]
    BY <1>0, Basics DEF RequestType
  <2>3. Becomes(a, q) \/ Becomes(a, Idle)
    BY <1>3 DEF ReadUsers, LoadRaises
  <2>4. request' \in [Actor -> RequestType] /\ StagedOK'
    <3>1. \A f \in File : q.pc \in HasRead(f) => q.staged[f] \in Document(f)
      BY <2>0, <2>2, <1>a, Basics
    <3> HIDE DEF q
    <3> QED BY <1>c, <1>d, <2>1, <2>3, <3>1, BecomesTypes
  <2> QED BY <1>0, <1>3, <2>4
       DEF TypeInv, ConfigType, ReadUsers, files, runtime, counters, history
<1>4. CASE AdoptHooks(a)
  <2>0. r.pc = "adoptHooks" /\ \A f \in File : r.staged[f] \in Document(f)
    BY <1>0, <1>4, Basics DEF AdoptHooks, At, StagedOK, HasRead
  <2> DEFINE q == [r EXCEPT !.pc = "adoptSettings"]
             s == [r EXCEPT !.pc = "register", !.previous = registry[p]]
  <2>1. registry[p] \in Seq(Declaration)
    BY <1>0 DEF ConfigType
  <2>2. q \in RequestType /\ s \in RequestType
    <3> HIDE DEF r, p
    <3> QED BY <1>0, <1>b, <2>1, RequestUpdates DEF LoadPhase
  <2>3. q.staged = r.staged /\ s.staged = r.staged
    BY <1>0 DEF RequestType
  <2>4. Becomes(a, q) \/ Becomes(a, s)
    BY <1>4 DEF AdoptHooks
  <2>5. request' \in [Actor -> RequestType] /\ StagedOK'
    <3> HIDE DEF q, s
    <3> QED BY <2>0, <2>2, <2>3, <2>4, BecomesTypes
  <2>6. registry' \in [Process -> Seq(Declaration)]
    <3>1. << >> \in Seq(Declaration)
      OBVIOUS
    <3> QED BY <1>0, <1>4, <3>1 DEF AdoptHooks, ConfigType
  <2> QED BY <1>0, <1>4, <2>5, <2>6
       DEF TypeInv, ConfigType, AdoptHooks, files, counters, history
<1>5. CASE Register(a)
  <2>0. r.pc = "register" /\ \A f \in File : r.staged[f] \in Document(f)
    BY <1>0, <1>5, Basics DEF Register, At, StagedOK, HasRead, Registering
  <2> DEFINE h == r.staged["settings"].hooks
             q == [r EXCEPT !.pc = "adoptSettings", !.previous = << >>]
  <2>1. h \in Declaration /\ Declared(h) \in Seq(Declaration)
    BY <2>0, Basics DEF Document, Declared
  <2>2. q \in RequestType
    <3>1. << >> \in Seq(Declaration)
      OBVIOUS
    <3> HIDE DEF r
    <3> QED BY <1>0, <1>b, <3>1, RequestUpdates DEF LoadPhase
  <2>3. q.staged = r.staged
    BY <1>0 DEF RequestType
  <2>4. Becomes(a, q) \/ Becomes(a, Idle)
    BY <1>5 DEF Register, LoadRaises
  <2>5. request' \in [Actor -> RequestType] /\ StagedOK'
    <3> HIDE DEF q
    <3> QED BY <1>c, <1>d, <2>0, <2>2, <2>3, <2>4, BecomesTypes
  <2>6. registry' \in [Process -> Seq(Declaration)] /\ applied' \in [Process -> Declaration]
    <3>1. /\ registry[p] \in Seq(Declaration) /\ r.previous \in Seq(Declaration)
          /\ registry \in [Process -> Seq(Declaration)]
          /\ applied \in [Process -> Declaration]
      BY <1>0 DEF ConfigType, RequestType
    <3>2. registry[p] \o Declared(h) \in Seq(Declaration)
      BY <2>1, <3>1
    <3>3. \/ /\ registry' = [registry EXCEPT ![p] = registry[p] \o Declared(h)]
             /\ applied' = [applied EXCEPT ![p] = h]
          \/ registry' = [registry EXCEPT ![p] = r.previous] /\ applied' = applied
      BY <1>5 DEF Register
    <3> HIDE DEF p, h, r
    <3> QED BY <2>1, <3>1, <3>2, <3>3
  <2> QED BY <1>0, <1>5, <2>5, <2>6
       DEF TypeInv, ConfigType, Register, files, counters, history
<1>6. ASSUME NEW f \in File, NEW phase \in {"adoptSettings", "adoptUsers"},
             NEW then \in {"adoptUsers", "adoptRevisions"}, AdoptFile(a, f, phase, then)
      PROVE  TypeInv'
  <2>0. \A g \in File : r.staged[g] \in Document(g)
    BY <1>0, <1>6, Basics DEF AdoptFile, At, StagedOK, HasRead, Registered
  <2> DEFINE q == [r EXCEPT !.pc = then]
  <2>1. q \in RequestType /\ q.staged = r.staged
    <3>1. then \in Phase
      BY DEF Phase, LoadPhase
    <3>2. q \in RequestType
      <4> HIDE DEF r
      <4> QED BY <1>0, <3>1, RequestUpdates
    <3> QED BY <1>0, <3>2 DEF RequestType
  <2>2. Becomes(a, q)
    BY <1>6 DEF AdoptFile
  <2>3. request' \in [Actor -> RequestType] /\ StagedOK'
    <3> HIDE DEF q
    <3> QED BY <2>0, <2>1, <2>2, BecomesTypes
  <2>4. memory' \in [Process -> Runtime]
    <3>1. r.staged[f].entry \in Entries(f)
      BY <2>0, DocumentSet
    <3>2. [memory[p] EXCEPT ![f] = r.staged[f].entry] \in Runtime
      <4>1. memory[p] \in Runtime
        BY <1>0 DEF ConfigType
      <4> QED BY <3>1, <4>1, RuntimeSet
    <3> QED BY <1>0, <1>6, <3>2 DEF AdoptFile, ConfigType
  <2>5. unsaved' \subseteq File
    BY <1>0, <1>6 DEF AdoptFile, ConfigType
  <2> QED BY <1>0, <1>6, <2>3, <2>4, <2>5
       DEF TypeInv, ConfigType, AdoptFile, files, counters
<1>7. CASE AdoptRevisions(a)
  <2>1. Becomes(a, Idle)
    BY <1>7 DEF AdoptRevisions
  <2>2. request' \in [Actor -> RequestType] /\ StagedOK'
    BY <1>c, <1>d, <2>1, BecomesTypes
  <2>3. r.staged \in Directory
    BY <1>0, <1>7, StagedIsDirectory
       DEF AdoptRevisions, At, StagedOK, HasRead, Registered, RequestType
  <2>4. revision' \in [Process -> Directory]
    BY <1>0, <1>7, <2>3 DEF AdoptRevisions, ConfigType
  <2>5. current' \subseteq Process
    BY <1>0, <1>7 DEF AdoptRevisions, ConfigType
  <2> QED BY <1>0, <1>7, <2>2, <2>4, <2>5
       DEF TypeInv, ConfigType, AdoptRevisions, files, counters
<1> QED BY <1>1, <1>2, <1>3, <1>4, <1>5, <1>6, <1>7, Basics
     DEF Load, AdoptSettings, AdoptUsers

-----------------------------------------------------------------------------
(* The steps that are not of a load.  One kind changes files, and with it  *)
(* ends what anybody else knows of them; the other leaves files and        *)
(* runtime alone.                                                          *)
FilesStep(a, r) ==
  /\ FilesChangedBy(a, r) /\ disk' \in Directory /\ lock' \subseteq {Mcp}
  /\ calls' \in Nat /\ handEdits' \in Nat
  /\ UNCHANGED <<runtime, unsaved, met>>
CalmStep(a, r) ==
  /\ Becomes(a, r) /\ lock' \subseteq {Mcp}
  /\ page' \in [Session -> PageType \cup {NoPage}]
  /\ calls' \in Nat /\ handEdits' \in Nat
  /\ UNCHANGED <<disk, runtime, history>>

(* Neither before nor after its step is a within a load; and what it has   *)
(* written is there.                                                       *)
OutsideLoad(a, r) ==
  /\ r \in RequestType /\ r.pc \notin LoadPhase
  /\ a \in Actor => ~ Loads(a)
  /\ a \in Actor /\ r.op = "save" => a = Mcp
  /\ r.pc = "pull" => r.op = "reload"
  /\ a \in Actor /\ r.alone /\ r.pc \notin Unwritten => WrittenTo(disk', memory', r)

LEMMA ReadsWhileLoading ==
  \A f \in File, ph \in Phase :
     /\ ph \in HasRead(f) \/ ph \in HasAdopted(f) => ph \in LoadPhase
     /\ ph \in Registering \cup Registered => ph \in LoadPhase
     /\ ph \in HasAdopted(f) => ph \in HasRead(f)
     /\ ph \in LoadPhase => ph \notin Unwritten /\ ph # "load"
BY DEF HasRead, HasAdopted, Registering, Registered, LoadPhase, File, Unwritten

LEMMA FilesTypes ==
  ASSUME TypeInv, NEW a, NEW r, FilesStep(a, r), OutsideLoad(a, r)
  PROVE  /\ TypeInv'
         /\ \A b \in Actor :
              request'[b] = IF b = a THEN r ELSE [request[b] EXCEPT !.alone = FALSE]
         /\ \A s \in Session :
              page'[s] = IF page[s] = NoPage THEN NoPage
                         ELSE [page[s] EXCEPT !.fresh = @ /\ page[s].revision # NoRevision]
<1>0. ConfigType /\ r \in RequestType
  BY DEF TypeInv, OutsideLoad
<1>1. request' = [b \in Actor |-> IF b = a THEN r
                    ELSE IF b \in Actor THEN Restless(b) ELSE request[b]]
  BY DEF FilesStep, FilesChangedBy
<1>2. \A f \in File : r.pc \notin HasRead(f)
  BY <1>0, ReadsWhileLoading DEF OutsideLoad, RequestType
<1>3. request' \in [Actor -> RequestType] /\ StagedOK'
  BY <1>0, <1>1, <1>2, RestlessTypes
<1>4. \A s \in Session :
        page'[s] = IF page[s] = NoPage THEN NoPage
                   ELSE [page[s] EXCEPT !.fresh = @ /\ page[s].revision # NoRevision]
  BY DEF FilesStep, FilesChangedBy, Outdated
<1>5. ASSUME NEW s \in Session
      PROVE  page'[s] \in PageType \cup {NoPage}
  <2>1. CASE page[s] = NoPage
    BY <2>1, <1>4
  <2>2. CASE page[s] # NoPage
    <3> DEFINE x == page[s].fresh /\ page[s].revision # NoRevision
    <3>1. page[s] \in PageType /\ x \in BOOLEAN
      BY <1>0, <2>2 DEF ConfigType, PageType
    <3>2. page'[s] = [page[s] EXCEPT !.fresh = x]
      BY <1>4, <2>2
    <3> HIDE DEF x
    <3> QED BY <3>1, <3>2 DEF PageType
  <2> QED BY <2>1, <2>2
<1>6. page' \in [Session -> PageType \cup {NoPage}]
  BY <1>5 DEF FilesStep, FilesChangedBy
<1>7. current' \subseteq Process
  BY DEF FilesStep, FilesChangedBy
<1>8. ConfigType'
  BY <1>0, <1>3, <1>6, <1>7 DEF FilesStep, ConfigType, runtime
<1>9. \A b \in Actor :
        request'[b] = IF b = a THEN r ELSE [request[b] EXCEPT !.alone = FALSE]
  BY <1>1 DEF Restless
<1> QED BY <1>3, <1>4, <1>8, <1>9 DEF TypeInv

LEMMA FilesKeep ==
  ASSUME ManagerInv, NEW a, NEW r, FilesStep(a, r), OutsideLoad(a, r),
         a \in Actor => r.pc # "write",
         a = Mcp /\ r.pc = "second" =>
           /\ r.op = "save" /\ disk'["users"].entry = memory[Mcp]["users"]
           /\ r.fresh => disk'["settings"] = revision[Mcp]["settings"]
  PROVE  ManagerInv'
<1>0. /\ ConfigType /\ r \in RequestType /\ r.pc \notin LoadPhase
      /\ a \in Actor => ~ Loads(a)
      /\ \A f \in File : r.pc \notin HasRead(f) /\ r.pc \notin HasAdopted(f)
      /\ r.pc \notin Registering \cup Registered
  <2>1. ConfigType /\ r \in RequestType /\ r.pc \notin LoadPhase /\ (a \in Actor => ~ Loads(a))
    BY DEF ManagerInv, TypeInv, OutsideLoad
  <2>2. r.pc \in Phase
    BY <2>1 DEF RequestType
  <2> QED BY <2>1, <2>2, ReadsWhileLoading, Basics
<1>1. /\ TypeInv'
      /\ \A b \in Actor :
           request'[b] = IF b = a THEN r ELSE [request[b] EXCEPT !.alone = FALSE]
      /\ \A s \in Session :
           page'[s] = IF page[s] = NoPage THEN NoPage
                      ELSE [page[s] EXCEPT !.fresh = @ /\ page[s].revision # NoRevision]
  BY FilesTypes DEF ManagerInv
<1>2. /\ memory' = memory /\ revision' = revision /\ registry' = registry
      /\ applied' = applied /\ unsaved' = unsaved /\ met' = met /\ current' = {}
  BY DEF FilesStep, FilesChangedBy, runtime
<1>3. ASSUME NEW b \in Actor, b # a
      PROVE  /\ request'[b].pc = request[b].pc /\ request'[b].alone = FALSE
             /\ request'[b].staged = request[b].staged
             /\ request'[b].previous = request[b].previous
             /\ request'[b].op = request[b].op /\ request'[b].fresh = request[b].fresh
             /\ request'[b].entry = request[b].entry
             /\ request'[b].expected = request[b].expected
             /\ request'[b].carries = request[b].carries
  <2>1. request[b] \in RequestType
    BY <1>0 DEF ConfigType
  <2> QED BY <1>1, <1>3, <2>1 DEF RequestType
<1>4. \A b \in Actor : b = a => request'[b] = r
  BY <1>1
<1>5. \A b \in Actor : Loads(b)' => Loads(b) /\ b # a
  BY <1>0, <1>3, <1>4 DEF Loads
<1>6. HooksInv'
  <2> SUFFICES ASSUME NEW p \in Process \ met PROVE HooksOf(p)'
    BY <1>2 DEF HooksInv
  <2>1. HooksOf(p)
    BY DEF ManagerInv, HooksInv
  <2>2. ASSUME NEW b \in Actor
        PROVE  request'[b].pc \in Registering \cup Registered
                 <=> request[b].pc \in Registering \cup Registered
    <3>1. CASE b # a
      BY <1>3, <3>1
    <3>2. CASE b = a
      <4>1. request[b].pc \in Phase /\ request[b].pc \notin LoadPhase
        BY <1>0, <3>2 DEF Loads, ConfigType, RequestType
      <4>2. request'[b] = r
        BY <1>4, <3>2
      <4> QED BY <1>0, <4>1, <4>2, ReadsWhileLoading DEF File
    <3> QED BY <3>1, <3>2
  <2>3. \A b, c \in Actor :
          ProcessOf(b) = p /\ ProcessOf(c) = p /\ Loads(b)' /\ Loads(c)' => b = c
    BY <1>5, <2>1 DEF HooksOf
  <2>4. ASSUME NEW b \in Actor, request'[b].pc \in Registering \cup Registered
        PROVE  /\ b # a /\ request'[b].pc = request[b].pc
               /\ request'[b].staged = request[b].staged
               /\ request'[b].previous = request[b].previous
    BY <1>0, <1>3, <1>4, <2>4
  <2> QED BY <1>2, <2>1, <2>2, <2>3, <2>4 DEF HooksOf, HooksAtRest, ProcessOf
<1>7. MemoryInv'
  <2> SUFFICES ASSUME NEW f \in File
               PROVE  IF request'[Mcp].pc \in HasAdopted(f)
                      THEN f \notin unsaved' /\ memory'[Mcp][f] = request'[Mcp].staged[f].entry
                      ELSE f \in unsaved' \/ memory'[Mcp][f] = revision'[Mcp][f].entry
    BY DEF MemoryInv, HasAdopted
  <2>1. CASE a = Mcp
    <3>1. request[Mcp].pc \notin HasAdopted(f) /\ request'[Mcp] = r
      BY <1>0, <1>4, <2>1, Basics, ReadsWhileLoading DEF Loads, ConfigType, RequestType
    <3> QED BY <1>0, <1>2, <3>1 DEF ManagerInv, MemoryInv
  <2>2. CASE a # Mcp
    BY <1>2, <1>3, <2>2, Basics DEF ManagerInv, MemoryInv
  <2> QED BY <2>1, <2>2
<1>8. AloneInv'
  BY <1>3, <1>5 DEF AloneInv
<1>9. CurrentInv'
  BY <1>2 DEF CurrentInv
<1>10. WrittenInv'
  <2> SUFFICES ASSUME NEW b \in Actor
               PROVE  /\ request'[b].op = "save" => b = Mcp
                      /\ request'[b].pc = "pull" => request'[b].op = "reload"
                      /\ request'[b].alone /\ request'[b].pc \notin Unwritten
                           => WrittenTo(disk', memory', request'[b])
    BY DEF WrittenInv, Unwritten, WrittenTo, FileOf
  <2>1. CASE b = a
    BY <1>4, <2>1 DEF OutsideLoad
  <2>2. CASE b # a
    BY <1>3, <2>2 DEF ManagerInv, WrittenInv
  <2> QED BY <2>1, <2>2
<1>11. SecondInv'
  <2>1. CASE a = Mcp
    BY <1>2, <1>4, <2>1, Basics DEF SecondInv
  <2>2. CASE a # Mcp
    BY <1>3, <2>2, Basics DEF SecondInv
  <2> QED BY <2>1, <2>2
<1>12. PageInv'
  <2> SUFFICES ASSUME NEW s \in Session, page'[s] # NoPage
        PROVE  LET e == page'[s].entry IN
               /\ page'[s].revision \in Document(FileOf(e)) \cup {NoRevision}
               /\ page'[s].fresh /\ page'[s].op # "create" =>
                    page'[s].shown = IF page'[s].revision = NoRevision
                                     THEN disk'[FileOf(e)].entry[e]
                                     ELSE page'[s].revision.entry[e]
    BY DEF PageInv, Document, Entries, EntryOf, FileOf, Value
  <2>1. page[s] \in PageType /\ page[s] # NoPage
    BY <1>0, <1>1 DEF ConfigType
  <2>2. /\ page'[s].entry = page[s].entry /\ page'[s].revision = page[s].revision
        /\ page'[s].shown = page[s].shown /\ page'[s].op = page[s].op
        /\ page'[s].fresh => page[s].fresh /\ page[s].revision # NoRevision
    BY <1>1, <2>1 DEF PageType
  <2> QED BY <2>1, <2>2 DEF ManagerInv, PageInv
<1>13. CarriesInv'
  <2> SUFFICES ASSUME NEW s \in Session, request'[s].pc = "write", request'[s].fresh
        PROVE  /\ request'[s].expected # NoRevision
               /\ \A v \in request'[s].carries :
                    v = request'[s].expected.entry[request'[s].entry]
    BY DEF CarriesInv, At
  <2>1. s \in Actor /\ s # a
    BY <1>4, Basics
  <2> QED BY <1>3, <2>1 DEF ManagerInv, CarriesInv, At
<1> QED BY <1>1, <1>6, <1>7, <1>8, <1>9, <1>10, <1>11, <1>12, <1>13 DEF ManagerInv

LEMMA CalmKeep ==
  ASSUME ManagerInv, NEW a \in Actor, NEW r, CalmStep(a, r), OutsideLoad(a, r),
         PageInv', r.pc # "second",
         r.pc = "write" /\ r.fresh =>
           r.expected # NoRevision /\ \A v \in r.carries : v = r.expected.entry[r.entry]
  PROVE  ManagerInv'
<1>0. ConfigType /\ r \in RequestType /\ r.pc \in Phase \ LoadPhase /\ ~ Loads(a)
  BY DEF ManagerInv, TypeInv, OutsideLoad, RequestType
<1>a. /\ \A f \in File : r.pc \notin HasRead(f) /\ r.pc \notin HasAdopted(f)
      /\ r.pc \notin Registering \cup Registered
  BY <1>0, ReadsWhileLoading, Basics
<1>b. /\ \A f \in File : request[a].pc \notin HasRead(f) /\ request[a].pc \notin HasAdopted(f)
      /\ request[a].pc \notin Registering \cup Registered
  BY <1>0, ReadsWhileLoading, Basics DEF Loads, ConfigType, RequestType
<1>1. /\ memory' = memory /\ revision' = revision /\ registry' = registry
      /\ applied' = applied /\ unsaved' = unsaved /\ met' = met /\ current' = current
      /\ disk' = disk
  BY DEF CalmStep, runtime, history
<1>2. request' \in [Actor -> RequestType] /\ StagedOK'
  BY <1>0, <1>a, BecomesTypes DEF CalmStep, ManagerInv
<1>3. TypeInv'
  BY <1>0, <1>1, <1>2 DEF CalmStep, TypeInv, ConfigType
<1>4. request'[a] = r /\ \A b \in Actor : b # a => request'[b] = request[b]
  BY <1>0 DEF CalmStep, Becomes, ConfigType
<1>5. \A b \in Actor : Loads(b)' => Loads(b) /\ b # a
  BY <1>0, <1>4 DEF Loads
<1>6. HooksInv'
  <2> SUFFICES ASSUME NEW p \in Process \ met PROVE HooksOf(p)'
    BY <1>1 DEF HooksInv
  <2>1. HooksOf(p)
    BY DEF ManagerInv, HooksInv
  <2>2. \A b \in Actor : request'[b].pc \in Registering \cup Registered
                           <=> request[b].pc \in Registering \cup Registered
    BY <1>4, <1>a, <1>b
  <2>3. \A b, c \in Actor :
          ProcessOf(b) = p /\ ProcessOf(c) = p /\ Loads(b)' /\ Loads(c)' => b = c
    BY <1>5, <2>1 DEF HooksOf
  <2>4. \A b \in Actor : request'[b].pc \in Registering \cup Registered
                           => request'[b] = request[b]
    BY <1>4, <1>a
  <2> QED BY <1>1, <2>1, <2>2, <2>3, <2>4 DEF HooksOf, HooksAtRest, ProcessOf
<1>7. MemoryInv'
  <2>1. CASE a = Mcp
    BY <1>1, <1>4, <1>a, <1>b, <2>1 DEF ManagerInv, MemoryInv
  <2>2. CASE a # Mcp
    BY <1>1, <1>4, <2>2, Basics DEF ManagerInv, MemoryInv
  <2> QED BY <2>1, <2>2
<1>8. AloneInv'
  BY <1>1, <1>4, <1>5 DEF ManagerInv, AloneInv, ReadIsDisk, Loads
<1>9. CurrentInv'
  BY <1>1, <1>4, <1>5 DEF ManagerInv, CurrentInv, ReadIsDisk, Loads
<1>10. WrittenInv'
  BY <1>1, <1>4 DEF ManagerInv, WrittenInv, OutsideLoad, WrittenTo
<1>11. SecondInv'
  BY <1>1, <1>4, Basics DEF ManagerInv, SecondInv
<1>12. CarriesInv'
  BY <1>4, Basics DEF ManagerInv, CarriesInv, At
<1> QED BY <1>3, <1>6, <1>7, <1>8, <1>9, <1>10, <1>11, <1>12 DEF ManagerInv

(* A form that is drawn or stamped.                                        *)
LEMMA PagesKeep ==
  ASSUME ManagerInv, PageInv', page' \in [Session -> PageType \cup {NoPage}],
         UNCHANGED <<files, runtime, request, counters, history>>
  PROVE  ManagerInv'
<1>1. /\ memory' = memory /\ revision' = revision /\ registry' = registry
      /\ applied' = applied /\ unsaved' = unsaved /\ met' = met /\ current' = current
      /\ disk' = disk /\ lock' = lock /\ request' = request
      /\ calls' = calls /\ handEdits' = handEdits
  BY DEF files, runtime, counters, history
<1>2. TypeInv'
  BY <1>1 DEF ManagerInv, TypeInv, ConfigType, StagedOK
<1>3. HooksInv' /\ MemoryInv' /\ AloneInv' /\ CurrentInv'
  BY <1>1 DEF ManagerInv, HooksInv, HooksOf, HooksAtRest, Loads, MemoryInv, AloneInv,
              ReadIsDisk, CurrentInv
<1>4. WrittenInv' /\ SecondInv' /\ CarriesInv'
  BY <1>1 DEF ManagerInv, WrittenInv, SecondInv, CarriesInv, At
<1> QED BY <1>2, <1>3, <1>4 DEF ManagerInv

LEMMA EditKeeps ==
  ASSUME ManagerInv, NEW e \in Entry, NEW value \in Value, EditInMemory(e, value)
  PROVE  ManagerInv'
<1> DEFINE f == FileOf(e)
           m == [memory[Mcp] EXCEPT ![f][e] = value]
<1>0. ConfigType /\ f \in File /\ e \in EntryOf(f) /\ request[Mcp].pc = "idle"
  BY Basics DEF ManagerInv, TypeInv, EditInMemory, At
<1>1. /\ memory' = [memory EXCEPT ![Mcp] = m] /\ unsaved' = unsaved \cup {f}
      /\ revision' = revision /\ registry' = registry /\ applied' = applied
      /\ request' = request /\ page' = page /\ current' = current /\ met' = met
      /\ disk' = disk /\ lock' = lock /\ handEdits' = handEdits /\ calls' = calls + 1
  BY DEF EditInMemory, Call, files
<1>2. m \in Runtime
  <2>1. memory[Mcp] \in Runtime /\ memory[Mcp][f] \in Entries(f)
    BY <1>0, Basics DEF ConfigType, Runtime
  <2>2. [memory[Mcp][f] EXCEPT ![e] = value] \in Entries(f)
    BY <1>0, <2>1 DEF Entries
  <2>3. m = [memory[Mcp] EXCEPT ![f] = [memory[Mcp][f] EXCEPT ![e] = value]]
    OBVIOUS
  <2> HIDE DEF f, m
  <2> QED BY <1>0, <2>1, <2>2, <2>3, RuntimeSet
<1>3. TypeInv'
  <2>1. memory' \in [Process -> Runtime] /\ unsaved' \subseteq File /\ calls' \in Nat
    <3>1. memory \in [Process -> Runtime] /\ unsaved \subseteq File /\ calls \in Nat
      BY <1>0 DEF ConfigType
    <3> HIDE DEF f, m
    <3>2. memory' \in [Process -> Runtime]
      BY <1>1, <1>2, <3>1
    <3>3. unsaved' \subseteq File
      BY <1>0, <1>1, <3>1
    <3>4. calls' \in Nat
      BY <1>1, <3>1
    <3> QED BY <3>2, <3>3, <3>4
  <2> QED BY <1>0, <1>1, <2>1 DEF ManagerInv, TypeInv, ConfigType, StagedOK
<1>4. /\ \A p \in Process : p # Mcp => memory'[p] = memory[p]
      /\ \A g \in File : g # f => memory'[Mcp][g] = memory[Mcp][g]
  BY <1>0, <1>1, Basics DEF ConfigType, Runtime
<1>5. HooksInv'
  BY <1>1 DEF ManagerInv, HooksInv, HooksOf, HooksAtRest, Loads
<1>6. MemoryInv'
  <2>1. \A g \in File : request[Mcp].pc \notin HasAdopted(g)
    BY <1>0 DEF HasAdopted
  <2> QED BY <1>1, <1>4, <2>1 DEF ManagerInv, MemoryInv
<1>7. AloneInv'
  <2>1. ~ Loads(Mcp)
    BY <1>0 DEF Loads, LoadPhase
  <2> QED BY <1>1, <1>4, <2>1, Basics DEF ManagerInv, AloneInv, ReadIsDisk, Loads
<1>8. CurrentInv'
  <2>1. \A p \in current : p \in Process
    BY <1>0 DEF ConfigType
  <2>2. \A p \in current, g \in File :
          \/ p = Mcp /\ g \in unsaved'
          \/ memory'[p][g] = memory[p][g] /\ ~ (p = Mcp /\ g \in unsaved)
    BY <1>1, <1>4, <2>1
  <2> QED BY <1>1, <2>2 DEF ManagerInv, CurrentInv, ReadIsDisk, Loads
<1>9. WrittenInv'
  <2>1. \A a \in Actor : a # Mcp => request[a].op # "save"
    BY DEF ManagerInv, WrittenInv
  <2>2. \A a \in Actor : a = Mcp => request[a].pc \in Unwritten
    BY <1>0 DEF Unwritten
  <2> QED BY <1>1, <2>1, <2>2 DEF ManagerInv, WrittenInv, WrittenTo
<1>10. SecondInv'
  BY <1>0, <1>1 DEF SecondInv
<1>11. PageInv' /\ CarriesInv'
  BY <1>1 DEF ManagerInv, PageInv, CarriesInv, At
<1> QED BY <1>3, <1>5, <1>6, <1>7, <1>8, <1>9, <1>10, <1>11 DEF ManagerInv

-----------------------------------------------------------------------------
(* The actions that are not of a load, each of its kind.                   *)
LEMMA ChangedDirectory ==
  ASSUME ConfigType, disk' \in Changes
  PROVE  disk' \in Directory
<1>1. disk \in Directory /\ MaxCalls + handEdits + 1 \in Value
  BY ManagerAssumption DEF ConfigType, Value
<1>2. CASE \E f \in File : disk' = [disk EXCEPT ![f].bad = ~ @]
  <2>1. PICK f \in File : disk' = [disk EXCEPT ![f].bad = ~ @]
    BY <1>2
  <2>2. disk' = [disk EXCEPT ![f] = [disk[f] EXCEPT !.bad = ~ @]]
    BY <2>1
  <2>3. [disk[f] EXCEPT !.bad = ~ @] \in Document(f)
    BY <1>1, DirectoryHas, DocumentSet
  <2> QED BY <1>1, <2>2, <2>3, DirectorySet
<1>3. CASE \E h \in Declaration : disk' = [disk EXCEPT !["settings"].hooks = h]
  <2>1. PICK h \in Declaration : disk' = [disk EXCEPT !["settings"].hooks = h]
    BY <1>3
  <2>2. disk' = [disk EXCEPT !["settings"] = [disk["settings"] EXCEPT !.hooks = h]]
    BY <2>1
  <2>3. [disk["settings"] EXCEPT !.hooks = h] \in Document("settings")
    BY <1>1, Basics, DirectoryHas, DocumentSet
  <2> QED BY <1>1, <2>2, <2>3, Basics, DirectorySet
<1>4. CASE \E e \in Entry :
             disk' = [disk EXCEPT ![FileOf(e)].entry[e] = MaxCalls + handEdits + 1]
  <2>1. PICK e \in Entry :
          disk' = [disk EXCEPT ![FileOf(e)].entry[e] = MaxCalls + handEdits + 1]
    BY <1>4
  <2> DEFINE f == FileOf(e)
             v == MaxCalls + handEdits + 1
  <2>2. disk' = [disk EXCEPT ![f] = [disk[f] EXCEPT !.entry[e] = v]]
    BY <2>1
  <2>3. f \in File /\ e \in EntryOf(f)
    BY Basics
  <2> HIDE DEF f, v
  <2>4. [disk[f] EXCEPT !.entry[e] = v] \in Document(f)
    BY <1>1, <2>3, DirectoryHas, DocumentSet DEF v
  <2> QED BY <1>1, <2>2, <2>3, <2>4, DirectorySet
<1> QED BY <1>2, <1>3, <1>4 DEF Changes

LEMMA ByHandKeeps ==
  ASSUME ManagerInv, NEW a, NEW r, OutsideLoad(a, r), ByHand(a, r),
         a \in Actor => r.pc # "write" /\ r.pc # "second"
  PROVE  ManagerInv'
<1>1. FilesStep(a, r)
  <2>1. ConfigType
    BY DEF ManagerInv, TypeInv
  <2>2. disk' \in Directory
    BY <2>1, ChangedDirectory DEF ByHand
  <2> QED BY <2>1, <2>2 DEF ByHand, FilesStep, ConfigType
<1> QED BY <1>1, FilesKeep, Basics

LEMMA PageUnchanged ==
  ASSUME ManagerInv, disk' = disk, page' = page
  PROVE  PageInv' /\ page' \in [Session -> PageType \cup {NoPage}]
BY DEF ManagerInv, TypeInv, ConfigType, PageInv

LEMMA PushKeeps ==
  ASSUME ManagerInv, NEW a \in Actor, NEW phase \in {"pushUsers", "pushSettings"},
         NEW then \in {"pushSettings", "load"}, Push(a, phase, then)
  PROVE  ManagerInv'
<1> DEFINE r == request[a]
           q == [r EXCEPT !.pc = then]
           failed == [q EXCEPT !.hookFailed = TRUE]
           disturbed == [q EXCEPT !.alone = FALSE]
<1>0. ConfigType /\ r \in RequestType /\ r.pc = phase /\ r.pc \notin LoadPhase
      /\ then \in Phase /\ then \notin LoadPhase
      /\ then # "write" /\ then # "second" /\ then # "idle" /\ then # "pull"
  BY DEF ManagerInv, TypeInv, ConfigType, Push, At, LoadPhase, Phase
<1>1. /\ q \in RequestType /\ failed \in RequestType /\ disturbed \in RequestType
  <2>1. failed = [r EXCEPT !.pc = then, !.hookFailed = TRUE]
    BY <1>0 DEF RequestType
  <2>2. disturbed = [r EXCEPT !.pc = then, !.alone = FALSE]
    BY <1>0 DEF RequestType
  <2> HIDE DEF r, failed, disturbed
  <2> QED BY <1>0, <2>1, <2>2, RequestUpdates
<1>2. /\ q.pc = then /\ q.op = r.op /\ q.entry = r.entry /\ q.value = r.value
      /\ q.alone = r.alone
      /\ failed.pc = then /\ failed.op = r.op /\ failed.entry = r.entry
      /\ failed.value = r.value /\ failed.alone = r.alone
      /\ disturbed.pc = then /\ disturbed.op = r.op /\ disturbed.alone = FALSE
  BY <1>0 DEF RequestType
<1>3. (r.op = "save" => a = Mcp) /\ (r.alone => WrittenTo(disk, memory, r)) /\ ~ Loads(a)
  BY <1>0 DEF ManagerInv, WrittenInv, Unwritten, Loads
<1>4. ASSUME NEW s \in {q, failed}, Becomes(a, s),
             UNCHANGED <<files, runtime, page, counters, history>>
      PROVE  ManagerInv'
  <2>1. CalmStep(a, s)
    BY <1>0, <1>4 DEF CalmStep, files, counters, ConfigType
  <2>2. disk' = disk /\ memory' = memory /\ page' = page
    BY <1>4 DEF files, runtime
  <2>3. s \in RequestType /\ s.pc = then /\ s.op = r.op /\ s.entry = r.entry
        /\ s.value = r.value /\ s.alone = r.alone
    BY <1>1, <1>2
  <2> HIDE DEF r, q, failed
  <2>4. r.alone => WrittenTo(disk', memory', s)
    BY <1>3, <2>2, <2>3 DEF WrittenTo
  <2>5. OutsideLoad(a, s)
    BY <1>0, <1>3, <2>3, <2>4 DEF OutsideLoad
  <2>6. s.pc # "second" /\ s.pc # "write"
    BY <1>0, <2>3
  <2> QED BY <2>1, <2>2, <2>5, <2>6, PageUnchanged, CalmKeep
<1>5. CASE ByHand(a, [q EXCEPT !.alone = FALSE])
  <2>1. OutsideLoad(a, disturbed)
    <3> HIDE DEF r, q, disturbed
    <3> QED BY <1>0, <1>1, <1>2, <1>3 DEF OutsideLoad
  <2>2. disturbed.pc # "write" /\ disturbed.pc # "second"
    BY <1>0, <1>2
  <2>3. ByHand(a, disturbed)
    BY <1>5
  <2> HIDE DEF disturbed
  <2> QED BY <2>1, <2>2, <2>3, ByHandKeeps
<1> QED BY <1>4, <1>5 DEF Push


LEMMA PullKeeps ==
  ASSUME ManagerInv, NEW a \in Actor, Pull(a) \/ PullFails(a)
  PROVE  ManagerInv'
<1> DEFINE r == request[a]
           q == [r EXCEPT !.pc = "load"]
<1>0. /\ ConfigType /\ r \in RequestType /\ r.pc = "pull" /\ r.pc \notin LoadPhase
      /\ "load" \in Phase /\ "load" \notin LoadPhase /\ r.op = "reload"
  BY DEF ManagerInv, TypeInv, ConfigType, Pull, PullFails, At, LoadPhase, Phase, WrittenInv
<1>1. q \in RequestType
  BY <1>0, RequestUpdates
<1>2. q.pc = "load" /\ q.op = "reload"
  BY <1>0 DEF RequestType
<1>3. OutsideLoad(a, q)
  <2> HIDE DEF q
  <2> QED BY <1>0, <1>1, <1>2 DEF OutsideLoad, WrittenTo, Loads
<1>4. OutsideLoad(a, Idle)
  <2>1. Idle.pc = "idle" /\ Idle.op = "none"
    BY DEF Idle
  <2> QED BY <1>0, <2>1, IdleIsRequest DEF OutsideLoad, Loads, LoadPhase, Unwritten
<1>5. ASSUME NEW s \in {q, Idle}, Becomes(a, s),
             UNCHANGED <<files, runtime, page, counters, history>>
      PROVE  ManagerInv'
  <2>1. CalmStep(a, s)
    BY <1>0, <1>5 DEF CalmStep, files, counters, ConfigType
  <2>2. disk' = disk /\ page' = page
    BY <1>5 DEF files
  <2> HIDE DEF q
  <2>3. s.pc \in {"load", "idle"}
    <3>1. Idle.pc = "idle"
      BY DEF Idle
    <3> QED BY <1>2, <3>1
  <2>4. OutsideLoad(a, s)
    BY <1>3, <1>4
  <2> QED BY <2>1, <2>2, <2>3, <2>4, PageUnchanged, CalmKeep
<1>6. CASE ByHand(a, q)
  <2> HIDE DEF q
  <2> QED BY <1>2, <1>3, <1>6, ByHandKeeps
<1> QED BY <1>5, <1>6 DEF Pull, PullFails

(* A request or a tool call that ends, or that begins with a reload.       *)
LEMMA IdleOutside ==
  ASSUME NEW a \in Actor, ~ Loads(a)
  PROVE  OutsideLoad(a, Idle)
<1>1. Idle.pc = "idle" /\ Idle.op = "none"
  BY DEF Idle
<1> QED BY <1>1, IdleIsRequest DEF OutsideLoad, LoadPhase, Unwritten

LEMMA GiveUpKeeps ==
  ASSUME ManagerInv, NEW a \in Actor, GiveUp(a), calls' \in Nat, handEdits' \in Nat, ~ Loads(a)
  PROVE  ManagerInv'
<1>1. CalmStep(a, Idle)
  BY DEF CalmStep, GiveUp, ManagerInv, TypeInv, ConfigType, files
<1>2. disk' = disk /\ page' = page /\ Idle.pc = "idle"
  BY DEF GiveUp, files, Idle
<1> QED BY <1>1, <1>2, IdleOutside, PageUnchanged, CalmKeep

LEMMA ReloadKeeps ==
  ASSUME ManagerInv, NEW a \in Actor, Reload(a)
  PROVE  ManagerInv'
<1> DEFINE phase == IF HasHooks(a) THEN "pull" ELSE "load"
           q == [Idle EXCEPT !.op = "reload", !.alone = TRUE, !.pc = phase]
<1>1. ~ Loads(a) /\ phase \in {"pull", "load"}
  BY DEF Reload, At, Loads, LoadPhase
<1>2. q \in RequestType /\ q.pc = phase /\ q.op = "reload"
  <2>1. Idle \in RequestType
    BY IdleIsRequest
  <2> QED BY <1>1, <2>1 DEF RequestType, Phase, Op
<1>3. Becomes(a, q) /\ disk' = disk /\ page' = page
  BY DEF Reload, files
<1>4. CalmStep(a, q)
  BY <1>3 DEF Reload, CalmStep, ManagerInv, TypeInv, ConfigType, files, Call
<1>5. OutsideLoad(a, q)
  <2> HIDE DEF phase, q
  <2> QED BY <1>1, <1>2 DEF OutsideLoad, LoadPhase, WrittenTo
<1> HIDE DEF phase, q
<1> QED BY <1>1, <1>2, <1>3, <1>4, <1>5, PageUnchanged, CalmKeep

LEMMA RefuseKeeps ==
  ASSUME ManagerInv, NEW s \in Session, Refuse(s), At(s, "idle")
  PROVE  ManagerInv'
<1>1. s \in Actor /\ ~ Loads(s)
  BY Basics DEF At, Loads, LoadPhase
<1>2. /\ Becomes(s, Idle) /\ disk' = disk /\ page' = [page EXCEPT ![s] = NoPage]
      /\ lock' = lock /\ UNCHANGED <<runtime, history>>
      /\ calls' = calls + 1 /\ handEdits' = handEdits
  BY DEF Refuse, files, Call
<1>3. page' \in [Session -> PageType \cup {NoPage}] /\ calls' \in Nat /\ handEdits' \in Nat
  BY <1>2 DEF ManagerInv, TypeInv, ConfigType
<1>4. PageInv'
  BY <1>2 DEF ManagerInv, TypeInv, ConfigType, PageInv
<1>5. CalmStep(s, Idle)
  BY <1>2, <1>3 DEF CalmStep, ManagerInv, TypeInv, ConfigType
<1>6. Idle.pc = "idle"
  BY DEF Idle
<1> QED BY <1>1, <1>4, <1>5, <1>6, IdleOutside, CalmKeep

(* A submission carries what its form or the runtime shows.                *)
LEMMA SubmitKeeps ==
  ASSUME ManagerInv, NEW s \in Session, At(s, "idle"),
         NEW op \in Op, op # "save", NEW e \in Entry, NEW value \in Value,
         NEW carries \in SUBSET Value, NEW expected \in Revision, NEW fresh \in BOOLEAN,
         Submit(s, op, e, value, carries, expected, fresh),
         fresh => expected # NoRevision /\ \A v \in carries : v = expected.entry[e]
  PROVE  ManagerInv'
<1> DEFINE q == [Idle EXCEPT
                   !.pc = "write", !.op = op, !.entry = e, !.value = value,
                   !.carries = carries, !.expected = expected, !.fresh = fresh]
<1>1. s \in Actor /\ ~ Loads(s)
  BY Basics DEF At, Loads, LoadPhase
<1>2. /\ Becomes(s, q) /\ disk' = disk /\ page' = [page EXCEPT ![s] = NoPage]
      /\ lock' = lock /\ UNCHANGED <<runtime, history>>
      /\ calls' = calls + 1 /\ handEdits' = handEdits
  BY DEF Submit, files, Call
<1>3. page' \in [Session -> PageType \cup {NoPage}] /\ calls' \in Nat /\ handEdits' \in Nat
  BY <1>2 DEF ManagerInv, TypeInv, ConfigType
<1>4. PageInv'
  BY <1>2 DEF ManagerInv, TypeInv, ConfigType, PageInv
<1>5. /\ q \in RequestType /\ q.pc = "write" /\ q.op = op /\ q.fresh = fresh
      /\ q.carries = carries /\ q.expected = expected /\ q.entry = e
  <2>1. Idle \in RequestType /\ "write" \in Phase
    BY IdleIsRequest DEF Phase
  <2> DEFINE x == [Idle EXCEPT !.pc = "write", !.op = op, !.entry = e, !.value = value]
  <2>2. x \in RequestType /\ x.pc = "write" /\ x.op = op /\ x.entry = e
    BY <2>1 DEF RequestType
  <2>3. q = [x EXCEPT !.carries = carries, !.expected = expected, !.fresh = fresh]
    OBVIOUS
  <2> HIDE DEF x, q
  <2> QED BY <2>2, <2>3 DEF RequestType
<1>6. CalmStep(s, q)
  <2> HIDE DEF q
  <2> QED BY <1>2, <1>3 DEF CalmStep, ManagerInv, TypeInv, ConfigType
<1>7. OutsideLoad(s, q)
  <2> HIDE DEF q
  <2> QED BY <1>1, <1>5 DEF OutsideLoad, LoadPhase, Unwritten
<1> HIDE DEF q
<1> QED BY <1>1, <1>4, <1>5, <1>6, <1>7, CalmKeep

LEMMA PostKeeps ==
  ASSUME ManagerInv, NEW s \in Session, NEW op \in Op, op # "save", NEW e \in Entry,
         NEW value \in Value, NEW kept \in SUBSET Value,
         kept = {} \/ kept = {InMemory(e)}, Post(s, op, e, value, kept)
  PROVE  ManagerInv'
<1>0. At(s, "idle") /\ ConfigType
  BY DEF Post, ManagerInv, TypeInv
<1>1. CASE Submit(s, op, e, value, kept, NoRevision, FALSE)
  <2>1. NoRevision \in Revision
    BY DEF Revision
  <2> QED BY <1>0, <1>1, <2>1, SubmitKeeps
<1>2. ASSUME page[s] # NoPage, page[s].revision # NoRevision,
             page[s].op = op, page[s].entry = e
      PROVE  LET carries == kept \cup (IF op \in {"create", "regenerate"} THEN {}
                                       ELSE {page[s].shown})
                 fresh == /\ page[s].fresh
                          /\ \/ kept = {}
                             \/ Web \in current /\ page[s].revision = disk[FileOf(e)] IN
             Submit(s, op, e, value, carries, page[s].revision, fresh) => ManagerInv'
  <2> DEFINE carries == kept \cup (IF op \in {"create", "regenerate"} THEN {}
                                   ELSE {page[s].shown})
             fresh == /\ page[s].fresh
                      /\ \/ kept = {}
                         \/ Web \in current /\ page[s].revision = disk[FileOf(e)]
             expected == page[s].revision
  <2>1. page[s] \in PageType
    BY <1>0, <1>2 DEF ConfigType
  <2>2. carries \in SUBSET Value /\ expected \in Revision /\ fresh \in BOOLEAN
    BY <2>1 DEF PageType
  <2>3. fresh /\ op # "create" => page[s].shown = expected.entry[e]
    BY <1>2 DEF ManagerInv, PageInv
  <2>4. fresh => kept = {} \/ kept = {expected.entry[e]}
    <3>1. ASSUME Web \in current
          PROVE  InMemory(e) = disk[FileOf(e)].entry[e]
      BY <3>1, Basics DEF InMemory, ManagerInv, CurrentInv
    <3> QED BY <3>1
  <2>5. fresh => expected # NoRevision /\ \A v \in carries : v = expected.entry[e]
    BY <1>2, <2>3, <2>4
  <2>6. ASSUME Submit(s, op, e, value, carries, expected, fresh) PROVE ManagerInv'
    <3> HIDE DEF carries, expected, fresh
    <3> QED BY <1>0, <2>2, <2>5, <2>6, SubmitKeeps
  <2> QED BY <2>6
<1> QED BY <1>1, <1>2 DEF Post

LEMMA HandleKeeps ==
  ASSUME ManagerInv, NEW s \in Session, Handle(s)
  PROVE  ManagerInv'
<1>0. ConfigType
  BY DEF ManagerInv, TypeInv
<1>1. Absent \in Value /\ NextValue \in Value /\ NoRevision \in Revision
  BY <1>0 DEF Value, Revision, NextValue, ConfigType
<1>2. ASSUME NEW e \in Entry PROVE InMemory(e) \in Value
  BY <1>0, Basics DEF InMemory, ConfigType, Runtime, Entries
<1>3. Person \subseteq Entry /\ Client \subseteq Entry /\ Page \in Entry
  BY DEF Entry
<1>4. {"create", "edit", "regenerate", "delete", "settings", "claims"} \subseteq Op
  BY DEF Op
<1>5. ASSUME NEW op \in {"create", "delete", "settings", "claims"}, NEW e \in Entry,
             NEW value \in {Absent, NextValue}, Post(s, op, e, value, {})
      PROVE  ManagerInv'
  <2>1. op \in Op /\ op # "save" /\ value \in Value /\ {} \in SUBSET Value
    BY <1>1, <1>4, <1>5
  <2> QED BY <1>5, <2>1, PostKeeps
<1>6. ASSUME NEW e \in Entry, Edit(s, e) PROVE ManagerInv'
  <2>1. CASE InMemory(e) = Absent
    BY <1>6, <2>1, RefuseKeeps DEF Edit
  <2>2. CASE InMemory(e) # Absent
    <3>1. PICK kept \in {{}, {InMemory(e)}} : Post(s, "edit", e, NextValue, kept)
      BY <1>6, <2>2 DEF Edit
    <3>2. kept \in SUBSET Value /\ "edit" \in Op
      BY <1>2, <1>4, <3>1
    <3> QED BY <1>1, <3>1, <3>2, PostKeeps
  <2> QED BY <2>1, <2>2
<1>7. ASSUME RegenerateSecret(s) PROVE ManagerInv'
  <2>1. PICK e \in Client :
          \/ InMemory(e) = Absent /\ At(s, "idle") /\ Refuse(s)
          \/ Post(s, "regenerate", e, NextValue, {InMemory(e)})
    BY <1>7 DEF RegenerateSecret
  <2>2. e \in Entry /\ {InMemory(e)} \in SUBSET Value /\ "regenerate" \in Op
    BY <1>2, <1>3, <1>4
  <2> QED BY <1>1, <2>1, <2>2, PostKeeps, RefuseKeeps
<1>8. ASSUME UserDelete(s) PROVE ManagerInv'
  <2>1. PICK e \in Person :
          At(s, "idle") /\ Submit(s, "delete", e, Absent, {}, NoRevision, FALSE)
    BY <1>8 DEF UserDelete
  <2>2. e \in Entry /\ {} \in SUBSET Value /\ "delete" \in Op
    BY <1>3, <1>4
  <2> QED BY <1>1, <2>1, <2>2, SubmitKeeps
<1> QED BY <1>3, <1>5, <1>6, <1>7, <1>8
     DEF Handle, UserCreate, UserEdit, ClientCreate, ClientEdit, ClientDelete,
         SettingsPost, ClaimsPost

LEMMA DrawKeeps ==
  ASSUME ManagerInv, NEW s \in Session, NEW op \in Op, NEW e \in Entry, Draw(s, op, e)
  PROVE  ManagerInv'
<1> DEFINE now == memory[Web][FileOf(e)][e]
           form == [op |-> op, entry |-> e, revision |-> NoRevision,
                    shown |-> IF op = "create" THEN Absent ELSE now,
                    fresh |-> Web \in current]
<1>0. ConfigType /\ page' = [page EXCEPT ![s] = form] /\ disk' = disk
      /\ UNCHANGED <<files, runtime, request, counters, history>>
  BY DEF Draw, files, ManagerInv, TypeInv
<1>1. now \in Value /\ Absent \in Value /\ NoRevision \in Revision
  BY <1>0, Basics DEF ConfigType, Runtime, Entries, Value, Revision
<1>2. form \in PageType
  <2>1. (Web \in current) \in BOOLEAN
    OBVIOUS
  <2> QED BY <1>1, <2>1 DEF PageType
<1>3. page' \in [Session -> PageType \cup {NoPage}]
  <2> HIDE DEF form
  <2> QED BY <1>0, <1>2 DEF ConfigType
<1>4. form.fresh /\ form.op # "create" => form.shown = disk[FileOf(e)].entry[e]
  BY Basics DEF ManagerInv, CurrentInv
<1>5. form.entry = e /\ form.revision = NoRevision
  OBVIOUS
<1>6. PageInv'
  <2> HIDE DEF form
  <2>1. page'[s] = form /\ \A t \in Session : t # s => page'[t] = page[t]
    BY <1>0 DEF ConfigType
  <2> QED BY <1>0, <1>4, <1>5, <2>1 DEF ManagerInv, PageInv
<1> QED BY <1>0, <1>3, <1>6, PagesKeep

LEMMA StampKeeps ==
  ASSUME ManagerInv, NEW s \in Session, Stamp(s)
  PROVE  ManagerInv'
<1> DEFINE e == page[s].entry
           x == disk[FileOf(e)]
<1>0. /\ ConfigType /\ page' = [page EXCEPT ![s].revision = x] /\ disk' = disk
      /\ page[s] \in PageType /\ page[s] # NoPage /\ page[s].revision = NoRevision
      /\ UNCHANGED <<files, runtime, request, counters, history>>
  BY DEF Stamp, files, ManagerInv, TypeInv, ConfigType
<1>1. x \in Document(FileOf(e)) /\ x \in Revision
  BY <1>0, Basics, DirectoryHas DEF ConfigType, PageType
<1>2. [page[s] EXCEPT !.revision = x] \in PageType
  <2> HIDE DEF x
  <2> QED BY <1>0, <1>1 DEF PageType
<1>3. page' = [page EXCEPT ![s] = [page[s] EXCEPT !.revision = x]]
  BY <1>0
<1>4. page' \in [Session -> PageType \cup {NoPage}]
  <2> HIDE DEF x
  <2> QED BY <1>0, <1>2, <1>3 DEF ConfigType
<1>5. PageInv'
  <2>1. page'[s] = [page[s] EXCEPT !.revision = x] /\ page[s] \in PageType
        /\ \A t \in Session : t # s => page'[t] = page[t]
    BY <1>0, <1>3 DEF ConfigType
  <2>2. /\ page'[s].entry = e /\ page'[s].revision = x /\ page'[s].op = page[s].op
        /\ page'[s].shown = page[s].shown /\ page'[s].fresh = page[s].fresh
    <3> HIDE DEF x
    <3> QED BY <2>1 DEF PageType
  <2>3. page[s].fresh /\ page[s].op # "create" => page[s].shown = x.entry[e]
    BY <1>0 DEF ManagerInv, PageInv
  <2>4. x # NoRevision
    BY <1>0, <1>1, Basics DEF PageType
  <2> HIDE DEF x, e
  <2> QED BY <1>0, <1>1, <2>1, <2>2, <2>3, <2>4 DEF ManagerInv, PageInv, e
<1> QED BY <1>0, <1>4, <1>5, PagesKeep

LEMMA ShowKeeps ==
  ASSUME ManagerInv, NEW s \in Session, Show(s)
  PROVE  ManagerInv'
<1>1. Person \subseteq Entry /\ Client \subseteq Entry /\ Page \in Entry
  BY DEF Entry
<1>2. {"create", "edit", "regenerate", "delete", "settings", "claims"} \subseteq Op
  BY DEF Op
<1>3. (\E op \in Op, e \in Entry : Draw(s, op, e)) \/ Stamp(s)
  BY <1>1, <1>2
     DEF Show, UserCreateForm, UserEditForm, ClientCreateForm, ClientEditForm,
         ClientsList, SettingsForm, ClaimsForm
<1> QED BY <1>3, DrawKeeps, StampKeeps

LEMMA AtomicWriteKeeps ==
  ASSUME ManagerInv, NEW s \in Session, AtomicWrite(s)
  PROVE  ManagerInv'
<1> DEFINE r == request[s]
           e == r.entry
           f == FileOf(e)
           then == IF f = "users" THEN "pushUsers" ELSE "pushSettings"
           q == [r EXCEPT !.alone = TRUE, !.pc = then]
<1>0. /\ ConfigType /\ s \in Actor /\ s # Mcp /\ r \in RequestType /\ r.pc = "write"
      /\ counters' = counters /\ ~ Loads(s) /\ r.op # "save"
      /\ f \in File /\ e \in EntryOf(f)
  <2>1. /\ ConfigType /\ s \in Actor /\ s # Mcp /\ request[s] \in RequestType
        /\ request[s].pc = "write" /\ counters' = counters /\ request[s].op # "save"
    BY Basics DEF ManagerInv, TypeInv, AtomicWrite, At, ConfigType, WrittenInv
  <2>2. e \in Entry
    BY <2>1 DEF RequestType
  <2> QED BY <2>1, <2>2, Basics DEF Loads, LoadPhase
<1>1. CASE GiveUp(s)
  BY <1>0, <1>1, GiveUpKeeps DEF counters, ConfigType
<1>2. CASE /\ disk' = [disk EXCEPT ![f] = Mutated(r, @)]
           /\ FilesChangedBy(s, q)
           /\ UNCHANGED <<lock, runtime, unsaved, met>>
  <2>1. disk[f] \in Document(f) /\ Mutated(r, disk[f]) = [disk[f] EXCEPT !.entry[e] = r.value]
        /\ r.value \in Value
    BY <1>0, DirectoryHas DEF Mutated, ConfigType, RequestType
  <2>2. disk' \in Directory /\ disk'[f].entry[e] = r.value
    <3>1. [disk[f] EXCEPT !.entry[e] = r.value] \in Document(f)
      BY <1>0, <2>1, DocumentSet
    <3>2. disk' = [disk EXCEPT ![f] = [disk[f] EXCEPT !.entry[e] = r.value]]
      BY <1>2, <2>1
    <3>3. disk \in Directory /\ disk \in [File -> AnyDocument]
      BY <1>0 DEF ConfigType, Directory
    <3>4. disk[f].entry \in Entries(f) /\ disk[f] \in Document(f)
      BY <2>1, DocumentSet, <1>0
    <3> HIDE DEF f, e, r
    <3>5. [disk[f] EXCEPT !.entry[e] = r.value].entry[e] = r.value
      BY <1>0, <3>4 DEF Document, Entries
    <3> QED BY <1>0, <3>1, <3>2, <3>3, <3>5, DirectorySet
  <2>3. FilesStep(s, q)
    <3> HIDE DEF q
    <3> QED BY <1>0, <1>2, <2>2 DEF FilesStep, ConfigType, counters
  <2>4. then \in Phase /\ then \notin LoadPhase /\ then # "pull"
    BY DEF Phase, LoadPhase
  <2>5. q \in RequestType /\ q.pc = then /\ q.op = r.op /\ q.entry = e /\ q.value = r.value
    <3> HIDE DEF then
    <3> QED BY <1>0, <2>4 DEF RequestType
  <2>6. OutsideLoad(s, q)
    <3>1. WrittenTo(disk', memory', q)
      <4> HIDE DEF q, then
      <4> QED BY <1>0, <2>2, <2>5 DEF WrittenTo
    <3> HIDE DEF q, then, r
    <3> QED BY <1>0, <2>4, <2>5, <3>1 DEF OutsideLoad
  <2>7. q.pc # "write"
    BY <2>5
  <2> HIDE DEF q
  <2> QED BY <1>0, <2>3, <2>6, <2>7, FilesKeep
<1> QED BY <1>1, <1>2 DEF AtomicWrite

LEMMA SavedDocument ==
  ASSUME ConfigType, NEW f \in File
  PROVE  /\ Saved(f) \in Document(f) /\ Saved(f).entry = memory[Mcp][f]
         /\ [disk EXCEPT ![f] = Saved(f)] \in Directory
<1>1. disk[f] \in Document(f) /\ disk \in Directory
  BY DirectoryHas DEF ConfigType
<1>2. memory[Mcp][f] \in Entries(f)
  BY Basics DEF ConfigType, Runtime
<1>3. Saved(f) \in Document(f)
  BY <1>1, <1>2, DocumentSet DEF Saved
<1>4. Saved(f).entry = memory[Mcp][f]
  BY <1>1 DEF Saved, Document
<1> QED BY <1>1, <1>3, <1>4, DirectorySet

(* A guarded save finds both files as the runtime was loaded from them.    *)
LEMMA GuardedSave ==
  ASSUME ConfigType, NEW f \in File, ~ Conflicts(ExpectedOf(TRUE, f), f)
  PROVE  disk[f] = revision[Mcp][f]
<1>1. revision[Mcp][f] # NoRevision
  BY Basics, DirectoryHas DEF ConfigType
<1> QED BY <1>1 DEF Conflicts, ExpectedOf

LEMMA SaveConfigKeeps ==
  ASSUME ManagerInv, NEW guarded \in BOOLEAN, SaveConfig(guarded)
  PROVE  ManagerInv'
<1> DEFINE q == [Idle EXCEPT !.pc = "second", !.op = "save", !.alone = TRUE,
                             !.fresh = guarded]
<1>0. ConfigType /\ Mcp \in Actor /\ ~ Loads(Mcp) /\ calls' \in Nat /\ handEdits' \in Nat
  BY Basics DEF ManagerInv, TypeInv, ConfigType, SaveConfig, At, Loads, LoadPhase, Call
<1>1. CASE GiveUp(Mcp)
  BY <1>0, <1>1, GiveUpKeeps
<1>2. CASE /\ \A f \in File : ~ Conflicts(ExpectedOf(guarded, f), f)
           /\ disk' = [disk EXCEPT !["users"] = Saved("users")]
           /\ lock' = {Mcp}
           /\ FilesChangedBy(Mcp, q)
           /\ UNCHANGED <<runtime, unsaved, met>>
  <2>1. q \in RequestType /\ q.pc = "second" /\ q.op = "save" /\ q.fresh = guarded
    <3>1. Idle \in RequestType /\ "second" \in Phase /\ "save" \in Op
      BY IdleIsRequest DEF Phase, Op
    <3> QED BY <3>1 DEF RequestType
  <2>2. FilesStep(Mcp, q)
    <3> HIDE DEF q
    <3> QED BY <1>0, <1>2, SavedDocument, Basics DEF FilesStep
  <2>3. OutsideLoad(Mcp, q)
    <3> HIDE DEF q
    <3> QED BY <1>0, <2>1 DEF OutsideLoad, LoadPhase, Unwritten
  <2>4. disk'["users"].entry = memory[Mcp]["users"] /\ disk'["settings"] = disk["settings"]
    <3>1. Saved("users").entry = memory[Mcp]["users"] /\ disk \in [File -> AnyDocument]
      BY <1>0, SavedDocument, Basics DEF ConfigType, Directory
    <3> QED BY <1>2, <3>1, Basics
  <2>5. guarded => disk["settings"] = revision[Mcp]["settings"]
    BY <1>0, <1>2, GuardedSave, Basics
  <2> HIDE DEF q
  <2> QED BY <2>1, <2>2, <2>3, <2>4, <2>5, FilesKeep
<1> QED BY <1>1, <1>2 DEF SaveConfig

LEMMA SaveSettingsKeeps ==
  ASSUME ManagerInv, SaveSettings
  PROVE  ManagerInv'
<1> DEFINE r == request[Mcp]
           q == [r EXCEPT !.pc = "pushUsers"]
<1>0. /\ ConfigType /\ Mcp \in Actor /\ r \in RequestType /\ r.pc = "second" /\ ~ Loads(Mcp)
  BY Basics DEF ManagerInv, TypeInv, ConfigType, SaveSettings, At, Loads, LoadPhase
<1>1. q \in RequestType /\ q.pc = "pushUsers" /\ q.op = r.op /\ q.alone = r.alone
  <2>1. "pushUsers" \in Phase
    BY DEF Phase
  <2> QED BY <1>0, <2>1 DEF RequestType
<1>2. FilesStep(Mcp, q)
  <2> HIDE DEF q
  <2> QED BY <1>0, SavedDocument, Basics
       DEF SaveSettings, FilesStep, ConfigType, counters, q
<1>3. r.alone => r.op = "save" /\ \A f \in File : disk'[f].entry = memory[Mcp][f]
  <2>1. Saved("settings").entry = memory[Mcp]["settings"] /\ disk \in [File -> AnyDocument]
    BY <1>0, SavedDocument, Basics DEF ConfigType, Directory
  <2>2. disk'["settings"].entry = memory[Mcp]["settings"] /\ disk'["users"] = disk["users"]
    BY <2>1, Basics DEF SaveSettings
  <2> QED BY <1>0, <2>2, Basics DEF ManagerInv, SecondInv
<1>4. memory' = memory
  BY DEF SaveSettings, runtime
<1>5. OutsideLoad(Mcp, q)
  <2> HIDE DEF q, r
  <2> QED BY <1>0, <1>1, <1>3, <1>4 DEF OutsideLoad, LoadPhase, WrittenTo
<1> HIDE DEF q
<1> QED BY <1>1, <1>2, <1>5, FilesKeep

LEMMA HandEditKeeps ==
  ASSUME ManagerInv, HandEdit
  PROVE  ManagerInv'
<1>1. Nobody \notin Actor
  BY Basics DEF Nobody
<1>2. Idle.pc = "idle" /\ Idle.op = "none"
  BY DEF Idle
<1>3. OutsideLoad(Nobody, Idle)
  BY <1>1, <1>2, IdleIsRequest DEF OutsideLoad, LoadPhase
<1> QED BY <1>1, <1>3, ByHandKeeps DEF HandEdit

LEMMA MemoryToolKeeps ==
  ASSUME ManagerInv, MemoryTool
  PROVE  ManagerInv'
<1>1. Absent \in Value /\ NextValue \in Value
  BY DEF Value, NextValue, ManagerInv, TypeInv, ConfigType
<1>2. Person \subseteq Entry /\ Client \subseteq Entry /\ Page \in Entry
  BY DEF Entry
<1>3. \E e \in Entry, v \in Value : EditInMemory(e, v)
  BY <1>1, <1>2
     DEF MemoryTool, CreateUserTool, UpdateUserTool, DeleteUserTool, CreateClientTool,
         UpdateClientTool, DeleteClientTool, UpdateSettingsTool
<1> QED BY <1>3, EditKeeps

-----------------------------------------------------------------------------
(* Loads                                                                   *)

(* A step of a's load is a start, one of a load under way, or its end.     *)
LEMMA LoadFacts ==
  ASSUME ManagerInv, NEW a \in Actor, Load(a)
  PROVE  /\ disk' = disk /\ page' = page /\ TypeInv'
         /\ \A b \in Actor : b # a =>
              /\ request'[b].pc = request[b].pc /\ request'[b].op = request[b].op
              /\ request'[b].entry = request[b].entry
              /\ request'[b].value = request[b].value
              /\ request'[b].carries = request[b].carries
              /\ request'[b].expected = request[b].expected
              /\ request'[b].fresh = request[b].fresh
              /\ request'[b].staged = request[b].staged
              /\ request'[b].previous = request[b].previous
              /\ request'[b].alone => request[b].alone
         /\ \A q \in Process : q # ProcessOf(a) =>
              /\ memory'[q] = memory[q] /\ revision'[q] = revision[q]
              /\ registry'[q] = registry[q] /\ applied'[q] = applied[q]
              /\ (q \in current' => q \in current) /\ (q \notin met' => q \notin met)
         /\ a # Mcp => unsaved' = unsaved
         /\ \/ request'[a] = Idle
            \/ /\ Loads(a)' /\ request'[a].op = request[a].op
               /\ request'[a].entry = request[a].entry
               /\ request'[a].value = request[a].value
               /\ request'[a].hookFailed = request[a].hookFailed
               /\ request'[a].alone => request[a].alone
         /\ \/ StartLoad(a) /\ ~ Loads(a)
            \/ Loads(a) /\ met' = met
<1> DEFINE r == request[a]
           p == ProcessOf(a)
<1>0. /\ ConfigType /\ r \in RequestType /\ p \in Process /\ TypeInv
      /\ \A b \in Actor : request[b] \in RequestType
  BY Basics DEF ManagerInv, TypeInv, ConfigType
<1>1. TypeInv'
  BY <1>0, LoadTypes
<1>2. disk' = disk /\ page' = page
  BY DEF Load, StartLoad, ReadSettings, ReadUsers, AdoptHooks, Register, AdoptSettings,
         AdoptUsers, AdoptFile, AdoptRevisions, files
<1>3. ASSUME NEW b \in Actor, b # a
      PROVE  request'[b] = request[b] \/ request'[b] = [request[b] EXCEPT !.alone = FALSE]
  <2>1. CASE StartLoad(a)
    BY <1>3, <2>1 DEF StartLoad, Restless
  <2>2. CASE ~ StartLoad(a)
    BY <1>0, <1>3, <2>2
       DEF Load, ReadSettings, ReadUsers, AdoptHooks, Register, AdoptSettings,
           AdoptUsers, AdoptFile, AdoptRevisions, LoadRaises, Becomes, ConfigType
  <2> QED BY <2>1, <2>2
<1>4. \A b \in Actor : b # a =>
        /\ request'[b].pc = request[b].pc /\ request'[b].op = request[b].op
        /\ request'[b].entry = request[b].entry
        /\ request'[b].value = request[b].value
        /\ request'[b].carries = request[b].carries
        /\ request'[b].expected = request[b].expected
        /\ request'[b].fresh = request[b].fresh
        /\ request'[b].staged = request[b].staged
        /\ request'[b].previous = request[b].previous
        /\ request'[b].alone => request[b].alone
  BY <1>0, <1>3 DEF RequestType
<1>5. ASSUME NEW q \in Process, q # p
      PROVE  /\ memory'[q] = memory[q] /\ revision'[q] = revision[q]
             /\ registry'[q] = registry[q] /\ applied'[q] = applied[q]
             /\ (q \in current' => q \in current) /\ (q \notin met' => q \notin met)
  BY <1>0, <1>5
     DEF Load, StartLoad, ReadSettings, ReadUsers, AdoptHooks, Register, AdoptSettings,
         AdoptUsers, AdoptFile, AdoptRevisions, runtime, history, ConfigType
<1>6. a # Mcp => unsaved' = unsaved
  BY Basics
     DEF Load, StartLoad, ReadSettings, ReadUsers, AdoptHooks, Register, AdoptSettings,
         AdoptUsers, AdoptFile, AdoptRevisions, history
<1>7. \/ request'[a] = Idle
      \/ /\ Loads(a)' /\ request'[a].op = r.op
         /\ request'[a].entry = r.entry /\ request'[a].value = r.value
         /\ request'[a].hookFailed = r.hookFailed
         /\ request'[a].alone => r.alone
  <2>1. CASE StartLoad(a)
    <3> DEFINE x == r.alone /\ Overlapped(a) = {}
    <3>1. request'[a] = [r EXCEPT !.pc = "readSettings", !.alone = x] /\ (x => r.alone)
      BY <2>1 DEF StartLoad
    <3> HIDE DEF x, r
    <3>2. /\ request'[a].pc = "readSettings" /\ request'[a].op = r.op
          /\ request'[a].entry = r.entry /\ request'[a].value = r.value
          /\ request'[a].hookFailed = r.hookFailed /\ request'[a].alone = x
      BY <1>0, <3>1 DEF RequestType
    <3> QED BY <3>1, <3>2 DEF Loads, LoadPhase, r
  <2>2. CASE ~ StartLoad(a)
    <3> DEFINE moves(q) == /\ q.pc \in LoadPhase /\ q.op = r.op
                           /\ q.entry = r.entry /\ q.value = r.value
                           /\ q.hookFailed = r.hookFailed /\ q.alone = r.alone
    <3>1. \E q : Becomes(a, q) /\ (q = Idle \/ moves(q))
      <4>1. \A ph \in {"readUsers", "adoptHooks"} : \A x :
              moves([r EXCEPT !.pc = ph, !.staged["settings"] = x])
              /\ moves([r EXCEPT !.pc = ph, !.staged["users"] = x])
        BY <1>0 DEF RequestType, LoadPhase
      <4>2. \A ph \in {"adoptSettings", "register"} : \A x :
              moves([r EXCEPT !.pc = ph, !.previous = x])
        BY <1>0 DEF RequestType, LoadPhase
      <4>3. \A ph \in {"adoptSettings", "adoptUsers", "adoptRevisions"} :
              moves([r EXCEPT !.pc = ph])
        BY <1>0 DEF RequestType, LoadPhase
      <4> HIDE DEF moves
      <4> QED BY <2>2, <4>1, <4>2, <4>3
           DEF Load, ReadSettings, ReadUsers, AdoptHooks, Register, AdoptSettings,
               AdoptUsers, AdoptFile, AdoptRevisions, LoadRaises
    <3>2. PICK q : Becomes(a, q) /\ (q = Idle \/ moves(q))
      BY <3>1
    <3>3. request'[a] = q
      BY <1>0, <3>2 DEF Becomes, ConfigType
    <3> QED BY <3>2, <3>3 DEF Loads
  <2> QED BY <2>1, <2>2
<1>8. \/ StartLoad(a) /\ ~ Loads(a)
      \/ Loads(a) /\ met' = met
  <2>1. StartLoad(a) => ~ Loads(a)
    BY DEF StartLoad, At, Loads, LoadPhase
  <2>2. ReadSettings(a) \/ ReadUsers(a) \/ AdoptHooks(a) \/ Register(a)
          => Loads(a) /\ met' = met
    BY DEF ReadSettings, ReadUsers, AdoptHooks, Register, At, Loads, LoadPhase, history
  <2>3. AdoptSettings(a) \/ AdoptUsers(a) \/ AdoptRevisions(a) => Loads(a) /\ met' = met
    BY DEF AdoptSettings, AdoptUsers, AdoptFile, AdoptRevisions, At, Loads, LoadPhase
  <2> QED BY <2>1, <2>2, <2>3 DEF Load
<1> QED BY <1>1, <1>2, <1>4, <1>5, <1>6, <1>7, <1>8

(* What each step of a's load does to the request, and to the runtime of   *)
(* its process.                                                            *)
Keeps(a) == request'[a].staged = request[a].staged /\ request'[a].alone = request[a].alone

LEMMA ReadSteps ==
  ASSUME ManagerInv, NEW a \in Actor
  PROVE  LET q == request'[a] IN
         /\ ReadSettings(a) =>
              /\ request[a].pc = "readSettings"
              /\ UNCHANGED <<runtime, history>>
              /\ \/ q = Idle
                 \/ /\ q.pc = "readUsers" /\ q.alone = request[a].alone
                    /\ q.staged["settings"] = disk["settings"]
         /\ ReadUsers(a) =>
              /\ request[a].pc = "readUsers"
              /\ UNCHANGED <<runtime, history>>
              /\ \/ q = Idle
                 \/ /\ q.pc = "adoptHooks" /\ q.alone = request[a].alone
                    /\ q.staged["users"] = disk["users"]
                    /\ q.staged["settings"] = request[a].staged["settings"]
<1> DEFINE r == request[a]
<1>0. /\ request \in [Actor -> RequestType] /\ r \in RequestType
      /\ "users" \in File /\ "settings" \in File
  BY Basics DEF ManagerInv, TypeInv, ConfigType
<1>1. ASSUME NEW q, Becomes(a, q) PROVE request'[a] = q
  BY <1>0, <1>1 DEF Becomes
<1>2. ASSUME ReadSettings(a)
      PROVE  \/ request'[a] = Idle
             \/ /\ request'[a].pc = "readUsers" /\ request'[a].alone = r.alone
                /\ request'[a].staged["settings"] = disk["settings"]
  <2> DEFINE q == [r EXCEPT !.pc = "readUsers", !.staged["settings"] = disk["settings"]]
  <2>1. q.pc = "readUsers" /\ q.alone = r.alone /\ q.staged["settings"] = disk["settings"]
    BY <1>0 DEF RequestType
  <2>2. Becomes(a, q) \/ Becomes(a, Idle)
    BY <1>2 DEF ReadSettings, LoadRaises
  <2> HIDE DEF q, r
  <2> QED BY <1>1, <2>1, <2>2
<1>3. ASSUME ReadUsers(a)
      PROVE  \/ request'[a] = Idle
             \/ /\ request'[a].pc = "adoptHooks" /\ request'[a].alone = r.alone
                /\ request'[a].staged["users"] = disk["users"]
                /\ request'[a].staged["settings"] = r.staged["settings"]
  <2> DEFINE q == [r EXCEPT !.pc = "adoptHooks", !.staged["users"] = disk["users"]]
  <2>1. /\ q.pc = "adoptHooks" /\ q.alone = r.alone /\ q.staged["users"] = disk["users"]
        /\ q.staged["settings"] = r.staged["settings"]
    BY <1>0 DEF RequestType
  <2>2. Becomes(a, q) \/ Becomes(a, Idle)
    BY <1>3 DEF ReadUsers, LoadRaises
  <2> HIDE DEF q, r
  <2> QED BY <1>1, <2>1, <2>2
<1>4. ReadSettings(a) => r.pc = "readSettings" /\ UNCHANGED <<runtime, history>>
  BY DEF ReadSettings, At
<1>5. ReadUsers(a) => r.pc = "readUsers" /\ UNCHANGED <<runtime, history>>
  BY DEF ReadUsers, At
<1> QED BY <1>2, <1>3, <1>4, <1>5

LEMMA HookSteps ==
  ASSUME ManagerInv, NEW a \in Actor
  PROVE  LET p == ProcessOf(a)
             q == request'[a] IN
         /\ AdoptHooks(a) =>
              /\ request[a].pc = "adoptHooks" /\ Keeps(a)
              /\ UNCHANGED <<memory, revision, history>> /\ applied' = applied
              /\ \/ /\ request[a].staged["settings"].hooks = applied[p]
                    /\ q.pc = "adoptSettings" /\ registry'[p] = registry[p]
                 \/ /\ request[a].staged["settings"].hooks # applied[p]
                    /\ q.pc = "register" /\ q.previous = registry[p]
                    /\ registry'[p] = << >>
         /\ Register(a) =>
              /\ request[a].pc = "register"
              /\ UNCHANGED <<memory, revision, history>>
              /\ \/ /\ q.pc = "adoptSettings" /\ Keeps(a)
                    /\ registry'[p] =
                         registry[p] \o Declared(request[a].staged["settings"].hooks)
                    /\ applied'[p] = request[a].staged["settings"].hooks
                 \/ /\ q = Idle /\ applied' = applied
                    /\ registry'[p] = request[a].previous
<1> DEFINE r == request[a]
           p == ProcessOf(a)
<1>0. /\ request \in [Actor -> RequestType] /\ r \in RequestType /\ p \in Process
      /\ registry \in [Process -> Seq(Declaration)] /\ applied \in [Process -> Declaration]
  BY Basics DEF ManagerInv, TypeInv, ConfigType
<1>1. ASSUME NEW q, Becomes(a, q) PROVE request'[a] = q
  BY <1>0, <1>1 DEF Becomes
<1>3. ASSUME NEW ph, request'[a] = [r EXCEPT !.pc = ph]
      PROVE  request'[a].pc = ph /\ Keeps(a)
  BY <1>0, <1>3 DEF RequestType, Keeps
<1>4. ASSUME NEW x, registry' = [registry EXCEPT ![p] = x] PROVE registry'[p] = x
  BY <1>0, <1>4
<1>5. ASSUME NEW x, applied' = [applied EXCEPT ![p] = x] PROVE applied'[p] = x
  BY <1>0, <1>5
<1>6. ASSUME AdoptHooks(a)
      PROVE  /\ r.pc = "adoptHooks" /\ Keeps(a)
             /\ UNCHANGED <<memory, revision, history>> /\ applied' = applied
             /\ \/ /\ r.staged["settings"].hooks = applied[p]
                   /\ request'[a].pc = "adoptSettings" /\ registry'[p] = registry[p]
                \/ /\ r.staged["settings"].hooks # applied[p]
                   /\ request'[a].pc = "register" /\ request'[a].previous = registry[p]
                   /\ registry'[p] = << >>
  <2>1. At(a, "adoptHooks") /\ UNCHANGED <<memory, revision, applied, history>>
    BY <1>6 DEF AdoptHooks
  <2>2. CASE r.staged["settings"].hooks = applied[p]
    <3>1. Becomes(a, [r EXCEPT !.pc = "adoptSettings"]) /\ registry' = registry
      BY <1>6, <2>2 DEF AdoptHooks
    <3> QED BY <1>1, <1>3, <2>1, <2>2, <3>1 DEF At
  <2>3. CASE r.staged["settings"].hooks # applied[p]
    <3>1. /\ Becomes(a, [r EXCEPT !.pc = "register", !.previous = registry[p]])
          /\ registry' = [registry EXCEPT ![p] = << >>]
      BY <1>6, <2>3 DEF AdoptHooks
    <3>2. request'[a] = [r EXCEPT !.pc = "register", !.previous = registry[p]]
      BY <1>1, <3>1
    <3>3. /\ request'[a].pc = "register" /\ request'[a].previous = registry[p]
          /\ Keeps(a)
      BY <1>0, <3>2 DEF RequestType, Keeps
    <3>4. registry'[p] = << >>
      BY <1>4, <3>1
    <3> QED BY <2>1, <2>3, <3>3, <3>4 DEF At
  <2> QED BY <2>2, <2>3
<1>7. ASSUME Register(a)
      PROVE  /\ r.pc = "register" /\ UNCHANGED <<memory, revision, history>>
             /\ \/ /\ request'[a].pc = "adoptSettings" /\ Keeps(a)
                   /\ registry'[p] = registry[p] \o Declared(r.staged["settings"].hooks)
                   /\ applied'[p] = r.staged["settings"].hooks
                \/ /\ request'[a] = Idle /\ applied' = applied
                   /\ registry'[p] = r.previous
  <2> DEFINE h == r.staged["settings"].hooks
  <2>1. At(a, "register") /\ UNCHANGED <<memory, revision, history>>
    BY <1>7 DEF Register
  <2>2. CASE /\ registry' = [registry EXCEPT ![p] = registry[p] \o Declared(h)]
             /\ applied' = [applied EXCEPT ![p] = h]
             /\ Becomes(a, [r EXCEPT !.pc = "adoptSettings", !.previous = << >>])
    <3>1. request'[a] = [r EXCEPT !.pc = "adoptSettings", !.previous = << >>]
      BY <1>1, <2>2
    <3>2. request'[a].pc = "adoptSettings" /\ Keeps(a)
      BY <1>0, <3>1 DEF RequestType, Keeps
    <3>3. registry'[p] = registry[p] \o Declared(h) /\ applied'[p] = h
      BY <1>4, <1>5, <2>2
    <3> QED BY <2>1, <3>2, <3>3 DEF At
  <2>3. CASE /\ registry' = [registry EXCEPT ![p] = r.previous]
             /\ Becomes(a, Idle) /\ applied' = applied
    BY <1>1, <1>4, <2>1, <2>3 DEF At
  <2> QED BY <1>7, <2>2, <2>3 DEF Register, LoadRaises
<1> QED BY <1>6, <1>7

LEMMA AdoptSteps ==
  ASSUME ManagerInv, NEW a \in Actor
  PROVE  LET p == ProcessOf(a) IN
         /\ \A f \in File : \A phase, then :
              AdoptFile(a, f, phase, then) =>
                /\ request[a].pc = phase /\ request'[a].pc = then /\ Keeps(a)
                /\ memory'[p][f] = request[a].staged[f].entry
                /\ \A g \in File : g # f => memory'[p][g] = memory[p][g]
                /\ unsaved' = (IF p = Mcp THEN unsaved \ {f} ELSE unsaved)
                /\ UNCHANGED <<revision, registry, applied, current, met>>
         /\ AdoptRevisions(a) =>
              /\ request[a].pc = "adoptRevisions" /\ request'[a] = Idle
              /\ revision'[p] = request[a].staged
              /\ current' = (IF request[a].alone THEN current \cup {p} ELSE current)
              /\ UNCHANGED <<memory, registry, applied, unsaved, met>>
<1> DEFINE r == request[a]
           p == ProcessOf(a)
<1>0. /\ request \in [Actor -> RequestType] /\ r \in RequestType /\ p \in Process
      /\ memory \in [Process -> Runtime] /\ revision \in [Process -> Directory]
      /\ memory[p] \in [File -> UNION {Entries(f) : f \in File}]
  BY Basics DEF ManagerInv, TypeInv, ConfigType, Runtime
<1>1. ASSUME NEW q, Becomes(a, q) PROVE request'[a] = q
  BY <1>0, <1>1 DEF Becomes
<1>2. ASSUME NEW f \in File, NEW phase, NEW then, AdoptFile(a, f, phase, then)
      PROVE  /\ r.pc = phase /\ request'[a].pc = then /\ Keeps(a)
             /\ memory'[p][f] = r.staged[f].entry
             /\ \A g \in File : g # f => memory'[p][g] = memory[p][g]
             /\ unsaved' = (IF p = Mcp THEN unsaved \ {f} ELSE unsaved)
             /\ UNCHANGED <<revision, registry, applied, current, met>>
  <2>1. Becomes(a, [r EXCEPT !.pc = then]) /\ r.pc = phase
    BY <1>2 DEF AdoptFile, At
  <2>2. request'[a] = [r EXCEPT !.pc = then]
    BY <1>1, <2>1
  <2>3. request'[a].pc = then /\ Keeps(a)
    BY <1>0, <2>2 DEF RequestType, Keeps
  <2>4. memory' = [memory EXCEPT ![p][f] = r.staged[f].entry]
    BY <1>2 DEF AdoptFile
  <2>5. memory'[p] = [memory[p] EXCEPT ![f] = r.staged[f].entry]
    BY <1>0, <2>4
  <2>6. /\ memory'[p][f] = r.staged[f].entry
        /\ \A g \in File : g # f => memory'[p][g] = memory[p][g]
    BY <1>0, <2>5
  <2> QED BY <1>2, <2>1, <2>3, <2>6 DEF AdoptFile
<1>3. AdoptRevisions(a) =>
        /\ r.pc = "adoptRevisions" /\ request'[a] = Idle
        /\ revision'[p] = r.staged
        /\ current' = (IF r.alone THEN current \cup {p} ELSE current)
        /\ UNCHANGED <<memory, registry, applied, unsaved, met>>
  BY <1>0, <1>1 DEF AdoptRevisions, At
<1> QED BY <1>2, <1>3

LEMMA StartStep ==
  ASSUME ManagerInv, NEW a \in Actor, StartLoad(a)
  PROVE  /\ request[a].pc = "load" /\ UNCHANGED <<runtime, unsaved, current>>
         /\ request'[a].pc = "readSettings" /\ request'[a].op = request[a].op
         /\ request'[a].entry = request[a].entry /\ request'[a].value = request[a].value
         /\ request'[a].alone => request[a].alone
         /\ request'[a].alone \/ ProcessOf(a) \notin met' =>
              \A b \in Actor : b # a /\ ProcessOf(b) = ProcessOf(a) => ~ Loads(b)
         /\ \A b \in Actor : b # a /\ ProcessOf(b) = ProcessOf(a) /\ Loads(b)
                               => ~ request'[b].alone
<1> DEFINE r == request[a]
           x == r.alone /\ Overlapped(a) = {}
<1>0. /\ request \in [Actor -> RequestType]
  BY DEF ManagerInv, TypeInv, ConfigType
<1>1. request'[a] = [r EXCEPT !.pc = "readSettings", !.alone = x]
  BY DEF StartLoad
<1>2. /\ request'[a].pc = "readSettings" /\ request'[a].op = r.op
      /\ request'[a].entry = r.entry /\ request'[a].value = r.value
      /\ request'[a].alone = x
  <2> HIDE DEF x
  <2> QED BY <1>0, <1>1 DEF RequestType
<1>3. \A b \in Actor : b # a /\ ProcessOf(b) = ProcessOf(a) /\ Loads(b)
                         => b \in Overlapped(a)
  BY DEF Overlapped, Loads
<1>4. ProcessOf(a) \notin met' => Overlapped(a) = {}
  BY DEF StartLoad
<1>5. ASSUME NEW b \in Overlapped(a) PROVE ~ request'[b].alone
  <2>1. b \in Actor /\ b # a
    BY DEF Overlapped
  <2>2. request'[b] = [request[b] EXCEPT !.alone = FALSE]
    BY <2>1 DEF StartLoad, Restless
  <2> QED BY <1>0, <2>1, <2>2 DEF RequestType
<1>6. request[a].pc = "load" /\ UNCHANGED <<runtime, unsaved, current>>
  BY DEF StartLoad, At
<1> QED BY <1>2, <1>3, <1>4, <1>5, <1>6

LEMMA LoadKeepsHooks ==
  ASSUME ManagerInv, NEW a \in Actor, Load(a)
  PROVE  HooksInv'
<1> DEFINE q == ProcessOf(a)
<1> SUFFICES ASSUME NEW p \in Process \ met' PROVE HooksOf(p)'
  BY DEF HooksInv
<1>0. /\ p \notin met /\ HooksOf(p) /\ q \in Process /\ TypeInv
      /\ \A b \in Actor : b # a =>
           /\ request'[b].pc = request[b].pc
           /\ request'[b].staged = request[b].staged
           /\ request'[b].previous = request[b].previous
      /\ \/ request'[a] = Idle
         \/ Loads(a)'
  <2>1. p # q => p \notin met
    BY LoadFacts
  <2>2. p = q => p \notin met
    <3>1. CASE StartLoad(a)
      BY <3>1 DEF StartLoad
    <3>2. CASE ~ StartLoad(a)
      BY <3>2, LoadFacts
    <3> QED BY <3>1, <3>2
  <2> QED BY <2>1, <2>2, LoadFacts, Basics DEF ManagerInv, HooksInv
<1>1. CASE p # q
  <2>1. \A b \in Actor : ProcessOf(b) = p => b # a
    BY <1>1
  <2>2. registry'[p] = registry[p] /\ applied'[p] = applied[p] /\ revision'[p] = revision[p]
    BY <1>1, LoadFacts
  <2> QED BY <1>0, <2>1, <2>2 DEF HooksOf, HooksAtRest, Loads, ProcessOf
<1>2. CASE p = q
  <2>1. \A b \in Actor : b # a /\ ProcessOf(b) = p => ~ Loads(b)
    <3>1. CASE StartLoad(a)
      BY <1>2, <3>1, StartStep
    <3>2. CASE ~ StartLoad(a)
      <4>1. Loads(a)
        BY <3>2, LoadFacts
      <4> QED BY <1>0, <1>2, <4>1 DEF HooksOf
    <3> QED BY <3>1, <3>2
  <2>2. \A b \in Actor :
          b # a /\ ProcessOf(b) = p => request[b].pc \notin Registering \cup Registered
    BY <2>1 DEF Loads, LoadPhase, Registering, Registered
  <2>3. \A b \in Actor :
          b # a /\ ProcessOf(b) = p => request'[b].pc \notin Registering \cup Registered
    BY <1>0, <2>2
  <2>4. \A b, c \in Actor :
          ProcessOf(b) = p /\ ProcessOf(c) = p /\ Loads(b)' /\ Loads(c)' => b = c
    BY <1>0, <2>1 DEF Loads
  <2>5. ASSUME request'[a].pc \notin Registering \cup Registered, HooksAtRest(p)'
        PROVE  HooksOf(p)'
    BY <2>3, <2>4, <2>5 DEF HooksOf, ProcessOf
  <2>6. ASSUME request'[a].pc \in Registering \cup Registered,
               request'[a].pc \in Registering =>
                 /\ registry'[p] = << >> /\ request'[a].previous = Declared(applied'[p])
                 /\ applied'[p] = revision'[p]["settings"].hooks
                 /\ applied'[p] # request'[a].staged["settings"].hooks,
               request'[a].pc \in Registered =>
                 /\ applied'[p] = request'[a].staged["settings"].hooks
                 /\ registry'[p] = Declared(applied'[p])
        PROVE  HooksOf(p)'
    BY <1>2, <2>3, <2>4, <2>6 DEF HooksOf, ProcessOf
  <2>7. ASSUME request[a].pc \notin Registering \cup Registered PROVE HooksAtRest(p)
    BY <1>0, <2>2, <2>7 DEF HooksOf
  <2>8. /\ Idle.pc \notin Registering \cup Registered
        /\ "readSettings" \notin Registering \cup Registered
        /\ "readUsers" \notin Registering \cup Registered
        /\ "adoptHooks" \notin Registering \cup Registered
        /\ "load" \notin Registering \cup Registered
        /\ "register" \in Registering /\ "register" \notin Registered
        /\ \A ph \in {"adoptSettings", "adoptUsers", "adoptRevisions"} :
             ph \in Registered /\ ph \notin Registering
    BY DEF Idle, Registering, Registered
  <2>9. CASE StartLoad(a)
    <3>1. /\ request'[a].pc = "readSettings" /\ request[a].pc = "load"
          /\ registry' = registry /\ applied' = applied /\ revision' = revision
      BY <2>9, StartStep DEF runtime
    <3> QED BY <2>5, <2>7, <2>8, <3>1 DEF HooksAtRest
  <2>10. CASE ReadSettings(a) \/ ReadUsers(a)
    <3>1. /\ registry' = registry /\ applied' = applied /\ revision' = revision
          /\ request[a].pc \in {"readSettings", "readUsers"}
          /\ request'[a] = Idle \/ request'[a].pc \in {"readUsers", "adoptHooks"}
      BY <2>10, ReadSteps DEF runtime
    <3> QED BY <2>5, <2>7, <2>8, <3>1 DEF HooksAtRest
  <2>11. CASE AdoptHooks(a)
    <3>1. HooksAtRest(p)
      BY <2>7, <2>8, <2>11, HookSteps
    <3>2. /\ applied' = applied /\ revision' = revision
          /\ request'[a].staged = request[a].staged
          /\ \/ /\ request[a].staged["settings"].hooks = applied[p]
                /\ request'[a].pc = "adoptSettings" /\ registry'[p] = registry[p]
             \/ /\ request[a].staged["settings"].hooks # applied[p]
                /\ request'[a].pc = "register" /\ request'[a].previous = registry[p]
                /\ registry'[p] = << >>
      BY <1>2, <2>11, HookSteps DEF Keeps
    <3> QED BY <2>6, <2>8, <3>1, <3>2 DEF HooksAtRest
  <2>12. CASE Register(a)
    <3>1. /\ request[a].pc = "register" /\ revision' = revision
          /\ \/ /\ request'[a].pc = "adoptSettings"
                /\ request'[a].staged = request[a].staged
                /\ registry'[p] =
                     registry[p] \o Declared(request[a].staged["settings"].hooks)
                /\ applied'[p] = request[a].staged["settings"].hooks
             \/ /\ request'[a] = Idle /\ applied' = applied
                /\ registry'[p] = request[a].previous
      BY <1>2, <2>12, HookSteps DEF Keeps
    <3>2. /\ registry[p] = << >> /\ request[a].previous = Declared(applied[p])
          /\ applied[p] = revision[p]["settings"].hooks
      BY <1>0, <1>2, <2>8, <3>1 DEF HooksOf
    <3>3. \A h : << >> \o Declared(h) = Declared(h)
      BY DEF Declared
    <3> QED BY <2>5, <2>6, <2>8, <3>1, <3>2, <3>3 DEF HooksAtRest
  <2>13. CASE AdoptSettings(a) \/ AdoptUsers(a)
    <3>1. /\ request[a].pc \in {"adoptSettings", "adoptUsers"}
          /\ request'[a].pc \in {"adoptUsers", "adoptRevisions"}
          /\ request'[a].staged = request[a].staged
          /\ registry' = registry /\ applied' = applied
      BY <2>13, AdoptSteps, Basics DEF AdoptSettings, AdoptUsers, Keeps
    <3>2. /\ applied[p] = request[a].staged["settings"].hooks
          /\ registry[p] = Declared(applied[p])
      BY <1>0, <1>2, <2>8, <3>1 DEF HooksOf
    <3> QED BY <2>6, <2>8, <3>1, <3>2
  <2>14. CASE AdoptRevisions(a)
    <3>1. /\ request[a].pc = "adoptRevisions" /\ request'[a] = Idle
          /\ revision'[p] = request[a].staged
          /\ registry' = registry /\ applied' = applied
      BY <1>2, <2>14, AdoptSteps
    <3>2. /\ applied[p] = request[a].staged["settings"].hooks
          /\ registry[p] = Declared(applied[p])
      BY <1>0, <1>2, <2>8, <3>1 DEF HooksOf
    <3> QED BY <2>5, <2>8, <3>1, <3>2 DEF HooksAtRest
  <2> QED BY <2>9, <2>10, <2>11, <2>12, <2>13, <2>14 DEF Load
<1> QED BY <1>1, <1>2

LEMMA LoadKeepsMemory ==
  ASSUME ManagerInv, NEW a \in Actor, Load(a)
  PROVE  MemoryInv'
<1> SUFFICES ASSUME NEW f \in File
             PROVE  IF request'[Mcp].pc \in HasAdopted(f)
                    THEN f \notin unsaved' /\ memory'[Mcp][f] = request'[Mcp].staged[f].entry
                    ELSE f \in unsaved' \/ memory'[Mcp][f] = revision'[Mcp][f].entry
  BY DEF MemoryInv, HasAdopted
<1>0. IF request[Mcp].pc \in HasAdopted(f)
      THEN f \notin unsaved /\ memory[Mcp][f] = request[Mcp].staged[f].entry
      ELSE f \in unsaved \/ memory[Mcp][f] = revision[Mcp][f].entry
  BY DEF ManagerInv, MemoryInv
<1>a. /\ \A ph \in {"idle", "load", "readSettings", "readUsers", "adoptHooks", "register",
                    "adoptSettings"} : ph \notin HasAdopted(f)
      /\ "adoptUsers" \in HasAdopted(f) <=> f = "settings"
      /\ "adoptRevisions" \in HasAdopted(f) /\ Idle.pc = "idle"
  BY DEF HasAdopted, Idle
<1>1. CASE a # Mcp
  BY <1>0, <1>1, LoadFacts, Basics
<1>2. CASE a = Mcp
  <2>0. ProcessOf(Mcp) = Mcp /\ Mcp \in Actor
    BY Basics
  <2>1. CASE StartLoad(a)
    <3>1. /\ request[a].pc = "load" /\ request'[a].pc = "readSettings"
          /\ memory' = memory /\ revision' = revision /\ unsaved' = unsaved
      BY <2>1, StartStep DEF runtime
    <3> QED BY <1>0, <1>2, <1>a, <3>1
  <2>2. CASE ReadSettings(a) \/ ReadUsers(a)
    <3>1. /\ memory' = memory /\ revision' = revision /\ unsaved' = unsaved
          /\ request[a].pc \in {"readSettings", "readUsers"}
          /\ request'[a].pc \in {"idle", "readUsers", "adoptHooks"}
      BY <1>a, <2>2, ReadSteps DEF runtime, history
    <3> QED BY <1>0, <1>2, <1>a, <3>1
  <2>3. CASE AdoptHooks(a) \/ Register(a)
    <3>1. /\ memory' = memory /\ revision' = revision /\ unsaved' = unsaved
          /\ request[a].pc \in {"adoptHooks", "register"}
          /\ request'[a].pc \in {"idle", "register", "adoptSettings"}
      BY <1>a, <2>3, HookSteps DEF history
    <3> QED BY <1>0, <1>2, <1>a, <3>1
  <2>4. CASE AdoptSettings(a)
    <3>1. /\ request[a].pc = "adoptSettings" /\ request'[a].pc = "adoptUsers"
          /\ request'[a].staged = request[a].staged
          /\ memory'[Mcp]["settings"] = request[a].staged["settings"].entry
          /\ f # "settings" => memory'[Mcp][f] = memory[Mcp][f]
          /\ unsaved' = unsaved \ {"settings"} /\ revision' = revision
      BY <1>2, <2>0, <2>4, AdoptSteps, Basics DEF AdoptSettings, Keeps
    <3> QED BY <1>0, <1>2, <1>a, <3>1
  <2>5. CASE AdoptUsers(a)
    <3>1. /\ request[a].pc = "adoptUsers" /\ request'[a].pc = "adoptRevisions"
          /\ request'[a].staged = request[a].staged
          /\ memory'[Mcp]["users"] = request[a].staged["users"].entry
          /\ f # "users" => memory'[Mcp][f] = memory[Mcp][f]
          /\ unsaved' = unsaved \ {"users"} /\ revision' = revision
      BY <1>2, <2>0, <2>5, AdoptSteps, Basics DEF AdoptUsers, Keeps
    <3> QED BY <1>0, <1>2, <1>a, <3>1, Basics
  <2>6. CASE AdoptRevisions(a)
    <3>1. /\ request[a].pc = "adoptRevisions" /\ request'[a] = Idle
          /\ revision'[Mcp] = request[a].staged
          /\ memory' = memory /\ unsaved' = unsaved
      BY <1>2, <2>0, <2>6, AdoptSteps
    <3> QED BY <1>0, <1>2, <1>a, <3>1
  <2> QED BY <2>1, <2>2, <2>3, <2>4, <2>5, <2>6 DEF Load
<1> QED BY <1>1, <1>2

(* A loader that has read only what the files say goes on doing so.        *)
LEMMA ReadStaysDisk ==
  ASSUME ManagerInv, NEW a \in Actor, Load(a), Loads(a) => ReadIsDisk(a)
  PROVE  ReadIsDisk(a)'
<1> SUFFICES ASSUME NEW f \in File, request'[a].pc \in HasRead(f)
             PROVE  request'[a].staged[f] = disk'[f]
  BY DEF ReadIsDisk, HasRead
<1>a. /\ \A ph \in {"idle", "readSettings"} : ph \notin HasRead(f)
      /\ Idle.pc = "idle" /\ disk' = disk
      /\ "readUsers" \in HasRead(f) <=> f = "settings"
      /\ \A ph \in {"adoptHooks", "register", "adoptSettings", "adoptUsers"} :
           ph \in HasRead(f) /\ ph \in LoadPhase
      /\ "readUsers" \in LoadPhase
  BY LoadFacts DEF Idle, HasRead, Registering, Registered, LoadPhase
<1>1. CASE StartLoad(a)
  BY <1>a, <1>1, StartStep
<1>2. CASE ReadSettings(a)
  BY <1>a, <1>2, ReadSteps
<1>3. CASE ReadUsers(a)
  <2>1. request[a].pc = "readUsers" /\ request[a].staged["settings"] = disk["settings"]
    <3>1. request[a].pc = "readUsers"
      BY <1>3, ReadSteps
    <3>2. "readUsers" \in HasRead("settings")
      BY DEF HasRead
    <3> QED BY <1>a, <3>1, <3>2, Basics DEF ReadIsDisk, Loads
  <2> QED BY <1>a, <1>3, <2>1, ReadSteps, Basics
<1>4. CASE AdoptHooks(a) \/ Register(a)
  <2>1. /\ request[a].pc \in {"adoptHooks", "register"}
        /\ request'[a].pc = "idle" \/ request'[a].staged = request[a].staged
    BY <1>a, <1>4, HookSteps DEF Keeps
  <2> QED BY <1>a, <2>1 DEF ReadIsDisk, Loads
<1>5. CASE AdoptSettings(a) \/ AdoptUsers(a)
  <2>1. /\ request[a].pc \in {"adoptSettings", "adoptUsers"}
        /\ request'[a].staged = request[a].staged
    BY <1>5, AdoptSteps, Basics DEF AdoptSettings, AdoptUsers, Keeps
  <2> QED BY <1>a, <2>1 DEF ReadIsDisk, Loads
<1>6. CASE AdoptRevisions(a)
  BY <1>a, <1>6, AdoptSteps
<1> QED BY <1>1, <1>2, <1>3, <1>4, <1>5, <1>6 DEF Load

(* What a loader promotes, where it promotes anything.                     *)
LEMMA Promotes ==
  ASSUME ManagerInv, NEW a \in Actor, Load(a), NEW f \in File
  PROVE  /\ \/ memory'[ProcessOf(a)][f] = memory[ProcessOf(a)][f]
            \/ /\ memory'[ProcessOf(a)][f] = request[a].staged[f].entry
               /\ request[a].pc \in HasRead(f) /\ Loads(a)
         /\ request'[a].pc \in HasAdopted(f) =>
              \/ /\ memory'[ProcessOf(a)][f] = request[a].staged[f].entry
                 /\ request[a].pc \in HasRead(f) /\ Loads(a)
              \/ /\ request[a].pc \in HasAdopted(f) /\ Loads(a)
                 /\ memory'[ProcessOf(a)][f] = memory[ProcessOf(a)][f]
<1> DEFINE p == ProcessOf(a)
<1>a. /\ \A ph \in {"idle", "readSettings", "readUsers", "adoptHooks", "register",
                    "adoptSettings"} : ph \notin HasAdopted(f)
      /\ "adoptUsers" \in HasAdopted(f) <=> f = "settings"
      /\ \A ph \in {"adoptSettings", "adoptUsers"} : ph \in HasRead(f) /\ ph \in LoadPhase
      /\ Idle.pc = "idle"
  BY DEF HasAdopted, HasRead, Registered, Idle, LoadPhase
<1>1. CASE StartLoad(a)
  BY <1>1, <1>a, StartStep DEF runtime
<1>2. CASE ReadSettings(a) \/ ReadUsers(a)
  BY <1>2, <1>a, ReadSteps DEF runtime
<1>3. CASE AdoptHooks(a) \/ Register(a)
  BY <1>3, <1>a, HookSteps
<1>4. CASE AdoptSettings(a)
  <2>1. /\ request[a].pc = "adoptSettings" /\ request'[a].pc = "adoptUsers"
        /\ memory'[p]["settings"] = request[a].staged["settings"].entry
        /\ f # "settings" => memory'[p][f] = memory[p][f]
    BY <1>4, AdoptSteps, Basics DEF AdoptSettings
  <2> QED BY <1>a, <2>1 DEF Loads
<1>5. CASE AdoptUsers(a)
  <2>1. /\ request[a].pc = "adoptUsers" /\ request'[a].pc = "adoptRevisions"
        /\ memory'[p]["users"] = request[a].staged["users"].entry
        /\ f # "users" => memory'[p][f] = memory[p][f]
    BY <1>5, AdoptSteps, Basics DEF AdoptUsers
  <2>2. f = "users" \/ f = "settings"
    BY Basics
  <2> QED BY <1>a, <2>1, <2>2 DEF Loads
<1>6. CASE AdoptRevisions(a)
  BY <1>6, <1>a, AdoptSteps
<1> QED BY <1>1, <1>2, <1>3, <1>4, <1>5, <1>6 DEF Load

LEMMA LoadKeepsAlone ==
  ASSUME ManagerInv, NEW a \in Actor, Load(a)
  PROVE  AloneInv'
<1> DEFINE p == ProcessOf(a)
<1> SUFFICES ASSUME NEW b \in Actor, Loads(b)', request'[b].alone
             PROVE  /\ \A c \in Actor : ProcessOf(c) = ProcessOf(b) /\ Loads(c)' => c = b
                    /\ ReadIsDisk(b)'
                    /\ \A f \in File :
                         request'[b].pc \in HasAdopted(f) =>
                           memory'[ProcessOf(b)][f] = disk'[f].entry
  BY DEF AloneInv, HasAdopted, ProcessOf
<1>0. /\ disk' = disk /\ \A c \in Actor : ProcessOf(c) \in Process
      /\ \A c \in Actor : c # a =>
           /\ request'[c].pc = request[c].pc /\ request'[c].staged = request[c].staged
           /\ request'[c].alone => request[c].alone
      /\ \A q \in Process : q # p => memory'[q] = memory[q]
  BY LoadFacts, Basics
<1>1. \A c \in Actor : c # a => (Loads(c)' <=> Loads(c))
  BY <1>0 DEF Loads
<1>2. CASE b # a
  <2>1. /\ Loads(b) /\ request[b].alone
        /\ \A c \in Actor : ProcessOf(c) = ProcessOf(b) /\ Loads(c) => c = b
        /\ ReadIsDisk(b)
        /\ \A f \in File :
             request[b].pc \in HasAdopted(f) => memory[ProcessOf(b)][f] = disk[f].entry
    BY <1>0, <1>1, <1>2 DEF ManagerInv, AloneInv
  <2>2. ProcessOf(b) # p
    <3> SUFFICES ASSUME ProcessOf(b) = p PROVE FALSE
      OBVIOUS
    <3>1. CASE StartLoad(a)
      BY <1>2, <2>1, <3>1, StartStep
    <3>2. CASE ~ StartLoad(a)
      BY <1>2, <2>1, <3>2, LoadFacts
    <3> QED BY <3>1, <3>2
  <2>3. ReadIsDisk(b)'
    BY <1>0, <1>2, <2>1 DEF ReadIsDisk, HasRead
  <2>4. memory'[ProcessOf(b)] = memory[ProcessOf(b)]
    BY <1>0, <2>2
  <2> QED BY <1>0, <1>1, <1>2, <2>1, <2>2, <2>3, <2>4
<1>3. CASE b = a
  <2>1. request[a].alone
    <3>1. request'[a] # Idle
      BY <1>3 DEF Idle, Loads, LoadPhase
    <3> QED BY <1>3, <3>1, LoadFacts
  <2>2. \A c \in Actor : c # a /\ ProcessOf(c) = p => ~ Loads(c)
    <3>1. CASE StartLoad(a)
      BY <1>3, <3>1, StartStep
    <3>2. CASE ~ StartLoad(a)
      <4>1. Loads(a)
        BY <3>2, LoadFacts
      <4> QED BY <2>1, <4>1 DEF ManagerInv, AloneInv
    <3> QED BY <3>1, <3>2
  <2>3. Loads(a) => ReadIsDisk(a)
    BY <2>1 DEF ManagerInv, AloneInv
  <2>4. ReadIsDisk(a)'
    BY <2>3, ReadStaysDisk
  <2>5. ASSUME NEW f \in File, request'[a].pc \in HasAdopted(f)
        PROVE  memory'[p][f] = disk[f].entry
    <3>1. CASE /\ memory'[p][f] = request[a].staged[f].entry
               /\ request[a].pc \in HasRead(f) /\ Loads(a)
      BY <2>3, <3>1 DEF ReadIsDisk
    <3>2. CASE /\ request[a].pc \in HasAdopted(f) /\ Loads(a)
               /\ memory'[p][f] = memory[p][f]
      BY <2>1, <3>2 DEF ManagerInv, AloneInv
    <3> QED BY <2>5, <3>1, <3>2, Promotes
  <2> QED BY <1>0, <1>1, <1>3, <2>2, <2>4, <2>5
<1> QED BY <1>2, <1>3

LEMMA LoadKeepsCurrent ==
  ASSUME ManagerInv, NEW a \in Actor, Load(a)
  PROVE  CurrentInv'
<1> DEFINE p == ProcessOf(a)
<1> SUFFICES ASSUME NEW q \in current'
             PROVE  /\ revision'[q] = disk'
                    /\ \A f \in File :
                         (q = Mcp /\ f \in unsaved') \/ memory'[q][f] = disk'[f].entry
                    /\ \A b \in Actor : ProcessOf(b) = q /\ Loads(b)' => ReadIsDisk(b)'
  BY DEF CurrentInv, ProcessOf
<1>0. /\ disk' = disk /\ p \in Process /\ q \in Process /\ TypeInv /\ TypeInv'
      /\ \A c \in Actor : c # a =>
           request'[c].pc = request[c].pc /\ request'[c].staged = request[c].staged
  BY LoadFacts, Basics DEF ManagerInv, TypeInv, ConfigType
<1>1. ASSUME NEW b \in Actor, b # a, Loads(b)', ReadIsDisk(b) PROVE ReadIsDisk(b)'
  BY <1>0, <1>1 DEF ReadIsDisk, HasRead
<1>2. CASE q # p
  <2>1. /\ q \in current /\ memory'[q] = memory[q] /\ revision'[q] = revision[q]
        /\ q = Mcp => unsaved' = unsaved
    BY <1>0, <1>2, LoadFacts, Basics
  <2>2. \A b \in Actor : ProcessOf(b) = q => b # a /\ (Loads(b)' => Loads(b))
    BY <1>0, <1>2 DEF Loads
  <2>3. \A b \in Actor : ProcessOf(b) = q /\ Loads(b)' => ReadIsDisk(b)'
    BY <1>1, <2>1, <2>2 DEF ManagerInv, CurrentInv
  <2> QED BY <1>0, <2>1, <2>3 DEF ManagerInv, CurrentInv
<1>3. CASE q = p /\ q \in current
  <2>1. /\ revision[p] = disk
        /\ \A f \in File : (p = Mcp /\ f \in unsaved) \/ memory[p][f] = disk[f].entry
        /\ \A b \in Actor : ProcessOf(b) = p /\ Loads(b) => ReadIsDisk(b)
    BY <1>3 DEF ManagerInv, CurrentInv
  <2>2. Loads(a) => ReadIsDisk(a)
    BY <2>1
  <2>3. ReadIsDisk(a)'
    BY <2>2, ReadStaysDisk
  <2>4. \A b \in Actor : ProcessOf(b) = p /\ Loads(b)' => ReadIsDisk(b)'
    <3>1. \A b \in Actor : b # a => (Loads(b)' => Loads(b))
      BY <1>0 DEF Loads
    <3> QED BY <1>1, <2>1, <2>3, <3>1
  <2>5. ASSUME NEW f \in File
        PROVE  (p = Mcp /\ f \in unsaved') \/ memory'[p][f] = disk[f].entry
    <3>1. CASE /\ memory'[p][f] = request[a].staged[f].entry
               /\ request[a].pc \in HasRead(f) /\ Loads(a)
      BY <2>2, <3>1 DEF ReadIsDisk
    <3>2. CASE memory'[p][f] = memory[p][f] /\ f \notin unsaved
      BY <2>1, <3>2
    <3>3. CASE memory'[p][f] = memory[p][f] /\ memory[p][f] = disk[f].entry
      BY <3>3
    <3>4. CASE memory'[p][f] = memory[p][f] /\ p = Mcp /\ f \in unsaved /\ f \notin unsaved'
      <4>1. \/ AdoptSettings(a) /\ unsaved' = unsaved \ {"settings"}
               /\ memory'[p]["settings"] = request[a].staged["settings"].entry
               /\ request[a].pc = "adoptSettings"
            \/ AdoptUsers(a) /\ unsaved' = unsaved \ {"users"}
               /\ memory'[p]["users"] = request[a].staged["users"].entry
               /\ request[a].pc = "adoptUsers"
            \/ unsaved' = unsaved
        <5>1. AdoptSettings(a) =>
                /\ unsaved' = unsaved \ {"settings"} /\ request[a].pc = "adoptSettings"
                /\ memory'[p]["settings"] = request[a].staged["settings"].entry
          BY <3>4, AdoptSteps, Basics DEF AdoptSettings
        <5>2. AdoptUsers(a) =>
                /\ unsaved' = unsaved \ {"users"} /\ request[a].pc = "adoptUsers"
                /\ memory'[p]["users"] = request[a].staged["users"].entry
          BY <3>4, AdoptSteps, Basics DEF AdoptUsers
        <5>3. StartLoad(a) \/ AdoptRevisions(a) => unsaved' = unsaved
          BY StartStep, AdoptSteps
        <5>4. ReadSettings(a) \/ ReadUsers(a) \/ AdoptHooks(a) \/ Register(a)
                => unsaved' = unsaved
          BY ReadSteps, HookSteps DEF history
        <5> QED BY <5>1, <5>2, <5>3, <5>4 DEF Load
      <4>2. \A g \in File : "adoptSettings" \in HasRead(g) /\ "adoptUsers" \in HasRead(g)
        BY DEF HasRead, Registered
      <4>3. /\ request[a].pc \in {"adoptSettings", "adoptUsers"}
            /\ memory'[p][f] = request[a].staged[f].entry
        BY <3>4, <4>1
      <4> QED BY <2>2, <4>2, <4>3 DEF ReadIsDisk, Loads, LoadPhase
    <3> QED BY <2>1, <3>1, <3>2, <3>3, <3>4, Promotes
  <2>6. revision'[p] = disk
    <3>1. CASE AdoptRevisions(a)
      <4>1. revision'[p] = request[a].staged /\ request[a].pc = "adoptRevisions"
        BY <3>1, AdoptSteps
      <4>2. \A f \in File : "adoptRevisions" \in HasRead(f)
        BY DEF HasRead, Registered
      <4>3. \A f \in File : request[a].staged[f] = disk[f]
        BY <2>2, <4>1, <4>2 DEF ReadIsDisk, Loads, LoadPhase
      <4>4. request[a].staged \in [File -> Revision] /\ disk \in [File -> AnyDocument]
        BY <1>0 DEF TypeInv, ConfigType, RequestType, Directory
      <4> QED BY <4>1, <4>3, <4>4
    <3>2. CASE ~ AdoptRevisions(a)
      <4>1. revision' = revision
        <5>1. StartLoad(a) \/ ReadSettings(a) \/ ReadUsers(a) => revision' = revision
          BY StartStep, ReadSteps DEF runtime
        <5>2. AdoptHooks(a) \/ Register(a) => revision' = revision
          BY HookSteps
        <5>3. AdoptSettings(a) \/ AdoptUsers(a) => revision' = revision
          BY AdoptSteps, Basics DEF AdoptSettings, AdoptUsers
        <5> QED BY <3>2, <5>1, <5>2, <5>3 DEF Load
      <4> QED BY <2>1, <4>1
    <3> QED BY <3>1, <3>2
  <2> QED BY <1>0, <1>3, <2>4, <2>5, <2>6
<1>4. CASE q = p /\ q \notin current
  <2>1. AdoptRevisions(a) /\ request[a].alone
    <3>1. StartLoad(a) \/ ReadSettings(a) \/ ReadUsers(a) => current' = current
      BY StartStep, ReadSteps DEF history
    <3>2. AdoptHooks(a) \/ Register(a) => current' = current
      BY HookSteps DEF history
    <3>3. AdoptSettings(a) \/ AdoptUsers(a) => current' = current
      BY AdoptSteps, Basics DEF AdoptSettings, AdoptUsers
    <3>4. AdoptRevisions(a) /\ ~ request[a].alone => current' = current
      BY AdoptSteps
    <3> QED BY <1>4, <3>1, <3>2, <3>3, <3>4 DEF Load
  <2>2. /\ request[a].pc = "adoptRevisions" /\ Loads(a)
        /\ revision'[p] = request[a].staged /\ memory' = memory /\ request'[a] = Idle
    BY <2>1, AdoptSteps DEF Loads, LoadPhase
  <2>3. \A f \in File : "adoptRevisions" \in HasRead(f) /\ "adoptRevisions" \in HasAdopted(f)
    BY DEF HasRead, HasAdopted, Registered
  <2>4. /\ \A b \in Actor : ProcessOf(b) = p /\ Loads(b) => b = a
        /\ \A f \in File : request[a].staged[f] = disk[f] /\ memory[p][f] = disk[f].entry
    BY <2>1, <2>2, <2>3 DEF ManagerInv, AloneInv, ReadIsDisk
  <2>5. request[a].staged = disk
    <3>1. request[a].staged \in [File -> Revision] /\ disk \in [File -> AnyDocument]
      BY <1>0 DEF TypeInv, ConfigType, RequestType, Directory
    <3> QED BY <2>4, <3>1
  <2>6. \A b \in Actor : ProcessOf(b) = p => ~ Loads(b)'
    <3>1. ~ Loads(a)'
      BY <2>2 DEF Loads, Idle, LoadPhase
    <3> QED BY <1>0, <2>4, <3>1 DEF Loads
  <2> QED BY <1>0, <1>4, <2>2, <2>4, <2>5, <2>6
<1> QED BY <1>2, <1>3, <1>4

LEMMA LoadKeepsWritten ==
  ASSUME ManagerInv, NEW a \in Actor, Load(a)
  PROVE  WrittenInv'
<1> SUFFICES ASSUME NEW b \in Actor
             PROVE  /\ request'[b].op = "save" => b = Mcp
                    /\ request'[b].pc = "pull" => request'[b].op = "reload"
                    /\ request'[b].alone /\ request'[b].pc \notin Unwritten
                         => WrittenTo(disk', memory', request'[b])
  BY DEF WrittenInv, Unwritten, WrittenTo, FileOf
<1>0. /\ request[b].op = "save" => b = Mcp
      /\ request[b].pc = "pull" => request[b].op = "reload"
      /\ request[b].alone /\ request[b].pc \notin Unwritten
           => WrittenTo(disk, memory, request[b])
  BY DEF ManagerInv, WrittenInv
<1>1. disk' = disk /\ (a # Mcp => memory'[Mcp] = memory[Mcp])
  BY LoadFacts, Basics
<1>2. CASE b # a
  <2>1. /\ request'[b].pc = request[b].pc /\ request'[b].op = request[b].op
        /\ request'[b].entry = request[b].entry /\ request'[b].value = request[b].value
        /\ request'[b].alone => request[b].alone
    BY <1>2, LoadFacts
  <2>2. request[b].op = "save" => memory'[Mcp] = memory[Mcp]
    BY <1>0, <1>1, <1>2
  <2> QED BY <1>0, <1>1, <2>1, <2>2 DEF WrittenTo
<1>3. CASE b = a
  <2>1. CASE request'[a] = Idle
    BY <1>3, <2>1 DEF Idle, Unwritten
  <2>2. CASE request'[a] # Idle
    <3>1. /\ Loads(a)' /\ request'[a].op = request[a].op
          /\ request'[a].entry = request[a].entry
          /\ request'[a].value = request[a].value
          /\ request'[a].alone => request[a].alone
      BY <2>2, LoadFacts
    <3>2. request[a].pc \notin Unwritten
      <4>1. StartLoad(a) => request[a].pc = "load"
        BY DEF StartLoad, At
      <4>2. ~ StartLoad(a) => Loads(a)
        BY LoadFacts
      <4> QED BY <4>1, <4>2 DEF Loads, LoadPhase, Unwritten
    <3>3. request'[a].pc # "pull"
      BY <3>1 DEF Loads, LoadPhase
    <3>4. ASSUME request'[a].alone, request[a].op = "save", NEW f \in File
          PROVE  disk[f].entry = memory'[Mcp][f]
      <4>1. disk[f].entry = memory[Mcp][f] /\ ProcessOf(a) = Mcp
        BY <1>0, <1>3, <3>1, <3>2, <3>4, Basics DEF WrittenTo
      <4>2. Loads(a) => ReadIsDisk(a)
        BY <3>1, <3>4 DEF ManagerInv, AloneInv
      <4> QED BY <4>1, <4>2, Promotes DEF ReadIsDisk
    <3> QED BY <1>0, <1>1, <1>3, <3>1, <3>2, <3>3, <3>4 DEF WrittenTo
  <2> QED BY <2>1, <2>2
<1> QED BY <1>2, <1>3

LEMMA LoadKeepsRest ==
  ASSUME ManagerInv, NEW a \in Actor, Load(a)
  PROVE  SecondInv' /\ PageInv' /\ CarriesInv'
<1>0. disk' = disk /\ page' = page
  BY LoadFacts
<1>1. request'[a] = Idle \/ Loads(a)'
  BY LoadFacts
<1>2. request'[a].pc # "second" /\ request'[a].pc # "write"
  BY <1>1 DEF Idle, Loads, LoadPhase
<1>3. SecondInv'
  <2>1. CASE a = Mcp
    BY <1>2, <2>1 DEF SecondInv
  <2>2. CASE a # Mcp
    <3>1. /\ request'[Mcp].pc = request[Mcp].pc /\ request'[Mcp].op = request[Mcp].op
          /\ request'[Mcp].fresh = request[Mcp].fresh
          /\ request'[Mcp].alone => request[Mcp].alone
          /\ memory'[Mcp] = memory[Mcp] /\ revision'[Mcp] = revision[Mcp]
      BY <2>2, LoadFacts, Basics
    <3> QED BY <1>0, <3>1 DEF ManagerInv, SecondInv
  <2> QED BY <2>1, <2>2
<1>4. PageInv'
  BY <1>0 DEF ManagerInv, PageInv
<1>5. CarriesInv'
  <2> SUFFICES ASSUME NEW s \in Session, request'[s].pc = "write", request'[s].fresh
        PROVE  /\ request'[s].expected # NoRevision
               /\ \A v \in request'[s].carries :
                    v = request'[s].expected.entry[request'[s].entry]
    BY DEF CarriesInv, At
  <2>1. s \in Actor /\ s # a
    BY <1>2, Basics
  <2>2. /\ request'[s].pc = request[s].pc /\ request'[s].fresh = request[s].fresh
        /\ request'[s].entry = request[s].entry
        /\ request'[s].expected = request[s].expected
        /\ request'[s].carries = request[s].carries
    BY <2>1, LoadFacts
  <2> QED BY <2>2 DEF ManagerInv, CarriesInv, At
<1> QED BY <1>3, <1>4, <1>5

LEMMA LoadKeeps ==
  ASSUME ManagerInv, NEW a \in Actor, Load(a)
  PROVE  ManagerInv'
BY LoadFacts, LoadKeepsHooks, LoadKeepsMemory, LoadKeepsAlone, LoadKeepsCurrent,
   LoadKeepsWritten, LoadKeepsRest DEF ManagerInv

-----------------------------------------------------------------------------
(* The invariant                                                           *)

LEMMA InitHolds == Init => ManagerInv
<1> SUFFICES ASSUME Init PROVE ManagerInv
  OBVIOUS
<1>1. PICK h \in Declaration :
        disk = [f \in File |->
                  [entry |-> [e \in EntryOf(f) |-> 0],
                   hooks |-> IF f = "settings" THEN h ELSE NoHooks, bad |-> FALSE]]
  BY DEF Init
<1>2. disk \in Directory
  <2>1. \A f \in File : disk[f] \in Document(f)
    BY <1>1, ManagerAssumption DEF Document, Entries, Value
  <2>2. disk = [f \in File |-> disk[f]]
    BY <1>1
  <2> QED BY <2>1, <2>2 DEF Directory, AnyDocument
<1>3. \A f \in File : disk[f].entry \in Entries(f) /\ disk[f].hooks \in Declaration
  BY <1>2, DirectoryHas, DocumentSet
<1>4. /\ memory = [p \in Process |-> [f \in File |-> disk[f].entry]]
      /\ revision = [p \in Process |-> disk]
      /\ registry = [p \in Process |-> Declared(disk["settings"].hooks)]
      /\ applied = [p \in Process |-> disk["settings"].hooks]
      /\ request = [b \in Actor |-> Idle] /\ page = [s \in Session |-> NoPage]
      /\ lock = {} /\ calls = 0 /\ handEdits = 0
      /\ unsaved = {} /\ current = Process /\ met = {}
  BY DEF Init
<1>5. /\ Idle.pc = "idle" /\ Idle.pc \notin LoadPhase /\ Idle.op = "none"
      /\ Idle.pc \in Unwritten
      /\ \A f \in File : Idle.pc \notin HasRead(f) /\ Idle.pc \notin HasAdopted(f)
      /\ Idle.pc \notin Registering \cup Registered
  BY DEF Idle, LoadPhase, Unwritten, HasRead, HasAdopted, Registering, Registered
<1>6. TypeInv
  <2>1. [f \in File |-> disk[f].entry] \in Runtime
    BY <1>3 DEF Runtime
  <2>2. \A x \in Declaration : Declared(x) \in Seq(Declaration)
    BY DEF Declared
  <2>3. ConfigType
    BY <1>2, <1>3, <1>4, <2>1, <2>2, Basics, IdleIsRequest DEF ConfigType
  <2>4. StagedOK
    BY <1>4, <1>5 DEF StagedOK
  <2> QED BY <2>3, <2>4 DEF TypeInv
<1>7. \A b \in Actor : request[b] = Idle /\ ~ Loads(b)
  BY <1>4, <1>5 DEF Loads
<1>8. HooksInv
  BY <1>4, <1>5, <1>7 DEF HooksInv, HooksOf, HooksAtRest
<1>9. MemoryInv
  BY <1>4, <1>5, <1>7, Basics DEF MemoryInv
<1>10. AloneInv /\ CurrentInv
  BY <1>4, <1>7 DEF AloneInv, CurrentInv
<1>11. WrittenInv /\ SecondInv
  BY <1>5, <1>7, Basics DEF WrittenInv, SecondInv
<1>12. PageInv /\ CarriesInv
  <2>1. \A s \in Session : request[s].pc = "idle" /\ page[s] = NoPage
    BY <1>4, <1>5, <1>7, Basics
  <2> QED BY <2>1 DEF PageInv, CarriesInv, At
<1> QED BY <1>6, <1>8, <1>9, <1>10, <1>11, <1>12 DEF ManagerInv

LEMMA StepKeeps == ManagerInv /\ [Next]_vars => ManagerInv'
<1> SUFFICES ASSUME ManagerInv, [Next]_vars PROVE ManagerInv'
  OBVIOUS
<1>1. ASSUME NEW a \in Actor, Proceed(a) PROVE ManagerInv'
  <2>1. CASE Load(a)
    BY <2>1, LoadKeeps
  <2>2. CASE PushUsers(a)
    BY <2>2, PushKeeps DEF PushUsers
  <2>3. CASE PushSettings(a)
    BY <2>3, PushKeeps DEF PushSettings
  <2>4. CASE Pull(a) \/ PullFails(a)
    BY <2>4, PullKeeps
  <2> QED BY <1>1, <2>1, <2>2, <2>3, <2>4 DEF Proceed
<1>2. ASSUME NEW a \in Caller \cup {Mcp}, Reload(a) PROVE ManagerInv'
  BY <1>2, ReloadKeeps, Basics
<1>3. ASSUME NEW s \in Session, Show(s) \/ Handle(s) \/ AtomicWrite(s) PROVE ManagerInv'
  BY <1>3, ShowKeeps, HandleKeeps, AtomicWriteKeeps
<1>4. ASSUME NEW guarded \in BOOLEAN, SaveConfig(guarded) PROVE ManagerInv'
  BY <1>4, SaveConfigKeeps
<1>5. CASE MemoryTool \/ SaveSettings \/ HandEdit
  BY <1>5, MemoryToolKeeps, SaveSettingsKeeps, HandEditKeeps
<1>6. CASE UNCHANGED vars
  <2>1. /\ UNCHANGED <<files, runtime, request, counters, history>> /\ page' = page
        /\ disk' = disk
    BY <1>6 DEF vars, files
  <2> QED BY <2>1, PageUnchanged, PagesKeep
<1> QED BY <1>1, <1>2, <1>3, <1>4, <1>5, <1>6 DEF Next, Rest

LEMMA Inductive == Spec => []ManagerInv
BY InitHolds, StepKeeps, PTL DEF Spec

-----------------------------------------------------------------------------
(* Who moves a request.                                                    *)
LEMMA WhoMoves ==
  ASSUME ManagerInv, [Next]_vars, NEW a \in Actor, request'[a].pc # request[a].pc
  PROVE  \/ Proceed(a) \/ Reload(a)
         \/ a \in Session /\ (Handle(a) \/ AtomicWrite(a))
         \/ a = Mcp /\ (SaveSettings \/ \E guarded \in BOOLEAN : SaveConfig(guarded))
<1>0. request \in [Actor -> RequestType]
  BY DEF ManagerInv, TypeInv, ConfigType
<1>1. ASSUME NEW b, NEW r, Becomes(b, r) PROVE b = a
  BY <1>0, <1>1 DEF Becomes
<1>2. ASSUME NEW b, NEW r, FilesChangedBy(b, r) PROVE b = a
  <2> SUFFICES ASSUME b # a PROVE FALSE
    OBVIOUS
  <2>1. request'[a] = [request[a] EXCEPT !.alone = FALSE]
    BY <1>2 DEF FilesChangedBy, Restless
  <2> QED BY <1>0, <2>1 DEF RequestType
<1>3. request' # request
  OBVIOUS
<1>4. ASSUME NEW b, NEW r, ByHand(b, r) PROVE b = a
  BY <1>2, <1>4 DEF ByHand
<1>5. ASSUME NEW b \in Actor, Proceed(b) PROVE Proceed(a)
  <2>1. CASE Load(b)
    <3>1. b = a
      BY <2>1, LoadFacts
    <3> QED BY <1>5, <3>1
  <2>2. ASSUME NEW phase, NEW then, Push(b, phase, then) PROVE b = a
    BY <1>1, <1>4, <2>2 DEF Push
  <2>3. CASE PushUsers(b) \/ PushSettings(b)
    <3>1. b = a
      BY <2>2, <2>3 DEF PushUsers, PushSettings
    <3> QED BY <1>5, <3>1
  <2>4. CASE Pull(b) \/ PullFails(b)
    <3>1. b = a
      BY <1>1, <1>4, <2>4 DEF Pull, PullFails
    <3> QED BY <1>5, <3>1
  <2> QED BY <1>5, <2>1, <2>3, <2>4 DEF Proceed
<1>6. ASSUME NEW b \in Caller \cup {Mcp}, Reload(b) PROVE Reload(a)
  <2>1. b = a
    BY <1>1, <1>6 DEF Reload
  <2> QED BY <1>6, <2>1
<1>7. ASSUME NEW s \in Session, Show(s) PROVE FALSE
  BY <1>3, <1>7
     DEF Show, UserCreateForm, UserEditForm, ClientCreateForm, ClientEditForm,
         ClientsList, SettingsForm, ClaimsForm, Draw, Stamp
<1>8. ASSUME NEW s \in Session, Handle(s) PROVE s = a /\ Handle(a)
  <2>1. ASSUME NEW op, NEW e, NEW value, NEW carries, NEW expected, NEW fresh,
               Submit(s, op, e, value, carries, expected, fresh)
        PROVE  s = a
    BY <1>1, <2>1 DEF Submit
  <2>2. ASSUME NEW op, NEW e, NEW value, NEW kept, Post(s, op, e, value, kept)
        PROVE  s = a
    BY <2>1, <2>2 DEF Post
  <2>3. ASSUME Refuse(s) PROVE s = a
    BY <1>1, <2>3 DEF Refuse
  <2>4. ASSUME NEW e, Edit(s, e) PROVE s = a
    BY <2>2, <2>3, <2>4 DEF Edit
  <2>5. s = a
    BY <1>8, <2>1, <2>2, <2>3, <2>4
       DEF Handle, UserCreate, UserEdit, UserDelete, ClientCreate, ClientEdit,
           ClientDelete, RegenerateSecret, SettingsPost, ClaimsPost
  <2> QED BY <1>8, <2>5
<1>9. ASSUME NEW s \in Session, AtomicWrite(s) PROVE s = a /\ AtomicWrite(a)
  <2>1. s = a
    BY <1>1, <1>2, <1>9 DEF AtomicWrite, GiveUp
  <2> QED BY <1>9, <2>1
<1>10. ASSUME SaveSettings \/ \E guarded \in BOOLEAN : SaveConfig(guarded) PROVE a = Mcp
  BY <1>1, <1>2, <1>10 DEF SaveSettings, SaveConfig, GiveUp
<1>11. ASSUME MemoryTool PROVE FALSE
  <2>1. \E e, v : EditInMemory(e, v)
    BY <1>11
       DEF MemoryTool, CreateUserTool, UpdateUserTool, DeleteUserTool, CreateClientTool,
           UpdateClientTool, DeleteClientTool, UpdateSettingsTool
  <2> QED BY <1>3, <2>1 DEF EditInMemory
<1>12. ASSUME HandEdit PROVE FALSE
  <2>1. Nobody = a
    BY <1>4, <1>12 DEF HandEdit
  <2> QED BY <2>1, Basics DEF Nobody
<1>13. ~ UNCHANGED vars
  BY <1>3 DEF vars
<1> QED BY <1>5, <1>6, <1>7, <1>8, <1>9, <1>10, <1>11, <1>12, <1>13 DEF Next, Rest

(* Where each of a request's own steps begins.                             *)
LEMMA StepsBegin ==
  ASSUME NEW a
  PROVE  /\ Load(a) => request[a].pc \in LoadPhase \cup {"load"}
         /\ PushUsers(a) \/ PushSettings(a) => request[a].pc \in {"pushUsers", "pushSettings"}
         /\ Pull(a) \/ PullFails(a) => request[a].pc = "pull"
         /\ Reload(a) => request[a].pc = "idle"
         /\ AtomicWrite(a) => request[a].pc = "write"
         /\ Handle(a) => request[a].pc = "idle"
         /\ SaveSettings => request[Mcp].pc = "second"
         /\ \A guarded \in BOOLEAN : SaveConfig(guarded) => request[Mcp].pc = "idle"
<1>1. Load(a) => request[a].pc \in LoadPhase \cup {"load"}
  BY DEF Load, StartLoad, ReadSettings, ReadUsers, AdoptHooks, Register, AdoptSettings,
         AdoptUsers, AdoptFile, AdoptRevisions, At, LoadPhase
<1>2. PushUsers(a) \/ PushSettings(a) => request[a].pc \in {"pushUsers", "pushSettings"}
  BY DEF PushUsers, PushSettings, Push, At
<1>3. Pull(a) \/ PullFails(a) => request[a].pc = "pull"
  BY DEF Pull, PullFails, At
<1>4. /\ Reload(a) => request[a].pc = "idle"
      /\ AtomicWrite(a) => request[a].pc = "write"
  BY DEF Reload, AtomicWrite, At
<1>5. Handle(a) => request[a].pc = "idle"
  BY DEF Handle, UserCreate, UserEdit, UserDelete, ClientCreate, ClientEdit, ClientDelete,
         RegenerateSecret, SettingsPost, ClaimsPost, Edit, Post, At
<1>6. /\ SaveSettings => request[Mcp].pc = "second"
      /\ \A guarded \in BOOLEAN : SaveConfig(guarded) => request[Mcp].pc = "idle"
  BY DEF SaveSettings, SaveConfig, At
<1> QED BY <1>1, <1>2, <1>3, <1>4, <1>5, <1>6

(* The end of a load that nothing disturbed.                               *)
LEMMA AloneAdopts ==
  ASSUME ManagerInv, NEW a \in Actor, AdoptRevisions(a), request[a].alone
  PROVE  /\ revision'[ProcessOf(a)] = disk
         /\ \A f \in File : memory'[ProcessOf(a)][f] = disk[f].entry
<1>1. /\ request[a].pc = "adoptRevisions" /\ Loads(a) /\ memory' = memory
      /\ revision'[ProcessOf(a)] = request[a].staged
  BY AdoptSteps DEF Loads, LoadPhase
<1>2. \A f \in File : "adoptRevisions" \in HasRead(f) /\ "adoptRevisions" \in HasAdopted(f)
  BY DEF HasRead, HasAdopted, Registered
<1>3. \A f \in File : /\ request[a].staged[f] = disk[f]
                      /\ memory[ProcessOf(a)][f] = disk[f].entry
  BY <1>1, <1>2 DEF ManagerInv, AloneInv, ReadIsDisk
<1>4. request[a].staged \in [File -> Revision] /\ disk \in [File -> AnyDocument]
  BY DEF ManagerInv, TypeInv, ConfigType, RequestType, Directory
<1> QED BY <1>1, <1>3, <1>4

LEMMA SavedUnchanged ==
  ASSUME ConfigType, NEW f \in File, memory[Mcp][f] = disk[f].entry
  PROVE  Saved(f) = disk[f]
<1>1. disk[f] \in Document(f)
  BY DirectoryHas DEF ConfigType
<1> QED BY <1>1 DEF Saved, Document

-----------------------------------------------------------------------------
(* Every variable has its type, as much of a load staged as has been read. *)
THEOREM TypeCorrect == Spec => []ConfigType
<1>1. ManagerInv => ConfigType
  BY DEF ManagerInv, TypeInv
<1> QED BY Inductive, <1>1, PTL

(* A runtime loaded alone and from files that have not changed since has   *)
(* what they say, while other loads of it run or fail, for any number of   *)
(* them (config.py, _load_config).                                         *)
THEOREM RuntimesAreCurrent == Spec => []QuietRuntimeIsCurrent
<1>1. ManagerInv => QuietRuntimeIsCurrent
  <2> SUFFICES ASSUME ManagerInv, NEW p \in current
               PROVE  /\ revision[p] = disk
                      /\ \A f \in File :
                           (p = Mcp /\ f \in unsaved) \/ memory[p][f] = disk[f].entry
                      /\ p \notin met => registry[p] = Declared(disk["settings"].hooks)
    BY DEF QuietRuntimeIsCurrent
  <2>1. /\ revision[p] = disk
        /\ \A f \in File : (p = Mcp /\ f \in unsaved) \/ memory[p][f] = disk[f].entry
        /\ \A a \in Actor : ProcessOf(a) = p /\ Loads(a) => ReadIsDisk(a)
    BY DEF ManagerInv, CurrentInv
  <2>2. ASSUME p \notin met PROVE registry[p] = Declared(disk["settings"].hooks)
    <3>1. HooksOf(p)
      BY <2>2 DEF ManagerInv, TypeInv, ConfigType, HooksInv
    <3>2. CASE \A a \in Actor :
                 ProcessOf(a) = p => request[a].pc \notin Registering \cup Registered
      BY <2>1, <3>1, <3>2 DEF HooksOf, HooksAtRest
    <3>3. ASSUME NEW a \in Actor, ProcessOf(a) = p,
                 request[a].pc \in Registering \cup Registered
          PROVE  registry[p] = Declared(disk["settings"].hooks)
      <4>1. Loads(a) /\ request[a].pc \in HasRead("settings")
        BY <3>3 DEF Loads, LoadPhase, HasRead, Registering, Registered
      <4>2. request[a].staged["settings"] = disk["settings"]
        BY <2>1, <3>3, <4>1, Basics DEF ReadIsDisk
      <4> QED BY <2>1, <3>1, <3>3, <4>2 DEF HooksOf
    <3> QED BY <3>2, <3>3
  <2> QED BY <2>1, <2>2
<1> QED BY Inductive, <1>1, PTL

(* A process two loads of which never overlapped runs the hooks of the     *)
(* settings.yaml it has loaded, after failed loads too (hooks.py,          *)
(* replace_source).                                                        *)
THEOREM HooksAreThoseLoaded == Spec => []HooksFollowSettings
<1>1. ManagerInv => HooksFollowSettings
  <2> SUFFICES ASSUME ManagerInv, NEW p \in Process \ met, ~ Loading(p)
               PROVE  HooksAtRest(p)
    BY DEF HooksFollowSettings, HooksAtRest
  <2>1. \A a \in Actor :
          ProcessOf(a) = p => request[a].pc \notin Registering \cup Registered
    BY DEF Loading, LoadPhase, Registering, Registered
  <2> QED BY <2>1 DEF ManagerInv, HooksInv, HooksOf
<1> QED BY Inductive, <1>1, PTL

(* What the MCP server holds differs from what it loaded only in the files *)
(* its tools changed, whatever loads failed in between.                    *)
THEOREM OnlyEditsDiffer == Spec => []OnlyUnsavedEditsDiffer
<1>1. ManagerInv => OnlyUnsavedEditsDiffer
  <2> SUFFICES ASSUME ManagerInv, ~ Loading(Mcp), NEW f \in File \ unsaved
               PROVE  memory[Mcp][f] = revision[Mcp][f].entry
    BY DEF OnlyUnsavedEditsDiffer
  <2>1. request[Mcp].pc \notin HasAdopted(f)
    BY Basics DEF Loading, LoadPhase, HasAdopted
  <2> QED BY <2>1 DEF ManagerInv, MemoryInv
<1> QED BY Inductive, <1>1, PTL

(* A save with a revision finds what it replaces as the MCP server loaded  *)
(* it, in both files, however long the session (handlers_config.py).       *)
THEOREM GuardedSavesAreSafe == Spec => GuardedSavesLoseNothing
<1> DEFINE A == \A f \in File :
                  /\ disk'[f] # disk[f]
                  /\ \/ request'[Mcp].pc = "second" /\ At(Mcp, "idle")
                     \/ request'[Mcp].pc = "pushUsers" /\ At(Mcp, "second") /\ request[Mcp].alone
                  /\ request'[Mcp].fresh
                  => f \in unsaved /\ disk[f].entry = revision[Mcp][f].entry
<1>1. ManagerInv /\ [Next]_vars => A
  <2> SUFFICES ASSUME ManagerInv, [Next]_vars, NEW f \in File, disk'[f] # disk[f],
                      \/ request'[Mcp].pc = "second" /\ At(Mcp, "idle")
                      \/ /\ request'[Mcp].pc = "pushUsers" /\ At(Mcp, "second")
                         /\ request[Mcp].alone,
                      request'[Mcp].fresh
               PROVE  f \in unsaved /\ disk[f].entry = revision[Mcp][f].entry
    OBVIOUS
  <2>0. ConfigType /\ Mcp \in Actor /\ disk \in [File -> AnyDocument]
        /\ request \in [Actor -> RequestType]
    BY Basics DEF ManagerInv, TypeInv, ConfigType, Directory
  <2>1. request[Mcp].pc # request'[Mcp].pc /\ request[Mcp].pc \in {"idle", "second"}
    BY DEF At
  <2>2. SaveSettings \/ \E guarded \in BOOLEAN : SaveConfig(guarded)
    <3>1. ~ Proceed(Mcp)
      BY <2>1, StepsBegin DEF Proceed, LoadPhase
    <3>2. ~ Reload(Mcp)
      BY DEF Reload, files
    <3> QED BY <2>0, <2>1, <3>1, <3>2, WhoMoves, Basics
  <2>3. ASSUME disk[f] = revision[Mcp][f], disk'[f] = Saved(f)
        PROVE  f \in unsaved /\ disk[f].entry = revision[Mcp][f].entry
    <3>1. request[Mcp].pc \notin HasAdopted(f)
      BY <2>1 DEF HasAdopted
    <3>2. f \in unsaved \/ memory[Mcp][f] = revision[Mcp][f].entry
      BY <3>1 DEF ManagerInv, MemoryInv
    <3> QED BY <2>0, <2>3, <3>2, SavedUnchanged
  <2>4. CASE SaveSettings
    <3>1. f = "settings" /\ disk'[f] = Saved(f)
      BY <2>0, <2>4, Basics DEF SaveSettings
    <3>2. request'[Mcp].fresh = request[Mcp].fresh
      <4>1. request'[Mcp] = [request[Mcp] EXCEPT !.pc = "pushUsers"]
        BY <2>0, <2>4 DEF SaveSettings, FilesChangedBy
      <4> QED BY <2>0, <4>1 DEF RequestType
    <3>3. request[Mcp].pc = "second" /\ request[Mcp].alone
      BY <2>4 DEF SaveSettings, At
    <3> QED BY <2>3, <3>1, <3>2, <3>3 DEF ManagerInv, SecondInv
  <2>5. ASSUME NEW guarded \in BOOLEAN, SaveConfig(guarded)
        PROVE  f \in unsaved /\ disk[f].entry = revision[Mcp][f].entry
    <3>1. ~ GiveUp(Mcp)
      BY DEF GiveUp, files
    <3>2. /\ \A g \in File : ~ Conflicts(ExpectedOf(guarded, g), g)
          /\ disk' = [disk EXCEPT !["users"] = Saved("users")]
          /\ FilesChangedBy(Mcp, [Idle EXCEPT
               !.pc = "second", !.op = "save", !.alone = TRUE, !.fresh = guarded])
      BY <2>5, <3>1 DEF SaveConfig
    <3>3. request'[Mcp].fresh = guarded
      <4>1. request'[Mcp] = [Idle EXCEPT
              !.pc = "second", !.op = "save", !.alone = TRUE, !.fresh = guarded]
        BY <2>0, <3>2 DEF FilesChangedBy
      <4> QED BY <4>1, IdleIsRequest DEF RequestType
    <3>4. f = "users" /\ disk'[f] = Saved(f)
      BY <2>0, <3>2, Basics
    <3>5. disk[f] = revision[Mcp][f]
      BY <2>0, <3>2, <3>3, GuardedSave
    <3> QED BY <2>3, <3>4, <3>5
  <2> QED BY <2>2, <2>4, <2>5
<1>2. ManagerInv /\ [Next]_vars => [A]_vars
  BY <1>1
<1> QED BY Inductive, <1>2, PTL DEF Spec, GuardedSavesLoseNothing

(* Whatever a caller is told of its save or reload is so, for any number   *)
(* of other requests (config.py, save and reload).                         *)
THEOREM CallersHearTheTruth == Spec => AnswersAreTrue
<1> DEFINE A == \A a \in Actor :
                  Ends(a) /\ request[a].alone /\ Answer(request[a]) # "failed" =>
                    LET r == request[a]
                        p == ProcessOf(a) IN
                    /\ CASE r.op = "reload" -> TRUE
                         [] r.op = "save" -> \A f \in File : disk[f].entry = memory[Mcp][f]
                         [] OTHER -> disk[FileOf(r.entry)].entry[r.entry] = r.value
                    /\ At(a, "adoptRevisions") =>
                         /\ revision'[p] = disk
                         /\ \A f \in File : memory'[p][f] = disk[f].entry
<1>1. ManagerInv /\ [Next]_vars => A
  <2> SUFFICES ASSUME ManagerInv, [Next]_vars, NEW a \in Actor,
                      request[a].pc \in LoadPhase, request'[a].pc = "idle",
                      request[a].alone
               PROVE  /\ WrittenTo(disk, memory, request[a])
                      /\ At(a, "adoptRevisions") =>
                           /\ revision'[ProcessOf(a)] = disk
                           /\ \A f \in File : memory'[ProcessOf(a)][f] = disk[f].entry
    BY DEF WrittenTo, Ends
  <2>1. WrittenTo(disk, memory, request[a])
    BY DEF ManagerInv, WrittenInv, LoadPhase, Unwritten
  <2>2. Proceed(a)
    <3>1. request[a].pc \notin {"idle", "write", "second"}
      BY DEF LoadPhase
    <3> QED BY <3>1, WhoMoves, StepsBegin
  <2>3. ASSUME At(a, "adoptRevisions") PROVE AdoptRevisions(a)
    <3>1. Load(a)
      BY <2>2, <2>3, StepsBegin DEF Proceed, At
    <3> QED BY <2>3, <3>1
         DEF Load, StartLoad, ReadSettings, ReadUsers, AdoptHooks, Register,
             AdoptSettings, AdoptUsers, AdoptFile, At
  <2> QED BY <2>1, <2>3, AloneAdopts
<1>2. ManagerInv /\ [Next]_vars => [A]_vars
  BY <1>1
<1> QED BY Inductive, <1>2, PTL DEF Spec, AnswersAreTrue

(* A form that shows the files as they are replaces no value but the one   *)
(* it was made from, whatever else is saved between the page and its       *)
(* submission (routes/ui.py, config_writer.py).                            *)
THEOREM FormsAreSafe == Spec => CurrentFormsLoseNothing
<1> DEFINE A == \A s \in Session :
                  At(s, "write") /\ request'[s].pc \in {"pushUsers", "pushSettings"}
                    /\ request[s].fresh =>
                    \A v \in request[s].carries :
                       v = disk[FileOf(request[s].entry)].entry[request[s].entry]
<1>1. ManagerInv /\ [Next]_vars => A
  <2> SUFFICES ASSUME ManagerInv, [Next]_vars, NEW s \in Session, At(s, "write"),
                      request'[s].pc \in {"pushUsers", "pushSettings"}, request[s].fresh,
                      NEW v \in request[s].carries
               PROVE  v = disk[FileOf(request[s].entry)].entry[request[s].entry]
    OBVIOUS
  <2> DEFINE r == request[s]
  <2>1. s \in Actor /\ r.pc = "write" /\ s # Mcp
    BY Basics DEF At
  <2>2. AtomicWrite(s)
    <3>1. request[s].pc \notin LoadPhase \cup {"load", "pushUsers", "pushSettings", "pull", "idle"}
      BY <2>1 DEF LoadPhase
    <3> QED BY <2>1, <3>1, WhoMoves, StepsBegin DEF Proceed
  <2>3. ~ GiveUp(s)
    BY <2>1 DEF GiveUp, Becomes, Idle, ManagerInv, TypeInv, ConfigType
  <2>4. ~ Conflicts(r.expected, FileOf(r.entry))
    BY <2>2, <2>3 DEF AtomicWrite
  <2>5. r.expected # NoRevision /\ v = r.expected.entry[r.entry]
    BY DEF ManagerInv, CarriesInv
  <2> QED BY <2>4, <2>5 DEF Conflicts
<1>2. ManagerInv /\ [Next]_vars => [A]_vars
  BY <1>1
<1> QED BY Inductive, <1>2, PTL DEF Spec, CurrentFormsLoseNothing
=============================================================================
