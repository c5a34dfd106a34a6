----------------------------- MODULE ConfigWriter ----------------------------
(***************************************************************************)
(* config_writer.py: compare_and_replace_many, under which ConfigManager   *)
(* and YamlWriter change the files of a configuration directory, with its  *)
(* two locks - _write_lock, one per process, and an advisory lock file per *)
(* directory, polled until a deadline - and the requests, threads of       *)
(* several processes, that call it.                                        *)
(*                                                                         *)
(* The content of a file is the sequence of the requests whose mutation it *)
(* carries, and stands for its revision too: the revision is a hash of the *)
(* content.  The mutation of a request adds the request to the document it *)
(* is given.  One write of a file is one step (os.replace); between two    *)
(* steps of a request any step of another may come, its process may die    *)
(* (the kernel drops its locks) or hang.                                   *)
(***************************************************************************)
EXTENDS Integers, Sequences, FiniteSets

CONSTANTS
  Request,      \* the calls of compare_and_replace_many
  Process,
  ProcessOf,    \* ProcessOf[r]: where the thread of r runs
  File,
  Dir,          \* directories, numbered as their paths sort
  DirOf,        \* DirOf[f]: the parent of f
  Items,        \* Items[r]: the paths of the batch, in order
  Any,          \* expected_revision None: write unconditionally
  None

FilesOf(r) == {Items[r][i] : i \in 1..Len(Items[r])}
DirsOf(r) == {DirOf[f] : f \in FilesOf(r)}

Outcome == {"written", "conflict", "unavailable", "refused", "failed", "lost"}

(* A batch that repeats a path is a ValueError before anything happens.    *)
ASSUME WriterAssumption ==
  /\ ProcessOf \in [Request -> Process]
  /\ Dir \subseteq Nat
  /\ DirOf \in [File -> Dir]
  /\ \A r \in Request :
       /\ Items[r] \in Seq(File) /\ Len(Items[r]) > 0
       /\ \A i, j \in 1..Len(Items[r]) : Items[r][i] = Items[r][j] => i = j
  /\ None \notin Request
  /\ None \notin Outcome

VARIABLES
  disk,         \* disk[f]: the content of f
  expected,     \* expected[r][f]: the revision r passes for f
  at,           \* at[r]: the phase r is in
  next,         \* next[r]: the item of the phase it is at
  loaded,       \* loaded[r][f]: the document of r for f
  threadLock,   \* threadLock[p]: the request that holds p's _write_lock
  fileLock,     \* fileLock[d]: the requests that hold the lock of d
  stuck,        \* the processes that hang
  outcome       \* outcome[r]: what its caller is told

locks == <<threadLock, fileLock>>
vars == <<disk, expected, at, next, loaded, threadLock, fileLock, stuck, outcome>>

Working == {"check", "load", "write"}
Section == {"lock", "leave"} \cup Working
Phase == {"idle", "wait", "end"} \cup Section
Blank == [f \in File |-> << >>]
Unconditional == [f \in File |-> Any]

Init ==
  /\ disk = [f \in File |-> << >>]
  /\ expected = [r \in Request |-> Unconditional]
  /\ at = [r \in Request |-> "idle"]
  /\ next = [r \in Request |-> 1]
  /\ loaded = [r \in Request |-> Blank]
  /\ threadLock = [p \in Process |-> None]
  /\ fileLock = [d \in Dir |-> {}]
  /\ stuck = {}
  /\ outcome = [r \in Request |-> None]

-----------------------------------------------------------------------------
Held(r) == {d \in Dir : r \in fileLock[d]}
Missing(r) == DirsOf(r) \ Held(r)
Live(r) == ProcessOf[r] \notin stuck
Item(r) == Items[r][next[r]]

GoTo(r, phase) == at' = [at EXCEPT ![r] = phase]

(* What the section ends with: the arguments and locals of the call are    *)
(* gone, the locks still held.                                             *)
Answer(r, o) ==
  /\ GoTo(r, "leave")
  /\ outcome' = [outcome EXCEPT ![r] = o]
  /\ expected' = [expected EXCEPT ![r] = Unconditional]
  /\ next' = [next EXCEPT ![r] = 1]
  /\ loaded' = [loaded EXCEPT ![r] = Blank]

(* The next item of the same pass, or the first of the next pass.          *)
OnTo(r, phase) ==
  IF next[r] < Len(Items[r])
  THEN next' = [next EXCEPT ![r] = @ + 1] /\ at' = at
  ELSE next' = [next EXCEPT ![r] = 1] /\ GoTo(r, phase)

-----------------------------------------------------------------------------
(* current_revision: a caller reads the revision of a file, without lock,  *)
(* and keeps it (in a form, in the answer of a tool) for its later call.   *)
Look(r, f) ==
  /\ at[r] = "idle" /\ Live(r) /\ f \in FilesOf(r)
  /\ expected' = [expected EXCEPT ![r][f] = disk[f]]
  /\ UNCHANGED <<disk, at, next, loaded, locks, stuck, outcome>>

Begin(r) ==
  /\ at[r] = "idle" /\ Live(r)
  /\ GoTo(r, "wait")
  /\ UNCHANGED <<disk, expected, next, loaded, locks, stuck, outcome>>

TakeThreadLockUnchecked(r) ==
  /\ at[r] = "wait" /\ Live(r)
  /\ threadLock' = [threadLock EXCEPT ![ProcessOf[r]] = r]
  /\ GoTo(r, "lock")
  /\ UNCHANGED <<disk, expected, next, loaded, fileLock, stuck, outcome>>

TakeThreadLock(r) ==
  /\ at[r] = "wait" /\ Live(r)
  /\ threadLock[ProcessOf[r]] = None
  /\ threadLock' = [threadLock EXCEPT ![ProcessOf[r]] = r]
  /\ GoTo(r, "lock")
  /\ UNCHANGED <<disk, expected, next, loaded, fileLock, stuck, outcome>>

-----------------------------------------------------------------------------
(* The directories in the order of their paths.  A lock keeps out other    *)
(* processes; whether it keeps out a thread of its holder's process        *)
(* depends on the platform, so nothing is assumed of that.                 *)
NextDirAnyOrder(r, d) == d \in Missing(r)

NextDir(r, d) == d \in Missing(r) /\ \A e \in Missing(r) : d <= e

Available(r, d) == \A s \in fileLock[d] : ProcessOf[s] = ProcessOf[r]

TakeFileLock(r, d) ==
  /\ at[r] = "lock" /\ Live(r)
  /\ NextDir(r, d) /\ Available(r, d)
  /\ fileLock' = [fileLock EXCEPT ![d] = @ \cup {r}]
  /\ at' = IF Missing(r) = {d} THEN [at EXCEPT ![r] = "check"] ELSE at
  /\ UNCHANGED <<disk, expected, next, loaded, threadLock, stuck, outcome>>

(* The deadline passes while another process holds the lock.               *)
TimeOutNever(r, d) == FALSE

TimeOut(r, d) ==
  /\ at[r] = "lock" /\ Live(r)
  /\ NextDir(r, d) /\ ~Available(r, d)
  /\ Answer(r, "unavailable")
  /\ UNCHANGED <<disk, locks, stuck>>

(* The file system has no advisory locks.                                  *)
LockUnsupported(r) ==
  /\ at[r] = "lock" /\ Live(r)
  /\ Answer(r, "unavailable")
  /\ UNCHANGED <<disk, locks, stuck>>

-----------------------------------------------------------------------------
AsExpected(r, f) == expected[r][f] = Any \/ expected[r][f] = disk[f]

(* First pass: every revision is compared before any file is loaded.       *)
CheckFirstOnly(r) ==
  /\ at[r] = "check" /\ Live(r)
  /\ \/ AsExpected(r, Item(r)) /\ next' = [next EXCEPT ![r] = 1] /\ GoTo(r, "load")
        /\ UNCHANGED <<expected, loaded, outcome>>
     \/ ~AsExpected(r, Item(r)) /\ Answer(r, "conflict")
  /\ UNCHANGED <<disk, locks, stuck>>

Check(r) ==
  /\ at[r] = "check" /\ Live(r)
  /\ \/ AsExpected(r, Item(r)) /\ OnTo(r, "load")
        /\ UNCHANGED <<expected, loaded, outcome>>
     \/ ~AsExpected(r, Item(r)) /\ Answer(r, "conflict")
  /\ UNCHANGED <<disk, locks, stuck>>

(* Second pass: every document is loaded and mutated in memory.            *)
LoadAndWrite(r) ==
  /\ at[r] = "load" /\ Live(r)
  /\ disk' = [disk EXCEPT ![Item(r)] = Append(@, r)]
  /\ IF next[r] < Len(Items[r])
     THEN next' = [next EXCEPT ![r] = @ + 1] /\ UNCHANGED <<expected, at, loaded, outcome>>
     ELSE Answer(r, "written")
  /\ UNCHANGED <<locks, stuck>>

Load(r) ==
  /\ at[r] = "load" /\ Live(r)
  /\ loaded' = [loaded EXCEPT ![r][Item(r)] = Append(disk[Item(r)], r)]
  /\ OnTo(r, "write")
  /\ UNCHANGED <<disk, expected, locks, stuck, outcome>>

(* A file that cannot be read, or a mutation that raises.                  *)
Raise(r) ==
  /\ at[r] \in {"check", "load"} /\ Live(r)
  /\ Answer(r, "refused")
  /\ UNCHANGED <<disk, locks, stuck>>

(* Third pass: atomic_write_yaml, file by file.                            *)
Write(r) ==
  /\ at[r] = "write" /\ Live(r)
  /\ disk' = [disk EXCEPT ![Item(r)] = loaded[r][Item(r)]]
  /\ IF next[r] < Len(Items[r])
     THEN next' = [next EXCEPT ![r] = @ + 1] /\ UNCHANGED <<expected, at, loaded, outcome>>
     ELSE Answer(r, "written")
  /\ UNCHANGED <<locks, stuck>>

(* The write of one file fails: the target stays as it was, and the files  *)
(* written before it keep their new content.                               *)
WriteFails(r) ==
  /\ at[r] = "write" /\ Live(r)
  /\ Answer(r, "failed")
  /\ UNCHANGED <<disk, locks, stuck>>

-----------------------------------------------------------------------------
(* The locks are dropped in the opposite order, _write_lock last.          *)
ReleaseFileLock(r, d) ==
  /\ at[r] = "leave" /\ Live(r)
  /\ d \in Held(r) /\ \A e \in Held(r) : e <= d
  /\ fileLock' = [fileLock EXCEPT ![d] = @ \ {r}]
  /\ UNCHANGED <<disk, expected, at, next, loaded, threadLock, stuck, outcome>>

ReleaseThreadLock(r) ==
  /\ at[r] = "leave" /\ Live(r) /\ Held(r) = {}
  /\ threadLock' = [threadLock EXCEPT ![ProcessOf[r]] = None]
  /\ GoTo(r, "end")
  /\ UNCHANGED <<disk, expected, next, loaded, fileLock, stuck, outcome>>

-----------------------------------------------------------------------------
Running(p) == {r \in Request : ProcessOf[r] = p /\ at[r] \notin {"idle", "end"}}

(* The process dies: its threads are gone, the kernel drops its locks.     *)
Crash(p) ==
  /\ Running(p) # {}
  /\ at' = [r \in Request |-> IF r \in Running(p) THEN "end" ELSE at[r]]
  /\ outcome' = [r \in Request |->
                   IF r \in Running(p) /\ outcome[r] = None THEN "lost" ELSE outcome[r]]
  /\ threadLock' = [threadLock EXCEPT ![p] = None]
  /\ fileLock' = [d \in Dir |-> fileLock[d] \ Running(p)]
  /\ stuck' = stuck \ {p}
  /\ expected' = [r \in Request |->
                    IF r \in Running(p) THEN Unconditional ELSE expected[r]]
  /\ next' = [r \in Request |-> IF r \in Running(p) THEN 1 ELSE next[r]]
  /\ loaded' = [r \in Request |-> IF r \in Running(p) THEN Blank ELSE loaded[r]]
  /\ UNCHANGED disk

Hang(p) ==
  /\ Running(p) # {} /\ p \notin stuck
  /\ stuck' = stuck \cup {p}
  /\ UNCHANGED <<disk, expected, at, next, loaded, locks, outcome>>

(* Every call has ended, or its process hangs.                             *)
Quiet == (\A r \in Request : at[r] = "end" \/ ~Live(r)) /\ UNCHANGED vars

-----------------------------------------------------------------------------
(* What a thread that runs does sooner or later.                           *)
Proceed(r) ==
  \/ TakeThreadLock(r)
  \/ \E d \in Dir : TakeFileLock(r, d) \/ TimeOut(r, d) \/ ReleaseFileLock(r, d)
  \/ Check(r) \/ Load(r) \/ Write(r) \/ ReleaseThreadLock(r)

Next ==
  \/ \E r \in Request :
       \/ Proceed(r)
       \/ Begin(r) \/ LockUnsupported(r) \/ Raise(r) \/ WriteFails(r)
       \/ \E f \in File : Look(r, f)
  \/ \E p \in Process : Crash(p) \/ Hang(p)
  \/ Quiet

Spec == Init /\ [][Next]_vars

(* Threads are scheduled; nothing forces a call to be made or to fail.     *)
FairSpec == Spec /\ \A r \in Request : WF_vars(Proceed(r))

-----------------------------------------------------------------------------
(* Type correctness, with what ties the locks to the phases: a request     *)
(* between taking and dropping _write_lock is the one its process's lock   *)
(* names, and only such requests hold lock files.                          *)
WriterType ==
  /\ disk \in [File -> Seq(Request)]
  /\ expected \in [Request -> [File -> Seq(Request) \cup {Any}]]
  /\ at \in [Request -> Phase]
  /\ next \in [Request -> Nat \ {0}]
  /\ \A r \in Request : next[r] <= Len(Items[r])
  /\ loaded \in [Request -> [File -> Seq(Request)]]
  /\ threadLock \in [Process -> Request \cup {None}]
  /\ fileLock \in [Dir -> SUBSET Request]
  /\ stuck \subseteq Process
  /\ outcome \in [Request -> Outcome \cup {None}]
  /\ \A r \in Request : at[r] \in Section <=> threadLock[ProcessOf[r]] = r
  /\ \A d \in Dir : \A r \in fileLock[d] : at[r] \in Section

(* A caller told "written" has its change in every file of the batch,      *)
(* exactly once; one told of a conflict, of a lock it did not get or of a  *)
(* refused mutation has it in none (config_writer.py:355-363).             *)
OutcomesAreTrue ==
  \A r \in Request :
    /\ outcome[r] = "written" =>
         \A f \in FilesOf(r) : \E i \in DOMAIN disk[f] :
            disk[f][i] = r /\ \A j \in DOMAIN disk[f] : disk[f][j] = r => i = j
    /\ outcome[r] \in {"conflict", "unavailable", "refused"} =>
         \A f \in File : \A i \in DOMAIN disk[f] : disk[f][i] # r

(* Nobody waits in a circle, over lock files and write locks: in any group *)
(* of requests there is one that waits for none of the group, so waiting   *)
(* ends with the wait for somebody who can go on (config_writer.py:63-65:  *)
(* the directories are taken in sorted order, behind the process's lock).  *)
Awaits(r, d) == at[r] = "lock" /\ NextDir(r, d)

WaitsFor(r, s) ==
  \/ at[r] = "wait" /\ threadLock[ProcessOf[r]] = s
  \/ \E d \in Dir : Awaits(r, d) /\ s \in fileLock[d]

NoCircularWait ==
  \A S \in SUBSET Request : S # {} /\ IsFiniteSet(S) =>
    \E r \in S : \A s \in S : ~WaitsFor(r, s)

-----------------------------------------------------------------------------
(* No lost update: a file changes only by one request's mutation of the    *)
(* content it has at that moment, and only if that content is the one the  *)
(* request expected.                                                       *)
NoLostUpdate ==
  [][\A f \in File : disk'[f] # disk[f] =>
       \E r \in Request : disk'[f] = Append(disk[f], r) /\ AsExpected(r, f)]_vars

(* The writer is a store of versioned files.                               *)
Remaining(r) ==
  IF at[r] = "write" THEN {Items[r][i] : i \in next[r]..Len(Items[r])} ELSE {}

Wanted == [r \in Request |-> FilesOf(r)]
writing == [r \in Request |-> Remaining(r)]

Versioned == INSTANCE VersionedFiles WITH files <- disk, open <- writing

ImplementsVersionedFiles == Versioned!VersionedSpec

(* Every call ends, unless its own process hangs: a peer that hangs with   *)
(* the lock file costs a wait and an error, not a thread                   *)
(* (config_writer.py:164-168).                                             *)
CallsEnd ==
  \A r \in Request : at[r] = "wait" ~> (at[r] = "end" \/ ~Live(r))
=============================================================================
