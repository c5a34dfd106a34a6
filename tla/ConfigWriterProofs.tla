------------------------- MODULE ConfigWriterProofs -------------------------
(***************************************************************************)
(* No update of a configuration file is lost, and the writer implements    *)
(* the store of versioned files, for any number of requests, processes,    *)
(* files and directories.                                                  *)
(***************************************************************************)
EXTENDS ConfigWriter, FiniteSetTheorems, NaturalsInduction, WellFoundedInduction, TLAPS

(* A request in one of the three passes holds every lock it needs, nobody  *)
(* else holds a lock file it holds, ...                                    *)
HasLocks == \A r \in Request : at[r] \in Working => \A d \in DirsOf(r) : r \in fileLock[d]
Exclusive == \A d \in Dir : \A r, s \in fileLock[d] : r = s

(* ... a pass starts at the first item, ...                                *)
FromTheFirst == \A r \in Request : at[r] \notin Working => next[r] = 1

(* ... and nobody is told anything before the section ends.                *)
NotYetTold == \A r \in Request : at[r] \notin {"leave", "end"} => outcome[r] = None

LockInv == WriterType /\ HasLocks /\ Exclusive /\ FromTheFirst /\ NotYetTold

(* What the passes have established of the items they are done with, and   *)
(* the third pass of those still to be written.                            *)
Checked ==
  \A r \in Request : \A i \in 1..Len(Items[r]) :
    \/ at[r] = "check" /\ i < next[r]
    \/ at[r] = "load"
    \/ at[r] = "write" /\ next[r] <= i
    => AsExpected(r, Items[r][i])

IsMutated(r, f) == loaded[r][f] = Append(disk[f], r)

Mutated ==
  \A r \in Request : \A i \in 1..Len(Items[r]) :
    \/ at[r] = "load" /\ i < next[r]
    \/ at[r] = "write" /\ next[r] <= i
    => IsMutated(r, Items[r][i])

WriterInv == LockInv /\ Checked /\ Mutated

-----------------------------------------------------------------------------
LEMMA ItemTypes ==
  ASSUME NEW r \in Request
  PROVE  /\ Len(Items[r]) \in Nat \ {0}
         /\ \A i \in 1..Len(Items[r]) :
              Items[r][i] \in File /\ DirOf[Items[r][i]] \in DirsOf(r)
         /\ FilesOf(r) \subseteq File
         /\ DirsOf(r) \subseteq Dir
         /\ ProcessOf[r] \in Process
<1>1. Items[r] \in Seq(File) /\ Len(Items[r]) > 0
  BY WriterAssumption
<1>2. \A i \in 1..Len(Items[r]) : Items[r][i] \in File
  BY <1>1
<1> QED
  BY <1>1, <1>2, WriterAssumption DEF FilesOf, DirsOf

LEMMA ItemIn ==
  ASSUME WriterType, NEW r \in Request
  PROVE  next[r] \in 1..Len(Items[r]) /\ Item(r) \in File
  BY ItemTypes DEF WriterType, Item

(* Two requests at work share no file.                                     *)
LEMMA Alone ==
  ASSUME LockInv, NEW r \in Request, NEW s \in Request,
         at[r] \in Working, at[s] \in Working,
         NEW i \in 1..Len(Items[r]), NEW j \in 1..Len(Items[s]),
         Items[r][i] = Items[s][j]
  PROVE  r = s
<1>1. DirOf[Items[r][i]] \in DirsOf(r) /\ DirOf[Items[r][i]] \in DirsOf(s)
      /\ DirOf[Items[r][i]] \in Dir
  BY ItemTypes
<1> QED
  BY <1>1 DEF LockInv, HasLocks, Exclusive

-----------------------------------------------------------------------------
LEMMA InitLocks == Init => LockInv
<1> SUFFICES ASSUME Init PROVE LockInv
  OBVIOUS
<1>1. WriterType
  BY ItemTypes, WriterAssumption DEF Init, WriterType, Unconditional, Blank, Phase, Section,
     Working, Outcome
<1> QED
  BY <1>1, WriterAssumption DEF Init, LockInv, HasLocks, Exclusive, FromTheFirst, NotYetTold, Working

(* A step of the section that ends it.                                     *)
LEMMA AnswerKeepsLocks ==
  ASSUME LockInv, NEW r \in Request, NEW o \in Outcome,
         at[r] \in Section, Answer(r, o), disk' \in [File -> Seq(Request)],
         UNCHANGED <<locks, stuck>>
  PROVE  LockInv'
<1>1. at' = [at EXCEPT ![r] = "leave"] /\ outcome' = [outcome EXCEPT ![r] = o]
      /\ next' = [next EXCEPT ![r] = 1] /\ loaded' = [loaded EXCEPT ![r] = Blank]
      /\ expected' = [expected EXCEPT ![r] = Unconditional]
      /\ UNCHANGED <<threadLock, fileLock, stuck>>
  BY DEF Answer, GoTo, locks
<1>2. WriterType'
  BY <1>1, ItemTypes DEF LockInv, WriterType, Blank, Unconditional, Phase, Section
<1>3. HasLocks' /\ Exclusive'
  BY <1>1 DEF LockInv, WriterType, HasLocks, Exclusive, Working
<1>4. FromTheFirst' /\ NotYetTold'
  BY <1>1 DEF LockInv, WriterType, FromTheFirst, NotYetTold
<1> QED
  BY <1>2, <1>3, <1>4 DEF LockInv

(* A step of one pass that goes on, in it or to the next.                  *)
LEMMA PassKeepsLocks ==
  ASSUME LockInv, NEW r \in Request, NEW phase \in Working,
         at[r] \in Working,
         \/ at' = at /\ next[r] < Len(Items[r]) /\ next' = [next EXCEPT ![r] = @ + 1]
         \/ at' = [at EXCEPT ![r] = phase] /\ next' = [next EXCEPT ![r] = 1],
         disk' \in [File -> Seq(Request)], loaded' \in [Request -> [File -> Seq(Request)]],
         UNCHANGED <<expected, locks, stuck, outcome>>
  PROVE  LockInv'
<1>1. UNCHANGED <<threadLock, fileLock>>
  BY DEF locks
<1>2. \A s \in Request : at'[s] \in Phase /\ (at'[s] \in Section <=> at[s] \in Section)
                         /\ (at'[s] \in Working <=> at[s] \in Working)
                         /\ (at'[s] \in {"leave", "end"} <=> at[s] \in {"leave", "end"})
  BY DEF LockInv, WriterType, Phase, Section, Working
<1>3. at' \in [Request -> Phase]
  BY <1>2 DEF LockInv, WriterType
<1>4. next' \in [Request -> Nat \ {0}] /\ \A s \in Request : next'[s] <= Len(Items[s])
  <2>1. \A s \in Request : Len(Items[s]) \in Nat \ {0}
    BY ItemTypes
  <2>2. next \in [Request -> Nat \ {0}] /\ \A s \in Request : next[s] <= Len(Items[s])
    BY DEF LockInv, WriterType
  <2>3. CASE next[r] < Len(Items[r]) /\ next' = [next EXCEPT ![r] = @ + 1]
    BY <2>1, <2>2, <2>3
  <2>4. CASE next' = [next EXCEPT ![r] = 1]
    BY <2>1, <2>2, <2>4
  <2> QED
    BY <2>3, <2>4
<1>5. \A s \in Request : s # r => next'[s] = next[s]
  BY DEF LockInv, WriterType
<1>6. WriterType'
  BY <1>1, <1>2, <1>3, <1>4 DEF LockInv, WriterType
<1>7. HasLocks' /\ Exclusive'
  BY <1>1, <1>2 DEF LockInv, HasLocks, Exclusive
<1>8. FromTheFirst' /\ NotYetTold'
  BY <1>2, <1>5 DEF LockInv, FromTheFirst, NotYetTold
<1> QED
  BY <1>6, <1>7, <1>8 DEF LockInv

-----------------------------------------------------------------------------
(* Taking the locks.                                                       *)
LEMMA TakingKeepsLocks ==
  ASSUME LockInv, NEW r \in Request,
         \/ Begin(r) \/ TakeThreadLock(r)
         \/ \E d \in Dir : TakeFileLock(r, d)
  PROVE  LockInv'
<1>1. CASE Begin(r)
  <2>1. at[r] = "idle" /\ at' = [at EXCEPT ![r] = "wait"]
        /\ UNCHANGED <<disk, expected, next, loaded, threadLock, fileLock, stuck, outcome>>
    BY <1>1 DEF Begin, GoTo, locks
  <2>2. WriterType'
    BY <2>1 DEF LockInv, WriterType, Phase, Section, Working
  <2>3. HasLocks' /\ Exclusive' /\ FromTheFirst' /\ NotYetTold'
    BY <2>1 DEF LockInv, WriterType, HasLocks, Exclusive, FromTheFirst, NotYetTold, Working
  <2> QED
    BY <2>2, <2>3 DEF LockInv
<1>2. CASE TakeThreadLock(r)
  <2>1. at[r] = "wait" /\ at' = [at EXCEPT ![r] = "lock"]
        /\ threadLock[ProcessOf[r]] = None
        /\ threadLock' = [threadLock EXCEPT ![ProcessOf[r]] = r]
        /\ UNCHANGED <<disk, expected, next, loaded, fileLock, stuck, outcome>>
    BY <1>2 DEF TakeThreadLock, GoTo
  <2>2. \A s \in Request : ProcessOf[s] = ProcessOf[r] => at[s] \notin Section
    BY <2>1, WriterAssumption DEF LockInv, WriterType
  <2>3. \A s \in Request : at'[s] \in Section <=> threadLock'[ProcessOf[s]] = s
    BY <2>1, <2>2, ItemTypes DEF LockInv, WriterType, Section
  <2>4. WriterType'
    BY <2>1, <2>3, ItemTypes DEF LockInv, WriterType, Phase, Section
  <2>5. HasLocks' /\ Exclusive' /\ FromTheFirst' /\ NotYetTold'
    BY <2>1 DEF LockInv, WriterType, HasLocks, Exclusive, FromTheFirst, NotYetTold, Working
  <2> QED
    BY <2>4, <2>5 DEF LockInv
<1>3. ASSUME NEW d \in Dir, TakeFileLock(r, d)
      PROVE  LockInv'
  <2>1. /\ at[r] = "lock" /\ Available(r, d)
        /\ fileLock' = [fileLock EXCEPT ![d] = @ \cup {r}]
        /\ at' = IF Missing(r) = {d} THEN [at EXCEPT ![r] = "check"] ELSE at
        /\ UNCHANGED <<disk, expected, next, loaded, threadLock, stuck, outcome>>
    BY <1>3 DEF TakeFileLock
  <2>2. \A s \in Request : /\ s # r => at'[s] = at[s]
                           /\ at'[s] \in Phase
                           /\ at'[s] \in Section <=> at[s] \in Section
                           /\ at'[s] \in {"leave", "end"} <=> at[s] \in {"leave", "end"}
    BY <2>1 DEF LockInv, WriterType, Phase, Section, Working
  <2>3. at' \in [Request -> Phase]
    BY <2>1, <2>2 DEF LockInv, WriterType
  <2>4. \A e \in Dir : /\ fileLock'[e] = IF e = d THEN fileLock[d] \cup {r} ELSE fileLock[e]
                       /\ fileLock'[e] \in SUBSET Request
    BY <2>1 DEF LockInv, WriterType
  <2>5. WriterType'
    BY <2>1, <2>2, <2>3, <2>4 DEF LockInv, WriterType, Section
  <2>6. \A s \in fileLock[d] : s = r
    <3>1. SUFFICES ASSUME NEW s \in fileLock[d] PROVE s = r
      OBVIOUS
    <3>2. s \in Request /\ ProcessOf[s] = ProcessOf[r] /\ at[s] \in Section /\ at[r] \in Section
      BY <2>1 DEF Available, LockInv, WriterType, Section
    <3> QED
      BY <3>2 DEF LockInv, WriterType
  <2>7. Exclusive'
    BY <2>4, <2>6 DEF LockInv, Exclusive
  <2>8. at'[r] \in Working => \A e \in DirsOf(r) : r \in fileLock'[e]
    <3>1. SUFFICES ASSUME Missing(r) = {d}, NEW e \in DirsOf(r) PROVE r \in fileLock'[e]
      BY <2>1 DEF Working, LockInv, WriterType
    <3>2. e \in Dir
      BY ItemTypes
    <3>3. CASE e = d
      BY <2>4, <3>3
    <3>4. CASE e # d
      BY <2>4, <3>1, <3>2, <3>4 DEF Missing, Held
    <3> QED
      BY <3>3, <3>4
  <2>9. HasLocks'
    <3>1. SUFFICES ASSUME NEW s \in Request, at'[s] \in Working, NEW e \in DirsOf(s)
                   PROVE  s \in fileLock'[e]
      BY DEF HasLocks
    <3>2. CASE s = r
      BY <2>8, <3>1, <3>2
    <3>3. CASE s # r
      BY <2>2, <2>4, <3>1, <3>3, ItemTypes DEF LockInv, HasLocks
    <3> QED
      BY <3>2, <3>3
  <2>10. FromTheFirst' /\ NotYetTold'
    BY <2>1, <2>2 DEF LockInv, WriterType, FromTheFirst, NotYetTold, Working
  <2> QED
    BY <2>5, <2>7, <2>9, <2>10 DEF LockInv
<1> QED
  BY <1>1, <1>2, <1>3

(* Dropping them.                                                          *)
LEMMA DroppingKeepsLocks ==
  ASSUME LockInv, NEW r \in Request,
         ReleaseThreadLock(r) \/ \E d \in Dir : ReleaseFileLock(r, d)
  PROVE  LockInv'
<1>1. CASE ReleaseThreadLock(r)
  <2>1. at[r] = "leave" /\ Held(r) = {} /\ at' = [at EXCEPT ![r] = "end"]
        /\ threadLock' = [threadLock EXCEPT ![ProcessOf[r]] = None]
        /\ UNCHANGED <<disk, expected, next, loaded, fileLock, stuck, outcome>>
    BY <1>1 DEF ReleaseThreadLock, GoTo
  <2>2. threadLock[ProcessOf[r]] = r
    BY <2>1 DEF LockInv, WriterType, Section
  <2>3. \A s \in Request : at'[s] \in Section <=> threadLock'[ProcessOf[s]] = s
    BY <2>1, <2>2, ItemTypes, WriterAssumption DEF LockInv, WriterType, Section, Working
  <2>4. \A d \in Dir : \A s \in fileLock[d] : s # r
    BY <2>1 DEF Held
  <2>5. WriterType'
    BY <2>1, <2>3, <2>4, ItemTypes DEF LockInv, WriterType, Phase, Section
  <2>6. HasLocks' /\ Exclusive' /\ FromTheFirst' /\ NotYetTold'
    BY <2>1 DEF LockInv, WriterType, HasLocks, Exclusive, FromTheFirst, NotYetTold, Working
  <2> QED
    BY <2>5, <2>6 DEF LockInv
<1>2. ASSUME NEW d \in Dir, ReleaseFileLock(r, d)
      PROVE  LockInv'
  <2>1. at[r] = "leave" /\ fileLock' = [fileLock EXCEPT ![d] = @ \ {r}]
        /\ UNCHANGED <<disk, expected, at, next, loaded, threadLock, stuck, outcome>>
    BY <1>2 DEF ReleaseFileLock
  <2>2. WriterType'
    BY <2>1 DEF LockInv, WriterType
  <2>3. \A s \in Request : at[s] \in Working => s # r
    BY <2>1 DEF Working
  <2>4. HasLocks' /\ Exclusive'
    BY <2>1, <2>3, ItemTypes DEF LockInv, WriterType, HasLocks, Exclusive
  <2>5. FromTheFirst' /\ NotYetTold'
    BY <2>1 DEF LockInv, FromTheFirst, NotYetTold
  <2> QED
    BY <2>2, <2>4, <2>5 DEF LockInv
<1> QED
  BY <1>1, <1>2

LEMMA CrashKeepsLocks ==
  ASSUME LockInv, NEW p \in Process, Crash(p)
  PROVE  LockInv'
<1>1. /\ at' = [r \in Request |-> IF r \in Running(p) THEN "end" ELSE at[r]]
      /\ outcome' = [r \in Request |->
                       IF r \in Running(p) /\ outcome[r] = None THEN "lost" ELSE outcome[r]]
      /\ threadLock' = [threadLock EXCEPT ![p] = None]
      /\ fileLock' = [d \in Dir |-> fileLock[d] \ Running(p)]
      /\ stuck' = stuck \ {p}
      /\ expected' = [r \in Request |->
                        IF r \in Running(p) THEN Unconditional ELSE expected[r]]
      /\ next' = [r \in Request |-> IF r \in Running(p) THEN 1 ELSE next[r]]
      /\ loaded' = [r \in Request |-> IF r \in Running(p) THEN Blank ELSE loaded[r]]
      /\ UNCHANGED disk
  BY DEF Crash
<1>2. \A r \in Request : r \notin Running(p) =>
        \/ ProcessOf[r] # p
        \/ at[r] \in {"idle", "end"}
  BY DEF Running
<1>3. \A r \in Running(p) : ProcessOf[r] = p /\ r \in Request
  BY DEF Running
<1>4. \A r \in Request : at'[r] \in Section <=> threadLock'[ProcessOf[r]] = r
  <2>1. SUFFICES ASSUME NEW r \in Request
                 PROVE  at'[r] \in Section <=> threadLock'[ProcessOf[r]] = r
    OBVIOUS
  <2>2. CASE ProcessOf[r] = p
    BY <1>1, <1>2, <2>2, WriterAssumption DEF LockInv, WriterType, Section, Working
  <2>3. CASE ProcessOf[r] # p
    BY <1>1, <1>3, <2>3, ItemTypes DEF LockInv, WriterType
  <2> QED
    BY <2>2, <2>3
<1>5. \A d \in Dir : fileLock'[d] \subseteq Request
                     /\ \A r \in fileLock'[d] : at'[r] \in Section /\ r \in fileLock[d]
  BY <1>1 DEF LockInv, WriterType
<1>6. /\ expected' \in [Request -> [File -> Seq(Request) \cup {Any}]]
      /\ loaded' \in [Request -> [File -> Seq(Request)]]
  BY <1>1 DEF LockInv, WriterType, Unconditional, Blank
<1>7. /\ next' \in [Request -> Nat \ {0}]
      /\ \A r \in Request : next'[r] <= Len(Items[r])
  BY <1>1, ItemTypes DEF LockInv, WriterType
<1>8. /\ at' \in [Request -> Phase]
      /\ outcome' \in [Request -> Outcome \cup {None}]
      /\ stuck' \subseteq Process /\ disk' = disk
      /\ threadLock' \in [Process -> Request \cup {None}]
      /\ fileLock' \in [Dir -> SUBSET Request]
  BY <1>1, <1>5 DEF LockInv, WriterType, Phase, Outcome
<1>9. WriterType'
  BY <1>4, <1>5, <1>6, <1>7, <1>8 DEF LockInv, WriterType
<1>10. \A r \in Request : at'[r] \in Working => at'[r] = at[r] /\ r \notin Running(p)
  BY <1>1 DEF Working
<1>11. HasLocks' /\ Exclusive'
  BY <1>1, <1>5, <1>10, ItemTypes DEF LockInv, HasLocks, Exclusive
<1>12. FromTheFirst' /\ NotYetTold'
  BY <1>1 DEF LockInv, FromTheFirst, NotYetTold
<1> QED
  BY <1>9, <1>11, <1>12 DEF LockInv

-----------------------------------------------------------------------------
(* The steps that neither write a file nor go on in a pass.                *)
LEMMA ElsewhereKeepsData ==
  ASSUME Checked, Mutated, disk' = disk,
         \A s \in Request :
           \/ /\ at'[s] = at[s] /\ next'[s] = next[s]
              /\ expected'[s] = expected[s] /\ loaded'[s] = loaded[s]
           \/ at'[s] \notin Working
           \/ at'[s] = "check" /\ next'[s] = 1
  PROVE  Checked' /\ Mutated'
<1> USE DEF Working
<1>1. Checked'
  BY ItemTypes DEF Checked, AsExpected
<1>2. Mutated'
  BY ItemTypes DEF Mutated, IsMutated
<1> QED
  BY <1>1, <1>2

(* The request that goes on in its first or second pass.                   *)
LEMMA CheckKeepsData ==
  ASSUME WriterInv, NEW r \in Request, Check(r), AsExpected(r, Item(r)), OnTo(r, "load"),
         UNCHANGED <<disk, expected, loaded>>
  PROVE  Checked' /\ Mutated'
<1>1. at[r] = "check" /\ at \in [Request -> Phase]
      /\ next \in [Request -> Nat \ {0}] /\ next[r] \in 1..Len(Items[r])
  BY ItemIn DEF Check, WriterInv, LockInv, WriterType
<1>2. \A i \in 1..Len(Items[r]) : i <= next[r] => AsExpected(r, Items[r][i])
  BY <1>1, ItemTypes DEF WriterInv, Checked, Item
<1>3. \A s \in Request : \A f : AsExpected(s, f)' <=> AsExpected(s, f)
  BY DEF AsExpected
<1>6. \A s \in Request : \A f : IsMutated(s, f)' <=> IsMutated(s, f)
  BY DEF IsMutated
<1>4. CASE next[r] < Len(Items[r])
  <2>1. next' = [next EXCEPT ![r] = next[r] + 1] /\ at' = at
    BY <1>4 DEF OnTo
  <2>2. Checked'
    BY <1>1, <1>2, <1>3, <2>1, ItemTypes DEF WriterInv, Checked
  <2>3. Mutated'
    BY <1>1, <1>6, <2>1 DEF WriterInv, Mutated
  <2> QED
    BY <2>2, <2>3
<1>5. CASE next[r] = Len(Items[r])
  <2>1. next' = [next EXCEPT ![r] = 1] /\ at' = [at EXCEPT ![r] = "load"]
    BY <1>5 DEF OnTo, GoTo
  <2>2. Checked'
    BY <1>1, <1>2, <1>3, <1>5, <2>1, ItemTypes DEF WriterInv, Checked
  <2>3. Mutated'
    BY <1>1, <1>6, <2>1, ItemTypes DEF WriterInv, Mutated
  <2> QED
    BY <2>2, <2>3
<1> QED
  BY <1>1, <1>4, <1>5, ItemTypes

LEMMA LoadKeepsData ==
  ASSUME WriterInv, NEW r \in Request, Load(r)
  PROVE  Checked' /\ Mutated'
<1>1. /\ at[r] = "load" /\ at \in [Request -> Phase]
      /\ next \in [Request -> Nat \ {0}] /\ next[r] \in 1..Len(Items[r])
      /\ loaded \in [Request -> [File -> Seq(Request)]]
  BY ItemIn DEF Load, WriterInv, LockInv, WriterType
<1>2. /\ loaded' = [loaded EXCEPT ![r][Item(r)] = Append(disk[Item(r)], r)]
      /\ UNCHANGED <<disk, expected>>
  BY DEF Load
<1>3. \A s \in Request : s # r => \A f : IsMutated(s, f)' <=> IsMutated(s, f)
  BY <1>1, <1>2 DEF IsMutated
<1>4. \A i \in 1..Len(Items[r]) : i <= next[r] => IsMutated(r, Items[r][i])'
  <2>1. SUFFICES ASSUME NEW i \in 1..Len(Items[r]), i <= next[r]
                 PROVE  loaded'[r][Items[r][i]] = Append(disk[Items[r][i]], r)
    BY <1>2 DEF IsMutated
  <2>2. Items[r][i] \in File /\ Item(r) \in File
    BY <1>1, ItemTypes DEF Item
  <2>3. CASE i = next[r]
    <3>1. Items[r][i] = Item(r)
      BY <2>3 DEF Item
    <3>2. loaded'[r][Item(r)] = Append(disk[Item(r)], r)
      BY <1>1, <1>2, <2>2
    <3> QED
      BY <3>1, <3>2
  <2>4. CASE i < next[r]
    <3>1. Items[r][i] # Item(r)
      BY <1>1, <2>4, WriterAssumption DEF Item
    <3>2. loaded[r][Items[r][i]] = Append(disk[Items[r][i]], r)
      BY <1>1, <2>4 DEF WriterInv, Mutated, IsMutated
    <3> QED
      BY <1>1, <1>2, <2>2, <3>1, <3>2
  <2> QED
    BY <1>1, <2>1, <2>3, <2>4, ItemTypes
<1>5. \A s \in Request : \A f : AsExpected(s, f)' <=> AsExpected(s, f)
  BY <1>2 DEF AsExpected
<1>6. \A i \in 1..Len(Items[r]) : AsExpected(r, Items[r][i])
  BY <1>1 DEF WriterInv, Checked
<1>7. CASE next[r] < Len(Items[r])
  <2>1. next' = [next EXCEPT ![r] = next[r] + 1] /\ at' = at
    BY <1>7 DEF OnTo, Load
  <2>2. Checked'
    BY <1>1, <1>5, <1>6, <2>1 DEF WriterInv, Checked
  <2>3. Mutated'
    <3>1. SUFFICES ASSUME NEW s \in Request, NEW i \in 1..Len(Items[s]),
                          \/ at'[s] = "load" /\ i < next'[s]
                          \/ at'[s] = "write" /\ next'[s] <= i
                   PROVE  IsMutated(s, Items[s][i])'
      BY DEF Mutated
    <3>2. CASE s = r
      BY <1>1, <1>4, <2>1, <3>1, <3>2, ItemTypes
    <3>3. CASE s # r
      BY <1>1, <1>3, <2>1, <3>1, <3>3 DEF WriterInv, Mutated
    <3> QED
      BY <3>2, <3>3
  <2> QED
    BY <2>2, <2>3
<1>8. CASE next[r] = Len(Items[r])
  <2>1. next' = [next EXCEPT ![r] = 1] /\ at' = [at EXCEPT ![r] = "write"]
    BY <1>8 DEF OnTo, GoTo, Load
  <2>2. Checked'
    BY <1>1, <1>5, <1>6, <2>1 DEF WriterInv, Checked
  <2>3. Mutated'
    <3>1. SUFFICES ASSUME NEW s \in Request, NEW i \in 1..Len(Items[s]),
                          \/ at'[s] = "load" /\ i < next'[s]
                          \/ at'[s] = "write" /\ next'[s] <= i
                   PROVE  IsMutated(s, Items[s][i])'
      BY DEF Mutated
    <3>2. CASE s = r
      BY <1>1, <1>4, <1>8, <2>1, <3>1, <3>2, ItemTypes
    <3>3. CASE s # r
      BY <1>1, <1>3, <2>1, <3>1, <3>3 DEF WriterInv, Mutated
    <3> QED
      BY <3>2, <3>3
  <2> QED
    BY <2>2, <2>3
<1> QED
  BY <1>1, <1>7, <1>8, ItemTypes

(* What a write puts on the disk is the mutation of what was there, and no *)
(* other request at work looks at that file.                               *)
LEMMA WriteExtends ==
  ASSUME WriterInv, NEW r \in Request, Write(r)
  PROVE  /\ Item(r) \in File
         /\ disk' = [disk EXCEPT ![Item(r)] = Append(disk[Item(r)], r)]
         /\ disk' \in [File -> Seq(Request)]
         /\ AsExpected(r, Item(r))
<1>1. /\ at[r] = "write" /\ next[r] \in 1..Len(Items[r]) /\ Item(r) \in File
      /\ disk \in [File -> Seq(Request)]
  BY ItemIn DEF Write, WriterInv, LockInv, WriterType
<1>2. loaded[r][Item(r)] = Append(disk[Item(r)], r) /\ AsExpected(r, Item(r))
  <2>1. IsMutated(r, Items[r][next[r]]) /\ AsExpected(r, Items[r][next[r]])
    <3>1. next[r] <= next[r]
      BY <1>1, ItemTypes
    <3>2. AsExpected(r, Items[r][next[r]])
      BY <1>1, <3>1 DEF WriterInv, Checked
    <3>3. IsMutated(r, Items[r][next[r]])
      BY <1>1, <3>1 DEF WriterInv, Mutated
    <3> QED
      BY <3>2, <3>3
  <2>2. Item(r) = Items[r][next[r]]
    BY DEF Item
  <2>3. IsMutated(r, Item(r)) /\ AsExpected(r, Item(r))
    BY <2>1, <2>2
  <2> QED
    BY <2>3 DEF IsMutated
<1>3. disk' = [disk EXCEPT ![Item(r)] = Append(disk[Item(r)], r)]
  BY <1>2 DEF Write
<1>4. Append(disk[Item(r)], r) \in Seq(Request)
  BY <1>1
<1> QED
  BY <1>1, <1>2, <1>3, <1>4

LEMMA WriteKeepsData ==
  ASSUME WriterInv, NEW r \in Request, Write(r)
  PROVE  Checked' /\ Mutated'
<1>1. /\ at[r] = "write" /\ at \in [Request -> Phase] /\ next \in [Request -> Nat \ {0}]
      /\ next[r] \in 1..Len(Items[r])
      /\ expected \in [Request -> [File -> Seq(Request) \cup {Any}]]
      /\ loaded \in [Request -> [File -> Seq(Request)]]
      /\ disk \in [File -> Seq(Request)]
  BY ItemIn DEF Write, WriterInv, LockInv, WriterType
<1>2. disk' = [disk EXCEPT ![Item(r)] = Append(disk[Item(r)], r)]
  BY WriteExtends
<1>3. \A s \in Request : s # r => /\ at'[s] = at[s] /\ next'[s] = next[s]
                                /\ expected'[s] = expected[s] /\ loaded'[s] = loaded[s]
  BY <1>1 DEF Write, Answer, GoTo
<1>4. \A s \in Request : s # r /\ at[s] \in Working =>
        \A i \in 1..Len(Items[s]) : disk'[Items[s][i]] = disk[Items[s][i]]
  <2>1. SUFFICES ASSUME NEW s \in Request, s # r, at[s] \in Working, NEW i \in 1..Len(Items[s])
                 PROVE  disk'[Items[s][i]] = disk[Items[s][i]]
    OBVIOUS
  <2>2. Items[s][i] # Item(r)
    BY <1>1, <2>1, Alone DEF Item, Working, WriterInv
  <2>3. Items[s][i] \in File
    BY <2>1, ItemTypes
  <2>4. \A f \in File : f # Item(r) => disk'[f] = disk[f]
    BY <1>1, <1>2
  <2> QED
    BY <2>2, <2>3, <2>4
<1>5. \/ at'[r] = "leave"
      \/ /\ at' = at /\ next'[r] = next[r] + 1
         /\ expected' = expected /\ loaded' = loaded
  BY <1>1 DEF Write, Answer, GoTo
<1>6. \A i \in 1..Len(Items[r]) : next[r] < i => disk'[Items[r][i]] = disk[Items[r][i]]
  <2>1. SUFFICES ASSUME NEW i \in 1..Len(Items[r]), next[r] < i
                 PROVE  disk'[Items[r][i]] = disk[Items[r][i]]
    OBVIOUS
  <2>2. next[r] # i
    BY <1>1, <2>1, ItemTypes
  <2>3. Items[r][i] # Item(r)
    BY <1>1, <2>1, <2>2, WriterAssumption DEF Item
  <2>4. Items[r][i] \in File
    BY <2>1, ItemTypes
  <2>5. \A f \in File : f # Item(r) => disk'[f] = disk[f]
    BY <1>1, <1>2
  <2> QED
    BY <2>3, <2>4, <2>5
<1>7. Checked'
  <2>1. SUFFICES ASSUME NEW s \in Request, NEW i \in 1..Len(Items[s]),
                        \/ at'[s] = "check" /\ i < next'[s]
                        \/ at'[s] = "load"
                        \/ at'[s] = "write" /\ next'[s] <= i
                 PROVE  AsExpected(s, Items[s][i])'
    BY DEF Checked
  <2>2. CASE s = r
    BY <1>1, <1>5, <1>6, <2>1, <2>2 DEF WriterInv, Checked, AsExpected
  <2>3. CASE s # r
    BY <1>3, <1>4, <2>1, <2>3 DEF WriterInv, Checked, AsExpected, Working
  <2> QED
    BY <2>2, <2>3
<1>8. Mutated'
  <2>1. SUFFICES ASSUME NEW s \in Request, NEW i \in 1..Len(Items[s]),
                        \/ at'[s] = "load" /\ i < next'[s]
                        \/ at'[s] = "write" /\ next'[s] <= i
                 PROVE  IsMutated(s, Items[s][i])'
    BY DEF Mutated
  <2>2. /\ IsMutated(s, Items[s][i])
        /\ loaded'[s] = loaded[s] /\ disk'[Items[s][i]] = disk[Items[s][i]]
    <3>1. CASE s = r
      BY <1>1, <1>5, <1>6, <2>1, <3>1 DEF WriterInv, Mutated
    <3>2. CASE s # r
      BY <1>3, <1>4, <2>1, <3>2 DEF WriterInv, Mutated, Working
    <3> QED
      BY <3>1, <3>2
  <2> QED
    BY <2>2 DEF IsMutated
<1> QED
  BY <1>7, <1>8

-----------------------------------------------------------------------------
LEMMA InvInit == Init => WriterInv
  BY InitLocks DEF WriterInv, Init, Checked, Mutated

(* One step of one request.                                                *)
LEMMA RequestKeepsInv ==
  ASSUME WriterInv, NEW r \in Request,
         \/ Proceed(r)
         \/ Begin(r) \/ LockUnsupported(r) \/ Raise(r) \/ WriteFails(r)
         \/ \E f \in File : Look(r, f)
  PROVE  WriterInv'
<1> USE DEF WriterInv
<1>1. /\ at \in [Request -> Phase] /\ next \in [Request -> Nat \ {0}]
      /\ expected \in [Request -> [File -> Seq(Request) \cup {Any}]]
      /\ loaded \in [Request -> [File -> Seq(Request)]]
      /\ disk \in [File -> Seq(Request)]
  BY DEF LockInv, WriterType
<1>2. ASSUME NEW o \in Outcome, at[r] \in Section, Answer(r, o), UNCHANGED <<disk, locks, stuck>>
      PROVE  WriterInv'
  <2>1. LockInv'
    BY <1>1, <1>2, AnswerKeepsLocks
  <2>2. Checked' /\ Mutated'
    BY <1>1, <1>2, ElsewhereKeepsData DEF Answer, GoTo, Working
  <2> QED
    BY <2>1, <2>2
<1>3. CASE Begin(r) \/ TakeThreadLock(r)
  <2>1. LockInv'
    BY <1>3, TakingKeepsLocks
  <2>2. Checked' /\ Mutated'
    BY <1>1, <1>3, ElsewhereKeepsData DEF Begin, TakeThreadLock, GoTo, Working
  <2> QED
    BY <2>1, <2>2
<1>4. ASSUME NEW d \in Dir, TakeFileLock(r, d) PROVE WriterInv'
  <2>1. LockInv'
    BY <1>4, TakingKeepsLocks
  <2>2. next[r] = 1
    BY <1>4 DEF TakeFileLock, LockInv, FromTheFirst, Working
  <2>3. Checked' /\ Mutated'
    BY <1>1, <1>4, <2>2, ElsewhereKeepsData DEF TakeFileLock
  <2> QED
    BY <2>1, <2>3
<1>5. ASSUME NEW d \in Dir, TimeOut(r, d) PROVE WriterInv'
  BY <1>2, <1>5 DEF TimeOut, Section, Outcome
<1>6. CASE LockUnsupported(r) \/ Raise(r) \/ WriteFails(r)
  BY <1>2, <1>6 DEF LockUnsupported, Raise, WriteFails, Section, Working, Outcome
<1>7. ASSUME NEW d \in Dir, ReleaseFileLock(r, d) PROVE WriterInv'
  <2>1. LockInv'
    BY <1>7, DroppingKeepsLocks
  <2>2. Checked' /\ Mutated'
    BY <1>7, ElsewhereKeepsData DEF ReleaseFileLock
  <2> QED
    BY <2>1, <2>2
<1>8. CASE ReleaseThreadLock(r)
  <2>1. LockInv'
    BY <1>8, DroppingKeepsLocks
  <2>2. Checked' /\ Mutated'
    BY <1>1, <1>8, ElsewhereKeepsData DEF ReleaseThreadLock, GoTo, Working
  <2> QED
    BY <2>1, <2>2
<1>9. CASE Check(r)
  <2>1. CASE AsExpected(r, Item(r)) /\ OnTo(r, "load") /\ UNCHANGED <<expected, loaded, outcome>>
    <3>1. UNCHANGED <<disk, locks, stuck>> /\ at[r] = "check"
      BY <1>9 DEF Check
    <3>2. LockInv'
      BY <1>1, <2>1, <3>1, PassKeepsLocks DEF OnTo, GoTo, Working
    <3>3. Checked' /\ Mutated'
      BY <1>9, <2>1, <3>1, CheckKeepsData
    <3> QED
      BY <3>2, <3>3
  <2>2. CASE Answer(r, "conflict")
    BY <1>2, <1>9, <2>2 DEF Check, Section, Working, Outcome
  <2> QED
    BY <1>9, <2>1, <2>2 DEF Check
<1>10. CASE Load(r)
  <2>1. Item(r) \in File
    BY ItemIn DEF LockInv
  <2>2. loaded' \in [Request -> [File -> Seq(Request)]]
    <3>1. Append(disk[Item(r)], r) \in Seq(Request)
      BY <1>1, <2>1
    <3> QED
      BY <1>1, <1>10, <3>1 DEF Load
  <2>3. LockInv'
    BY <1>1, <1>10, <2>2, PassKeepsLocks DEF Load, OnTo, GoTo, Working
  <2>4. Checked' /\ Mutated'
    BY <1>10, LoadKeepsData
  <2> QED
    BY <2>3, <2>4
<1>11. CASE Write(r)
  <2>1. at[r] = "write" /\ disk' \in [File -> Seq(Request)] /\ UNCHANGED <<locks, stuck>>
    BY <1>11, WriteExtends DEF Write
  <2>2. LockInv'
    <3>1. CASE next[r] < Len(Items[r])
      BY <1>1, <1>11, <2>1, <3>1, PassKeepsLocks DEF Write, Working
    <3>2. CASE ~(next[r] < Len(Items[r]))
      BY <1>11, <2>1, <3>2, AnswerKeepsLocks DEF Write, Section, Working, Outcome
    <3> QED
      BY <3>1, <3>2
  <2>3. Checked' /\ Mutated'
    BY <1>11, WriteKeepsData
  <2> QED
    BY <2>2, <2>3
<1>12. ASSUME NEW f \in File, Look(r, f) PROVE WriterInv'
  <2>1. /\ at[r] = "idle" /\ expected' = [expected EXCEPT ![r][f] = disk[f]]
        /\ UNCHANGED <<disk, at, next, loaded, threadLock, fileLock, stuck, outcome>>
    BY <1>12 DEF Look, locks
  <2>2. expected' \in [Request -> [File -> Seq(Request) \cup {Any}]]
    BY <1>1, <2>1
  <2>3. LockInv'
    BY <2>1, <2>2 DEF LockInv, WriterType, HasLocks, Exclusive, FromTheFirst, NotYetTold
  <2>4. Checked' /\ Mutated'
    BY <1>1, <2>1, ElsewhereKeepsData DEF Working
  <2> QED
    BY <2>3, <2>4
<1> QED
  BY <1>3, <1>4, <1>5, <1>6, <1>7, <1>8, <1>9, <1>10, <1>11, <1>12 DEF Proceed

LEMMA InvNext == WriterInv /\ [Next]_vars => WriterInv'
<1> SUFFICES ASSUME WriterInv, [Next]_vars PROVE WriterInv'
  OBVIOUS
<1>1. ASSUME UNCHANGED vars PROVE WriterInv'
  <2>1. UNCHANGED <<disk, expected, at, next, loaded, threadLock, fileLock, stuck, outcome>>
    BY <1>1 DEF vars
  <2>2. LockInv'
    BY <2>1 DEF WriterInv, LockInv, WriterType, HasLocks, Exclusive, FromTheFirst, NotYetTold
  <2>3. Checked' /\ Mutated'
    BY <2>1, ElsewhereKeepsData DEF WriterInv
  <2> QED
    BY <2>2, <2>3 DEF WriterInv
<1>2. ASSUME NEW p \in Process, Crash(p) PROVE WriterInv'
  <2>1. LockInv'
    BY <1>2, CrashKeepsLocks DEF WriterInv
  <2>2. Checked' /\ Mutated'
    BY <1>2, ElsewhereKeepsData DEF WriterInv, Crash, Working
  <2> QED
    BY <2>1, <2>2 DEF WriterInv
<1>3. ASSUME NEW p \in Process, Hang(p) PROVE WriterInv'
  <2>1. stuck' = stuck \cup {p}
        /\ UNCHANGED <<disk, expected, at, next, loaded, threadLock, fileLock, outcome>>
    BY <1>3 DEF Hang, locks
  <2>2. LockInv'
    BY <2>1 DEF WriterInv, LockInv, WriterType, HasLocks, Exclusive, FromTheFirst, NotYetTold
  <2>3. Checked' /\ Mutated'
    BY <2>1, ElsewhereKeepsData DEF WriterInv
  <2> QED
    BY <2>2, <2>3 DEF WriterInv
<1> QED
  BY <1>1, <1>2, <1>3, RequestKeepsInv DEF Next, Quiet

LEMMA InvHolds == Spec => []WriterInv
  BY InvInit, InvNext, PTL DEF Spec

(* Types, and the tie between locks and phases, in every state.            *)
THEOREM TypeHolds == Spec => []WriterType
<1>1. WriterInv => WriterType
  BY DEF WriterInv, LockInv
<1> QED
  BY <1>1, InvHolds, PTL

-----------------------------------------------------------------------------
(* Nobody waits in a circle: a request that polls for a lock file has got  *)
(* all it needs of the directories before it and none behind it.           *)
InOrder ==
  \A r \in Request : at[r] = "lock" => \A d \in Held(r), e \in Missing(r) : d < e

(* Before its first poll a request holds no lock file.                     *)
LEMMA WaitingHoldsNothing ==
  ASSUME WriterType, NEW r \in Request, at[r] = "wait"
  PROVE  Held(r) = {}
  BY DEF WriterType, Held, Section, Working

LEMMA OrderInit == Init => InOrder
  BY DEF Init, InOrder

(* Whoever polls after a step polled before it, and with the locks it had. *)
LEMMA ElsewhereKeepsOrder ==
  ASSUME InOrder,
         \A r \in Request :
           at'[r] = "lock" =>
             /\ at[r] = "lock"
             /\ \A d \in Dir : r \in fileLock'[d] <=> r \in fileLock[d]
  PROVE  InOrder'
  BY DEF InOrder, Held, Missing

LEMMA OrderNext == WriterInv /\ InOrder /\ [Next]_vars => InOrder'
<1> SUFFICES ASSUME WriterInv, InOrder, [Next]_vars PROVE InOrder'
  OBVIOUS
<1>1. WriterType
  BY DEF WriterInv, LockInv
<1>2. at \in [Request -> Phase] /\ fileLock \in [Dir -> SUBSET Request]
  BY <1>1 DEF WriterType
<1>3. ASSUME NEW r \in Request, TakeThreadLock(r) PROVE InOrder'
  <2>1. at[r] = "wait" /\ at' = [at EXCEPT ![r] = "lock"] /\ fileLock' = fileLock
    BY <1>3 DEF TakeThreadLock, GoTo
  <2>2. SUFFICES ASSUME NEW s \in Request, at'[s] = "lock", NEW d \in Held(s), NEW e \in Missing(s)
                 PROVE  d < e
    BY <2>1 DEF InOrder, Held, Missing
  <2>3. CASE s = r
    BY <1>1, <2>1, <2>2, <2>3, WaitingHoldsNothing
  <2>4. CASE s # r
    BY <1>2, <2>1, <2>2, <2>4 DEF InOrder
  <2> QED BY <2>3, <2>4
<1>4. ASSUME NEW r \in Request, NEW d \in Dir, TakeFileLock(r, d) PROVE InOrder'
  <2>1. /\ at[r] = "lock" /\ NextDir(r, d) /\ fileLock' = [fileLock EXCEPT ![d] = @ \cup {r}]
        /\ \A s \in Request : at'[s] = "lock" => at[s] = "lock"
    BY <1>2, <1>4 DEF TakeFileLock
  <2>2. \A s \in Request, e \in Dir :
           s \in fileLock'[e] <=> s \in fileLock[e] \/ (e = d /\ s = r)
    BY <1>2, <2>1
  <2>3. SUFFICES ASSUME NEW s \in Request, at'[s] = "lock",
                        NEW b \in Dir, s \in fileLock'[b],
                        NEW e \in DirsOf(s), e \in Dir, s \notin fileLock'[e]
                 PROVE  b < e
    BY ItemTypes DEF InOrder, Held, Missing
  <2>4. e \in Missing(s) /\ at[s] = "lock"
    BY <2>1, <2>2, <2>3 DEF Missing, Held
  <2>5. CASE s \in fileLock[b]
    BY <2>3, <2>4, <2>5 DEF InOrder, Held
  <2>6. CASE b = d /\ s = r
    <3>1. d <= e /\ e # d
      BY <2>1, <2>2, <2>3, <2>4, <2>6 DEF NextDir
    <3>2. d \in Nat /\ e \in Nat
      BY <2>3, WriterAssumption
    <3> QED BY <2>6, <3>1, <3>2
  <2> QED BY <2>2, <2>3, <2>5, <2>6
<1>5. ASSUME NEW r \in Request, NEW d \in Dir, ReleaseFileLock(r, d) PROVE InOrder'
  <2>1. at[r] = "leave" /\ at' = at /\ fileLock' = [fileLock EXCEPT ![d] = @ \ {r}]
    BY <1>5 DEF ReleaseFileLock
  <2>2. \A s \in Request : at'[s] = "lock" => s # r
    BY <2>1
  <2> QED BY <1>2, <2>1, <2>2, ElsewhereKeepsOrder
<1>6. ASSUME NEW p \in Process, Crash(p) PROVE InOrder'
  <2>1. /\ at' = [r \in Request |-> IF r \in Running(p) THEN "end" ELSE at[r]]
        /\ fileLock' = [d \in Dir |-> fileLock[d] \ Running(p)]
    BY <1>6 DEF Crash
  <2>2. \A s \in Request : at'[s] = "lock" => s \notin Running(p) /\ at[s] = "lock"
    BY <2>1
  <2> QED BY <2>1, <2>2, ElsewhereKeepsOrder
<1>7. ASSUME UNCHANGED fileLock,
             \A s \in Request : at'[s] = "lock" => at[s] = "lock"
      PROVE  InOrder'
  BY <1>7, ElsewhereKeepsOrder
<1>8. ASSUME NEW r \in Request,
             \/ Begin(r) \/ LockUnsupported(r) \/ Raise(r) \/ WriteFails(r)
             \/ Check(r) \/ Load(r) \/ Write(r) \/ ReleaseThreadLock(r)
             \/ \E d \in Dir : TimeOut(r, d)
             \/ \E f \in File : Look(r, f)
      PROVE  InOrder'
  <2>1. fileLock' = fileLock
    BY <1>8 DEF Begin, LockUnsupported, Raise, WriteFails, Check, Load, Write,
       ReleaseThreadLock, TimeOut, Look, locks
  <2>2. \/ at' = at
        \/ \E phase \in Phase \ {"lock"} : at' = [at EXCEPT ![r] = phase]
    BY <1>8 DEF Begin, LockUnsupported, Raise, WriteFails, Check, Load, Write,
       ReleaseThreadLock, TimeOut, Look, Answer, OnTo, GoTo, Phase, Section, Working
  <2> QED BY <1>2, <1>7, <2>1, <2>2
<1>9. ASSUME UNCHANGED <<at, fileLock>> PROVE InOrder'
  BY <1>7, <1>9
<1> QED
  BY <1>3, <1>4, <1>5, <1>6, <1>8, <1>9 DEF Next, Proceed, Hang, Quiet, vars, locks

(* The lock of a process is held by a thread of it.                        *)
OwnThread == \A p \in Process : threadLock[p] # None => ProcessOf[threadLock[p]] = p

LEMMA OwnThreadInit == Init => OwnThread
  BY DEF Init, OwnThread

LEMMA OwnThreadNext == WriterInv /\ OwnThread /\ [Next]_vars => OwnThread'
<1> SUFFICES ASSUME WriterInv, OwnThread, [Next]_vars PROVE OwnThread'
  OBVIOUS
<1>1. threadLock \in [Process -> Request \cup {None}]
  BY DEF WriterInv, LockInv, WriterType
<1>2. ASSUME UNCHANGED threadLock PROVE OwnThread'
  BY <1>2 DEF OwnThread
<1>3. ASSUME NEW r \in Request, TakeThreadLock(r) PROVE OwnThread'
  <2>1. threadLock' = [threadLock EXCEPT ![ProcessOf[r]] = r]
    BY <1>3 DEF TakeThreadLock
  <2> QED BY <1>1, <2>1 DEF OwnThread
<1>4. ASSUME NEW r \in Request, ReleaseThreadLock(r) PROVE OwnThread'
  <2>1. threadLock' = [threadLock EXCEPT ![ProcessOf[r]] = None]
    BY <1>4 DEF ReleaseThreadLock
  <2> QED BY <1>1, <2>1 DEF OwnThread
<1>5. ASSUME NEW p \in Process, Crash(p) PROVE OwnThread'
  <2>1. threadLock' = [threadLock EXCEPT ![p] = None]
    BY <1>5 DEF Crash
  <2> QED BY <1>1, <2>1 DEF OwnThread
<1>6. ASSUME NEW r \in Request,
             \/ Begin(r) \/ LockUnsupported(r) \/ Raise(r) \/ WriteFails(r)
             \/ Check(r) \/ Load(r) \/ Write(r)
             \/ \E d \in Dir : TakeFileLock(r, d) \/ TimeOut(r, d) \/ ReleaseFileLock(r, d)
             \/ \E f \in File : Look(r, f)
      PROVE  OwnThread'
  BY <1>2, <1>6 DEF Begin, LockUnsupported, Raise, WriteFails, Check, Load, Write,
     TakeFileLock, TimeOut, ReleaseFileLock, Look, locks
<1> QED
  BY <1>2, <1>3, <1>4, <1>5, <1>6 DEF Next, Proceed, Hang, Quiet, vars, locks

(* A function from a finite set to numbers has a largest value: the        *)
(* smallest set without one would have one more element than a set with.   *)
LEMMA SmallestOf ==
  ASSUME NEW T, T \subseteq Nat, T # {}
  PROVE  \E x \in T : \A y \in T : x <= y
<1>1. IsWellFoundedOn(OpToRel(<, Nat), Nat)
  BY NatLessThanWellFounded, Zenon
<1>2. PICK x \in T : \A y \in T : <<y, x>> \notin OpToRel(<, Nat)
  BY <1>1, WFMin, Zenon
<1>3. \A y \in T : ~(y < x)
  BY <1>2 DEF OpToRel
<1> QED BY <1>3

LEMMA LargestValue ==
  ASSUME NEW S, IsFiniteSet(S), S # {}, NEW f \in [S -> Nat]
  PROVE  \E x \in S : \A y \in S : f[y] <= f[x]
<1> DEFINE Tops(U) == {x \in U : \A y \in U : f[y] <= f[x]}
           Bad == {U \in SUBSET S : U # {} /\ Tops(U) = {}}
           Sizes == {Cardinality(U) : U \in Bad}
<1>1. \A U \in SUBSET S : IsFiniteSet(U) /\ Cardinality(U) \in Nat
  BY FS_Subset, FS_CardinalityType
<1>2. SUFFICES ASSUME S \in Bad PROVE FALSE
  OBVIOUS
<1>3. Sizes \subseteq Nat /\ Sizes # {}
  BY <1>1, <1>2
<1>4. PICK U \in Bad : \A V \in Bad : Cardinality(U) <= Cardinality(V)
  <2>1. PICK n \in Sizes : \A m \in Sizes : n <= m
    <3> HIDE DEF Sizes
    <3> QED BY <1>3, SmallestOf
  <2>2. PICK U \in Bad : n = Cardinality(U)
    OBVIOUS
  <2> QED BY <2>1, <2>2
<1>5. PICK x \in U : TRUE
  OBVIOUS
<1> DEFINE V == U \ {x}
<1>6. Cardinality(V) < Cardinality(U)
  <2>1. Cardinality(V) = Cardinality(U) - 1
    BY <1>1, <1>5, FS_RemoveElement
  <2>2. Cardinality(U) \in Nat
    BY <1>1
  <2> QED BY <2>1, <2>2
<1>7. V \notin Bad
  <2>1. Cardinality(V) \in Nat /\ Cardinality(U) \in Nat
    BY <1>1
  <2>2. V \in Bad => Cardinality(U) <= Cardinality(V)
    BY <1>4
  <2> HIDE DEF V, Bad
  <2> QED BY <1>6, <2>1, <2>2
<1>8. CASE V = {}
  <2>1. U = {x} /\ f[x] \in Nat
    BY <1>5, <1>8
  <2>2. x \in Tops(U)
    BY <2>1
  <2> QED BY <2>2
<1>9. CASE V # {}
  <2>1. PICK z \in V : \A y \in V : f[y] <= f[z]
    BY <1>7, <1>9
  <2>2. \A y \in U : y = x \/ y \in V
    OBVIOUS
  <2>3. \A y \in U : f[y] \in Nat
    OBVIOUS
  <2>4. f[x] <= f[z] \/ f[z] <= f[x]
    BY <1>5, <2>1, <2>3
  <2>5. CASE f[x] <= f[z]
    <3>1. z \in Tops(U)
      BY <2>1, <2>2, <2>5
    <3> QED BY <3>1
  <2>6. CASE f[z] <= f[x]
    <3>1. \A y \in V : f[y] <= f[x]
      BY <1>5, <2>1, <2>3, <2>6
    <3>2. x \in Tops(U)
      BY <1>5, <2>2, <2>3, <3>1
    <3> QED BY <3>2
  <2> QED BY <2>4, <2>5, <2>6
<1> QED BY <1>8, <1>9

(* Whoever is waited for has its process's lock.                           *)
LEMMA AwaitedInSection ==
  ASSUME WriterType, OwnThread, NEW r \in Request, NEW s \in Request, WaitsFor(r, s)
  PROVE  at[s] \in Section /\ at[s] # "wait"
<1>1. CASE threadLock[ProcessOf[r]] = s
  <2>1. ProcessOf[r] \in Process /\ s # None
    BY WriterAssumption
  <2>2. ProcessOf[s] = ProcessOf[r]
    BY <1>1, <2>1 DEF OwnThread
  <2>3. at[s] \in Section
    BY <1>1, <2>2 DEF WriterType
  <2> QED BY <2>3 DEF Section, Working
<1>2. CASE \E d \in Dir : s \in fileLock[d]
  BY <1>2 DEF WriterType, Section, Working
<1> QED BY <1>1, <1>2 DEF WaitsFor

(* In any group of requests one waits for none of the group, for any       *)
(* number of directories in a batch (config_writer.py:63-65): in a circle  *)
(* everybody would poll, for directories that only go up.                  *)
THEOREM NobodyWaitsInACircle == Spec => []NoCircularWait
<1>1. WriterInv /\ InOrder /\ OwnThread => NoCircularWait
  <2> SUFFICES ASSUME WriterInv, InOrder, OwnThread,
                      NEW S \in SUBSET Request, S # {}, IsFiniteSet(S),
                      \A r \in S : \E s \in S : WaitsFor(r, s)
               PROVE  FALSE
    BY DEF NoCircularWait
  <2>1. WriterType
    BY DEF WriterInv, LockInv
  <2> DEFINE T == {s \in S : at[s] = "lock"}
             polls == [s \in T |-> CHOOSE d \in Dir : Awaits(s, d)]
  <2>2. \A r \in S : \E s \in T : WaitsFor(r, s)
    <3> SUFFICES ASSUME NEW r \in S PROVE \E s \in T : WaitsFor(r, s)
      OBVIOUS
    <3>1. PICK s \in S : WaitsFor(r, s)
      OBVIOUS
    <3>2. at[s] # "wait"
      BY <2>1, <3>1, AwaitedInSection
    <3>3. PICK t \in S : WaitsFor(s, t)
      OBVIOUS
    <3>4. at[s] = "lock"
      BY <3>2, <3>3 DEF WaitsFor, Awaits
    <3> QED BY <3>1, <3>4
  <2>3. T # {} /\ IsFiniteSet(T)
    BY <2>2, FS_Subset
  <2>4. \A s \in T : polls[s] \in Dir /\ Awaits(s, polls[s])
    <3> SUFFICES ASSUME NEW s \in T PROVE polls[s] \in Dir /\ Awaits(s, polls[s])
      OBVIOUS
    <3>1. \E d \in Dir : Awaits(s, d)
      BY <2>2 DEF WaitsFor
    <3> QED BY <3>1
  <2>5. polls \in [T -> Nat]
    BY <2>4, WriterAssumption
  <2>6. PICK s \in T : \A t \in T : polls[t] <= polls[s]
    <3> HIDE DEF T, polls
    <3> QED BY <2>3, <2>5, LargestValue
  <2>7. PICK t \in T : WaitsFor(s, t)
    BY <2>2
  <2>8. PICK d \in Dir : Awaits(s, d) /\ t \in fileLock[d]
    BY <2>7 DEF WaitsFor
  <2>9. d = polls[s]
    <3>1. d <= polls[s] /\ polls[s] <= d
      BY <2>4, <2>8 DEF Awaits, NextDir
    <3>2. d \in Nat /\ polls[s] \in Nat
      BY <2>5, WriterAssumption
    <3> HIDE DEF polls
    <3> QED BY <3>1, <3>2
  <2>10. d < polls[t]
    <3>1. d \in Held(t) /\ polls[t] \in Missing(t)
      BY <2>4, <2>8 DEF Held, Awaits, NextDir
    <3> HIDE DEF polls
    <3> QED BY <3>1 DEF InOrder
  <2>11. d \in Nat /\ polls[t] \in Nat /\ polls[t] <= polls[s]
    BY <2>5, <2>6, WriterAssumption
  <2> HIDE DEF polls
  <2> QED BY <2>9, <2>10, <2>11
<1>2. Spec => []InOrder
  BY OrderInit, OrderNext, InvHolds, PTL DEF Spec
<1>3. Spec => []OwnThread
  BY OwnThreadInit, OwnThreadNext, InvHolds, PTL DEF Spec
<1> QED BY <1>1, <1>2, <1>3, InvHolds, PTL

-----------------------------------------------------------------------------
(* No update is lost: what a step writes into a file is one request's      *)
(* change of the content the file has, and that content is what the        *)
(* request expected.                                                       *)
LEMMA OnlyWritesChange ==
  ASSUME [Next]_vars, disk' # disk
  PROVE  \E r \in Request : Write(r)
  BY DEF Next, vars, Proceed, Look, Begin, TakeThreadLock, TakeFileLock, TimeOut,
     LockUnsupported, Check, Load, Raise, WriteFails, ReleaseFileLock, ReleaseThreadLock,
     Crash, Hang, Quiet

THEOREM UpdatesAreKept == Spec => NoLostUpdate
<1> DEFINE Extends ==
      \A f \in File : disk'[f] # disk[f] =>
        \E r \in Request : disk'[f] = Append(disk[f], r) /\ AsExpected(r, f)
<1>1. ASSUME WriterInv, [Next]_vars PROVE [Extends]_vars
  <2>1. SUFFICES ASSUME NEW f \in File, disk'[f] # disk[f]
                 PROVE  \E r \in Request : disk'[f] = Append(disk[f], r) /\ AsExpected(r, f)
    OBVIOUS
  <2>2. PICK r \in Request : Write(r)
    BY <1>1, <2>1, OnlyWritesChange
  <2>3. /\ disk' = [disk EXCEPT ![Item(r)] = Append(disk[Item(r)], r)]
        /\ AsExpected(r, Item(r))
        /\ disk \in [File -> Seq(Request)]
    BY <1>1, <2>2, WriteExtends DEF WriterInv, LockInv, WriterType
  <2>4. f = Item(r)
    BY <2>1, <2>3
  <2>5. disk'[f] = Append(disk[f], r) /\ AsExpected(r, f)
    BY <2>3, <2>4
  <2> QED
    BY <2>5
<1>2. Spec => [][Extends]_vars
  BY <1>1, InvHolds, PTL DEF Spec
<1> QED
  BY <1>2 DEF NoLostUpdate

-----------------------------------------------------------------------------
(* What callers are told.  A file carries the change of a request only if  *)
(* the request is past that file in its third pass, or was told so or told *)
(* of a failure; and what it is past, the file carries.                    *)
Carries(f, r) == \E i \in DOMAIN disk[f] : disk[f][i] = r
Past(r, f) == at[r] = "write" /\ \E i \in 1..Len(Items[r]) : i < next[r] /\ Items[r][i] = f

NoStrayChange ==
  \A r \in Request : \A f \in File :
    Carries(f, r) => outcome[r] \in {"written", "failed", "lost"} \/ Past(r, f)

NoMissingChange ==
  \A r \in Request : \A f \in File :
    (outcome[r] = "written" /\ f \in FilesOf(r)) \/ Past(r, f) => Carries(f, r)

OnceEach ==
  \A f \in File : \A i, j \in DOMAIN disk[f] : disk[f][i] = disk[f][j] => i = j

Told == NoStrayChange /\ NoMissingChange /\ OnceEach

(* A step that writes nothing: a request stays where it is, was told       *)
(* nothing yet and is not writing, or ends in its third pass.              *)
LEMMA ReadingKeepsTold ==
  ASSUME Told, disk' = disk,
         \A s \in Request :
           \/ at'[s] = at[s] /\ next'[s] = next[s] /\ outcome'[s] = outcome[s]
           \/ /\ at[s] # "write"
              /\ outcome'[s] = outcome[s] \/ (outcome[s] = None /\ outcome'[s] # "written")
              /\ at'[s] = "write" => next'[s] = 1
           \/ at'[s] # "write" /\ outcome'[s] \in {"failed", "lost"}
  PROVE  Told'
<1>1. \A f, s : Carries(f, s)' <=> Carries(f, s)
  BY DEF Carries
<1>2. \A s \in Request : \A i \in 1..Len(Items[s]) : ~(i < 1)
  BY ItemTypes
<1>3. \A s \in Request : \A f \in File : Past(s, f)' => Past(s, f)
  BY <1>2 DEF Past
<1>4. \A s \in Request : \A f \in File : Past(s, f) =>
        Past(s, f)' \/ outcome'[s] \in {"failed", "lost"}
  BY DEF Past
<1>5. NoStrayChange'
  <2>1. SUFFICES ASSUME NEW s \in Request, NEW f \in File, Carries(f, s)
                 PROVE  outcome'[s] \in {"written", "failed", "lost"} \/ Past(s, f)'
    BY <1>1 DEF NoStrayChange
  <2>2. CASE Past(s, f)
    BY <1>4, <2>2
  <2>3. CASE outcome[s] \in {"written", "failed", "lost"}
    BY <2>3, WriterAssumption DEF Outcome
  <2> QED
    BY <2>1, <2>2, <2>3 DEF Told, NoStrayChange
<1>6. NoMissingChange'
  BY <1>1, <1>3 DEF Told, NoMissingChange
<1>7. OnceEach'
  BY DEF Told, OnceEach
<1> QED
  BY <1>5, <1>6, <1>7 DEF Told

LEMMA WriteKeepsTold ==
  ASSUME WriterInv, Told, NEW r \in Request, Write(r)
  PROVE  Told'
<1>1. /\ at[r] = "write" /\ at \in [Request -> Phase] /\ next \in [Request -> Nat \ {0}]
      /\ next[r] \in 1..Len(Items[r]) /\ Item(r) \in File
      /\ outcome \in [Request -> Outcome \cup {None}] /\ outcome[r] = None
      /\ disk \in [File -> Seq(Request)]
  BY ItemIn DEF Write, WriterInv, LockInv, WriterType, NotYetTold
<1>2. disk' = [disk EXCEPT ![Item(r)] = Append(disk[Item(r)], r)]
  BY WriteExtends
<1>3. /\ \A f \in File : f # Item(r) => disk'[f] = disk[f]
      /\ disk'[Item(r)] = Append(disk[Item(r)], r)
  BY <1>1, <1>2
<1>4. /\ DOMAIN disk'[Item(r)] = 1..(Len(disk[Item(r)]) + 1)
      /\ DOMAIN disk[Item(r)] = 1..Len(disk[Item(r)]) /\ Len(disk[Item(r)]) \in Nat
      /\ \A i \in DOMAIN disk[Item(r)] : disk'[Item(r)][i] = disk[Item(r)][i]
      /\ disk'[Item(r)][Len(disk[Item(r)]) + 1] = r
  BY <1>1, <1>3
<1>5. \A f \in File : \A s : Carries(f, s)' <=> Carries(f, s) \/ (f = Item(r) /\ s = r)
  <2>1. SUFFICES ASSUME NEW f \in File, NEW s
                 PROVE  Carries(f, s)' <=> Carries(f, s) \/ (f = Item(r) /\ s = r)
    OBVIOUS
  <2>2. CASE f # Item(r)
    BY <1>3, <2>2 DEF Carries
  <2>3. CASE f = Item(r)
    <3>1. \A i : i \in DOMAIN disk'[f] <=> i \in DOMAIN disk[f] \/ i = Len(disk[f]) + 1
      BY <1>4, <2>3
    <3> QED
      BY <1>4, <2>3, <3>1 DEF Carries
  <2> QED
    BY <2>2, <2>3
<1>6. ~Carries(Item(r), r)
  <2>1. ~Past(r, Item(r))
    BY <1>1, ItemTypes, WriterAssumption DEF Past, Item
  <2> QED
    BY <1>1, <2>1, WriterAssumption DEF Told, NoStrayChange, Outcome
<1>7. \A s \in Request : s # r => at'[s] = at[s] /\ next'[s] = next[s] /\ outcome'[s] = outcome[s]
  BY <1>1 DEF Write, Answer, GoTo
<1>8. \A s \in Request : s # r => \A f : Past(s, f)' <=> Past(s, f)
  BY <1>7 DEF Past
<1>9. \/ /\ next[r] < Len(Items[r]) /\ at'[r] = "write"
         /\ next'[r] = next[r] + 1 /\ outcome'[r] = None
      \/ next[r] = Len(Items[r]) /\ at'[r] = "leave" /\ outcome'[r] = "written"
  BY <1>1, ItemTypes DEF Write, Answer, GoTo
<1>10. \A f \in File : Past(r, f)' =>  Past(r, f) \/ f = Item(r)
  BY <1>1, <1>9, ItemTypes DEF Past, Item
<1>11. \A f \in File : Past(r, f) \/ f = Item(r) => Past(r, f)' \/ outcome'[r] = "written"
  <2>1. SUFFICES ASSUME NEW f \in File, Past(r, f) \/ f = Item(r), outcome'[r] # "written"
                 PROVE  Past(r, f)'
    OBVIOUS
  <2>2. PICK i \in 1..Len(Items[r]) : i <= next[r] /\ Items[r][i] = f
    BY <1>1, <2>1, ItemTypes DEF Past, Item
  <2>3. i < next'[r] /\ at'[r] = "write"
    BY <1>1, <1>9, <2>1, <2>2, ItemTypes
  <2> QED
    BY <2>2, <2>3 DEF Past
<1>12. NoStrayChange'
  <2>1. SUFFICES ASSUME NEW s \in Request, NEW f \in File, Carries(f, s)'
                 PROVE  outcome'[s] \in {"written", "failed", "lost"} \/ Past(s, f)'
    BY DEF NoStrayChange
  <2>2. CASE s # r
    BY <1>5, <1>7, <1>8, <2>1, <2>2 DEF Told, NoStrayChange
  <2>3. CASE s = r
    <3>1. Past(r, f) \/ f = Item(r)
      BY <1>1, <1>5, <2>1, <2>3, WriterAssumption DEF Told, NoStrayChange, Outcome
    <3> QED
      BY <1>11, <2>3, <3>1
  <2> QED
    BY <2>2, <2>3
<1>13. NoMissingChange'
  <2>1. SUFFICES ASSUME NEW s \in Request, NEW f \in File,
                        (outcome'[s] = "written" /\ f \in FilesOf(s)) \/ Past(s, f)'
                 PROVE  Carries(f, s)'
    BY DEF NoMissingChange
  <2>2. CASE s # r
    BY <1>5, <1>7, <1>8, <2>1, <2>2 DEF Told, NoMissingChange
  <2>3. CASE s = r
    <3>1. CASE Past(r, f)'
      BY <1>5, <1>10, <2>3, <3>1 DEF Told, NoMissingChange
    <3>2. CASE outcome'[r] = "written" /\ f \in FilesOf(r)
      <4>1. PICK i \in 1..Len(Items[r]) : Items[r][i] = f
        BY <3>2 DEF FilesOf
      <4>2. next[r] = Len(Items[r])
        BY <1>9, <3>2, WriterAssumption DEF Outcome
      <4>3. CASE i < next[r]
        BY <1>1, <1>5, <2>3, <4>1, <4>3 DEF Told, NoMissingChange, Past
      <4>4. CASE i = next[r]
        BY <1>5, <2>3, <4>1, <4>4 DEF Item
      <4> QED
        BY <4>1, <4>2, <4>3, <4>4, ItemTypes
    <3> QED
      BY <2>1, <2>3, <3>1, <3>2
  <2> QED
    BY <2>2, <2>3
<1>14. OnceEach'
  <2>1. SUFFICES ASSUME NEW f \in File, NEW i \in DOMAIN disk'[f], NEW j \in DOMAIN disk'[f],
                        disk'[f][i] = disk'[f][j]
                 PROVE  i = j
    BY DEF OnceEach
  <2>2. CASE f # Item(r)
    BY <1>3, <2>1, <2>2 DEF Told, OnceEach
  <2>3. CASE f = Item(r)
    <3>1. \A k \in DOMAIN disk'[f] : k \in DOMAIN disk[f] \/ k = Len(disk[f]) + 1
      BY <1>4, <2>3
    <3>2. \A k \in DOMAIN disk[f] : disk[f][k] # r
      BY <1>6, <2>3 DEF Carries
    <3> QED
      BY <1>4, <2>1, <2>3, <3>1, <3>2 DEF Told, OnceEach
  <2> QED
    BY <2>2, <2>3
<1> QED
  BY <1>12, <1>13, <1>14 DEF Told

LEMMA ToldInit == Init => Told
  BY WriterAssumption DEF Init, Told, NoStrayChange, NoMissingChange, OnceEach, Carries, Past, Outcome

LEMMA ToldNext == WriterInv /\ Told /\ [Next]_vars => Told'
<1> SUFFICES ASSUME WriterInv, Told, [Next]_vars PROVE Told'
  OBVIOUS
<1>1. /\ at \in [Request -> Phase] /\ next \in [Request -> Nat \ {0}]
      /\ outcome \in [Request -> Outcome \cup {None}]
      /\ \A s \in Request : at[s] \notin {"leave", "end"} => outcome[s] = None
  BY DEF WriterInv, LockInv, WriterType, NotYetTold
<1>2. ASSUME NEW r \in Request, NEW o \in Outcome, Answer(r, o), disk' = disk,
             \/ at[r] \in {"lock", "check", "load"} /\ o # "written"
             \/ at[r] = "write" /\ o = "failed"
      PROVE  Told'
  <2>1. \A s \in Request :
          /\ s # r => at'[s] = at[s] /\ next'[s] = next[s] /\ outcome'[s] = outcome[s]
          /\ at'[r] = "leave" /\ outcome'[r] = o
    BY <1>1, <1>2 DEF Answer, GoTo
  <2> QED
    BY <1>1, <1>2, <2>1, ReadingKeepsTold
<1>3. ASSUME NEW r \in Request,
             \/ Begin(r) \/ TakeThreadLock(r) \/ ReleaseThreadLock(r)
             \/ \E d \in Dir : TakeFileLock(r, d) \/ ReleaseFileLock(r, d)
             \/ \E f \in File : Look(r, f)
      PROVE  Told'
  <2>1. disk' = disk /\ outcome' = outcome /\ next' = next
    BY <1>3 DEF Begin, TakeThreadLock, ReleaseThreadLock, TakeFileLock, ReleaseFileLock, Look
  <2>2. \A s \in Request : at'[s] = at[s] \/ (at[s] # "write" /\ at'[s] # "write")
    BY <1>1, <1>3 DEF Begin, TakeThreadLock, ReleaseThreadLock, TakeFileLock, ReleaseFileLock,
       Look, GoTo
  <2> QED
    BY <2>1, <2>2, ReadingKeepsTold
<1>4. ASSUME NEW r \in Request, LockUnsupported(r) \/ Raise(r) \/ WriteFails(r)
      PROVE  Told'
  BY <1>2, <1>4 DEF LockUnsupported, Raise, WriteFails, Outcome
<1>5. ASSUME NEW r \in Request, NEW d \in Dir, TimeOut(r, d) PROVE Told'
  BY <1>2, <1>5 DEF TimeOut, Outcome
<1>6. ASSUME NEW r \in Request, Check(r) \/ Load(r) PROVE Told'
  <2>1. CASE Answer(r, "conflict")
    BY <1>2, <1>6, <2>1 DEF Check, Load, OnTo, GoTo, Outcome, Answer
  <2>2. ASSUME NEW phase \in {"load", "write"}, OnTo(r, phase), UNCHANGED <<disk, outcome>>,
               at[r] # "write"
        PROVE  Told'
    <3>1. \A s \in Request :
            \/ at'[s] = at[s] /\ next'[s] = next[s]
            \/ at[s] # "write" /\ (at'[s] = "write" => next'[s] = 1)
      BY <1>1, <2>2 DEF OnTo, GoTo
    <3> QED
      BY <2>2, <3>1, ReadingKeepsTold
  <2> QED
    BY <1>6, <2>1, <2>2 DEF Check, Load
<1>7. ASSUME NEW r \in Request, Write(r) PROVE Told'
  BY <1>7, WriteKeepsTold
<1>8. ASSUME NEW p \in Process, Crash(p) PROVE Told'
  <2>1. \A s \in Request :
          /\ s \notin Running(p) => at'[s] = at[s] /\ next'[s] = next[s] /\ outcome'[s] = outcome[s]
          /\ s \in Running(p) =>
               /\ at'[s] = "end"
               /\ outcome'[s] = IF outcome[s] = None THEN "lost" ELSE outcome[s]
    BY <1>8 DEF Crash
  <2>2. \A s \in Request : at[s] = "write" => outcome[s] = None
    BY <1>1
  <2> QED
    BY <1>8, <2>1, <2>2, ReadingKeepsTold DEF Crash
<1>9. ASSUME UNCHANGED <<disk, at, next, outcome>> PROVE Told'
  BY <1>9, ReadingKeepsTold
<1> QED
  BY <1>3, <1>4, <1>5, <1>6, <1>7, <1>8, <1>9 DEF Next, Proceed, Hang, Quiet, vars

(* A caller told "written" has its change, once, in every file of its      *)
(* batch; one told of a conflict, of a missing lock or of a refused        *)
(* mutation has changed nothing.                                           *)
THEOREM CallersAreToldTheTruth == Spec => []OutcomesAreTrue
<1>1. WriterInv /\ Told => OutcomesAreTrue
  <2>1. SUFFICES ASSUME WriterInv, Told, NEW r \in Request
                 PROVE  /\ outcome[r] = "written" =>
                             \A f \in FilesOf(r) : \E i \in DOMAIN disk[f] :
                                disk[f][i] = r /\ \A j \in DOMAIN disk[f] : disk[f][j] = r => i = j
                        /\ outcome[r] \in {"conflict", "unavailable", "refused"} =>
                             \A f \in File : ~Carries(f, r)
    BY DEF OutcomesAreTrue, Carries
  <2>2. FilesOf(r) \subseteq File
    BY ItemTypes
  <2>3. ASSUME outcome[r] = "written", NEW f \in FilesOf(r)
        PROVE  \E i \in DOMAIN disk[f] :
                 disk[f][i] = r /\ \A j \in DOMAIN disk[f] : disk[f][j] = r => i = j
    BY <2>1, <2>2, <2>3 DEF Told, NoMissingChange, OnceEach, Carries
  <2>4. ASSUME outcome[r] \in {"conflict", "unavailable", "refused"}, NEW f \in File,
               Carries(f, r)
        PROVE  FALSE
    <3>1. Past(r, f)
      BY <2>1, <2>4 DEF Told, NoStrayChange
    <3> QED
      BY <2>1, <2>4, <3>1, WriterAssumption DEF Past, WriterInv, LockInv, NotYetTold, Outcome
  <2> QED
    BY <2>3, <2>4
<1> QED
  BY <1>1, InvHolds, ToldInit, ToldNext, PTL DEF Spec

-----------------------------------------------------------------------------
(* What each step is to the store of versioned files.                      *)
LEMMA WritingIs ==
  ASSUME NEW s \in Request
  PROVE  /\ writing[s] = Remaining(s)
         /\ at[s] # "write" => writing[s] = {}
  BY DEF writing, Remaining

LEMMA WritingSame ==
  ASSUME \A s \in Request : \/ at'[s] = at[s] /\ next'[s] = next[s]
                            \/ at[s] # "write" /\ at'[s] # "write"
  PROVE  writing' = writing
  BY DEF writing, Remaining

(* A step of r that changes the phase of r only.                           *)
LEMMA WritingExcept ==
  ASSUME NEW r \in Request, NEW X,
         \A s \in Request : s # r => at'[s] = at[s] /\ next'[s] = next[s],
         Remaining(r)' = X
  PROVE  writing' = [writing EXCEPT ![r] = X]
<1>1. \A s \in Request : s # r => Remaining(s)' = Remaining(s)
  BY DEF Remaining
<1>2. \A s \in Request : writing'[s] = IF s = r THEN X ELSE writing[s]
  BY <1>1 DEF writing
<1> QED
  BY <1>2 DEF writing

LEMMA StartRefines == Init => Versioned!VersionedInit
<1> SUFFICES ASSUME Init PROVE Versioned!VersionedInit
  OBVIOUS
<1>1. writing = [r \in Request |-> {}]
  BY DEF Init, writing, Remaining
<1> QED
  BY <1>1 DEF Init, Versioned!VersionedInit, Unconditional

LEMMA EndRefines ==
  ASSUME NEW r \in Request, NEW o, Answer(r, o)
  PROVE  Versioned!End(r, o)
  BY DEF Answer, Versioned!End, Unconditional

LEMMA RefusalRefines ==
  ASSUME WriterInv, NEW r \in Request, NEW o \in {"unavailable", "refused"},
         at[r] \in {"lock", "check", "load"}, Answer(r, o), disk' = disk
  PROVE  Versioned!Refuse(r)
<1>1. Versioned!Undecided(r)
  BY WritingIs DEF WriterInv, LockInv, NotYetTold, Versioned!Undecided
<1>2. writing' = writing
  BY WritingSame DEF WriterInv, LockInv, WriterType, Answer, GoTo
<1> QED
  BY <1>1, <1>2, EndRefines DEF Versioned!Refuse

LEMMA ConflictRefines ==
  ASSUME WriterInv, NEW r \in Request, at[r] = "check", ~AsExpected(r, Item(r)),
         Answer(r, "conflict"), disk' = disk
  PROVE  Versioned!Conflict(r)
<1>1. Versioned!Undecided(r)
  BY WritingIs DEF WriterInv, LockInv, NotYetTold, Versioned!Undecided
<1>2. writing' = writing
  BY WritingSame DEF WriterInv, LockInv, WriterType, Answer, GoTo
<1>3. Item(r) \in Wanted[r] /\ ~Versioned!AsExpected(r, Item(r))
  BY ItemIn DEF WriterInv, LockInv, Item, Wanted, FilesOf, AsExpected, Versioned!AsExpected
<1> QED
  BY <1>1, <1>2, <1>3, EndRefines DEF Versioned!Conflict

LEMMA CommitRefines ==
  ASSUME WriterInv, NEW r \in Request, Load(r), next[r] = Len(Items[r])
  PROVE  Versioned!Commit(r)
<1>1. /\ at[r] = "load" /\ at' = [at EXCEPT ![r] = "write"] /\ next' = [next EXCEPT ![r] = 1]
      /\ UNCHANGED <<disk, expected, outcome>>
      /\ at \in [Request -> Phase] /\ next \in [Request -> Nat \ {0}]
  BY ItemTypes DEF Load, OnTo, GoTo, WriterInv, LockInv, WriterType
<1>2. Versioned!Undecided(r)
  BY <1>1, WritingIs DEF WriterInv, LockInv, NotYetTold, Versioned!Undecided
<1>3. \A f \in Wanted[r] : Versioned!AsExpected(r, f)
  BY <1>1 DEF Wanted, FilesOf, WriterInv, Checked, AsExpected, Versioned!AsExpected
<1>4. \A s \in Request : writing[s] \cap Wanted[r] = {}
  <2>1. SUFFICES ASSUME NEW s \in Request, NEW f, f \in writing[s], f \in FilesOf(r)
                 PROVE  FALSE
    BY DEF Wanted
  <2>2. at[s] = "write" /\ f \in {Items[s][i] : i \in next[s]..Len(Items[s])}
    BY <2>1, WritingIs DEF Remaining
  <2>3. PICK i \in next[s]..Len(Items[s]) : f = Items[s][i]
    BY <2>2
  <2>4. i \in 1..Len(Items[s])
    BY <1>1, <2>3, ItemTypes
  <2>5. PICK j \in 1..Len(Items[r]) : f = Items[r][j]
    BY <2>1 DEF FilesOf
  <2>6. s = r
    BY <1>1, <2>2, <2>3, <2>4, <2>5, Alone DEF WriterInv, Working
  <2> QED
    BY <1>1, <2>2, <2>6
<1>5. Remaining(r)' = Wanted[r]
  BY <1>1 DEF Remaining, Wanted, FilesOf
<1>6. writing' = [writing EXCEPT ![r] = Wanted[r]]
  BY <1>1, <1>5, WritingExcept
<1> QED
  BY <1>1, <1>2, <1>3, <1>4, <1>6 DEF Versioned!Commit

LEMMA WriteRefines ==
  ASSUME WriterInv, NEW r \in Request, Write(r)
  PROVE  Versioned!Change(r, Item(r))
<1>1. /\ at[r] = "write" /\ at \in [Request -> Phase] /\ next \in [Request -> Nat \ {0}]
      /\ next[r] \in 1..Len(Items[r])
  BY ItemIn DEF Write, WriterInv, LockInv, WriterType
<1>2. disk' = [disk EXCEPT ![Item(r)] = Append(disk[Item(r)], r)]
  BY WriteExtends
<1>3. writing[r] = {Items[r][i] : i \in next[r]..Len(Items[r])} /\ Item(r) \in writing[r]
  <2>1. writing[r] = {Items[r][i] : i \in next[r]..Len(Items[r])}
    BY <1>1, WritingIs DEF Remaining
  <2>2. next[r] \in next[r]..Len(Items[r])
    BY <1>1, ItemTypes
  <2> QED
    BY <2>1, <2>2 DEF Item
<1>4. Remaining(r)' = writing[r] \ {Item(r)}
  <2>1. CASE next[r] < Len(Items[r])
    <3>1. at'[r] = "write" /\ next'[r] = next[r] + 1
      BY <1>1, <2>1 DEF Write
    <3>2. Remaining(r)' = {Items[r][i] : i \in (next[r] + 1)..Len(Items[r])}
      BY <3>1 DEF Remaining
    <3>3. \A i \in next[r]..Len(Items[r]) :
            i \in (next[r] + 1)..Len(Items[r]) <=> Items[r][i] # Item(r)
      BY <1>1, ItemTypes, WriterAssumption DEF Item
    <3>4. \A i \in (next[r] + 1)..Len(Items[r]) : i \in next[r]..Len(Items[r])
      BY <1>1, ItemTypes
    <3> QED
      BY <1>3, <3>2, <3>3, <3>4
  <2>2. CASE next[r] = Len(Items[r])
    <3>1. at'[r] = "leave"
      BY <1>1, <2>2, ItemTypes DEF Write, Answer, GoTo
    <3>2. writing[r] = {Item(r)}
      BY <1>1, <1>3, <2>2, ItemTypes DEF Item
    <3> QED
      BY <3>1, <3>2 DEF Remaining
  <2> QED
    BY <1>1, <2>1, <2>2, ItemTypes
<1>5. writing' = [writing EXCEPT ![r] = writing[r] \ {Item(r)}]
  <2>1. \A s \in Request : s # r => at'[s] = at[s] /\ next'[s] = next[s]
    BY <1>1 DEF Write, Answer, GoTo
  <2> QED
    BY <1>4, <2>1, WritingExcept
<1>6. CASE next[r] < Len(Items[r])
  <2>1. UNCHANGED <<expected, outcome>>
    BY <1>6 DEF Write
  <2>2. Items[r][next[r] + 1] \in writing[r] /\ Items[r][next[r] + 1] # Item(r)
    <3>1. /\ next[r] + 1 \in next[r]..Len(Items[r])
          /\ next[r] + 1 \in 1..Len(Items[r]) /\ next[r] + 1 # next[r]
      BY <1>1, <1>6, ItemTypes
    <3>2. Items[r][next[r] + 1] # Items[r][next[r]]
      BY <1>1, <3>1, WriterAssumption
    <3> QED
      BY <1>3, <3>1, <3>2 DEF Item
  <2>3. writing[r] # {Item(r)}
    BY <2>2
  <2> QED
    BY <1>2, <1>3, <1>5, <2>1, <2>3 DEF Versioned!Change
<1>7. CASE next[r] = Len(Items[r])
  <2>1. Versioned!End(r, "written")
    BY <1>1, <1>7, EndRefines, ItemTypes DEF Write
  <2>2. writing[r] = {Item(r)}
    BY <1>1, <1>3, <1>7, ItemTypes DEF Item
  <2> QED
    BY <1>2, <1>3, <1>5, <2>1, <2>2 DEF Versioned!Change
<1> QED
  BY <1>1, <1>6, <1>7, ItemTypes

LEMMA FailureRefines ==
  ASSUME WriterInv, NEW r \in Request, WriteFails(r)
  PROVE  Versioned!Fail(r)
<1>1. /\ at[r] = "write" /\ Answer(r, "failed") /\ disk' = disk
      /\ at \in [Request -> Phase] /\ next \in [Request -> Nat \ {0}]
      /\ next[r] \in 1..Len(Items[r])
  BY ItemIn DEF WriteFails, WriterInv, LockInv, WriterType
<1>2. writing[r] # {}
  <2>1. Items[r][next[r]] \in {Items[r][i] : i \in next[r]..Len(Items[r])}
    BY <1>1, ItemTypes
  <2> QED
    BY <1>1, <2>1, WritingIs DEF Remaining
<1>3. /\ \A s \in Request : s # r => at'[s] = at[s] /\ next'[s] = next[s]
      /\ at'[r] = "leave"
  BY <1>1 DEF Answer, GoTo
<1>4. Remaining(r)' = {}
  BY <1>3 DEF Remaining
<1>5. writing' = [writing EXCEPT ![r] = {}]
  BY <1>3, <1>4, WritingExcept
<1> QED
  BY <1>1, <1>2, <1>5, EndRefines DEF Versioned!Fail

LEMMA CrashRefines ==
  ASSUME NEW p \in Process, Crash(p)
  PROVE  Versioned!Lose(Running(p))
<1>1. \A s \in Request : /\ s \in Running(p) => at'[s] = "end"
                         /\ s \notin Running(p) => at'[s] = at[s] /\ next'[s] = next[s]
  BY DEF Crash
<1>2. writing' = [s \in Request |-> IF s \in Running(p) THEN {} ELSE writing[s]]
  BY <1>1 DEF writing, Remaining
<1> QED
  BY <1>2 DEF Crash, Versioned!Lose, Unconditional

LEMMA LookRefines ==
  ASSUME WriterInv, NEW r \in Request, NEW f \in File, Look(r, f)
  PROVE  Versioned!Note(r, f)
<1>1. Versioned!Undecided(r)
  BY WritingIs DEF Look, WriterInv, LockInv, NotYetTold, Versioned!Undecided
<1>2. writing' = writing
  BY WritingSame DEF Look
<1> QED
  BY <1>1, <1>2 DEF Look, Versioned!Note

LEMMA NextRefines ==
  WriterInv /\ [Next]_vars => [Versioned!VersionedNext]_Versioned!versionedVars
<1> SUFFICES ASSUME WriterInv, [Next]_vars
             PROVE  [Versioned!VersionedNext]_Versioned!versionedVars
  OBVIOUS
<1> USE DEF Versioned!VersionedNext, Versioned!versionedVars
<1>1. at \in [Request -> Phase]
  BY DEF WriterInv, LockInv, WriterType
<1>2. ASSUME UNCHANGED <<disk, expected, outcome>>,
             \A s \in Request : \/ at'[s] = at[s] /\ next'[s] = next[s]
                                \/ at[s] # "write" /\ at'[s] # "write"
      PROVE  UNCHANGED Versioned!versionedVars
  BY <1>2, WritingSame
<1>3. ASSUME NEW r \in Request, Begin(r) \/ TakeThreadLock(r) \/ ReleaseThreadLock(r)
      PROVE  UNCHANGED Versioned!versionedVars
  BY <1>1, <1>2, <1>3 DEF Begin, TakeThreadLock, ReleaseThreadLock, GoTo
<1>4. ASSUME NEW r \in Request, NEW d \in Dir, TakeFileLock(r, d) \/ ReleaseFileLock(r, d)
      PROVE  UNCHANGED Versioned!versionedVars
  BY <1>1, <1>2, <1>4 DEF TakeFileLock, ReleaseFileLock
<1>5. ASSUME NEW r \in Request, NEW d \in Dir, TimeOut(r, d)
      PROVE  Versioned!VersionedNext
  BY <1>5, RefusalRefines DEF TimeOut
<1>6. ASSUME NEW r \in Request, LockUnsupported(r) \/ Raise(r)
      PROVE  Versioned!VersionedNext
  BY <1>6, RefusalRefines DEF LockUnsupported, Raise
<1>7. ASSUME NEW r \in Request, WriteFails(r)
      PROVE  Versioned!VersionedNext
  BY <1>7, FailureRefines
<1>8. ASSUME NEW r \in Request, Check(r)
      PROVE  [Versioned!VersionedNext]_Versioned!versionedVars
  <2>1. CASE OnTo(r, "load") /\ UNCHANGED <<expected, loaded, outcome>>
    <3>1. at[r] = "check" /\ disk' = disk
      BY <1>8 DEF Check
    <3>2. \A s \in Request : \/ at'[s] = at[s] /\ next'[s] = next[s]
                             \/ at[s] # "write" /\ at'[s] # "write"
      BY <1>1, <2>1, <3>1 DEF OnTo, GoTo, WriterInv, LockInv, WriterType
    <3> QED
      BY <1>2, <2>1, <3>1, <3>2
  <2>2. CASE ~AsExpected(r, Item(r)) /\ Answer(r, "conflict")
    BY <1>8, <2>2, ConflictRefines DEF Check
  <2> QED
    BY <1>8, <2>1, <2>2 DEF Check
<1>9. ASSUME NEW r \in Request, Load(r)
      PROVE  [Versioned!VersionedNext]_Versioned!versionedVars
  <2>1. CASE next[r] < Len(Items[r])
    <3>1. \A s \in Request : \/ at'[s] = at[s] /\ next'[s] = next[s]
                             \/ at[s] # "write" /\ at'[s] # "write"
      BY <1>9, <2>1 DEF Load, OnTo, WriterInv, LockInv, WriterType
    <3> QED
      BY <1>2, <1>9, <3>1 DEF Load
  <2>2. CASE next[r] = Len(Items[r])
    BY <1>9, <2>2, CommitRefines
  <2> QED
    BY <2>1, <2>2, ItemIn, ItemTypes DEF WriterInv, LockInv
<1>10. ASSUME NEW r \in Request, Write(r)
       PROVE  Versioned!VersionedNext
  <2>1. Item(r) \in File
    BY ItemIn DEF WriterInv, LockInv
  <2> QED
    BY <1>10, <2>1, WriteRefines
<1>11. ASSUME NEW r \in Request, NEW f \in File, Look(r, f)
       PROVE  Versioned!VersionedNext
  BY <1>11, LookRefines
<1>12. ASSUME NEW p \in Process, Crash(p)
       PROVE  Versioned!VersionedNext
  BY <1>12, CrashRefines DEF Running
<1>13. ASSUME NEW p \in Process, Hang(p)
       PROVE  UNCHANGED Versioned!versionedVars
  BY <1>2, <1>13 DEF Hang
<1>14. ASSUME UNCHANGED vars PROVE UNCHANGED Versioned!versionedVars
  BY <1>2, <1>14 DEF vars
<1> QED
  BY <1>3, <1>4, <1>5, <1>6, <1>7, <1>8, <1>9, <1>10, <1>11, <1>12, <1>13, <1>14
     DEF Next, Proceed, Quiet

(* The writer implements the store of versioned files: a batch commits     *)
(* when every file it expects is as expected and nobody else is writing    *)
(* there, and everything else it does is invisible.                        *)
THEOREM WriterIsVersioned == Spec => ImplementsVersionedFiles
<1>1. Init => Versioned!VersionedInit
  BY StartRefines
<1>2. WriterInv /\ [Next]_vars => [Versioned!VersionedNext]_Versioned!versionedVars
  BY NextRefines
<1> QED
  BY <1>1, <1>2, InvHolds, PTL DEF Spec, Versioned!VersionedSpec, ImplementsVersionedFiles
=============================================================================
