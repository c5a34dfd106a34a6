---------------------------- MODULE VersionedFiles ---------------------------
(***************************************************************************)
(* What the configuration writer promises its callers: files that are      *)
(* changed only by batches, each of which sees every file it expects at    *)
(* the revision it expects, and is alone on its files from that moment     *)
(* until it has changed the last of them or has failed.  ConfigWriter is   *)
(* shown to implement this specification.                                  *)
(***************************************************************************)
EXTENDS Sequences

CONSTANTS
  Request,      \* the batches
  File,
  Wanted,       \* Wanted[r]: the files of batch r
  Any,          \* the expectation that is always met
  None

VARIABLES
  files,        \* files[f]: the batches that changed f, in order
  expected,     \* expected[r][f]: the revision r wants to find
  open,         \* open[r]: the files r is about to change
  outcome       \* outcome[r]: how r ended

versionedVars == <<files, expected, open, outcome>>

VersionedInit ==
  /\ files = [f \in File |-> << >>]
  /\ expected = [r \in Request |-> [f \in File |-> Any]]
  /\ open = [r \in Request |-> {}]
  /\ outcome = [r \in Request |-> None]

(* The end of a batch, with which the revisions it asked for are forgotten. *)
End(r, o) ==
  /\ outcome' = [outcome EXCEPT ![r] = o]
  /\ expected' = [expected EXCEPT ![r] = [f \in File |-> Any]]

Undecided(r) == outcome[r] = None /\ open[r] = {}

AsExpected(r, f) == expected[r][f] = Any \/ expected[r][f] = files[f]

Note(r, f) ==
  /\ Undecided(r)
  /\ expected' = [expected EXCEPT ![r][f] = files[f]]
  /\ UNCHANGED <<files, open, outcome>>

Commit(r) ==
  /\ Undecided(r)
  /\ \A f \in Wanted[r] : AsExpected(r, f)
  /\ \A s \in Request : open[s] \cap Wanted[r] = {}
  /\ open' = [open EXCEPT ![r] = Wanted[r]]
  /\ UNCHANGED <<files, expected, outcome>>

Change(r, f) ==
  /\ f \in open[r]
  /\ files' = [files EXCEPT ![f] = Append(files[f], r)]
  /\ open' = [open EXCEPT ![r] = @ \ {f}]
  /\ IF open[r] = {f} THEN End(r, "written") ELSE UNCHANGED <<expected, outcome>>

Conflict(r) ==
  /\ Undecided(r)
  /\ \E f \in Wanted[r] : ~AsExpected(r, f)
  /\ End(r, "conflict")
  /\ UNCHANGED <<files, open>>

(* No lock to be had, or the batch itself raised: nothing was changed.     *)
Refuse(r) ==
  /\ Undecided(r)
  /\ \E o \in {"unavailable", "refused"} : End(r, o)
  /\ UNCHANGED <<files, open>>

Fail(r) ==
  /\ open[r] # {}
  /\ open' = [open EXCEPT ![r] = {}]
  /\ End(r, "failed")
  /\ UNCHANGED files

(* The end of a process: its batches stop wherever they are.               *)
Lose(S) ==
  /\ open' = [r \in Request |-> IF r \in S THEN {} ELSE open[r]]
  /\ outcome' = [r \in Request |->
                   IF r \in S /\ outcome[r] = None THEN "lost" ELSE outcome[r]]
  /\ expected' = [r \in Request |->
                    IF r \in S THEN [f \in File |-> Any] ELSE expected[r]]
  /\ UNCHANGED files

VersionedNext ==
  \/ \E r \in Request, f \in File : Note(r, f) \/ Change(r, f)
  \/ \E r \in Request : Commit(r) \/ Conflict(r) \/ Refuse(r) \/ Fail(r)
  \/ \E S \in SUBSET Request : Lose(S)

VersionedSpec == VersionedInit /\ [][VersionedNext]_versionedVars
=============================================================================
