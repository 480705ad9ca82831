------------------------------- MODULE WorkFile -------------------------------
(***************************************************************************)
(* A set's snapshot while it is written (src/src/lib/snapshot-file.mjs and *)
(* readBaseline of snapshot.mjs).                                          *)
(*                                                                         *)
(* The file .snapshot.tsv.gz is the set's lock on this machine as well as  *)
(* the snapshot in the making: a run creates it if there is none, writes   *)
(* its rows, and renames it to the snapshot's name, or, if it is           *)
(* interrupted, to .snapshot.lookup.tsv.gz, where the next run finds the   *)
(* hashes.  Nothing tells a live run's file from a killed one's, so a      *)
(* person may take or delete the file of a live run by mistake.            *)
(*                                                                         *)
(* One step is one file operation.                                         *)
(***************************************************************************)
EXTENDS Naturals

CONSTANTS
  Runs,      \* processes that take a snapshot of the set
  Files,     \* inodes; one that nothing links or holds is used again
  Names,     \* snapshot names, one a minute
  LastRow,   \* the rows of a whole pass
  NoFile,
  NoName,
  LockWindow, \* others act between a check of the lock name and its use, or
              \* a file number is used again between the close and the check
  NameWindow  \* a snapshot lands between the check of its name and the open

ASSUME WorkFileAssumption ==
  /\ NoFile \notin Files /\ NoName \notin Names
  /\ LastRow \in Nat

\* What a file holds: the first rows of a pass, and whether the closing "."
\* stands behind the last.
Content == [rows : 0 .. LastRow, whole : BOOLEAN, name : Names \cup {NoName}]

VARIABLES
  work,      \* the file at .snapshot.tsv.gz
  parked,    \* the file at .snapshot.lookup.tsv.gz
  snapshot,  \* what stands under each snapshot name
  file,      \* what each inode holds
  run        \* where each run is, and what it has read

vars == <<work, parked, snapshot, file, run>>
names == <<work, parked, snapshot>>

RunState == [at : {"idle", "killed", "lookup", "name", "named", "opened",
                   "write", "written", "stopped", "land", "park", "landed",
                   "failed", "unlink", "unlinkUnsure"},
             own : Files \cup {NoFile},   \* the open file's dev and ino
             name : Names \cup {NoName},
             read : Files \cup {NoFile}]  \* the parked file it read

TypeOK ==
  /\ work \in Files \cup {NoFile}
  /\ parked \in Files \cup {NoFile}
  /\ snapshot \in [Names -> Content]
  /\ file \in [Files -> Content]
  /\ run \in [Runs -> RunState]

NewFile(n) == [rows |-> 0, whole |-> FALSE, name |-> n]
Empty == NewFile(NoName)
Rest == [at |-> "idle", own |-> NoFile, name |-> NoName, read |-> NoFile]

Init ==
  /\ work = NoFile /\ parked = NoFile
  /\ snapshot = [n \in Names |-> Empty]
  /\ file = [f \in Files |-> Empty]
  /\ run = [r \in Runs |-> Rest]

Moves(r, from, to) ==
  /\ run[r].at = from
  /\ run' = [run EXCEPT ![r] = IF to = "idle" THEN Rest ELSE [@ EXCEPT !.at = to]]

\* Another process starts in a killed one's place.
Starts(r) ==
  /\ run[r].at \in {"idle", "killed"}
  /\ run' = [run EXCEPT ![r] = [Rest EXCEPT !.at = "lookup"]]

Taken(n) == snapshot[n] # Empty

\* Nobody is between its check of the lock name and what it does there:
\* microseconds, which the code accepts.
Undisturbed ==
  LockWindow \/ \A q \in Runs : run[q].at \notin {"land", "park", "unlink"}

-----------------------------------------------------------------------------
(***************************************************************************)
(* readBaseline                                                            *)
(***************************************************************************)

\* With no work file there, with --resume or without.
Begin(r) ==
  /\ work = NoFile
  /\ Starts(r)
  /\ UNCHANGED <<names, file>>

\* --resume: whoever meets the refusal may say that nothing is running.
Recover(r) ==
  /\ work # NoFile /\ Undisturbed
  /\ parked' = work /\ work' = NoFile
  /\ Starts(r)
  /\ UNCHANGED <<snapshot, file>>

\* A parked file is read, unless it is older than the previous snapshot or
\* --rehash wants no hashes.
ReadParkedLookup(r) ==
  /\ run[r].at = "lookup"
  /\ \E f \in {parked, NoFile} :
       run' = [run EXCEPT ![r] = [@ EXCEPT !.at = "name", !.read = f]]
  /\ UNCHANGED <<names, file>>

-----------------------------------------------------------------------------
(***************************************************************************)
(* withSnapshotFile                                                        *)
(***************************************************************************)

\* A mutant of CheckName that looks at nothing.
CheckNoName(r) ==
  /\ run[r].at = "name"
  /\ \E n \in Names :
       run' = [run EXCEPT ![r] = [@ EXCEPT !.at = "named", !.name = n]]
  /\ UNCHANGED <<names, file>>

\* After the walk: the name must be free.
CheckName(r) ==
  /\ run[r].at = "name"
  /\ \E n \in Names :
       /\ ~Taken(n)
       /\ run' = [run EXCEPT ![r] = [@ EXCEPT !.at = "named", !.name = n]]
  /\ UNCHANGED <<names, file>>

\* A run holds its file open up to the end of its pass.  From then on it
\* compares a number only, which another file may have by then.
Holds(r, f) ==
  /\ f = run[r].own
  /\ LockWindow => run[r].at \in {"opened", "write", "landed"}

Fresh(f) ==
  /\ f \notin {work, parked}
  /\ \A r \in Runs : f # run[r].read /\ ~Holds(r, f)

\* The exclusive open.
Open(r) ==
  /\ run[r].at = "named"
  /\ work = NoFile /\ Undisturbed
  /\ \E f \in Files :
       /\ Fresh(f)
       /\ work' = f
       /\ file' = [file EXCEPT ![f] = NewFile(run[r].name)]
       /\ run' = [run EXCEPT ![r] = [@ EXCEPT !.at = "opened", !.own = f]]
  /\ UNCHANGED <<parked, snapshot>>

OpenRefused(r) ==
  /\ work # NoFile
  /\ Moves(r, "named", "idle")
  /\ UNCHANGED <<names, file>>

\* The file's identity, or the lock's release without a check if that fails.
Identify(r) ==
  /\ Moves(r, "opened", "write") \/ Moves(r, "opened", "unlinkUnsure")
  /\ UNCHANGED <<names, file>>

HashRow(r) ==
  /\ run[r].at = "write"
  /\ file[run[r].own].rows < LastRow
  /\ file' = [file EXCEPT ![run[r].own].rows = @ + 1]
  /\ UNCHANGED <<names, run>>

\* The trailer and the closing "."; the handle is closed.
CloseWhole(r) ==
  /\ Moves(r, "write", "written")
  /\ file[run[r].own].rows = LastRow
  /\ file' = [file EXCEPT ![run[r].own].whole = TRUE]
  /\ UNCHANGED names

\* Ctrl+C: the pass ends after the row in hand, and the file with it.
Stop(r) ==
  /\ Moves(r, "write", "stopped") \/ Moves(r, "written", "stopped")
  /\ UNCHANGED <<names, file>>

\* The callback throws: a folder that went, an upload that failed.
Fail(r) ==
  /\ Moves(r, "write", "failed")
  /\ UNCHANGED <<names, file>>

\* A mutant of Owns that takes any file at the lock name for the run's.
OwnsAny(r) == work # NoFile

\* ownsWorkFile: the lock name still means this run's file.
Owns(r) == work = run[r].own

\* ownsWorkFile before either rename; the stat itself may fail.
CheckOwn(r) ==
  /\ \/ Owns(r) /\ (Moves(r, "written", "land") \/ Moves(r, "stopped", "park"))
     \/ Moves(r, "written", "failed") /\ ~Owns(r)
     \/ Moves(r, "stopped", "failed") /\ ~Owns(r)
  /\ UNCHANGED <<names, file>>

StatFails(r) ==
  /\ \/ Moves(r, "written", "failed") \/ Moves(r, "stopped", "failed")
     \/ Moves(r, "failed", "unlinkUnsure")
  /\ UNCHANGED <<names, file>>

\* Renames whatever is at the lock name, and over whatever is at the other.
Land(r) ==
  /\ work # NoFile
  /\ NameWindow \/ \A q \in Runs : run[q].at # "named"
  /\ snapshot' = [snapshot EXCEPT ![run[r].name] = file[work]]
  /\ work' = NoFile
  /\ Moves(r, "land", "landed")
  /\ UNCHANGED <<parked, file>>

Park(r) ==
  /\ work # NoFile
  /\ parked' = work /\ work' = NoFile
  /\ Moves(r, "park", "failed")
  /\ UNCHANGED <<snapshot, file>>

\* No file at the lock name, or the file system refuses.
RenameFails(r) ==
  /\ Moves(r, "land", "failed") \/ Moves(r, "park", "failed")
  /\ UNCHANGED <<names, file>>

\* The parked file goes, if it can.
Unpark(r) ==
  /\ Moves(r, "landed", "idle")
  /\ parked' \in {parked, NoFile}
  /\ UNCHANGED <<work, snapshot, file>>

\* A mutant of Release that asks nothing.
ReleaseUnasked(r) ==
  /\ Moves(r, "failed", "unlink")
  /\ UNCHANGED <<names, file>>

\* A mutant of Release that leaves the file.
ReleaseNothing(r) ==
  /\ Moves(r, "failed", "idle")
  /\ UNCHANGED <<names, file>>

\* The catch block: the run's own file goes, and no other.
Release(r) ==
  /\ \/ Owns(r) /\ Moves(r, "failed", "unlink")
     \/ Moves(r, "failed", "idle") /\ ~Owns(r)
  /\ UNCHANGED <<names, file>>

Unlink(r) ==
  /\ Moves(r, "unlink", "idle") \/ Moves(r, "unlinkUnsure", "idle")
  /\ work' = NoFile
  /\ UNCHANGED <<parked, snapshot, file>>

UnlinkFails(r) ==
  /\ Moves(r, "unlink", "idle") \/ Moves(r, "unlinkUnsure", "idle")
  /\ UNCHANGED <<names, file>>

\* A second Ctrl+C, SIGKILL, power loss.  Rows not yet flushed are gone.
Kill(r) ==
  /\ run[r].at \notin {"idle", "killed"}
  /\ run' = [run EXCEPT ![r] = [Rest EXCEPT !.at = "killed"]]
  /\ \/ UNCHANGED file
     \/ /\ run[r].at = "write"
        /\ \E k \in 0 .. LastRow :
             /\ k <= file[run[r].own].rows
             /\ file' = [file EXCEPT ![run[r].own].rows = k]
  /\ UNCHANGED names

\* The other remedy of the refusal: a person removes the work file.
UserDelete ==
  /\ work # NoFile /\ Undisturbed
  /\ work' = NoFile
  /\ UNCHANGED <<parked, snapshot, file, run>>

Step(r) ==
  \/ Begin(r) \/ Recover(r) \/ ReadParkedLookup(r)
  \/ CheckName(r) \/ Open(r) \/ OpenRefused(r) \/ Identify(r)
  \/ HashRow(r) \/ CloseWhole(r) \/ Stop(r) \/ Fail(r)
  \/ CheckOwn(r) \/ StatFails(r) \/ Land(r) \/ Park(r) \/ RenameFails(r)
  \/ Unpark(r) \/ Release(r) \/ Unlink(r) \/ UnlinkFails(r) \/ Kill(r)

Next == UserDelete \/ \E r \in Runs : Step(r)

Spec == Init /\ [][Next]_vars

-----------------------------------------------------------------------------
(***************************************************************************)
(* Properties                                                              *)
(***************************************************************************)

\* What stands under a snapshot's name is a whole pass of the run that minted
\* the name, whoever took whose work file.
SnapshotsWhole ==
  \A n \in Names :
    Taken(n) => snapshot[n] = [rows |-> LastRow, whole |-> TRUE, name |-> n]

\* A snapshot that has landed is not overwritten by a second run of its minute.
LandedStays == [][\A r \in Runs : Land(r) => ~Taken(run[r].name)]_vars

\* A run that lands, parks or fails takes its own file from the lock name and
\* no other run's, unless the check itself failed.
OnlyOwnTaken ==
  [][\A r \in Runs :
       Land(r) \/ Park(r) \/ (run[r].at = "unlink" /\ Unlink(r))
         => work \in {run[r].own, NoFile}]_vars

\* A file left at the lock name means a killed run or an unlink that failed:
\* every other end of a run releases it.
EndsReleased ==
  [][\A r \in Runs :
       run[r].own # NoFile /\ run'[r].at = "idle" /\ work' = run[r].own
         => UnlinkFails(r)]_vars

\* A run that is interrupted parks no fewer rows than the parked file it has
\* read and replaces.
ParkedGrows ==
  [][\A r \in Runs :
       Park(r) /\ parked # NoFile /\ run[r].read = parked
         => file[work].rows >= file[parked].rows]_vars
================================================================================
