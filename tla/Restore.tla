-------------------------------- MODULE Restore --------------------------------
(***************************************************************************)
(* A restore of some rows of a snapshot into one folder while other        *)
(* programs write there and other machines delete from the bucket          *)
(* (src/src/lib/restore.mjs, atomic-file.mjs, getObject of objects.mjs).   *)
(* The plan is made at once, the rows are then written one by one, each    *)
(* copied from a file landed earlier or fetched.                           *)
(*                                                                         *)
(* The folder's entries are the volume's: two rows whose names the volume  *)
(* folds into one have the same entry.  The folder may be a link to a      *)
(* place outside the output, with entries of its own.  A step is what      *)
(* happens between two awaits.  A process may die at any step, and the     *)
(* restore be run again.                                                   *)
(***************************************************************************)
EXTENDS Naturals, Sequences, FiniteSets

CONSTANTS
  Entries,    \* names in the folder, as the volume tells them apart
  Contents,   \* what a file can hold, and by which hash
  Selections, \* the rows a restore may be asked for: [entry, hash, name]
  None,
  MaxWrites   \* bound: so many changes by other programs and machines

Names == {"fine", "refused", "unplaced"}
MaxRows == 3

ASSUME RestoreAssumption ==
  /\ Selections \subseteq
       UNION {[1 .. n -> [entry : Entries, hash : Contents, name : Names]] :
                n \in 1 .. MaxRows}
  /\ None \notin Contents /\ {"torn", "dir", "link"} \cap Contents = {}
  /\ MaxWrites \in Nat

VARIABLES
  rows,      \* the rows asked for
  folder,    \* what is at the folder's name: "missing", "dir", "link", "file"
  disk,      \* the entries inside the output, and outside, behind the link
  temps,     \* the temp siblings a write is using or a dead process left
  objects,   \* the bytes under each hash in the bucket
  record,    \* the deletion record of each hash: older than the snapshot, newer
  writes,    \* how often others have changed something
  run,       \* the restore
  atStart,   \* history: what was at each entry as the restore began
  dead,      \* history: what processes that died were writing
  relinked,  \* history: the folder became a link since the row began
  touched,   \* history: rows whose file others have changed since it landed,
             \* and 0, the folder, if they have changed any file in it
  deletedSince \* history: hashes recorded as deleted since the restore began

vars == <<rows, folder, disk, temps, objects, record, writes, run, atStart, dead,
          relinked, touched, deletedSince>>
bucket == <<objects, record, deletedSince>>

Places == {"in", "out"}
Files == [kind : {"file"}, content : Contents,
          time : 0 .. MaxRows]            \* whose time it has: a row's, or its own
Other(kind) == [kind |-> kind, content |-> None, time |-> 0]
Nothing == Other("none")
File(content) == [kind |-> "file", content |-> content, time |-> 0]
Entry == {Nothing, Other("dir"), Other("link")} \cup Files
Fates == [kind : {"unknown", "deleted", "missing", "corrupt"}, from : {None}]
           \cup [kind : {"landed"}, from : Entries]
Reports == {"no", "restored", "clamped", "skipped", "collided", "missing",
            "deleted", "corrupt", "refused", "blocked"}

Unknown == [kind |-> "unknown", from |-> None]
Idle == [at |-> "idle", overwrite |-> FALSE, output |-> FALSE, row |-> 1,
         plan |-> <<>>, fate |-> [h \in Contents |-> Unknown], written |-> {},
         linked |-> None, made |-> FALSE, span |-> {}, records |-> None,
         report |-> <<>>]

RunState ==
  [at : {"idle", "row", "copy", "copying", "fetch", "fetching", "absent", "landed",
         "done"},
   overwrite : BOOLEAN, output : BOOLEAN, row : 1 .. MaxRows + 1,
   plan : Seq({"skip", "refuse", "block", "write"}),
   fate : [Contents -> Fates],
   written : SUBSET (Places \X Entries), \* writtenCanonical
   linked : BOOLEAN \cup {None},         \* linkedFolders
   made : BOOLEAN,                       \* the row made the folder
   span : SUBSET Entry,                  \* what is read has held meanwhile
   records : {None} \cup [Contents -> {None, "older", "newer"}],
   report : Seq(Reports)]

TypeOK ==
  /\ rows \in Selections
  /\ folder \in {"missing", "dir", "link", "file"}
  /\ disk \in [Places -> [Entries -> Entry]]
  /\ folder \in {"missing", "file"} => \A e \in Entries : disk["in"][e] = Nothing
  /\ temps \subseteq Entries
  /\ objects \in [Contents -> Contents \cup {None}]
  /\ record \in [Contents -> {None, "older", "newer"}]
  /\ writes \in 0 .. MaxWrites
  /\ run \in RunState
  /\ atStart \in [folder : {"missing", "dir", "link", "file"},
                  disk : [Places -> [Entries -> Entry]]]
  /\ dead \subseteq Entries
  /\ relinked \in BOOLEAN /\ touched \subseteq 0 .. MaxRows
  /\ deletedSince \subseteq Contents

Place == IF folder = "link" THEN "out" ELSE "in"
At(e) == disk[Place][e]
Kind(e) == At(e).kind

Init ==
  /\ rows \in Selections
  /\ folder \in {"missing", "dir", "link"}
  /\ \E e \in Entries, there \in Entry :
       /\ there.time = 0
       /\ folder = "missing" => there = Nothing
       /\ disk = [p \in Places |-> [d \in Entries |->
                    IF p = Place /\ d = e THEN there ELSE Nothing]]
  /\ temps = {}
  /\ objects \in [Contents -> Contents \cup {None}]
  /\ Cardinality({h \in Contents : objects[h] # h}) <= 1
  /\ record \in [Contents -> {None, "older", "newer"}]
  /\ \A h \in Contents : objects[h] # None => record[h] # "newer"
  /\ writes = 0 /\ run = Idle
  /\ atStart = [folder |-> folder, disk |-> disk] /\ dead = {}
  /\ relinked = FALSE /\ touched = {} /\ deletedSince = {}

-----------------------------------------------------------------------------
(***************************************************************************)
(* Other programs, and delete on another machine                           *)
(***************************************************************************)
Others == writes < MaxWrites /\ writes' = writes + 1
GoneBy == {i \in DOMAIN rows : i <= run.row}
ReadsFrom(e) == run.at = "copying" /\ run.fate[rows[run.row].hash].from = e

\* A file is written, or removed.
Change(e) ==
  /\ Others /\ folder \in {"dir", "link"} /\ Kind(e) \in {"none", "file"}
  /\ \E there \in {Nothing} \cup {File(c) : c \in Contents} :
       /\ there # At(e)
       /\ disk' = [disk EXCEPT ![Place][e] = there]
       /\ run' = IF ReadsFrom(e) THEN [run EXCEPT !.span = @ \cup {there}] ELSE run
  /\ touched' = touched \cup {0} \cup {i \in GoneBy : rows[i].entry = e}
  /\ UNCHANGED <<rows, folder, temps, bucket, atStart, dead, relinked>>

\* The folder is swapped for a link.
Relink ==
  /\ Others /\ folder = "dir"
  /\ folder' = "link" /\ relinked' = TRUE
  /\ disk' = [disk EXCEPT !["in"] = [e \in Entries |-> Nothing]]
  /\ temps' = {}
  /\ touched' = touched \cup GoneBy
  /\ UNCHANGED <<rows, bucket, run, atStart, dead>>

\* A file is put where the folder would be.
PutFile ==
  /\ Others /\ folder = "missing" /\ folder' = "file"
  /\ UNCHANGED <<rows, disk, temps, bucket, run, atStart, dead, relinked, touched>>

\* delete: the record first, then the object.
Record(h) ==
  /\ Others /\ record[h] # "newer"
  /\ record' = [record EXCEPT ![h] = "newer"]
  /\ deletedSince' = deletedSince \cup {h}
  /\ UNCHANGED <<rows, folder, disk, temps, objects, run, atStart, dead, relinked, touched>>

Delete(h) ==
  /\ record[h] = "newer" /\ objects[h] # None
  /\ objects' = [objects EXCEPT ![h] = None]
  /\ UNCHANGED <<rows, folder, disk, temps, record, writes, run, atStart, dead, relinked,
                 touched, deletedSince>>

-----------------------------------------------------------------------------
(***************************************************************************)
(* planRestore                                                             *)
(***************************************************************************)

\* A mutant of Plan that looks whether a file is there, not whether anything is.
PlanFiles(row, overwrite) ==
  CASE row.name = "unplaced" -> "refuse"
    [] row.name # "unplaced" /\ Kind(row.entry) = "dir" -> "block"
    [] row.name # "unplaced" /\ Kind(row.entry) = "file" /\ ~overwrite -> "skip"
    [] OTHER -> "write"

\* "unplaced" is a name with no destination, or with a colon on Windows.
Plan(row, overwrite) ==
  CASE row.name = "unplaced" -> "refuse"
    [] row.name # "unplaced" /\ Kind(row.entry) = "dir" -> "block"
    [] row.name # "unplaced" /\ Kind(row.entry) \in {"file", "link"} /\ ~overwrite -> "skip"
    [] OTHER -> "write"

Begin ==
  /\ run.at = "idle"
  /\ \E overwrite, output \in BOOLEAN :
       run' = [Idle EXCEPT !.at = "row", !.overwrite = overwrite, !.output = output,
                 !.plan = [i \in DOMAIN rows |-> Plan(rows[i], overwrite)],
                 !.report = [i \in DOMAIN rows |-> "no"]]
  /\ atStart' = [folder |-> folder, disk |-> disk]
  /\ relinked' = FALSE /\ touched' = {} /\ deletedSince' = {}
  /\ UNCHANGED <<rows, folder, disk, temps, objects, record, writes, dead>>

-----------------------------------------------------------------------------
(***************************************************************************)
(* A row of the plan                                                       *)
(***************************************************************************)
Row == rows[run.row]
Step == run.plan[run.row]
Fate == IF Step = "write" THEN run.fate[Row.hash] ELSE Unknown

\* The next row, or the end.
Reported(r, as) ==
  [r EXCEPT !.report[r.row] = as, !.row = @ + 1, !.made = FALSE, !.span = {},
            !.at = IF r.row = Len(rows) THEN "done" ELSE "row"]

\* A mutant of LinkedFolder that trusts the run's answer for a write, too.
LinkedFolderKnown == IF run.linked = None THEN folder = "link" ELSE run.linked

\* linkedFolder: asked afresh for a write, else as the run knows it.
LinkedFolder ==
  IF Step = "write" \/ run.linked = None THEN folder = "link" ELSE run.linked

\* A file this run wrote, by the volume's own answer.  A link is none.
Collides == Kind(Row.entry) # "none" /\ Kind(Row.entry) # "link" /\ <<Place, Row.entry>> \in run.written

\* What is decided before the first await of a row, in the order of the code.
Decided(as) == run' = Reported(run, as)
Looked == [run EXCEPT !.linked = LinkedFolder]

Decide ==
  /\ run.at = "row"
  /\ relinked' = FALSE
  /\ CASE Step = "refuse" -> Decided("refused") /\ UNCHANGED folder
       [] Step # "refuse" /\ Fate.kind \in {"deleted", "missing", "corrupt"} ->
            Decided(Fate.kind) /\ UNCHANGED folder
       [] Step # "refuse" /\ Fate.kind \in {"unknown", "landed"} ->
            LET r == IF run.output THEN Looked ELSE run IN
            CASE run.output /\ LinkedFolder ->
                   run' = Reported(r, "blocked") /\ UNCHANGED folder
              [] ~(run.output /\ LinkedFolder) /\ Step = "skip" ->
                   run' = Reported(r, "skipped") /\ UNCHANGED folder
              [] ~(run.output /\ LinkedFolder) /\ Step = "block" ->
                   run' = Reported(r, "blocked") /\ UNCHANGED folder
              [] ~(run.output /\ LinkedFolder) /\ Step = "write" /\ Collides ->
                   run' = Reported(r, "collided") /\ UNCHANGED folder
              [] ~(run.output /\ LinkedFolder) /\ Step = "write" /\ ~Collides ->
                   IF folder = "file"
                   THEN run' = Reported(r, "blocked") /\ UNCHANGED folder
                   ELSE /\ folder' = IF folder = "missing" THEN "dir" ELSE folder
                        /\ run' = [r EXCEPT !.made = folder = "missing",
                                     !.at = IF Fate.kind = "landed" THEN "copy"
                                                                    ELSE "fetch"]
  /\ UNCHANGED <<rows, disk, temps, bucket, writes, atStart, dead, touched>>

-----------------------------------------------------------------------------
(***************************************************************************)
(* writeFileAtomic: the temp, the digest check, the rename                 *)
(***************************************************************************)

\* A mutant of RemoveMade that leaves the folder.
RemoveMadeNot == folder

\* removeMade: the folder the row made, if nothing is in it.
RemoveMade ==
  IF /\ run.made /\ folder = "dir"
     /\ temps \subseteq {Row.entry}
     /\ \A e \in Entries : disk["in"][e] = Nothing
  THEN "missing" ELSE folder

\* The row fails: no temp, no folder made for it.
Fails(r, as) ==
  /\ run' = Reported(r, as)
  /\ folder' = RemoveMade
  /\ temps' = temps \ {Row.entry}
  /\ UNCHANGED <<disk, touched>>

\* The temp opens, what is at its name being removed first; if it cannot, the
\* name is refused or something is in the way.
OpenTemp(r, next) ==
  \/ folder = "missing" /\ Fails(r, "refused")
  \/ folder = "file" /\ Fails(r, "blocked")
  \/ /\ folder \in {"dir", "link"}
     /\ temps' = temps \cup {Row.entry}
     /\ run' = [r EXCEPT !.at = next]
     /\ UNCHANGED <<folder, disk, touched>>

\* The rename puts the file in place of anything but a folder; the file is known
\* by its canonical path, and its content by where it is.
Rename(content) ==
  \/ (Row.name = "refused" \/ folder = "missing") /\ Fails(run, "refused")
  \/ /\ Row.name # "refused"
     /\ folder = "file" \/ (folder # "missing" /\ Kind(Row.entry) = "dir")
     /\ Fails(run, "blocked")
  \/ \* The temp is gone, with the folder it was in.
     /\ Row.name # "refused" /\ folder \in {"dir", "link"} /\ Kind(Row.entry) # "dir"
     /\ Row.entry \notin temps
     /\ Fails(run, "refused")
  \/ /\ Row.name # "refused" /\ folder \in {"dir", "link"} /\ Kind(Row.entry) # "dir"
     /\ Row.entry \in temps
     /\ disk' = [disk EXCEPT ![Place][Row.entry] = File(content)]
     /\ temps' = temps \ {Row.entry}
     /\ touched' = touched \ {run.row}
     /\ run' = [run EXCEPT !.at = "landed", !.span = {},
                  !.written = @ \cup {<<Place, Row.entry>>},
                  !.fate[Row.hash] = [kind |-> "landed", from |-> Row.entry]]
     /\ UNCHANGED folder

-----------------------------------------------------------------------------
(***************************************************************************)
(* copyFileAtomic                                                          *)
(***************************************************************************)
Source == At(Fate.from)
\* The copy failed on its source's account: that file is forgotten, and the
\* content fetched.
Forget(r) == [r EXCEPT !.fate[Row.hash] = Unknown, !.at = "fetch", !.span = {}]

OpenCopy ==
  /\ run.at = "copy"
  /\ IF folder \in {"dir", "link"} /\ Source.kind = "file"
     THEN OpenTemp([run EXCEPT !.span = {Source}], "copying")
     ELSE run' = Forget(run) /\ UNCHANGED <<folder, disk, temps, touched>>
  /\ UNCHANGED <<rows, bucket, writes, atStart, dead, relinked>>

Read(span) == {x.content : x \in {y \in span : y.kind = "file"}}
Mixture(span) == {g \in {"torn"} : Cardinality(Read(span)) > 1}

\* A mutant of DigestMatches, which is copyFile's.
DigestAny(got) == TRUE

\* The bytes that went by hash to the row's hash.
DigestMatches(got) == got = Row.hash

Copy ==
  /\ run.at = "copying"
  /\ \E got \in Read(run.span) \cup Mixture(run.span) :
       IF DigestMatches(got)
       THEN Rename(got)
       ELSE /\ run' = Forget(run) /\ temps' = temps \ {Row.entry}
            /\ UNCHANGED <<folder, disk, touched>>
  /\ UNCHANGED <<rows, bucket, writes, atStart, dead, relinked>>

-----------------------------------------------------------------------------
(***************************************************************************)
(* getObject                                                               *)
(***************************************************************************)

\* A network failure, a full disk: the run stops, with no folder left either.
Abort ==
  /\ run.at \in {"fetch", "fetching", "absent"}
  /\ run' = Idle
  /\ folder' = RemoveMade
  /\ temps' = temps \ {e \in Entries : run.at = "fetching" /\ e = Row.entry}
  /\ UNCHANGED <<rows, disk, bucket, writes, atStart, dead, relinked, touched>>

Fetch ==
  /\ run.at = "fetch"
  /\ IF objects[Row.hash] = None
     THEN /\ run' = [run EXCEPT !.at = "absent", !.made = FALSE]
          /\ folder' = RemoveMade
          /\ UNCHANGED <<disk, temps, touched>>
     ELSE OpenTemp([run EXCEPT !.span = {File(objects[Row.hash])}],
                   "fetching")
  /\ UNCHANGED <<rows, bucket, writes, atStart, dead, relinked>>

Store ==
  /\ run.at = "fetching"
  /\ \E got \in Read(run.span) :
       IF got = Row.hash THEN Rename(got)
       ELSE Fails([run EXCEPT !.fate[Row.hash] = [kind |-> "corrupt", from |-> None]],
                  "corrupt")
  /\ UNCHANGED <<rows, bucket, writes, atStart, dead, relinked>>

\* A mutant of Explains that takes any record.
ExplainsAny(when) == when # None

\* recordFor: a deletion newer than the snapshot explains the absence.
Explains(when) == when = "newer"

\* The records are read once, with the first absent object.
Absent ==
  /\ run.at = "absent"
  /\ LET records == IF run.records = None THEN record ELSE run.records
         kind == IF Explains(records[Row.hash]) THEN "deleted" ELSE "missing"
     IN run' = Reported([run EXCEPT !.records = records,
                           !.fate[Row.hash] = [kind |-> kind, from |-> None]], kind)
  /\ UNCHANGED <<rows, folder, disk, temps, bucket, writes, atStart, dead, relinked, touched>>

-----------------------------------------------------------------------------
(***************************************************************************)
(* The file's time, and the end                                            *)
(***************************************************************************)

\* utimes, and the lstat that shows what the disk has kept: the row's time, or
\* another.  A time that a coarse disk rounds, and one Windows can't read back,
\* count as kept.  No file there stops the run.
SetTime ==
  /\ run.at = "landed"
  /\ IF ~(folder \in {"dir", "link"} /\ Kind(Row.entry) # "none")
     THEN run' = Idle /\ UNCHANGED disk
     ELSE \E kept \in BOOLEAN :
            /\ disk' = IF kept /\ Kind(Row.entry) = "file"
                       THEN [disk EXCEPT ![Place][Row.entry].time = run.row] ELSE disk
            /\ run' = Reported(run, IF kept THEN "restored" ELSE "clamped")
  /\ UNCHANGED <<rows, folder, temps, bucket, writes, atStart, dead, relinked, touched>>

End ==
  /\ run.at = "done" /\ run' = Idle
  /\ UNCHANGED <<rows, folder, disk, temps, bucket, writes, atStart, dead, relinked, touched>>

\* The process dies, and leaves what it was writing.
Die ==
  /\ run.at \in {"row", "copy", "copying", "fetch", "fetching", "absent", "landed"}
  /\ Others /\ run' = Idle
  /\ dead' = dead \cup temps
  /\ UNCHANGED <<rows, folder, disk, temps, bucket, atStart, relinked, touched>>

Advance == Decide \/ OpenCopy \/ Copy \/ Fetch \/ Store \/ Absent \/ SetTime

Next ==
  \/ \E e \in Entries : Change(e)
  \/ \E h \in Contents : Record(h) \/ Delete(h)
  \/ Relink \/ PutFile
  \/ Begin
  \/ Decide \/ OpenCopy \/ Copy \/ Fetch \/ Store \/ Absent \/ SetTime
  \/ Abort \/ End \/ Die

Spec == Init /\ [][Next]_vars

-----------------------------------------------------------------------------
(***************************************************************************)
(* Properties                                                              *)
(***************************************************************************)

\* hasFaults: whether the restore exits 1.
HasFaults(report) ==
  \E i \in DOMAIN report : report[i] \in {"clamped", "missing", "corrupt", "refused",
                                          "blocked", "collided"}

\* Whatever else writes there, and however a copy's source changes, what lands
\* under a row is the content the snapshot recorded for it.
LandsItsContent ==
  [][Copy \/ Store => \A p \in Places, e \in Entries :
       disk'[p][e] # disk[p][e] => e = Row.entry /\ disk'[p][e].content = Row.hash]_vars

\* Without --overwrite the restore leaves alone whatever was there as it began,
\* until somebody else has changed it.
LeavesAlone ==
  [][Advance /\ ~run.overwrite => \A p \in Places, e \in Entries :
       atStart.disk[p][e] \notin {Nothing, disk'[p][e]} => disk[p][e] # atStart.disk[p][e]]_vars

\* Into an output folder, nothing is written through a link that was there as the
\* row began.
NothingOutside ==
  [][Advance /\ run.output =>
       disk'["out"] = disk["out"] \/ relinked]_vars

\* A restore that exits 0 has what was asked for: each row is on disk with its
\* content and its time, unless another program has changed it since, or there
\* was something before, or its content was deleted on purpose.
ExitZeroHasAll ==
  run.at = "done" /\ ~HasFaults(run.report) =>
    \A i \in DOMAIN rows :
      LET e == rows[i].entry IN
      \/ /\ run.report[i] = "restored"
         /\ \/ \E p \in Places : disk[p][e] = [File(rows[i].hash) EXCEPT !.time = i]
            \/ i \in touched
      \/ run.report[i] = "skipped" /\ ~run.overwrite
      \/ run.report[i] = "deleted" /\ record[rows[i].hash] = "newer"

\* A missing file is one no delete explains, unless the delete came while the
\* restore was at work; a deleted one is explained by a delete after the snapshot.
AbsencesExplained ==
  \A i \in DOMAIN run.report :
    LET h == rows[i].hash IN
    /\ run.report[i] = "deleted" => record[h] = "newer"
    /\ run.report[i] = "missing" => record[h] # "newer" \/ h \in deletedSince

\* What the restore reports, and its exit code, are so.
ReportIsTrue == ExitZeroHasAll /\ AbsencesExplained

\* A folder is left only where something landed, and a temp only by a process
\* that died, until a row of that name is restored.
LeavesNothing ==
  /\ run.at \notin {"copying", "fetching"} => temps \subseteq dead
  /\ run.at \in {"row", "done"} /\ atStart.folder = "missing" /\ folder = "dir" =>
       0 \in touched \/ \E e \in Entries : disk["in"][e] # Nothing
  /\ run.at = "done" => \A i \in DOMAIN rows :
       run.report[i] = "restored" => rows[i].entry \notin temps
===============================================================================
