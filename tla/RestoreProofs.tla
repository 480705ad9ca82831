----------------------------- MODULE RestoreProofs -----------------------------
(***************************************************************************)
(* Proofs about a restore, for rows, entries, contents and changes by      *)
(* other programs in any number the constants allow.                       *)
(***************************************************************************)
EXTENDS Restore, SequenceTheorems, TLAPS

Working == {"copy", "copying", "fetch", "fetching", "absent", "landed"}

\* The plan has a step for every row and the report a place; only rows to be
\* written are worked on; and without --overwrite such a row had nothing at its
\* name as the restore began.
Planned ==
  IF run.at = "idle" THEN run.report = <<>> ELSE
    /\ Len(run.plan) = Len(rows) /\ Len(run.report) = Len(rows)
    /\ IF run.at = "done" THEN run.row = Len(rows) + 1 ELSE run.row <= Len(rows)
    /\ run.at \in Working => Step = "write"
    /\ run.at \in {"copy", "copying"} => Fate.kind = "landed"
    /\ \A i \in DOMAIN rows : run.plan[i] = "skip" => ~run.overwrite
    /\ ~run.overwrite => \A i \in DOMAIN rows : run.plan[i] = "write" =>
         \A p \in Places : atStart.disk[p][rows[i].entry] = Nothing

\* Only the folder's own place has anything in it.
Elsewhere == \A p \in Places : p # Place => \A e \in Entries : disk[p][e] = Nothing

\* A row isn't worked on through a link that was there as it began.
NotThroughLinks ==
  run.at \in Working /\ run.output /\ folder = "link" => relinked

\* What has been read of the record, and what follows from it for each content.
Told(h, kind) ==
  /\ kind = "deleted" => record[h] = "newer"
  /\ kind = "missing" => record[h] # "newer" \/ h \in deletedSince

RecordsRead ==
  /\ run.records # None => \A h \in Contents :
       Told(h, IF run.records[h] = "newer" THEN "deleted" ELSE "missing")
  /\ \A h \in Contents : Told(h, run.fate[h].kind)

\* What the report says of the rows that have gone by.  A row in hand never has
\* the place of one that still stands.
There(i) == <<Place, rows[i].entry>> \in run.written /\ At(rows[i].entry).kind = "file"
Stands(i) ==
  There(i) /\ At(rows[i].entry) = [File(rows[i].hash) EXCEPT !.time = i]

ReportKept ==
  \A i \in DOMAIN run.report :
    /\ run.report[i] = "no" <=> i >= run.row
    /\ run.report[i] = "skipped" => run.plan[i] = "skip"
    /\ Told(rows[i].hash, run.report[i])
    /\ run.report[i] = "restored" /\ i \notin touched =>
         /\ Stands(i)
         /\ run.at \in Working => rows[i].entry # Row.entry

LandedStands ==
  run.at = "landed" /\ run.row \notin touched =>
    There(run.row) /\ At(Row.entry) = File(Row.hash)

IInv ==
  /\ TypeOK /\ Planned /\ Elsewhere /\ NotThroughLinks
  /\ RecordsRead /\ ReportKept /\ LandedStands

-----------------------------------------------------------------------------
(***************************************************************************)
(* The row in hand                                                         *)
(***************************************************************************)
RowType == [entry : Entries, hash : Contents, name : Names]

LEMMA RowsShape ==
  ASSUME TypeOK
  PROVE  /\ Len(rows) \in 1 .. MaxRows /\ DOMAIN rows = 1 .. Len(rows)
         /\ \A i \in DOMAIN rows : rows[i] \in RowType
<1>1. PICK n \in 1 .. MaxRows : rows \in [1 .. n -> RowType]
  <2>1. rows \in UNION {[1 .. n -> RowType] : n \in 1 .. MaxRows}
    BY RestoreAssumption DEF TypeOK, RowType
  <2> QED BY <2>1
<1>2. n \in Nat
  BY <1>1 DEF MaxRows
<1>3. rows \in Seq(RowType)
  BY <1>1, <1>2, SeqDef
<1>4. DOMAIN rows = 1 .. Len(rows) /\ Len(rows) \in Nat
  BY <1>3, LenProperties
<1>5. Len(rows) = n
  BY <1>1, <1>2, <1>4
<1> QED BY <1>1, <1>4, <1>5

LEMMA InHand ==
  ASSUME TypeOK, Planned, run.at \notin {"idle", "done"}
  PROVE  /\ run \in RunState
         /\ Len(rows) \in 1 .. MaxRows /\ DOMAIN rows = 1 .. Len(rows)
         /\ run.row \in 1 .. Len(rows)
         /\ DOMAIN run.report = 1 .. Len(rows) /\ DOMAIN run.plan = 1 .. Len(rows)
         /\ Len(run.report) = Len(rows) /\ Row \in RowType /\ Row.entry \in Entries /\ Row.hash \in Contents
         /\ run.fate[Row.hash] \in Fates
         /\ Step \in {"skip", "refuse", "block", "write"}
         /\ run.report \in Seq(Reports)
<1>1. run \in RunState
  BY DEF TypeOK
<1>2. run.report \in Seq(Reports) /\ run.plan \in Seq({"skip", "refuse", "block", "write"})
      /\ run.row \in 1 .. MaxRows + 1
  BY <1>1 DEF RunState
<1>3. Len(run.plan) = Len(rows) /\ Len(run.report) = Len(rows) /\ run.row <= Len(rows)
  BY DEF Planned
<1>4. Len(rows) \in 1 .. MaxRows /\ run.row \in 1 .. Len(rows)
  BY <1>2, <1>3, RowsShape DEF MaxRows
<1>5. DOMAIN run.report = 1 .. Len(rows) /\ DOMAIN run.plan = 1 .. Len(rows)
  BY <1>2, <1>3, LenProperties
<1>6. Row \in RowType
  BY <1>4, RowsShape DEF Row
<1>7. run.plan[run.row] \in {"skip", "refuse", "block", "write"}
  BY <1>2, <1>4, <1>5, ElementOfSeq
<1> QED BY <1>1, <1>2, <1>4, <1>5, <1>6, <1>7, RowsShape DEF RowType, Step, RunState

\* What no step of a restore changes.
Frame == UNCHANGED <<rows, atStart, record, deletedSince>>

\* A step may know more of contents, and where things are.
Knows(r) ==
  /\ r \in RunState
  /\ r.row = run.row /\ r.plan = run.plan /\ r.report = run.report
  /\ r.overwrite = run.overwrite /\ r.output = run.output

LEMMA ReportedTyped ==
  ASSUME TypeOK, Planned, run.at \notin {"idle", "done"},
         NEW r, Knows(r), NEW told \in Reports, NEW n, n = Reported(r, told)
  PROVE  /\ n \in RunState
         /\ n.row = run.row + 1 /\ n.plan = run.plan
         /\ n.report = [run.report EXCEPT ![run.row] = told]
         /\ n.overwrite = run.overwrite /\ n.output = run.output
         /\ n.written = r.written /\ n.fate = r.fate /\ n.records = r.records
         /\ n.at = IF run.row = Len(rows) THEN "done" ELSE "row"
<1> DEFINE report == [run.report EXCEPT ![run.row] = told]
           at == IF run.row = Len(rows) THEN "done" ELSE "row"
<1>1. run.row + 1 \in 1 .. MaxRows + 1
  BY InHand DEF MaxRows
<1>2. report \in Seq(Reports)
  <2>1. run.report \in Seq(Reports) /\ run.row \in 1 .. Len(run.report)
    BY InHand
  <2> QED BY <2>1, ExceptSeq
<1>3. n = [r EXCEPT !.report = report, !.row = run.row + 1, !.made = FALSE,
                           !.span = {}, !.at = at]
  BY DEF Reported, Knows, RunState
<1>4. at \in {"done", "row"}
  OBVIOUS
<1> HIDE DEF report, at
<1>5. /\ n \in RunState
      /\ n.row = run.row + 1 /\ n.plan = r.plan /\ n.report = report
      /\ n.overwrite = r.overwrite /\ n.output = r.output
      /\ n.written = r.written /\ n.fate = r.fate /\ n.records = r.records /\ n.at = at
  <2>1. r \in RunState
    BY DEF Knows
  <2> DEFINE m == [r EXCEPT !.report = report, !.row = run.row + 1]
  <2>2. m \in RunState
    BY <1>1, <1>2, <2>1 DEF RunState
  <2>3. n = [m EXCEPT !.made = FALSE, !.span = {}, !.at = at]
    BY <1>3, <2>1 DEF RunState
  <2> HIDE DEF m
  <2>4. n \in RunState
    BY <1>4, <2>2, <2>3 DEF RunState
  <2> QED BY <1>3, <2>1, <2>4 DEF RunState
<1> QED BY <1>5 DEF Knows, report, at

\* The row is reported: what stood still stands.
LEMMA ReportsInv ==
  ASSUME IInv, run.at \notin {"idle", "done"}, NEW r, Knows(r),
         NEW told \in Reports \ {"no"}, run' = Reported(r, told), Frame,
         told = "skipped" => Step = "skip", Told(Row.hash, told),
         \A i \in DOMAIN rows : run'.report[i] = "restored" /\ i \notin touched' => Stands(i)',
         RecordsRead'
  PROVE  Planned' /\ NotThroughLinks' /\ ReportKept' /\ LandedStands'
<1>1. /\ run' \in RunState
      /\ run'.row = run.row + 1 /\ run'.plan = run.plan
      /\ run'.report = [run.report EXCEPT ![run.row] = told]
      /\ run'.overwrite = run.overwrite /\ run'.output = run.output
      /\ run'.at = IF run.row = Len(rows) THEN "done" ELSE "row"
  <2>1. TypeOK /\ Planned /\ told \in Reports
    BY DEF IInv
  <2> QED BY <2>1, ReportedTyped
<1>2. run'.at \notin Working /\ run'.at # "landed" /\ run'.at # "idle"
      /\ run'.at \notin {"copy", "copying"}
  BY <1>1 DEF Working
<1>3. /\ run.row \in 1 .. Len(rows) /\ Len(rows) \in 1 .. MaxRows
      /\ DOMAIN rows = 1 .. Len(rows) /\ DOMAIN run.report = 1 .. Len(rows)
      /\ run.report \in Seq(Reports) /\ Len(run.report) = Len(rows)
  BY InHand DEF IInv
<1>4. Len(run'.report) = Len(run.report) /\ DOMAIN run'.report = DOMAIN run.report
      /\ \A i \in DOMAIN run.report :
           run'.report[i] = IF i = run.row THEN told ELSE run.report[i]
  <2>1. told \in Reports /\ run.row \in 1 .. Len(run.report)
    BY <1>3
  <2>2. /\ run'.report \in Seq(Reports) /\ Len(run'.report) = Len(run.report)
        /\ \A j \in 1 .. Len(run.report) :
             run'.report[j] = IF j = run.row THEN told ELSE run.report[j]
    BY <1>1, <1>3, <2>1, ExceptSeq
  <2> QED BY <1>3, <2>2, LenProperties
<1>5. rows' = rows /\ atStart' = atStart /\ \A h, kind : Told(h, kind)' <=> Told(h, kind)
  BY DEF Frame, Told
<1>6. Planned'
  <2>1. IF run'.at = "done" THEN run'.row = Len(rows) + 1 ELSE run'.row <= Len(rows)
    BY <1>1, <1>3 DEF MaxRows
  <2> QED BY <1>1, <1>2, <1>4, <1>5, <2>1 DEF IInv, Planned
<1>7. ReportKept'
  <2> SUFFICES ASSUME NEW i \in DOMAIN run'.report
      PROVE  /\ run'.report[i] = "no" <=> i >= run'.row
             /\ run'.report[i] = "skipped" => run'.plan[i] = "skip"
             /\ Told(rows[i].hash, run'.report[i])
             /\ run'.report[i] = "restored" /\ i \notin touched' => Stands(i)'
    BY <1>2, <1>5 DEF ReportKept
  <2>1. i \in 1 .. Len(rows) /\ i \in DOMAIN run.report
    BY <1>3, <1>4
  <2>2. CASE i = run.row
    <3>1. run'.report[i] = told /\ told # "no"
      BY <1>4, <2>1, <2>2
    <3>3. ~(i >= run'.row)
      BY <1>1, <1>3, <2>2 DEF MaxRows
    <3>2. told = "skipped" => run'.plan[i] = "skip"
      BY <1>1, <2>2 DEF Step
    <3> QED BY <1>3, <2>1, <2>2, <3>1, <3>2, <3>3 DEF Row
  <2>3. CASE i # run.row
    <3>1. run'.report[i] = run.report[i]
      BY <1>4, <2>1, <2>3
    <3>2. i >= run.row <=> i >= run'.row
      BY <1>1, <1>3, <2>1, <2>3 DEF MaxRows
    <3> QED BY <1>1, <1>3, <2>1, <3>1, <3>2 DEF IInv, ReportKept
  <2> QED BY <2>2, <2>3
<1>8. NotThroughLinks' /\ LandedStands'
  BY <1>2 DEF NotThroughLinks, LandedStands
<1> QED BY <1>6, <1>7, <1>8

\* The row is worked on: nothing on disk has changed.
LEMMA WorksInv ==
  ASSUME IInv, run.at \notin {"idle", "done"}, Knows(run'), Frame,
         run'.at \in Working \ {"landed"}, run'.written = run.written,
         Step = "write", run'.at \in {"copy", "copying"} => run'.fate[Row.hash].kind = "landed",
         disk' = disk, Place' = Place, touched' = touched,
         \/ run.at \in Working
         \/ \A i \in DOMAIN rows : run.report[i] = "restored" /\ i \notin touched =>
              rows[i].entry # Row.entry
  PROVE  Planned' /\ ReportKept' /\ LandedStands'
<1>1. rows' = rows /\ atStart' = atStart /\ (\A h, kind : Told(h, kind)' <=> Told(h, kind))
      /\ Row' = Row /\ Step' = Step
  BY DEF Frame, Told, Row, Step, Knows
<1>2. /\ run'.at # "idle" /\ run'.at # "done" /\ run'.at # "landed"
      /\ DOMAIN run.report = DOMAIN rows /\ run.row <= Len(rows)
      /\ run'.row = run.row /\ run'.report = run.report /\ run'.plan = run.plan
      /\ run'.overwrite = run.overwrite
  BY InHand DEF IInv, Planned, Working, Knows
<1>3. Planned'
  BY <1>1, <1>2 DEF IInv, Planned, Fate
<1>4. \A i : Stands(i)' <=> Stands(i)
  BY <1>1 DEF Stands, There, At
<1>5. ReportKept'
  BY <1>1, <1>2, <1>4 DEF IInv, ReportKept
<1> QED BY <1>2, <1>3, <1>5 DEF LandedStands

-----------------------------------------------------------------------------
(***************************************************************************)
(* Steps that leave the files as they are                                  *)
(***************************************************************************)

\* The folder is made, or removed with nothing in it.
FolderQuiet ==
  \/ folder' = folder
  \/ folder = "missing" /\ folder' = "dir"
  \/ folder = "dir" /\ folder' = "missing" /\ \A e \in Entries : disk["in"][e] = Nothing

Quiet ==
  /\ FolderQuiet /\ Frame /\ UNCHANGED <<disk, objects, writes, dead, touched>>
  /\ relinked' \in BOOLEAN /\ temps' \subseteq Entries

LEMMA QuietTyped ==
  ASSUME IInv, Quiet, run' \in RunState
  PROVE  /\ TypeOK' /\ Elsewhere' /\ Place' = Place
         /\ folder' = "link" <=> folder = "link"
<1>1. /\ rows' = rows /\ atStart' = atStart /\ record' = record
      /\ deletedSince' = deletedSince /\ disk' = disk
  BY DEF Quiet, Frame
<1>2. Place' = Place /\ (folder' = "link" <=> folder = "link")
  BY DEF Quiet, FolderQuiet, Place
<1>3. /\ folder' \in {"missing", "dir", "link", "file"}
      /\ folder' \in {"missing", "file"} => \A e \in Entries : disk'["in"][e] = Nothing
  BY <1>1 DEF IInv, TypeOK, Quiet, FolderQuiet
<1>4. TypeOK'
  BY <1>1, <1>3 DEF IInv, TypeOK, Quiet
<1>5. Elsewhere'
  BY <1>1, <1>2 DEF IInv, Elsewhere
<1> QED BY <1>2, <1>4, <1>5

\* What is known of contents goes with the record.
KnownBy(r) ==
  /\ r.records # None => \A h \in Contents :
       Told(h, IF r.records[h] = "newer" THEN "deleted" ELSE "missing")
  /\ \A h \in Contents : Told(h, r.fate[h].kind)

LEMMA KnownStays ==
  ASSUME Frame, KnownBy(run')
  PROVE  RecordsRead'
  BY DEF Frame, KnownBy, RecordsRead, Told

LEMMA QuietReports ==
  ASSUME IInv, run.at \notin {"idle", "done"}, NEW r, Knows(r), r.written = run.written,
         KnownBy(r), NEW told \in Reports \ {"no", "restored"}, run' = Reported(r, told),
         Quiet, told = "skipped" => Step = "skip", Told(Row.hash, told)
  PROVE  IInv'
<1>1. TypeOK /\ Planned /\ told \in Reports /\ Frame
  BY DEF IInv, Quiet
<1>2. /\ run' \in RunState /\ run'.written = run.written
      /\ run'.report = [run.report EXCEPT ![run.row] = told]
      /\ run'.fate = r.fate /\ run'.records = r.records
  BY <1>1, ReportedTyped
<1>3. TypeOK' /\ Elsewhere' /\ Place' = Place
  BY <1>2, QuietTyped
<1>4. RecordsRead'
  BY <1>1, <1>2, KnownStays DEF KnownBy
<1>5. ASSUME NEW i \in DOMAIN rows, run'.report[i] = "restored", i \notin touched'
      PROVE  Stands(i)'
  <2>1. i \in DOMAIN run.report /\ run.report[i] = "restored"
    BY <1>1, <1>2, <1>5, InHand
  <2>2. Stands(i)
    BY <1>5, <2>1 DEF IInv, ReportKept, Quiet
  <2> QED BY <1>1, <1>2, <1>3, <2>2 DEF Stands, There, At, Quiet, Frame
<1>6. Planned' /\ NotThroughLinks' /\ ReportKept' /\ LandedStands'
  BY <1>1, <1>4, <1>5, ReportsInv
<1> QED BY <1>3, <1>4, <1>6 DEF IInv

LEMMA QuietWorks ==
  ASSUME IInv, run.at \notin {"idle", "done"}, Knows(run'), KnownBy(run'), Quiet,
         run'.at \in Working \ {"landed"}, run'.written = run.written,
         Step = "write", run'.at \in {"copy", "copying"} => run'.fate[Row.hash].kind = "landed",
         \/ run.at \in Working /\ relinked' = relinked
         \/ /\ run.output => folder # "link"
            /\ \A i \in DOMAIN rows : run.report[i] = "restored" /\ i \notin touched =>
                 rows[i].entry # Row.entry
  PROVE  IInv'
<1>1. run' \in RunState /\ Frame /\ disk' = disk /\ touched' = touched
  BY DEF Knows, Quiet
<1>2. TypeOK' /\ Elsewhere' /\ Place' = Place /\ (folder' = "link" <=> folder = "link")
  BY <1>1, QuietTyped
<1>3. RecordsRead'
  BY <1>1, KnownStays
<1>4. NotThroughLinks'
  BY <1>2 DEF IInv, NotThroughLinks, Knows
<1>5. Planned' /\ ReportKept' /\ LandedStands'
  BY <1>1, <1>2, WorksInv
<1> QED BY <1>2, <1>3, <1>4, <1>5 DEF IInv

\* A run that is over has told nothing.
LEMMA IdleTyped == Idle \in RunState
<1>1. <<>> \in Seq({"skip", "refuse", "block", "write"}) /\ <<>> \in Seq(Reports)
  OBVIOUS
<1>2. [h \in Contents |-> Unknown] \in [Contents -> Fates]
  BY DEF Unknown, Fates
<1> QED BY <1>1, <1>2 DEF Idle, RunState, MaxRows

LEMMA IdleInv ==
  ASSUME TypeOK', Elsewhere', run' = Idle
  PROVE  IInv'
<1>1. run'.at = "idle" /\ run'.report = <<>> /\ DOMAIN run'.report = {} /\ run'.records = None
      /\ \A h \in Contents : run'.fate[h].kind = "unknown"
  BY DEF Idle, Unknown
<1>2. Planned' /\ NotThroughLinks' /\ ReportKept' /\ LandedStands' /\ RecordsRead'
  BY <1>1 DEF Planned, NotThroughLinks, ReportKept, LandedStands, RecordsRead, Told, Working
<1> QED BY <1>2 DEF IInv

-----------------------------------------------------------------------------
(***************************************************************************)
(* A row is decided on                                                     *)
(***************************************************************************)

LEMMA RunKnows ==
  ASSUME TypeOK, RecordsRead
  PROVE  Knows(run) /\ KnownBy(run)
  BY DEF TypeOK, Knows, KnownBy, RecordsRead

LEMMA DecideInv ==
  ASSUME IInv, Decide
  PROVE  IInv'
<1>1. run.at = "row" /\ run.at \notin {"idle", "done"} /\ relinked' = FALSE
      /\ UNCHANGED <<rows, disk, temps, bucket, writes, atStart, dead, touched>>
  BY DEF Decide
<1>2. Frame /\ UNCHANGED <<disk, objects, writes, dead, touched>>
      /\ relinked' \in BOOLEAN /\ temps' \subseteq Entries
  BY <1>1 DEF Frame, bucket, IInv, TypeOK
<1>3. /\ run \in RunState /\ run.row \in 1 .. Len(rows) /\ DOMAIN rows = 1 .. Len(rows)
      /\ DOMAIN run.report = 1 .. Len(rows) /\ Row.hash \in Contents /\ Row.entry \in Entries
      /\ run.fate[Row.hash] \in Fates
      /\ Step \in {"skip", "refuse", "block", "write"}
  BY <1>1, InHand DEF IInv
<1>4. Knows(run) /\ KnownBy(run)
  BY RunKnows DEF IInv
<1>5. /\ Knows(Looked) /\ KnownBy(Looked) /\ Looked.written = run.written
      /\ Looked \in RunState /\ Looked.fate = run.fate
  <2>1. LinkedFolder \in BOOLEAN
    BY <1>3 DEF LinkedFolder, RunState
  <2> QED BY <1>3, <1>4, <2>1 DEF Looked, Knows, KnownBy, RunState
<1> DEFINE r == IF run.output THEN Looked ELSE run
<1>6. Knows(r) /\ KnownBy(r) /\ r.written = run.written /\ r \in RunState /\ r.fate = run.fate
  BY <1>3, <1>4, <1>5
<1> HIDE DEF r
<1>7. ASSUME NEW told \in {"refused", "deleted", "missing", "corrupt", "blocked", "skipped",
                           "collided"},
             run' = Reported(r, told) \/ run' = Reported(run, told),
             folder' = folder, told = "skipped" => Step = "skip", Told(Row.hash, told)
      PROVE  IInv'
  <2>1. Quiet /\ told \in Reports \ {"no", "restored"}
    BY <1>2, <1>7 DEF Quiet, FolderQuiet, Reports
  <2> QED BY <1>1, <1>4, <1>6, <1>7, <2>1, QuietReports
<1>8. \A told \in {"refused", "corrupt", "blocked", "skipped", "collided"} : Told(Row.hash, told)
  BY DEF Told
<1>9. CASE Step = "refuse" /\ run' = Reported(run, "refused") /\ folder' = folder
  BY <1>7, <1>8, <1>9
<1>10. CASE /\ Fate.kind \in {"deleted", "missing", "corrupt"}
            /\ run' = Reported(run, Fate.kind) /\ folder' = folder
  <2>1. Told(Row.hash, Fate.kind)
    <3>1. Fate.kind # "unknown"
      BY <1>10
    <3>2. Fate = run.fate[Row.hash]
      BY <3>1 DEF Fate, Unknown
    <3> QED BY <1>3, <3>2 DEF IInv, RecordsRead
  <2> QED BY <1>7, <1>10, <2>1
<1>11. CASE /\ folder' = folder
            /\ \/ run' = Reported(r, "blocked")
               \/ run' = Reported(r, "skipped") /\ Step = "skip"
               \/ run' = Reported(r, "collided")
  BY <1>7, <1>8, <1>11
<1>12. CASE /\ ~(run.output /\ LinkedFolder) /\ Step = "write" /\ ~Collides
            /\ Fate.kind \in {"unknown", "landed"}
            /\ folder' = IF folder = "missing" THEN "dir" ELSE folder
            /\ run' = [r EXCEPT !.made = folder = "missing",
                                !.at = IF Fate.kind = "landed" THEN "copy" ELSE "fetch"]
  <2>1. /\ run' \in RunState /\ run'.row = r.row /\ run'.plan = r.plan /\ run'.report = r.report
        /\ run'.overwrite = r.overwrite /\ run'.output = r.output /\ run'.written = r.written
        /\ run'.fate = r.fate /\ run'.records = r.records
        /\ run'.at = IF Fate.kind = "landed" THEN "copy" ELSE "fetch"
    <3> DEFINE made == folder = "missing"
               at == IF Fate.kind = "landed" THEN "copy" ELSE "fetch"
    <3>1. made \in BOOLEAN /\ at \in {"copy", "fetch"}
      OBVIOUS
    <3>2. run' = [r EXCEPT !.made = made, !.at = at]
      BY <1>12
    <3> HIDE DEF made, at
    <3>3. run' \in RunState
      BY <1>6, <3>1, <3>2 DEF RunState
    <3>4. /\ run'.row = r.row /\ run'.plan = r.plan /\ run'.report = r.report
          /\ run'.overwrite = r.overwrite /\ run'.output = r.output /\ run'.written = r.written
          /\ run'.fate = r.fate /\ run'.records = r.records /\ run'.at = at
      BY <1>6, <3>2 DEF RunState
    <3> QED BY <3>3, <3>4 DEF at
  <2>2. Knows(run') /\ KnownBy(run') /\ run'.written = run.written
    BY <1>6, <2>1 DEF Knows, KnownBy
  <2>3. Quiet
    BY <1>2, <1>12 DEF Quiet, FolderQuiet
  <2>4. /\ run'.at \in Working \ {"landed"}
        /\ run'.at \in {"copy", "copying"} => run'.fate[Row.hash].kind = "landed"
    BY <1>6, <1>12, <2>1 DEF Working, Fate
  <2>5. run.output => folder # "link"
    BY <1>12 DEF LinkedFolder
  <2>6. ASSUME NEW i \in DOMAIN rows, run.report[i] = "restored", i \notin touched
        PROVE  rows[i].entry # Row.entry
    <3>1. Stands(i)
      BY <1>3, <2>6 DEF IInv, ReportKept
    <3> QED BY <1>12, <3>1 DEF Stands, There, Collides, Kind
  <2>7. /\ run.output => folder # "link"
        /\ \A i \in DOMAIN rows : run.report[i] = "restored" /\ i \notin touched =>
             rows[i].entry # Row.entry
    BY <2>5, <2>6
  <2>8. Step = "write"
    BY <1>12
  <2> QED BY <1>1, <2>2, <2>3, <2>4, <2>7, <2>8, QuietWorks
<1>13. CASE Step # "refuse" /\ Fate.kind \in {"unknown", "landed"}
  <2>1. CASE folder = "file" \/ ~(Step = "write" /\ ~Collides) \/ (run.output /\ LinkedFolder)
    BY <1>3, <1>11, <1>12, <1>13, <2>1 DEF Decide, r
  <2>2. CASE folder # "file" /\ Step = "write" /\ ~Collides /\ ~(run.output /\ LinkedFolder)
    BY <1>12, <1>13, <2>2 DEF Decide, r
  <2> QED BY <2>1, <2>2
<1>14. Fate.kind \in {"deleted", "missing", "corrupt", "unknown", "landed"}
  BY <1>3 DEF Fate, Fates, Unknown
<1> QED BY <1>9, <1>10, <1>13, <1>14 DEF Decide, Decided

-----------------------------------------------------------------------------
(***************************************************************************)
(* A row is written                                                        *)
(***************************************************************************)
Rest == UNCHANGED <<rows, bucket, writes, atStart, dead, relinked>>

\* It may know less of where a content is.
Knowing(r) == Knows(r) /\ KnownBy(r) /\ r.written = run.written

LEMMA RestQuiet ==
  ASSUME IInv, Rest, disk' = disk, touched' = touched, temps' \subseteq Entries,
         folder' \in {folder, RemoveMade}
  PROVE  Quiet /\ relinked' = relinked
  BY DEF IInv, TypeOK, Rest, bucket, Quiet, Frame, FolderQuiet, RemoveMade

LEMMA FailsInv ==
  ASSUME IInv, run.at \in Working, NEW r, Knowing(r),
         NEW told \in {"refused", "blocked", "corrupt"}, Fails(r, told), Rest
  PROVE  IInv'
<1>1. /\ run' = Reported(r, told) /\ folder' = RemoveMade /\ temps' = temps \ {Row.entry}
      /\ disk' = disk /\ touched' = touched
  BY DEF Fails
<1>2. Quiet
  BY <1>1, RestQuiet DEF IInv, TypeOK
<1>3. Told(Row.hash, told) /\ told \in Reports \ {"no", "restored"} /\ told # "skipped"
  BY DEF Told, Reports
<1>4. run.at \notin {"idle", "done"}
  BY DEF Working
<1> QED BY <1>1, <1>2, <1>3, <1>4, QuietReports DEF Knowing

\* The row goes on to its next step.
LEMMA GoesOnInv ==
  ASSUME IInv, run.at \in Working, Knowing(run'), run'.at \in Working \ {"landed"},
         run'.at \in {"copy", "copying"} => run'.fate[Row.hash].kind = "landed",
         disk' = disk, touched' = touched, temps' \subseteq Entries,
         folder' \in {folder, RemoveMade}, Rest
  PROVE  IInv'
<1>1. Quiet /\ relinked' = relinked
  BY RestQuiet
<1>2. run.at \notin {"idle", "done"} /\ Step = "write"
  BY DEF IInv, Planned, Working
<1> QED BY <1>1, <1>2, QuietWorks DEF Knowing

LEMMA OpenTempInv ==
  ASSUME IInv, run.at \in {"copy", "fetch"}, NEW r, Knowing(r), r.fate = run.fate,
         NEW next \in {"copying", "fetching"}, next = "copying" => run.at = "copy",
         OpenTemp(r, next), Rest
  PROVE  IInv'
<1>1. run.at \in Working /\ run.at \notin {"idle", "done"}
  BY DEF Working
<1>2. CASE Fails(r, "refused") \/ Fails(r, "blocked")
  BY <1>1, <1>2, FailsInv
<1>3. CASE /\ temps' = temps \cup {Row.entry} /\ run' = [r EXCEPT !.at = next]
           /\ UNCHANGED <<folder, disk, touched>>
  <2>1. Knowing(run') /\ run'.at = next /\ run'.fate = run.fate
    BY <1>3 DEF Knowing, Knows, KnownBy, RunState
  <2>2. next = "copying" => run.fate[Row.hash].kind = "landed"
    BY DEF IInv, Planned, Fate, Working
  <2>3. temps' \subseteq Entries
    BY <1>1, <1>3, InHand DEF IInv, TypeOK
  <2>4. /\ run'.at \in Working \ {"landed"}
        /\ run'.at \in {"copy", "copying"} => run'.fate[Row.hash].kind = "landed"
    BY <2>1, <2>2 DEF Working
  <2> QED BY <1>1, <1>3, <2>1, <2>3, <2>4, GoesOnInv
<1> QED BY <1>2, <1>3 DEF OpenTemp

LEMMA RenameInv ==
  ASSUME IInv, run.at \in {"copying", "fetching"}, Rename(Row.hash), Rest
  PROVE  IInv'
<1>1. run.at \in Working /\ run.at \notin {"idle", "done"}
  BY DEF Working
<1>2. CASE Fails(run, "refused") \/ Fails(run, "blocked")
  BY <1>1, <1>2, RunKnows, FailsInv DEF Knowing, IInv
<1>3. CASE /\ folder \in {"dir", "link"} /\ folder' = folder
           /\ disk' = [disk EXCEPT ![Place][Row.entry] = File(Row.hash)]
           /\ temps' = temps \ {Row.entry} /\ touched' = touched \ {run.row}
           /\ run' = [run EXCEPT !.at = "landed", !.span = {},
                        !.written = @ \cup {<<Place, Row.entry>>},
                        !.fate[Row.hash] = [kind |-> "landed", from |-> Row.entry]]
  <2>1. /\ run \in RunState /\ Row.hash \in Contents /\ Row.entry \in Entries
        /\ run.row \in 1 .. Len(rows) /\ DOMAIN rows = 1 .. Len(rows)
        /\ DOMAIN run.report = 1 .. Len(rows) /\ Len(rows) \in 1 .. MaxRows
    BY <1>1, InHand DEF IInv
  <2>2. /\ disk \in [Places -> [Entries -> Entry]] /\ Place \in Places
        /\ File(Row.hash) \in Entry
    BY <2>1 DEF IInv, TypeOK, Place, Places, File, Entry, Files, MaxRows
  <2>3. /\ disk' \in [Places -> [Entries -> Entry]]
        /\ disk'[Place][Row.entry] = File(Row.hash)
        /\ \A p \in Places, e \in Entries :
             p # Place \/ e # Row.entry => disk'[p][e] = disk[p][e]
    BY <1>3, <2>1, <2>2
  <2> DEFINE written == run.written \cup {<<Place, Row.entry>>}
             fate == [run.fate EXCEPT ![Row.hash] = [kind |-> "landed", from |-> Row.entry]]
  <2>4. /\ written \in SUBSET (Places \X Entries) /\ <<Place, Row.entry>> \in written
        /\ run.written \subseteq written
    BY <2>1, <2>2 DEF RunState
  <2>5. /\ fate \in [Contents -> Fates]
        /\ \A h \in Contents : fate[h].kind \in {run.fate[h].kind, "landed"}
    BY <2>1 DEF RunState, Fates
  <2>6. run' = [run EXCEPT !.at = "landed", !.span = {}, !.written = written, !.fate = fate]
    BY <1>3, <2>1 DEF RunState
  <2> HIDE DEF written, fate
  <2>7. /\ run' \in RunState /\ run'.at = "landed" /\ run'.row = run.row
        /\ run'.plan = run.plan /\ run'.report = run.report /\ run'.overwrite = run.overwrite
        /\ run'.output = run.output /\ run'.records = run.records
        /\ run'.written = written /\ run'.fate = fate
    BY <2>1, <2>4, <2>5, <2>6 DEF RunState
  <2>8. /\ rows' = rows /\ atStart' = atStart /\ record' = record
        /\ deletedSince' = deletedSince /\ objects' = objects /\ writes' = writes
        /\ dead' = dead /\ relinked' = relinked
        /\ Place' = Place /\ Row' = Row /\ Step' = Step
    BY <1>3, <2>7 DEF Rest, bucket, Place, Row, Step
  <2>9. TypeOK'
    BY <1>3, <2>3, <2>7, <2>8 DEF IInv, TypeOK
  <2>10. Planned'
    BY <1>1, <2>1, <2>7, <2>8 DEF IInv, Planned, Working
  <2>11. Elsewhere'
    BY <2>3, <2>8 DEF IInv, Elsewhere
  <2>12. NotThroughLinks' /\ RecordsRead'
    <3>1. NotThroughLinks'
      BY <1>1, <1>3, <2>7, <2>8 DEF IInv, NotThroughLinks
    <3>2. RecordsRead'
      BY <2>5, <2>7, <2>8 DEF IInv, RecordsRead, Told
    <3> QED BY <3>1, <3>2
  <2>13. ReportKept'
    <3> SUFFICES ASSUME NEW i \in DOMAIN run.report, run.report[i] = "restored",
                        i \notin touched'
        PROVE  Stands(i)' /\ rows[i].entry # Row.entry
      BY <2>7, <2>8 DEF IInv, ReportKept, Told
    <3>1. i # run.row
      BY <2>1 DEF IInv, ReportKept
    <3>2. Stands(i) /\ rows[i].entry # Row.entry
      BY <1>1, <1>3, <3>1 DEF IInv, ReportKept
    <3>3. rows[i].entry \in Entries
      BY <2>1, RowsShape DEF IInv, RowType
    <3>4. At(rows[i].entry)' = At(rows[i].entry)
      BY <2>2, <2>3, <2>8, <3>2, <3>3 DEF At
    <3> QED BY <2>4, <2>7, <2>8, <3>2, <3>4 DEF Stands, There
  <2>14. LandedStands'
    BY <2>3, <2>4, <2>7, <2>8 DEF LandedStands, There, At, File, Row
  <2> QED BY <2>9, <2>10, <2>11, <2>12, <2>13, <2>14 DEF IInv
<1> QED BY <1>2, <1>3 DEF Rename

\* A file whose copy failed is forgotten.
LEMMA ForgetInv ==
  ASSUME IInv, run.at \in {"copy", "copying"}, run' = Forget(run),
         UNCHANGED <<folder, disk, touched>>, temps' \subseteq Entries, Rest
  PROVE  IInv'
<1>1. run.at \in Working /\ run.at \notin {"idle", "done"}
  BY DEF Working
<1>2. run \in RunState /\ Row.hash \in Contents
  BY <1>1, InHand DEF IInv
<1> DEFINE fate == [run.fate EXCEPT ![Row.hash] = Unknown]
<1>3. /\ fate \in [Contents -> Fates]
      /\ \A h \in Contents : fate[h].kind \in {run.fate[h].kind, "unknown"}
  BY <1>2 DEF RunState, Fates, Unknown
<1>4. run' = [run EXCEPT !.fate = fate, !.at = "fetch", !.span = {}]
  BY <1>2 DEF Forget, RunState
<1> HIDE DEF fate
<1>5. /\ run' \in RunState /\ run'.at = "fetch" /\ run'.row = run.row
      /\ run'.plan = run.plan /\ run'.report = run.report /\ run'.overwrite = run.overwrite
      /\ run'.output = run.output /\ run'.records = run.records
      /\ run'.written = run.written /\ run'.fate = fate
  BY <1>2, <1>3, <1>4 DEF RunState
<1>6. KnownBy(run')
  BY <1>3, <1>5, RunKnows DEF IInv, KnownBy, Told
<1>7. Knowing(run') /\ run'.at \in Working \ {"landed"} /\ run'.at \notin {"copy", "copying"}
  BY <1>5, <1>6 DEF Knowing, Knows, Working
<1> QED BY <1>1, <1>7, GoesOnInv

LEMMA CopyInv ==
  ASSUME IInv, OpenCopy \/ Copy
  PROVE  IInv'
<1>1. Rest /\ temps \subseteq Entries /\ run \in RunState
  BY DEF OpenCopy, Copy, Rest, IInv, TypeOK
<1>2. CASE OpenCopy
  <2>1. run.at = "copy" /\ run.at \in Working
    BY <1>2 DEF OpenCopy, Working
  <2> DEFINE r == [run EXCEPT !.span = {Source}]
  <2>2. CASE OpenTemp(r, "copying")
    <3>1. Source \in Entry
      <4>1. Fate \in Fates /\ Fate.kind = "landed"
        BY <2>1, InHand DEF IInv, Planned, Fate, Working
      <4>2. Fate.from \in Entries
        BY <4>1 DEF Fates
      <4> QED BY <4>2 DEF Source, At, Place, Places, IInv, TypeOK
    <3>2. Knowing(r) /\ r.fate = run.fate
      <4>1. r \in RunState
        BY <1>1, <3>1 DEF RunState
      <4>2. /\ r.row = run.row /\ r.plan = run.plan /\ r.report = run.report
            /\ r.overwrite = run.overwrite /\ r.output = run.output
            /\ r.written = run.written /\ r.fate = run.fate /\ r.records = run.records
        BY <1>1 DEF RunState
      <4>3. Knows(run) /\ KnownBy(run)
        BY RunKnows DEF IInv
      <4> HIDE DEF r
      <4> QED BY <4>1, <4>2, <4>3 DEF Knowing, Knows, KnownBy
    <3> HIDE DEF r
    <3> QED BY <1>1, <2>1, <2>2, <3>2, OpenTempInv
  <2>3. CASE run' = Forget(run) /\ UNCHANGED <<folder, disk, temps, touched>>
    BY <1>1, <2>1, <2>3, ForgetInv
  <2> QED BY <1>2, <2>2, <2>3 DEF OpenCopy
<1>3. CASE Copy
  <2>1. run.at = "copying"
    BY <1>3 DEF Copy
  <2>2. CASE Rename(Row.hash)
    BY <1>1, <2>1, <2>2, RenameInv
  <2>3. CASE /\ run' = Forget(run) /\ temps' = temps \ {Row.entry}
             /\ UNCHANGED <<folder, disk, touched>>
    BY <1>1, <2>1, <2>3, ForgetInv
  <2> QED BY <1>3, <2>2, <2>3 DEF Copy, DigestMatches
<1> QED BY <1>2, <1>3

LEMMA FetchInv ==
  ASSUME IInv, Fetch \/ Store
  PROVE  IInv'
<1>1. Rest /\ temps \subseteq Entries /\ run \in RunState
      /\ run.at \in Working /\ run.at \notin {"idle", "done"}
  BY DEF Fetch, Store, Rest, IInv, TypeOK, Working
<1>2. Row.hash \in Contents
  BY <1>1, InHand DEF IInv
<1>3. Knowing(run)
  BY RunKnows DEF IInv, Knowing
<1>4. CASE Fetch
  <2>1. run.at = "fetch"
    BY <1>4 DEF Fetch
  <2>2. CASE /\ run' = [run EXCEPT !.at = "absent", !.made = FALSE] /\ folder' = RemoveMade
             /\ UNCHANGED <<disk, temps, touched>>
    <3>1. Knowing(run') /\ run'.at = "absent"
      BY <1>1, <1>3, <2>2 DEF Knowing, Knows, KnownBy, RunState
    <3> QED BY <1>1, <2>2, <3>1, GoesOnInv DEF Working
  <2> DEFINE r == [run EXCEPT !.span = {File(objects[Row.hash])}]
  <2>3. CASE objects[Row.hash] # None /\ OpenTemp(r, "fetching")
    <3>1. File(objects[Row.hash]) \in Entry
      BY <1>2, <2>3 DEF IInv, TypeOK, File, Entry, Files, MaxRows
    <3>2. Knowing(r) /\ r.fate = run.fate
      BY <1>1, <1>3, <3>1 DEF Knowing, Knows, KnownBy, RunState
    <3>3. OpenTemp(r, "fetching")
      BY <2>3
    <3> HIDE DEF r
    <3> QED BY <1>1, <2>1, <3>2, <3>3, OpenTempInv
  <2> QED BY <1>4, <2>2, <2>3 DEF Fetch
<1>5. CASE Store
  <2>1. run.at = "fetching"
    BY <1>5 DEF Store
  <2>2. CASE Rename(Row.hash)
    BY <1>1, <2>1, <2>2, RenameInv
  <2> DEFINE r == [run EXCEPT !.fate[Row.hash] = [kind |-> "corrupt", from |-> None]]
  <2>3. CASE Fails(r, "corrupt")
    <3> DEFINE fate == [run.fate EXCEPT ![Row.hash] = [kind |-> "corrupt", from |-> None]]
    <3>1. /\ fate \in [Contents -> Fates]
          /\ \A h \in Contents : fate[h].kind \in {run.fate[h].kind, "corrupt"}
      BY <1>1, <1>2 DEF RunState, Fates
    <3>2. r = [run EXCEPT !.fate = fate]
      BY <1>1 DEF RunState
    <3> HIDE DEF fate, r
    <3>3. /\ r \in RunState /\ r.row = run.row /\ r.plan = run.plan /\ r.report = run.report
          /\ r.overwrite = run.overwrite /\ r.output = run.output /\ r.records = run.records
          /\ r.written = run.written /\ r.fate = fate
      BY <1>1, <3>1, <3>2 DEF RunState
    <3>4. Knowing(r)
      BY <1>3, <3>1, <3>3 DEF Knowing, Knows, KnownBy, Told
    <3> QED BY <1>1, <2>3, <3>4, FailsInv
  <2> QED BY <1>5, <2>2, <2>3 DEF Store
<1> QED BY <1>4, <1>5

LEMMA AbsentInv ==
  ASSUME IInv, Absent
  PROVE  IInv'
<1>1. /\ run.at = "absent" /\ run.at \notin {"idle", "done"}
      /\ UNCHANGED <<rows, folder, disk, temps, bucket, writes, atStart, dead, relinked, touched>>
  BY DEF Absent
<1>2. run \in RunState /\ Row.hash \in Contents
  BY <1>1, InHand DEF IInv
<1> DEFINE records == IF run.records = None THEN record ELSE run.records
           kind == IF Explains(records[Row.hash]) THEN "deleted" ELSE "missing"
           fate == [run.fate EXCEPT ![Row.hash] = [kind |-> kind, from |-> None]]
           r == [run EXCEPT !.records = records,
                   !.fate[Row.hash] = [kind |-> kind, from |-> None]]
<1>3. records \in [Contents -> {None, "older", "newer"}]
      /\ \A h \in Contents : Told(h, IF records[h] = "newer" THEN "deleted" ELSE "missing")
  BY <1>2 DEF IInv, TypeOK, RecordsRead, RunState, Told
<1>4. Told(Row.hash, kind) /\ kind \in {"deleted", "missing"}
  BY <1>2, <1>3 DEF Explains
<1>5. run' = Reported(r, kind)
  BY DEF Absent
<1> HIDE DEF records, kind
<1>6. /\ fate \in [Contents -> Fates]
      /\ \A h \in Contents : h # Row.hash => fate[h] = run.fate[h]
      /\ fate[Row.hash].kind = kind
  BY <1>2, <1>4 DEF RunState, Fates
<1>7. r = [run EXCEPT !.records = records, !.fate = fate]
  BY <1>2 DEF RunState
<1> HIDE DEF fate, r
<1>8. /\ r \in RunState /\ r.row = run.row /\ r.plan = run.plan /\ r.report = run.report
      /\ r.overwrite = run.overwrite /\ r.output = run.output /\ r.records = records
      /\ r.written = run.written /\ r.fate = fate
  BY <1>2, <1>3, <1>6, <1>7 DEF RunState
<1>9. Knows(r) /\ KnownBy(r)
  <2>1. \A h \in Contents : Told(h, fate[h].kind)
    BY <1>4, <1>6 DEF IInv, RecordsRead
  <2> QED BY <1>3, <1>8, <2>1 DEF Knows, KnownBy
<1>10. Quiet /\ kind \in Reports \ {"no", "restored"} /\ kind # "skipped"
  BY <1>1, <1>4 DEF Quiet, FolderQuiet, Frame, bucket, IInv, TypeOK, Reports
<1> QED BY <1>1, <1>4, <1>5, <1>8, <1>9, <1>10, QuietReports

LEMMA SetTimeInv ==
  ASSUME IInv, SetTime
  PROVE  IInv'
<1>1. /\ run.at = "landed" /\ run.at \in Working /\ run.at \notin {"idle", "done"}
      /\ UNCHANGED <<rows, folder, temps, bucket, writes, atStart, dead, relinked, touched>>
  BY DEF SetTime, Working
<1>2. Place' = Place /\ Frame
  BY <1>1 DEF Place, Frame, bucket
<1>3. CASE run' = Idle /\ UNCHANGED disk
  <2>1. TypeOK'
    BY <1>1, <1>3, IdleTyped DEF IInv, TypeOK, bucket
  <2>2. Elsewhere'
    BY <1>2, <1>3 DEF IInv, Elsewhere
  <2> QED BY <1>3, <2>1, <2>2, IdleInv
<1>4. ASSUME NEW kept \in BOOLEAN, folder \in {"dir", "link"},
             disk' = IF kept /\ Kind(Row.entry) = "file"
                     THEN [disk EXCEPT ![Place][Row.entry].time = run.row] ELSE disk,
             run' = Reported(run, IF kept THEN "restored" ELSE "clamped")
      PROVE  IInv'
  <2> DEFINE told == IF kept THEN "restored" ELSE "clamped"
  <2>1. /\ run \in RunState /\ Row.entry \in Entries /\ Row.hash \in Contents
        /\ run.row \in 1 .. Len(rows) /\ DOMAIN rows = 1 .. Len(rows)
        /\ DOMAIN run.report = 1 .. Len(rows) /\ Len(rows) \in 1 .. MaxRows
        /\ run.report \in Seq(Reports) /\ Len(run.report) = Len(rows)
    BY <1>1, InHand DEF IInv
  <2>2. told \in Reports \ {"no"} /\ told \in Reports /\ told # "skipped" /\ Told(Row.hash, told)
    BY DEF Reports, Told
  <2>3. /\ disk \in [Places -> [Entries -> Entry]] /\ Place \in Places
        /\ disk[Place] \in [Entries -> Entry] /\ At(Row.entry) \in Entry
    BY <2>1 DEF IInv, TypeOK, Place, Places, At
  <2> DEFINE timed == [At(Row.entry) EXCEPT !.time = run.row]
  <2>4. /\ disk' \in [Places -> [Entries -> Entry]]
        /\ kept /\ Kind(Row.entry) = "file" => disk'[Place][Row.entry] = timed
        /\ \A p \in Places, e \in Entries :
             p # Place \/ e # Row.entry => disk'[p][e] = disk[p][e]
    <3>1. CASE kept /\ Kind(Row.entry) = "file"
      <4> HIDE DEF timed
      <4>1. disk' = [disk EXCEPT ![Place][Row.entry].time = run.row]
        BY <1>4, <3>1
      <4>2. timed \in Entry
        <5>1. At(Row.entry) \in Files
          BY <2>3, <3>1 DEF Kind, Entry, Nothing, Other
        <5>2. run.row \in 0 .. MaxRows
          BY <2>1 DEF MaxRows
        <5> QED BY <5>1, <5>2 DEF Files, Entry, timed
      <4>3. disk' = [disk EXCEPT ![Place] = [disk[Place] EXCEPT ![Row.entry] = timed]]
        BY <2>1, <2>3, <4>1 DEF At, timed
      <4> QED BY <2>1, <2>3, <4>2, <4>3
    <3>2. CASE ~(kept /\ Kind(Row.entry) = "file")
      BY <1>4, <2>3, <3>2
    <3> QED BY <3>1, <3>2
  <2>5. Knows(run)
    BY RunKnows DEF IInv
  <2>6. /\ run' \in RunState /\ run'.written = run.written
        /\ run'.report = [run.report EXCEPT ![run.row] = told]
        /\ run'.fate = run.fate /\ run'.records = run.records
    <3>1. TypeOK /\ Planned /\ told \in Reports /\ run' = Reported(run, told)
      BY <1>4, <2>2 DEF IInv
    <3> HIDE DEF told
    <3> QED BY <1>1, <2>5, <3>1, ReportedTyped
  <2>7. TypeOK'
    BY <1>1, <1>4, <2>4, <2>6 DEF IInv, TypeOK, bucket
  <2>8. Elsewhere'
    BY <1>2, <2>4 DEF IInv, Elsewhere
  <2>9. RecordsRead'
    BY <1>2, <2>6 DEF IInv, RecordsRead, Told, Frame
  <2>10. ASSUME NEW i \in DOMAIN rows, run'.report[i] = "restored", i \notin touched'
         PROVE  Stands(i)'
    <3>1. rows' = rows /\ rows[i].entry \in Entries
      BY <2>1, <1>2, RowsShape DEF IInv, RowType, Frame
    <3>2. CASE i # run.row
      <4>1. run.report[i] = "restored" /\ i \in DOMAIN run.report
        BY <2>1, <2>6, <2>10, <3>2
      <4>2. Stands(i) /\ rows[i].entry # Row.entry
        BY <1>1, <2>10, <4>1 DEF IInv, ReportKept
      <4>3. At(rows[i].entry)' = At(rows[i].entry)
        BY <1>2, <2>3, <2>4, <3>1, <4>2 DEF At
      <4> QED BY <1>2, <2>6, <3>1, <4>2, <4>3 DEF Stands, There
    <3>3. CASE i = run.row
      <4>1. kept
        BY <2>1, <2>6, <2>10, <3>3
      <4>2. There(i) /\ At(Row.entry) = File(Row.hash) /\ rows[i] = Row
        BY <1>1, <2>10, <3>3 DEF IInv, LandedStands, Row
      <4>3. Kind(Row.entry) = "file"
        BY <4>2 DEF Kind, File
      <4>4. At(rows[i].entry)' = [File(Row.hash) EXCEPT !.time = i]
        BY <1>2, <2>4, <3>1, <3>3, <4>1, <4>2, <4>3 DEF At
      <4> QED BY <1>2, <2>6, <3>1, <4>2, <4>4 DEF Stands, There, File
    <3> QED BY <3>2, <3>3
  <2>11. Planned' /\ NotThroughLinks' /\ ReportKept' /\ LandedStands'
    <3>1. run' = Reported(run, told)
      BY <1>4
    <3> HIDE DEF told
    <3> QED BY <1>1, <1>2, <2>2, <2>5, <2>9, <2>10, <3>1, ReportsInv
  <2> QED BY <2>7, <2>8, <2>9, <2>11 DEF IInv
<1>5. \/ run' = Idle /\ UNCHANGED disk
      \/ /\ folder \in {"dir", "link"}
         /\ \E kept \in BOOLEAN :
              /\ disk' = IF kept /\ Kind(Row.entry) = "file"
                         THEN [disk EXCEPT ![Place][Row.entry].time = run.row] ELSE disk
              /\ run' = Reported(run, IF kept THEN "restored" ELSE "clamped")
  BY DEF SetTime
<1> QED BY <1>3, <1>4, <1>5

\* A stop, the end, and death.
LEMMA StopInv ==
  ASSUME IInv, Abort \/ End \/ Die
  PROVE  IInv'
<1>1. /\ run' = Idle /\ UNCHANGED <<rows, disk, bucket, atStart, relinked, touched>>
      /\ folder' \in {folder, RemoveMade} /\ temps' \subseteq temps
      /\ dead' \in {dead, dead \cup temps} /\ writes' \in {writes, writes + 1}
      /\ writes' = writes \/ writes < MaxWrites
  BY DEF Abort, End, Die, Others
<1>2. FolderQuiet /\ disk' = disk
  BY <1>1 DEF FolderQuiet, RemoveMade
<1>3. writes' \in 0 .. MaxWrites
  BY <1>1, RestoreAssumption DEF IInv, TypeOK
<1>4. Place' = Place
  BY <1>2 DEF FolderQuiet, Place
<1>5. /\ folder' \in {"missing", "dir", "link", "file"}
      /\ folder' \in {"missing", "file"} => \A e \in Entries : disk'["in"][e] = Nothing
  BY <1>2 DEF IInv, TypeOK, FolderQuiet
<1>6. TypeOK'
  BY <1>1, <1>3, <1>5, IdleTyped DEF IInv, TypeOK, bucket
<1>7. Elsewhere'
  BY <1>1, <1>4 DEF IInv, Elsewhere
<1> QED BY <1>1, <1>6, <1>7, IdleInv

-----------------------------------------------------------------------------
(***************************************************************************)
(* Other programs and other machines                                       *)
(***************************************************************************)

\* All that is said of the run but what it reads from.
SameRun ==
  /\ run' \in RunState
  /\ run'.at = run.at /\ run'.row = run.row /\ run'.plan = run.plan
  /\ run'.report = run.report /\ run'.overwrite = run.overwrite
  /\ run'.output = run.output /\ run'.written = run.written
  /\ run'.fate = run.fate /\ run'.records = run.records

\* What stood and has not been touched stands; what was told is told.
LEMMA OthersInv ==
  ASSUME IInv, SameRun, TypeOK', Elsewhere', rows' = rows, atStart' = atStart,
         \A h \in Contents : \A kind : Told(h, kind) => Told(h, kind)',
         folder' = "link" => (folder = "link" /\ relinked' = relinked) \/ relinked' = TRUE,
         touched \subseteq touched',
         \A i \in DOMAIN rows : i <= run.row /\ i \notin touched' =>
           Place' = Place /\ At(rows[i].entry)' = At(rows[i].entry)
  PROVE  IInv'
<1>1. Row' = Row /\ Step' = Step
  BY DEF SameRun, Row, Step
<1>2. Planned'
  BY <1>1 DEF IInv, Planned, SameRun, Fate
<1>3. NotThroughLinks'
  BY DEF IInv, NotThroughLinks, SameRun
<1>4. RecordsRead'
  BY DEF IInv, RecordsRead, SameRun
<1>5. run.at = "idle" \/ (Len(run.report) = Len(rows) /\ DOMAIN run.report = DOMAIN rows)
  <2>1. run.report \in Seq(Reports)
    BY DEF IInv, TypeOK, RunState
  <2> QED BY <2>1, RowsShape, LenProperties DEF IInv, Planned
<1>6. CASE run.at = "idle"
  <2>1. LandedStands'
    BY <1>6 DEF LandedStands, SameRun
  <2>2. ReportKept'
    <3>1. DOMAIN run'.report = {}
      BY <1>6 DEF IInv, Planned, SameRun
    <3> QED BY <3>1 DEF ReportKept
  <2> QED BY <1>2, <1>3, <1>4, <2>1, <2>2 DEF IInv
<1>7. CASE run.at # "idle"
  <2>1. ReportKept'
    <3>0. \A i \in DOMAIN run.report : rows[i].hash \in Contents
      BY <1>5, <1>7, RowsShape DEF IInv, RowType
    <3> SUFFICES ASSUME NEW i \in DOMAIN run.report, run.report[i] = "restored",
                        i \notin touched'
        PROVE  Stands(i)'
      BY <1>1, <3>0 DEF IInv, ReportKept, SameRun
    <3>1. i \in DOMAIN rows /\ i <= run.row
      BY <1>5, <1>7, RowsShape DEF IInv, ReportKept, TypeOK, RunState, MaxRows
    <3>2. Stands(i)
      BY DEF IInv, ReportKept
    <3> QED BY <3>1, <3>2 DEF Stands, There, SameRun
  <2>2. LandedStands'
    <3> SUFFICES ASSUME run.at = "landed", run.row \notin touched'
        PROVE  There(run.row)' /\ At(Row.entry)' = File(Row.hash)
      BY <1>1 DEF LandedStands, SameRun
    <3>1. run.row \in DOMAIN rows /\ run.row <= run.row
      BY InHand DEF IInv, MaxRows
    <3>2. There(run.row) /\ At(Row.entry) = File(Row.hash)
      BY DEF IInv, LandedStands
    <3> QED BY <1>1, <3>1, <3>2 DEF There, SameRun, Row
  <2> QED BY <1>2, <1>3, <1>4, <2>1, <2>2 DEF IInv
<1> QED BY <1>6, <1>7

LEMMA GoneByTyped ==
  ASSUME TypeOK
  PROVE  /\ GoneBy \subseteq 0 .. MaxRows
         /\ \A i \in DOMAIN rows : i <= run.row => i \in GoneBy
  BY RowsShape DEF GoneBy, MaxRows

LEMMA ChangeInv ==
  ASSUME IInv, NEW e \in Entries, Change(e)
  PROVE  IInv'
<1>1. PICK there \in {Nothing} \cup {File(c) : c \in Contents} :
        /\ disk' = [disk EXCEPT ![Place][e] = there]
        /\ run' = IF ReadsFrom(e) THEN [run EXCEPT !.span = @ \cup {there}] ELSE run
  BY DEF Change
<1>2. /\ folder \in {"dir", "link"} /\ touched' = touched \cup {0} \cup {i \in GoneBy : rows[i].entry = e}
      /\ writes < MaxWrites /\ writes' = writes + 1
      /\ UNCHANGED <<rows, folder, temps, objects, record, deletedSince, atStart, dead, relinked>>
  BY DEF Change, Others, bucket
<1>3. there \in Entry
  BY <1>1 DEF Entry, Files, File, MaxRows
<1>4. SameRun
  BY <1>1, <1>3 DEF IInv, TypeOK, RunState, SameRun
<1>5. disk' \in [Places -> [Entries -> Entry]] /\ Place \in Places
      /\ \A p \in Places, d \in Entries : p # Place \/ d # e => disk'[p][d] = disk[p][d]
  BY <1>1, <1>3 DEF IInv, TypeOK, Place, Places
<1>6. touched' \subseteq 0 .. MaxRows
  <2>1. GoneBy \subseteq 0 .. MaxRows /\ touched \subseteq 0 .. MaxRows
    BY GoneByTyped DEF IInv, TypeOK
  <2>2. 0 \in 0 .. MaxRows
    BY DEF MaxRows
  <2> QED BY <1>2, <2>1, <2>2
<1>7. writes' \in 0 .. MaxWrites
  BY <1>2, RestoreAssumption DEF IInv, TypeOK
<1>8. TypeOK'
  BY <1>2, <1>4, <1>5, <1>6, <1>7 DEF IInv, TypeOK, SameRun
<1>9. Place' = Place
  BY <1>2 DEF Place
<1>10. Elsewhere'
  BY <1>5, <1>9 DEF IInv, Elsewhere
<1>11. ASSUME NEW i \in DOMAIN rows, i <= run.row, i \notin touched'
       PROVE  Place' = Place /\ At(rows[i].entry)' = At(rows[i].entry)
  <2>1. rows[i].entry # e /\ rows[i].entry \in Entries /\ rows' = rows
    BY <1>2, <1>11, GoneByTyped, RowsShape DEF IInv, RowType
  <2> QED BY <1>5, <1>9, <2>1 DEF At
<1>12. \A h, kind : Told(h, kind) => Told(h, kind)'
  BY <1>2 DEF Told
<1> QED BY <1>2, <1>4, <1>8, <1>10, <1>11, <1>12, OthersInv

LEMMA RelinkInv ==
  ASSUME IInv, Relink
  PROVE  IInv'
<1>1. /\ folder' = "link" /\ relinked' = TRUE /\ temps' = {} /\ run' = run
      /\ disk' = [disk EXCEPT !["in"] = [e \in Entries |-> Nothing]]
      /\ touched' = touched \cup GoneBy /\ writes < MaxWrites /\ writes' = writes + 1
      /\ UNCHANGED <<rows, objects, record, deletedSince, atStart, dead>>
  BY DEF Relink, Others, bucket
<1>2. touched' \subseteq 0 .. MaxRows
  BY <1>1, GoneByTyped DEF IInv, TypeOK
<1>3. disk' \in [Places -> [Entries -> Entry]] /\ \A e \in Entries : disk'["in"][e] = Nothing
  BY <1>1 DEF IInv, TypeOK, Places, Entry
<1>4. writes' \in 0 .. MaxWrites
  BY <1>1, RestoreAssumption DEF IInv, TypeOK
<1>5. TypeOK' /\ SameRun
  BY <1>1, <1>2, <1>3, <1>4 DEF IInv, TypeOK, SameRun
<1>6. Elsewhere'
  BY <1>1, <1>3 DEF Elsewhere, Place, Places
<1>7. \A i \in DOMAIN rows : i <= run.row => i \in touched'
  BY <1>1, GoneByTyped DEF IInv
<1>8. \A h, kind : Told(h, kind) => Told(h, kind)'
  BY <1>1 DEF Told
<1> QED BY <1>1, <1>5, <1>6, <1>7, <1>8, OthersInv

LEMMA PutFileInv ==
  ASSUME IInv, PutFile
  PROVE  IInv'
<1>1. /\ folder = "missing" /\ folder' = "file" /\ writes < MaxWrites /\ writes' = writes + 1
      /\ UNCHANGED <<rows, disk, temps, objects, record, deletedSince, run, atStart, dead,
                     relinked, touched>>
  BY DEF PutFile, Others, bucket
<1>2. writes' \in 0 .. MaxWrites
  BY <1>1, RestoreAssumption DEF IInv, TypeOK
<1>3. TypeOK' /\ SameRun /\ Place' = Place
  BY <1>1, <1>2 DEF IInv, TypeOK, SameRun, Place
<1>4. Elsewhere' /\ \A e : At(e)' = At(e)
  BY <1>1, <1>3 DEF IInv, Elsewhere, At
<1>5. \A h, kind : Told(h, kind) => Told(h, kind)'
  BY <1>1 DEF Told
<1> QED BY <1>1, <1>3, <1>4, <1>5, OthersInv

LEMMA BucketInv ==
  ASSUME IInv, NEW h \in Contents, Record(h) \/ Delete(h)
  PROVE  IInv'
<1>1. /\ UNCHANGED <<rows, folder, disk, temps, run, atStart, dead, relinked, touched>>
      /\ writes' = writes \/ (writes < MaxWrites /\ writes' = writes + 1)
      /\ objects' \in {objects, [objects EXCEPT ![h] = None]}
      /\ \/ record' = record /\ deletedSince' = deletedSince
         \/ /\ record' = [record EXCEPT ![h] = "newer"]
            /\ deletedSince' = deletedSince \cup {h}
  BY DEF Record, Delete, Others
<1>2. writes' \in 0 .. MaxWrites
  BY <1>1, RestoreAssumption DEF IInv, TypeOK
<1>3. /\ objects' \in [Contents -> Contents \cup {None}]
      /\ record' \in [Contents -> {None, "older", "newer"}]
      /\ deletedSince' \subseteq Contents
  BY <1>1 DEF IInv, TypeOK
<1>4. TypeOK' /\ SameRun
  BY <1>1, <1>2, <1>3 DEF IInv, TypeOK, SameRun
<1>5. Place' = Place /\ Elsewhere' /\ \A i : At(rows[i].entry)' = At(rows[i].entry)
  BY <1>1 DEF IInv, Elsewhere, At, Place
<1>6. ASSUME NEW g \in Contents, NEW kind, Told(g, kind)
      PROVE  Told(g, kind)'
  BY <1>1, <1>6 DEF Told, IInv, TypeOK
<1> QED BY <1>1, <1>4, <1>5, <1>6, OthersInv

-----------------------------------------------------------------------------
(***************************************************************************)
(* A restore begins                                                        *)
(***************************************************************************)

LEMMA BeginInv ==
  ASSUME IInv, Begin
  PROVE  IInv'
<1>1. PICK overwrite \in BOOLEAN, output \in BOOLEAN :
        run' = [Idle EXCEPT !.at = "row", !.overwrite = overwrite, !.output = output,
                  !.plan = [i \in DOMAIN rows |-> Plan(rows[i], overwrite)],
                  !.report = [i \in DOMAIN rows |-> "no"]]
  BY DEF Begin
<1>2. /\ atStart' = [folder |-> folder, disk |-> disk]
      /\ relinked' = FALSE /\ touched' = {} /\ deletedSince' = {}
      /\ UNCHANGED <<rows, folder, disk, temps, objects, record, writes, dead>>
  BY DEF Begin
<1> DEFINE plan == [i \in DOMAIN rows |-> Plan(rows[i], overwrite)]
           report == [i \in DOMAIN rows |-> "no"]
<1>3. Len(rows) \in 1 .. MaxRows /\ Len(rows) \in Nat /\ DOMAIN rows = 1 .. Len(rows)
      /\ \A i \in DOMAIN rows : rows[i] \in RowType
  BY RowsShape DEF IInv, MaxRows
<1>4. plan \in Seq({"skip", "refuse", "block", "write"}) /\ Len(plan) = Len(rows)
      /\ \A i \in DOMAIN rows : plan[i] = Plan(rows[i], overwrite)
  <2>1. plan \in [1 .. Len(rows) -> {"skip", "refuse", "block", "write"}]
    BY <1>3 DEF Plan
  <2> HIDE DEF plan
  <2>2. plan \in Seq({"skip", "refuse", "block", "write"})
    BY <1>3, <2>1, SeqDef
  <2>3. Len(plan) = Len(rows)
    BY <1>3, <2>1, <2>2, LenProperties
  <2> QED BY <1>3, <2>2, <2>3 DEF plan
<1>5. report \in Seq(Reports) /\ Len(report) = Len(rows) /\ DOMAIN report = DOMAIN rows
      /\ \A i \in DOMAIN rows : report[i] = "no"
  <2>1. report \in [1 .. Len(rows) -> Reports]
    BY <1>3 DEF Reports
  <2> HIDE DEF report
  <2>2. report \in Seq(Reports)
    BY <1>3, <2>1, SeqDef
  <2>3. Len(report) = Len(rows)
    BY <1>3, <2>1, <2>2, LenProperties
  <2> QED BY <1>3, <2>1, <2>2, <2>3 DEF report
<1>6. run' = [Idle EXCEPT !.at = "row", !.overwrite = overwrite, !.output = output,
                !.plan = plan, !.report = report]
  BY <1>1
<1>7. \A i \in DOMAIN rows : /\ plan[i] = "skip" => ~overwrite
                             /\ plan[i] = "write" /\ ~overwrite => At(rows[i].entry) = Nothing
  <2> SUFFICES ASSUME NEW i \in DOMAIN rows
      PROVE  /\ plan[i] = "skip" => ~overwrite
             /\ plan[i] = "write" /\ ~overwrite => At(rows[i].entry) = Nothing
    OBVIOUS
  <2>1. At(rows[i].entry) \in Entry
    BY <1>3 DEF RowType, At, Place, Places, IInv, TypeOK
  <2>2. plan[i] = Plan(rows[i], overwrite)
    BY <1>4
  <2> HIDE DEF plan
  <2> QED BY <2>1, <2>2 DEF Plan, Kind, Entry, Files, Nothing, Other
<1> HIDE DEF plan, report
<1>8. /\ run' \in RunState /\ run'.at = "row" /\ run'.row = 1 /\ run'.plan = plan
      /\ run'.report = report /\ run'.overwrite = overwrite /\ run'.records = None
      /\ \A h \in Contents : run'.fate[h].kind = "unknown"
  <2>1. run' \in RunState
    <3> DEFINE idle == [Idle EXCEPT !.at = "row", !.plan = plan, !.report = report]
    <3>1. idle \in RunState
      BY <1>4, <1>5, IdleTyped DEF RunState
    <3>2. run' = [idle EXCEPT !.overwrite = overwrite, !.output = output]
      BY <1>6, IdleTyped DEF RunState
    <3> HIDE DEF idle
    <3> QED BY <3>1, <3>2 DEF RunState
  <2>2. /\ run'.at = "row" /\ run'.row = 1 /\ run'.plan = plan /\ run'.report = report
        /\ run'.overwrite = overwrite /\ run'.records = None
        /\ run'.fate = [h \in Contents |-> Unknown]
    BY <1>6 DEF Idle
  <2>3. \A h \in Contents : run'.fate[h].kind = "unknown"
    BY <2>2 DEF Unknown
  <2> QED BY <2>1, <2>2, <2>3
<1>9. TypeOK'
  BY <1>2, <1>8 DEF IInv, TypeOK
<1>10. Elsewhere'
  BY <1>2 DEF IInv, Elsewhere, Place
<1>11. Planned'
  <2>1. ASSUME ~overwrite, NEW i \in DOMAIN rows, plan[i] = "write", NEW p \in Places
        PROVE  disk[p][rows[i].entry] = Nothing
    <3>1. rows[i].entry \in Entries
      BY <1>3 DEF RowType
    <3>2. CASE p = Place
      BY <1>7, <2>1, <3>2 DEF At
    <3>3. CASE p # Place
      BY <3>1, <3>3 DEF IInv, Elsewhere
    <3> QED BY <3>2, <3>3
  <2>2. 1 <= Len(rows)
    BY <1>3 DEF MaxRows
  <2>3. \A i \in DOMAIN rows : plan[i] = "skip" => ~overwrite
    BY <1>7
  <2> QED BY <1>2, <1>4, <1>5, <1>8, <2>1, <2>2, <2>3 DEF Planned, Working
<1>12. NotThroughLinks' /\ RecordsRead' /\ LandedStands'
  BY <1>8 DEF NotThroughLinks, RecordsRead, LandedStands, Told, Working
<1>13. ReportKept'
  <2>1. \A i \in DOMAIN rows : i >= 1
    BY <1>3 DEF MaxRows
  <2> QED BY <1>5, <1>8, <2>1 DEF ReportKept, Told
<1> QED BY <1>9, <1>10, <1>11, <1>12, <1>13 DEF IInv

-----------------------------------------------------------------------------
(***************************************************************************)
(* What is left behind                                                     *)
(***************************************************************************)
Opened == {"copying", "fetching"}

\* A temp is the row's in hand, or a dead process's.
TempsKnown ==
  /\ \A e \in temps : e \in dead \/ (run.at \in Opened /\ e = Row.entry)
  /\ run.at = "landed" => Row.entry \notin temps
  /\ \A i \in DOMAIN run.report :
       run.report[i] = "restored" /\ rows[i].entry \in temps =>
         run.at \in Opened /\ rows[i].entry = Row.entry

\* A folder that is missing, or that the row made, has no temp of another row.
FolderClean ==
  /\ folder = "missing" => temps = {}
  /\ run.made /\ run.at \in Working =>
       \A e \in temps : run.at \in Opened /\ e = Row.entry

\* A folder that wasn't there has something in it, or the row in hand made it.
FolderUsed ==
  run.at # "idle" /\ atStart.folder = "missing" /\ folder = "dir" =>
    \/ 0 \in touched
    \/ run.made /\ run.at \in {"copy", "copying", "fetch", "fetching"}
    \/ \E e \in Entries : disk["in"][e] # Nothing

LeftInv == TempsKnown /\ FolderClean /\ FolderUsed

\* A reported row leaves no temp of its own behind.
LEMMA LeftReports ==
  ASSUME IInv, LeftInv, run.at \notin {"idle", "done"}, NEW r, Knows(r),
         NEW told \in Reports, run' = Reported(r, told), rows' = rows, dead' = dead,
         temps' \subseteq temps, run.at \in Opened => Row.entry \notin temps',
         told = "restored" => run.at = "landed",
         folder' = "missing" => temps' = {}, FolderUsed'
  PROVE  LeftInv'
<1>1. /\ run'.at \in {"row", "done"}
      /\ run'.report = [run.report EXCEPT ![run.row] = told]
  <2>1. TypeOK /\ Planned
    BY DEF IInv
  <2> QED BY <2>1, ReportedTyped
<1>2. \A e \in temps' : e \in dead'
  BY DEF LeftInv, TempsKnown
<1>3. run'.at \notin Opened /\ run'.at # "landed" /\ run'.at \notin Working
  BY <1>1 DEF Opened, Working
<1>4. ASSUME NEW i \in DOMAIN run'.report, run'.report[i] = "restored"
      PROVE  rows[i].entry \notin temps'
  <2>1. i \in DOMAIN run.report /\ (i = run.row => told = "restored")
        /\ (i # run.row => run.report[i] = "restored")
    BY <1>1, <1>4
  <2> QED BY <2>1 DEF LeftInv, TempsKnown, Row
<1>5. TempsKnown'
  BY <1>2, <1>3, <1>4 DEF TempsKnown
<1>6. FolderClean'
  BY <1>3 DEF FolderClean
<1> QED BY <1>5, <1>6 DEF LeftInv

\* A row that goes on has a temp open only while it copies or fetches.
LEMMA LeftGoesOn ==
  ASSUME LeftInv, Knows(run'), rows' = rows, dead' = dead,
         run'.at # "idle",
         \/ temps' = temps /\ run.at \notin Opened /\ run'.at \notin Opened \cup {"landed"}
         \/ temps' = temps \ {Row.entry} /\ run'.at \notin Opened
         \/ temps' = temps \cup {Row.entry} /\ run'.at \in Opened,
         run'.made => temps = {} \/ (run.made /\ run.at \in Working),
         folder' = "missing" => temps' = {}, FolderUsed'
  PROVE  LeftInv'
<1>1. Row' = Row /\ run'.report = run.report
  BY DEF Knows, Row
<1>2. TempsKnown'
  BY <1>1 DEF LeftInv, TempsKnown, Opened
<1>3. FolderClean'
  BY <1>1 DEF LeftInv, FolderClean, Opened
<1> QED BY <1>2, <1>3 DEF LeftInv

\* removeMade takes the folder the row made when nothing is in it but the row's
\* temp, and leaves one only if somebody has put something there.
LEMMA RemoveMadeLeft ==
  ASSUME LeftInv, run.at \in {"copy", "copying", "fetch", "fetching"},
         folder' = RemoveMade, UNCHANGED <<disk, touched, atStart>>
  PROVE  /\ folder' = "missing" => temps \subseteq {Row.entry}
         /\ folder' = "missing" /\ run.at \notin Opened => temps = {}
         /\ atStart'.folder = "missing" /\ folder' = "dir" =>
              0 \in touched' \/ \E e \in Entries : disk'["in"][e] # Nothing
<1>1. run.made => \A e \in temps : run.at \in Opened /\ e = Row.entry
  BY DEF LeftInv, FolderClean, Working
<1>2. folder = "missing" => temps = {}
  BY DEF LeftInv, FolderClean
<1>3. folder' = "missing" => folder = "missing" \/ run.made
  BY DEF RemoveMade
<1>4. ASSUME atStart.folder = "missing", folder' = "dir", 0 \notin touched,
             \A e \in Entries : disk["in"][e] = Nothing
      PROVE  FALSE
  <2>1. folder = "dir"
    BY <1>4 DEF RemoveMade
  <2>2. run.made
    BY <1>4, <2>1 DEF LeftInv, FolderUsed
  <2>3. temps \subseteq {Row.entry}
    BY <1>1, <2>2
  <2> QED BY <1>4, <2>1, <2>2, <2>3 DEF RemoveMade
<1> QED BY <1>1, <1>2, <1>3, <1>4

LEMMA FailsLeft ==
  ASSUME IInv, LeftInv, run.at \in {"copy", "copying", "fetch", "fetching"},
         NEW r, Knows(r), NEW told \in {"refused", "blocked", "corrupt"}, Fails(r, told), Rest
  PROVE  LeftInv'
<1>1. /\ run' = Reported(r, told) /\ folder' = RemoveMade /\ temps' = temps \ {Row.entry}
      /\ UNCHANGED <<disk, touched, atStart>> /\ rows' = rows /\ dead' = dead
  BY DEF Fails, Rest
<1>2. FolderUsed' /\ (folder' = "missing" => temps' = {})
  BY <1>1, RemoveMadeLeft DEF FolderUsed
<1>3. told \in Reports /\ told # "restored"
  BY DEF Reports
<1> QED BY <1>1, <1>2, <1>3, LeftReports

LEMMA OpenTempLeft ==
  ASSUME IInv, LeftInv, run.at \in {"copy", "fetch"}, NEW r, Knows(r), r.made = run.made,
         NEW next \in Opened, OpenTemp(r, next), Rest
  PROVE  LeftInv'
<1>1. CASE Fails(r, "refused") \/ Fails(r, "blocked")
  BY <1>1, FailsLeft
<1>2. CASE /\ folder \in {"dir", "link"} /\ temps' = temps \cup {Row.entry}
           /\ run' = [r EXCEPT !.at = next] /\ UNCHANGED <<folder, disk, touched>>
  <2>1. Knows(run') /\ run'.at = next /\ run'.made = run.made
    BY <1>2 DEF Knows, RunState, Opened
  <2>2. FolderUsed'
    BY <1>2, <2>1 DEF LeftInv, FolderUsed, Rest, Opened
  <2>3. run.at \in Working /\ run'.at # "idle" /\ run'.at \in Opened /\ folder' # "missing"
    BY <1>2, <2>1 DEF Working, Opened
  <2> QED BY <1>2, <2>1, <2>2, <2>3, LeftGoesOn DEF Rest
<1> QED BY <1>1, <1>2 DEF OpenTemp

LEMMA RenameLeft ==
  ASSUME IInv, LeftInv, run.at \in Opened, Rename(Row.hash), Rest, IInv'
  PROVE  LeftInv'
<1>1. Knows(run) /\ run.at \in {"copying", "fetching"} /\ run.at \in Working
  BY RunKnows DEF IInv, Opened, Working
<1>2. CASE Fails(run, "refused") \/ Fails(run, "blocked")
  BY <1>1, <1>2, FailsLeft
<1>3. CASE /\ folder \in {"dir", "link"} /\ folder' = folder
           /\ disk' = [disk EXCEPT ![Place][Row.entry] = File(Row.hash)]
           /\ temps' = temps \ {Row.entry}
           /\ run' = [run EXCEPT !.at = "landed", !.span = {},
                        !.written = @ \cup {<<Place, Row.entry>>},
                        !.fate[Row.hash] = [kind |-> "landed", from |-> Row.entry]]
  <2>1. run \in RunState /\ run' \in RunState /\ Row.entry \in Entries
        /\ disk \in [Places -> [Entries -> Entry]]
    <3>1. run.at \notin {"idle", "done"}
      BY <1>1
    <3> QED BY <3>1, InHand DEF IInv, TypeOK
  <2>2. run'.at = "landed" /\ run'.made = run.made /\ Knows(run')
    BY <1>3, <2>1 DEF RunState, Knows
  <2>3. folder = "dir" => disk'["in"][Row.entry] # Nothing
    BY <1>3, <2>1 DEF Place, Places, File, Nothing, Other
  <2>4. FolderUsed' /\ folder' # "missing" /\ run'.at \notin Opened
    BY <1>3, <2>1, <2>2, <2>3 DEF FolderUsed, Opened
  <2> QED BY <1>1, <1>3, <2>2, <2>4, LeftGoesOn DEF Rest
<1> QED BY <1>2, <1>3 DEF Rename

LEMMA ForgetLeft ==
  ASSUME IInv, LeftInv, run.at \in {"copy", "copying"}, run' = Forget(run), IInv',
         UNCHANGED <<folder, disk, touched>>, Rest,
         temps' = IF run.at = "copy" THEN temps ELSE temps \ {Row.entry}
  PROVE  LeftInv'
<1>1. run \in RunState /\ run' \in RunState
  BY DEF IInv, TypeOK
<1>2. Knows(run') /\ run'.made = run.made /\ run'.at = "fetch"
  BY <1>1 DEF Forget, Knows, RunState
<1>3. FolderUsed'
  BY <1>2 DEF LeftInv, FolderUsed, Rest
<1>4. folder' = "missing" => temps' = {}
  BY DEF LeftInv, FolderClean
<1>5. run.at \in Working /\ run'.at # "idle" /\ run'.at \notin Opened \cup {"landed"}
      /\ (run.at = "copy" => run.at \notin Opened)
  BY <1>2 DEF Working, Opened
<1> QED BY <1>2, <1>3, <1>4, <1>5, LeftGoesOn DEF Rest

LEMMA CopyLeft ==
  ASSUME IInv, LeftInv, OpenCopy \/ Copy
  PROVE  LeftInv'
<1>1. Knows(run) /\ IInv'
  BY RunKnows, CopyInv DEF IInv
<1>2. CASE OpenCopy
  <2> DEFINE r == [run EXCEPT !.span = {Source}]
  <2>1. CASE folder \in {"dir", "link"} /\ Source.kind = "file"
    <3>1. Source \in Entry
      <4>1. run.at \notin {"idle", "done"} /\ run.at \in {"copy", "copying"}
        BY <1>2 DEF OpenCopy
      <4>2. Fate.kind = "landed" /\ run.fate[Row.hash] \in Fates
        BY <4>1, InHand DEF IInv, Planned
      <4>3. Fate.from \in Entries
        BY <4>2 DEF Fate, Fates, Unknown
      <4> QED BY <4>3 DEF IInv, TypeOK, Source, At, Place, Places
    <3>2. Knows(r) /\ r.made = run.made
      <4>1. run \in RunState
        BY DEF IInv, TypeOK
      <4> QED BY <4>1, <3>1 DEF Knows, RunState
    <3>3. OpenTemp(r, "copying") /\ run.at \in {"copy", "fetch"} /\ Rest
      BY <1>2, <2>1 DEF OpenCopy, Rest
    <3>4. "copying" \in Opened
      BY DEF Opened
    <3> HIDE DEF r
    <3> QED BY <3>2, <3>3, <3>4, OpenTempLeft
  <2>2. CASE ~(folder \in {"dir", "link"} /\ Source.kind = "file")
    BY <1>1, <1>2, <2>2, ForgetLeft DEF OpenCopy, Rest
  <2> QED BY <2>1, <2>2
<1>3. CASE Copy
  <2>1. run.at = "copying" /\ Rest
        /\ \/ Rename(Row.hash)
           \/ /\ run' = Forget(run) /\ temps' = temps \ {Row.entry}
              /\ UNCHANGED <<folder, disk, touched>>
    BY <1>3 DEF Copy, DigestMatches, Rest
  <2>2. run.at \in Opened
    BY <2>1 DEF Opened
  <2> QED BY <1>1, <2>1, <2>2, RenameLeft, ForgetLeft
<1> QED BY <1>2, <1>3

LEMMA FetchLeft ==
  ASSUME IInv, LeftInv, Fetch \/ Store
  PROVE  LeftInv'
<1>1. Knows(run) /\ IInv' /\ run \in RunState
  BY RunKnows, FetchInv DEF IInv, TypeOK
<1>2. run.at \notin {"idle", "done"} /\ Row.hash \in Contents
  <2>1. run.at \notin {"idle", "done"}
    BY DEF Fetch, Store
  <2> QED BY <2>1, InHand DEF IInv
<1>3. CASE Fetch /\ objects[Row.hash] = None
  <2>1. /\ run.at = "fetch" /\ run' = [run EXCEPT !.at = "absent", !.made = FALSE]
        /\ folder' = RemoveMade /\ UNCHANGED <<disk, temps, touched>> /\ Rest
    BY <1>3 DEF Fetch, Rest
  <2>2. Knows(run') /\ run'.at = "absent" /\ run'.made = FALSE
    BY <1>1, <2>1 DEF Knows, RunState
  <2>3. UNCHANGED <<disk, touched, atStart>> /\ run.at \notin Opened
        /\ run'.at \notin Opened \cup {"landed"}
    BY <2>1, <2>2 DEF Rest, Opened
  <2>4. FolderUsed' /\ (folder' = "missing" => temps' = {})
    BY <2>1, <2>3, RemoveMadeLeft DEF FolderUsed
  <2> QED BY <2>1, <2>2, <2>3, <2>4, LeftGoesOn DEF Rest
<1>4. CASE Fetch /\ objects[Row.hash] # None
  <2> DEFINE r == [run EXCEPT !.span = {File(objects[Row.hash])}]
  <2>1. File(objects[Row.hash]) \in Entry
    <3>1. objects[Row.hash] \in Contents
      BY <1>2, <1>4 DEF IInv, TypeOK
    <3> QED BY <3>1 DEF File, Entry, Files, MaxRows
  <2>2. Knows(r) /\ r.made = run.made
    BY <1>1, <2>1 DEF Knows, RunState
  <2>3. OpenTemp(r, "fetching") /\ run.at \in {"copy", "fetch"} /\ Rest
    BY <1>4 DEF Fetch, Rest
  <2>4. "fetching" \in Opened
    BY DEF Opened
  <2> HIDE DEF r
  <2> QED BY <2>2, <2>3, <2>4, OpenTempLeft
<1>5. CASE Store
  <2> DEFINE r == [run EXCEPT !.fate[Row.hash] = [kind |-> "corrupt", from |-> None]]
  <2>1. run.at = "fetching" /\ Rest /\ (Rename(Row.hash) \/ Fails(r, "corrupt"))
    BY <1>5 DEF Store, Rest
  <2>2. Knows(r)
    <3>1. [kind |-> "corrupt", from |-> None] \in Fates
      BY DEF Fates
    <3>2. [run.fate EXCEPT ![Row.hash] = [kind |-> "corrupt", from |-> None]] \in [Contents -> Fates]
      BY <1>1, <3>1 DEF RunState
    <3> QED BY <1>1, <3>2 DEF Knows, RunState
  <2>3. run.at \in Opened
    BY <2>1 DEF Opened
  <2> HIDE DEF r
  <2> QED BY <1>1, <2>1, <2>2, <2>3, RenameLeft, FailsLeft
<1> QED BY <1>3, <1>4, <1>5 DEF Fetch

LEMMA DecideLeft ==
  ASSUME IInv, LeftInv, Decide
  PROVE  LeftInv'
<1>1. run.at = "row" /\ run.at \notin {"idle", "done"} /\ run.at \notin Opened
      /\ UNCHANGED <<rows, disk, temps, bucket, writes, atStart, dead, touched>>
  BY DEF Decide, Opened
<1>2. run \in RunState /\ LinkedFolder \in BOOLEAN /\ run.fate[Row.hash] \in Fates
  BY <1>1, InHand DEF IInv, LinkedFolder, RunState
<1> DEFINE r == IF run.output THEN Looked ELSE run
<1>3. Knows(run) /\ Knows(r) /\ r \in RunState
  <2>1. Looked \in RunState
    BY <1>2 DEF Looked, RunState
  <2>2. /\ Looked.row = run.row /\ Looked.plan = run.plan /\ Looked.report = run.report
        /\ Looked.overwrite = run.overwrite /\ Looked.output = run.output
    BY <1>2 DEF Looked, RunState
  <2>3. Knows(run) /\ Knows(Looked)
    BY <1>2, <2>1, <2>2 DEF Knows
  <2> QED BY <1>2, <2>1, <2>3
<1> HIDE DEF r
<1>4. CASE /\ folder' = folder
           /\ \E told \in Reports \ {"restored"} : run' = Reported(run, told) \/ run' = Reported(r, told)
  <2>1. PICK told \in Reports \ {"restored"} : run' = Reported(run, told) \/ run' = Reported(r, told)
    BY <1>4
  <2>2. FolderUsed' /\ (folder' = "missing" => temps' = {})
    BY <1>1, <1>4 DEF LeftInv, FolderUsed, FolderClean
  <2> QED BY <1>1, <1>3, <2>1, <2>2, LeftReports
<1>5. CASE /\ folder' = IF folder = "missing" THEN "dir" ELSE folder
           /\ run' = [r EXCEPT !.made = folder = "missing",
                               !.at = IF Fate.kind = "landed" THEN "copy" ELSE "fetch"]
  <2> DEFINE made == folder = "missing"
             at == IF Fate.kind = "landed" THEN "copy" ELSE "fetch"
  <2>1. made \in BOOLEAN /\ at \in {"copy", "fetch"} /\ (folder = "missing" <=> made)
        /\ run' = [r EXCEPT !.made = made, !.at = at]
    BY <1>5
  <2> HIDE DEF made, at
  <2>2. Knows(run') /\ run'.at \in {"copy", "fetch"} /\ run'.made = made
    BY <1>3, <2>1 DEF Knows, RunState
  <2>3. FolderUsed' /\ folder' # "missing" /\ (run'.made => temps = {})
    BY <1>1, <1>5, <2>1, <2>2 DEF LeftInv, FolderUsed, FolderClean
  <2>4. run'.at # "idle" /\ run'.at \notin Opened \cup {"landed"}
    BY <2>2 DEF Opened
  <2>5. rows' = rows /\ dead' = dead /\ temps' = temps /\ run.at \notin Opened
    BY <1>1
  <2>6. /\ \/ temps' = temps /\ run.at \notin Opened /\ run'.at \notin Opened \cup {"landed"}
           \/ temps' = temps \ {Row.entry} /\ run'.at \notin Opened
           \/ temps' = temps \cup {Row.entry} /\ run'.at \in Opened
        /\ run'.made => temps = {} \/ (run.made /\ run.at \in Working)
        /\ folder' = "missing" => temps' = {}
    BY <2>3, <2>4, <2>5
  <2>7. LeftInv /\ Knows(run') /\ FolderUsed' /\ run'.at # "idle"
    BY <2>2, <2>3, <2>4
  <2> QED BY <2>5, <2>6, <2>7, LeftGoesOn
<1>6. Fate.kind \in {"deleted", "missing", "corrupt", "unknown", "landed"}
  BY <1>2 DEF Fate, Fates, Unknown
<1>7. {"refused", "deleted", "missing", "corrupt", "blocked", "skipped", "collided"}
        \subseteq Reports \ {"restored"}
  BY DEF Reports
<1>8. Step \in {"skip", "refuse", "block", "write"}
  BY <1>1, InHand DEF IInv
<1>9. CASE Step = "refuse" \/ Fate.kind \in {"deleted", "missing", "corrupt"}
  BY <1>4, <1>6, <1>7, <1>9 DEF Decide, Decided
<1>10. CASE Step # "refuse" /\ Fate.kind \in {"unknown", "landed"}
  <2>1. CASE folder = "file" \/ ~(Step = "write" /\ ~Collides) \/ (run.output /\ LinkedFolder)
    BY <1>4, <1>5, <1>7, <1>8, <1>10, <2>1 DEF Decide, r
  <2>2. CASE folder # "file" /\ Step = "write" /\ ~Collides /\ ~(run.output /\ LinkedFolder)
    BY <1>5, <1>10, <2>2 DEF Decide, r
  <2> QED BY <2>1, <2>2
<1> QED BY <1>6, <1>9, <1>10

LEMMA AbsentLeft ==
  ASSUME IInv, LeftInv, Absent
  PROVE  LeftInv'
<1> DEFINE records == IF run.records = None THEN record ELSE run.records
           kind == IF Explains(records[Row.hash]) THEN "deleted" ELSE "missing"
           fate == [run.fate EXCEPT ![Row.hash] = [kind |-> kind, from |-> None]]
           r == [run EXCEPT !.records = records, !.fate = fate]
<1>1. /\ run.at = "absent" /\ run.at \notin {"idle", "done"} /\ run.at \notin Opened
      /\ UNCHANGED <<rows, folder, disk, temps, touched, atStart, dead>>
  BY DEF Absent, Opened
<1>2. run' = Reported([run EXCEPT !.records = records,
                         !.fate[Row.hash] = [kind |-> kind, from |-> None]], kind)
  BY DEF Absent
<1>3. run \in RunState /\ Row.hash \in Contents /\ record \in [Contents -> {None, "older", "newer"}]
  BY <1>1, InHand DEF IInv, TypeOK
<1>4. kind \in {"deleted", "missing"} /\ kind \in Reports /\ kind # "restored"
  BY DEF Reports
<1>5. records \in {None} \cup [Contents -> {None, "older", "newer"}]
  BY <1>3 DEF RunState
<1> HIDE DEF kind, records
<1>6. fate \in [Contents -> Fates]
  BY <1>3, <1>4 DEF RunState, Fates
<1>7. run' = Reported(r, kind)
  BY <1>2, <1>3 DEF RunState
<1> HIDE DEF fate
<1>8. Knows(r)
  BY <1>3, <1>5, <1>6 DEF Knows, RunState
<1>9. FolderUsed' /\ (folder' = "missing" => temps' = {})
  BY <1>1 DEF LeftInv, FolderUsed, FolderClean
<1> HIDE DEF r
<1> QED BY <1>1, <1>4, <1>7, <1>8, <1>9, LeftReports

LEMMA IdleLeft ==
  ASSUME run' = Idle, temps' \subseteq dead', folder' = "missing" => temps' = {}
  PROVE  LeftInv'
<1>1. run'.at = "idle" /\ DOMAIN run'.report = {}
  BY DEF Idle
<1> QED BY <1>1 DEF LeftInv, TempsKnown, FolderClean, FolderUsed, Working

LEMMA SetTimeLeft ==
  ASSUME IInv, LeftInv, SetTime
  PROVE  LeftInv'
<1>1. /\ run.at = "landed" /\ run.at \notin {"idle", "done"} /\ run.at \notin Opened
      /\ UNCHANGED <<rows, folder, temps, touched, atStart, dead>>
  BY DEF SetTime, Opened
<1>2. temps \subseteq dead /\ (folder = "missing" => temps = {}) /\ Row.entry \notin temps
  BY <1>1 DEF LeftInv, TempsKnown, FolderClean
<1>3. CASE run' = Idle
  BY <1>1, <1>2, <1>3, IdleLeft
<1>4. ASSUME NEW kept \in BOOLEAN,
             disk' = IF kept /\ Kind(Row.entry) = "file"
                     THEN [disk EXCEPT ![Place][Row.entry].time = run.row] ELSE disk,
             run' = Reported(run, IF kept THEN "restored" ELSE "clamped")
      PROVE  LeftInv'
  <2> DEFINE told == IF kept THEN "restored" ELSE "clamped"
  <2>1. told \in Reports /\ run' = Reported(run, told)
    BY <1>4 DEF Reports
  <2>2. Knows(run)
    BY RunKnows DEF IInv
  <2>3. ASSUME NEW e \in Entries, disk["in"][e] # Nothing
        PROVE  disk'["in"][e] # Nothing
    <3>1. disk \in [Places -> [Entries -> Entry]] /\ Row.entry \in Entries
      BY <1>1, InHand DEF IInv, TypeOK
    <3>2. CASE disk' = [disk EXCEPT ![Place][Row.entry].time = run.row]
               /\ Kind(Row.entry) = "file"
      <4>1. CASE Place = "in" /\ e = Row.entry
        <5>1. disk["in"][e] \in Files
          BY <3>1, <3>2, <4>1 DEF Kind, At, Places, Entry, Nothing, Other
        <5>2. disk'["in"][e] = [disk["in"][e] EXCEPT !.time = run.row]
          BY <3>1, <3>2, <4>1 DEF Places
        <5>3. disk'["in"][e].kind = "file"
          BY <5>1, <5>2 DEF Files
        <5> QED BY <5>3 DEF Nothing, Other
      <4>2. CASE ~(Place = "in" /\ e = Row.entry)
        BY <2>3, <3>1, <3>2, <4>2 DEF Place, Places
      <4> QED BY <4>1, <4>2
    <3> QED BY <1>4, <2>3, <3>2
  <2>4. FolderUsed'
    BY <1>1, <2>3 DEF LeftInv, FolderUsed
  <2> HIDE DEF told
  <2> QED BY <1>1, <1>2, <2>1, <2>2, <2>4, LeftReports
<1> QED BY <1>3, <1>4 DEF SetTime

LEMMA StopLeft ==
  ASSUME IInv, LeftInv, Abort \/ End \/ Die
  PROVE  LeftInv'
<1>1. \A e \in temps : e \in dead \/ (run.at \in Opened /\ e = Row.entry)
  BY DEF LeftInv, TempsKnown
<1>2. folder = "missing" => temps = {}
  BY DEF LeftInv, FolderClean
<1>3. CASE Abort
  <2>1. /\ run' = Idle /\ folder' = RemoveMade /\ dead' = dead
        /\ temps' = temps \ {e \in Entries : run.at = "fetching" /\ e = Row.entry}
        /\ run.at \in {"fetch", "fetching", "absent"} /\ temps \subseteq Entries
    BY <1>3 DEF Abort, IInv, TypeOK
  <2>2. temps' \subseteq dead'
    BY <1>1, <2>1 DEF Opened
  <2>3. folder' = "missing" => folder = "missing" \/ run.made
    BY <2>1 DEF RemoveMade
  <2>4. run.made => \A e \in temps : run.at = "fetching" /\ e = Row.entry
    BY <2>1 DEF LeftInv, FolderClean, Working, Opened
  <2>5. folder' = "missing" => temps' = {}
    BY <1>2, <2>1, <2>3, <2>4
  <2> QED BY <2>1, <2>2, <2>5, IdleLeft
<1>4. CASE End
  BY <1>1, <1>2, <1>4, IdleLeft DEF End, Opened
<1>5. CASE Die
  BY <1>2, <1>5, IdleLeft DEF Die
<1> QED BY <1>3, <1>4, <1>5

\* Others leave temps alone, but for a folder that they swap.
LEMMA OthersLeft ==
  ASSUME LeftInv, run'.at = run.at, run'.row = run.row, run'.report = run.report,
         run'.made = run.made, rows' = rows, dead' = dead, temps' \in {temps, {}},
         folder' = "missing" => folder = "missing", FolderUsed'
  PROVE  LeftInv'
<1>1. Row' = Row
  BY DEF Row
<1>2. TempsKnown'
  BY <1>1 DEF LeftInv, TempsKnown
<1>3. FolderClean'
  BY <1>1 DEF LeftInv, FolderClean
<1> QED BY <1>2, <1>3 DEF LeftInv

LEMMA OthersStepLeft ==
  ASSUME IInv, LeftInv,
         \/ \E e \in Entries : Change(e)
         \/ \E h \in Contents : Record(h) \/ Delete(h)
         \/ Relink \/ PutFile \/ UNCHANGED vars
  PROVE  LeftInv'
<1>1. CASE \E e \in Entries : Change(e)
  <2>1. PICK e \in Entries : Change(e)
    BY <1>1
  <2>2. run \in RunState
    BY DEF IInv, TypeOK
  <2>3. run'.at = run.at /\ run'.row = run.row /\ run'.report = run.report
        /\ run'.made = run.made
    BY <2>1, <2>2 DEF Change, RunState
  <2>4. 0 \in touched' /\ UNCHANGED <<rows, dead, temps, folder>>
    BY <2>1 DEF Change
  <2> QED BY <2>3, <2>4, OthersLeft DEF FolderUsed
<1>2. CASE \E h \in Contents : Record(h) \/ Delete(h)
  <2>1. UNCHANGED <<rows, folder, disk, temps, run, atStart, dead, touched>>
    BY <1>2 DEF Record, Delete
  <2>2. FolderUsed'
    BY <2>1 DEF LeftInv, FolderUsed
  <2> QED BY <2>1, <2>2, OthersLeft
<1>3. CASE Relink \/ PutFile
  <2>1. UNCHANGED <<rows, run, dead>> /\ temps' \in {temps, {}} /\ folder' \in {"link", "file"}
    BY <1>3 DEF Relink, PutFile
  <2> QED BY <2>1, OthersLeft DEF FolderUsed
<1>4. CASE UNCHANGED vars
  <2>1. FolderUsed'
    BY <1>4 DEF LeftInv, FolderUsed, vars
  <2> QED BY <1>4, <2>1, OthersLeft DEF vars
<1> QED BY <1>1, <1>2, <1>3, <1>4

LEMMA BeginLeft ==
  ASSUME IInv, LeftInv, Begin
  PROVE  LeftInv'
<1>1. PICK overwrite \in BOOLEAN, output \in BOOLEAN :
        run' = [Idle EXCEPT !.at = "row", !.overwrite = overwrite, !.output = output,
                  !.plan = [i \in DOMAIN rows |-> Plan(rows[i], overwrite)],
                  !.report = [i \in DOMAIN rows |-> "no"]]
  BY DEF Begin
<1>2. /\ atStart' = [folder |-> folder, disk |-> disk] /\ run.at = "idle"
      /\ UNCHANGED <<rows, folder, temps, dead>>
  BY DEF Begin
<1>3. run'.at = "row" /\ run'.report = [i \in DOMAIN rows |-> "no"]
  BY <1>1 DEF Idle
<1>4. TempsKnown'
  BY <1>2, <1>3 DEF LeftInv, TempsKnown, Opened
<1>5. FolderClean' /\ FolderUsed'
  BY <1>2, <1>3 DEF LeftInv, FolderClean, FolderUsed, Working
<1> QED BY <1>4, <1>5 DEF LeftInv

-----------------------------------------------------------------------------
(***************************************************************************)
(* The theorems                                                            *)
(***************************************************************************)

LEMMA InitInv == Init => IInv
<1> SUFFICES ASSUME Init PROVE IInv
  OBVIOUS
<1>1. PICK e \in Entries, there \in Entry :
        /\ folder = "missing" => there = Nothing
        /\ disk = [p \in Places |-> [d \in Entries |->
                     IF p = Place /\ d = e THEN there ELSE Nothing]]
  BY DEF Init
<1>2. Nothing \in Entry
  BY DEF Entry
<1>3. /\ disk \in [Places -> [Entries -> Entry]]
      /\ folder \in {"missing", "file"} => \A d \in Entries : disk["in"][d] = Nothing
  BY <1>1, <1>2 DEF Init, Places
<1>4. TypeOK
  <2>1. atStart \in [folder : {"missing", "dir", "link", "file"},
                     disk : [Places -> [Entries -> Entry]]]
    BY <1>3 DEF Init
  <2>2. writes \in 0 .. MaxWrites
    BY RestoreAssumption DEF Init
  <2>3. /\ run \in RunState /\ rows \in Selections /\ folder \in {"missing", "dir", "link", "file"}
        /\ temps \subseteq Entries /\ objects \in [Contents -> Contents \cup {None}]
        /\ record \in [Contents -> {None, "older", "newer"}]
        /\ dead \subseteq Entries /\ relinked \in BOOLEAN /\ touched \subseteq 0 .. MaxRows
        /\ deletedSince \subseteq Contents
    BY IdleTyped DEF Init
  <2> QED BY <1>3, <2>1, <2>2, <2>3 DEF TypeOK
<1>5. Elsewhere
  BY <1>1 DEF Elsewhere
<1>6. run.at = "idle" /\ run.report = <<>> /\ DOMAIN run.report = {} /\ run.records = None
      /\ \A h \in Contents : run.fate[h].kind = "unknown"
  BY DEF Init, Idle, Unknown
<1>7. Planned /\ NotThroughLinks /\ ReportKept /\ LandedStands /\ RecordsRead
  BY <1>6 DEF Planned, NotThroughLinks, ReportKept, LandedStands, RecordsRead, Told, Working
<1> QED BY <1>4, <1>5, <1>7 DEF IInv

LEMMA StutterInv ==
  ASSUME IInv, UNCHANGED vars
  PROVE  IInv'
<1>1. UNCHANGED <<rows, folder, disk, temps, objects, record, writes, run, atStart, dead,
                  relinked, touched, deletedSince>>
  BY DEF vars
<1>2. TypeOK' /\ Place' = Place /\ SameRun
  BY <1>1 DEF IInv, TypeOK, Place, SameRun
<1>3. Elsewhere'
  BY <1>1, <1>2 DEF IInv, Elsewhere
<1>4. \A h, kind : Told(h, kind) => Told(h, kind)'
  BY <1>1 DEF Told
<1>5. \A i \in DOMAIN rows : At(rows[i].entry)' = At(rows[i].entry)
  BY <1>1, <1>2 DEF At
<1> QED BY <1>1, <1>2, <1>3, <1>4, <1>5, OthersInv

LEMMA NextInv == IInv /\ [Next]_vars => IInv'
<1> SUFFICES ASSUME IInv, [Next]_vars PROVE IInv'
  OBVIOUS
<1>1. CASE \E e \in Entries : Change(e)
  BY <1>1, ChangeInv
<1>2. CASE \E h \in Contents : Record(h) \/ Delete(h)
  BY <1>2, BucketInv
<1>3. CASE Relink \/ PutFile \/ Begin \/ Decide
  BY <1>3, RelinkInv, PutFileInv, BeginInv, DecideInv
<1>4. CASE OpenCopy \/ Copy \/ Fetch \/ Store \/ Absent \/ SetTime
  BY <1>4, CopyInv, FetchInv, AbsentInv, SetTimeInv
<1>5. CASE Abort \/ End \/ Die
  BY <1>5, StopInv
<1>6. CASE UNCHANGED vars
  BY <1>6, StutterInv
<1> QED BY <1>1, <1>2, <1>3, <1>4, <1>5, <1>6 DEF Next

LEMMA Inductive == Spec => []IInv
  BY InitInv, NextInv, PTL DEF Spec

\* Every variable stays of its type, with any number of entries, contents and
\* changes by others.
THEOREM TypeCorrect == Spec => []TypeOK
<1>1. IInv => TypeOK
  BY DEF IInv
<1> QED BY <1>1, Inductive, PTL

\* What lands under a row is the content the snapshot recorded for it
\* (copyFileAtomic, getObject), however often a copy's source changes.
THEOREM LandedIsRecorded == Spec => LandsItsContent
<1>1. ASSUME IInv, Copy \/ Store, NEW p \in Places, NEW e \in Entries,
             disk'[p][e] # disk[p][e]
      PROVE  e = Row.entry /\ disk'[p][e].content = Row.hash
  <2>1. Rename(Row.hash) \/ disk' = disk
    BY <1>1 DEF Copy, Store, DigestMatches, Fails
  <2>2. disk' = [disk EXCEPT ![Place][Row.entry] = File(Row.hash)]
    BY <1>1, <2>1 DEF Rename, Fails
  <2>3. disk \in [Places -> [Entries -> Entry]]
    BY <1>1 DEF IInv, TypeOK
  <2> QED BY <1>1, <2>2, <2>3 DEF File
<1>2. IInv /\ [Next]_vars =>
        (Copy \/ Store => \A p \in Places, e \in Entries :
           disk'[p][e] # disk[p][e] => e = Row.entry /\ disk'[p][e].content = Row.hash)
  BY <1>1
<1> QED BY <1>2, Inductive, PTL DEF LandsItsContent, Spec

\* A step of the restore changes a file only at the name of the row in hand, and
\* only if the plan is to write it.
LEMMA WritesItsRow ==
  ASSUME IInv, Advance, NEW p \in Places, NEW e \in Entries, disk'[p][e] # disk[p][e]
  PROVE  /\ run.at \in Working /\ Step = "write"
         /\ p = Place /\ e = Row.entry /\ run.row \in DOMAIN rows
<1>1. disk \in [Places -> [Entries -> Entry]]
  BY DEF IInv, TypeOK
<1>2. run.at \in {"copying", "fetching", "landed"}
      /\ \/ disk' = [disk EXCEPT ![Place][Row.entry] = File(Row.hash)]
         \/ disk' = [disk EXCEPT ![Place][Row.entry].time = run.row]
  BY DEF Advance, Decide, OpenCopy, OpenTemp, Copy, Fetch, Store, Absent, SetTime, Rename,
         Fails, DigestMatches
<1>3. run.at \in Working /\ Step = "write" /\ run.row \in DOMAIN rows
  BY <1>2, InHand DEF IInv, Planned, Working
<1> QED BY <1>1, <1>2, <1>3

\* Without --overwrite the restore leaves alone whatever was there as it began
\* (planRestore), until somebody else has changed it.
THEOREM WhatWasThereStays == Spec => LeavesAlone
<1>1. ASSUME IInv, Advance, ~run.overwrite, NEW p \in Places, NEW e \in Entries,
             atStart.disk[p][e] \notin {Nothing, disk'[p][e]}
      PROVE  disk[p][e] # atStart.disk[p][e]
  <2> SUFFICES ASSUME disk'[p][e] # disk[p][e] PROVE FALSE
    BY <1>1
  <2>1. Step = "write" /\ e = Row.entry /\ run.row \in DOMAIN rows /\ run.at \in Working
    BY <1>1, WritesItsRow
  <2>2. atStart.disk[p][e] = Nothing
    BY <1>1, <2>1 DEF IInv, Planned, Step, Row, Working
  <2> QED BY <1>1, <2>2
<1>2. IInv /\ [Next]_vars =>
        (Advance /\ ~run.overwrite => \A p \in Places, e \in Entries :
           atStart.disk[p][e] \notin {Nothing, disk'[p][e]} =>
             disk[p][e] # atStart.disk[p][e])
  BY <1>1
<1> QED BY <1>2, Inductive, PTL DEF LeavesAlone, Spec

\* Into an output folder, nothing is written through a link that was there as the
\* row began (linkedFolder).
THEOREM NothingThroughLinks == Spec => NothingOutside
<1>1. ASSUME IInv, Advance, run.output, ~relinked
      PROVE  disk'["out"] = disk["out"]
  <2>1. ASSUME NEW e \in Entries, disk'["out"][e] # disk["out"][e]
        PROVE  FALSE
    <3>1. run.at \in Working /\ Place = "out"
      BY <1>1, <2>1, WritesItsRow DEF Places
    <3> QED BY <1>1, <3>1 DEF IInv, NotThroughLinks, Place
  <2>2. disk \in [Places -> [Entries -> Entry]] /\ disk' \in [Places -> [Entries -> Entry]]
    <3>1. IInv'
      BY <1>1, DecideInv, CopyInv, FetchInv, AbsentInv, SetTimeInv DEF Advance
    <3> QED BY <1>1, <3>1 DEF IInv, TypeOK
  <2> QED BY <2>1, <2>2 DEF Places
<1>2. IInv /\ [Next]_vars =>
        (Advance /\ run.output => disk'["out"] = disk["out"] \/ relinked)
  BY <1>1
<1> QED BY <1>2, Inductive, PTL DEF NothingOutside, Spec

\* What the restore reports of each row is so, and a restore that exits 0 has
\* what was asked for (restoreFiles, hasFaults).
THEOREM ReportHolds == Spec => []ReportIsTrue
<1>1. IInv => AbsencesExplained
  BY DEF IInv, ReportKept, Told, AbsencesExplained
<1>2. IInv => ExitZeroHasAll
  <2> SUFFICES ASSUME IInv, run.at = "done", ~HasFaults(run.report), NEW i \in DOMAIN rows
      PROVE  LET e == rows[i].entry IN
             \/ /\ run.report[i] = "restored"
                /\ \/ \E p \in Places : disk[p][e] = [File(rows[i].hash) EXCEPT !.time = i]
                   \/ i \in touched
             \/ run.report[i] = "skipped" /\ ~run.overwrite
             \/ run.report[i] = "deleted" /\ record[rows[i].hash] = "newer"
    BY DEF ExitZeroHasAll
  <2>1. /\ run.report \in Seq(Reports) /\ Len(run.report) = Len(rows)
        /\ run.row = Len(rows) + 1
    BY DEF IInv, TypeOK, RunState, Planned
  <2>2. i \in DOMAIN run.report /\ run.report[i] \in Reports /\ ~(i >= run.row)
    BY <2>1, RowsShape, LenProperties, ElementOfSeq DEF IInv, MaxRows
  <2>3. run.report[i] \in {"restored", "skipped", "deleted"}
    BY <2>2 DEF HasFaults, Reports, IInv, ReportKept
  <2>4. CASE run.report[i] = "restored"
    <3>1. i \notin touched => At(rows[i].entry) = [File(rows[i].hash) EXCEPT !.time = i]
      BY <2>2, <2>4 DEF IInv, ReportKept, Stands
    <3> QED BY <2>4, <3>1 DEF At, Place, Places
  <2>5. CASE run.report[i] = "skipped"
    BY <2>2, <2>5 DEF IInv, ReportKept, Planned
  <2>6. CASE run.report[i] = "deleted"
    BY <2>2, <2>6 DEF IInv, ReportKept, Told
  <2> QED BY <2>3, <2>4, <2>5, <2>6
<1>3. IInv => ReportIsTrue
  BY <1>1, <1>2 DEF ReportIsTrue
<1> QED BY <1>3, Inductive, PTL

\* A folder is left only where something landed, and a temp only by a process that
\* died (writeFileAtomic, removeMade), until a row of that name is restored.
THEOREM NothingLeftBehind == Spec => []LeavesNothing
<1>1. Init => LeftInv
  <2> SUFFICES ASSUME Init PROVE LeftInv
    OBVIOUS
  <2>1. run.at = "idle" /\ DOMAIN run.report = {} /\ temps = {}
    BY DEF Init, Idle
  <2> QED BY <2>1 DEF LeftInv, TempsKnown, FolderClean, FolderUsed
<1>2. ASSUME IInv, LeftInv, [Next]_vars
      PROVE  LeftInv'
  <2>1. CASE Decide \/ OpenCopy \/ Copy \/ Fetch \/ Store \/ Absent \/ SetTime
    BY <1>2, <2>1, DecideLeft, CopyLeft, FetchLeft, AbsentLeft, SetTimeLeft
  <2>2. CASE Begin \/ Abort \/ End \/ Die
    BY <1>2, <2>2, BeginLeft, StopLeft
  <2>3. CASE \/ \E e \in Entries : Change(e)
             \/ \E h \in Contents : Record(h) \/ Delete(h)
             \/ Relink \/ PutFile \/ UNCHANGED vars
    BY <1>2, <2>3, OthersStepLeft
  <2> QED BY <1>2, <2>1, <2>2, <2>3 DEF Next
<1>3. IInv /\ LeftInv => LeavesNothing
  <2> SUFFICES ASSUME IInv, LeftInv PROVE LeavesNothing
    OBVIOUS
  <2>1. run.at \notin {"copying", "fetching"} => temps \subseteq dead
    BY DEF LeftInv, TempsKnown, Opened
  <2>2. run.at \in {"row", "done"} /\ atStart.folder = "missing" /\ folder = "dir" =>
          0 \in touched \/ \E e \in Entries : disk["in"][e] # Nothing
    BY DEF LeftInv, FolderUsed
  <2>3. ASSUME run.at = "done", NEW i \in DOMAIN rows, run.report[i] = "restored"
        PROVE  rows[i].entry \notin temps
    <3>1. run.report \in Seq(Reports) /\ Len(run.report) = Len(rows)
      BY <2>3 DEF IInv, TypeOK, RunState, Planned
    <3>2. i \in DOMAIN run.report
      BY <3>1, RowsShape, LenProperties DEF IInv
    <3> QED BY <2>3, <3>2 DEF LeftInv, TempsKnown, Opened
  <2> QED BY <2>1, <2>2, <2>3 DEF LeavesNothing
<1>4. IInv /\ LeftInv /\ [Next]_vars => LeftInv'
  BY <1>2
<1> QED BY <1>1, <1>3, <1>4, Inductive, PTL DEF Spec
===============================================================================
