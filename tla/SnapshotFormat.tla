--------------------------- MODULE SnapshotFormat ---------------------------
(***************************************************************************)
(* The text of a snapshot file, written and read (lib/snapshot-file.mjs).  *)
(* A line is a record whose "kind" is what its columns make of it:         *)
(*                                                                         *)
(*   heading               the @S3CAB FORMAT row                           *)
(*   file, error           a row naming a path; "sound" says whether a     *)
(*                         file row's hash, size and time are well formed  *)
(*   dir                   @SET DIR                                        *)
(*   mark                  any other "@" or "#" row                        *)
(*   dot, dotMore          the closing ".", and a "." with more on it      *)
(*   blank, unknown, raw   a blank line, an unknown type, not UTF-8        *)
(*                                                                         *)
(* A file is its complete lines and what follows the last LF: nothing, the *)
(* start of a heading row, or another piece of a line.                     *)
(***************************************************************************)
EXTENDS Paths

Nothing == "nothing"
Pieces == {Nothing, "headingStart", "piece"}
NoFault == "none"

Line(kind) == [kind |-> kind, path |-> <<>>, sound |-> TRUE]
FileRow(path, sound) == [kind |-> "file", path |-> path, sound |-> sound]
ErrorRow(path) == [kind |-> "error", path |-> path, sound |-> TRUE]
DirRow(path) == [kind |-> "dir", path |-> path, sound |-> TRUE]

-----------------------------------------------------------------------------
(* The writer.                                                             *)

\* Heading and preamble, a row per file, then the trailer unless interrupted.
StringifySnapshot(dirs, rows, aborted) ==
    <<Line("heading")>>
        \o [i \in DOMAIN dirs |-> DirRow(dirs[i])]
        \o rows
        \o IF aborted THEN <<>> ELSE <<Line("mark"), Line("dot")>>

-----------------------------------------------------------------------------
(* The rules every s3cab file follows.                                     *)

\* Why a line isn't valid where it stands, given whether the "." has passed.
LineFault(line, number, ended) ==
    IF line.kind = "raw" THEN "notText"
    ELSE IF number = 1 /\ line.kind = "heading" THEN NoFault
    ELSE IF number = 1 THEN "noHeading"
    ELSE IF ended THEN "follows"
    ELSE IF line.kind \in {"dotMore", "blank", "unknown"} THEN line.kind
    ELSE NoFault

\* The lines read as rows, the first that faults notwithstanding.
RowLine(line, number, ended) ==
    /\ ~ended
    /\ \/ line.kind \in {"file", "error", "dir", "mark"}
       \/ line.kind = "heading" /\ number # 1

ReadLine(state, line) ==
    LET number == state.number + 1
        fault == LineFault(line, number, state.ended)
    IN  [number |-> number,
         ended |-> state.ended \/ line.kind = "dot",
         fault |-> IF state.fault = NoFault THEN fault ELSE state.fault,
         rows |-> IF RowLine(line, number, state.ended)
                  THEN Append(state.rows, line) ELSE state.rows]

\* What the last piece, and the end, add to the faults of the lines read.
FaultAtEnd(read, held, tolerant) ==
    IF read.fault # NoFault \/ tolerant THEN read.fault
    ELSE IF read.ended /\ held # Nothing THEN "follows"
    ELSE IF ~read.ended /\ read.number = 0 /\ held = "piece" THEN "noHeading"
    ELSE IF ~read.ended THEN "cut"
    ELSE NoFault

ParseS3cabFile(lines) ==
    FoldLeft(ReadLine, [number |-> 0, ended |-> FALSE, fault |-> NoFault, rows |-> <<>>], lines)

-----------------------------------------------------------------------------
(* A snapshot's rows.                                                      *)

\* The lengths at which a path's separators stand.
Cuts(path) == {i \in DOMAIN path : path[i] \in CountingSeps(path)}

\* A carriage return, a tab or a NUL, in a name.
Controls == {"CR", "TAB", "NUL"}

\* Whether a path can't be restored to: not absolute, a control character in
\* it, or a segment past its root that is empty, "." or "..".
PathFault(path) ==
    LET unified == PreparePath(path).path
    IN  \/ path = <<>>
        \/ ~FoldsCase(path) /\ path[1] # Slash
        \/ ToSet(path) \cap Controls # {}
        \/ \E i \in DOMAIN Segments(unified) :
              Segments(unified)[i] \in {<<>>, <<".">>, <<"..">>}

\* The days of a month, in a year that is a leap year or not.
DaysOf(month, leap) == CASE month = 2 -> IF leap THEN 29 ELSE 28
                         [] month \in {4, 6, 9, 11} -> 30
                         [] OTHER -> 31

IsLeap(year) == year % 4 = 0 /\ (year % 100 # 0 \/ year % 400 = 0)

\* Whether the fields of an instant's text are of a real one.
IsInstant(t) ==
    /\ t.month \in 1 .. 12 /\ t.day >= 1 /\ t.day <= DaysOf(t.month, IsLeap(t.year))
    /\ t.hour <= 23 /\ t.minute <= 59 /\ t.second <= 59

FileRowFault(row) == ~row.sound \/ PathFault(row.path)

FolderOf(path) == SubSeq(path, 1, Len(path) - Len(PreparePath(path).base))

\* Paths one row names twice, and rows that fault: refused as they are read.
RowsRefused(rows) ==
    {rows[i].path : i \in {j \in DOMAIN rows : FileRowFault(rows[j])}}
    \cup {rows[i].path : i \in {j \in DOMAIN rows :
                                    \E k \in 1 .. j - 1 : rows[k].path = rows[j].path}}

\* Then those that don't lie strictly inside a "@SET DIR".
OutsideDirs(paths, members) ==
    {p \in paths : \/ ~MatchesUnder(members, FolderOf(p))
                   \/ PathKey(p) \in {PathKey(d) : d \in members}}

\* A mutant of Blockers that looks up only the folder itself, not the ones
\* above it.
BlockersNearest(path, files) ==
    LET folder == FolderOf(path)
    IN  {SubSeq(folder, 1, Len(folder) - 1)} \cap files

\* Then those that run through another as a folder, with the ones in the way.
Blockers(path, files) ==
    LET folder == FolderOf(path)
    IN  {SubSeq(folder, 1, i - 1) : i \in Cuts(folder)} \cap files

Shortest(paths) == CHOOSE p \in paths : \A q \in paths : Len(p) <= Len(q)

InTheWay(files) ==
    UNION {{p} \cup {Shortest(Blockers(p, files))} : p \in {q \in files : Blockers(q, files) # {}}}

Entries(rows, dirs) ==
    LET Within(paths) == paths \ OutsideDirs(paths, {d \in dirs : IsMatchableDir(d)})
        Standing(files) == files \ InTheWay(files)
    IN  Standing(Within({r.path : r \in ToSet(rows)} \ RowsRefused(rows)))

PathsOfKind(rows, kind) == {r.path : r \in {row \in ToSet(rows) : row.kind = kind}}

Snapshot(fault, rows, dirs, entries) ==
    LET refused == PathsOfKind(rows, "file") \ entries
    IN  [fault |-> fault,
         entries |-> entries,
         refused |-> refused,
         errors |-> refused \cup (PathsOfKind(rows, "error") \ {<<>>}),
         dirs |-> dirs]

ParseSnapshot(lines, held, tolerant) ==
    LET FileRows(rows) == SelectSeq(rows, LAMBDA row : row.kind = "file")
        Dirs(rows) == PathsOfKind(rows, "dir") \ {<<>>}
        Parsed(read) == Snapshot(FaultAtEnd(read, held, tolerant), read.rows, Dirs(read.rows),
                                 Entries(FileRows(read.rows), Dirs(read.rows)))
    IN  Parsed(ParseS3cabFile(lines))

-----------------------------------------------------------------------------
(* What the reader and the writer promise each other.                      *)

\* The number of a day, by a calendar whose years start in March; a day or a
\* month past the end of one counts on.
DayNumber(t) ==
    LET year == IF t.month <= 2 THEN t.year - 1 ELSE t.year
        inYear == (153 * ((t.month + 9) % 12) + 2) \div 5 + t.day
    IN  365 * year + year \div 4 - year \div 100 + year \div 400 + inYear

\* A real instant's day comes before the first of the next month, and its time
\* before the next day: read as a count, it names no later day or time.
CountsNothingOver(t) ==
    /\ t.month \in 1 .. 12 /\ t.day >= 1
    /\ LET next == IF t.month = 12 THEN [t EXCEPT !.year = @ + 1, !.month = 1, !.day = 1]
                   ELSE [t EXCEPT !.month = @ + 1, !.day = 1]
       IN  DayNumber(t) < DayNumber(next)
    /\ t.hour * 3600 + t.minute * 60 + t.second < 86400
    /\ t.minute * 60 + t.second < 3600
    /\ t.second < 60

\* A whole file, by the guide's rules.
ValidFile(lines, held) ==
    /\ held = Nothing
    /\ Len(lines) >= 2
    /\ lines[1].kind = "heading"
    /\ lines[Len(lines)].kind = "dot"
    /\ \A i \in 2 .. Len(lines) - 1 :
          lines[i].kind \in {"file", "error", "dir", "mark", "heading"}

\* File rows that fit in one tree as files, below the set's folders.
OneTree(paths, dirs) ==
    \A p \in paths :
        /\ ~PathFault(p)
        /\ \E d \in dirs : IsMatchableDir(d) /\ Inside(p, d)
        /\ \A d \in dirs : IsMatchableDir(d) => Place(p) # Place(d)
        /\ \A q \in paths \ {p} : ~\E i \in Cuts(p) : SubSeq(p, 1, i - 1) = q

\* A row may be refused only for itself or for another it can't stand beside.
RefusedForCause(rows, dirs, path) ==
    \/ \E i \in DOMAIN rows : rows[i].path = path /\ ~rows[i].sound
    \/ ~OneTree({path}, dirs)
    \/ \E i, j \in DOMAIN rows : i # j /\ rows[i].path = path /\ rows[j].path = path
    \/ \E i \in DOMAIN rows : ~OneTree({path, rows[i].path}, dirs) /\ OneTree({rows[i].path}, dirs)
============================================================================
