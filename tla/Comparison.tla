----------------------------- MODULE Comparison -----------------------------
(***************************************************************************)
(* What two snapshots of a set, or all of them, are told to hold:          *)
(* lib/compare.mjs (compareSnapshots, diff) and lib/find.mjs.              *)
(*                                                                         *)
(* A path is a record of a folder and a base name; a snapshot's entries    *)
(* are rows in the order the file lists them, one per path.                *)
(***************************************************************************)
EXTENDS Naturals, Sequences, FiniteSets

Row(path, hash) == [path |-> path, hash |-> hash]
RowsIn(rows) == {rows[i] : i \in DOMAIN rows}
PathsOf(rows) == {row.path : row \in RowsIn(rows)}
HashAt(rows, path) == (CHOOSE row \in RowsIn(rows) : row.path = path).hash

\* Where in the snapshot's order the rows of a content stand.
Holders(rows, hash) == {i \in DOMAIN rows : rows[i].hash = hash}

\* The vanished file a new one is said to have been: the same base name first,
\* then the same folder, then any; of several the first in the snapshot.
PickSource(previous, sources, path) ==
    LET sameBase == {i \in sources : previous[i].path.base = path.base}
        sameDir == {i \in sources : previous[i].path.dir = path.dir}
        candidates == IF sameBase # {} THEN sameBase
                      ELSE IF sameDir # {} THEN sameDir
                      ELSE sources
    IN  previous[CHOOSE i \in candidates : \A k \in candidates : i <= k].path

\* A mutant of Duplicates that takes a copy of content that all moved for
\* new content.
DuplicatesStaying(holders, moved) == holders \ {m.path : m \in moved}

\* Where the content of a copy also is: a path that held it, or where all of
\* those have moved to.
Duplicates(holders, moved) ==
    LET from == {m.path : m \in moved}
        staying == holders \ from
    IN  IF staying # {} THEN staying ELSE {m.to : m \in {n \in moved : n.path \in holders}}

\* One path of the newer snapshot alone: a move, or an addition.
Classify(previous, previousErrors, state, row) ==
    LET holders == Holders(previous, row.hash)
        sources == {i \in holders : /\ previous[i].path \in state.deleted
                                    /\ row.path \notin previousErrors}
        source == PickSource(previous, sources, row.path)
        held == {previous[i].path : i \in holders}
    IN  IF sources # {}
        THEN [state EXCEPT !.deleted = @ \ {source},
                           !.moved = @ \cup {[path |-> source, to |-> row.path]}]
        ELSE [state EXCEPT !.added = @ \cup
                {[path |-> row.path, duplicates |-> Duplicates(held, state.moved)]}]

\* The paths of both first, then those of the newer one alone, in its order.
Settled(previous, current) ==
    LET both == PathsOf(previous) \cap PathsOf(current)
    IN  [added |-> {}, moved |-> {},
         modified |-> {p \in both : HashAt(previous, p) # HashAt(current, p)},
         deleted |-> PathsOf(previous) \ both]

Diff(previous, current, previousErrors) ==
    LET after[n \in 0 .. Len(current)] ==
            IF n = 0 THEN Settled(previous, current)
            ELSE IF current[n].path \in PathsOf(previous) THEN after[n - 1]
            ELSE Classify(previous, previousErrors, after[n - 1], current[n])
    IN  after[Len(current)]

\* The report: a path the newer snapshot couldn't read is no deletion, and one
\* the older couldn't read is marked.
CompareSnapshots(since, until) ==
    LET d == Diff(since.entries, until.entries, since.errors)
    IN  [added |-> {[path |-> a.path, duplicates |-> a.duplicates,
                     wasUnreadable |-> a.path \in since.errors] : a \in d.added},
         moved |-> d.moved,
         modified |-> d.modified,
         deleted |-> d.deleted \ until.errors,
         errors |-> until.errors]

\* Which two snapshots: names are newest first, and None is an option not given.
Sides(names, sinceAsked, untilAsked, None) ==
    LET until == IF untilAsked # None THEN untilAsked
                 ELSE IF names = <<>> THEN None ELSE Head(names)
        at == {i \in DOMAIN names : names[i] = until}
        older == IF at = {} THEN 0 ELSE (CHOOSE i \in at : TRUE) + 1
    IN  IF until = None THEN [error |-> "noSnapshots"]
        ELSE IF sinceAsked # None THEN [since |-> sinceAsked, until |-> until]
        ELSE IF at = {} THEN [error |-> "notListed"]
        ELSE [since |-> IF older > Len(names) THEN None ELSE names[older],
              until |-> until]

-----------------------------------------------------------------------------
(* Searching a history: the sets' snapshots, oldest first, each a set of   *)
(* rows or damaged.                                                        *)

Span(set, first, last, count) == [set |-> set, first |-> first, last |-> last, count |-> count]

\* A run of consecutive snapshots is one span; with "all", each is its own.
Extend(set, all, spans, index) ==
    LET at == Len(spans)
    IN  IF ~all /\ at > 0 /\ spans[at].last = index - 1
        THEN [spans EXCEPT ![at] = Span(set, @.first, index, @.count + 1)]
        ELSE Append(spans, Span(set, index, index, 1))

\* The positions of a content, oldest first.
Collapse(set, length, indices, all) ==
    LET after[n \in 0 .. length] ==
            IF n = 0 THEN <<>>
            ELSE IF n \in indices THEN Extend(set, all, after[n - 1], n)
            ELSE after[n - 1]
    IN  after[length]

Readable(history, set) == {i \in DOMAIN history[set] : ~history[set][i].damaged}

\* The snapshots of a set that record a path at a hash.
SeenAt(history, set, row) == {i \in Readable(history, set) : row \in history[set][i].rows}

RowsRead(history) ==
    UNION {UNION {history[set][i].rows : i \in Readable(history, set)} : set \in DOMAIN history}

\* The second pass: what else the matched contents back.
OtherPaths(history, hashes, matchedPaths) ==
    {row \in RowsRead(history) : row.hash \in hashes /\ row.path \notin matchedPaths}

FindInSnapshots(history, matches, all) ==
    LET matched == {row \in RowsRead(history) : row.path \in matches}
        others == OtherPaths(history, {r.hash : r \in matched}, {r.path : r \in matched})
    IN  [objects |-> {[path |-> row.path, hash |-> row.hash,
                       spans |-> [set \in {s \in DOMAIN history : SeenAt(history, s, row) # {}} |->
                                    Collapse(set, Len(history[set]), SeenAt(history, set, row), all)],
                       alsoBacks |-> {o.path : o \in {p \in others : p.hash = row.hash}}]
                        : row \in matched},
         unreadable |-> {at \in UNION {{s} \X DOMAIN history[s] : s \in DOMAIN history} :
                            history[at[1]][at[2]].damaged}]

-----------------------------------------------------------------------------
(* What the reader hands over, and what the reports promise.               *)

\* A snapshot's rows stand in an order, each path in one.  An error row may be
\* of any path, one that a row holds too: the reader takes both.
IsSnapshot(snapshot) ==
    LET rows == snapshot.entries
    IN  /\ rows \in Seq(RowsIn(rows))
        /\ \A i \in DOMAIN rows : rows[i] = Row(rows[i].path, rows[i].hash)
        /\ \A i, k \in DOMAIN rows : rows[i].path = rows[k].path => i = k

\* Each set's snapshots stand in an order, and hold rows.
IsHistory(history) ==
    \A set \in DOMAIN history :
        /\ history[set] \in Seq({history[set][i] : i \in DOMAIN history[set]})
        /\ \A i \in DOMAIN history[set] : \A r \in history[set][i].rows : r = Row(r.path, r.hash)

Places(report, path) ==
    [added |-> Cardinality({a \in report.added : a.path = path}),
     movedTo |-> Cardinality({m \in report.moved : m.to = path}),
     movedFrom |-> Cardinality({m \in report.moved : m.path = path}),
     modified |-> IF path \in report.modified THEN 1 ELSE 0,
     deleted |-> IF path \in report.deleted THEN 1 ELSE 0,
     errors |-> IF path \in report.errors THEN 1 ELSE 0]

\* A path the newer snapshot holds is unchanged, or in one place of the report,
\* never gone, and unreadable only if the snapshot has an error row of it too.
HeldIsToldOnce(since, until, report) ==
    \A row \in RowsIn(until.entries) :
        LET p == Places(report, row.path)
            unchanged == row \in RowsIn(since.entries)
        IN  /\ p.added + p.movedTo + p.modified = IF unchanged THEN 0 ELSE 1
            /\ p.movedFrom + p.deleted = 0
            /\ p.errors = IF row.path \in until.errors THEN 1 ELSE 0

\* A path only the older one holds is said to be gone once, or to be unreadable.
GoneIsToldOnce(since, until, report) ==
    \A path \in PathsOf(since.entries) \ PathsOf(until.entries) :
        LET p == Places(report, path)
        IN  /\ p.added + p.movedTo + p.modified = 0
            /\ p.movedFrom + p.deleted <= 1
            /\ path \in until.errors => p.deleted = 0
            /\ p.movedFrom + p.deleted + p.errors >= 1

\* As many moves of a content as there are files to pair, each of the content
\* it says, and none of a path the older snapshot couldn't read.
MovesPairAll(since, until, report) ==
    LET gone(h) == {r \in RowsIn(since.entries) : r.hash = h /\ r.path \notin PathsOf(until.entries)}
        new(h) == {r \in RowsIn(until.entries) :
                      /\ r.hash = h
                      /\ r.path \notin PathsOf(since.entries) \cup since.errors}
        pairs(h) == {m \in report.moved : HashAt(since.entries, m.path) = h}
        Least(a, b) == IF a < b THEN a ELSE b
    IN  /\ \A m \in report.moved :
              HashAt(since.entries, m.path) = HashAt(until.entries, m.to)
        /\ \A h \in {r.hash : r \in RowsIn(since.entries)} :
              Cardinality(pairs(h)) = Least(Cardinality(gone(h)), Cardinality(new(h)))

\* A copy of what the older snapshot held is never shown as new content.
CopiesAreNamed(since, until, report) ==
    \A a \in report.added :
        LET h == HashAt(until.entries, a.path)
            held == {r.path : r \in {s \in RowsIn(since.entries) : s.hash = h}}
        IN  /\ (a.duplicates = {}) <=> (held = {})
            /\ a.duplicates \subseteq held \cup {m.to : m \in report.moved}

\* A move's source is gone from the newer snapshot (guide/compare.md).
MovedIsGone(until, report) ==
    \A m \in report.moved : m.path \notin PathsOf(until.entries) \cup until.errors

\* The spans are the runs of the snapshots that hold the object, none of them
\* left out and none that could be joined.
SpansAreRuns(history, object, set) ==
    LET spans == object.spans[set]
        covered(s) == s.first .. s.last
    IN  /\ UNION {covered(spans[i]) : i \in DOMAIN spans}
              = {i \in DOMAIN history[set] :
                    /\ ~history[set][i].damaged
                    /\ Row(object.path, object.hash) \in history[set][i].rows}
        /\ \A i \in DOMAIN spans : spans[i].count = Cardinality(covered(spans[i]))
        /\ \A i \in 1 .. Len(spans) - 1 : spans[i].last + 1 < spans[i + 1].first

\* With an object come all the other paths of its content.
BacksAll(history, object, matches) ==
    object.alsoBacks = {r.path : r \in {s \in RowsRead(history) : s.hash = object.hash}} \ matches
============================================================================
