----------------------------- MODULE Selection -----------------------------
(***************************************************************************)
(* What a restore or an extract is asked for, against what the snapshot    *)
(* holds, and where each file lands: commands/restore.mjs,                 *)
(* commands/extract.mjs and the pure half of lib/restore.mjs.              *)
(*                                                                         *)
(* Paths are those of the module Paths; <<>> is a blank argument.          *)
(* "windows" is the machine the command runs on.                           *)
(***************************************************************************)
EXTENDS Paths

Blank == <<>>
NotGiven == <<"not given">>
NoList == <<NotGiven>>
Latest == "latest"
NoPlace == <<"no place">>

Refuse(why) == [refused |-> why]

SepOf(windows) == IF windows THEN Backslash ELSE Slash

\* The snapshot a restore reads, of the names listed newest first.
ChooseSnapshot(names, wanted) ==
    IF names = <<>> THEN Refuse("noBackups")
    ELSE IF wanted # Latest /\ wanted \notin ToSet(names) THEN Refuse("notFound")
    ELSE IF wanted # Latest THEN [name |-> wanted]
    ELSE [name |-> Head(names)]

-----------------------------------------------------------------------------
(* Which files.                                                            *)

\* No filter, or blank ones alone, is no filtering.
SelectEntries(paths, filters) ==
    LET named == {f \in ToSet(filters) : f # Blank}
    IN  IF named = {} THEN paths ELSE {p \in paths : MatchesUnder(named, p)}

\* The files selected, the refused rows among them, and the filters that name
\* nothing; an error when there is no file and no row.
SelectTargets(entries, refused, filters) ==
    LET targets == SelectEntries(entries, filters)
        invalid == SelectEntries(refused, filters)
    IN  IF filters # <<>> /\ targets = {} /\ invalid = {}
        THEN Refuse("noMatch")
        ELSE [targets |-> targets, invalid |-> invalid,
              unmatched |-> UnmatchedFolders(filters, targets \cup invalid)]

\* A mutant of NamedOf that passes blank arguments on as filters.
NamedOfAll(paths) == paths

\* The arguments that name something.
NamedOf(paths) == SelectSeq(paths, LAMBDA path : path # Blank)

-----------------------------------------------------------------------------
(* Where they land.                                                        *)

NamesOfPath(path) == SelectSeq(Segments(PreparePath(path).path), LAMBDA s : s # <<>>)

\* The names as folders under a base, or NoPlace where a Windows base can't
\* hold one.
PlaceUnder(base, names) ==
    IF FoldsCase(base) /\ \E i \in DOMAIN names : Backslash \in ToSet(names[i])
    THEN NoPlace
    ELSE Trimmed(base) \o FlattenSeq([i \in DOMAIN names |-> <<SepOf(FoldsCase(base))>> \o names[i]])

LetterOf == [d \in Drives |-> "C"]

\* A path's root as a folder: a share under UNC, a drive under its letter.
RootFolder(path) ==
    LET unified == PreparePath(path).path
    IN  IF IsShare(unified) THEN <<<<"UNC">>>>
        ELSE IF FoldsCase(path) THEN <<<<LetterOf[unified[1]]>>>>
        ELSE <<>>

\* "restore --output": each file at its full path below the directory.
Reroot(outDir, path) ==
    IF path = <<>> \/ (~FoldsCase(path) /\ path[1] # Slash) THEN NoPlace
    ELSE PlaceUnder(outDir, RootFolder(path) \o NamesOfPath(path))

\* A ":" in a name of a Windows destination, past its root.
PutsColonInName(dest) ==
    /\ FoldsCase(dest)
    /\ \E i \in 2 .. Len(dest) : dest[i] \in Drives

\* "restore": what it says of the asking, or the destinations.
RestoreAsked(q) ==
    LET named == NamedOf(q.paths)
        listed == q.fromFile # NoList
        filters == IF listed THEN named \o q.fromFile ELSE named
        chosen == SelectTargets(q.entries, q.refusedRows, filters)
        Absolute(path) == IF q.windows THEN FoldsCase(path) ELSE path[1] = Slash
        DestFor(path) == IF q.output = NotGiven THEN path ELSE Reroot(q.output, path)
    IN  IF q.all /\ (named # <<>> \/ listed) THEN Refuse("allTakesNoPaths")
        ELSE IF ~q.all /\ named = <<>> /\ ~listed THEN Refuse("nothingNamed")
        ELSE IF ~q.all /\ filters = <<>> THEN Refuse("listIsEmpty")
        ELSE IF "refused" \in DOMAIN chosen THEN chosen
        ELSE IF q.output = NotGiven /\ \E p \in chosen.targets : ~Absolute(p) THEN Refuse("notAbsolute")
        ELSE [targets |-> chosen.targets, invalid |-> chosen.invalid,
              unmatched |-> chosen.unmatched,
              dest |-> [p \in chosen.targets |->
                          IF PutsColonInName(DestFor(p)) THEN NoPlace ELSE DestFor(p)]]

-----------------------------------------------------------------------------
(* extract.                                                                *)

\* The name an item gives its copy: its last, or its drive's letter.
ItemName(item) ==
    LET names == NamesOfPath(item)
    IN  IF names # <<>> THEN names[Len(names)]
        ELSE IF FoldsCase(item) /\ ~IsShare(PreparePath(item).path) THEN <<LetterOf[item[1]]>>
        ELSE NotGiven

\* What lies under the item, at its own names below the copy.
ExtractTo(item, to, path) ==
    LET names == NamesOfPath(path)
    IN  PlaceUnder(to, SubSeq(names, Len(NamesOfPath(item)) + 1, Len(names)))

ExtractAsked(q) ==
    LET named == NamedOf(q.paths)
        item == Head(named)
        name == IF q.name # NotGiven THEN q.name ELSE ItemName(item)
        bad == name \in {<<>>, <<".">>, <<"..">>} \/ Slash \in ToSet(name)
        to == IF bad THEN NoPlace ELSE PlaceUnder(q.output, <<name>>)
        chosen == SelectTargets(q.entries, q.refusedRows, <<item>>)
        Dest(p) == ExtractTo(item, to, p)
    IN  IF named = <<>> \/ Len(named) > 1 THEN Refuse("oneItem")
        ELSE IF ~FoldsCase(item) /\ item[1] # Slash THEN Refuse("notFull")
        ELSE IF name = NotGiven THEN Refuse("rootHasNoName")
        ELSE IF to = NoPlace THEN Refuse("badName")
        ELSE IF to \in q.taken /\ ~q.overwrite THEN Refuse("taken")
        ELSE IF "refused" \in DOMAIN chosen THEN chosen
        ELSE [targets |-> chosen.targets, invalid |-> chosen.invalid, to |-> to,
              dest |-> [p \in chosen.targets |->
                          IF PutsColonInName(Dest(p)) THEN NoPlace ELSE Dest(p)]]

-----------------------------------------------------------------------------
(* What they promise.                                                      *)

\* Exactly what is named: every file and refused row inside one of the filters,
\* each filter matched or told, and everything only when all is asked for.
TakesWhatIsNamed(q, filters, reply) ==
    LET Wanted(p) == IF filters = {} THEN q.all ELSE \E f \in filters : Inside(p, f)
    IN  /\ reply.targets = {p \in q.entries : Wanted(p)}
        /\ reply.invalid = {p \in q.refusedRows : Wanted(p)}
        /\ {Place(f) : f \in ToSet(reply.unmatched)}
              = {Place(f) : f \in {g \in filters :
                    \A p \in reply.targets \cup reply.invalid : ~Inside(p, g)}}

\* Whether two places are one on a machine that folds case, or doesn't.
OneDestination(p, q, windows) ==
    IF windows THEN [i \in DOMAIN p |-> Lower(p[i])] = [i \in DOMAIN q |-> Lower(q[i])] ELSE p = q

\* Files of one kind of machine land below the directory and apart: on one
\* destination only when their paths differ in case alone.
LandsApart(outDir, reply) ==
    \A p \in reply.targets :
        reply.dest[p] # NoPlace =>
            /\ Inside(reply.dest[p], outDir)
            /\ \A q \in reply.targets :
                  /\ FoldsCase(p) = FoldsCase(q)
                  /\ OneDestination(reply.dest[p], reply.dest[q], FoldsCase(outDir))
                  => \/ Place(p) = Place(q)
                     \/ FoldsCase(outDir) /\ OneDestination(p, q, TRUE)
============================================================================
