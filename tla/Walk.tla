-------------------------------- MODULE Walk --------------------------------
(***************************************************************************)
(* The walk of a set's folders (lib/walk.mjs): which entries become files  *)
(* of a snapshot, which are told as excluded or as errors, and what stops  *)
(* the run before a snapshot is written.                                   *)
(*                                                                         *)
(* A disk is its entries by canonical path (see Paths), each               *)
(*   dirent     the type readdir gives: File, Directory, Link, Other or    *)
(*              Unknown                                                    *)
(*   lstat      the type lstat gives, or Vanished or Denied                *)
(*   unicode    whether its name is valid Unicode                          *)
(*   lists      whether readdir lists it                                   *)
(*   link       what a link's readlink (Resolved, Vanished, Denied), stat  *)
(*              (File, Directory, Other, Broken, Denied) and realpath (a   *)
(*              path, or Unresolved) give                                  *)
(* and a member directory is a record of its line's path, whether that is  *)
(* absolute, whether a folder is there, and its real path.                 *)
(*                                                                         *)
(* The exclude patterns are the set of [path, isDir] they leave out.       *)
(***************************************************************************)
EXTENDS SnapshotFormat

File == "File"
Directory == "Directory"
Link == "Link"
Other == "Other"
Unknown == "Unknown"
Vanished == "Vanished"
Denied == "Denied"
Broken == "Broken"
Resolved == "Resolved"
Unresolved == <<"unresolved">>

S3cabFolder == ".s3cab"

NameOf(path) == PreparePath(path).base

\* One lstat when readdir didn't say; it may fail, or not say either.
ResolveFileType(entry) == IF entry.dirent # Unknown THEN entry.dirent ELSE entry.lstat

-----------------------------------------------------------------------------
(* One entry: what the callback records of it, and whether it is kept.     *)

Nowhere == [kept |-> FALSE, told |-> {}]
Kept == [kept |-> TRUE, told |-> {}]
Told(as) == [kept |-> FALSE, told |-> {as}]

Excluded(excludes, path, isDir) == [path |-> path, isDir |-> isDir] \in excludes

\* An entry that can't be inspected is matched as a file.
RecordUninspectable(excludes, path) ==
    Told(IF Excluded(excludes, path, FALSE) THEN "excluded" ELSE "error")

\* The folders strictly between a root and a path below it.
FoldersBetween(root, path) ==
    {SubSeq(path, 1, i - 1) : i \in {j \in Len(root) + 2 .. Len(path) : path[j] = Slash}}

\* A mutant of InBackup for any path below a member directory, whatever the
\* folders between.
InBackupAnywhere(roots, path, isDir) ==
    \E root \in roots : path = root \/ IsPrefix(Append(root, Slash), path)

\* In the backup: a member directory or below one, and in no folder below it
\* named ".s3cab", nor one itself.
InBackup(roots, path, isDir) ==
    \E root \in roots :
        \/ path = root
        \/ /\ IsPrefix(Append(root, Slash), path)
           /\ \A f \in FoldersBetween(root, path) \cup (IF isDir THEN {path} ELSE {}) :
                 NameOf(f) # <<S3cabFolder>>

CheckLink(roots, excludes, path, link) ==
    LET isDir == link.stat = Directory
    IN  IF link.read = Vanished THEN Nowhere
        ELSE IF link.read = Denied THEN RecordUninspectable(excludes, path)
        ELSE IF Excluded(excludes, path, isDir) THEN Told("excluded")
        ELSE IF link.stat \in {Broken, Other} THEN Nowhere
        ELSE IF link.stat = Denied \/ link.real = Unresolved THEN Told("error")
        ELSE IF InBackup(roots, link.real, isDir) THEN Nowhere
        ELSE Told("error")

\* The callback the walk asks of each entry.
Visit(roots, excludes, path, entry) ==
    LET fileType == ResolveFileType(entry)
        isDir == fileType = Directory
        out == Excluded(excludes, path, isDir)
    IN  IF ~entry.unicode THEN Told(IF out THEN "excluded" ELSE "unrepresentable")
        ELSE IF fileType = Vanished THEN Nowhere
        ELSE IF fileType = Denied THEN RecordUninspectable(excludes, path)
        ELSE IF fileType = Link THEN CheckLink(roots, excludes, path, entry.link)
        ELSE IF fileType \in {Other, Unknown} THEN Nowhere
        ELSE IF out THEN Told("excluded")
        ELSE Kept

-----------------------------------------------------------------------------
(* The walk of the roots.                                                  *)

Below(disk, root) == {p \in DOMAIN disk : IsPrefix(Append(root, Slash), p)}

\* A folder the walk descends into: kept, and not s3cab's own.
Descends(disk, path, visit) ==
    /\ ResolveFileType(disk[path]) = Directory
    /\ visit.kept
    /\ NameOf(path) # <<S3cabFolder>>

\* The entries walkFiles meets below a root.
Met(disk, visits, root) ==
    {p \in DOMAIN visits :
        \A f \in FoldersBetween(root, p) : Descends(disk, f, visits[f])}

\* Names a row can't hold: a tab or a line ending in them.
UnrepresentableInTsv == {"TAB", "CR", "LF"}

\* Why the dirs.txt can't be walked at all, in the order it is checked.
AssertWalkableDirs(dirs) ==
    IF dirs = {} THEN "noDirs"
    ELSE IF \E d \in dirs : ~d.absolute THEN "notAbsolute"
    ELSE IF \E d \in dirs : ~d.folder THEN "unavailable"
    ELSE IF \E d \in dirs : d.real = Unresolved THEN "unresolvable"
    ELSE NoFault

\* The walk of each root, as visits of what it met.
Gather(disk, walks) ==
    LET roots == DOMAIN walks
        files(root) == {p \in DOMAIN walks[root] : /\ walks[root][p].kept
                                                   /\ ResolveFileType(disk[p]) # Directory}
        kept == UNION {files(root) : root \in roots}
        told(as) == UNION {{p \in DOMAIN walks[root] : as \in walks[root][p].told} : root \in roots}
        unlistable == \E root \in roots : \E p \in DOMAIN walks[root] :
                         Descends(disk, p, walks[root][p]) /\ ~disk[p].lists
        overlap == \E r, s \in roots : r # s /\ files(r) \cap files(s) # {}
        unrepresentable == told("unrepresentable") # {}
                             \/ \E p \in kept : ToSet(p) \cap UnrepresentableInTsv # {}
    IN  IF unlistable \/ overlap THEN [refused |-> "stopped"]
        ELSE IF unrepresentable THEN [refused |-> "unrepresentable"]
        ELSE [files |-> kept, excluded |-> told("excluded"), errors |-> told("error")]

WalkDirs(disk, roots, excludes) ==
    LET Visits(root) == [p \in Below(disk, root) |-> Visit(roots, excludes, p, disk[p])]
        Walked(root, visits) == [p \in Met(disk, visits, root) |-> visits[p]]
    IN  Gather(disk, [root \in roots |-> Walked(root, Visits(root))])

WalkSet(dirs, disk, excludes) ==
    LET fault == AssertWalkableDirs(dirs)
    IN  IF fault # NoFault THEN [refused |-> fault]
        ELSE WalkDirs(disk, {d.real : d \in dirs}, excludes)

-----------------------------------------------------------------------------
(* What a walk that succeeds promises.                                     *)

\* What an entry is, whichever call says so.
TypeOf(entry) == IF entry.dirent = Unknown THEN entry.lstat ELSE entry.dirent

\* A disk that holds still: each folder on the way to an entry below a member
\* directory is there, and what a link leads to below one is what stat said.
IsDisk(roots, disk) ==
    /\ \A root \in roots : \A p \in Below(disk, root) : \A f \in FoldersBetween(root, p) :
          f \in DOMAIN disk /\ TypeOf(disk[f]) = Directory
    /\ \A p \in DOMAIN disk : TypeOf(disk[p]) \in
          {File, Directory, Link, Other, Unknown, Vanished, Denied}
    /\ \A p \in {q \in DOMAIN disk : TypeOf(disk[q]) = Link} :
          LET link == disk[p].link
          IN  /\ link.read \in {Resolved, Vanished, Denied}
              /\ link.stat \in {File, Directory, Other, Broken, Denied}
              /\ (/\ link.read = Resolved /\ link.stat \in {File, Directory}
                  /\ \E root \in roots : IsPrefix(Append(root, Slash), link.real))
                 => link.real \in DOMAIN disk /\ TypeOf(disk[link.real]) = link.stat

\* Entries that hold nothing to back up.
HoldsNothing(path, entry) ==
    \/ TypeOf(entry) \in {Vanished, Other, Unknown, Directory}
    \/ /\ TypeOf(entry) = Link
       /\ entry.link.read = Vanished \/ entry.link.stat \in {Broken, Other}

\* Each entry below a member directory, and in no folder left out, is a file, an
\* excluded entry or an error of the walk, but for what holds nothing; what is
\* left of a link leads to such an entry.
AccountsForAll(dirs, disk, excludes, walk) ==
    LET roots == {d.real : d \in dirs}
        told == walk.files \cup walk.excluded \cup walk.errors
        Skipped(f) == NameOf(f) = <<S3cabFolder>> \/ f \in walk.excluded
        Inner(p) == \E root \in roots : p \in Below(disk, root)
                                          /\ ~\E f \in FoldersBetween(root, p) : Skipped(f)
        Saved(p, isDir) == \/ p \in roots
                           \/ \E root \in roots : \E f \in FoldersBetween(root, p) \cup {p} :
                                 p \in Below(disk, root) /\ f \in walk.excluded
                           \/ p \in told
                           \/ isDir /\ Inner(p) /\ NameOf(p) # <<S3cabFolder>>
    IN  \A p \in DOMAIN disk :
            Inner(p) =>
                \/ p \in told
                \/ HoldsNothing(p, disk[p])
                \/ TypeOf(disk[p]) = Link /\ Saved(disk[p].link.real, disk[p].link.stat = Directory)

\* What is a file is in no other list, and what is excluded is no error.
ListsApart(walk) ==
    /\ walk.files \cap (walk.excluded \cup walk.errors) = {}
    /\ walk.excluded \cap walk.errors = {}

\* The three lists are apart, and the reader takes each file back as written.
IsReadBack(dirs, walk) ==
    LET rows == SetToSeq({FileRow(p, TRUE) : p \in walk.files})
        members == SetToSeq({d.real : d \in dirs})
        Whole(read) == read.fault = NoFault /\ read.entries = walk.files /\ read.refused = {}
    IN  /\ ListsApart(walk)
        /\ Whole(ParseSnapshot(StringifySnapshot(members, rows, FALSE), Nothing, FALSE))
============================================================================
