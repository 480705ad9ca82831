------------------------------- MODULE Paths -------------------------------
(***************************************************************************)
(* How s3cab spells and compares paths (lib/path-match.mjs).  A path is a  *)
(* sequence of tokens: a separator, a drive or a name, so that what the    *)
(* code asks of the characters (which separators count, whether case       *)
(* matters, where the root ends) is asked of the tokens.                   *)
(*                                                                         *)
(* A difference in case stands for every difference of spelling that one   *)
(* place may have.                                                         *)
(***************************************************************************)
EXTENDS SequencesExt

Slash == "/"
Backslash == "\\"
Separators == {Slash, Backslash}

\* The drives and the names that have an upper case, with the lower one.
LowerOf == [x \in {"C:", "A", "B", "R"} |->
              CASE x = "C:" -> "c:" [] x = "A" -> "a" [] x = "B" -> "b" [] x = "R" -> "r"]
Lower(token) == IF token \in DOMAIN LowerOf THEN LowerOf[token] ELSE token
Drives == {"C:", "c:"}

\* The last place of a separator of "seps" in s, 0 when there is none.
LastOf(s, seps) ==
    LET places == {i \in DOMAIN s : s[i] \in seps}
    IN  IF places = {} THEN 0 ELSE CHOOSE i \in places : \A j \in places : j <= i

\* A drive letter or a share: Windows-shaped, so one file under either case.
FoldsCase(path) ==
    /\ Len(path) >= 2
    /\ path[2] \in Separators
    /\ path[1] \in Drives \cup Separators

CountingSeps(path) == IF FoldsCase(path) THEN Separators ELSE {Slash}

PreparePath(path) ==
    [path |-> IF FoldsCase(path)
              THEN [i \in DOMAIN path |-> IF path[i] = Backslash THEN Slash ELSE path[i]]
              ELSE path,
     base |-> SubSeq(path, LastOf(path, CountingSeps(path)) + 1, Len(path)),
     foldCase |-> FoldsCase(path)]

\* The tokens of a unified path's root: a share's "//", a drive's "C:/", or "/".
RootLength(path) == IF FoldsCase(path) THEN 2 ELSE 1

\* The places of a sequence of length n that hold P, in order.
Where(n, P(_)) == SelectSeq([i \in 1 .. n |-> i], P)

\* The segments of a unified text: what lies between its separators.
Split(s) ==
    LET ends == Append(Where(Len(s), LAMBDA i : s[i] = Slash), Len(s) + 1)
    IN  [k \in DOMAIN ends |->
            SubSeq(s, (IF k = 1 THEN 0 ELSE ends[k - 1]) + 1, ends[k] - 1)]

\* Without its trailing separators.
Trimmed(s) ==
    LET names == {i \in DOMAIN s : s[i] # Slash}
    IN  IF names = {} THEN <<>> ELSE SubSeq(s, 1, CHOOSE i \in names : \A j \in names : j <= i)

\* Past its root, a unified path's segments.
Segments(path) == Split(SubSeq(path, RootLength(path) + 1, Len(path)))

IsShare(path) == Len(path) >= 2 /\ path[1] = Slash /\ path[2] = Slash

\* Whether a "@SET DIR" can match any path: absolute, no empty segment, and a
\* share's naming both server and share.
IsMatchableDir(dir) ==
    LET path == PreparePath(dir).path
        names == Trimmed(SubSeq(path, RootLength(path) + 1, Len(path)))
        segments == IF names = <<>> THEN <<>> ELSE Split(names)
    IN  /\ FoldsCase(dir) \/ (path # <<>> /\ path[1] = Slash)
        /\ <<>> \notin ToSet(segments)
        /\ IsShare(path) => Len(segments) >= 2

\* One spelling of a path: "/" for separators and lower case, for a Windows shape.
Normalize(path) ==
    LET unified == PreparePath(path).path
    IN  IF FoldsCase(path) THEN [i \in DOMAIN unified |-> Lower(unified[i])] ELSE unified

PathKey(folder) == Trimmed(Normalize(folder))

\* The lengths a walk up a normalized path looks it up at: itself, and each
\* folder above it, to the root.
Ups(hay) == {Len(hay)} \cup {i - 1 : i \in {j \in DOMAIN hay : hay[j] = Slash}}

\* The folders of a path's own kind, by key.
KeysLike(path, folders) ==
    {PathKey(f) : f \in {g \in folders : g # <<>> /\ FoldsCase(g) = FoldsCase(path)}}

\* The folders a path lies in or is, as keys.
Above(path) == LET hay == Normalize(path) IN {SubSeq(hay, 1, end) : end \in Ups(hay)}

\* Whether a path is one of the folders or lies under one.
MatchesUnder(folders, path) == Above(path) \cap KeysLike(path, folders) # {}

\* The folders that no path lies under, each place once, as first spelled.
UnmatchedFolders(folders, paths) ==
    LET Found(f) == \E p \in paths : FoldsCase(p) = FoldsCase(f) /\ PathKey(f) \in Above(p)
        FirstSpelled(i) == \A j \in 1 .. i - 1 :
                              ~(/\ FoldsCase(folders[j]) = FoldsCase(folders[i])
                                /\ PathKey(folders[j]) = PathKey(folders[i]))
        left == Where(Len(folders), LAMBDA i : ~Found(folders[i]) /\ FirstSpelled(i))
    IN  [k \in DOMAIN left |-> folders[left[k]]]

-----------------------------------------------------------------------------
(* What the two are for, without the walk: a path's places.                *)

\* A path as a root and the names below it, in one spelling.
Place(path) ==
    LET unified == Normalize(path)
        names == SelectSeq(Segments(unified), LAMBDA s : s # <<>>)
    IN  [root |-> SubSeq(unified, 1, RootLength(unified)), names |-> names]

Inside(path, folder) ==
    /\ Place(path).root = Place(folder).root
    /\ IsPrefix(Place(folder).names, Place(path).names)
============================================================================
