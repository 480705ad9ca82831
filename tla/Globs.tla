------------------------------- MODULE Globs -------------------------------
(***************************************************************************)
(* The patterns of exclude.txt and of find: what a pattern compiles to     *)
(* (lib/path-match.mjs, globSource), how exclude.txt is read and the line  *)
(* that names one file in it (lib/exclude.mjs), and how find anchors a     *)
(* pattern (lib/find-pattern.mjs).                                         *)
(*                                                                         *)
(* A text is a sequence of characters.  "escapes" is whether "\" escapes,  *)
(* on Linux and macOS, or separates folders, on Windows.  "\n" stands for  *)
(* the line endings, which "." of a regular expression doesn't match.      *)
(***************************************************************************)
EXTENDS Paths

Space == " "
Break == "\n"
Escapable == {Backslash, "*", "?", "#", Space}

UpperOf == [x \in {"A", "B"} |-> CASE x = "A" -> "a" [] x = "B" -> "b"]
Folded(char) == IF char \in DOMAIN UpperOf THEN UpperOf[char] ELSE char
SameChar(c, d, fold) == c = d \/ (fold /\ Folded(c) = Folded(d))

\* Without the spaces before, and after.
TrimStart(s) ==
    LET ink == {i \in DOMAIN s : s[i] # Space}
    IN  IF ink = {} THEN <<>> ELSE SubSeq(s, CHOOSE i \in ink : \A j \in ink : i <= j, Len(s))
TrimEnd(s) == Reverse(TrimStart(Reverse(s)))

\* A "\" that escapes nothing: the last of an odd run, before no character it
\* can escape.
StrayEscape(pattern, escapes) ==
    /\ escapes
    /\ \E i, j \in DOMAIN pattern :
          /\ i <= j /\ (j - i) % 2 = 0
          /\ \A k \in i .. j : pattern[k] = Backslash
          /\ i > 1 => pattern[i - 1] # Backslash
          /\ j = Len(pattern) \/ pattern[j + 1] \notin Escapable

\* The text as a pattern of only itself.
LiteralPattern(text, escapes) ==
    FlattenSeq([i \in DOMAIN text |->
        IF escapes /\ text[i] \in {Backslash, "*", "?"} THEN <<Backslash, text[i]>> ELSE <<text[i]>>])

-----------------------------------------------------------------------------
(* What a pattern compiles to.                                             *)

Literal(char) == [is |-> "literal", char |-> char]
Token(is) == [is |-> is, char |-> Slash]

\* Never of a pattern with a stray escape.
GlobSource(pattern, escapes) ==
    LET At(i) == IF i \in DOMAIN pattern THEN pattern[i] ELSE Break
        StartsSegment(i) == i = 1 \/ At(i - 1) = Slash
        from[i \in 1 .. Len(pattern) + 3] ==
            IF i > Len(pattern) THEN <<>>
            ELSE IF escapes /\ At(i) = Backslash THEN <<Literal(At(i + 1))>> \o from[i + 2]
            ELSE IF At(i) = "*" /\ At(i + 1) = "*" /\ At(i + 2) = Slash /\ StartsSegment(i) THEN
                    <<Token("segments")>> \o from[i + 3]
            ELSE IF At(i) = "*" /\ At(i + 1) = "*" THEN <<Token("anything")>> \o from[i + 2]
            ELSE IF At(i) = "*" THEN <<Token("some")>> \o from[i + 1]
            ELSE IF At(i) = "?" THEN <<Token("one")>> \o from[i + 1]
            ELSE <<Literal(At(i))>> \o from[i + 1]
    IN  from[1]

\* What one element of the compiled pattern can be of a text.
Accepts(element, text, fold) ==
    CASE element.is = "literal" -> Len(text) = 1 /\ SameChar(element.char, text[1], fold)
      [] element.is = "one" -> Len(text) = 1 /\ text[1] # Slash
      [] element.is = "some" -> text # <<>> /\ Slash \notin ToSet(text)
      [] element.is = "anything" -> Break \notin ToSet(text)
      [] element.is = "segments" ->
            text = <<>> \/ (text[Len(text)] = Slash /\ Break \notin ToSet(text))

\* The compiled pattern, anchored at both ends.
Matches(source, text, fold) ==
    LET rest[i \in 1 .. Len(source) + 1, j \in 1 .. Len(text) + 1] ==
            IF i > Len(source) THEN j > Len(text)
            ELSE \E k \in j .. Len(text) + 1 :
                    Accepts(source[i], SubSeq(text, j, k - 1), fold) /\ rest[i + 1, k]
    IN  rest[1, 1]

\* A path with one separator for each run of them, as "join" writes it.
OneSeparator(path, sep) ==
    LET kept == Where(Len(path), LAMBDA i : ~(i > 1 /\ path[i] = sep /\ path[i - 1] = sep))
    IN  [k \in DOMAIN kept |-> path[kept[k]]]

\* The machine's separators as "/".
Spell(text, escapes) ==
    IF escapes THEN text
    ELSE [i \in DOMAIN text |-> IF text[i] = Backslash THEN Slash ELSE text[i]]

-----------------------------------------------------------------------------
(* exclude.txt.                                                            *)

\* A pattern below a member directory, whose own name matches only itself; a
\* share's two separators before it stay two on Windows.
ExcludeSource(root, pattern, escapes) ==
    LET joined == Spell(LiteralPattern(root, escapes) \o <<Slash>> \o pattern, escapes)
        share == ~escapes /\ IsPrefix(<<Slash, Slash>>, joined)
    IN  GlobSource((IF share THEN <<Slash>> ELSE <<>>) \o OneSeparator(joined, Slash), escapes)

\* Whether a pattern leaves out a path the walk meets.
Excludes(root, pattern, rel, isDirectory, escapes) ==
    LET subject == Spell(root \o <<Slash>> \o rel, escapes) \o IF isDirectory THEN <<Slash>> ELSE <<>>
    IN  Matches(ExcludeSource(root, pattern, escapes), subject, ~escapes)

\* One line as read: trimmed, but for a space a "\" at its end escapes.
ReadExcludeLine(line, escapes) ==
    LET start == TrimStart(line)
        trimmed == TrimEnd(start)
        kept == SubSeq(start, 1, IF Len(trimmed) < Len(start) THEN Len(trimmed) + 1 ELSE Len(start))
    IN  IF StrayEscape(trimmed, escapes) /\ ~StrayEscape(kept, escapes) THEN kept ELSE trimmed

ParseExclude(lines, escapes) ==
    SelectSeq([i \in DOMAIN lines |-> ReadExcludeLine(lines[i], escapes)],
              LAMBDA line : line # <<>> /\ line[1] # "#")

\* The patterns stop the run: a "\" that escapes nothing.
UnusableExclude(patterns, escapes) == \E p \in ToSet(patterns) : StrayEscape(p, escapes)

NoLine == <<Break>>

\* The line that names exactly a path below a member directory, or NoLine.
ExactPattern(rel, escapes) ==
    LET literal == LiteralPattern(rel, escapes)
        ends == TrimEnd(literal) # literal
        ended == IF ends
                 THEN SubSeq(literal, 1, Len(literal) - 1) \o <<Backslash, Space>>
                 ELSE literal
    IN  IF Break \in ToSet(rel) THEN NoLine
        ELSE IF ~escapes /\ (ToSet(rel) \cap {"*", "?"} # {} \/ ends) THEN NoLine
        ELSE IF ended[1] \in {"#", Space} THEN <<Backslash>> \o ended
        ELSE ended

-----------------------------------------------------------------------------
(* The lines a backup offers for what failed in it and the one before      *)
(* (commands/backup.mjs).                                                  *)

Sep(escapes) == IF escapes THEN Slash ELSE Backslash

\* A folder as what the paths below it start with.
AsFolder(root, sep) == IF root # <<>> /\ root[Len(root)] = sep THEN root ELSE Append(root, sep)

\* A failing entry's path below the first member directory that holds it; a
\* folder link's ends with a separator.
ExcludePattern(roots, path, sep) ==
    LET i == CHOOSE k \in DOMAIN roots :
                /\ IsPrefix(AsFolder(roots[k], sep), path)
                /\ \A j \in 1 .. k - 1 : ~IsPrefix(AsFolder(roots[j], sep), path)
    IN  SubSeq(path, Len(AsFolder(roots[i], sep)) + 1, Len(path))

\* The line for each entry that failed last time too, NoLine where none names
\* it alone.
ExcludeSuggestions(roots, errors, previous, escapes) ==
    [path \in errors \cap previous |->
        ExactPattern(ExcludePattern(roots, path, Sep(escapes)), escapes)]

-----------------------------------------------------------------------------
(* find.                                                                   *)

\* A mutant of FindSource with the whole path for a pattern that only its
\* trailing separator makes one.
FindSourceByBase(pattern, escapes) ==
    LET slashed == Spell(pattern, escapes)
        directory == slashed[Len(slashed)] = Slash
        body == IF directory THEN SubSeq(slashed, 1, Len(slashed) - 1) ELSE slashed
        normalized == OneSeparator(body, Slash)
    IN  [wholePath |-> Slash \in ToSet(normalized),
         source |-> IF Slash \in ToSet(normalized)
                    THEN <<Token("segments")>> \o GlobSource(normalized, escapes)
                           \o IF directory THEN <<Literal(Slash), Token("anything")>> ELSE <<>>
                    ELSE GlobSource(normalized, escapes)]

\* A pattern without a separator matches a base name; one with a separator the
\* whole path, floating; one that ends in a separator what is below it.
FindSource(pattern, escapes) ==
    LET slashed == Spell(pattern, escapes)
        directory == slashed[Len(slashed)] = Slash
        body == IF directory THEN SubSeq(slashed, 1, Len(slashed) - 1) ELSE slashed
        normalized == OneSeparator(body, Slash)
        wholePath == directory \/ Slash \in ToSet(normalized)
    IN  [wholePath |-> wholePath,
         source |-> IF wholePath
                    THEN <<Token("segments")>> \o GlobSource(normalized, escapes)
                           \o IF directory THEN <<Literal(Slash), Token("anything")>> ELSE <<>>
                    ELSE GlobSource(normalized, escapes)]

\* A pattern with nothing in it, or a stray escape, is refused.
FindRefuses(pattern, escapes) ==
    \/ StrayEscape(pattern, escapes)
    \/ Spell(pattern, escapes) \in {<<>>, <<Slash>>}

FindMatches(pattern, path, base, escapes) ==
    LET find == FindSource(pattern, escapes)
    IN  Matches(find.source, IF find.wholePath THEN path ELSE base, TRUE)

-----------------------------------------------------------------------------
(* What the two are for, segment by segment (guide/exclude.md, find.md).   *)

\* "*" is some characters of a name, "?" one, and anything else itself.
NameMatches(name, text, fold) ==
    LET rest[i \in 1 .. Len(name) + 1, j \in 1 .. Len(text) + 1] ==
            IF i > Len(name) THEN j > Len(text)
            ELSE IF name[i] = "*" THEN \E k \in j + 1 .. Len(text) + 1 : rest[i + 1, k]
            ELSE /\ j <= Len(text)
                 /\ name[i] = "?" \/ SameChar(name[i], text[j], fold)
                 /\ rest[i + 1, j + 1]
    IN  rest[1, 1]

\* A "**" before another segment is any number of segments.
SegmentsMatch(names, segments, fold) ==
    LET rest[i \in 1 .. Len(names) + 1, j \in 1 .. Len(segments) + 1] ==
            IF i > Len(names) THEN j > Len(segments)
            ELSE IF names[i] = <<"*", "*">> THEN \E k \in j .. Len(segments) + 1 : rest[i + 1, k]
            ELSE /\ j <= Len(segments)
                 /\ NameMatches(names[i], segments[j], fold)
                 /\ rest[i + 1, j + 1]
    IN  rest[1, 1]

\* Of entries below folders that hold none of one another, a line offered leaves
\* out its own, and of what else fails, as a file or as a folder, only what lies
\* at the same place of another folder; what never failed before is offered none.
SuggestionsSuit(roots, errors, previous, offered, escapes) ==
    LET sep == Sep(escapes)
        RootOf(path) == CHOOSE root \in ToSet(roots) : IsPrefix(AsFolder(root, sep), path)
        IsFolder(path) == path[Len(path)] = sep
        Bare(path) == IF IsFolder(path) THEN SubSeq(path, 1, Len(path) - 1) ELSE path
        Rel(path) == SubSeq(Bare(path), Len(AsFolder(RootOf(path), sep)) + 1, Len(Bare(path)))
        Out(read, path) == Excludes(RootOf(path), read, Rel(path), IsFolder(path), escapes)
        others == errors \cup {Bare(p) : p \in errors} \cup {Append(Bare(p), sep) : p \in errors}
        SamePlace(p, q) == Rel(p) = Rel(q) /\ IsFolder(p) = IsFolder(q)
    IN  /\ DOMAIN offered = errors \cap previous
        /\ \A path \in DOMAIN offered :
              offered[path] # NoLine =>
                LET read == ParseExclude(<<offered[path]>>, escapes)
                IN  /\ Len(read) = 1
                    /\ ~UnusableExclude(read, escapes)
                    /\ \A q \in others : Out(read[1], q) <=> SamePlace(path, q)
============================================================================
