------------------------------- MODULE Markers -------------------------------
(***************************************************************************)
(* The texts of lines that s3cab keeps beside snapshots and reads back: a  *)
(* set's marker and the claim this machine keeps of it, the copy of its    *)
(* config (lib/set-marker.mjs, lib/read-lines.mjs, lib/sets.mjs), and a    *)
(* bucket's locks (lib/locks.mjs).                                         *)
(*                                                                         *)
(* A text is a sequence of tokens: "=", the two line endings CR and LF, a  *)
(* space, "#", and words.                                                  *)
(***************************************************************************)
EXTENDS SequencesExt

CONSTANT Pids   \* the texts that are numbers of processes

CR == "CR"
LF == "LF"
Blanks == {" ", CR}

NoText == <<"no text">>

\* What lies between the line ends, the last piece too.
Lines(text) ==
    LET At(i) == i \in DOMAIN text /\ text[i] = LF
        ends == SelectSeq([i \in 1 .. Len(text) + 1 |-> i], LAMBDA i : At(i) \/ i = Len(text) + 1)
    IN  [k \in DOMAIN ends |-> SubSeq(text, (IF k = 1 THEN 0 ELSE ends[k - 1]) + 1, ends[k] - 1)]

OneCRLess(line) == IF line # <<>> /\ line[Len(line)] = CR THEN SubSeq(line, 1, Len(line) - 1) ELSE line

-----------------------------------------------------------------------------
(* KEY=value lines.                                                        *)

\* The fields, cut at the first "=" of a line; the last line of a key holds.
InfoFields(text) ==
    LET lines == [k \in DOMAIN Lines(text) |-> OneCRLess(Lines(text)[k])]
        Cuts(line) == {i \in DOMAIN line : line[i] = "="}
        Cut(line) == CHOOSE i \in Cuts(line) : \A j \in Cuts(line) : i <= j
        read == SelectSeq(lines, LAMBDA line : Cuts(line) # {})
        Key(line) == SubSeq(line, 1, Cut(line) - 1)
        Of(key) == SelectSeq(read, LAMBDA line : Key(line) = key)
    IN  [key \in {Key(line) : line \in ToSet(read)} |->
            LET last == Of(key)[Len(Of(key))] IN SubSeq(last, Cut(last) + 1, Len(last))]

FieldOr(fields, key, missing) == IF <<key>> \in DOMAIN fields THEN fields[<<key>>] ELSE missing

FieldLine(key, value) == IF value = NoText THEN <<>> ELSE <<key, "=">> \o value \o <<LF>>

-----------------------------------------------------------------------------
(* A set's marker, and the claim kept of it.                               *)

FormatInfo(info) ==
    FieldLine("OWNER", info.owner) \o FieldLine("CLAIMED", info.claimed) \o FieldLine("CREATED", info.created)

ParseInfo(text) ==
    LET fields == InfoFields(text)
    IN  [owner |-> FieldOr(fields, "OWNER", <<>>), claimed |-> FieldOr(fields, "CLAIMED", <<>>),
         created |-> FieldOr(fields, "CREATED", <<>>)]

\* Whether this machine holds a set, of the texts of its claim and the marker.
Holding(claim, marker) ==
    /\ claim # NoText /\ marker # NoText
    /\ ParseInfo(claim).owner = ParseInfo(marker).owner
    /\ ParseInfo(claim).claimed = ParseInfo(marker).claimed

-----------------------------------------------------------------------------
(* A lock.                                                                 *)

FormatLock(lock) ==
    FieldLine("COMMAND", lock.command) \o FieldLine("SET", lock.set) \o FieldLine("BY", lock.by)
      \o FieldLine("OS", lock.os) \o FieldLine("PIDNS", lock.pidns)
      \o FieldLine("PID", lock.pid) \o FieldLine("STARTED", lock.started)

ParseLock(text) ==
    LET fields == InfoFields(text)
        pid == FieldOr(fields, "PID", <<>>)
    IN  [command |-> FieldOr(fields, "COMMAND", <<>>), set |-> FieldOr(fields, "SET", NoText),
         by |-> FieldOr(fields, "BY", <<>>), os |-> FieldOr(fields, "OS", NoText),
         pidns |-> FieldOr(fields, "PIDNS", NoText),
         pid |-> IF pid \in Pids THEN pid ELSE NoText,
         started |-> FieldOr(fields, "STARTED", <<>>)]

\* Whether a run would remove the lock as left behind by a process of its own
\* machine and process table.
LeftHere(lock, here, alive) ==
    /\ lock.by = here.by /\ lock.os = here.os /\ lock.pidns = here.pidns
    /\ lock.pid # NoText /\ lock.pid \notin alive

-----------------------------------------------------------------------------
(* The copy of a set's config.                                             *)

TrimLine(line) ==
    LET ink == {i \in DOMAIN line : line[i] \notin Blanks}
    IN  IF ink = {} THEN <<>>
        ELSE SubSeq(line, CHOOSE i \in ink : \A j \in ink : i <= j, CHOOSE i \in ink : \A j \in ink : j <= i)

ParseLines(text) ==
    SelectSeq([k \in DOMAIN Lines(text) |-> TrimLine(Lines(text)[k])],
              LAMBDA line : line # <<>> /\ line[1] # "#")

DirsText(dirs) == FoldLeft(LAMBDA text, dir : text \o dir \o <<LF>>, <<>>, dirs)

\* The config in the bucket after a push: an empty exclude file is deleted.
PushSetConfig(dirs, exclude) ==
    [dirs |-> IF dirs = <<>> THEN <<LF>> ELSE DirsText(dirs),
     exclude |-> IF exclude \in {NoText, <<>>} THEN NoText ELSE exclude]

ReadSetConfig(remote) ==
    [dirs |-> ParseLines(IF remote.dirs = NoText THEN <<>> ELSE remote.dirs),
     exclude |-> IF remote.exclude = <<>> THEN NoText ELSE remote.exclude]

\* What setup stores of the directories, and what the set then has.
DirsOfSet(dirs) == ParseLines(DirsText(dirs))

\* What a takeover keeps of the config: a file this machine has is its own say.
TakenConfig(here, remote) ==
    LET pulled == ReadSetConfig(remote)
    IN  [dirs |-> IF here.dirs # NoText THEN ParseLines(here.dirs) ELSE pulled.dirs,
         exclude |-> IF here.exclude # NoText THEN here.exclude ELSE pulled.exclude]

-----------------------------------------------------------------------------
(* How another tool may write such a text again, meaning the same.         *)

Edits == {"none", "crlf", "unended", "among others"}

Edited(text, how) ==
    CASE how = "none" -> text
      [] how = "crlf" -> FoldLeft(LAMBDA t, c : t \o (IF c = LF THEN <<CR, LF>> ELSE <<c>>), <<>>, text)
      [] how = "unended" -> SubSeq(text, 1, Len(text) - 1)
      [] how = "among others" -> <<"#", "OWNER", LF, LF, "OTHER", "=", "x", LF>> \o text
=============================================================================
