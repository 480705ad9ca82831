------------------------------ MODULE Answers ------------------------------
(***************************************************************************)
(* What s3cab works out rather than does: it is asked a question of given  *)
(* data and answers it.  Each topic's operators are a module of their own  *)
(* (Paths, Globs, Walk, SnapshotFormat, Selection, Comparison, Integrity,  *)
(* Settings, SignIn, Certificates, Listings, Markers), the questions are   *)
(* CONSTANTS, and the properties say what an answer promises.              *)
(***************************************************************************)
EXTENDS Walk, Globs, Selection, Comparison, Integrity, SignIn, Certificates,
        Listings, Markers

CONSTANTS PathQuestions,        \* [folders, paths]
          GlobQuestions,        \* [pattern, names, rel, escapes], names its segments
          LineToQuestions,      \* [root, rel, escapes]
          WalkQuestions,        \* [dirs, disk, excludes]
          RestoreQuestions,     \* what RestoreAsked takes
          ExtractQuestions,     \* what ExtractAsked takes
          LineQuestions,        \* [lines, held, tolerant]
          FileQuestions,        \* [dirs, rows, aborted]
          CompareQuestions,     \* [since, until], each [entries, errors]
          FindQuestions,        \* [history, matches, all]
          BucketQuestions,      \* a bucket, with a set and a selection of its snapshots
          SettingsQuestions,    \* [buckets, name, file, asked, ready]
          SetupQuestions,       \* [shell, bucket, asked, ready]
          SignInQuestions,      \* [set, shell, file, machine, aws]
          IdentityQuestions,    \* [events], what is done to a machine's identity
          ErrorQuestions,       \* [name, status, code, errno]
          DerQuestions,         \* [of, value], a value of DER or a whole identity
          InstantQuestions,     \* the six fields of an instant
          ListingQuestions,     \* [keys, folder, content, records, inStore]
          ClockQuestions,       \* [reads], the clock at each of some runs
          MarkerQuestions,      \* [claim, marker, edited], each an info
          LockQuestions,        \* [lock, edited, here, alive]
          ConfigQuestions,      \* [dirs, exclude]
          SuggestionQuestions   \* [roots, errors, previous, escapes]

\* Two snapshots, and each of a history, are as the reader hands them over.
ASSUME HistoryAssumption ==
    /\ \A q \in CompareQuestions : IsSnapshot(q.since) /\ IsSnapshot(q.until)
    /\ \A q \in FindQuestions : IsHistory(q.history) /\ q.all \in BOOLEAN

\* A bucket is one, of a set that it has; its keys and a folder are as a listing
\* gives them, and a clock's readings are numbers.
ASSUME BucketAssumption ==
    /\ \A q \in BucketQuestions :
          IsBucket(q.bucket) /\ q.set \in SetsOf(q.bucket) /\ IsFiniteSet(q.selected)
    /\ \A q \in ListingQuestions : IsListing(q.keys) /\ q.set \in Canonical /\ IsFolder(q.folder)
    /\ \A q \in ClockQuestions : IsClock(q.reads)

VARIABLES topic, question, answer
answersVars == <<topic, question, answer>>

Nobody == "nobody"
Pending == [answered |-> FALSE]

AnswersInit == topic = Nobody /\ question = <<>> /\ answer = Pending

Ask(about, questions) ==
    /\ topic = Nobody
    /\ topic' = about
    /\ question' \in questions
    /\ UNCHANGED answer

Reply(about, what) ==
    /\ topic = about
    /\ answer = Pending
    /\ answer' = [answered |-> TRUE, of |-> what]
    /\ UNCHANGED <<topic, question>>

Asked ==
    \/ Ask("paths", PathQuestions)
    \/ Ask("glob", GlobQuestions)
    \/ Ask("lineTo", LineToQuestions)
    \/ Ask("walk", WalkQuestions)
    \/ Ask("restore", RestoreQuestions)
    \/ Ask("extract", ExtractQuestions)
    \/ Ask("lines", LineQuestions)
    \/ Ask("file", FileQuestions)
    \/ Ask("compare", CompareQuestions)
    \/ Ask("find", FindQuestions)
    \/ Ask("bucket", BucketQuestions)
    \/ Ask("settings", SettingsQuestions)
    \/ Ask("setup", SetupQuestions)
    \/ Ask("signIn", SignInQuestions)
    \/ Ask("identity", IdentityQuestions)
    \/ Ask("error", ErrorQuestions)
    \/ Ask("der", DerQuestions)
    \/ Ask("instant", InstantQuestions)
    \/ Ask("listing", ListingQuestions)
    \/ Ask("clock", ClockQuestions)
    \/ Ask("marker", MarkerQuestions)
    \/ Ask("lock", LockQuestions)
    \/ Ask("config", ConfigQuestions)
    \/ Ask("suggestion", SuggestionQuestions)

ReplyPaths ==
    Reply("paths", [matched |-> {p \in question.paths : MatchesUnder(ToSet(question.folders), p)},
                    left |-> UnmatchedFolders(question.folders, question.paths)])

\* A pattern met by a path below the root: by exclude.txt, as a file and as a
\* folder, and by find.
ReplyGlob ==
    LET path == <<Slash>> \o question.rel
        base == Split(question.rel)[Len(Split(question.rel))]
        Pattern(trailing) == question.pattern \o IF trailing THEN <<Slash>> ELSE <<>>
    IN  Reply("glob",
              [excludes |-> [as \in [isDir : BOOLEAN, trailing : BOOLEAN] |->
                  Excludes(<<>>, Pattern(as.trailing), question.rel, as.isDir, question.escapes)],
               finds |-> [trailing \in BOOLEAN |->
                  FindMatches(Pattern(trailing), path, base, question.escapes)]])

\* The line for a path, and what exclude.txt reads that line as.
ReplyLineTo ==
    LET line == ExactPattern(question.rel, question.escapes)
        read == IF line = NoLine THEN <<>> ELSE ParseExclude(<<line>>, question.escapes)
    IN  Reply("lineTo", [line |-> line, patterns |-> read])

ReplyWalk == Reply("walk", WalkSet(question.dirs, question.disk, question.excludes))

ReplyRestore == Reply("restore", RestoreAsked(question))

ReplyExtract == Reply("extract", ExtractAsked(question))

ReplyLines ==
    Reply("lines", ParseSnapshot(question.lines, question.held, question.tolerant))

\* A snapshot written and read back, whole and cut after each of its lines.
ReplyFile ==
    LET lines == StringifySnapshot(question.dirs, question.rows, question.aborted)
        held(k) == IF k = Len(lines) THEN {Nothing}
                   ELSE IF k = 0 THEN {Nothing, "headingStart"}
                   ELSE {Nothing, "piece"}
        cuts == {c \in (0 .. Len(lines)) \X Pieces : c[2] \in held(c[1])}
        Cut(c, tolerant) == ParseSnapshot(SubSeq(lines, 1, c[1]), c[2], tolerant)
    IN  Reply("file", [whole |-> ParseSnapshot(lines, Nothing, FALSE),
                       cut |-> [c \in cuts, tolerant \in BOOLEAN |-> Cut(c, tolerant)]])

ReplyCompare == Reply("compare", CompareSnapshots(question.since, question.until))

ReplyFind == Reply("find", FindInSnapshots(question.history, question.matches, question.all))

ReplyBucket ==
    Reply("bucket", [verify |-> Verify(question.bucket),
                     cleanup |-> Cleanup(question.bucket, FALSE),
                     forget |-> PlanUnrestorable(question.bucket, question.set, question.selected)])

ReplySettings ==
    Reply("settings", ProviderCommand(question.buckets, question.name, question.file,
                                      question.asked, question.ready))

ReplySetup ==
    Reply("setup", SetupCommand(question.shell, question.bucket, question.asked, question.ready))

ReplySignIn ==
    LET env == ApplyEnv(question.shell, question.file)
    IN  Reply("signIn",
              [resolved |-> ResolveCredentials(question.set, env, question.machine, question.aws),
               used |-> CredentialsUsed(question.shell, question.file),
               notice |-> AuthNotice(question.shell, question.file),
               client |-> ClientConfig(env)])

ReplyIdentity == Reply("identity", MachinesAfter(question.events))

ReplyError == Reply("error", RequestError(question))

ReplyDer ==
    Reply("der", CASE question.of = "length" -> DerLength(question.value)
                   [] question.of = "integer" -> DerInteger(question.value)
                   [] question.of = "oid" -> ObjectId(question.value)
                   [] question.of = "usage" -> KeyUsageValue(question.value)
                   [] question.of = "identity" ->
                         BuildIdentity(1, 2, question.value.random, question.value.year))

ReplyInstant == Reply("instant", IsInstant(question))

\* A bucket's keys as its listings read them, and one set's snapshots there and
\* here.
ListingOf(asked) ==
    LET keys == asked.keys
    IN  [sets |-> ListRemoteSets(keys),
         scanned |-> ScannedSnapshots(keys),
         listed |-> [set \in Canonical |-> ListRemoteSnapshots(keys, set)],
         download |-> DownloadRemoteSnapshots(keys, asked.set, asked.folder),
         status |-> Status(keys, asked.set, asked.folder, asked.content,
                           asked.records, asked.inStore)]

ReplyListing == Reply("listing", ListingOf(question))

ReplyClock == Reply("clock", RunsOf(question.reads))

\* A marker as another tool may have written it again.
ReplyMarker ==
    LET text == Edited(FormatInfo(question.marker), question.edited)
    IN  Reply("marker", [read |-> ParseInfo(text),
                         held |-> Holding(FormatInfo(question.claim), text)])

ReplyLock ==
    LET lock == ParseLock(Edited(FormatLock(question.lock), question.edited))
    IN  Reply("lock", [read |-> lock, left |-> LeftHere(lock, question.here, question.alive)])

\* A set's config published and taken over by a machine that has none.
ReplyConfig ==
    LET nothing == [dirs |-> NoText, exclude |-> NoText]
    IN  Reply("config",
              [set |-> DirsOfSet(question.dirs),
               taken |-> TakenConfig(nothing, PushSetConfig(question.dirs, question.exclude))])

ReplySuggestion ==
    Reply("suggestion", ExcludeSuggestions(question.roots, question.errors, question.previous,
                                           question.escapes))

Replied ==
    \/ ReplyPaths \/ ReplyGlob \/ ReplyLineTo \/ ReplyWalk \/ ReplyRestore \/ ReplyExtract
    \/ ReplyLines \/ ReplyFile
    \/ ReplyCompare \/ ReplyFind \/ ReplyBucket
    \/ ReplySettings \/ ReplySetup \/ ReplySignIn \/ ReplyIdentity \/ ReplyError \/ ReplyDer
    \/ ReplyInstant \/ ReplyListing \/ ReplyClock
    \/ ReplyMarker \/ ReplyLock \/ ReplyConfig \/ ReplySuggestion

Close ==
    /\ answer # Pending
    /\ topic' = Nobody /\ question' = <<>> /\ answer' = Pending

AnswersNext == Asked \/ Replied \/ Close

AnswersSpec == AnswersInit /\ [][AnswersNext]_answersVars

\* An answer to a question of a topic.
Of(about) == topic = about /\ answer # Pending

-----------------------------------------------------------------------------
(* Paths.                                                                  *)

\* A path lies under a folder when its place does, whatever the spelling of
\* either, and the folders that held nothing are left, each place once.
ContainmentIsByPlace ==
    Of("paths") /\ (\A f \in ToSet(question.folders) : IsMatchableDir(f)) =>
        LET folders == ToSet(question.folders)
            left == ToSet(answer.of.left)
        IN  /\ answer.of.matched = {p \in question.paths : \E f \in folders : Inside(p, f)}
            /\ {Place(f) : f \in left}
                  = {Place(f) : f \in {g \in folders : \A p \in question.paths : ~Inside(p, g)}}
            /\ Cardinality({Place(f) : f \in left}) = Len(answer.of.left)

-----------------------------------------------------------------------------
(* Patterns.                                                               *)

\* A pattern of whole segments leaves out, or finds, the paths its segments
\* match: all of a path below its root, or the end of one. With a separator at
\* its end it means folders: excluded as such, or found as what holds a path.
PatternsMeanSegments ==
    Of("glob") =>
        LET segments == Split(question.rel)
            names == question.names
            fold == ~question.escapes
            Ends(fd) == \E k \in 1 .. Len(segments) :
                           SegmentsMatch(names, SubSeq(segments, k, Len(segments)), fd)
            Holds(fd) == \E j \in 1 .. Len(segments) - 1 : \E k \in 1 .. j :
                           SegmentsMatch(names, SubSeq(segments, k, j), fd)
        IN  /\ \A as \in DOMAIN answer.of.excludes :
                  answer.of.excludes[as]
                     = (as.isDir = as.trailing /\ SegmentsMatch(names, segments, fold))
            /\ answer.of.finds[FALSE] = Ends(TRUE)
            /\ answer.of.finds[TRUE] = Holds(TRUE)

\* The line for a path is read back as one usable pattern, and that leaves out
\* the path and no other, whatever the folder above it is called.
ExactLineNamesItself ==
    Of("lineTo") /\ answer.of.line # NoLine =>
        LET Out(rel) == Excludes(question.root, answer.of.patterns[1], rel, FALSE, question.escapes)
            Same(rel) == Spell(rel, question.escapes) = Spell(question.rel, question.escapes)
        IN  /\ Len(answer.of.patterns) = 1
            /\ ~UnusableExclude(answer.of.patterns, question.escapes)
            /\ \A q \in LineToQuestions :
                  q.escapes = question.escapes => (Out(q.rel) <=> Same(q.rel))

\* The lines a backup offers leave out what has failed twice and nothing beside
\* it (commands/backup.mjs).
OfferedLinesSuit ==
    Of("suggestion") =>
        SuggestionsSuit(question.roots, question.errors, question.previous, answer.of,
                        question.escapes)

\* Names decide by what they mean: a path by its place, a pattern by its
\* segments, and the line written or offered for a path by that path alone.
NamesMeanPlaces ==
    ContainmentIsByPlace /\ PatternsMeanSegments /\ ExactLineNamesItself /\ OfferedLinesSuit

-----------------------------------------------------------------------------
(* The walk.                                                               *)

\* Nothing below a member directory is left out of a snapshot unsaid.
NothingLostUnsaid ==
    Of("walk") /\ "refused" \notin DOMAIN answer.of =>
        AccountsForAll(question.dirs, question.disk, question.excludes, answer.of)

\* What is walked can be written, and the reader takes all of it back.
WalkedIsReadBack ==
    Of("walk") /\ "refused" \notin DOMAIN answer.of => IsReadBack(question.dirs, answer.of)

\* The walk accounts for what is on the disk, in rows the reader takes.
WalkAccountsForAll == NothingLostUnsaid /\ WalkedIsReadBack

-----------------------------------------------------------------------------
(* What a restore is asked for.                                            *)

\* A restore takes what is named and tells the rest: never all of a set for a
\* blank argument, never a filter passed over.
OnlyWhatIsNamed ==
    /\ Of("restore") /\ "refused" \notin DOMAIN answer.of =>
          LET filters == (ToSet(question.paths)
                             \cup IF question.fromFile = NoList THEN {} ELSE ToSet(question.fromFile))
                         \ {Blank}
          IN  TakesWhatIsNamed(question, filters, answer.of)
    /\ Of("extract") /\ "refused" \notin DOMAIN answer.of =>
          answer.of.targets
             = {p \in question.entries : Inside(p, Head(NamedOf(question.paths)))}

\* Files land below the directory they are asked into, each at a place of its
\* own.
EachLandsApart ==
    /\ Of("restore") /\ "refused" \notin DOMAIN answer.of /\ question.output # NotGiven =>
          LandsApart(question.output, answer.of)
    /\ Of("extract") /\ "refused" \notin DOMAIN answer.of => LandsApart(answer.of.to, answer.of)

\* A restore plans what was named, each file at a place of its own.
PlanIsOfTheNamed == OnlyWhatIsNamed /\ EachLandsApart

-----------------------------------------------------------------------------
(* The text of a snapshot.                                                 *)

\* A strict read accepts exactly the whole files of the format.
AcceptsOnlyWhole ==
    Of("lines") /\ ~question.tolerant =>
        (answer.of.fault = NoFault <=> ValidFile(question.lines, question.held))

\* Of any bytes, the entries fit in one tree under the set's folders, and a row
\* that isn't an entry is refused for a cause, never dropped.
EntriesFitOneTree ==
    Of("lines") \/ Of("file") =>
        LET read == IF topic = "lines" THEN answer.of ELSE answer.of.whole
            rows == SelectSeq(IF topic = "lines" THEN question.lines ELSE question.rows,
                              LAMBDA line : line.kind = "file")
        IN  /\ OneTree(read.entries, read.dirs)
            /\ \A path \in read.refused : RefusedForCause(rows, read.dirs, path)
            /\ topic = "file" => {r.path : r \in ToSet(rows)} = read.entries \cup read.refused

\* A file cut anywhere short of its last line is refused, and an interrupted
\* run's partial gives back each row that landed whole.
CutIsKnown ==
    Of("file") =>
        \A c \in {of[1] : of \in DOMAIN answer.of.cut} :
            LET strict == answer.of.cut[c, FALSE]
                tolerant == answer.of.cut[c, TRUE]
                landed == {i \in DOMAIN question.rows : 1 + Len(question.dirs) + i <= c[1]}
            IN  /\ strict.fault = NoFault
                      <=> strict = answer.of.whole /\ answer.of.whole.fault = NoFault
                /\ strict.fault = NoFault => ~question.aborted
                /\ c[1] > 0 => tolerant.fault = NoFault
                /\ tolerant.entries \cup tolerant.errors = {question.rows[i].path : i \in landed}

\* The instants taken are the real ones: no day or hour a clock would count on.
InstantsAreReal == Of("instant") => (answer.of <=> CountsNothingOver(question))

\* What is written of a holder is read back as written, by other line endings
\* and among other lines too, and a set is held by what was read of its marker;
\* a lock is taken for a stopped run's only where its process would be.
MarkersReadBack ==
    /\ Of("marker") =>
          /\ answer.of.read = question.marker
          /\ answer.of.held <=> /\ question.claim.owner = question.marker.owner
                                /\ question.claim.claimed = question.marker.claimed
    /\ Of("lock") =>
          /\ answer.of.read = question.lock
          /\ answer.of.left <=> /\ \A at \in {"by", "os", "pidns"} : question.lock[at] = question.here[at]
                                /\ question.lock.pid \notin question.alive \cup {NoText}

\* A takeover brings the directories the set has and its exclude file, if any.
ConfigTravels ==
    Of("config") =>
        /\ answer.of.taken.dirs = answer.of.set
        /\ answer.of.taken.exclude = (IF question.exclude = <<>> THEN NoText ELSE question.exclude)

\* The directories a set has are the ones it was set up with.
DirsAreKept == Of("config") => answer.of.set = question.dirs

\* Whatever a snapshot's bytes are, its reader takes whole files only, in one
\* tree, and salvages from a cut one the rows that landed; and what is kept
\* beside the snapshots is read back as it was written.
ReaderTakesOnlyWhole ==
    /\ AcceptsOnlyWhole /\ EntriesFitOneTree /\ CutIsKnown
    /\ InstantsAreReal /\ MarkersReadBack /\ ConfigTravels

-----------------------------------------------------------------------------
(* Two snapshots, and a history of them.                                   *)

\* Each path either snapshot holds is told of once, or is unchanged.
EachPathToldOnce ==
    Of("compare") =>
        /\ HeldIsToldOnce(question.since, question.until, answer.of)
        /\ GoneIsToldOnce(question.since, question.until, answer.of)

\* A vanished content that appears elsewhere is a move as often as it can be,
\* and what else holds a content the older snapshot held says so.
ContentIsTraced ==
    Of("compare") =>
        /\ MovesPairAll(question.since, question.until, answer.of)
        /\ CopiesAreNamed(question.since, question.until, answer.of)

\* A move's source is gone from the newer snapshot (guide/compare.md).
MovesAreOfTheGone == Of("compare") => MovedIsGone(question.until, answer.of)

\* A found object's spans are the runs of snapshots that hold it, and with it
\* come all the other paths of its content.
FindTellsTheRuns ==
    Of("find") /\ ~question.all =>
        \A object \in answer.of.objects :
            /\ \A set \in DOMAIN object.spans : SpansAreRuns(question.history, object, set)
            /\ BacksAll(question.history, object, question.matches)

\* What compare and find tell of snapshots adds up to the snapshots.
HistoryIsTold == EachPathToldOnce /\ ContentIsTraced /\ FindTellsTheRuns

-----------------------------------------------------------------------------
(* A bucket.                                                               *)

\* Verify is quiet of a set exactly when each of its files can be restored or
\* was deleted on purpose, and names each that can't, once.
VerifyIsExact ==
    Of("bucket") =>
        /\ QuietMeansRestorable(question.bucket, answer.of.verify)
        /\ EachBrokenRowNamed(question.bucket, answer.of.verify)

\* A cleanup that acts removes nothing a snapshot file names.
CleanupIsLossless == Of("bucket") => CleanupLosesNothing(question.bucket)

\* What forget says becomes unrestorable is what cleanup then takes, and its
\* rows add up to its total.
ForgetPreviewIsTrue ==
    Of("bucket") =>
        /\ PreviewIsTheLoss(question.bucket, question.set, question.selected)
        /\ PreviewAddsUp(question.bucket, question.set, question.selected)

\* Each set is scanned with the snapshots that restore lists of it, a refresh
\* brings them here, and status counts what is missing of the newest one here.
KeysAreCounted ==
    Of("listing") =>
        LET set == question.set
            there == answer.of.listed[set]
            status == answer.of.status
            target == question.content[status.snapshot]
            newest == IF there = <<>> THEN {} ELSE question.content[there[1]]
        IN  /\ ScanIsWhole(question.keys, answer.of.sets, answer.of.scanned, answer.of.listed)
            /\ RefreshedIsBoth(question.folder, there, answer.of.download)
            /\ "refused" \notin DOMAIN status =>
                  StatusIsTrue(status, target, newest, question.records, question.inStore)

\* The latest snapshot of a set is the one its last run took, or that run said
\* it would not be.
ClockIsTold == Of("clock") => LatestIsLastOrTold(answer.of)

\* What verify, cleanup and forget say of a bucket is so, of the snapshots that
\* its keys name.
BucketIsToldTrue ==
    VerifyIsExact /\ CleanupIsLossless /\ ForgetPreviewIsTrue /\ KeysAreCounted /\ ClockIsTold

-----------------------------------------------------------------------------
(* Settings.                                                               *)

\* A set has the credential mode it was last given and no other, and keeps what
\* it wasn't asked to change.
OneModeEach ==
    Of("settings") /\ "files" \in DOMAIN answer.of =>
        LET after == Last(answer.of.files)
            removed == IF question.asked.unset = NotAsked THEN {}
                       ELSE ToSet(SettingKeys[question.asked.unset])
        IN  /\ removed = {} => IsSwitched(question.file, question.asked, after)
            /\ removed # {} =>
                  ParseEnv(after) = Restrict(ParseEnv(question.file), KeysOf(question.file) \ removed)

\* A command that died after any of its writes ends, given again, as it would
\* have.
RepeatMends ==
    Of("settings") /\ "files" \in DOMAIN answer.of =>
        \A i \in DOMAIN answer.of.files :
            LET again == Provider(answer.of.files[i], question.asked, question.ready)
            IN  /\ "files" \in DOMAIN again
                /\ ParseEnv(Last(again.files)) = ParseEnv(Last(answer.of.files))

\* A new set signs in later as it did to claim its name.
SetupSignsInAlike ==
    Of("setup") /\ "files" \in DOMAIN answer.of =>
        ApplyEnv(question.shell, Last(answer.of.files)) = answer.of.claims

\* What a set's env file comes to hold is what its commands were asked.
SettingsAreMeant == OneModeEach /\ RepeatMends /\ SetupSignsInAlike

-----------------------------------------------------------------------------
(* Signing in.                                                             *)

\* A set signs in by the mode it has, and a rejection says what signed in.
CredentialsAreTold ==
    Of("signIn") /\ "signed" \in DOMAIN answer.of.resolved =>
        /\ SignsInAsSaid(question, answer.of.resolved.signed)
        /\ IsToldTrue(question, answer.of.resolved.signed, answer.of.used)

\* The advice of a failed sign-in, once followed, lets it succeed.
FixesWork ==
    Of("signIn") /\ "failed" \in DOMAIN answer.of.resolved =>
        LET again == Followed(answer.of.resolved.failed, question)
            env == ApplyEnv(again.shell, again.file)
            Works == "signed" \in DOMAIN ResolveCredentials(again.set, env, again.machine, again.aws)
        IN  \/ Works
            \/ question.set = NoSet /\ IsRolesAnywhereMode(env)
            \/ answer.of.resolved.failed = "no identity" /\ again.aws.session # "ok"

\* No order of the table's rows decides what an error is told as.
OneRowEach ==
    Of("error") => Len(MatchingRows(question)) <= 1

\* An identity is never mixed of two, nor a bucket's ARNs of two stacks.
IdentityIsWhole ==
    Of("identity") => \A i \in DOMAIN answer.of : IsWhole(answer.of[i])

\* A reader of DER takes back every value as it was, in as few bytes as there
\* can be.
DerReadsBack ==
    Of("der") =>
        CASE question.of = "length" ->
                LengthAt(answer.of, 1) = [says |-> question.value, size |-> Len(answer.of)]
          [] question.of = "integer" ->
                Len(Items(answer.of)) = 1 /\ IsNumber(Items(answer.of)[1].content, question.value)
          [] question.of = "oid" -> ArcsOf(Items(answer.of)[1].content) = question.value
          [] question.of = "usage" -> IsNamedBits(Items(answer.of)[1].content, question.value)
          [] question.of = "identity" ->
                /\ IsCertificate(answer.of.ca, CaName, CaName, 1, 1, question.value.year,
                                 {BasicConstraints, KeyUsage})
                /\ IsCertificate(answer.of.client, ClientName, CaName, 2, 1, question.value.year,
                                 {BasicConstraints, KeyUsage, ExtKeyUsage})

\* Who signs in is who was meant, and what is told of it and of its failing is
\* so.
SignInIsTold ==
    CredentialsAreTold /\ FixesWork /\ OneRowEach /\ IdentityIsWhole /\ DerReadsBack

\* The line printed before the first request names what signs in.
NoticeIsTrue ==
    Of("signIn") /\ "signed" \in DOMAIN answer.of.resolved =>
        answer.of.notice.source \in {answer.of.used.source, DefaultSource}

\* Roles Anywhere is never asked of a provider that isn't AWS.
RolesAnywhereIsAwsOnly ==
    Of("settings") /\ "files" \in DOMAIN answer.of =>
        LET Both(file) == IsRolesAnywhereMode(ParseEnv(file)) /\ CustomEndpoint(ParseEnv(file)) # ""
        IN  ~Both(question.file) => ~Both(Last(answer.of.files))
============================================================================
