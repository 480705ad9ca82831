----------------------------- MODULE MCAnswers -----------------------------
(* The questions: small enough to ask them all, each kind of case among them. *)
EXTENDS Answers
LOCAL INSTANCE SequencesExt
LOCAL INSTANCE FiniteSetsExt

NoQuestions == {}

SeqsUpTo(S, n) == UNION {[1 .. k -> S] : k \in 0 .. n}

-----------------------------------------------------------------------------
(* Paths: the roots of both kinds, one or two names below them in two cases *)
(* and two spellings of the separator, with and without a trailing one.     *)

Roots == {<<"/">>, <<"C:", "/">>, <<"c:", "\\">>, <<"/", "/">>, <<"\\", "\\">>}
Rests(sep) == {<<>>, <<"a">>, <<"a", sep, "b">>, <<"A", sep, "b", sep>>,
               <<"a", sep, sep, "b">>}
FolderTexts == {r \o b : r \in Roots, b \in Rests("/")}
                 \cup {<<"c:", "\\">> \o b : b \in Rests("\\")}
                 \cup {<<"\\", "\\">> \o b : b \in Rests("\\")}
FileTexts == {r \o b : r \in Roots, b \in {<<"a">>, <<"A", "/", "B">>, <<"a", "/", "b", "/", "a">>,
                                          <<"a", "\\", "b">>, <<"b", "\\", "a">>}}

MCPathQuestions ==
    [folders : {<<f, g>> : f \in FolderTexts, g \in FolderTexts},
     paths : {{p} : p \in FileTexts}]

-----------------------------------------------------------------------------
(* Patterns of up to three segments, met by paths of up to three.           *)

Joined(names) == FlattenSeq([i \in DOMAIN names |-> IF i = 1 THEN names[i] ELSE <<"/">> \o names[i]])
PatternNames == {<<"a">>, <<"b">>, <<"*">>, <<"?">>, <<"a", "*">>, <<"*", "*">>}
Patterns == {n \in SeqsUpTo(PatternNames, 3) : n # <<>> /\ n[Len(n)] # <<"*", "*">>}
MetPaths == SeqsUpTo({<<"a">>, <<"B">>, <<"a", "b">>}, 3) \ {<<>>}

MCGlobQuestions ==
    {[pattern |-> Joined(n), names |-> n, rel |-> Joined(r), escapes |-> e] :
        n \in Patterns, r \in MetPaths, e \in BOOLEAN}

\* Names of up to three characters that mean something, in folders whose own do.
Rels(chars, sep) ==
    {r \in SeqsUpTo(chars, 3) : /\ r # <<>>
                                /\ r[1] # sep /\ r[Len(r)] # sep
                                /\ \A i \in 1 .. Len(r) - 1 : r[i] # sep \/ r[i + 1] # sep}
MCLineToQuestions ==
    [root : {<<"/", "*">>, <<"/", "\\", "a">>},
     rel : Rels({"a", "/", "\\", "*", "?", "#", " "}, "/") \cup {<<"a", "\n">>}, escapes : {TRUE}]
    \cup [root : {<<"C", ":", "\\", "r">>},
          rel : Rels({"a", "\\", "*", "#", " "}, "\\"), escapes : {FALSE}]
    \cup [root : {<<"\\", "\\", "s", "\\", "r">>}, rel : Rels({"a", "\\", "#", " "}, "\\"), escapes : {FALSE}]

-----------------------------------------------------------------------------
(* A walk of /r, of another folder beside it or of one inside it.           *)

R == <<"/", "r">>
D == R \o <<"/", "d">>
DE == D \o <<"/", "e">>
RF == R \o <<"/", "f">>
RS == R \o <<"/", ".s3cab">>
SG == RS \o <<"/", "g">>
Away == <<"/", "x">>

NoLink == [read |-> Vanished, stat |-> Broken, real |-> Unresolved]
Entry(dirent, lstat) ==
    [dirent |-> dirent, lstat |-> lstat, unicode |-> TRUE, lists |-> TRUE, link |-> NoLink]
Plain(type) == Entry(type, type)
LinkTo(stat, real) ==
    [Plain(Link) EXCEPT !.link = [read |-> Resolved, stat |-> stat, real |-> real]]
NotUnicode(entry) == [entry EXCEPT !.unicode = FALSE]

AnyFile == {Plain(File), Entry(Unknown, File), Entry(Unknown, Denied), Entry(Unknown, Vanished),
            Entry(Unknown, Unknown), Plain(Other), NotUnicode(Plain(File))}
AnyLink == {LinkTo(File, DE), LinkTo(File, RF), LinkTo(Directory, D), LinkTo(Directory, RS),
            LinkTo(File, SG), LinkTo(File, RS), LinkTo(File, Away), LinkTo(Directory, Away),
            LinkTo(File, Unresolved), LinkTo(Denied, Unresolved), LinkTo(Broken, Unresolved),
            [Plain(Link) EXCEPT !.link.read = Denied], Plain(Link)}
AnyFolder == {Plain(Directory), Entry(Unknown, Directory), [Plain(Directory) EXCEPT !.lists = FALSE]}

\* A link's calls agree with what is on the disk.
Agrees(disk, entry) ==
    (/\ entry.dirent = Link
     /\ entry.link.stat \in {File, Directory}
     /\ entry.link.real \notin {Unresolved, Away})
        => /\ entry.link.real \in DOMAIN disk
           /\ TypeOf(disk[entry.link.real]) = entry.link.stat
Disk(f, d, e, s) ==
    LET inD == IF TypeOf(d) = Directory THEN {DE} ELSE {}
        inS == IF TypeOf(s) = Directory THEN {SG} ELSE {}
    IN  [p \in {RF, D, RS} \cup inD \cup inS |->
            CASE p = RF -> f [] p = D -> d [] p = DE -> e [] p = RS -> s [] p = SG -> Plain(File)]
Disks ==
    {disk \in {Disk(f, d, e, s) : f \in AnyFile \cup AnyLink,
                                  d \in AnyFolder \cup {Plain(File)},
                                  e \in {Plain(File), LinkTo(File, RF), LinkTo(Directory, D)},
                                  s \in {Plain(Directory), Plain(File)}} :
        \A p \in DOMAIN disk : Agrees(disk, disk[p])}
\* And names a row can't hold.
OddDisks == {[p \in {R \o <<"/", n>>} |-> Plain(File)] : n \in {"TAB", "CR", "LF", "NUL1"}}

Member(path) == [path |-> path, absolute |-> TRUE, folder |-> TRUE, real |-> path]
MemberDirs == {{}, {Member(R)}, {Member(R), Member(<<"/", "q">>)}, {Member(R), Member(D)},
               {[Member(R) EXCEPT !.absolute = FALSE]}, {[Member(R) EXCEPT !.folder = FALSE]},
               {[Member(R) EXCEPT !.real = Unresolved]}}
MCWalkQuestions ==
    {q \in [dirs : MemberDirs, disk : Disks \cup OddDisks,
             excludes : SUBSET {[path |-> D, isDir |-> TRUE], [path |-> RF, isDir |-> FALSE],
                                [path |-> DE, isDir |-> FALSE], [path |-> RF, isDir |-> TRUE]}] :
        Member(D) \in q.dirs => D \in DOMAIN q.disk /\ TypeOf(q.disk[D]) = Directory}

ASSUME DisksAssumption ==
    \A q \in MCWalkQuestions : IsDisk({d.real : d \in q.dirs}, q.disk)

-----------------------------------------------------------------------------
(* Restores of snapshots of each kind of machine, onto each.                *)

PosixFiles == {<<"/", "a">>, <<"/", "A">>, <<"/", "a", "/", "b">>, <<"/", "C:", "/", "b">>,
               <<"/", "C", "/", "b">>, <<"/", "b", "\\", "a">>, <<"/", "UNC", "/", "a", "/", "b">>}
WindowsFiles == {<<"C:", "\\", "a">>, <<"c:", "\\", "A">>, <<"C:", "\\", "a", "\\", "b", "\\", "A">>,
                 <<"\\", "\\", "a", "\\", "b", "\\", "A">>, <<"\\", "\\", "C", "\\", "a">>,
                 <<"C:", "\\", "UNC", "\\", "a">>}
Some(files) == {s \in SUBSET files : Cardinality(s) = 2}
Outputs == [windows : {TRUE}, output : {NotGiven, <<"C:", "\\", "R">>}]
             \cup [windows : {FALSE}, output : {NotGiven, <<"/", "r">>}]
Filters == {Blank, <<"/", "a", "/">>, <<"/">>, <<"c:", "/", "a">>, <<"\\", "\\", "a", "\\", "b">>}
Lists == {NoList, <<>>, <<<<"/", "a">>>>}

MCRestoreQuestions ==
    {[paths |-> p, fromFile |-> l, all |-> a, windows |-> o.windows, output |-> o.output,
      entries |-> f, refusedRows |-> r] :
        p \in SeqsUpTo(Filters, 2), l \in Lists, a \in BOOLEAN, o \in Outputs,
        f \in Some(PosixFiles) \cup Some(WindowsFiles), r \in {{}, {<<"/", "a", "/", "a">>}}}

MCExtractQuestions ==
    {[paths |-> p, name |-> n, output |-> o, taken |-> t, overwrite |-> w,
      entries |-> f, refusedRows |-> {}] :
        p \in SeqsUpTo(Filters \cup {<<"/", "A">>, <<"C:", "\\">>, <<"b">>}, 2),
        n \in {NotGiven, <<"b">>, <<"..">>, <<"a", "/", "b">>, <<"b", "\\", "a">>},
        o \in {<<"C:", "\\", "R">>, <<"/", "r">>}, t \in {{}, {<<"/", "r", "/", "a">>}}, w \in BOOLEAN,
        f \in {PosixFiles, WindowsFiles}}

-----------------------------------------------------------------------------
(* Lines: any few lines, and the ones that can stand in a snapshot.         *)

Home == <<"/", "r">>
In(name) == Home \o <<"/", name>>

AnyLine == {Line("heading"), FileRow(In("a"), TRUE), ErrorRow(In("b")), DirRow(Home),
            Line("mark"), Line("dot"), Line("dotMore"), Line("blank"), Line("unknown"), Line("raw")}
SnapshotLine == {Line("heading"), FileRow(In("a"), TRUE), DirRow(Home), Line("mark"), Line("dot")}

MCLineQuestions ==
    [lines : SeqsUpTo(AnyLine, 3)
               \cup {<<Line("heading")>> \o s : s \in SeqsUpTo(SnapshotLine, 4)},
     held : Pieces,
     tolerant : BOOLEAN]

\* Files that fit together and files that don't: inside and outside, below one
\* another, twice, of another kind or case, and rows that can't be restored.
FileRows == {FileRow(In("a"), TRUE), FileRow(In("a") \o <<"/", "b">>, TRUE), ErrorRow(In("b")),
             FileRow(In("a") \o <<"/", "b", "/", "a">>, TRUE), FileRow(In("b"), FALSE),
             FileRow(Home, TRUE), FileRow(<<"/", "b">>, TRUE),
             FileRow(In("..") \o <<"/", "b">>, TRUE), FileRow(<<"C:", "\\", "R", "\\", "a">>, TRUE),
             FileRow(<<"C:", "/", "r", "/", "a", "/", "b">>, TRUE)}

Nested == {FileRow(In("a"), TRUE), FileRow(In("a") \o <<"/", "b">>, TRUE), ErrorRow(In("b")),
           FileRow(In("a") \o <<"/", "b", "/", "a">>, TRUE), FileRow(In("b"), FALSE),
           FileRow(<<"C:", "/", "r", "/", "a", "/", "b">>, TRUE)}

MCFileQuestions ==
    [dirs : {<<>>, <<Home>>, <<<<"/">>, Home>>, <<Home, <<"c:", "/", "r">>>>},
     rows : SeqsUpTo(FileRows, 2) \cup [1 .. 3 -> Nested],
     aborted : BOOLEAN]

-----------------------------------------------------------------------------
(* Two snapshots of four files in two folders, each file absent, of one of  *)
(* two contents, or unreadable; or of three, each of which may also have an *)
(* error row beside its own.                                                *)

Files == <<[dir |-> "d", base |-> "x"], [dir |-> "d", base |-> "y"],
           [dir |-> "e", base |-> "x"], [dir |-> "e", base |-> "y"]>>
States == {"absent", "h1", "h2", "unreadable"}

SnapshotOf(state) ==
    LET hash == [h1 |-> "h1", h2 |-> "h2", h1AndError |-> "h1"]
        held == Where(Len(state), LAMBDA i : state[i] \in DOMAIN hash)
    IN  [entries |-> [k \in DOMAIN held |-> Row(Files[held[k]], hash[state[held[k]]])],
         errors |-> {Files[i] : i \in {j \in DOMAIN state : state[j] \in {"unreadable", "h1AndError"}}}]
Snapshots == {SnapshotOf(s) : s \in [1 .. 4 -> States]}
WithErrorsBeside == {SnapshotOf(s) : s \in [1 .. 3 -> States \cup {"h1AndError"}]}
MCCompareQuestions ==
    [since : Snapshots, until : Snapshots] \cup [since : WithErrorsBeside, until : WithErrorsBeside]

\* Histories of two sets.
RowSets == SUBSET {Row("p", "h1"), Row("p", "h2"), Row("q", "h1")}
OneEach(rows) == \A r, s \in rows : r.path = s.path => r = s
Readings == {[rows |-> rows, damaged |-> FALSE] : rows \in {s \in RowSets : OneEach(s)}}
              \cup {[rows |-> {}, damaged |-> TRUE]}
MCFindQuestions ==
    [history : {[s1 |-> one, s2 |-> two] : one \in [1 .. 3 -> Readings], two \in [1 .. 1 -> Readings]},
     matches : {{"p"}, {"p", "q"}},
     all : BOOLEAN]

-----------------------------------------------------------------------------
(* Buckets of two sets and two objects: one set with up to two snapshots,   *)
(* one with up to one.                                                      *)

ObjectRows == {[path |-> "p", hash |-> "h1", size |-> 1], [path |-> "q", hash |-> "h1", size |-> 1],
               [path |-> "p", hash |-> "h2", size |-> 1], [path |-> "q", hash |-> "h2", size |-> 2]}
SnapshotFiles ==
    [start : {NoStart, 2}, rows : {{}} \cup {{r} : r \in ObjectRows} \cup
        {{[path |-> "p", hash |-> "h1", size |-> 1], [path |-> "q", hash |-> "h1", size |-> 1]},
         {[path |-> "p", hash |-> "h1", size |-> 1], [path |-> "q", hash |-> "h2", size |-> 2]}},
     refused : {{}}, damaged : {FALSE}]
  \cup [start : {2}, rows : {{}}, refused : {{[path |-> "q", hash |-> "h2", size |-> 2]}}, damaged : {FALSE}]
  \cup [start : {2}, rows : {{[path |-> "p", hash |-> "h1", size |-> 1]}}, refused : {{}}, damaged : {TRUE}]
Object(size, archived) == [size |-> size, archived |-> archived]
Stores == {[h \in {} |-> Object(1, FALSE)]}
            \cup [{"h1"} -> {Object(1, FALSE), Object(1, TRUE), Object(2, FALSE)}]
            \cup [{"h2"} -> {Object(1, FALSE), Object(2, FALSE)}]
            \cup [{"h1", "h2"} -> {Object(1, FALSE), Object(2, FALSE)}]
Deletions == {[h \in {} |-> 0], [h1 |-> 2], [h1 |-> 3, h2 |-> 3]}
SetOne == UNION {[S -> SnapshotFiles] : S \in {{}, {"n1"}, {"n1", "n2"}}}
SetTwo == {[n \in {} |-> 0]}
            \cup [{"n1"} -> {f \in SnapshotFiles : f.start = 2 /\ {r.path : r \in f.rows} = {"p"}}]
BucketsOf(one, two, store, deletions, records) ==
    [snapshots : {[s1 |-> o, s2 |-> t] : o \in one, t \in two},
     stored : store, deleted : deletions, records : records]
MCBucketQuestions ==
    [bucket : BucketsOf(SetOne, SetTwo, Stores, Deletions, {"sound"}), set : {"s1"}, selected : {{"n1"}}]

-----------------------------------------------------------------------------
(* Settings: env files of every mixture of modes, and what a command asks.  *)

\* The lines for some keys, none for one that is absent.
Absent == "absent"
LinesOf(keys, value) ==
    LET there == SelectSeq(keys, LAMBDA key : value[key] # Absent)
    IN  [i \in DOMAIN there |-> EnvLine(there[i], value[there[i]])]

FileOf(bucket, profile, id, secret, ra, endpoint, region) ==
    LinesOf(<<"S3CAB_BUCKET", "AWS_PROFILE", "AWS_ACCESS_KEY_ID", "AWS_SECRET_ACCESS_KEY",
              "S3CAB_RA", "AWS_ENDPOINT_URL_S3", "AWS_ENDPOINT_URL", "AWS_REGION">>,
            [S3CAB_BUCKET |-> bucket, AWS_PROFILE |-> profile, AWS_ACCESS_KEY_ID |-> id,
             AWS_SECRET_ACCESS_KEY |-> secret, S3CAB_RA |-> ra,
             AWS_ENDPOINT_URL_S3 |-> IF endpoint = "s3" THEN "e0" ELSE Absent,
             AWS_ENDPOINT_URL |-> IF endpoint = "any" THEN "e0" ELSE Absent,
             AWS_REGION |-> region])

Pairs == {<<Absent, Absent>>, <<"k0", "k0">>, <<Absent, "k0">>, <<"k0", Absent>>}
EnvFiles ==
    {FileOf("b", p, k[1], k[2], ra, e, r) :
        p \in {Absent, "", "p0"}, k \in Pairs, ra \in {Absent, "1"}, e \in {Absent, "s3", "any"},
        r \in {Absent, "r0"}}
\* And one with lines twice.
TwiceFiles ==
    {<<EnvLine("AWS_PROFILE", "p0"), EnvLine("S3CAB_BUCKET", "b"), EnvLine("AWS_PROFILE", "p1"),
       EnvLine("S3CAB_RA", "1"), EnvLine("S3CAB_RA", "1")>>}

NothingAsked == [knob \in DOMAIN SettingKeys |-> NotAsked] @@ [unset |-> NotAsked]
Sets(profile, endpoint, region, keys, ra) ==
    [profile |-> profile, endpoint |-> endpoint, region |-> region, keys |-> keys,
     rolesAnywhere |-> ra, unset |-> NotAsked]
Settables ==
    {Sets(p, e, r, k, ra) : p \in {NotAsked, "p1", ""}, e \in {NotAsked, "e1", NotUrl},
                            r \in {NotAsked, "r1"}, k \in {NotAsked, "k1", ""}, ra \in {NotAsked, "1"}}
Unsets == {[NothingAsked EXCEPT !.unset = u] : u \in DOMAIN SettingKeys \cup {"bucket"}}
            \cup {[NothingAsked EXCEPT !.unset = "keys", !.profile = "p1"]}

SettingsQuestion(buckets, name, file, asked, ready) ==
    [buckets |-> buckets, name |-> name, file |-> file, asked |-> asked, ready |-> ready]
MCSettingsQuestions ==
    {SettingsQuestion([s |-> "b"], "s", file, asked, ready) :
        file \in EnvFiles \cup TwiceFiles, asked \in Settables \cup Unsets, ready \in {TRUE}}
    \cup {SettingsQuestion(buckets, name, file, asked, ready) :
            buckets \in {[s |-> "b"], [s |-> ""], [s |-> "b", t |-> "c"], [s |-> "b", t |-> ""], <<>>},
            name \in {NotAsked, "s", "u"}, file \in TwiceFiles,
            asked \in {NothingAsked, [NothingAsked EXCEPT !.rolesAnywhere = "1"],
                       [NothingAsked EXCEPT !.unset = "profile"]},
            ready \in BOOLEAN}

MCSetupQuestions ==
    [shell : {<<>>, [AWS_PROFILE |-> "p0"], [AWS_REGION |-> "r0", S3CAB_BUCKET |-> "c"]},
     bucket : {"b"}, asked : Settables, ready : BOOLEAN]

-----------------------------------------------------------------------------
(* Signing in: files of one mode and of several, shells that add their own. *)

SignInFiles ==
    {FileOf("b", p, k, k, ra, e, Absent) :
        p \in {Absent, "", "p"}, k \in {Absent, "", "k0"}, ra \in {Absent, "1"}, e \in {Absent, "s3"}}
Shells == {<<>>, [AWS_PROFILE |-> "q"], [AWS_ACCESS_KEY_ID |-> "k", AWS_SECRET_ACCESS_KEY |-> "k"],
           [AWS_PROFILE |-> "q", AWS_ACCESS_KEY_ID |-> "k", AWS_SECRET_ACCESS_KEY |-> "k"],
           [AWS_SECRET_ACCESS_KEY |-> "k", AWS_DEFAULT_REGION |-> "r"]}
Captured(keys) == [i \in DOMAIN keys |-> EnvLine(keys[i], "v")]
Whole == [file \in ToSet(IdentityFiles) |-> 1]
Machines ==
    {NewMachine, [identity |-> Whole, arns |-> <<>>],
     [identity |-> Whole, arns |-> [b |-> Captured(SetToSeq(SigningKeys))]],
     [identity |-> Whole, arns |-> [b |-> Captured(SetToSeq(SigningKeys \ {"AWS_REGION"}))]],
     [identity |-> Restrict(Whole, {"ca.pem", "ca.key"}), arns |-> [b |-> Captured(SetToSeq(SigningKeys))]]}
\* ~/.aws with either of two profiles, or both; a session that opens or doesn't.
Profiles ==
    {cloud \in [profiles : {{"p"}, {"p", "q"}, {}, ProfilesUnknown},
                yields : [{"p", "q", "default"} -> {Yields, Expired, Missing}], session : {"ok"}] :
        cloud.profiles # ProfilesUnknown =>
            \A name \in {"p", "q"} \ cloud.profiles : cloud.yields[name] = Missing}
Sessions ==
    [profiles : {{"p"}}, yields : {[p |-> Yields, q |-> Missing, default |-> Yields]},
     session : {"ok", "refused", "network"}]

\* What setup signs in with, before there is a set; nothing, when a bucket is named.
SetupLayers ==
    {<<>>} \cup {FileOf("b", p, Absent, Absent, Absent, Absent, Absent) : p \in {Absent, "p"}}
           \cup {FileOf("b", Absent, Absent, Absent, "1", Absent, Absent)}

MCSignInQuestions ==
    LET Signing(set, files, machines, clouds) ==
            [set : {set}, shell : Shells, file : files, machine : machines, aws : clouds]
    IN  Signing("s", SignInFiles, {NewMachine}, Profiles) \cup Signing("s", SignInFiles, Machines, Sessions)
        \cup Signing(NoSet, SetupLayers, {NewMachine}, Profiles) \cup Signing(NoSet, SetupLayers, Machines, Sessions)

Stack(name, outputs) ==
    [name |-> name, region |-> "r",
     outputs |-> [o \in outputs |-> IF o = "Bucket" THEN "b" ELSE name \o o]]
WholeStack == DOMAIN ArnEnv \cup {"Bucket"}
Events ==
    [does : {"generate"}, upTo : {1, 2, 4}]
    \cup [does : {"remove"}, files : {{"ca.pem"}, {"ca.key", "client.key"}, {"client.pem"}, ToSet(IdentityFiles)}]
    \cup [does : {"save"}, stack : {Stack("t", WholeStack), Stack("u", WholeStack),
                                    Stack("u", WholeStack \ {"RoleArn"})}]
MCIdentityQuestions == [events : SeqsUpTo(Events, 4)]

Failed(name, status, code, errno) == [name |-> name, status |-> status, code |-> code, errno |-> errno]
NoErrno == "no errno"
MCErrorQuestions ==
    {Failed(name, status, name, NoErrno) :
        name \in UNION {row.names : row \in ToSet(RequestErrorTable)} \cup {"NoSuchKey", "AllAccessDisabled"},
        status \in {400, 403}}
    \cup {Failed("403", 403, Missing, NoErrno), Failed("NotFound", 404, Missing, NoErrno),
          Failed("TimeoutError", 0, Missing, "ETIMEDOUT"), Failed("TimeoutError", 0, Missing, NoErrno),
          Failed("Error", 0, Missing, "EACCES")}
    \cup {Failed("Error", 0, Missing, errno) : errno \in NetworkErrorCodes}

-----------------------------------------------------------------------------
(* DER: lengths and arcs about each boundary of their bytes.                *)

Der(of, values) == [of : {of}, value : values]
MCDerQuestions ==
    Der("length", {0, 1, 127, 128, 129, 255, 256, 257, 65535, 65536})
    \cup Der("integer", SeqsUpTo({0, 1, 127, 128, 255}, 3) \ {<<>>})
    \cup Der("oid", {EcdsaWithSha256, CommonName, BasicConstraints, KeyUsage, ExtKeyUsage, ClientAuth}
                       \cup {<<1, 2, arc>> : arc \in {0, 39, 127, 128, 16383, 16384}})
    \cup Der("usage", SUBSET (0 .. 8) \ {{}})
    \cup Der("identity", [random : {<<first, 0, 255>> : first \in {0, 63, 64, 127, 128, 255}},
                          year : {2026, 2038, 2039}])

-----------------------------------------------------------------------------
(* Instants about the ends of months, days and hours, in years about a      *)
(* century's.                                                               *)

MCInstantQuestions ==
    [year : {1900, 2000, 2023, 2024, 2100}, month : 0 .. 13, day : {0, 1, 28, 29, 30, 31, 32},
     hour : {0, 23, 24}, minute : {0, 59, 60}, second : {0, 59, 60}]

-----------------------------------------------------------------------------
(* Buckets of the keys of two sets and of keys that are no set's, with       *)
(* folders here that hold some of one set's snapshots.                       *)

BucketKeys ==
    {RemoteInfoKey("s"), RemoteInfoKey("t"), RemoteSnapshotKey("s", 1), RemoteSnapshotKey("s", 2),
     RemoteSnapshotKey("t", 1), <<Segment("s", ""), FolderMark>>,
     <<Segment("s", ""), Segment("old", ""), SnapshotFileName(3)>>,
     <<Segment("s", ""), Segment("2", ".tsv")>>, RemoteInfoKey("Photos"), RemoteInfoKey(""),
     RemoteSnapshotKey("Photos", 3), <<Segment("t", "")>>,
     <<Segment("t", InfoExt), SnapshotFileName(1)>>}
FolderEntries ==
    {[name |-> SnapshotFileName(m), isFile |-> TRUE] : m \in {1, 3}}
      \cup {[name |-> SnapshotFileName(1), isFile |-> FALSE],
            [name |-> Segment("2", ".tmp"), isFile |-> TRUE]}
Folders == {f \in SUBSET FolderEntries : \A d, e \in f : d.name = e.name => d = e}

ListingsOf(keys, folders, contents, damaged) ==
    [keys : keys, set : {"s"}, folder : folders, content : contents,
     records : [deleted : SUBSET {"h1", "h2"}, damaged : damaged], inStore : SUBSET {"h1", "h2"}]
MCListingQuestions ==
    [keys : SUBSET BucketKeys, set : {"s"}, folder : {{}},
     content : {[m \in Minutes |-> {}]}, records : {[deleted |-> {}, damaged |-> FALSE]}, inStore : {{}}]
    \cup ListingsOf(SUBSET {RemoteSnapshotKey("s", 1), RemoteSnapshotKey("s", 2)}, Folders,
                 [Minutes -> {{"h1"}, {"h1", "h2"}}], BOOLEAN)

\* Clocks about an hour that comes twice, or is set back.
MCClockQuestions == [reads : SeqsUpTo([instant : 1 .. 4, zone : 1 .. 2], 4)]

-----------------------------------------------------------------------------
(* Markers and locks of users whose names hold what the lines are made of.  *)

Owners == {<<"u", "@", "m">>, <<"u", "=", "v", "@", "m">>, <<"#", "u", "@", "m">>, <<"=", "@", "m">>}
Infos == [owner : Owners, claimed : {<<"t1">>, <<"t2">>}, created : {<<"t1">>}]
MCMarkerQuestions == [claim : Infos, marker : Infos, edited : Edits]

MCPids == {<<"7">>}
Hosts == [by : {<<"u", "=", "v", "@", "m">>, <<"u", "@", "m">>}, os : {<<"linux">>, <<"win32">>},
           pidns : {<<"pid:[1]">>, <<"pid:[2]">>, NoText}]
MCLockQuestions ==
    {[lock |-> [command |-> <<"backup">>, set |-> s, by |-> p.by, os |-> p.os, pidns |-> p.pidns,
                pid |-> pid, started |-> <<"t1">>],
      edited |-> e, here |-> here, alive |-> alive] :
        s \in {NoText, <<"s">>}, p \in Hosts, pid \in Pids \cup {NoText}, e \in Edits,
        here \in Hosts, alive \in {{}, Pids}}

Dirs == {<<"/", "a">>, <<"/", "#", "a">>, <<"/", "a", " ", "b">>}
SpacedDirs == Dirs \cup {<<"/", "a", " ">>}
Configs(dirs) == [dirs : SeqsUpTo(dirs, 3) \ {<<>>}, exclude : {NoText, <<>>, <<"#", "x", LF>>}]
MCConfigQuestions == Configs(SpacedDirs)

-----------------------------------------------------------------------------
(* What failed in two runs below two folders, and how it is spelled.        *)

OddNames == {<<"a">>, <<"*">>, <<"#", "a">>, <<" ", "a">>, <<"a", " ">>, <<"\\">>, <<"a", "\n">>, <<"?", "a">>}
Failing(roots, names, sep) ==
    {r \o <<sep>> \o rel \o end : r \in roots, end \in {<<>>, <<sep>>},
                                 rel \in names \cup {<<"b", sep>> \o n : n \in {<<"*">>, <<"#", "a">>}}}
\* Two that can fail in one run, one of which may have failed before as it is or
\* as the other kind.
Apart(p, q, sep) ==
    LET AsFolderOf(path) == IF path[Len(path)] = sep THEN path ELSE Append(path, sep)
    IN  ~IsPrefix(AsFolderOf(p), q) /\ ~IsPrefix(AsFolderOf(q), p) /\ AsFolderOf(p) # AsFolderOf(q)
Twin(p, sep) == IF p[Len(p)] = sep THEN SubSeq(p, 1, Len(p) - 1) ELSE Append(p, sep)
MCSuggestionQuestions ==
    LET posix == {<<"/", "r">>, <<"/", "*">>}
        windows == {<<"C", ":", "\\", "r">>, <<"\\", "\\", "s", "\\", "R", " ">>}
        RootLists(roots) == {<<r>> : r \in roots} \cup SetToSeqs(roots)
        Recurring(roots, failing, sep, escapes) ==
            UNION {{[roots |-> roots, errors |-> {p, q}, previous |-> {p}, escapes |-> escapes] :
                      q \in {o \in failing : o = p \/ (o[Len(o)] # sep /\ Apart(o, p, sep))}} : p \in failing}
            \cup {[roots |-> roots, errors |-> {p}, previous |-> {Twin(p, sep)}, escapes |-> escapes] : p \in failing}
    IN  UNION {Recurring(roots, Failing(ToSet(roots), OddNames, "/"), "/", TRUE) : roots \in RootLists(posix)}
        \cup UNION {Recurring(roots, Failing(ToSet(roots), OddNames \ {<<"\\">>}, "\\"), "\\", FALSE) :
                       roots \in RootLists(windows)}
============================================================================
