------------------------------ MODULE Listings ------------------------------
(***************************************************************************)
(* What the keys below "snapshots/" are read as: which sets a bucket has,  *)
(* which snapshots a set has there and here, what a refresh pulls          *)
(* (lib/set-marker.mjs, lib/remote.mjs, lib/snapshot-file.mjs), and what   *)
(* status says of the two (commands/status.mjs).                           *)
(*                                                                         *)
(* A key is the sequence of what lies between its separators, past         *)
(* "snapshots/".  Each is a name and an extension; a moment's name is the  *)
(* number of its minute, in the order in which such names sort, and the    *)
(* name of anything else is a string.                                      *)
(***************************************************************************)
EXTENDS SequencesExt, Integers

CONSTANTS Canonical,  \* the strings that are names of sets: [a-z0-9-]+
          Minutes     \* the names that are moments

ASSUME MinutesAssumption == Minutes \subseteq Nat \ {0}

\* A name or an extension that isn't there.
NoPart == ""

\* No set's name is empty, or holds a space.
ASSUME CanonicalAssumption == NoPart \notin Canonical /\ "no set" \notin Canonical

SnapshotExt == ".tsv.gz"
InfoExt == ".info"
Segment(name, ext) == [name |-> name, moment |-> 0, ext |-> ext]
MomentSegment(minute, ext) == [name |-> NoPart, moment |-> minute, ext |-> ext]
FolderMark == Segment(NoPart, NoPart)

SnapshotFileName(minute) == MomentSegment(minute, SnapshotExt)

RemoteInfoKey(set) == <<Segment(set, InfoExt)>>
RemoteSnapshotKey(set, minute) == <<Segment(set, NoPart), SnapshotFileName(minute)>>

NotAKey == [set |-> "no set", file |-> <<>>]

\* A set's marker, or a key under its folder with the file below it.
ParseSnapshotsKey(key) ==
    IF key[1].name \notin Canonical THEN NotAKey
    ELSE IF Len(key) = 1 /\ key[1].ext = InfoExt THEN [set |-> key[1].name, file |-> <<>>]
    ELSE IF Len(key) > 1 /\ key[1].ext = NoPart THEN [set |-> key[1].name, file |-> Tail(key)]
    ELSE NotAKey

\* A listing's keys, and a folder's entries, are finitely many and named so.
IsSegment(s) ==
    s \in {Segment(s.name, s.ext), MomentSegment(s.moment, s.ext)} /\ s.moment \in Nat
IsKey(key) == key \in Seq(ToSet(key)) /\ key # <<>> /\ \A s \in ToSet(key) : IsSegment(s)
IsListing(keys) == IsFiniteSet(keys) /\ \A key \in keys : IsKey(key)
IsFolder(folder) ==
    /\ IsFiniteSet(folder)
    /\ \A e \in folder : /\ e = [name |-> e.name, isFile |-> e.isFile]
                          /\ IsSegment(e.name) /\ e.isFile \in BOOLEAN

\* The moments, newest first.
NewestFirst(minutes) ==
    CHOOSE s \in [1 .. Cardinality(minutes) -> minutes] :
        \A i, j \in DOMAIN s : i < j => s[i] > s[j]

\* The snapshots among the files below a set's folder.
SnapshotNames(files) ==
    NewestFirst({file[1].moment : file \in
                    {f \in files : Len(f) = 1 /\ f[1].ext = SnapshotExt /\ f[1].moment \in Minutes}})

\* A local folder is a set of [name, isFile].
ListSnapshotNames(folder) == SnapshotNames({<<e.name>> : e \in {f \in folder : f.isFile}})

-----------------------------------------------------------------------------
(* The listings of a bucket.                                               *)

ListRemoteSnapshots(keys, set) ==
    SnapshotNames({Tail(k) : k \in {j \in keys : Len(j) > 1 /\ j[1] = Segment(set, NoPart)}})

SetKeys(keys) == {ParseSnapshotsKey(k) : k \in keys} \ {NotAKey}

ListRemoteSets(keys) == {entry.set : entry \in SetKeys(keys)}

\* A set is listed with the files below its folder, and without any too.
ListSnapshotFiles(keys) ==
    [set \in ListRemoteSets(keys) |->
        {entry.file : entry \in {e \in SetKeys(keys) : e.set = set}} \ {<<>>, <<FolderMark>>}]

\* The snapshots a scan of the bucket reads, set by set.
ScannedSnapshots(keys) ==
    LET listing == ListSnapshotFiles(keys)
    IN  [set \in DOMAIN listing |-> SnapshotNames(listing[set])]

-----------------------------------------------------------------------------
(* The bucket and this machine.                                            *)

\* Each snapshot not here yet, newest first, under the name it has there; a
\* folder of that name stops it.
DownloadRemoteSnapshots(keys, set, folder) ==
    LET here == ToSet(ListSnapshotNames(folder))
        wanted == NewestFirst(ToSet(ListRemoteSnapshots(keys, set)) \ here)
        InTheWay(m) == [name |-> SnapshotFileName(m), isFile |-> FALSE] \in folder
        blocked == {i \in DOMAIN wanted : InTheWay(wanted[i])}
        pulled == SubSeq(wanted, 1, IF blocked = {} THEN Len(wanted) ELSE Min(blocked) - 1)
    IN  [failed |-> blocked # {},
         pulled |-> Len(pulled),
         folder |-> folder \cup {[name |-> SnapshotFileName(m), isFile |-> TRUE] : m \in ToSet(pulled)}]

\* The contents to send, of a snapshot's contents.
PlanUpload(target, stored) == target \ stored

\* A snapshot's contents, less those the deletion records name and the store
\* lacks.
GetUndeletedHashes(entries, deleted, inStore) == entries \ (deleted \ inStore)

Status(keys, set, folder, content, records, inStore) ==
    LET here == ListSnapshotNames(folder)
        there == ListRemoteSnapshots(keys, set)
        lookup == IF there = <<>> THEN {} ELSE content[there[1]]
        stored == IF records.damaged THEN inStore
                  ELSE GetUndeletedHashes(lookup, records.deleted, inStore)
    IN  IF here = <<>> THEN [refused |-> "no snapshot"]
        ELSE [snapshot |-> here[1],
              snapshotBackedUp |-> here[1] \in ToSet(there),
              backedUp |-> there,
              toUpload |-> PlanUpload(content[here[1]], stored)]

-----------------------------------------------------------------------------
(* The clock that names snapshots: local, so it may go back.               *)

\* A clock read is the instant and what the zone adds to it.
IsClock(reads) ==
    /\ reads \in Seq(ToSet(reads))
    /\ \A read \in ToSet(reads) : read.instant \in Int /\ read.zone \in Int
LocalMoment(read) == [name |-> read.instant + read.zone, instant |-> read.instant]

ClockWentBack(name, previous) == previous # <<>> /\ name < previous[1]

\* The names of the snapshots some runs left.
Left(runs) == {runs[k].name : k \in {j \in DOMAIN runs : ~runs[j].refused}}

\* A run named by its clock: refused over a name that is there.
RunAt(read, before) ==
    LET names == NewestFirst(Left(before))
        moment == LocalMoment(read)
    IN  [name |-> moment.name, instant |-> moment.instant,
         refused |-> moment.name \in ToSet(names),
         warned |-> ClockWentBack(moment.name, names)]

\* Runs in turn.
RunsOf(reads) ==
    LET after[n \in 0 .. Len(reads)] ==
            IF n = 0 THEN <<>> ELSE Append(after[n - 1], RunAt(reads[n], after[n - 1]))
    IN  after[Len(reads)]

-----------------------------------------------------------------------------
(* What the listings promise.                                              *)

\* Each set is scanned with exactly the snapshots its own listing has, and a
\* set is what has a marker or a key in a folder of its name.
ScanIsWhole(keys, sets, scanned, listed) ==
    /\ DOMAIN scanned = sets
    /\ \A set \in Canonical :
          /\ set \in sets <=> \/ RemoteInfoKey(set) \in keys
                              \/ \E k \in keys : Len(k) > 1 /\ k[1] = Segment(set, NoPart)
          /\ ToSet(listed[set])
                = {m \in Minutes : RemoteSnapshotKey(set, m) \in keys}
          /\ set \in sets => scanned[set] = listed[set]
    /\ sets \subseteq Canonical

\* A refresh leaves here every snapshot of either side, and touches no file that
\* was here; one that is stopped says so, and leaves the newest ones.
RefreshedIsBoth(folder, listed, download) ==
    LET before == ToSet(ListSnapshotNames(folder))
        now == ToSet(ListSnapshotNames(download.folder))
        new == now \ before
    IN  /\ folder \subseteq download.folder
        /\ Cardinality(new) = download.pulled
        /\ new \subseteq ToSet(listed)
        /\ \A m \in new, l \in ToSet(listed) \ now : m > l
        /\ ~download.failed => now = before \cup ToSet(listed)

\* Of a bucket whose newest snapshot has each content stored or deleted on
\* record, status counts every content that the store lacks of the newest
\* snapshot here, and none that both the store and that snapshot have.
StatusIsTrue(status, target, newest, records, inStore) ==
    newest \subseteq inStore \cup records.deleted =>
        /\ target \ inStore \subseteq status.toUpload
        /\ status.toUpload \cap newest \cap inStore = {}
        /\ records.damaged => status.toUpload = target \ inStore

\* The newest by name is the last run's, or that run was told it isn't.
LatestIsLastOrTold(runs) ==
    \A n \in DOMAIN runs :
        LET names == {runs[k].name : k \in {j \in 1 .. n : ~runs[j].refused}}
        IN  ~runs[n].refused => (runs[n].warned <=> runs[n].name # Max(names))
============================================================================
