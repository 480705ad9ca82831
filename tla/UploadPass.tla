------------------------------ MODULE UploadPass ------------------------------
(***************************************************************************)
(* One machine's passes over a set of files other programs write           *)
(* (src/src/lib/upload.mjs, file-props.mjs, snapshot.mjs and putFile of    *)
(* s3.mjs): each file is looked at, hashed or its hash taken over from an  *)
(* earlier pass, looked at again and sent, in that order, row by row.      *)
(*                                                                         *)
(*   snapshot            hashes only                                       *)
(*   backup              hashes and sends, then publishes the snapshot     *)
(*   upload --snapshot   sends what the last snapshot recorded, then       *)
(*                       publishes it                                      *)
(*   upload --dir        hashes and sends, publishes nothing               *)
(*   upload --file       one file                                          *)
(*                                                                         *)
(* A step is what happens between two looks at the disk or the network.    *)
(* Writes by other programs come between any two steps, and in the middle  *)
(* of a read: what is read then may be a mixture, the content "torn",      *)
(* which nothing else hashes to.                                           *)
(***************************************************************************)
EXTENDS Naturals, Sequences

CONSTANTS
  N,         \* files of the set; the walk yields them as 1 .. N
  Contents,  \* what a file can hold, and by which hash
  Size,      \* the size of each content
  Part,      \* from this size on a file goes up in parts
  Times,     \* modification times, to the millisecond
  None,
  MaxClock,  \* bound: so many passes that take a snapshot
  MaxWrites  \* bound: so many writes by other programs

ASSUME UploadPassAssumption ==
  /\ N \in Nat /\ Part \in Nat
  /\ Size \in [Contents -> Nat]
  /\ \A c, d \in Contents : Size[c] = 0 /\ Size[d] = 0 => c = d  \* no bytes at all
  /\ "torn" \notin Contents
  /\ None \notin Contents \cup {"torn", "network", "file"} /\ None \notin 0 .. MaxClock
  /\ MaxClock \in Nat /\ MaxWrites \in Nat

Paths == 1 .. N

VARIABLES
  disk,      \* the file at each path: content, times, or None if it is gone
  wasThere,  \* history: each size and time a path has shown
  restored,  \* history: the paths that showed the same ones for new content
  clock,     \* moves on as a pass begins
  writes,    \* how often other programs have written
  checked,   \* S3CAB_CHECK_CHANGE_TIME
  objects,   \* the bytes under each hash in the bucket
  published, \* the snapshots in the bucket
  latest,    \* the newest local snapshot
  parked,    \* the rows an interrupted pass left
  run        \* the one at work

vars == <<disk, wasThere, restored, clock, writes, checked, objects, published,
          latest, parked, run>>
files == <<disk, wasThere, restored, clock, writes>>
remote == <<objects, published>>
local == <<latest, parked>>

\* statProps, the one reading of an lstat that rows and guard share.
StatProps(f) == [size |-> Size[f.content], mtime |-> f.mtime]

Hashes == Contents \cup {"torn"}
File == [content : Contents \cup {None}, mtime : Times, ctime : 0 .. MaxClock]
Sizes == {Size[c] : c \in Contents}
Row == [hash : Hashes, size : Sizes, mtime : Times]
Rows == UNION {[1 .. k -> Row \cup {None}] : k \in 0 .. N}
Snapshot == [rows : Rows, start : 0 .. MaxClock]

ASSUME NoneAssumption == None \notin Row

Modes == {"snapshot", "backup", "upload", "seed", "file"}
Reading == {"hash", "send"}

RunState ==
  [at : {"idle", "row", "hash", "offer", "confirmed", "send", "result"},
   mode : Modes,
   lookup : [Paths -> Row \cup {None}],
   boundary : 0 .. MaxClock \cup {None},
   since : 0 .. MaxClock,      \* when the pass whose rows these are started
   stored : SUBSET Hashes,     \* what needs no upload
   force : BOOLEAN,
   last : 0 .. N,              \* the last row
   rows : Rows,                \* the rows that have gone by
   row : Row \cup {None},      \* the one in hand
   span : SUBSET (Contents \cup {None}), \* what the file read has held meanwhile
   seen : SUBSET Hashes,
   drifted : SUBSET Paths,
   failure : {None, "network", "file"}]

TypeOK ==
  /\ disk \in [Paths -> File]
  /\ wasThere \in [Paths -> SUBSET [size : Sizes, mtime : Times]]
  /\ restored \in SUBSET Paths
  /\ clock \in 0 .. MaxClock /\ writes \in 0 .. MaxWrites /\ checked \in BOOLEAN
  /\ objects \in [Contents -> Hashes \cup {None}]
  /\ published \in SUBSET Rows
  /\ {latest, parked} \subseteq Snapshot \cup {None}
  /\ run \in RunState

NoLookup == [p \in Paths |-> None]
Idle == [at |-> "idle", mode |-> "snapshot", lookup |-> NoLookup,
         boundary |-> None, since |-> 0, stored |-> {}, force |-> FALSE,
         last |-> N, rows |-> <<>>, row |-> None, span |-> {}, seen |-> {},
         drifted |-> {}, failure |-> None]

\* The index of the row in hand: files are rows of their own place.
Here == IF run.mode = "file" THEN run.last ELSE Len(run.rows) + 1

Init ==
  /\ disk \in [Paths -> [content : Contents, mtime : Times, ctime : {0}]]
  /\ wasThere = [p \in Paths |-> {StatProps(disk[p])}]
  /\ restored = {} /\ clock = 0 /\ writes = 0 /\ checked \in BOOLEAN
  /\ objects = [h \in Contents |-> None] /\ published = {}
  /\ latest = None /\ parked = None
  /\ run = Idle

-----------------------------------------------------------------------------
(***************************************************************************)
(* Other programs, and another machine that uploads                        *)
(***************************************************************************)

\* A write or an unlink.  The modification time is the writer's to choose;
\* the change time is the clock's.
Write(p) ==
  \E c \in Contents \cup {None}, t \in Times :
    /\ writes < MaxWrites /\ writes' = writes + 1
    /\ c = None => t = disk[p].mtime
    /\ c # None \/ disk[p].content # None
    /\ disk' = [disk EXCEPT ![p] = [content |-> c, mtime |-> t, ctime |-> clock]]
    /\ IF c = None THEN UNCHANGED <<wasThere, restored>>
       ELSE LET now == StatProps(disk'[p]) IN
            /\ wasThere' = [wasThere EXCEPT ![p] = @ \cup {now}]
            /\ restored' = IF now \in wasThere[p] THEN restored \cup {p}
                                                  ELSE restored
    /\ run' = IF run.at \in Reading /\ Here = p
              THEN [run EXCEPT !.span = @ \cup {c}] ELSE run
    /\ UNCHANGED <<clock, checked, remote, local>>

\* Another upload stores the same content, under an upload lock of its own.
StoredElsewhere ==
  /\ run.at = "send" /\ run.row.hash \in Contents
  /\ objects[run.row.hash] = None
  /\ objects' = [objects EXCEPT ![run.row.hash] = run.row.hash]
  /\ UNCHANGED <<files, checked, published, local, run>>

-----------------------------------------------------------------------------
(***************************************************************************)
(* readBaseline, storedHashes                                              *)
(***************************************************************************)

\* A mutant of ParkedUsable that lays down any parked file.
ParkedAny == parked # None

\* readParkedLookup: one older than the latest snapshot is a leftover.
ParkedUsable ==
  parked # None /\ (latest # None => parked.start >= latest.start)

RowOf(s, p) == IF s # None /\ p \in DOMAIN s.rows THEN s.rows[p] ELSE None

\* The parked rows laid over the latest snapshot's.
Lookup ==
  [p \in Paths |->
     IF ParkedUsable /\ RowOf(parked, p) # None THEN RowOf(parked, p)
                                               ELSE RowOf(latest, p)]

\* trustBoundary: when the older of the passes that recorded the rows began,
\* and none without the opt-in.
TrustBoundary ==
  CASE ~checked -> None
    [] checked /\ latest # None -> latest.start
    [] checked /\ latest = None /\ ParkedUsable -> parked.start
    [] OTHER -> None

HashesOf(rows) == {rows[i].hash : i \in {j \in DOMAIN rows : rows[j] # None}}
InBucket == {h \in Contents : objects[h] # None}

\* storedHashes: the latest snapshot's hashes if the bucket has that very
\* snapshot, else a LIST.
StoredHashes ==
  IF latest # None /\ latest.rows \in published THEN HashesOf(latest.rows)
                                                ELSE InBucket

BeginPass(mode) ==
  /\ run.at = "idle"
  /\ clock < MaxClock /\ clock' = clock + 1
  /\ \E rehash \in BOOLEAN :
       run' = [Idle EXCEPT !.at = "row", !.mode = mode, !.since = clock',
                 !.lookup = IF rehash THEN NoLookup ELSE Lookup,
                 !.boundary = IF rehash THEN None ELSE TrustBoundary,
                 !.stored = IF mode = "backup" THEN StoredHashes ELSE {}]
  /\ UNCHANGED <<disk, wasThere, restored, writes, checked, remote, local>>

BeginUpload ==
  /\ run.at = "idle"
  /\ latest # None
  /\ run' = [Idle EXCEPT !.at = "row", !.mode = "upload", !.since = latest.start,
                         !.stored = InBucket]
  /\ UNCHANGED <<files, checked, remote, local>>

\* uploadDir, and uploadFile: neither has a skip-list.
BeginSeed ==
  /\ run.at = "idle"
  /\ \/ run' = [Idle EXCEPT !.at = "row", !.mode = "seed", !.since = clock]
     \/ \E p \in Paths, force \in BOOLEAN :
          run' = [Idle EXCEPT !.at = "row", !.mode = "file", !.since = clock,
                              !.last = p, !.force = force]
  /\ UNCHANGED <<files, checked, remote, local>>

-----------------------------------------------------------------------------
(***************************************************************************)
(* A row                                                                   *)
(***************************************************************************)
MoreRows == run.at = "row" /\ Here <= run.last
\* uploadFile has one row, which ends it.
RowDone(row) ==
  IF run.mode = "file" THEN [run EXCEPT !.at = "result", !.row = None, !.span = {}]
  ELSE [run EXCEPT !.at = "row", !.rows = Append(@, row), !.row = None, !.span = {}]

\* A mutant of TrustMatch that trusts a file changed as the run started.
TrustMatchLate(f, boundary) == boundary # None => f.ctime <= boundary

\* trustMatch: with the opt-in, no change since the run that recorded it began.
TrustMatch(f, boundary) == boundary # None => f.ctime < boundary

\* A mutant of Matches that goes by the size alone.
MatchesSize(row, f) ==
  /\ row # None
  /\ row.size = StatProps(f).size
  /\ TrustMatch(f, run.boundary)

Matches(row, f) ==
  /\ row # None
  /\ [size |-> row.size, mtime |-> row.mtime] = StatProps(f)
  /\ TrustMatch(f, run.boundary)

\* fileProps: one lstat, and the stored hash if nothing has changed by it.
Reuse ==
  /\ MoreRows /\ run.mode # "upload"
  /\ disk[Here].content # None
  /\ Matches(run.lookup[Here], disk[Here])
  /\ run' = [run EXCEPT !.at = "offer", !.row = run.lookup[Here]]
  /\ UNCHANGED <<files, checked, remote, local>>

StartHash ==
  /\ MoreRows /\ run.mode # "upload"
  /\ disk[Here].content # None
  /\ ~Matches(run.lookup[Here], disk[Here])
  /\ LET now == StatProps(disk[Here]) IN
     run' = [run EXCEPT !.at = "hash", !.span = {disk[Here].content},
                        !.row = [hash |-> "torn", size |-> now.size, mtime |-> now.mtime]]
  /\ UNCHANGED <<files, checked, remote, local>>

\* uploadFile throws; any other pass has an #error row and goes on.
Unhashed == IF run.mode = "file" THEN Idle ELSE RowDone(None)

\* No file there.
Unhashable ==
  /\ MoreRows /\ run.mode # "upload"
  /\ disk[Here].content = None
  /\ run' = Unhashed
  /\ UNCHANGED <<files, checked, remote, local>>

\* What a read gets while the file held span: one of them, or a mixture.
\* None is an open that came too late.
Got(span) == span \cup {g \in {"torn"} : \E c, d \in span \ {None} : c # d}

Lengths(got) == IF got = "torn" THEN {Size[c] : c \in run.span \ {None}}
                                ELSE {Size[got]}

\* An empty file is not read at all.
Read == IF run.row.size = 0 THEN {c \in Contents : Size[c] = 0} ELSE Got(run.span)

\* Bytes of another length than the lstat's are refused.
Hash ==
  /\ run.at = "hash"
  /\ \E got \in Read :
       run' = IF got # None /\ run.row.size \in Lengths(got)
              THEN [run EXCEPT !.at = "offer", !.span = {}, !.row.hash = got]
              ELSE Unhashed
  /\ UNCHANGED <<files, checked, remote, local>>

\* upload --snapshot: the row is the snapshot's.
ReadRow ==
  /\ MoreRows /\ run.mode = "upload"
  /\ LET row == latest.rows[Here] IN
     run' = IF row = None THEN RowDone(None)
            ELSE [run EXCEPT !.at = "offer", !.row = row]
  /\ UNCHANGED <<files, checked, remote, local>>

-----------------------------------------------------------------------------
(***************************************************************************)
(* uploadObjects: the row goes past                                        *)
(***************************************************************************)
Wanted ==
  /\ run.mode # "snapshot"
  /\ run.row.hash \notin run.stored \cup run.seen

\* fileChange: the lstat before the PUT.
FileChange ==
  disk[Here].content # None =>
    StatProps(disk[Here]) # [size |-> run.row.size, mtime |-> run.row.mtime]

\* A mutant of Drifts that forgets to name the file.
DriftsUnnamed(r) == r

Drifts(r) == [r EXCEPT !.drifted = @ \cup {Here}]

Seen(r) == [r EXCEPT !.seen = @ \cup {run.row.hash}]

PassOn ==
  /\ run.at = "offer"
  /\ \/ ~Wanted /\ run' = RowDone(run.row)
     \/ /\ Wanted /\ run.failure # None
        /\ run' = Seen(RowDone(run.row))
     \/ /\ Wanted /\ run.failure = None /\ FileChange
        /\ run' = Drifts(Seen(RowDone(run.row)))
  /\ UNCHANGED <<files, checked, remote, local>>

Confirm ==
  /\ run.at = "offer"
  /\ Wanted /\ run.failure = None /\ ~FileChange
  /\ run' = [Seen(run) EXCEPT !.at = "confirmed"]
  /\ UNCHANGED <<files, checked, remote, local>>

\* The first failure stops every later transfer; the rows go on.
Fails(why) == [RowDone(run.row) EXCEPT !.failure = why]

\* putFile: a stat, and one HEAD if the file will go up in parts.
StartSend ==
  /\ run.at = "confirmed"
  /\ LET f == disk[Here]
         parts == ~run.force /\ f.content # None /\ Size[f.content] >= Part
     IN \/ f.content = None /\ run' = Fails("file")
        \/ parts /\ run' = Fails("network")
        \/ /\ parts /\ run.row.hash \in InBucket
           /\ run' = RowDone(run.row)
        \/ /\ f.content # None /\ ~(parts /\ run.row.hash \in InBucket)
           /\ run' = [run EXCEPT !.at = "send", !.span = {f.content}]
  /\ UNCHANGED <<files, checked, remote, local>>

\* A mutant of SentIsRecorded that sends without the digest.
SentIsAnything(got) == TRUE

\* The digest of the bytes that went by is the row's.  No mixture comes out
\* the same twice.
SentIsRecorded(got) == got # "torn" /\ got = run.row.hash

\* The conditional PUT, or the completion of the parts: 412 if there is an
\* object.  Its answer may be lost, and met again as a 412.
PutObject(got) ==
  \/ /\ run.row.hash \in InBucket /\ ~run.force
     /\ run' = RowDone(run.row) /\ UNCHANGED objects
  \/ /\ run.row.hash \notin InBucket \/ run.force
     /\ objects' = [objects EXCEPT ![run.row.hash] = got]
     /\ run' \in {RowDone(run.row), Fails("network")}
  \/ run' = Fails("network") /\ UNCHANGED objects

\* The body ends; the digest is compared before the upload completes.
Send ==
  /\ run.at = "send"
  /\ \E got \in Got(run.span) :
       \/ got = None /\ run' = Fails("file") /\ UNCHANGED objects
       \/ /\ got # None /\ ~SentIsRecorded(got)
          /\ run' \in {Drifts(RowDone(run.row)), Fails("network")}
          /\ UNCHANGED objects
       \/ got # None /\ SentIsRecorded(got) /\ PutObject(got)
  /\ UNCHANGED <<files, checked, published, local>>

-----------------------------------------------------------------------------
(***************************************************************************)
(* The end of a pass                                                       *)
(***************************************************************************)
\* The snapshot lands whatever became of the transfers; the parked file goes,
\* if it can.
Land ==
  /\ run.at = "row" /\ Here > run.last
  /\ run' = [run EXCEPT !.at = "result"]
  /\ IF run.mode \in {"snapshot", "backup"}
     THEN /\ latest' = [rows |-> run.rows, start |-> run.since]
          /\ parked' \in {parked, None}
     ELSE UNCHANGED local
  /\ UNCHANGED <<files, checked, remote>>

\* A mutant of Succeeds that asks only for the transfers.
SucceedsDespiteDrift == run.failure = None

\* uploadSet, uploadSnapshot: a failure or a drift publishes nothing.
Succeeds == run.failure = None /\ run.drifted = {}

Publish ==
  /\ run.at = "result" /\ run.mode \in {"backup", "upload"} /\ Succeeds
  /\ published' = published \cup {run.rows}
  /\ run' = Idle
  /\ UNCHANGED <<files, checked, objects, local>>

\* The end of every other pass; of a publication refused; of a process killed,
\* whose rows the next run finds if a person lets it (--resume).
End ==
  /\ run.at # "idle"
  /\ run' = Idle
  /\ IF run.mode \in {"snapshot", "backup"} /\ run.at # "result"
     THEN \E k \in 0 .. Len(run.rows) :
            parked' \in {parked, [rows |-> SubSeq(run.rows, 1, k), start |-> run.since]}
     ELSE UNCHANGED parked
  /\ UNCHANGED <<files, checked, remote, latest>>

Next ==
  \/ (\E p \in Paths : Write(p)) \/ StoredElsewhere
  \/ BeginPass("snapshot") \/ BeginPass("backup") \/ BeginUpload \/ BeginSeed
  \/ Reuse \/ StartHash \/ Unhashable \/ Hash \/ ReadRow
  \/ PassOn \/ Confirm \/ StartSend \/ Send
  \/ Land \/ Publish \/ End

Spec == Init /\ [][Next]_vars

-----------------------------------------------------------------------------
(***************************************************************************)
(* Properties                                                              *)
(***************************************************************************)

\* What is stored under a hash hashes to it, whatever happens to the file
\* between its lstat, its hash, the guard and the end of its transfer.
BytesMatchHash == \A h \in Contents : objects[h] \in {h, None}

\* A snapshot in the bucket has an object behind every row.
PublishedStored ==
  \A rows \in published : HashesOf(rows) \subseteq InBucket

\* To the bucket the passes of one machine, and whoever uploads beside it, only
\* ever add content, and a snapshot once all of its content is there.
Bucket == INSTANCE KeptContent
            WITH Hashes <- Contents, stored <- InBucket, recorded <- {},
                 snapshots <- {HashesOf(rows) : rows \in published}
ImplementsBucket == Bucket!Spec

\* A program put a file's size and time back, and the set has not opted in to
\* the check of the change time: what nobody notices.
Unnoticed(p) == p \in restored /\ ~checked

\* While the bucket has the latest snapshot, each file that nobody has changed
\* since that backup began has a row there, and the object behind it is what the
\* file holds.
BackupHoldsTheFiles ==
  latest # None /\ latest.rows \in published =>
    \A p \in Paths :
      disk[p].content # None /\ disk[p].ctime < latest.start /\ ~Unnoticed(p) =>
        /\ RowOf(latest, p) # None
        /\ objects[RowOf(latest, p).hash] = disk[p].content

\* A hash taken over from an earlier pass is the hash of what the file holds
\* now, however many passes stopped half-way since, unless it is unnoticed.
ReusedIsCurrent ==
  [][Reuse => Unnoticed(Here) \/ run'.row.hash = disk[Here].content]_vars

\* A file is refused for a change only if it was changed after the pass that
\* recorded its row began: no pass fails over a row of an earlier one.
DriftIsOfThisPass ==
  \A p \in run.drifted : Unnoticed(p) \/ disk[p].ctime >= run.since

\* A seed that succeeds has stored each file it hashed, or names a file of the
\* same content among those it skipped.
SeedStoredOrNamed ==
  run.at = "result" /\ run.mode = "seed" /\ run.failure = None =>
    \A i \in DOMAIN run.rows :
      \/ run.rows[i] = None
      \/ run.rows[i].hash \in InBucket
      \/ \E j \in run.drifted : run.rows[j].hash = run.rows[i].hash

\* A seed that succeeds names every file it has not stored.
SeedNamesEverySkip ==
  run.at = "result" /\ run.mode = "seed" /\ run.failure = None =>
    \A i \in DOMAIN run.rows :
      \/ run.rows[i] = None
      \/ run.rows[i].hash \in InBucket
      \/ i \in run.drifted

===============================================================================
