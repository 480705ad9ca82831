----------------------------- MODULE Repository -----------------------------
(***************************************************************************)
(* The repository in one bucket: its objects, its snapshots and its record *)
(* of deletions, with the runs that change them.                           *)
(*                                                                         *)
(*   backup, upload    objects first, then the snapshot                    *)
(*                       (src/src/lib/upload.mjs)                          *)
(*   forget            removes snapshots, takes no lock                    *)
(*                       (src/src/commands/forget.mjs)                     *)
(*   cleanup           scans with no lock, removes under one               *)
(*                       (src/src/lib/cleanup.mjs, bucket-scan.mjs)        *)
(*   delete            records, then removes content by hash               *)
(*                       (src/src/lib/delete.mjs)                          *)
(*                                                                         *)
(* The locks are taken here as what BucketLocks shows them to be.  A       *)
(* snapshot is the set of hashes its rows reference, and that set also     *)
(* stands for its bytes and its ETag.  The record of deletions is one set  *)
(* of hashes; DeletionRecords has the files it is kept in.                 *)
(***************************************************************************)
EXTENDS FiniteSets

CONSTANTS
  Hashes,
  Names,      \* snapshot names
  Uploaders,  \* runs of backup and upload
  Cleaners,   \* runs of cleanup
  Deleters,   \* runs of delete
  NoSnapshot, \* no snapshot of a name in the bucket
  NoName,     \* the name of an upload that publishes no snapshot
  SameBytesReturn \* may a snapshot a cleanup has listed be forgotten and then
                  \* published again unchanged before that cleanup ends?

ASSUME RepositoryAssumption ==
  /\ Uploaders \cap Cleaners = {} /\ Uploaders \cap Deleters = {}
  /\ Cleaners \cap Deleters = {}
  /\ \A bytes \in SUBSET Hashes : NoSnapshot # bytes
  /\ NoName \notin Names
  /\ SameBytesReturn \in BOOLEAN

VARIABLES
  store,     \* the hashes with an object in the bucket
  snaps,     \* the snapshot in the bucket under each name
  recorded,  \* the hashes some deletion record row names
  uploading, \* the runs at work under an upload lock
  deleting,  \* the runs at work under a delete lock
  up, cl, de \* the state of each run

vars == <<store, snaps, recorded, uploading, deleting, up, cl, de>>
bucket == <<store, snaps, recorded>>

Locks == INSTANCE UploadDeleteExclusion
           WITH Uploads <- Uploaders, Deletes <- Cleaners \cup Deleters
held == <<uploading, deleting>>

Bytes == SUBSET Hashes
Listing == [Names -> {NoSnapshot} \cup Bytes]

UpState == [at : {"idle", "skiplist", "records", "send", "done"},
            name : Names \cup {NoName},
            content : Bytes,   \* what the rows reference
            known : Bytes]     \* what of it needs no upload

ClState == [at : {"idle", "read", "records", "confirm", "topup", "reread",
                  "delete"},
            listed : Listing,        \* the LIST of snapshots/, with ETags
            unread : SUBSET Names,   \* what it has listed and is to read
            refs : Bytes,            \* referenced, as far as it has read
            stored : Bytes,          \* the LIST of objects/
            orphans : Bytes]         \* the plan

DeState == [at : {"idle", "confirm", "record", "remove"},
            found : Bytes]     \* what the preflight HEADs found

TypeOK ==
  /\ store \in Bytes
  /\ snaps \in Listing
  /\ recorded \in Bytes
  /\ uploading \subseteq Uploaders
  /\ deleting \subseteq Cleaners \cup Deleters
  /\ up \in [Uploaders -> UpState]
  /\ cl \in [Cleaners -> ClState]
  /\ de \in [Deleters -> DeState]

Published == {n \in Names : snaps[n] # NoSnapshot}
Referenced(listing, names) ==
  UNION {listing[n] : n \in {m \in names : listing[m] # NoSnapshot}}

IdleUp == [at |-> "idle", name |-> NoName, content |-> {}, known |-> {}]
IdleCl == [at |-> "idle", listed |-> [n \in Names |-> NoSnapshot],
           unread |-> {}, refs |-> {}, stored |-> {}, orphans |-> {}]
IdleDe == [at |-> "idle", found |-> {}]

Init ==
  /\ store = {} /\ recorded = {}
  /\ snaps = [n \in Names |-> NoSnapshot]
  /\ Locks!Init
  /\ up = [u \in Uploaders |-> IdleUp]
  /\ cl = [c \in Cleaners |-> IdleCl]
  /\ de = [d \in Deleters |-> IdleDe]

-----------------------------------------------------------------------------
(***************************************************************************)
(* backup and upload: uploadSet, uploadSnapshot, uploadDir                 *)
(***************************************************************************)

\* The lock is taken before anything that decides what to skip.  With a name
\* the run will publish content under it; without one it only stores objects.
BeginUpload(u, n, content) ==
  /\ up[u].at = "idle"
  /\ Locks!StartUpload(u)
  /\ up' = [up EXCEPT ![u] = [IdleUp EXCEPT !.at = "skiplist", !.name = n,
                                            !.content = content]]
  /\ UNCHANGED <<bucket, cl, de>>

\* A baseline counts only while the bucket has it byte for byte.
MatchBaseline(u, b) ==
  /\ up[u].at = "skiplist"
  /\ up[u].name # NoName
  /\ b \in Published
  /\ up' = [up EXCEPT ![u].at = "records",
                      ![u].known = snaps[b] \cap up[u].content]
  /\ UNCHANGED <<bucket, held, cl, de>>

\* getUndeletedHashes: a recorded hash is doubted, and a HEAD decides.
SubtractDeleted(u) ==
  /\ up[u].at = "records"
  /\ up' = [up EXCEPT ![u].at = "send",
                      ![u].known = @ \ (recorded \ store)]
  /\ UNCHANGED <<bucket, held, cl, de>>

\* No baseline to trust, or no valid record to check it with: LIST objects/.
ListStore(u) ==
  /\ up[u].at \in {"skiplist", "records"}
  /\ up[u].name # NoName
  /\ up' = [up EXCEPT ![u].at = "send", ![u].known = store \cap up[u].content]
  /\ UNCHANGED <<bucket, held, cl, de>>

\* uploadDir skips nothing: each PUT asks for itself.
SkipNothing(u) ==
  /\ up[u].at = "skiplist"
  /\ up[u].name = NoName
  /\ up' = [up EXCEPT ![u].at = "send"]
  /\ UNCHANGED <<bucket, held, cl, de>>

\* uploadObjects, one conditional PUT; a 412 says the object is there.
SendObject(u, h) ==
  /\ up[u].at = "send"
  /\ h \in up[u].content \ up[u].known
  /\ store' = store \cup {h}
  /\ up' = [up EXCEPT ![u].known = @ \cup {h}]
  /\ UNCHANGED <<snaps, recorded, held, cl, de>>

\* Bound, unless SameBytesReturn: no snapshot comes back as the bytes a
\* cleanup at work has listed.
NotAsListed(n, content) ==
  \/ SameBytesReturn
  \/ snaps[n] = content
  \/ \A c \in Cleaners : cl[c].listed[n] # content

\* uploadSnapshotFile: a no-overwrite PUT once every object is up.  A name
\* taken is an error, or success if it holds the very bytes.
Publish(u) ==
  /\ up[u].at = "send"
  /\ up[u].name # NoName
  /\ up[u].content \subseteq up[u].known
  /\ NotAsListed(up[u].name, up[u].content)
  /\ snaps' = [snaps EXCEPT ![up[u].name] =
                 IF @ = NoSnapshot THEN up[u].content ELSE @]
  /\ up' = [up EXCEPT ![u] = [IdleUp EXCEPT !.at = "done"]]
  /\ UNCHANGED <<store, recorded, held, cl, de>>

\* The run ends, fails (a transfer, a file that changed) or crashes.
EndUpload(u) ==
  /\ Locks!EndUpload(u)
  /\ up' = [up EXCEPT ![u] = IdleUp]
  /\ UNCHANGED <<bucket, cl, de>>

-----------------------------------------------------------------------------
\* One DELETE of forget's.
Forget(n) ==
  /\ n \in Published
  /\ snaps' = [snaps EXCEPT ![n] = NoSnapshot]
  /\ UNCHANGED <<store, recorded, held, up, cl, de>>

-----------------------------------------------------------------------------
(***************************************************************************)
(* cleanup: scanBucket                                                     *)
(***************************************************************************)
ListSnapshots(c) ==
  /\ cl[c].at = "idle"
  /\ cl' = [cl EXCEPT ![c] = [IdleCl EXCEPT !.at = "read", !.listed = snaps,
                                            !.unread = Published]]
  /\ UNCHANGED <<bucket, held, up, de>>

\* One GET, of the scan or the top-up.  A snapshot gone since the LIST is
\* skipped.
ReadSnapshot(c, n) ==
  /\ cl[c].at \in {"read", "reread"}
  /\ n \in cl[c].unread
  /\ cl' = [cl EXCEPT ![c].unread = @ \ {n},
                      ![c].refs = @ \cup Referenced(snaps, {n})]
  /\ UNCHANGED <<bucket, held, up, de>>

ListObjects(c) ==
  /\ cl[c].at = "read"
  /\ cl[c].unread = {}
  /\ cl' = [cl EXCEPT ![c].at = "records", ![c].stored = store]
  /\ UNCHANGED <<bucket, held, up, de>>

\* The records last; then planCleanup.  An object missing with no row to
\* explain it refuses the run.
ReadRecordsAndPlan(c) ==
  /\ cl[c].at = "records"
  /\ cl[c].refs \ cl[c].stored \subseteq recorded
  /\ cl' = [cl EXCEPT ![c].at = "confirm", ![c].stored = {},
                      ![c].orphans = cl[c].stored \ cl[c].refs]
  /\ UNCHANGED <<bucket, held, up, de>>

-----------------------------------------------------------------------------
(***************************************************************************)
(* cleanup: reclaim, under the delete lock                                 *)
(***************************************************************************)
\* A mutant of TakeCleanupLock that goes on without a lock.
TakeNoLock(c) ==
  /\ cl[c].at = "confirm"
  /\ cl' = [cl EXCEPT ![c].at = "topup"]
  /\ UNCHANGED <<bucket, held, up, de>>

TakeCleanupLock(c) ==
  /\ cl[c].at = "confirm"
  /\ Locks!StartDelete(c)
  /\ cl' = [cl EXCEPT ![c].at = "topup"]
  /\ UNCHANGED <<bucket, up, de>>

\* A mutant of NewSnapshots that goes by the key alone.
NewKeys(c) == {n \in Published : cl[c].listed[n] = NoSnapshot}

\* readNewSnapshots: a key the scan's LIST lacked, or had with another ETag.
NewSnapshots(c) == {n \in Published : snaps[n] # cl[c].listed[n]}

ListAgain(c) ==
  /\ cl[c].at = "topup"
  /\ cl' = [cl EXCEPT ![c].at = "reread", ![c].unread = NewSnapshots(c),
                      ![c].listed = IdleCl.listed]
  /\ UNCHANGED <<bucket, held, up, de>>

TopUp(c) ==
  /\ cl[c].at = "reread"
  /\ cl[c].unread = {}
  /\ cl' = [cl EXCEPT ![c].at = "delete", ![c].orphans = @ \ cl[c].refs]
  /\ UNCHANGED <<bucket, held, up, de>>

\* deleteStoredObjects, one DELETE.
DeleteOrphan(c, h) ==
  /\ cl[c].at = "delete"
  /\ h \in cl[c].orphans
  /\ store' = store \ {h}
  /\ cl' = [cl EXCEPT ![c].orphans = @ \ {h}]
  /\ UNCHANGED <<snaps, recorded, held, up, de>>

\* compactDeletionRecords, one DELETE: some of the rows nothing references go
\* (DeletionRecords has the files, RecordedDeletions what they promise).
Compact(c, rows) ==
  /\ cl[c].at = "delete"
  /\ cl[c].orphans = {}
  /\ rows \cap cl[c].refs = {}
  /\ recorded' = recorded \ rows
  /\ UNCHANGED <<store, snaps, held, up, cl, de>>

\* The run ends, refuses, is declined or crashes.
EndCleanup(c) ==
  /\ cl[c].at # "idle"
  /\ \/ Locks!EndDelete(c)
     \/ c \notin deleting /\ UNCHANGED held
  /\ cl' = [cl EXCEPT ![c] = IdleCl]
  /\ UNCHANGED <<bucket, up, de>>

-----------------------------------------------------------------------------
(***************************************************************************)
(* delete: deleteHashes, deleteContent                                     *)
(***************************************************************************)

\* The preflight HEADs keep what is stored; then a person confirms.
Preflight(d, hs) ==
  /\ de[d].at = "idle"
  /\ hs \cap store # {}
  /\ de' = [de EXCEPT ![d] = [at |-> "confirm", found |-> hs \cap store]]
  /\ UNCHANGED <<bucket, held, up, cl>>

TakeDeleteLock(d) ==
  /\ de[d].at = "confirm"
  /\ Locks!StartDelete(d)
  /\ de' = [de EXCEPT ![d].at = "record"]
  /\ UNCHANGED <<bucket, up, cl>>

RecordDeletion(d) ==
  /\ de[d].at = "record"
  /\ recorded' = recorded \cup de[d].found
  /\ de' = [de EXCEPT ![d].at = "remove"]
  /\ UNCHANGED <<store, snaps, held, up, cl>>

RemoveContent(d, h) ==
  /\ de[d].at = "remove"
  /\ h \in de[d].found
  /\ store' = store \ {h}
  /\ de' = [de EXCEPT ![d].found = @ \ {h}]
  /\ UNCHANGED <<snaps, recorded, held, up, cl>>

EndDeletion(d) ==
  /\ de[d].at # "idle"
  /\ \/ Locks!EndDelete(d)
     \/ d \notin deleting /\ UNCHANGED held
  /\ de' = [de EXCEPT ![d] = IdleDe]
  /\ UNCHANGED <<bucket, up, cl>>

-----------------------------------------------------------------------------
UploadStep(u) ==
  \/ \E n \in Names \cup {NoName}, content \in Bytes : BeginUpload(u, n, content)
  \/ \E b \in Names : MatchBaseline(u, b)
  \/ SubtractDeleted(u) \/ ListStore(u) \/ SkipNothing(u)
  \/ \E h \in Hashes : SendObject(u, h)
  \/ Publish(u) \/ EndUpload(u)

CleanupStep(c) ==
  \/ ListSnapshots(c) \/ (\E n \in Names : ReadSnapshot(c, n))
  \/ ListObjects(c) \/ ReadRecordsAndPlan(c) \/ TakeCleanupLock(c)
  \/ ListAgain(c) \/ TopUp(c)
  \/ (\E h \in Hashes : DeleteOrphan(c, h))
  \/ (\E rows \in Bytes : Compact(c, rows)) \/ EndCleanup(c)

DeletionStep(d) ==
  \/ (\E hs \in Bytes : Preflight(d, hs)) \/ TakeDeleteLock(d)
  \/ RecordDeletion(d) \/ (\E h \in Hashes : RemoveContent(d, h))
  \/ EndDeletion(d)

Next ==
  \/ \E u \in Uploaders : UploadStep(u)
  \/ \E n \in Names : Forget(n)
  \/ \E c \in Cleaners : CleanupStep(c)
  \/ \E d \in Deleters : DeletionStep(d)

Spec == Init /\ [][Next]_vars

-----------------------------------------------------------------------------
(***************************************************************************)
(* Properties                                                              *)
(***************************************************************************)

\* Every hash a published snapshot references is stored, or a person removed
\* it and the record says so: no unexplained loss.
NoUnexplainedLoss ==
  \A n \in Published : snaps[n] \subseteq store \cup recorded

\* A snapshot that appears is whole: all it references is stored there and
\* then, what was deleted earlier included.
PublishedWhole ==
  [][\A n \in Names :
       snaps[n] = NoSnapshot /\ snaps'[n] # NoSnapshot =>
         snaps'[n] \subseteq store']_vars

\* An object goes only if no snapshot needs it, or a delete named it.
CleanupTakesOnlyGarbage ==
  [][\A h \in store \ store' :
       \/ h \notin Referenced(snaps, Published)
       \/ \E d \in Deleters : de[d].at = "remove" /\ h \in de[d].found]_vars

\* A row leaves the record only if no snapshot there is references its hash.
RowsLeaveUnreferenced ==
  [][\A h \in recorded \ recorded' : h \notin Referenced(snaps, Published)]_vars

\* Whatever the runs do and however they interleave, the bucket is one that
\* KeptContent describes: snapshots come whole, and what they need goes only on
\* record.
Contents == INSTANCE KeptContent
              WITH stored <- store, snapshots <- {snaps[n] : n \in Published}
ImplementsContent == Contents!Spec

\* What an upload skips is stored until it has published.
SkippedStaysStored ==
  \A u \in Uploaders : up[u].at = "send" => up[u].known \subseteq store

=============================================================================
