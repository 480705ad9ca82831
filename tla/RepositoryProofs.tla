--------------------------- MODULE RepositoryProofs ---------------------------
(***************************************************************************)
(* No unexplained loss, for any number of runs, snapshots and objects.     *)
(***************************************************************************)
EXTENDS Repository, FiniteSetTheorems, TLAPS

(***************************************************************************)
(* The inductive invariant, one part per kind of run.                      *)
(***************************************************************************)

\* Who is at work has a lock, and the two kinds are never at work together.
LocksKept ==
  /\ uploading = {} \/ deleting = {}
  /\ \A u \in Uploaders : up[u].at # "idle" => u \in uploading
  /\ \A c \in Cleaners :
       cl[c].at \in {"topup", "reread", "delete"} => c \in deleting
  /\ \A d \in Deleters : de[d].at \in {"record", "remove"} => d \in deleting

\* A run skips nothing before it has a skip-list, and a baseline vouches for
\* what is stored, or recorded as deleted.
BaselineVouches ==
  \A u \in Uploaders :
    /\ up[u].at = "skiplist" => up[u].known = {}
    /\ up[u].at = "records" => up[u].known \subseteq store \cup recorded

\* A snapshot still as the scan listed it has been read, or is still to be.
Scanned(run) ==
  /\ run.at \in {"read", "records", "confirm", "topup"} =>
       \A n \in Published :
         snaps[n] = run.listed[n] =>
           n \in run.unread \/ snaps[n] \subseteq run.refs
  /\ run.at \in {"records", "confirm", "topup"} => run.unread = {}

ScanCovers == \A c \in Cleaners : Scanned(cl[c])

\* Under the delete lock the same goes for every snapshot there is, and at
\* last no orphan is referenced.
ToppedUp(run) ==
  /\ run.at = "reread" =>
       \A n \in Published : n \in run.unread \/ snaps[n] \subseteq run.refs
  /\ run.at = "delete" =>
       /\ \A n \in Published : snaps[n] \subseteq run.refs
       /\ run.orphans \cap run.refs = {}

TopUpCovers == \A c \in Cleaners : ToppedUp(cl[c])

\* What a delete still has to remove is on record, but for what nothing
\* references: a compaction beside it drops only that.
RemovalExplained ==
  \A d \in Deleters :
    de[d].at = "remove" =>
      \A n \in Published : de[d].found \cap snaps[n] \subseteq recorded

IInv ==
  /\ TypeOK /\ LocksKept /\ BaselineVouches /\ SkippedStaysStored
  /\ ScanCovers /\ TopUpCovers /\ RemovalExplained /\ NoUnexplainedLoss

-----------------------------------------------------------------------------
(***************************************************************************)
(* Types                                                                   *)
(***************************************************************************)
LEMMA InitInv == Init => IInv
<1> SUFFICES ASSUME Init
             PROVE  IInv
  OBVIOUS
<1>1. TypeOK
  BY RepositoryAssumption
  DEF Init, TypeOK, IdleUp, IdleCl, IdleDe, UpState, ClState, DeState, Listing,
      Bytes, Locks!Init
<1>2. LocksKept /\ BaselineVouches /\ SkippedStaysStored
  BY DEF Init, LocksKept, BaselineVouches, SkippedStaysStored, IdleUp, IdleCl,
     IdleDe, Locks!Init
<1>3. ScanCovers /\ TopUpCovers /\ RemovalExplained /\ NoUnexplainedLoss
  BY DEF Init, ScanCovers, TopUpCovers, Scanned, ToppedUp, RemovalExplained,
     NoUnexplainedLoss,
     IdleCl, IdleDe, Published
<1> QED
  BY <1>1, <1>2, <1>3 DEF IInv

\* Uploads
LEMMA UploadType ==
  ASSUME TypeOK, NEW u \in Uploaders, NEW r \in UpState,
         up' = [up EXCEPT ![u] = r],
         store' \in Bytes, snaps' \in Listing, uploading' \subseteq Uploaders,
         UNCHANGED <<recorded, deleting, cl, de>>
  PROVE  TypeOK'
BY DEF TypeOK

LEMMA UploadTyped ==
  ASSUME TypeOK, NEW u \in Uploaders, UploadStep(u)
  PROVE  TypeOK'
<1>a. IdleUp \in UpState /\ up[u] \in UpState
  BY DEF IdleUp, UpState, Bytes, TypeOK
<1>b. /\ store \in Bytes /\ snaps \in Listing /\ uploading \subseteq Uploaders
      /\ recorded \in Bytes
  BY DEF TypeOK
<1>1. ASSUME NEW n \in Names \cup {NoName}, NEW content \in Bytes,
             BeginUpload(u, n, content)
      PROVE  TypeOK'
  <2> DEFINE r == [IdleUp EXCEPT !.at = "skiplist", !.name = n,
                            !.content = content]
  <2>1. r \in UpState
    BY <1>a, <1>b DEF UpState, Bytes
  <2>2. up' = [up EXCEPT ![u] = r]
    BY <1>1 DEF BeginUpload
  <2> HIDE DEF r
  <2> QED
    BY <1>1, <1>b, <2>1, <2>2, UploadType DEF BeginUpload, bucket, held, Locks!StartUpload
<1>2. ASSUME NEW b \in Names, MatchBaseline(u, b)
      PROVE  TypeOK'
  <2> DEFINE r == [up[u] EXCEPT !.at = "records",
                           !.known = snaps[b] \cap up[u].content]
  <2>1. r \in UpState
    BY <1>a, <1>b DEF UpState, Bytes
  <2>2. up' = [up EXCEPT ![u] = r]
    BY <1>2 DEF MatchBaseline
  <2> HIDE DEF r
  <2> QED
    BY <1>2, <1>b, <2>1, <2>2, UploadType DEF MatchBaseline, bucket, held
<1>3. ASSUME SubtractDeleted(u)
      PROVE  TypeOK'
  <2> DEFINE r == [up[u] EXCEPT !.at = "send", !.known = @ \ (recorded \ store)]
  <2>1. r \in UpState
    BY <1>a, <1>b DEF UpState, Bytes
  <2>2. up' = [up EXCEPT ![u] = r]
    BY <1>3 DEF SubtractDeleted
  <2> HIDE DEF r
  <2> QED
    BY <1>3, <1>b, <2>1, <2>2, UploadType DEF SubtractDeleted, bucket, held
<1>4. ASSUME ListStore(u)
      PROVE  TypeOK'
  <2> DEFINE r == [up[u] EXCEPT !.at = "send",
                           !.known = store \cap up[u].content]
  <2>1. r \in UpState
    BY <1>a, <1>b DEF UpState, Bytes
  <2>2. up' = [up EXCEPT ![u] = r]
    BY <1>4 DEF ListStore
  <2> HIDE DEF r
  <2> QED
    BY <1>4, <1>b, <2>1, <2>2, UploadType DEF ListStore, bucket, held
<1>5. ASSUME SkipNothing(u)
      PROVE  TypeOK'
  <2> DEFINE r == [up[u] EXCEPT !.at = "send"]
  <2>1. r \in UpState
    BY <1>a, <1>b DEF UpState, Bytes
  <2>2. up' = [up EXCEPT ![u] = r]
    BY <1>5 DEF SkipNothing
  <2> HIDE DEF r
  <2> QED
    BY <1>5, <1>b, <2>1, <2>2, UploadType DEF SkipNothing, bucket, held
<1>6. ASSUME NEW h \in Hashes, SendObject(u, h)
      PROVE  TypeOK'
  <2> DEFINE r == [up[u] EXCEPT !.known = @ \cup {h}]
  <2>1. r \in UpState
    BY <1>a, <1>b DEF UpState, Bytes
  <2>2. up' = [up EXCEPT ![u] = r]
    BY <1>6 DEF SendObject
  <2> HIDE DEF r
  <2> QED
    BY <1>6, <1>b, <2>1, <2>2, UploadType DEF SendObject, bucket, held, Bytes
<1>7. ASSUME Publish(u)
      PROVE  TypeOK'
  <2> DEFINE r == [IdleUp EXCEPT !.at = "done"]
  <2>1. r \in UpState
    BY <1>a, <1>b DEF UpState, Bytes
  <2>2. up' = [up EXCEPT ![u] = r]
    BY <1>7 DEF Publish
  <2>3. snaps' \in Listing
    BY <1>7, <1>a, <1>b DEF Publish, Listing, UpState
  <2> HIDE DEF r
  <2> QED
    BY <1>7, <1>b, <2>1, <2>2, <2>3, UploadType DEF Publish, held
<1>8. ASSUME EndUpload(u)
      PROVE  TypeOK'
  <2> DEFINE r == IdleUp
  <2>1. r \in UpState
    BY <1>a, <1>b DEF UpState, Bytes
  <2>2. up' = [up EXCEPT ![u] = r]
    BY <1>8 DEF EndUpload
  <2> HIDE DEF r
  <2> QED
    BY <1>8, <1>b, <2>1, <2>2, UploadType DEF EndUpload, bucket, held, Locks!EndUpload
<1> QED
  BY <1>1, <1>2, <1>3, <1>4, <1>5, <1>6, <1>7, <1>8 DEF UploadStep

\* Cleanups
LEMMA CleanupType ==
  ASSUME TypeOK, NEW c \in Cleaners, NEW r \in ClState,
         cl' = [cl EXCEPT ![c] = r],
         store' \in Bytes, recorded' \in Bytes,
         deleting' \subseteq Cleaners \cup Deleters,
         UNCHANGED <<snaps, uploading, up, de>>
  PROVE  TypeOK'
BY DEF TypeOK

LEMMA CleanupTyped ==
  ASSUME TypeOK, NEW c \in Cleaners, CleanupStep(c)
  PROVE  TypeOK'
<1>a. IdleCl \in ClState /\ cl[c] \in ClState
  BY DEF IdleCl, ClState, Listing, Bytes, TypeOK
<1>b. /\ store \in Bytes /\ recorded \in Bytes /\ snaps \in Listing
      /\ deleting \subseteq Cleaners \cup Deleters
      /\ Published \in SUBSET Names
      /\ \A s, t \in Bytes : s \ t \in Bytes
  BY DEF TypeOK, Published, Bytes
<1>2. ASSUME ListSnapshots(c)
      PROVE  TypeOK'
  <2> DEFINE r == [IdleCl EXCEPT !.at = "read", !.listed = snaps,
                            !.unread = Published]
  <2>2. r \in ClState
    BY <1>a, <1>b DEF ClState
  <2>3. cl' = [cl EXCEPT ![c] = r]
    BY <1>2 DEF ListSnapshots
  <2> HIDE DEF r
  <2> QED
    BY <1>2, <1>b, <2>2, <2>3, CleanupType DEF ListSnapshots, bucket, held
<1>3. ASSUME NEW n \in Names, ReadSnapshot(c, n)
      PROVE  TypeOK'
  <2> DEFINE r == [cl[c] EXCEPT !.unread = @ \ {n},
                           !.refs = @ \cup Referenced(snaps, {n})]
  <2>1. Referenced(snaps, {n}) \in Bytes
    BY <1>b DEF Referenced, Listing, Bytes
  <2>2. r \in ClState
    BY <1>a, <1>b, <2>1 DEF ClState, Bytes
  <2>3. cl' = [cl EXCEPT ![c] = r]
    BY <1>3 DEF ReadSnapshot
  <2> HIDE DEF r
  <2> QED
    BY <1>3, <1>b, <2>2, <2>3, CleanupType DEF ReadSnapshot, bucket, held
<1>4. ASSUME ListObjects(c)
      PROVE  TypeOK'
  <2> DEFINE r == [cl[c] EXCEPT !.at = "records", !.stored = store]
  <2>2. r \in ClState
    BY <1>a, <1>b DEF ClState
  <2>3. cl' = [cl EXCEPT ![c] = r]
    BY <1>4 DEF ListObjects
  <2> HIDE DEF r
  <2> QED
    BY <1>4, <1>b, <2>2, <2>3, CleanupType DEF ListObjects, bucket, held
<1>5. ASSUME ReadRecordsAndPlan(c)
      PROVE  TypeOK'
  <2> DEFINE r == [cl[c] EXCEPT !.at = "confirm", !.stored = {},
                           !.orphans = cl[c].stored \ cl[c].refs]
  <2>2. r \in ClState
    BY <1>a, <1>b DEF ClState, Bytes
  <2>3. cl' = [cl EXCEPT ![c] = r]
    BY <1>5 DEF ReadRecordsAndPlan
  <2> HIDE DEF r
  <2> QED
    BY <1>5, <1>b, <2>2, <2>3, CleanupType DEF ReadRecordsAndPlan, bucket, held
<1>6. ASSUME TakeCleanupLock(c)
      PROVE  TypeOK'
  <2> DEFINE r == [cl[c] EXCEPT !.at = "topup"]
  <2>2. r \in ClState
    BY <1>a, <1>b DEF ClState
  <2>3. cl' = [cl EXCEPT ![c] = r]
    BY <1>6 DEF TakeCleanupLock
  <2> HIDE DEF r
  <2> QED
    BY <1>6, <1>b, <2>2, <2>3, CleanupType DEF TakeCleanupLock, bucket, held,
       Locks!StartDelete
<1>7. ASSUME ListAgain(c)
      PROVE  TypeOK'
  <2> DEFINE r == [cl[c] EXCEPT !.at = "reread", !.unread = NewSnapshots(c),
                           !.listed = IdleCl.listed]
  <2>1. NewSnapshots(c) \in SUBSET Names /\ IdleCl.listed \in Listing
    BY <1>a DEF NewSnapshots, Published, ClState
  <2>2. r \in ClState
    BY <1>a, <1>b, <2>1 DEF ClState
  <2>3. cl' = [cl EXCEPT ![c] = r]
    BY <1>7 DEF ListAgain
  <2> HIDE DEF r
  <2> QED
    BY <1>7, <1>b, <2>2, <2>3, CleanupType DEF ListAgain, bucket, held
<1>8. ASSUME TopUp(c)
      PROVE  TypeOK'
  <2> DEFINE r == [cl[c] EXCEPT !.at = "delete", !.orphans = @ \ cl[c].refs]
  <2>2. r \in ClState
    BY <1>a, <1>b DEF ClState
  <2>3. cl' = [cl EXCEPT ![c] = r]
    BY <1>8 DEF TopUp
  <2> HIDE DEF r
  <2> QED
    BY <1>8, <1>b, <2>2, <2>3, CleanupType DEF TopUp, bucket, held
<1>9. ASSUME NEW h \in Hashes, DeleteOrphan(c, h)
      PROVE  TypeOK'
  <2> DEFINE r == [cl[c] EXCEPT !.orphans = @ \ {h}]
  <2>2. r \in ClState
    BY <1>a, <1>b DEF ClState, Bytes
  <2>3. cl' = [cl EXCEPT ![c] = r]
    BY <1>9 DEF DeleteOrphan
  <2> HIDE DEF r
  <2> QED
    BY <1>9, <1>b, <2>2, <2>3, CleanupType DEF DeleteOrphan, bucket, held,
       Bytes
<1>10. ASSUME NEW rows \in Bytes, Compact(c, rows)
       PROVE  TypeOK'
  BY <1>10 DEF Compact, TypeOK, Bytes, held
<1>11. ASSUME EndCleanup(c)
      PROVE  TypeOK'
  <2> DEFINE r == IdleCl
  <2>2. r \in ClState
    BY <1>a, <1>b DEF ClState
  <2>3. cl' = [cl EXCEPT ![c] = r]
    BY <1>11 DEF EndCleanup
  <2> HIDE DEF r
  <2> QED
    BY <1>11, <1>b, <2>2, <2>3, CleanupType DEF EndCleanup, bucket, held,
       Locks!EndDelete
<1> QED
  BY <1>2, <1>3, <1>4, <1>5, <1>6, <1>7, <1>8, <1>9, <1>10, <1>11
  DEF CleanupStep

\* Deletes
LEMMA DeletionTyped ==
  ASSUME TypeOK, NEW d \in Deleters, DeletionStep(d)
  PROVE  TypeOK'
<1> USE DEF TypeOK, DeState, bucket, held
<1>1. ASSUME NEW hs \in Bytes, Preflight(d, hs)
      PROVE  TypeOK'
  BY <1>1 DEF Preflight, Bytes
<1>2. ASSUME TakeDeleteLock(d)
      PROVE  TypeOK'
  BY <1>2 DEF TakeDeleteLock, Locks!StartDelete
<1>3. ASSUME RecordDeletion(d)
      PROVE  TypeOK'
  BY <1>3 DEF RecordDeletion, Bytes
<1>4. ASSUME NEW h \in Hashes, RemoveContent(d, h)
      PROVE  TypeOK'
  BY <1>4 DEF RemoveContent, Bytes
<1>5. ASSUME EndDeletion(d)
      PROVE  TypeOK'
  BY <1>5 DEF EndDeletion, IdleDe, Locks!EndDelete, Bytes
<1> QED
  BY <1>1, <1>2, <1>3, <1>4, <1>5 DEF DeletionStep

LEMMA TypeStep ==
  ASSUME TypeOK, [Next]_vars
  PROVE  TypeOK'
<1>1. ASSUME NEW n \in Names, Forget(n)
      PROVE  TypeOK'
  BY <1>1 DEF Forget, TypeOK, Listing, held
<1>2. CASE UNCHANGED vars
  BY <1>2 DEF vars, TypeOK
<1> QED
  BY <1>1, <1>2, UploadTyped, CleanupTyped, DeletionTyped DEF Next

-----------------------------------------------------------------------------
(***************************************************************************)
(* Steps                                                                   *)
(***************************************************************************)
Parts ==
  /\ LocksKept /\ BaselineVouches /\ SkippedStaysStored
  /\ ScanCovers /\ TopUpCovers /\ RemovalExplained /\ NoUnexplainedLoss

\* What other runs rely on is untouched by a step that leaves the bucket alone.
LEMMA QuietStep ==
  ASSUME IInv, UNCHANGED bucket
  PROVE  /\ UNCHANGED up => BaselineVouches' /\ SkippedStaysStored'
         /\ UNCHANGED cl => ScanCovers' /\ TopUpCovers'
         /\ UNCHANGED de => RemovalExplained'
         /\ NoUnexplainedLoss'
<1> USE DEF IInv, bucket
<1>1. UNCHANGED up => BaselineVouches' /\ SkippedStaysStored'
  BY DEF BaselineVouches, SkippedStaysStored
<1>2. UNCHANGED cl => ScanCovers' /\ TopUpCovers'
  BY DEF ScanCovers, TopUpCovers, Scanned, ToppedUp, Published
<1>3. UNCHANGED de => RemovalExplained'
  BY DEF RemovalExplained, Published
<1>4. NoUnexplainedLoss'
  BY DEF NoUnexplainedLoss, Published
<1> QED
  BY <1>1, <1>2, <1>3, <1>4

\* A snapshot that appears while nothing is deleted opens no gap.
LEMMA PublishSafe ==
  ASSUME IInv, ~SameBytesReturn, NEW u \in Uploaders, Publish(u)
  PROVE  Parts'
<1> USE DEF IInv, TypeOK, UpState
<1> DEFINE n == up[u].name
<1>1. n \in Names /\ u \in uploading /\ deleting = {}
  BY DEF Publish, LocksKept
<1>2. LocksKept'
  BY <1>1 DEF Publish, LocksKept, IdleUp, held
<1>3. BaselineVouches' /\ SkippedStaysStored'
  BY DEF Publish, BaselineVouches, SkippedStaysStored, IdleUp
<1>4. CASE snaps[n] # NoSnapshot
  <2>1. snaps' = snaps
    BY <1>1, <1>4 DEF Publish, Listing
  <2> QED
    BY <1>2, <1>3, <2>1, QuietStep DEF Publish, Parts, bucket
<1>5. CASE snaps[n] = NoSnapshot
  <2>1. snaps' = [snaps EXCEPT ![n] = up[u].content]
    BY <1>5 DEF Publish
  <2>2. up[u].content \in Bytes /\ up[u].content # NoSnapshot
    BY RepositoryAssumption DEF Bytes
  <2>3. Published' = Published \cup {n} /\ n \notin Published
    BY <1>1, <1>5, <2>1, <2>2 DEF Published, Listing
  <2>4. snaps'[n] = up[u].content
    BY <1>1, <2>1 DEF Listing
  <2>5. \A m \in Published : snaps'[m] = snaps[m]
    BY <2>1, <2>3 DEF Published, Listing
  <2>6. \A c \in Cleaners : cl[c].listed[n] # up[u].content
    BY <1>5, <2>2 DEF Publish, NotAsListed
  <2>7. ScanCovers'
    BY <2>3, <2>4, <2>5, <2>6 DEF Publish, ScanCovers, Scanned
  <2>8. \A c \in Cleaners : cl[c].at \notin {"reread", "delete"}
    BY <1>1 DEF LocksKept
  <2>9. TopUpCovers'
    BY <2>8 DEF Publish, TopUpCovers, ToppedUp
  <2>10. RemovalExplained'
    BY <1>1 DEF Publish, RemovalExplained, LocksKept
  <2>11. up[u].content \subseteq store
    BY DEF Publish, SkippedStaysStored
  <2>12. NoUnexplainedLoss'
    BY <2>3, <2>4, <2>5, <2>11 DEF Publish, NoUnexplainedLoss
  <2> QED
    BY <1>2, <1>3, <2>7, <2>9, <2>10, <2>12 DEF Parts
<1> QED
  BY <1>4, <1>5

LEMMA UploadSafe ==
  ASSUME IInv, ~SameBytesReturn, NEW u \in Uploaders, UploadStep(u)
  PROVE  Parts'
<1> USE DEF IInv, TypeOK, UpState, held
<1>1. ASSUME NEW n \in Names \cup {NoName}, NEW content \in Bytes,
             BeginUpload(u, n, content)
      PROVE  Parts'
  <2>1. LocksKept'
    BY <1>1 DEF BeginUpload, IdleUp, LocksKept, Locks!StartUpload
  <2>2. BaselineVouches' /\ SkippedStaysStored'
    BY <1>1 DEF BeginUpload, IdleUp, bucket, BaselineVouches,
       SkippedStaysStored
  <2> QED
    BY <1>1, <2>1, <2>2, QuietStep DEF BeginUpload, Parts
<1>2. ASSUME NEW b \in Names, MatchBaseline(u, b)
      PROVE  Parts'
  <2>1. LocksKept'
    BY <1>2 DEF MatchBaseline, LocksKept
  <2>2. snaps[b] \subseteq store \cup recorded
    BY <1>2 DEF MatchBaseline, NoUnexplainedLoss
  <2>3. BaselineVouches' /\ SkippedStaysStored'
    BY <1>2, <2>2 DEF MatchBaseline, bucket, BaselineVouches,
       SkippedStaysStored
  <2> QED
    BY <1>2, <2>1, <2>3, QuietStep DEF MatchBaseline, Parts
<1>3. ASSUME SubtractDeleted(u)
      PROVE  Parts'
  <2>1. LocksKept'
    BY <1>3 DEF SubtractDeleted, LocksKept
  <2>2. BaselineVouches' /\ SkippedStaysStored'
    BY <1>3 DEF SubtractDeleted, bucket, BaselineVouches, SkippedStaysStored
  <2> QED
    BY <1>3, <2>1, <2>2, QuietStep DEF SubtractDeleted, Parts
<1>4. ASSUME ListStore(u)
      PROVE  Parts'
  <2>1. LocksKept'
    BY <1>4 DEF ListStore, LocksKept
  <2>2. BaselineVouches' /\ SkippedStaysStored'
    BY <1>4 DEF ListStore, bucket, BaselineVouches, SkippedStaysStored
  <2> QED
    BY <1>4, <2>1, <2>2, QuietStep DEF ListStore, Parts
<1>5. ASSUME SkipNothing(u)
      PROVE  Parts'
  <2>1. LocksKept'
    BY <1>5 DEF SkipNothing, LocksKept
  <2>2. BaselineVouches' /\ SkippedStaysStored'
    BY <1>5 DEF SkipNothing, bucket, BaselineVouches, SkippedStaysStored
  <2> QED
    BY <1>5, <2>1, <2>2, QuietStep DEF SkipNothing, Parts
<1>6. ASSUME NEW h \in Hashes, SendObject(u, h)
      PROVE  Parts'
  <2>1. LocksKept'
    BY <1>6 DEF SendObject, LocksKept
  <2>2. /\ \A v \in Uploaders \ {u} : up'[v] = up[v]
        /\ up[u].at = "send" /\ up'[u].at = "send"
        /\ up'[u].known = up[u].known \cup {h}
    BY <1>6 DEF SendObject
  <2>3. store' = store \cup {h} /\ recorded' = recorded
    BY <1>6 DEF SendObject
  <2>4. BaselineVouches' /\ SkippedStaysStored'
    BY <2>2, <2>3 DEF BaselineVouches, SkippedStaysStored
  <2>5. ScanCovers' /\ TopUpCovers' /\ RemovalExplained'
    BY <1>6 DEF SendObject, ScanCovers, TopUpCovers, Scanned, ToppedUp,
       RemovalExplained,
       Published
  <2>6. NoUnexplainedLoss'
    BY <1>6 DEF SendObject, NoUnexplainedLoss, Published
  <2> QED
    BY <2>1, <2>4, <2>5, <2>6 DEF Parts
<1>7. ASSUME EndUpload(u)
      PROVE  Parts'
  <2>1. LocksKept'
    BY <1>7 DEF EndUpload, IdleUp, LocksKept, Locks!EndUpload
  <2>2. BaselineVouches' /\ SkippedStaysStored'
    BY <1>7 DEF EndUpload, IdleUp, bucket, BaselineVouches,
       SkippedStaysStored
  <2> QED
    BY <1>7, <2>1, <2>2, QuietStep DEF EndUpload, Parts
<1> QED
  BY <1>1, <1>2, <1>3, <1>4, <1>5, <1>6, <1>7, PublishSafe DEF UploadStep

LEMMA ForgetSafe ==
  ASSUME IInv, NEW n \in Names, Forget(n)
  PROVE  Parts'
<1> USE DEF IInv
<1>1. Published' \subseteq Published
        /\ \A m \in Published' : snaps'[m] = snaps[m]
  BY DEF Forget, Published, TypeOK, Listing
<1>2. LocksKept' /\ BaselineVouches' /\ SkippedStaysStored'
  BY DEF Forget, LocksKept, BaselineVouches, SkippedStaysStored, held
<1>3. ScanCovers' /\ TopUpCovers'
  BY <1>1 DEF Forget, ScanCovers, TopUpCovers, Scanned, ToppedUp
<1>4. RemovalExplained' /\ NoUnexplainedLoss'
  BY <1>1 DEF Forget, RemovalExplained, NoUnexplainedLoss
<1> QED
  BY <1>2, <1>3, <1>4 DEF Parts

\* What a run does with the store and the record under a delete lock touches
\* no upload: none is at work.
LEMMA NoUploadMeanwhile ==
  ASSUME IInv, deleting # {}, UNCHANGED up
  PROVE  BaselineVouches' /\ SkippedStaysStored'
BY DEF IInv, LocksKept, BaselineVouches, SkippedStaysStored

\* A cleanup that has seen enough for where it goes, while the snapshots stay.
LEMMA CleanupMoves ==
  ASSUME IInv, NEW c \in Cleaners, NEW r, cl' = [cl EXCEPT ![c] = r],
         UNCHANGED snaps, Scanned(r), ToppedUp(r)
  PROVE  ScanCovers' /\ TopUpCovers'
<1> SUFFICES ASSUME NEW e \in Cleaners
             PROVE  Scanned(cl[e])' /\ ToppedUp(cl[e])'
  BY DEF ScanCovers, TopUpCovers
<1>1. cl'[e] = IF e = c THEN r ELSE cl[e]
  BY DEF IInv, TypeOK
<1>2. Scanned(cl'[e]) /\ ToppedUp(cl'[e])
  BY <1>1 DEF IInv, ScanCovers, TopUpCovers
<1> QED
  BY <1>2 DEF Scanned, ToppedUp, Published

LEMMA CleanupSafe ==
  ASSUME IInv, NEW c \in Cleaners, CleanupStep(c)
  PROVE  Parts'
<1> USE DEF IInv, TypeOK, ClState, held
<1>0. \A n \in Published : Referenced(snaps, {n}) = snaps[n]
  BY DEF Referenced, Published
<1>1. ASSUME ListSnapshots(c)
      PROVE  Parts'
  <2> DEFINE r == [IdleCl EXCEPT !.at = "read", !.listed = snaps,
                            !.unread = Published]
  <2>1. LocksKept'
    BY <1>1 DEF ListSnapshots, LocksKept, IdleCl
  <2>2. cl' = [cl EXCEPT ![c] = r]
    BY <1>1 DEF ListSnapshots
  <2>3. Scanned(r) /\ ToppedUp(r)
    BY <1>1 DEF ListSnapshots, Scanned, ToppedUp, ScanCovers, IdleCl
  <2>4. ScanCovers' /\ TopUpCovers'
    <3> HIDE DEF r
    <3> QED
      BY <1>1, <2>2, <2>3, CleanupMoves DEF ListSnapshots, bucket
  <2> QED
    BY <1>1, <2>1, <2>4, QuietStep DEF ListSnapshots, Parts
<1>2. ASSUME NEW n \in Names, ReadSnapshot(c, n)
      PROVE  Parts'
  <2> DEFINE r == [cl[c] EXCEPT !.unread = @ \ {n},
                           !.refs = @ \cup Referenced(snaps, {n})]
  <2>1. LocksKept'
    BY <1>2 DEF ReadSnapshot, LocksKept
  <2>2. cl' = [cl EXCEPT ![c] = r]
    BY <1>2 DEF ReadSnapshot
  <2>a. n \in Published => snaps[n] \subseteq r.refs
    BY <1>0, <1>2
  <2>b. /\ r.at = cl[c].at /\ r.listed = cl[c].listed
        /\ r.unread = cl[c].unread \ {n} /\ cl[c].refs \subseteq r.refs
        /\ cl[c].at \in {"read", "reread"}
    BY <1>2 DEF ReadSnapshot
  <2>c. Scanned(cl[c]) /\ ToppedUp(cl[c])
    BY DEF ScanCovers, TopUpCovers
  <2>3. Scanned(r) /\ ToppedUp(r)
    <3> HIDE DEF r
    <3> QED
      BY <2>a, <2>b, <2>c DEF Scanned, ToppedUp
  <2>4. ScanCovers' /\ TopUpCovers'
    <3> HIDE DEF r
    <3> QED
      BY <1>2, <2>2, <2>3, CleanupMoves DEF ReadSnapshot, bucket
  <2> QED
    BY <1>2, <2>1, <2>4, QuietStep DEF ReadSnapshot, Parts
<1>3. ASSUME ListObjects(c)
      PROVE  Parts'
  <2> DEFINE r == [cl[c] EXCEPT !.at = "records", !.stored = store]
  <2>1. LocksKept'
    BY <1>3 DEF ListObjects, LocksKept
  <2>2. cl' = [cl EXCEPT ![c] = r]
    BY <1>3 DEF ListObjects
  <2>3. Scanned(r) /\ ToppedUp(r)
    BY <1>3 DEF ListObjects, Scanned, ToppedUp, ScanCovers
  <2>4. ScanCovers' /\ TopUpCovers'
    <3> HIDE DEF r
    <3> QED
      BY <1>3, <2>2, <2>3, CleanupMoves DEF ListObjects, bucket
  <2> QED
    BY <1>3, <2>1, <2>4, QuietStep DEF ListObjects, Parts
<1>4. ASSUME ReadRecordsAndPlan(c)
      PROVE  Parts'
  <2> DEFINE r == [cl[c] EXCEPT !.at = "confirm", !.stored = {},
                           !.orphans = cl[c].stored \ cl[c].refs]
  <2>1. LocksKept'
    BY <1>4 DEF ReadRecordsAndPlan, LocksKept
  <2>2. cl' = [cl EXCEPT ![c] = r]
    BY <1>4 DEF ReadRecordsAndPlan
  <2>3. Scanned(r) /\ ToppedUp(r)
    BY <1>4 DEF ReadRecordsAndPlan, Scanned, ToppedUp, ScanCovers
  <2>4. ScanCovers' /\ TopUpCovers'
    <3> HIDE DEF r
    <3> QED
      BY <1>4, <2>2, <2>3, CleanupMoves DEF ReadRecordsAndPlan, bucket
  <2> QED
    BY <1>4, <2>1, <2>4, QuietStep DEF ReadRecordsAndPlan, Parts
<1>5. ASSUME TakeCleanupLock(c)
      PROVE  Parts'
  <2> DEFINE r == [cl[c] EXCEPT !.at = "topup"]
  <2>1. LocksKept'
    BY <1>5 DEF TakeCleanupLock, LocksKept, Locks!StartDelete
  <2>2. cl' = [cl EXCEPT ![c] = r]
    BY <1>5 DEF TakeCleanupLock
  <2>3. Scanned(r) /\ ToppedUp(r)
    BY <1>5 DEF TakeCleanupLock, Scanned, ToppedUp, ScanCovers
  <2>4. ScanCovers' /\ TopUpCovers'
    <3> HIDE DEF r
    <3> QED
      BY <1>5, <2>2, <2>3, CleanupMoves DEF TakeCleanupLock, bucket
  <2> QED
    BY <1>5, <2>1, <2>4, QuietStep DEF TakeCleanupLock, Parts
<1>6. ASSUME ListAgain(c)
      PROVE  Parts'
  <2> DEFINE r == [cl[c] EXCEPT !.at = "reread", !.unread = NewSnapshots(c),
                           !.listed = IdleCl.listed]
  <2>1. LocksKept'
    BY <1>6 DEF ListAgain, LocksKept
  <2>2. cl' = [cl EXCEPT ![c] = r]
    BY <1>6 DEF ListAgain
  <2>3. Scanned(r) /\ ToppedUp(r)
    BY <1>6 DEF ListAgain, Scanned, ToppedUp, ScanCovers, NewSnapshots
  <2>4. ScanCovers' /\ TopUpCovers'
    <3> HIDE DEF r
    <3> QED
      BY <1>6, <2>2, <2>3, CleanupMoves DEF ListAgain, bucket
  <2> QED
    BY <1>6, <2>1, <2>4, QuietStep DEF ListAgain, Parts
<1>7. ASSUME TopUp(c)
      PROVE  Parts'
  <2> DEFINE r == [cl[c] EXCEPT !.at = "delete", !.orphans = @ \ cl[c].refs]
  <2>1. LocksKept'
    BY <1>7 DEF TopUp, LocksKept
  <2>2. cl' = [cl EXCEPT ![c] = r]
    BY <1>7 DEF TopUp
  <2>3. Scanned(r) /\ ToppedUp(r)
    BY <1>7 DEF TopUp, Scanned, ToppedUp, ScanCovers, TopUpCovers
  <2>4. ScanCovers' /\ TopUpCovers'
    <3> HIDE DEF r
    <3> QED
      BY <1>7, <2>2, <2>3, CleanupMoves DEF TopUp, bucket
  <2> QED
    BY <1>7, <2>1, <2>4, QuietStep DEF TopUp, Parts
<1>8. ASSUME NEW h \in Hashes, DeleteOrphan(c, h)
      PROVE  Parts'
  <2>1. c \in deleting
    BY <1>8 DEF DeleteOrphan, LocksKept
  <2>2. LocksKept'
    BY <1>8 DEF DeleteOrphan, LocksKept
  <2>3. BaselineVouches' /\ SkippedStaysStored'
    BY <1>8, <2>1, NoUploadMeanwhile DEF DeleteOrphan
  <2>4. ScanCovers' /\ TopUpCovers' /\ RemovalExplained'
    BY <1>8 DEF DeleteOrphan, ScanCovers, TopUpCovers, Scanned, ToppedUp,
       RemovalExplained,
       Published
  <2>5. \A n \in Published : h \notin snaps[n]
    BY <1>8 DEF DeleteOrphan, TopUpCovers, ToppedUp
  <2>6. NoUnexplainedLoss'
    BY <1>8, <2>5 DEF DeleteOrphan, NoUnexplainedLoss, Published
  <2> QED
    BY <2>2, <2>3, <2>4, <2>6 DEF Parts
<1>9. ASSUME NEW rows \in Bytes, Compact(c, rows)
      PROVE  Parts'
  <2>1. c \in deleting
    BY <1>9 DEF Compact, LocksKept
  <2>2. LocksKept'
    BY <1>9 DEF Compact, LocksKept, held
  <2>3. BaselineVouches' /\ SkippedStaysStored'
    BY <1>9, <2>1, NoUploadMeanwhile DEF Compact
  <2>4. ScanCovers' /\ TopUpCovers'
    BY <1>9 DEF Compact, ScanCovers, TopUpCovers, Scanned, ToppedUp, Published
  <2>5. \A n \in Published : snaps[n] \cap rows = {}
    BY <1>9 DEF Compact, TopUpCovers, ToppedUp
  <2>6. RemovalExplained' /\ NoUnexplainedLoss'
    BY <1>9, <2>5 DEF Compact, RemovalExplained, NoUnexplainedLoss, Published
  <2> QED
    BY <2>2, <2>3, <2>4, <2>6 DEF Parts
<1>10. ASSUME EndCleanup(c)
       PROVE  Parts'
  <2>1. LocksKept'
    BY <1>10, RepositoryAssumption DEF EndCleanup, IdleCl, LocksKept,
       Locks!EndDelete
  <2>2. ScanCovers' /\ TopUpCovers'
    BY <1>10 DEF EndCleanup, IdleCl, ScanCovers, TopUpCovers, Scanned,
       ToppedUp, Published, bucket
  <2> QED
    BY <1>10, <2>1, <2>2, QuietStep DEF EndCleanup, Parts
<1> QED
  BY <1>1, <1>2, <1>3, <1>4, <1>5, <1>6, <1>7, <1>8, <1>9, <1>10
  DEF CleanupStep

LEMMA DeletionSafe ==
  ASSUME IInv, NEW d \in Deleters, DeletionStep(d)
  PROVE  Parts'
<1> USE DEF IInv, TypeOK, DeState, held
<1>1. ASSUME NEW hs \in Bytes, Preflight(d, hs)
      PROVE  Parts'
  <2>1. LocksKept' /\ RemovalExplained'
    BY <1>1 DEF Preflight, LocksKept, RemovalExplained, Published, bucket
  <2> QED
    BY <1>1, <2>1, QuietStep DEF Preflight, Parts
<1>2. ASSUME TakeDeleteLock(d)
      PROVE  Parts'
  <2>1. LocksKept' /\ RemovalExplained'
    BY <1>2 DEF TakeDeleteLock, LocksKept, RemovalExplained, Published,
       bucket, Locks!StartDelete
  <2> QED
    BY <1>2, <2>1, QuietStep DEF TakeDeleteLock, Parts
<1>3. ASSUME RecordDeletion(d)
      PROVE  Parts'
  <2>1. d \in deleting
    BY <1>3 DEF RecordDeletion, LocksKept
  <2>2. LocksKept'
    BY <1>3, <2>1 DEF RecordDeletion, LocksKept
  <2>3. BaselineVouches' /\ SkippedStaysStored'
    BY <1>3, <2>1, NoUploadMeanwhile DEF RecordDeletion
  <2>4. ScanCovers' /\ TopUpCovers'
    BY <1>3 DEF RecordDeletion, ScanCovers, TopUpCovers, Scanned, ToppedUp,
       Published
  <2>5. RemovalExplained' /\ NoUnexplainedLoss'
    BY <1>3 DEF RecordDeletion, RemovalExplained, NoUnexplainedLoss, Published
  <2> QED
    BY <2>2, <2>3, <2>4, <2>5 DEF Parts
<1>4. ASSUME NEW h \in Hashes, RemoveContent(d, h)
      PROVE  Parts'
  <2>1. d \in deleting
    BY <1>4 DEF RemoveContent, LocksKept
  <2>2. LocksKept'
    BY <1>4, <2>1 DEF RemoveContent, LocksKept
  <2>3. BaselineVouches' /\ SkippedStaysStored'
    BY <1>4, <2>1, NoUploadMeanwhile DEF RemoveContent
  <2>4. ScanCovers' /\ TopUpCovers'
    BY <1>4 DEF RemoveContent, ScanCovers, TopUpCovers, Scanned, ToppedUp,
       Published
  <2>5. RemovalExplained'
    BY <1>4 DEF RemoveContent, RemovalExplained, Published
  <2>6. \A n \in Published : h \in snaps[n] => h \in recorded
    BY <1>4 DEF RemoveContent, RemovalExplained
  <2>7. NoUnexplainedLoss'
    BY <1>4, <2>6 DEF RemoveContent, NoUnexplainedLoss, Published
  <2> QED
    BY <2>2, <2>3, <2>4, <2>5, <2>7 DEF Parts
<1>5. ASSUME EndDeletion(d)
      PROVE  Parts'
  <2>1. LocksKept'
    BY <1>5, RepositoryAssumption DEF EndDeletion, IdleDe, LocksKept,
       Locks!EndDelete
  <2>2. RemovalExplained'
    BY <1>5 DEF EndDeletion, IdleDe, RemovalExplained, Published, bucket
  <2> QED
    BY <1>5, <2>1, <2>2, QuietStep DEF EndDeletion, Parts
<1> QED
  BY <1>1, <1>2, <1>3, <1>4, <1>5 DEF DeletionStep

LEMMA InvStep ==
  ASSUME IInv, ~SameBytesReturn, [Next]_vars
  PROVE  IInv'
<1>1. TypeOK'
  BY TypeStep DEF IInv
<1>2. Parts'
  <2>1. CASE UNCHANGED vars
    BY <2>1, QuietStep DEF vars, bucket, Parts, IInv, LocksKept
  <2>2. CASE Next
    BY <2>2, UploadSafe, ForgetSafe, CleanupSafe, DeletionSafe DEF Next
  <2> QED
    BY <2>1, <2>2
<1> QED
  BY <1>1, <1>2 DEF IInv, Parts

-----------------------------------------------------------------------------
\* The state of the bucket and of every run keeps its shape.
THEOREM TypeCorrect == Spec => []TypeOK
<1>1. Init => TypeOK
  BY InitInv DEF IInv
<1>2. TypeOK /\ [Next]_vars => TypeOK'
  BY TypeStep
<1> QED
  BY <1>1, <1>2, PTL DEF Spec

LEMMA InvAlways ==
  ASSUME ~SameBytesReturn
  PROVE  Spec => []IInv
<1>1. Init => IInv
  BY InitInv
<1>2. IInv /\ [Next]_vars => IInv'
  BY InvStep
<1> QED
  BY <1>1, <1>2, PTL DEF Spec

\* Whatever backups, uploads, forgets, cleanups and deletes do side by side,
\* and wherever one of them stops, what a snapshot references is stored, or on
\* record as deleted.  The assumption excludes the one case the top-up misses.
THEOREM NothingIsLost ==
  ASSUME ~SameBytesReturn
  PROVE  Spec => []NoUnexplainedLoss
<1>1. IInv => NoUnexplainedLoss
  BY DEF IInv
<1> QED
  BY <1>1, InvAlways, PTL

\* What an upload skips is still there when it publishes.
THEOREM SkipsAreSound ==
  ASSUME ~SameBytesReturn
  PROVE  Spec => []SkippedStaysStored
<1>1. IInv => SkippedStaysStored
  BY DEF IInv
<1> QED
  BY <1>1, InvAlways, PTL

\* A snapshot references nothing that is missing when it appears.
THEOREM SnapshotsAppearWhole ==
  ASSUME ~SameBytesReturn
  PROVE  Spec => PublishedWhole
<1>1. ASSUME IInv, [Next]_vars
      PROVE  [\A n \in Names :
                snaps[n] = NoSnapshot /\ snaps'[n] # NoSnapshot =>
                  snaps'[n] \subseteq store']_vars
  <2> SUFFICES ASSUME NEW n \in Names,
                      snaps[n] = NoSnapshot, snaps'[n] # NoSnapshot
               PROVE  snaps'[n] \subseteq store'
    OBVIOUS
  <2>1. PICK u \in Uploaders : Publish(u)
    <3>1. \A u \in Uploaders : UploadStep(u) => Publish(u)
      BY DEF UploadStep, BeginUpload, MatchBaseline, SubtractDeleted,
         ListStore, SkipNothing, SendObject, EndUpload, bucket
    <3>2. \A c \in Cleaners : ~CleanupStep(c)
      BY DEF CleanupStep, ListSnapshots, ReadSnapshot, ListObjects,
         ReadRecordsAndPlan, TakeCleanupLock, ListAgain, TopUp, DeleteOrphan,
         Compact, EndCleanup, bucket
    <3>3. \A d \in Deleters : ~DeletionStep(d)
      BY DEF DeletionStep, Preflight, TakeDeleteLock, RecordDeletion,
         RemoveContent, EndDeletion, bucket
    <3>4. \A m \in Names : ~Forget(m)
      BY <1>1 DEF Forget, IInv, TypeOK, Listing
    <3>5. snaps' # snaps
      OBVIOUS
    <3> QED
      BY <1>1, <3>1, <3>2, <3>3, <3>4, <3>5 DEF Next, vars
  <2>2. /\ up[u].content \subseteq store
        /\ store' = store
        /\ n = up[u].name /\ snaps'[n] = up[u].content
    BY <1>1, <2>1 DEF Publish, IInv, SkippedStaysStored, TypeOK, Listing,
       UpState
  <2> QED
    BY <2>2
<1> QED
  BY <1>1, InvAlways, PTL DEF Spec, PublishedWhole

\* An object goes only when no snapshot references it, or when a delete that
\* named it has recorded it.
THEOREM OnlyGarbageGoes ==
  ASSUME ~SameBytesReturn
  PROVE  Spec => CleanupTakesOnlyGarbage
<1>1. ASSUME IInv, [Next]_vars, NEW h \in store \ store'
      PROVE  \/ h \notin Referenced(snaps, Published)
             \/ \E d \in Deleters : de[d].at = "remove" /\ h \in de[d].found
  <2>1. \A u \in Uploaders : ~UploadStep(u)
    BY <1>1 DEF UploadStep, BeginUpload, MatchBaseline, SubtractDeleted,
       ListStore, SkipNothing, SendObject, Publish, EndUpload, bucket
  <2>2. \A n \in Names : ~Forget(n)
    BY <1>1 DEF Forget
  <2>3. store' # store
    BY <1>1
  <2>4. CASE \E c \in Cleaners : CleanupStep(c)
    <3>1. PICK c \in Cleaners : CleanupStep(c)
      BY <2>4
    <3>2. h \in Hashes /\ DeleteOrphan(c, h)
      BY <1>1, <3>1 DEF CleanupStep, ListSnapshots, ReadSnapshot, ListObjects,
         ReadRecordsAndPlan, TakeCleanupLock, ListAgain, TopUp, DeleteOrphan,
         Compact, EndCleanup, bucket, IInv, TypeOK, Bytes
    <3>3. h \notin cl[c].refs
            /\ \A n \in Published : snaps[n] \subseteq cl[c].refs
      BY <1>1, <3>2 DEF DeleteOrphan, IInv, TopUpCovers, ToppedUp
    <3> QED
      BY <3>3 DEF Referenced, Published
  <2>5. CASE \E d \in Deleters : DeletionStep(d)
    BY <1>1, <2>5 DEF DeletionStep, Preflight, TakeDeleteLock,
       RecordDeletion, RemoveContent, EndDeletion, bucket
  <2> QED
    BY <1>1, <2>1, <2>2, <2>3, <2>4, <2>5 DEF Next, vars
<1>2. ASSUME IInv, [Next]_vars
      PROVE  [\A h \in store \ store' :
                \/ h \notin Referenced(snaps, Published)
                \/ \E d \in Deleters :
                     de[d].at = "remove" /\ h \in de[d].found]_vars
  BY <1>1, <1>2
<1> QED
  BY <1>2, InvAlways, PTL DEF Spec, CleanupTakesOnlyGarbage

\* A row leaves the record only when no snapshot references its hash: a
\* compaction drops nothing of what it has read, and has read every snapshot.
THEOREM OnlyDeadRowsLeave ==
  ASSUME ~SameBytesReturn
  PROVE  Spec => RowsLeaveUnreferenced
<1>1. ASSUME IInv, [Next]_vars, NEW h \in recorded \ recorded'
      PROVE  h \notin Referenced(snaps, Published)
  <2>1. \A u \in Uploaders : ~UploadStep(u)
    BY <1>1 DEF UploadStep, BeginUpload, MatchBaseline, SubtractDeleted,
       ListStore, SkipNothing, SendObject, Publish, EndUpload, bucket
  <2>2. \A n \in Names : ~Forget(n)
    BY <1>1 DEF Forget
  <2>3. \A d \in Deleters : ~DeletionStep(d)
    BY <1>1 DEF DeletionStep, Preflight, TakeDeleteLock, RecordDeletion,
       RemoveContent, EndDeletion, bucket
  <2>4. recorded' # recorded
    BY <1>1
  <2>5. PICK c \in Cleaners : CleanupStep(c)
    BY <1>1, <2>1, <2>2, <2>3, <2>4 DEF Next, vars
  <2>6. PICK rows \in Bytes : Compact(c, rows)
    BY <2>4, <2>5 DEF CleanupStep, ListSnapshots, ReadSnapshot, ListObjects,
       ReadRecordsAndPlan, TakeCleanupLock, ListAgain, TopUp, DeleteOrphan,
       EndCleanup, bucket
  <2>7. h \in rows /\ rows \cap cl[c].refs = {}
    BY <1>1, <2>6 DEF Compact
  <2>8. \A n \in Published : snaps[n] \subseteq cl[c].refs
    BY <1>1, <2>6 DEF Compact, IInv, TopUpCovers, ToppedUp
  <2> QED
    BY <2>7, <2>8 DEF Referenced, Published
<1>2. ASSUME IInv, [Next]_vars
      PROVE  [\A h \in recorded \ recorded' :
                h \notin Referenced(snaps, Published)]_vars
  BY <1>1, <1>2
<1> QED
  BY <1>2, InvAlways, PTL DEF Spec, RowsLeaveUnreferenced

-----------------------------------------------------------------------------
(***************************************************************************)
(* The refinement: one request changes the bucket as KeptContent allows.   *)
(***************************************************************************)
Snapshots == {snaps[n] : n \in Published}

LEMMA BucketStays ==
  ASSUME UNCHANGED bucket
  PROVE  UNCHANGED Contents!vars
BY DEF bucket, Published, Contents!vars

\* The last request of an upload puts a snapshot under a free name, or finds
\* the name taken; the others are objects.
LEMMA UploadOfContent ==
  ASSUME IInv, NEW u \in Uploaders, UploadStep(u)
  PROVE  [Contents!Next]_(Contents!vars)
<1>1. CASE UNCHANGED bucket
  BY <1>1, BucketStays
<1>2. CASE \E h \in Hashes : SendObject(u, h)
  <2>1. PICK h \in Hashes : SendObject(u, h)
    BY <1>2
  <2>2. Contents!Store(h)
    BY <2>1 DEF SendObject, Published, Contents!Store
  <2> QED
    BY <2>2 DEF Contents!Next
<1>3. CASE Publish(u)
  <2> DEFINE n == up[u].name
             refs == up[u].content
  <2>1. /\ snaps \in Listing /\ up[u] \in UpState /\ n \in Names /\ refs \in SUBSET Hashes
        /\ refs \subseteq store
    BY <1>3 DEF Publish, IInv, TypeOK, UpState, SkippedStaysStored, Bytes
  <2>2. /\ snaps' = [snaps EXCEPT ![n] = IF @ = NoSnapshot THEN refs ELSE @]
        /\ UNCHANGED <<store, recorded>>
    BY <1>3 DEF Publish
  <2>3. CASE snaps[n] # NoSnapshot
    <3>1. snaps' = snaps
      BY <2>1, <2>2, <2>3 DEF Listing
    <3> QED
      BY <2>2, <3>1, BucketStays DEF bucket
  <2>4. CASE snaps[n] = NoSnapshot
    <3>1. \A m \in Names : snaps'[m] = IF m = n THEN refs ELSE snaps[m]
      BY <2>1, <2>2, <2>4 DEF Listing
    <3>2. Published' = Published \cup {n} /\ n \notin Published
      BY <2>1, <2>4, <3>1, RepositoryAssumption DEF Published
    <3>3. Snapshots' = Snapshots \cup {refs}
      BY <2>1, <3>1, <3>2 DEF Snapshots, Published
    <3>4. \E hs \in SUBSET Hashes : Contents!Publish(hs)
      BY <2>1, <2>2, <3>3 DEF Contents!Publish, Snapshots
    <3> QED
      BY <3>4 DEF Contents!Next
  <2> QED
    BY <2>3, <2>4
<1> QED
  BY <1>1, <1>2, <1>3 DEF UploadStep, BeginUpload, MatchBaseline, SubtractDeleted,
     ListStore, SkipNothing, EndUpload

\* A name less: the snapshot goes, unless another name has the same one.
LEMMA ForgetOfContent ==
  ASSUME IInv, NEW n \in Names, Forget(n)
  PROVE  [Contents!Next]_(Contents!vars)
<1> DEFINE refs == snaps[n]
<1>1. /\ snaps \in Listing /\ n \in Published /\ UNCHANGED <<store, recorded>>
      /\ refs \in SUBSET Hashes
      /\ snaps' = [snaps EXCEPT ![n] = NoSnapshot]
  BY DEF Forget, IInv, TypeOK, Listing, Bytes, Published
<1>2. /\ Published' = Published \ {n}
      /\ \A m \in Published' : snaps'[m] = snaps[m]
  BY <1>1 DEF Published, Listing
<1>3. CASE \E m \in Published \ {n} : snaps[m] = refs
  <2>1. Snapshots' = Snapshots
    BY <1>1, <1>2, <1>3 DEF Snapshots
  <2> QED
    BY <1>1, <2>1 DEF Contents!vars, Snapshots
<1>4. CASE ~\E m \in Published \ {n} : snaps[m] = refs
  <2>1. Snapshots' = Snapshots \ {refs}
    BY <1>1, <1>2, <1>4 DEF Snapshots
  <2>2. \E hs \in SUBSET Hashes : Contents!Forget(hs)
    BY <1>1, <2>1 DEF Contents!Forget, Snapshots
  <2> QED
    BY <2>2 DEF Contents!Next
<1> QED
  BY <1>3, <1>4

\* Past the top-up a cleanup has read every snapshot: what it takes, object or
\* row, none of them needs.
LEMMA CleanupOfContent ==
  ASSUME IInv, NEW c \in Cleaners, CleanupStep(c)
  PROVE  [Contents!Next]_(Contents!vars)
<1>1. CASE UNCHANGED bucket
  BY <1>1, BucketStays
<1>2. ASSUME cl[c].at = "delete"
      PROVE  Contents!Needed \subseteq cl[c].refs /\ cl[c].orphans \cap cl[c].refs = {}
  BY <1>2 DEF IInv, TopUpCovers, ToppedUp, Contents!Needed
<1>3. CASE \E h \in Hashes : DeleteOrphan(c, h)
  <2>1. PICK h \in Hashes : DeleteOrphan(c, h)
    BY <1>3
  <2>2. h \notin Contents!Needed
    BY <1>2, <2>1 DEF DeleteOrphan
  <2>3. Contents!Remove(h)
    BY <2>1, <2>2 DEF DeleteOrphan, Published, Contents!Remove
  <2> QED
    BY <2>3 DEF Contents!Next
<1>4. CASE \E rows \in Bytes : Compact(c, rows)
  <2>1. PICK rows \in Bytes : Compact(c, rows)
    BY <1>4
  <2>2. rows \cap Contents!Needed = {}
    BY <1>2, <2>1 DEF Compact
  <2>3. Contents!Drop(rows)
    BY <2>1, <2>2 DEF Compact, Published, Contents!Drop
  <2> QED
    BY <2>3 DEF Contents!Next, Bytes
<1> QED
  BY <1>1, <1>3, <1>4 DEF CleanupStep, ListSnapshots, ReadSnapshot, ListObjects,
     ReadRecordsAndPlan, TakeCleanupLock, ListAgain, TopUp, EndCleanup

LEMMA DeletionOfContent ==
  ASSUME IInv, NEW d \in Deleters, DeletionStep(d)
  PROVE  [Contents!Next]_(Contents!vars)
<1>1. CASE UNCHANGED bucket
  BY <1>1, BucketStays
<1>2. CASE RecordDeletion(d)
  <2>1. de[d].found \in SUBSET Hashes
    BY DEF IInv, TypeOK, DeState, Bytes
  <2>2. Contents!Record(de[d].found)
    BY <1>2 DEF RecordDeletion, Published, Contents!Record
  <2> QED
    BY <2>1, <2>2 DEF Contents!Next
<1>3. CASE \E h \in Hashes : RemoveContent(d, h)
  <2>1. PICK h \in Hashes : RemoveContent(d, h)
    BY <1>3
  <2>2. h \in Contents!Needed => h \in recorded
    BY <2>1 DEF RemoveContent, IInv, RemovalExplained, Contents!Needed
  <2>3. Contents!Remove(h)
    BY <2>1, <2>2 DEF RemoveContent, Published, Contents!Remove
  <2> QED
    BY <2>3 DEF Contents!Next
<1> QED
  BY <1>1, <1>2, <1>3 DEF DeletionStep, Preflight, TakeDeleteLock, EndDeletion

\* Uploads, forgets, cleanups and deletes of any number of machines make a
\* bucket as KeptContent describes it: content comes before what needs it, and
\* goes after it, or after the record of its deletion (uploadSnapshotFile,
\* reclaim, deleteContent).
THEOREM RunsImplementContent ==
  ASSUME ~SameBytesReturn
  PROVE  Spec => ImplementsContent
<1>1. Init => Contents!Init
  BY DEF Init, Contents!Init, Published
<1>2. IInv /\ [Next]_vars => [Contents!Next]_(Contents!vars)
  <2> SUFFICES ASSUME IInv, [Next]_vars
               PROVE  [Contents!Next]_(Contents!vars)
    OBVIOUS
  <2>1. CASE UNCHANGED vars
    BY <2>1, BucketStays DEF vars, bucket
  <2>2. CASE Next
    BY <2>2, UploadOfContent, ForgetOfContent, CleanupOfContent, DeletionOfContent DEF Next
  <2> QED
    BY <2>1, <2>2
<1> QED
  BY <1>1, <1>2, InvAlways, PTL DEF Spec, ImplementsContent, Contents!Spec

\* The promise is enough for the loss nobody explains not to happen, whoever
\* works in the bucket: what a snapshot there needs is there, or recorded.
THEOREM PromiseKeepsContent == ImplementsContent => []Contents!Kept
<1>1. Contents!Init => Contents!Kept
  BY DEF Contents!Init, Contents!Kept, Contents!Needed
<1>2. Contents!Kept /\ [Contents!Next]_(Contents!vars) => Contents!Kept'
  <2> DEFINE refs == {snaps[n] : n \in Published}
  <2> HIDE DEF refs
  <2> SUFFICES ASSUME UNION refs \subseteq store \cup recorded,
                      [Contents!Next]_(Contents!vars)
               PROVE  UNION refs' \subseteq store' \cup recorded'
    BY DEF Contents!Kept, Contents!Needed, refs
  <2>1. CASE UNCHANGED Contents!vars
    BY <2>1 DEF Contents!vars, refs
  <2>2. ASSUME NEW h \in Hashes, Contents!Store(h) PROVE UNION refs' \subseteq store' \cup recorded'
    <3>1. refs' = refs /\ store' = store \cup {h} /\ recorded' = recorded
      BY <2>2 DEF Contents!Store, refs
    <3> QED
      BY <3>1
  <2>3. ASSUME NEW h \in Hashes, Contents!Remove(h)
        PROVE  UNION refs' \subseteq store' \cup recorded'
    <3>1. /\ refs' = refs /\ store' = store \ {h} /\ recorded' = recorded
          /\ h \in UNION refs => h \in recorded
      BY <2>3 DEF Contents!Remove, Contents!Needed, refs
    <3> QED
      BY <3>1
  <2>4. ASSUME NEW hs \in SUBSET Hashes, Contents!Publish(hs) \/ Contents!Forget(hs)
        PROVE  UNION refs' \subseteq store' \cup recorded'
    <3>1. /\ \/ refs' = refs \cup {hs} /\ hs \subseteq store
             \/ refs' = refs \ {hs}
          /\ store' = store /\ recorded' = recorded
      BY <2>4 DEF Contents!Publish, Contents!Forget, refs
    <3> QED
      BY <3>1
  <2>5. ASSUME NEW hs \in SUBSET Hashes, Contents!Record(hs) \/ Contents!Drop(hs)
        PROVE  UNION refs' \subseteq store' \cup recorded'
    <3>1. /\ refs' = refs /\ store' = store
          /\ \/ recorded' = recorded \cup hs
             \/ recorded' = recorded \ hs /\ hs \cap UNION refs = {}
      BY <2>5 DEF Contents!Record, Contents!Drop, Contents!Needed, refs
    <3> QED
      BY <3>1
  <2> QED
    BY <2>1, <2>2, <2>3, <2>4, <2>5 DEF Contents!Next
<1> QED
  BY <1>1, <1>2, PTL DEF ImplementsContent, Contents!Spec
=============================================================================
