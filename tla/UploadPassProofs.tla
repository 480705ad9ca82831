--------------------------- MODULE UploadPassProofs ---------------------------
(***************************************************************************)
(* Proofs about passes over files that other programs write.               *)
(***************************************************************************)
EXTENDS UploadPass, SequenceTheorems, TLAPS

InHand == {"hash", "offer", "confirmed", "send"}
Sending == {"confirmed", "send"}

\* A pass goes over all the files, or over one; a row in hand is one of them;
\* and the snapshot that is uploaded again is a whole one.
Shape ==
  /\ run.mode = "file" => run.rows = <<>> /\ run.last \in Paths
  /\ run.mode # "file" => run.last = N
  /\ run.at \in InHand => run.row # None /\ Here <= run.last
  /\ latest # None => Len(latest.rows) = N
  /\ run.at # "idle" /\ run.mode = "upload" => latest # None

\* A content is stored, or one of the rows named for a change had it.
Explained(h, bucket, rows, drifted) ==
  \/ h \in bucket
  \/ \E j \in drifted : j \in DOMAIN rows /\ rows[j] # None /\ rows[j].hash = h

Now(h) == Explained(h, InBucket, run.rows, run.drifted)
Then(h) == Explained(h, InBucket', run'.rows, run'.drifted)

\* Unless a transfer failed, what was offered is stored or named, but for what
\* is on its way.
Accounted ==
  run.mode \notin {"snapshot", "file"} /\ run.failure = None =>
    /\ \A h \in run.seen : Now(h) \/ (run.at \in Sending /\ h = run.row.hash)
    /\ \A i \in DOMAIN run.rows : run.rows[i] # None => Now(run.rows[i].hash)

\* What a pass skips is stored.
SkipsStored == run.stored \subseteq InBucket

IInv == TypeOK /\ Shape /\ BytesMatchHash /\ PublishedStored /\ SkipsStored /\ Accounted

-----------------------------------------------------------------------------
(***************************************************************************)
(* Rows                                                                    *)
(***************************************************************************)
USE UploadPassAssumption

LEMMA RowsAreSequences ==
  /\ \A r \in Rows : /\ r \in Seq(Row \cup {None}) /\ Len(r) \in 0 .. N
                     /\ DOMAIN r = 1 .. Len(r)
  /\ \A r \in Seq(Row \cup {None}) : Len(r) <= N => r \in Rows
<1>1. ASSUME NEW r \in Rows
      PROVE  /\ r \in Seq(Row \cup {None}) /\ Len(r) \in 0 .. N
             /\ DOMAIN r = 1 .. Len(r)
  <2>1. PICK k \in 0 .. N : r \in [1 .. k -> Row \cup {None}]
    BY DEF Rows
  <2>2. r \in Seq(Row \cup {None})
    BY <2>1, SeqDef
  <2>3. Len(r) \in Nat /\ DOMAIN r = 1 .. Len(r)
    BY <2>2, LenProperties
  <2>4. Len(r) = k
    BY <2>1, <2>3
  <2> QED BY <2>1, <2>2, <2>3, <2>4
<1>2. ASSUME NEW r \in Seq(Row \cup {None}), Len(r) <= N
      PROVE  r \in Rows
  BY <1>2, LenProperties DEF Rows
<1> QED BY <1>1, <1>2

LEMMA HereIsPath ==
  ASSUME TypeOK, Shape, Here <= run.last
  PROVE  Here \in Paths
<1>1. run.rows \in Rows /\ run.last \in 0 .. N
  BY DEF TypeOK, RunState
<1>2. Len(run.rows) \in Nat
  BY <1>1, RowsAreSequences
<1>3. CASE run.mode = "file"
  BY <1>3 DEF Shape, Here
<1>4. CASE run.mode # "file"
  BY <1>1, <1>2, <1>4 DEF Here, Paths
<1> QED BY <1>3, <1>4

LEMMA IdleTyped == Idle \in RunState
<1>1. <<>> \in Rows
  <2>1. <<>> \in Seq(Row \cup {None}) /\ Len(<<>>) <= N
    OBVIOUS
  <2> QED BY <2>1, RowsAreSequences
<1>2. NoLookup \in [Paths -> Row \cup {None}]
  BY DEF NoLookup
<1> QED BY <1>1, <1>2 DEF Idle, RunState, Modes

\* The row in hand goes by.
Passes(row, seen, drifted, failure) ==
  /\ run' \in RunState
  /\ run'.at = IF run.mode = "file" THEN "result" ELSE "row"
  /\ run'.rows = IF run.mode = "file" THEN run.rows ELSE Append(run.rows, row)
  /\ run'.seen = seen /\ run'.drifted = drifted /\ run'.failure = failure
  /\ run'.mode = run.mode /\ run'.last = run.last /\ run'.stored = run.stored
  /\ run'.since = run.since /\ run'.lookup = run.lookup /\ run'.boundary = run.boundary

LEMMA RowDoneTyped ==
  ASSUME TypeOK, Shape, Here <= run.last, NEW row \in Row \cup {None}
  PROVE  /\ RowDone(row) \in RunState
         /\ RowDone(row).at = IF run.mode = "file" THEN "result" ELSE "row"
         /\ RowDone(row).rows = IF run.mode = "file" THEN run.rows ELSE Append(run.rows, row)
         /\ RowDone(row).seen = run.seen /\ RowDone(row).drifted = run.drifted
         /\ RowDone(row).failure = run.failure /\ RowDone(row).mode = run.mode
         /\ RowDone(row).last = run.last /\ RowDone(row).stored = run.stored
         /\ RowDone(row).since = run.since /\ RowDone(row).lookup = run.lookup
         /\ RowDone(row).boundary = run.boundary
<1>1. run \in RunState
  BY DEF TypeOK
<1>2. CASE run.mode = "file"
  <2>1. RowDone(row) = [run EXCEPT !.at = "result", !.row = None, !.span = {}]
    BY <1>2 DEF RowDone
  <2> QED BY <1>1, <1>2, <2>1 DEF RunState
<1>3. CASE run.mode # "file"
  <2> DEFINE rows == Append(run.rows, row)
  <2>1. RowDone(row) = [run EXCEPT !.at = "row", !.rows = rows, !.row = None, !.span = {}]
    BY <1>3 DEF RowDone
  <2>2. rows \in Rows
    <3>1. run.rows \in Rows
      BY <1>1 DEF RunState
    <3>2. run.rows \in Seq(Row \cup {None}) /\ Len(run.rows) \in Nat
      BY <3>1, RowsAreSequences
    <3>3. Len(run.rows) + 1 <= N
      BY <1>3, <3>2, HereIsPath DEF Here, Paths
    <3>4. rows \in Seq(Row \cup {None}) /\ Len(rows) = Len(run.rows) + 1
      BY <3>2
    <3> HIDE DEF rows
    <3> QED BY <3>3, <3>4, RowsAreSequences
  <2> HIDE DEF rows
  <2>3. RowDone(row) \in RunState
    BY <1>1, <2>1, <2>2 DEF RunState
  <2>4. /\ RowDone(row).rows = rows /\ RowDone(row).at = "row"
        /\ RowDone(row).seen = run.seen /\ RowDone(row).drifted = run.drifted
        /\ RowDone(row).failure = run.failure /\ RowDone(row).mode = run.mode
        /\ RowDone(row).last = run.last /\ RowDone(row).stored = run.stored
        /\ RowDone(row).since = run.since /\ RowDone(row).lookup = run.lookup
        /\ RowDone(row).boundary = run.boundary
    BY <1>1, <2>1 DEF RunState
  <2> QED BY <1>3, <2>3, <2>4 DEF rows
<1> QED BY <1>2, <1>3

\* Whatever becomes of it, if it is accounted for the pass stays so.
LEMMA PassesInv ==
  ASSUME IInv, Here <= run.last, NEW row \in Row \cup {None},
         NEW seen, NEW drifted, NEW failure,
         Passes(row, seen, drifted, failure),
         failure = None => run.failure = None,
         run.drifted \subseteq drifted,
         InBucket \subseteq InBucket', latest' = latest,
         run.at # "idle", run.at \in Sending => row = run.row,
         failure = None /\ run.mode \notin {"snapshot", "file"} =>
           /\ \A h \in seen \ run.seen : Then(h)
           /\ row # None => Then(row.hash)
  PROVE  Shape' /\ Accounted' /\ SkipsStored'
<1>a. run \in RunState /\ run.rows \in Rows
  BY DEF IInv, TypeOK, RunState
<1>b. run.rows \in Seq(Row \cup {None}) /\ Len(run.rows) \in Nat /\ DOMAIN run.rows = 1 .. Len(run.rows)
  BY <1>a, RowsAreSequences
<1>1. Shape'
  BY DEF IInv, Shape, Passes, InHand
<1>2. SkipsStored'
  BY DEF IInv, SkipsStored, Passes
<1>3. Accounted'
  <2> SUFFICES ASSUME run.mode \notin {"snapshot", "file"}, failure = None
      PROVE  /\ \A h \in seen : Then(h)
             /\ \A i \in DOMAIN run'.rows : run'.rows[i] # None => Then(run'.rows[i].hash)
    BY DEF Accounted, Passes, Now, Then
  <2>1. run'.rows = Append(run.rows, row) /\ run'.drifted = drifted
    BY DEF Passes
  <2>2. /\ DOMAIN run'.rows = 1 .. Len(run.rows) + 1
        /\ run'.rows[Len(run.rows) + 1] = row
        /\ \A i \in DOMAIN run.rows : run'.rows[i] = run.rows[i]
    BY <1>b, <2>1, AppendProperties
  <2>3. ASSUME NEW h, Now(h) PROVE Then(h)
    BY <1>b, <2>1, <2>2, <2>3 DEF Now, Then, Explained
  <2>4. run.failure = None
    OBVIOUS
  <2>5. ASSUME NEW h \in seen PROVE Then(h)
    <3>1. CASE h \notin run.seen
      BY <3>1
    <3>2. CASE h \in run.seen /\ Now(h)
      BY <3>2, <2>3
    <3>3. CASE h \in run.seen /\ run.at \in Sending /\ h = run.row.hash
      <4>1. row = run.row /\ row # None
        BY <3>3 DEF IInv, Shape, InHand, Sending
      <4> QED BY <3>3, <4>1
    <3> QED BY <3>1, <3>2, <3>3, <2>4 DEF IInv, Accounted
  <2>6. ASSUME NEW i \in DOMAIN run'.rows, run'.rows[i] # None
        PROVE  Then(run'.rows[i].hash)
    <3>1. CASE i = Len(run.rows) + 1
      BY <2>2, <2>6, <3>1
    <3>2. CASE i # Len(run.rows) + 1
      <4>1. i \in DOMAIN run.rows
        BY <1>b, <2>2, <3>2
      <4>2. Now(run.rows[i].hash)
        BY <2>2, <2>4, <2>6, <4>1 DEF IInv, Accounted
      <4> QED BY <2>2, <2>3, <4>1, <4>2
    <3> QED BY <3>1, <3>2
  <2> QED BY <2>5, <2>6
<1> QED BY <1>1, <1>2, <1>3

\* A row is in hand, and on its way.
LEMMA HoldsInv ==
  ASSUME IInv, run.at # "idle", Here <= run.last, run' \in RunState,
         run'.at \in InHand, run'.row # None,
         run'.rows = run.rows, run'.drifted = run.drifted, run'.failure = run.failure,
         run'.mode = run.mode, run'.last = run.last, run'.stored = run.stored,
         InBucket \subseteq InBucket', latest' = latest,
         run.at \in Sending => run'.at \in Sending /\ run'.row = run.row,
         \/ run'.seen = run.seen
         \/ run'.at \in Sending /\ run'.seen = run.seen \cup {run'.row.hash}
  PROVE  Shape' /\ Accounted' /\ SkipsStored'
<1>1. Shape'
  BY DEF IInv, Shape, Here
<1>2. SkipsStored'
  BY DEF IInv, SkipsStored
<1>3. \A h : Now(h) => Now(h)'
  BY DEF Now, Explained
<1>4. Accounted'
  BY <1>3 DEF IInv, Accounted
<1> QED BY <1>1, <1>2, <1>4

\* Whatever else happens leaves the row in hand as it is.
LEMMA SameInv ==
  ASSUME IInv, run'.at = run.at, run'.row = run.row, run'.seen = run.seen,
         run'.rows = run.rows, run'.drifted = run.drifted, run'.failure = run.failure,
         run'.mode = run.mode, run'.last = run.last, run'.stored = run.stored,
         InBucket \subseteq InBucket', latest' = latest
  PROVE  Shape' /\ Accounted' /\ SkipsStored'
<1>1. Shape'
  BY DEF IInv, Shape, Here
<1>2. SkipsStored'
  BY DEF IInv, SkipsStored
<1>3. \A h : Now(h) => Now(h)'
  BY DEF Now, Explained
<1>4. Accounted'
  BY <1>3 DEF IInv, Accounted
<1> QED BY <1>1, <1>2, <1>4

\* While objects are only added, what is published stays stored.
LEMMA PublishedStays ==
  ASSUME PublishedStored, published' = published, InBucket \subseteq InBucket'
  PROVE  PublishedStored'
  BY DEF PublishedStored

-----------------------------------------------------------------------------
(***************************************************************************)
(* Other programs                                                          *)
(***************************************************************************)

LEMMA WriteInv ==
  ASSUME IInv, NEW p \in Paths, Write(p)
  PROVE  IInv'
<1>1. PICK c \in Contents \cup {None}, t \in Times :
        /\ writes < MaxWrites /\ writes' = writes + 1
        /\ disk' = [disk EXCEPT ![p] = [content |-> c, mtime |-> t, ctime |-> clock]]
        /\ IF c = None THEN UNCHANGED <<wasThere, restored>>
           ELSE LET now == StatProps(disk'[p]) IN
                /\ wasThere' = [wasThere EXCEPT ![p] = @ \cup {now}]
                /\ restored' = IF now \in wasThere[p] THEN restored \cup {p}
                                                      ELSE restored
        /\ run' = IF run.at \in Reading /\ Here = p
                  THEN [run EXCEPT !.span = @ \cup {c}] ELSE run
        /\ UNCHANGED <<clock, checked, remote, local>>
  BY DEF Write
<1>a. run \in RunState
  BY DEF IInv, TypeOK
<1>2. /\ run' \in RunState
      /\ run'.at = run.at /\ run'.row = run.row /\ run'.seen = run.seen
      /\ run'.rows = run.rows /\ run'.drifted = run.drifted /\ run'.failure = run.failure
      /\ run'.mode = run.mode /\ run'.last = run.last /\ run'.stored = run.stored
  <2>1. CASE run.at \in Reading /\ Here = p
    <3>1. run' = [run EXCEPT !.span = @ \cup {c}]
      BY <1>1, <2>1
    <3> QED BY <1>a, <3>1 DEF RunState
  <2>2. CASE ~(run.at \in Reading /\ Here = p)
    BY <1>a, <1>1, <2>2
  <2> QED BY <2>1, <2>2
<1>3. TypeOK'
  <2>1. disk'[p] = [content |-> c, mtime |-> t, ctime |-> clock] /\ disk' \in [Paths -> File]
    BY <1>1 DEF IInv, TypeOK, File
  <2>2. /\ wasThere' \in [Paths -> SUBSET [size : Sizes, mtime : Times]]
        /\ restored' \in SUBSET Paths
    <3>1. CASE c = None
      BY <1>1, <3>1 DEF IInv, TypeOK
    <3>2. CASE c # None
      <4> DEFINE now == StatProps(disk'[p])
      <4>1. now \in [size : Sizes, mtime : Times]
        BY <2>1, <3>2 DEF StatProps, Sizes
      <4>2. /\ wasThere' = [wasThere EXCEPT ![p] = @ \cup {now}]
            /\ restored' = IF now \in wasThere[p] THEN restored \cup {p} ELSE restored
        BY <1>1, <3>2
      <4> HIDE DEF now
      <4> QED BY <4>1, <4>2 DEF IInv, TypeOK
    <3> QED BY <3>1, <3>2
  <2>3. writes' \in 0 .. MaxWrites
    BY <1>1 DEF IInv, TypeOK
  <2> QED BY <1>1, <1>2, <2>1, <2>2, <2>3 DEF IInv, TypeOK, remote, local
<1>4. InBucket' = InBucket
  BY <1>1 DEF InBucket, remote
<1>5. Shape' /\ Accounted' /\ SkipsStored'
  BY <1>1, <1>2, <1>4, SameInv DEF local
<1>6. BytesMatchHash' /\ PublishedStored'
  BY <1>1, <1>4, PublishedStays DEF IInv, BytesMatchHash, remote
<1> QED BY <1>3, <1>5, <1>6 DEF IInv

LEMMA StoredElsewhereInv ==
  ASSUME IInv, StoredElsewhere
  PROVE  IInv'
<1> DEFINE h == run.row.hash
<1>1. h \in Contents /\ objects' = [objects EXCEPT ![h] = h]
      /\ UNCHANGED <<files, checked, published, local, run>>
  BY DEF StoredElsewhere
<1>2. TypeOK'
  BY <1>1 DEF IInv, TypeOK, files, local, Hashes
<1>3. InBucket \subseteq InBucket' /\ BytesMatchHash'
  BY <1>1 DEF IInv, TypeOK, InBucket, BytesMatchHash
<1>4. Shape' /\ Accounted' /\ SkipsStored'
  BY <1>1, <1>3, SameInv DEF local
<1>5. PublishedStored'
  BY <1>1, <1>3, PublishedStays DEF IInv
<1> QED BY <1>2, <1>3, <1>4, <1>5 DEF IInv

-----------------------------------------------------------------------------
(***************************************************************************)
(* A pass begins                                                           *)
(***************************************************************************)

LEMMA LookupTyped ==
  ASSUME TypeOK
  PROVE  /\ Lookup \in [Paths -> Row \cup {None}]
         /\ TrustBoundary \in 0 .. MaxClock \cup {None}
<1>1. ASSUME NEW s \in Snapshot \cup {None}, NEW p \in Paths
      PROVE  RowOf(s, p) \in Row \cup {None}
  <2>1. CASE s # None
    <3>1. s.rows \in Rows
      BY <2>1 DEF Snapshot
    <3>2. p \in DOMAIN s.rows => s.rows[p] \in Row \cup {None}
      BY <3>1 DEF Rows
    <3> QED BY <3>2 DEF RowOf
  <2>2. CASE s = None
    BY <2>2 DEF RowOf
  <2> QED BY <2>1, <2>2
<1>2. latest \in Snapshot \cup {None} /\ parked \in Snapshot \cup {None}
  BY DEF TypeOK
<1>3. Lookup \in [Paths -> Row \cup {None}]
  BY <1>1, <1>2 DEF Lookup
<1>4. TrustBoundary \in 0 .. MaxClock \cup {None}
  BY <1>2 DEF TrustBoundary, ParkedUsable, Snapshot
<1> QED BY <1>3, <1>4

\* What needs no upload is stored.
LEMMA StoredHashesTyped ==
  ASSUME TypeOK, PublishedStored
  PROVE  StoredHashes \subseteq InBucket /\ InBucket \subseteq Hashes
  BY DEF StoredHashes, PublishedStored, InBucket, Hashes

\* A pass that has just begun has nothing to account for.
LEMMA BeginsInv ==
  ASSUME IInv, run' \in RunState, run'.rows = <<>>, run'.seen = {}, run'.failure = None,
         run'.at = "row",
         run'.mode = "file" => run'.last \in Paths, run'.mode # "file" => run'.last = N,
         run'.mode = "upload" => latest # None,
         run'.stored \subseteq InBucket, UNCHANGED <<objects, latest>>
  PROVE  Shape' /\ Accounted' /\ SkipsStored'
<1>1. InBucket' = InBucket
  BY DEF InBucket
<1>2. Shape'
  BY DEF IInv, Shape, InHand
<1>3. DOMAIN run'.rows = {}
  OBVIOUS
<1>4. Accounted'
  BY <1>3 DEF Accounted
<1> QED BY <1>1, <1>2, <1>4 DEF SkipsStored

LEMMA BeginInv ==
  ASSUME IInv, BeginPass("snapshot") \/ BeginPass("backup") \/ BeginUpload \/ BeginSeed
  PROVE  IInv'
<1>1. /\ run' \in RunState
      /\ run'.rows = <<>> /\ run'.seen = {} /\ run'.failure = None /\ run'.at = "row"
      /\ run'.mode = "file" => run'.last \in Paths
      /\ run'.mode # "file" => run'.last = N
      /\ run'.mode = "upload" => latest # None
      /\ run'.stored \subseteq InBucket
  <2> USE IdleTyped
  <2>1. ASSUME NEW mode \in {"snapshot", "backup"}, BeginPass(mode)
        PROVE  <1>1!:
    <3>1. PICK rehash \in BOOLEAN :
            run' = [Idle EXCEPT !.at = "row", !.mode = mode, !.since = clock',
                      !.lookup = IF rehash THEN NoLookup ELSE Lookup,
                      !.boundary = IF rehash THEN None ELSE TrustBoundary,
                      !.stored = IF mode = "backup" THEN StoredHashes ELSE {}]
      BY <2>1 DEF BeginPass
    <3> DEFINE lookup == IF rehash THEN NoLookup ELSE Lookup
               boundary == IF rehash THEN None ELSE TrustBoundary
               stored == IF mode = "backup" THEN StoredHashes ELSE {}
    <3>2. /\ lookup \in [Paths -> Row \cup {None}]
          /\ boundary \in 0 .. MaxClock \cup {None}
          /\ stored \subseteq InBucket /\ stored \subseteq Hashes
          /\ clock' \in 0 .. MaxClock
      <4>1. NoLookup \in [Paths -> Row \cup {None}]
        BY DEF NoLookup
      <4>2. lookup \in [Paths -> Row \cup {None}] /\ boundary \in 0 .. MaxClock \cup {None}
        BY <4>1, LookupTyped DEF IInv
      <4>3. stored \subseteq InBucket /\ stored \subseteq Hashes
        BY StoredHashesTyped DEF IInv
      <4>4. clock' \in 0 .. MaxClock
        <5>1. clock \in 0 .. MaxClock
          BY DEF IInv, TypeOK
        <5>2. clock < MaxClock /\ clock' = clock + 1
          BY <2>1 DEF BeginPass
        <5> QED BY <5>1, <5>2
      <4> QED BY <4>2, <4>3, <4>4
    <3> HIDE DEF lookup, boundary, stored
    <3>3. run' = [Idle EXCEPT !.at = "row", !.mode = mode, !.since = clock',
                    !.lookup = lookup, !.boundary = boundary, !.stored = stored]
      BY <3>1 DEF lookup, boundary, stored
    <3>4. run' \in RunState
      BY <3>2, <3>3 DEF RunState, Modes
    <3> QED BY <3>2, <3>3, <3>4 DEF Idle
  <2>2. CASE BeginUpload
    <3>1. latest # None /\ latest \in Snapshot /\ InBucket \subseteq Hashes
      BY <2>2, StoredHashesTyped DEF BeginUpload, IInv, TypeOK
    <3>2. run' = [Idle EXCEPT !.at = "row", !.mode = "upload", !.since = latest.start,
                              !.stored = InBucket]
      BY <2>2 DEF BeginUpload
    <3>3. run' \in RunState
      BY <3>1, <3>2 DEF RunState, Modes, Snapshot
    <3> QED BY <3>1, <3>2, <3>3 DEF Idle
  <2>3. CASE BeginSeed
    <3>1. clock \in 0 .. MaxClock
      BY DEF IInv, TypeOK
    <3>2. CASE run' = [Idle EXCEPT !.at = "row", !.mode = "seed", !.since = clock]
      <4>1. run' \in RunState
        BY <3>1, <3>2 DEF RunState, Modes
      <4> QED BY <3>2, <4>1 DEF Idle
    <3>3. ASSUME NEW p \in Paths, NEW force \in BOOLEAN,
                 run' = [Idle EXCEPT !.at = "row", !.mode = "file", !.since = clock,
                                     !.last = p, !.force = force]
          PROVE  <1>1!:
      <4>1. run' \in RunState
        <5>1. p \in 0 .. N
          BY DEF Paths
        <5> QED BY <3>1, <3>3, <5>1 DEF RunState, Modes
      <4> QED BY <3>3, <4>1 DEF Idle
    <3> QED BY <2>3, <3>2, <3>3 DEF BeginSeed
  <2> QED BY <2>1, <2>2, <2>3
<1>2. UNCHANGED <<disk, wasThere, restored, writes, checked, objects, published, latest, parked>>
      /\ clock' \in 0 .. MaxClock
  <2>1. UNCHANGED <<disk, wasThere, restored, writes, checked, objects, published, latest, parked>>
    BY DEF BeginPass, BeginUpload, BeginSeed, files, remote, local
  <2>2. clock \in 0 .. MaxClock
    BY DEF IInv, TypeOK
  <2>3. clock' = clock \/ (clock < MaxClock /\ clock' = clock + 1)
    BY DEF BeginPass, BeginUpload, BeginSeed, files
  <2> QED BY <2>1, <2>2, <2>3
<1>3. TypeOK'
  BY <1>1, <1>2 DEF IInv, TypeOK
<1>4. InBucket' = InBucket /\ BytesMatchHash' /\ PublishedStored'
  BY <1>2 DEF IInv, InBucket, BytesMatchHash, PublishedStored
<1>5. Shape' /\ Accounted' /\ SkipsStored'
  BY <1>1, <1>2, BeginsInv
<1> QED BY <1>3, <1>4, <1>5 DEF IInv

-----------------------------------------------------------------------------
(***************************************************************************)
(* A row                                                                   *)
(***************************************************************************)

\* A step that takes the row in hand one step on.
LEMMA HoldsAll ==
  ASSUME IInv, run.at # "idle", Here <= run.last, run' \in RunState,
         run'.at \in InHand, run'.row # None,
         run'.rows = run.rows, run'.drifted = run.drifted, run'.failure = run.failure,
         run'.mode = run.mode, run'.last = run.last, run'.stored = run.stored,
         UNCHANGED <<files, checked, remote, local>>,
         run.at \in Sending => run'.at \in Sending /\ run'.row = run.row,
         \/ run'.seen = run.seen
         \/ run'.at \in Sending /\ run'.seen = run.seen \cup {run'.row.hash}
  PROVE  IInv'
<1>1. UNCHANGED <<disk, wasThere, restored, clock, writes, objects, published, latest, parked>>
  BY DEF files, remote, local
<1>2. TypeOK'
  BY <1>1 DEF IInv, TypeOK
<1>3. InBucket' = InBucket /\ BytesMatchHash' /\ PublishedStored'
  BY <1>1 DEF IInv, InBucket, BytesMatchHash, PublishedStored
<1>4. Shape' /\ Accounted' /\ SkipsStored'
  BY <1>1, <1>3, HoldsInv
<1> QED BY <1>2, <1>3, <1>4 DEF IInv

\* A step with which the row goes by and which changes nothing else.
LEMMA PassesAll ==
  ASSUME IInv, Here <= run.last, NEW row \in Row \cup {None},
         NEW seen, NEW drifted, NEW failure,
         Passes(row, seen, drifted, failure),
         failure = None => run.failure = None,
         run.drifted \subseteq drifted,
         UNCHANGED <<files, checked, remote, local>>,
         run.at # "idle", run.at \in Sending => row = run.row,
         failure = None /\ run.mode \notin {"snapshot", "file"} =>
           /\ \A h \in seen \ run.seen : Then(h)
           /\ row # None => Then(row.hash)
  PROVE  IInv'
<1>1. UNCHANGED <<disk, wasThere, restored, clock, writes, objects, published, latest, parked>>
  BY DEF files, remote, local
<1>2. TypeOK'
  BY <1>1 DEF IInv, TypeOK, Passes
<1>3. InBucket' = InBucket /\ BytesMatchHash' /\ PublishedStored'
  BY <1>1 DEF IInv, InBucket, BytesMatchHash, PublishedStored
<1>4. Shape' /\ Accounted' /\ SkipsStored'
  BY <1>1, <1>3, PassesInv
<1> QED BY <1>2, <1>3, <1>4 DEF IInv

LEMMA MoreRowsHere ==
  ASSUME IInv, MoreRows
  PROVE  /\ run.at = "row" /\ Here <= run.last /\ Here \in Paths
         /\ disk[Here] \in File /\ run.lookup[Here] \in Row \cup {None}
<1>1. run.at = "row" /\ Here <= run.last
  BY DEF MoreRows
<1>2. Here \in Paths
  BY <1>1, HereIsPath DEF IInv
<1> QED BY <1>1, <1>2 DEF IInv, TypeOK, RunState

\* A file that isn't hashed ends a run of one file, or leaves no hash.
LEMMA UnhashedInv ==
  ASSUME IInv, run.at \in {"row", "hash"}, Here <= run.last, run' = Unhashed,
         UNCHANGED <<files, checked, remote, local>>
  PROVE  IInv'
<1>1. CASE run.mode = "file"
  <2>1. run' = Idle
    BY <1>1 DEF Unhashed
  <2>2. UNCHANGED <<disk, wasThere, restored, clock, writes, objects, published, latest, parked>>
    BY DEF files, remote, local
  <2>3. TypeOK'
    BY <2>1, <2>2, IdleTyped DEF IInv, TypeOK
  <2>4. InBucket' = InBucket /\ BytesMatchHash' /\ PublishedStored'
    BY <2>2 DEF IInv, InBucket, BytesMatchHash, PublishedStored
  <2>5. Shape' /\ Accounted' /\ SkipsStored'
    BY <2>1, <2>2 DEF IInv, Shape, Accounted, SkipsStored, Idle, InHand
  <2> QED BY <2>3, <2>4, <2>5 DEF IInv
<1>2. CASE run.mode # "file"
  <2>1. run' = RowDone(None)
    BY <1>2 DEF Unhashed
  <2>2. Passes(None, run.seen, run.drifted, run.failure)
    BY <2>1, RowDoneTyped DEF IInv, Passes
  <2> QED BY <2>2, PassesAll DEF Sending
<1> QED BY <1>1, <1>2

LEMMA HashingInv ==
  ASSUME IInv, Reuse \/ StartHash \/ Unhashable \/ Hash \/ ReadRow
  PROVE  IInv'
<1>a. run \in RunState
  BY DEF IInv, TypeOK
<1>1. CASE Reuse
  <2>1. MoreRows /\ run.lookup[Here] # None
        /\ run' = [run EXCEPT !.at = "offer", !.row = run.lookup[Here]]
        /\ UNCHANGED <<files, checked, remote, local>>
    BY <1>1 DEF Reuse, Matches
  <2>2. run.lookup[Here] \in Row
    BY <2>1, MoreRowsHere
  <2>3. run' \in RunState
    BY <1>a, <2>1, <2>2 DEF RunState
  <2> QED BY <1>a, <2>1, <2>2, <2>3, MoreRowsHere, HoldsAll DEF RunState, InHand, Sending
<1>2. CASE StartHash
  <2> DEFINE now == StatProps(disk[Here])
             row == [hash |-> "torn", size |-> now.size, mtime |-> now.mtime]
  <2>1. MoreRows /\ disk[Here].content # None
        /\ run' = [run EXCEPT !.at = "hash", !.span = {disk[Here].content}, !.row = row]
        /\ UNCHANGED <<files, checked, remote, local>>
    BY <1>2 DEF StartHash
  <2>2. disk[Here].content \in Contents /\ disk[Here].mtime \in Times
    BY <2>1, MoreRowsHere DEF File
  <2>3. row \in Row /\ row # None
    <3>1. row \in Row
      BY <2>2 DEF Row, StatProps, Sizes, Hashes
    <3> QED BY <3>1, NoneAssumption
  <2> HIDE DEF row
  <2>4. run' \in RunState
    BY <1>a, <2>1, <2>2, <2>3 DEF RunState
  <2> QED BY <1>a, <2>1, <2>3, <2>4, MoreRowsHere, HoldsAll DEF RunState, InHand, Sending
<1>3. CASE Unhashable
  BY <1>3, MoreRowsHere, UnhashedInv DEF Unhashable
<1>4. CASE Hash
  <2>a. run.at = "hash" /\ run.row \in Row /\ run.row # None /\ Here <= run.last
    BY <1>4, <1>a DEF Hash, IInv, Shape, InHand, RunState
  <2>1. PICK got \in Read :
          run' = IF got # None /\ run.row.size \in Lengths(got)
                 THEN [run EXCEPT !.at = "offer", !.span = {}, !.row.hash = got]
                 ELSE Unhashed
    BY <1>4 DEF Hash
  <2>u. UNCHANGED <<files, checked, remote, local>>
    BY <1>4 DEF Hash
  <2>2. CASE ~(got # None /\ run.row.size \in Lengths(got))
    BY <2>a, <2>1, <2>2, <2>u, UnhashedInv
  <2>3. CASE got # None /\ run.row.size \in Lengths(got)
    <3> DEFINE row == [run.row EXCEPT !.hash = got]
    <3>1. got \in Hashes
      BY <1>a, <2>3 DEF Read, Got, Hashes, RunState
    <3>2. row \in Row /\ row # None
      <4>1. row \in Row
        BY <2>a, <3>1 DEF Row
      <4> QED BY <4>1, NoneAssumption
    <3>3. run' = [run EXCEPT !.at = "offer", !.span = {}, !.row = row]
      BY <1>a, <2>1, <2>3 DEF RunState
    <3> HIDE DEF row
    <3>4. run' \in RunState
      BY <1>a, <3>2, <3>3 DEF RunState
    <3> QED BY <1>a, <2>a, <2>u, <3>2, <3>3, <3>4, HoldsAll DEF RunState, InHand, Sending
  <2> QED BY <2>2, <2>3
<1>5. CASE ReadRow
  <2>1. MoreRows /\ run.mode = "upload" /\ latest # None
    BY <1>5, MoreRowsHere DEF ReadRow, IInv, Shape
  <2>2. latest.rows[Here] \in Row \cup {None}
    <3>1. latest.rows \in Rows /\ Len(latest.rows) = N
      BY <2>1 DEF IInv, TypeOK, Shape, Snapshot
    <3>2. Here \in DOMAIN latest.rows /\ latest.rows \in Seq(Row \cup {None})
      BY <2>1, <3>1, RowsAreSequences, MoreRowsHere DEF Paths
    <3> QED BY <3>1, <3>2 DEF Rows
  <2>3. CASE latest.rows[Here] = None
    <3>1. run' = RowDone(None) /\ UNCHANGED <<files, checked, remote, local>>
      BY <1>5, <2>3 DEF ReadRow
    <3>2. Passes(None, run.seen, run.drifted, run.failure)
      BY <2>1, <3>1, RowDoneTyped, MoreRowsHere DEF IInv, Passes
    <3> QED BY <2>1, <3>1, <3>2, PassesAll, MoreRowsHere DEF Sending
  <2>4. CASE latest.rows[Here] # None
    <3>1. run' = [run EXCEPT !.at = "offer", !.row = latest.rows[Here]]
          /\ UNCHANGED <<files, checked, remote, local>>
      BY <1>5, <2>4 DEF ReadRow
    <3>2. run' \in RunState
      BY <1>a, <2>2, <2>4, <3>1 DEF RunState
    <3> QED BY <1>a, <2>1, <2>2, <2>4, <3>1, <3>2, MoreRowsHere, HoldsAll DEF RunState, InHand, Sending
  <2> QED BY <2>3, <2>4
<1> QED BY <1>1, <1>2, <1>3, <1>4, <1>5

LEMMA NowThen ==
  ASSUME TypeOK, NEW row, NEW seen, NEW drifted, NEW failure,
         Passes(row, seen, drifted, failure),
         run.drifted \subseteq drifted, InBucket \subseteq InBucket',
         NEW h, Now(h)
  PROVE  Then(h)
<1>1. run.rows \in Rows
  BY DEF TypeOK, RunState
<1>2. run.rows \in Seq(Row \cup {None}) /\ DOMAIN run.rows = 1 .. Len(run.rows) /\ Len(run.rows) \in Nat
  BY <1>1, RowsAreSequences
<1>3. run'.drifted = drifted
      /\ run'.rows = IF run.mode = "file" THEN run.rows ELSE Append(run.rows, row)
  BY DEF Passes
<1>4. \A i \in DOMAIN run.rows : i \in DOMAIN run'.rows /\ run'.rows[i] = run.rows[i]
  <2>1. CASE run.mode = "file"
    BY <1>3, <2>1
  <2>2. CASE run.mode # "file"
    <3>1. row \in {row} /\ run.rows \in Seq(Row \cup {None, row})
      BY <1>2, SeqDef
    <3>2. /\ DOMAIN Append(run.rows, row) = 1 .. Len(run.rows) + 1
          /\ \A i \in 1 .. Len(run.rows) : Append(run.rows, row)[i] = run.rows[i]
      BY <1>2, <3>1, AppendProperties
    <3> QED BY <1>2, <1>3, <2>2, <3>2
  <2> QED BY <2>1, <2>2
<1> QED BY <1>3, <1>4 DEF Now, Then, Explained

-----------------------------------------------------------------------------
(***************************************************************************)
(* A transfer                                                              *)
(***************************************************************************)

\* A row in hand is one of the rows; its bytes may be any.
LEMMA InHandHere ==
  ASSUME IInv, run.at \in InHand
  PROVE  /\ run.at # "idle" /\ Here <= run.last /\ Here \in Paths
         /\ run.row \in Row /\ run.row # None /\ run.row.hash \in Hashes
         /\ run \in RunState /\ disk[Here] \in File
         /\ run.mode # "file" => /\ Here = Len(run.rows) + 1
                                 /\ run.rows \in Seq(Row \cup {None})
<1>1. run \in RunState /\ run.rows \in Rows /\ run.row \in Row \cup {None}
  BY DEF IInv, TypeOK, RunState
<1>2. Here <= run.last /\ run.row # None /\ run.at # "idle"
  BY DEF IInv, Shape, InHand
<1>3. Here \in Paths
  BY <1>2, HereIsPath DEF IInv
<1>4. run.row \in Row /\ run.row.hash \in Hashes
  BY <1>1, <1>2 DEF Row
<1>5. run.rows \in Seq(Row \cup {None})
  BY <1>1, RowsAreSequences
<1> QED BY <1>1, <1>2, <1>3, <1>4, <1>5 DEF IInv, TypeOK, Here

\* The four ways in which it goes by.
LEMMA WaysBy ==
  ASSUME IInv, run.at \in InHand
  PROVE  /\ run' = RowDone(run.row) =>
              Passes(run.row, run.seen, run.drifted, run.failure)
         /\ run' = Seen(RowDone(run.row)) =>
              Passes(run.row, run.seen \cup {run.row.hash}, run.drifted, run.failure)
         /\ run' = Drifts(RowDone(run.row)) =>
              Passes(run.row, run.seen, run.drifted \cup {Here}, run.failure)
         /\ run' = Drifts(Seen(RowDone(run.row))) =>
              Passes(run.row, run.seen \cup {run.row.hash}, run.drifted \cup {Here}, run.failure)
         /\ \A why \in {"network", "file"} : run' = Fails(why) =>
              Passes(run.row, run.seen, run.drifted, why)
<1> DEFINE done == RowDone(run.row)
<1>1. /\ done \in RunState
      /\ done.at = IF run.mode = "file" THEN "result" ELSE "row"
      /\ done.rows = IF run.mode = "file" THEN run.rows ELSE Append(run.rows, run.row)
      /\ done.seen = run.seen /\ done.drifted = run.drifted
      /\ done.failure = run.failure /\ done.mode = run.mode
      /\ done.last = run.last /\ done.stored = run.stored
      /\ done.since = run.since /\ done.lookup = run.lookup /\ done.boundary = run.boundary
  BY InHandHere, RowDoneTyped DEF IInv
<1>2. Here \in Paths /\ run.row.hash \in Hashes /\ run.seen \subseteq Hashes
      /\ run.drifted \subseteq Paths
  BY InHandHere DEF RunState
<1> HIDE DEF done
<1>3. run' = done => Passes(run.row, run.seen, run.drifted, run.failure)
  BY <1>1 DEF Passes
<1>4. run' = Seen(done) =>
        Passes(run.row, run.seen \cup {run.row.hash}, run.drifted, run.failure)
  <2> SUFFICES ASSUME run' = [done EXCEPT !.seen = @ \cup {run.row.hash}]
      PROVE Passes(run.row, run.seen \cup {run.row.hash}, run.drifted, run.failure)
    BY DEF Seen
  <2>1. run' \in RunState
    BY <1>1, <1>2 DEF RunState
  <2> QED BY <1>1, <2>1 DEF Passes, RunState
<1>5. run' = Drifts(done) =>
        Passes(run.row, run.seen, run.drifted \cup {Here}, run.failure)
  <2> SUFFICES ASSUME run' = [done EXCEPT !.drifted = @ \cup {Here}]
      PROVE Passes(run.row, run.seen, run.drifted \cup {Here}, run.failure)
    BY DEF Drifts
  <2>1. run' \in RunState
    BY <1>1, <1>2 DEF RunState
  <2> QED BY <1>1, <2>1 DEF Passes, RunState
<1>6. run' = Drifts(Seen(done)) =>
        Passes(run.row, run.seen \cup {run.row.hash}, run.drifted \cup {Here}, run.failure)
  <2> SUFFICES ASSUME run' = [done EXCEPT !.seen = @ \cup {run.row.hash},
                                          !.drifted = @ \cup {Here}]
      PROVE Passes(run.row, run.seen \cup {run.row.hash}, run.drifted \cup {Here}, run.failure)
    BY <1>1 DEF Drifts, Seen, RunState
  <2>1. run' \in RunState
    BY <1>1, <1>2 DEF RunState
  <2> QED BY <1>1, <2>1 DEF Passes, RunState
<1>7. ASSUME NEW why \in {"network", "file"}, run' = [done EXCEPT !.failure = why]
      PROVE  Passes(run.row, run.seen, run.drifted, why)
  <2>1. run' \in RunState
    BY <1>1, <1>7 DEF RunState
  <2> QED BY <1>1, <1>7, <2>1 DEF Passes, RunState
<1> QED BY <1>3, <1>4, <1>5, <1>6, <1>7 DEF done, Fails

\* A file named for a change accounts for its hash.
LEMMA NamedThen ==
  ASSUME IInv, run.at \in InHand, run.mode # "file", NEW seen, NEW failure,
         Passes(run.row, seen, run.drifted \cup {Here}, failure)
  PROVE  Then(run.row.hash)
<1>1. run.rows \in Seq(Row \cup {None}) /\ Here = Len(run.rows) + 1
      /\ run.row \in Row \cup {None} /\ run.row # None
  BY InHandHere
<1>2. run'.rows = Append(run.rows, run.row) /\ Here \in run'.drifted
  BY DEF Passes
<1>3. Here \in DOMAIN run'.rows /\ run'.rows[Here] = run.row
  BY <1>1, <1>2, AppendProperties
<1> QED BY <1>1, <1>2, <1>3 DEF Then, Explained

LEMMA PassOnInv ==
  ASSUME IInv, PassOn
  PROVE  IInv'
<1>1. run.at = "offer" /\ run.at \in InHand /\ run.at \notin Sending
      /\ UNCHANGED <<files, checked, remote, local>>
  BY DEF PassOn, InHand, Sending
<1>2. InBucket' = InBucket
  BY <1>1 DEF InBucket, remote
<1>h. Here <= run.last /\ run.row \in Row \cup {None} /\ run.at # "idle"
  BY <1>1, InHandHere
<1>3. CASE ~Wanted /\ run' = RowDone(run.row)
  <2>1. Passes(run.row, run.seen, run.drifted, run.failure)
    BY <1>1, <1>3, WaysBy
  <2>2. run.failure = None /\ run.mode \notin {"snapshot", "file"} => Then(run.row.hash)
    <3> SUFFICES ASSUME run.failure = None, run.mode \notin {"snapshot", "file"}
        PROVE Then(run.row.hash)
      OBVIOUS
    <3>1. run.row.hash \in run.stored \cup run.seen
      BY <1>3 DEF Wanted
    <3>2. Now(run.row.hash)
      BY <1>1, <3>1 DEF IInv, SkipsStored, Accounted, Now, Explained
    <3> QED BY <1>2, <2>1, <3>2, NowThen DEF IInv
  <2> QED BY <1>1, <1>h, <2>1, <2>2, PassesAll
<1>4. CASE run.failure # None /\ run' = Seen(RowDone(run.row))
  <2>1. Passes(run.row, run.seen \cup {run.row.hash}, run.drifted, run.failure)
    BY <1>1, <1>4, WaysBy
  <2> QED BY <1>1, <1>h, <1>4, <2>1, PassesAll
<1>5. CASE run.failure = None /\ run' = Drifts(Seen(RowDone(run.row)))
  <2>1. Passes(run.row, run.seen \cup {run.row.hash}, run.drifted \cup {Here}, run.failure)
    BY <1>1, <1>5, WaysBy
  <2>2. run.mode # "file" => Then(run.row.hash)
    BY <1>1, <2>1, NamedThen
  <2> QED BY <1>1, <1>h, <2>1, <2>2, PassesAll
<1> QED BY <1>3, <1>4, <1>5 DEF PassOn

LEMMA ConfirmInv ==
  ASSUME IInv, Confirm
  PROVE  IInv'
<1>1. run.at = "offer" /\ run.at \in InHand /\ run.at \notin Sending
      /\ UNCHANGED <<files, checked, remote, local>>
      /\ run' = [run EXCEPT !.seen = @ \cup {run.row.hash}, !.at = "confirmed"]
  BY DEF Confirm, Seen, InHand, Sending
<1>2. run' \in RunState
  BY <1>1, InHandHere DEF RunState
<1> QED BY <1>1, <1>2, InHandHere, HoldsAll DEF RunState, InHand, Sending

LEMMA StartSendInv ==
  ASSUME IInv, StartSend
  PROVE  IInv'
<1>1. run.at = "confirmed" /\ run.at \in InHand
      /\ UNCHANGED <<files, checked, remote, local>>
  BY DEF StartSend, InHand
<1>2. InBucket' = InBucket
  BY <1>1 DEF InBucket, remote
<1>h. /\ Here <= run.last /\ run.row \in Row \cup {None} /\ run.at # "idle"
      /\ run.row # None /\ run \in RunState /\ disk[Here] \in File
  BY <1>1, InHandHere
<1>3. ASSUME NEW why \in {"network", "file"}, run' = Fails(why)
      PROVE  IInv'
  <2>1. Passes(run.row, run.seen, run.drifted, why)
    BY <1>1, <1>3, WaysBy
  <2> QED BY <1>1, <1>h, <2>1, PassesAll
<1>4. CASE run.row.hash \in InBucket /\ run' = RowDone(run.row)
  <2>1. Passes(run.row, run.seen, run.drifted, run.failure)
    BY <1>1, <1>4, WaysBy
  <2>2. Then(run.row.hash)
    BY <1>2, <1>4 DEF Then, Explained
  <2> QED BY <1>1, <1>h, <2>1, <2>2, PassesAll
<1>5. CASE disk[Here].content # None
           /\ run' = [run EXCEPT !.at = "send", !.span = {disk[Here].content}]
  <2>1. run' \in RunState
    BY <1>h, <1>5 DEF RunState, File
  <2> QED BY <1>1, <1>h, <1>5, <2>1, HoldsAll DEF RunState, InHand, Sending
<1> QED BY <1>3, <1>4, <1>5 DEF StartSend

LEMMA SendInv ==
  ASSUME IInv, Send
  PROVE  IInv'
<1>1. run.at = "send" /\ run.at \in InHand /\ UNCHANGED <<files, checked, published, local>>
  BY DEF Send, InHand
<1>h. /\ Here <= run.last /\ run.row \in Row \cup {None} /\ run.at # "idle"
      /\ run.row # None /\ run \in RunState
  BY <1>1, InHandHere
<1>2. ASSUME NEW why \in {"network", "file"}, run' = Fails(why), UNCHANGED objects
      PROVE  IInv'
  <2>1. Passes(run.row, run.seen, run.drifted, why)
    BY <1>1, <1>2, WaysBy
  <2> QED BY <1>1, <1>h, <1>2, <2>1, PassesAll DEF remote
<1>3. CASE run' = Drifts(RowDone(run.row)) /\ UNCHANGED objects
  <2>1. Passes(run.row, run.seen, run.drifted \cup {Here}, run.failure)
    BY <1>1, <1>3, WaysBy
  <2>2. run.mode # "file" => Then(run.row.hash)
    BY <1>1, <2>1, NamedThen
  <2> QED BY <1>1, <1>h, <1>3, <2>1, <2>2, PassesAll DEF remote
<1>4. CASE run.row.hash \in InBucket /\ run' = RowDone(run.row) /\ UNCHANGED objects
  <2>1. Passes(run.row, run.seen, run.drifted, run.failure)
    BY <1>1, <1>4, WaysBy
  <2>2. Then(run.row.hash)
    BY <1>4 DEF Then, Explained, InBucket
  <2> QED BY <1>1, <1>h, <1>4, <2>1, <2>2, PassesAll DEF remote
<1>5. ASSUME NEW got \in Got(run.span), got # None, SentIsRecorded(got),
             objects' = [objects EXCEPT ![run.row.hash] = got],
             run' \in {RowDone(run.row), Fails("network")}
      PROVE  IInv'
  <2>1. got = run.row.hash /\ got \in Contents
    BY <1>h, <1>5 DEF SentIsRecorded, Got, RunState
  <2>2. objects' = [objects EXCEPT ![got] = got]
    BY <1>5, <2>1
  <2>3. objects' \in [Contents -> Hashes \cup {None}] /\ BytesMatchHash'
        /\ InBucket \subseteq InBucket' /\ run.row.hash \in InBucket'
    BY <2>1, <2>2 DEF IInv, TypeOK, InBucket, BytesMatchHash, Hashes
  <2>4. PICK failure : /\ Passes(run.row, run.seen, run.drifted, failure)
                       /\ failure = None => run.failure = None
    <3>1. CASE run' = RowDone(run.row)
      BY <1>1, <3>1, WaysBy
    <3>2. CASE run' = Fails("network")
      <4>1. Passes(run.row, run.seen, run.drifted, "network")
        BY <1>1, <3>2, WaysBy
      <4> QED BY <4>1
    <3> QED BY <1>5, <3>1, <3>2
  <2>5. Then(run.row.hash)
    BY <2>3 DEF Then, Explained
  <2>6. Shape' /\ Accounted' /\ SkipsStored'
    BY <1>1, <1>h, <2>3, <2>4, <2>5, PassesInv DEF local
  <2>7. TypeOK'
    BY <1>1, <2>3, <2>4 DEF IInv, TypeOK, files, local, Passes
  <2>8. PublishedStored'
    BY <1>1, <2>3, PublishedStays DEF IInv
  <2> QED BY <2>3, <2>6, <2>7, <2>8 DEF IInv
<1> QED BY <1>2, <1>3, <1>4, <1>5 DEF Send, PutObject

-----------------------------------------------------------------------------
(***************************************************************************)
(* The end of a pass                                                       *)
(***************************************************************************)

LEMMA LandInv ==
  ASSUME IInv, Land
  PROVE  IInv'
<1>1. /\ run.at = "row" /\ Here > run.last /\ run' = [run EXCEPT !.at = "result"]
      /\ UNCHANGED <<disk, wasThere, restored, clock, writes, checked, objects, published>>
  BY DEF Land, files, remote
<1>2. run \in RunState /\ run.rows \in Rows /\ run.since \in 0 .. MaxClock
  BY DEF IInv, TypeOK, RunState
<1>3. run' \in RunState /\ run'.at = "result" /\ run'.mode = run.mode
      /\ run'.rows = run.rows /\ run'.last = run.last /\ run'.seen = run.seen
      /\ run'.drifted = run.drifted /\ run'.failure = run.failure /\ run'.stored = run.stored
  BY <1>1, <1>2 DEF RunState
<1>4. /\ {latest', parked'} \subseteq Snapshot \cup {None}
      /\ latest' # None => Len(latest'.rows) = N
      /\ run.mode = "upload" => latest' = latest
  <2>1. CASE run.mode \in {"snapshot", "backup"}
    <3>1. Len(run.rows) \in 0 .. N /\ Len(run.rows) + 1 > N
      BY <1>1, <1>2, <2>1, RowsAreSequences DEF IInv, Shape, Here
    <3>2. latest' = [rows |-> run.rows, start |-> run.since] /\ parked' \in {parked, None}
      BY <2>1 DEF Land
    <3>3. latest' \in Snapshot
      BY <1>2, <3>2 DEF Snapshot
    <3> QED BY <2>1, <3>1, <3>2, <3>3 DEF IInv, TypeOK
  <2>2. CASE run.mode \notin {"snapshot", "backup"}
    BY <2>2 DEF Land, local, IInv, TypeOK, Shape
  <2> QED BY <2>1, <2>2
<1>5. TypeOK'
  BY <1>1, <1>3, <1>4 DEF IInv, TypeOK
<1>6. InBucket' = InBucket /\ BytesMatchHash' /\ PublishedStored' /\ SkipsStored'
  BY <1>1, <1>3 DEF IInv, InBucket, BytesMatchHash, PublishedStored, SkipsStored
<1>7. Shape'
  BY <1>1, <1>3, <1>4 DEF IInv, Shape, InHand
<1>8. Accounted'
  <2>1. \A h : Now(h)' <=> Now(h)
    BY <1>3, <1>6 DEF Now, Explained
  <2> QED BY <1>1, <1>3, <2>1 DEF IInv, Accounted, Sending
<1> QED BY <1>5, <1>6, <1>7, <1>8 DEF IInv

\* What ends with no run at work.
LEMMA IdleInv ==
  ASSUME IInv, run' = Idle, parked' \in Snapshot \cup {None},
         UNCHANGED <<files, checked, objects, latest>>,
         published' \in SUBSET Rows, PublishedStored'
  PROVE  IInv'
<1>1. UNCHANGED <<disk, wasThere, restored, clock, writes>>
  BY DEF files
<1>2. TypeOK'
  BY <1>1, IdleTyped DEF IInv, TypeOK
<1>3. BytesMatchHash' /\ SkipsStored'
  BY DEF IInv, BytesMatchHash, SkipsStored, Idle
<1>4. Shape' /\ Accounted'
  BY DEF IInv, Shape, Accounted, Idle, InHand
<1> QED BY <1>2, <1>3, <1>4 DEF IInv

LEMMA PublishInv ==
  ASSUME IInv, Publish
  PROVE  IInv'
<1>1. /\ run.at = "result" /\ run.mode \in {"backup", "upload"} /\ run.failure = None
      /\ run.drifted = {} /\ published' = published \cup {run.rows}
      /\ run' = Idle /\ UNCHANGED <<files, checked, objects, latest, parked>>
  BY DEF Publish, Succeeds, local
<1>2. run.rows \in Rows
  BY DEF IInv, TypeOK, RunState
<1>3. HashesOf(run.rows) \subseteq InBucket
  BY <1>1 DEF IInv, Accounted, Now, Explained, HashesOf
<1>4. PublishedStored'
  BY <1>1, <1>3 DEF IInv, PublishedStored, InBucket
<1> QED BY <1>1, <1>2, <1>4, IdleInv DEF IInv, TypeOK

LEMMA EndInv ==
  ASSUME IInv, End
  PROVE  IInv'
<1>1. run' = Idle /\ UNCHANGED <<files, checked, objects, published, latest>>
  BY DEF End, remote
<1>2. run.rows \in Rows /\ run.since \in 0 .. MaxClock
      /\ parked \in Snapshot \cup {None}
  BY DEF IInv, TypeOK, RunState
<1>3. \A k \in 0 .. Len(run.rows) : SubSeq(run.rows, 1, k) \in Rows
  <2>1. run.rows \in Seq(Row \cup {None}) /\ Len(run.rows) \in 0 .. N
    BY <1>2, RowsAreSequences
  <2> SUFFICES ASSUME NEW k \in 0 .. Len(run.rows)
      PROVE SubSeq(run.rows, 1, k) \in Rows
    OBVIOUS
  <2>2. SubSeq(run.rows, 1, k) \in Seq(Row \cup {None}) /\ Len(SubSeq(run.rows, 1, k)) = k
    <3>1. 1 \in 1 .. Len(run.rows) + 1 /\ k \in 1 - 1 .. Len(run.rows)
      BY <2>1
    <3> QED BY <2>1, <3>1, SubSeqProperties
  <2>3. k <= N
    BY <2>1
  <2> QED BY <2>2, <2>3, RowsAreSequences
<1>4. parked' \in Snapshot \cup {None}
  <2>1. \A k \in 0 .. Len(run.rows) :
          [rows |-> SubSeq(run.rows, 1, k), start |-> run.since] \in Snapshot
    BY <1>2, <1>3 DEF Snapshot
  <2>2. \/ parked' = parked
        \/ \E k \in 0 .. Len(run.rows) :
             parked' = [rows |-> SubSeq(run.rows, 1, k), start |-> run.since]
    BY DEF End
  <2> QED BY <1>2, <2>1, <2>2
<1>5. PublishedStored'
  BY <1>1 DEF IInv, PublishedStored, InBucket
<1> QED BY <1>1, <1>4, <1>5, IdleInv DEF IInv, TypeOK

LEMMA StutterInv ==
  ASSUME IInv, UNCHANGED vars
  PROVE  IInv'
<1>1. UNCHANGED <<disk, wasThere, restored, clock, writes, checked, objects, published,
                  latest, parked, run>>
  BY DEF vars
<1>2. TypeOK' /\ InBucket' = InBucket
  BY <1>1 DEF IInv, TypeOK, InBucket
<1>3. BytesMatchHash' /\ PublishedStored'
  BY <1>1 DEF IInv, BytesMatchHash, PublishedStored, InBucket
<1>4. Shape' /\ Accounted' /\ SkipsStored'
  BY <1>1, <1>2, SameInv
<1> QED BY <1>2, <1>3, <1>4 DEF IInv

-----------------------------------------------------------------------------
(***************************************************************************)
(* The theorems                                                            *)
(***************************************************************************)

LEMMA InitInv == Init => IInv
<1> SUFFICES ASSUME Init PROVE IInv
  OBVIOUS
<1>1. TypeOK
  <2>1. disk \in [Paths -> File]
    BY DEF Init, File
  <2>2. wasThere \in [Paths -> SUBSET [size : Sizes, mtime : Times]]
    <3>1. \A p \in Paths : StatProps(disk[p]) \in [size : Sizes, mtime : Times]
      BY DEF Init, StatProps, Sizes
    <3> QED BY <3>1 DEF Init
  <2>3. objects \in [Contents -> Hashes \cup {None}]
    BY DEF Init
  <2> QED BY <2>1, <2>2, <2>3, IdleTyped DEF Init, TypeOK
<1>2. Shape /\ Accounted /\ SkipsStored
  BY DEF Init, Shape, Accounted, SkipsStored, Idle, InHand
<1>3. BytesMatchHash /\ PublishedStored
  BY DEF Init, BytesMatchHash, PublishedStored
<1> QED BY <1>1, <1>2, <1>3 DEF IInv

LEMMA NextInv == IInv /\ [Next]_vars => IInv'
<1> SUFFICES ASSUME IInv, [Next]_vars PROVE IInv'
  OBVIOUS
<1>1. CASE (\E p \in Paths : Write(p)) \/ StoredElsewhere
  BY <1>1, WriteInv, StoredElsewhereInv
<1>2. CASE BeginPass("snapshot") \/ BeginPass("backup") \/ BeginUpload \/ BeginSeed
  BY <1>2, BeginInv
<1>3. CASE Reuse \/ StartHash \/ Unhashable \/ Hash \/ ReadRow
  BY <1>3, HashingInv
<1>4. CASE PassOn \/ Confirm \/ StartSend \/ Send
  BY <1>4, PassOnInv, ConfirmInv, StartSendInv, SendInv
<1>5. CASE Land \/ Publish \/ End
  BY <1>5, LandInv, PublishInv, EndInv
<1>6. CASE UNCHANGED vars
  BY <1>6, StutterInv
<1> QED BY <1>1, <1>2, <1>3, <1>4, <1>5, <1>6 DEF Next

\* What each step of every pass keeps, whoever writes to the files meanwhile:
\* the argument behind the theorems below.
LEMMA Inductive == Spec => []IInv
BY InitInv, NextInv, PTL DEF Spec

\* Every variable stays of its type, with any number of files, contents,
\* writes and passes: rows never outgrow the set, and a parked prefix of them
\* is a snapshot's.
THEOREM TypeCorrect == Spec => []TypeOK
<1>1. IInv => TypeOK
  BY DEF IInv
<1> QED BY <1>1, Inductive, PTL

\* What is stored under a hash hashes to it (uploadObjects, putFile): no write
\* by another program, at any moment of a pass, gets a file's other bytes into
\* the bucket.
THEOREM BytesAlwaysMatch == Spec => []BytesMatchHash
<1>1. IInv => BytesMatchHash
  BY DEF IInv
<1> QED BY <1>1, Inductive, PTL

\* Every row of a snapshot in the bucket has its object there (uploadSet,
\* uploadSnapshot), whatever drifted, failed or was skipped on the way.
THEOREM PublishedAlwaysStored == Spec => []PublishedStored
<1>1. IInv => PublishedStored
  BY DEF IInv
<1> QED BY <1>1, Inductive, PTL

\* A seed (uploadDir) that ends without a failure has stored each file it
\* hashed, or names a file of the same content among those it skipped.
THEOREM SeedAccounted == Spec => []SeedStoredOrNamed
<1>1. IInv => SeedStoredOrNamed
  <2> SUFFICES ASSUME IInv, run.at = "result", run.mode = "seed", run.failure = None,
                      NEW i \in DOMAIN run.rows, run.rows[i] # None
      PROVE  \/ run.rows[i].hash \in InBucket
             \/ \E j \in run.drifted : run.rows[j].hash = run.rows[i].hash
    BY DEF SeedStoredOrNamed
  <2>1. Now(run.rows[i].hash)
    BY DEF IInv, Accounted
  <2> QED BY <2>1 DEF Now, Explained
<1> QED BY <1>1, Inductive, PTL

-----------------------------------------------------------------------------
(***************************************************************************)
(* What a recorded row says of its file: the second invariant              *)
(***************************************************************************)
Stat(row) == [size |-> row.size, mtime |-> row.mtime]

\* A file is there, and an lstat of it is the row's.
Looks(row, p) == disk[p].content # None /\ StatProps(disk[p]) = Stat(row)

\* The row is of something its file has been, and still is if it looks so,
\* unless size and time were put back.
Known(row, p) ==
  /\ Stat(row) \in wasThere[p]
  /\ Looks(row, p) => disk[p].content = row.hash \/ p \in restored

\* A file that nobody has changed since s is still the row's.
KeptSince(row, p, s) ==
  disk[p].ctime < s =>
    Looks(row, p) /\ (disk[p].content = row.hash \/ Unnoticed(p))

Sound(row, p, s) == Known(row, p) /\ KeptSince(row, p, s)
RowsSound(rows, s) ==
  \A i \in DOMAIN rows : rows[i] # None => Sound(rows[i], i, s)
SnapshotSound(s) == s # None => s.start <= clock /\ RowsSound(s.rows, s.start)

Shown ==
  \A p \in Paths : disk[p].content # None => StatProps(disk[p]) \in wasThere[p]

\* What fileProps is given of earlier passes, and the time it goes by.
Baseline(lookup, boundary) ==
  \A p \in Paths : lookup[p] # None =>
    /\ Known(lookup[p], p)
    /\ checked => boundary # None /\ KeptSince(lookup[p], p, boundary)
LookupSound == Baseline(run.lookup, run.boundary)

\* Between the lstat of a row and its hash, and between its hash and the guard.
HashSound ==
  run.at = "hash" =>
    /\ Stat(run.row) \in wasThere[Here]
    /\ Looks(run.row, Here) => run.span = {disk[Here].content} \/ Here \in restored
    /\ disk[Here].ctime < run.since =>
         Looks(run.row, Here) /\ run.span = {disk[Here].content}
OfferSound ==
  run.at \in {"offer", "confirmed", "send"} => Sound(run.row, Here, run.since)
SendSound ==
  run.at = "send" /\ disk[Here].ctime < run.since => run.span = {disk[Here].content}

\* No pass is of the future, and one that uploads a snapshot is as old as it.
Begun ==
  /\ run.since <= clock
  /\ run.boundary # None => run.boundary <= clock
  /\ run.at # "idle" /\ run.mode = "upload" => run.since = latest.start

Current ==
  /\ Shown /\ SnapshotSound(latest) /\ SnapshotSound(parked)
  /\ RowsSound(run.rows, run.since) /\ LookupSound
  /\ HashSound /\ OfferSound /\ SendSound /\ Begun /\ DriftIsOfThisPass

\* What other programs may do in any step: a file that changes gets the
\* clock's change time, and is remembered when it looks as it once did.
FilesMove ==
  /\ checked' = checked /\ clock' \in Nat /\ clock <= clock' /\ restored \subseteq restored'
  /\ \A p \in Paths : wasThere[p] \subseteq wasThere'[p]
  /\ \A p \in Paths :
       \/ disk'[p] = disk[p]
       \/ /\ disk'[p].ctime = clock
          /\ disk'[p].content # None =>
               /\ StatProps(disk'[p]) \in wasThere'[p]
               /\ StatProps(disk'[p]) \in wasThere[p] => p \in restored'

LEMMA WriteMoves ==
  ASSUME IInv, NEW q \in Paths, Write(q)
  PROVE  FilesMove
<1>1. PICK c \in Contents \cup {None}, t \in Times :
        /\ disk' = [disk EXCEPT ![q] = [content |-> c, mtime |-> t, ctime |-> clock]]
        /\ IF c = None THEN UNCHANGED <<wasThere, restored>>
           ELSE LET now == StatProps(disk'[q]) IN
                /\ wasThere' = [wasThere EXCEPT ![q] = @ \cup {now}]
                /\ restored' = IF now \in wasThere[q] THEN restored \cup {q}
                                                      ELSE restored
        /\ UNCHANGED <<clock, checked>>
  BY DEF Write
<1>2. clock \in Nat /\ disk \in [Paths -> File]
      /\ wasThere \in [Paths -> SUBSET [size : Sizes, mtime : Times]]
  BY DEF IInv, TypeOK
<1>3. disk'[q] = [content |-> c, mtime |-> t, ctime |-> clock]
      /\ \A p \in Paths \ {q} : disk'[p] = disk[p]
  BY <1>1, <1>2
<1> DEFINE now == StatProps(disk'[q])
<1>4. CASE c = None
  BY <1>1, <1>2, <1>3, <1>4 DEF FilesMove
<1>5. CASE c # None
  <2>1. /\ wasThere' = [wasThere EXCEPT ![q] = @ \cup {now}]
        /\ restored' = IF now \in wasThere[q] THEN restored \cup {q} ELSE restored
    BY <1>1, <1>5
  <2> HIDE DEF now
  <2>2. /\ now \in wasThere'[q] /\ restored \subseteq restored'
        /\ now \in wasThere[q] => q \in restored'
        /\ \A p \in Paths : wasThere[p] \subseteq wasThere'[p]
    BY <1>2, <2>1
  <2> QED BY <1>1, <1>2, <1>3, <2>2 DEF FilesMove, now
<1> QED BY <1>4, <1>5

LEMMA StepMoves ==
  ASSUME IInv, [Next]_vars
  PROVE  FilesMove
<1>1. clock \in Nat
  BY DEF IInv, TypeOK
<1>2. ASSUME UNCHANGED <<disk, wasThere, restored, checked>>,
             clock' = clock \/ clock' = clock + 1
      PROVE  FilesMove
  BY <1>1, <1>2 DEF FilesMove
<1>3. CASE UNCHANGED vars
  BY <1>2, <1>3 DEF vars
<1>4. CASE StoredElsewhere
  BY <1>2, <1>4 DEF StoredElsewhere, files
<1>5. CASE BeginPass("snapshot") \/ BeginPass("backup") \/ BeginUpload \/ BeginSeed
  BY <1>2, <1>5 DEF BeginPass, BeginUpload, BeginSeed, files
<1>6. CASE Reuse \/ StartHash \/ Unhashable \/ Hash \/ ReadRow
  BY <1>2, <1>6 DEF Reuse, StartHash, Unhashable, Hash, ReadRow, files
<1>7. CASE PassOn \/ Confirm \/ StartSend \/ Send
  BY <1>2, <1>7 DEF PassOn, Confirm, StartSend, Send, files
<1>8. CASE Land \/ Publish \/ End
  BY <1>2, <1>8 DEF Land, Publish, End, files
<1> QED BY <1>3, <1>4, <1>5, <1>6, <1>7, <1>8, WriteMoves DEF Next

\* A sound row stays sound, whatever is written.
LEMMA KnownStays ==
  ASSUME FilesMove, NEW p \in Paths, NEW row, Known(row, p)
  PROVE  Known(row, p)'
<1>1. CASE disk'[p] = disk[p]
  BY <1>1 DEF FilesMove, Known, Looks
<1>2. CASE disk'[p] # disk[p]
  BY <1>2 DEF FilesMove, Known, Looks
<1> QED BY <1>1, <1>2

LEMMA KeptStays ==
  ASSUME IInv, FilesMove, NEW p \in Paths, NEW row, NEW s \in Nat, s <= clock,
         KeptSince(row, p, s)
  PROVE  KeptSince(row, p, s)'
<1>1. clock \in Nat
  BY DEF IInv, TypeOK
<1>2. CASE disk'[p] = disk[p]
  BY <1>2 DEF FilesMove, KeptSince, Looks, Unnoticed
<1>3. CASE disk'[p] # disk[p]
  BY <1>1, <1>3 DEF FilesMove, KeptSince
<1> QED BY <1>2, <1>3

LEMMA RowsStay ==
  ASSUME IInv, FilesMove, NEW rows \in Rows, NEW s \in Nat, s <= clock,
         RowsSound(rows, s)
  PROVE  RowsSound(rows, s)'
<1> SUFFICES ASSUME NEW i \in DOMAIN rows, rows[i] # None
    PROVE  Sound(rows[i], i, s)'
  BY DEF RowsSound
<1>1. i \in Paths
  BY RowsAreSequences DEF Paths
<1>2. Sound(rows[i], i, s)
  BY DEF RowsSound
<1> DEFINE row == rows[i]
<1>3. Known(row, i) /\ KeptSince(row, i, s)
  BY <1>2 DEF Sound
<1> HIDE DEF row
<1>4. Known(row, i)' /\ KeptSince(row, i, s)'
  BY <1>1, <1>3, KnownStays, KeptStays
<1> QED BY <1>4 DEF Sound, row

LEMMA SnapshotStays ==
  ASSUME IInv, FilesMove, NEW s \in Snapshot \cup {None}, SnapshotSound(s)
  PROVE  SnapshotSound(s)'
<1> SUFFICES ASSUME s # None
    PROVE  s.start <= clock' /\ RowsSound(s.rows, s.start)'
  BY DEF SnapshotSound
<1>1. s.rows \in Rows /\ s.start \in Nat /\ clock \in Nat /\ clock' \in Nat
  BY DEF Snapshot, IInv, TypeOK, FilesMove
<1>2. s.start <= clock /\ RowsSound(s.rows, s.start) /\ clock <= clock'
  BY DEF SnapshotSound, FilesMove
<1> QED BY <1>1, <1>2, RowsStay

\* What holds of the files, and of the snapshots that stay.
LEMMA LocalStays ==
  ASSUME IInv, Current, FilesMove
  PROVE  /\ Shown'
         /\ latest' = latest => SnapshotSound(latest)'
         /\ parked' = parked => SnapshotSound(parked)'
<1>1. Shown'
  BY DEF Current, Shown, FilesMove
<1>2. latest \in Snapshot \cup {None} /\ parked \in Snapshot \cup {None}
      /\ SnapshotSound(latest) /\ SnapshotSound(parked)
  BY DEF IInv, TypeOK, Current
<1>3. ASSUME latest' = latest PROVE SnapshotSound(latest)'
  BY <1>2, <1>3, SnapshotStays DEF SnapshotSound
<1>4. ASSUME parked' = parked PROVE SnapshotSound(parked)'
  BY <1>2, <1>4, SnapshotStays DEF SnapshotSound
<1> QED BY <1>1, <1>3, <1>4

\* And of the pass, while it goes on to the same rows.
LEMMA PassStays ==
  ASSUME IInv, Current, FilesMove,
         run'.rows = run.rows, run'.since = run.since, run'.lookup = run.lookup,
         run'.boundary = run.boundary, run'.drifted = run.drifted
  PROVE  RowsSound(run.rows, run.since)' /\ LookupSound' /\ DriftIsOfThisPass'
<1>1. /\ run.rows \in Rows /\ run.since \in Nat /\ clock \in Nat
      /\ run.drifted \subseteq Paths /\ disk \in [Paths -> File]
      /\ run.lookup \in [Paths -> Row \cup {None}]
      /\ run.since <= clock
      /\ run.boundary # None => run.boundary \in Nat /\ run.boundary <= clock
  BY DEF IInv, TypeOK, RunState, Current, Begun
<1>2. RowsSound(run.rows, run.since)'
  <2>1. PICK rows \in Rows, s \in Nat : rows = run.rows /\ s = run.since
    BY <1>1
  <2>2. RowsSound(rows, s)
    BY <2>1 DEF Current, RowsSound
  <2>3. RowsSound(rows, s)'
    BY <1>1, <2>1, <2>2, RowsStay
  <2> QED BY <2>1, <2>3 DEF RowsSound, Sound, Known, KeptSince, Looks, Unnoticed
<1>3. LookupSound'
  <2> SUFFICES ASSUME NEW p \in Paths, run.lookup[p] # None
      PROVE  /\ Known(run.lookup[p], p)'
             /\ checked => /\ run.boundary # None
                           /\ KeptSince(run.lookup[p], p, run.boundary)'
    BY DEF LookupSound, Baseline, FilesMove, Known, KeptSince, Looks, Unnoticed
  <2>1. PICK row, s : row = run.lookup[p] /\ s = run.boundary
    OBVIOUS
  <2>2. Known(row, p) /\ (checked => s # None /\ KeptSince(row, p, s))
    BY <2>1 DEF Current, LookupSound, Baseline, Known, KeptSince, Looks, Unnoticed
  <2>3. Known(row, p)'
    BY <2>2, KnownStays
  <2>4. checked => s # None /\ KeptSince(row, p, s)'
    BY <1>1, <2>1, <2>2, KeptStays
  <2> QED BY <2>1, <2>3, <2>4 DEF Known, KeptSince, Looks, Unnoticed
<1>4. DriftIsOfThisPass'
  BY <1>1 DEF Current, DriftIsOfThisPass, FilesMove, Unnoticed
<1> QED BY <1>2, <1>3, <1>4

\* A step that keeps the pass at the same row.
LEMMA HoldsCurrent ==
  ASSUME IInv, Current, FilesMove, UNCHANGED local,
         run'.rows = run.rows, run'.since = run.since, run'.lookup = run.lookup,
         run'.boundary = run.boundary, run'.drifted = run.drifted,
         run'.mode = run.mode, run'.at # "idle" => run.at # "idle",
         HashSound', OfferSound', SendSound'
  PROVE  Current'
<1>1. latest' = latest /\ parked' = parked
  BY DEF local
<1>2. Begun'
  <2>1. run.since \in Nat /\ clock \in Nat /\ clock' \in Nat /\ clock <= clock'
        /\ (run.boundary # None => run.boundary \in Nat)
    BY DEF IInv, TypeOK, RunState, FilesMove
  <2> QED BY <1>1, <2>1 DEF Current, Begun
<1>3. RowsSound(run.rows, run.since)' /\ LookupSound' /\ DriftIsOfThisPass'
  BY PassStays
<1>4. Shown' /\ SnapshotSound(latest)' /\ SnapshotSound(parked)'
  BY <1>1, LocalStays
<1> QED BY <1>2, <1>3, <1>4 DEF Current

\* A step with which the row goes by.
LEMMA PassesCurrent ==
  ASSUME IInv, Current, Here <= run.last, run.at # "idle",
         NEW row \in Row \cup {None}, NEW seen, NEW drifted, NEW failure,
         Passes(row, seen, drifted, failure),
         UNCHANGED <<files, checked, local>>,
         row # None => Sound(row, Here, run.since),
         drifted \subseteq run.drifted \cup {Here},
         Here \in drifted \ run.drifted =>
           Unnoticed(Here) \/ disk[Here].ctime >= run.since
  PROVE  Current'
<1>1. UNCHANGED <<disk, wasThere, restored, clock, checked, latest, parked>>
  BY DEF files, local
<1>2. /\ run'.since = run.since /\ run'.lookup = run.lookup
      /\ run'.boundary = run.boundary /\ run'.drifted = drifted /\ run'.mode = run.mode
      /\ run'.at \in {"row", "result"}
      /\ run'.rows = IF run.mode = "file" THEN run.rows ELSE Append(run.rows, row)
  BY DEF Passes
<1>3. RowsSound(run.rows, run.since)'
  <2>1. CASE run.mode = "file"
    BY <1>1, <1>2, <2>1
       DEF Current, RowsSound, Sound, Known, KeptSince, Looks, Unnoticed
  <2>2. CASE run.mode # "file"
    <3>1. run.rows \in Seq(Row \cup {None}) /\ Here = Len(run.rows) + 1
          /\ Len(run.rows) \in Nat /\ DOMAIN run.rows = 1 .. Len(run.rows)
      BY <2>2, RowsAreSequences DEF IInv, TypeOK, RunState, Here
    <3>2. /\ DOMAIN run'.rows = 1 .. Here /\ run'.rows[Here] = row
          /\ \A i \in DOMAIN run.rows : run'.rows[i] = run.rows[i]
      BY <1>2, <2>2, <3>1, AppendProperties
    <3> SUFFICES ASSUME NEW i \in DOMAIN run'.rows, run'.rows[i] # None
        PROVE  Sound(run'.rows[i], i, run.since)
      BY <1>1, <1>2 DEF RowsSound, Sound, Known, KeptSince, Looks, Unnoticed
    <3>3. CASE i = Here
      BY <3>2, <3>3 DEF Sound, Known, KeptSince, Looks
    <3>4. CASE i # Here
      <4>1. i \in DOMAIN run.rows /\ run'.rows[i] = run.rows[i]
        BY <3>1, <3>2, <3>4
      <4> QED BY <4>1 DEF Current, RowsSound, Sound, Known, KeptSince, Looks
    <3> QED BY <3>3, <3>4
  <2> QED BY <2>1, <2>2
<1>4. Shown' /\ SnapshotSound(latest)' /\ SnapshotSound(parked)'
  BY <1>1 DEF Current, Shown, SnapshotSound, RowsSound, Sound, Known, KeptSince,
              Looks, Unnoticed
<1>5. LookupSound'
  BY <1>1, <1>2 DEF Current, LookupSound, Baseline, Known, KeptSince, Looks, Unnoticed
<1>6. HashSound' /\ OfferSound' /\ SendSound'
  BY <1>2 DEF HashSound, OfferSound, SendSound
<1>7. Begun'
  BY <1>1, <1>2 DEF Current, Begun
<1>8. DriftIsOfThisPass'
  BY <1>1, <1>2 DEF Current, DriftIsOfThisPass, Unnoticed
<1> QED BY <1>3, <1>4, <1>5, <1>6, <1>7, <1>8 DEF Current

\* What ends with no run at work.
LEMMA IdleCurrent ==
  ASSUME IInv, Current, FilesMove, run' = Idle, latest' = latest, SnapshotSound(parked)'
  PROVE  Current'
<1>1. Shown' /\ SnapshotSound(latest)'
  BY LocalStays
<1>2. RowsSound(run.rows, run.since)' /\ LookupSound'
  BY DEF RowsSound, LookupSound, Baseline, Idle, NoLookup
<1>3. HashSound' /\ OfferSound' /\ SendSound' /\ DriftIsOfThisPass'
  BY DEF HashSound, OfferSound, SendSound, DriftIsOfThisPass, Idle
<1>4. Begun'
  BY DEF Begun, Idle, FilesMove
<1> QED BY <1>1, <1>2, <1>3, <1>4 DEF Current

LEMMA InitCurrent == Init => Current
<1> SUFFICES ASSUME Init PROVE Current
  OBVIOUS
<1>1. run = Idle /\ latest = None /\ parked = None /\ clock = 0
      /\ wasThere = [p \in Paths |-> {StatProps(disk[p])}]
  BY DEF Init
<1>2. Shown /\ SnapshotSound(latest) /\ SnapshotSound(parked)
  BY <1>1 DEF Shown, SnapshotSound
<1>3. RowsSound(run.rows, run.since) /\ LookupSound
  BY <1>1 DEF RowsSound, LookupSound, Baseline, Idle, NoLookup
<1>4. HashSound /\ OfferSound /\ SendSound /\ Begun /\ DriftIsOfThisPass
  BY <1>1 DEF HashSound, OfferSound, SendSound, Begun, DriftIsOfThisPass, Idle
<1> QED BY <1>2, <1>3, <1>4 DEF Current

-----------------------------------------------------------------------------
(***************************************************************************)
(* It holds through every step                                             *)
(***************************************************************************)

\* A write while the file is read is one more thing the reader may get, and no
\* older than the pass.
LEMMA WriteCurrent ==
  ASSUME IInv, Current, NEW q \in Paths, Write(q)
  PROVE  Current'
<1>m. FilesMove
  BY WriteMoves
<1>1. PICK c \in Contents \cup {None}, t \in Times :
        /\ disk' = [disk EXCEPT ![q] = [content |-> c, mtime |-> t, ctime |-> clock]]
        /\ run' = IF run.at \in Reading /\ Here = q
                  THEN [run EXCEPT !.span = @ \cup {c}] ELSE run
        /\ UNCHANGED local
  BY DEF Write
<1>a. run \in RunState /\ disk \in [Paths -> File] /\ clock \in Nat /\ run.since \in Nat
      /\ run.since <= clock
  BY DEF IInv, TypeOK, RunState, Current, Begun
<1>2. /\ run'.at = run.at /\ run'.row = run.row /\ run'.rows = run.rows
      /\ run'.since = run.since /\ run'.lookup = run.lookup /\ run'.mode = run.mode
      /\ run'.boundary = run.boundary /\ run'.drifted = run.drifted
      /\ run'.last = run.last
  <2>1. CASE run.at \in Reading /\ Here = q
    <3>1. run' = [run EXCEPT !.span = @ \cup {c}]
      BY <1>1, <2>1
    <3> QED BY <1>a, <3>1 DEF RunState
  <2>2. CASE ~(run.at \in Reading /\ Here = q)
    BY <1>1, <2>2
  <2> QED BY <2>1, <2>2
<1>3. Here' = Here
  BY <1>2 DEF Here
<1>4. disk'[q].ctime = clock /\ disk'[q].content = c
      /\ \A p \in Paths \ {q} : disk'[p] = disk[p]
  BY <1>1, <1>a
<1>5. run.at \in InHand => Here \in Paths /\ run.row \in Row
  BY InHandHere
<1>6. HashSound'
  <2> SUFFICES ASSUME run.at = "hash"
      PROVE  /\ Stat(run.row) \in wasThere'[Here]
             /\ Looks(run.row, Here)' =>
                  run'.span = {disk'[Here].content} \/ Here \in restored'
             /\ disk'[Here].ctime < run.since =>
                  Looks(run.row, Here)' /\ run'.span = {disk'[Here].content}
    BY <1>2, <1>3 DEF HashSound, Looks
  <2>1. Here \in Paths
    BY <1>5 DEF InHand
  <2>2. /\ Stat(run.row) \in wasThere[Here]
        /\ Looks(run.row, Here) => run.span = {disk[Here].content} \/ Here \in restored
        /\ disk[Here].ctime < run.since =>
             Looks(run.row, Here) /\ run.span = {disk[Here].content}
    BY DEF Current, HashSound
  <2>3. CASE q # Here
    <3>1. run' = run /\ disk'[Here] = disk[Here]
      BY <1>1, <1>4, <2>1, <2>3
    <3> QED BY <1>2, <1>3, <1>m, <2>1, <2>2, <3>1 DEF FilesMove, Looks
  <2>4. CASE q = Here
    <3>1. ~(disk'[Here].ctime < run.since)
      BY <1>a, <1>4, <2>4
    <3>2. CASE disk'[Here] = disk[Here]
      <4>1. c = disk[Here].content
        BY <1>4, <2>4, <3>2
      <4>2. run' = [run EXCEPT !.span = @ \cup {c}]
        BY <1>1, <2>4 DEF Reading
      <4>3. run'.span = run.span \cup {c}
        BY <1>a, <4>2 DEF RunState
      <4> QED BY <1>2, <1>3, <1>m, <2>1, <2>2, <3>1, <3>2, <4>1, <4>3 DEF FilesMove, Looks
    <3>3. CASE disk'[Here] # disk[Here]
      BY <1>2, <1>3, <1>m, <2>1, <2>2, <3>1, <3>3 DEF FilesMove, Looks
    <3> QED BY <3>2, <3>3
  <2> QED BY <2>3, <2>4
<1>7. OfferSound'
  <2> SUFFICES ASSUME run.at \in {"offer", "confirmed", "send"}
      PROVE  Sound(run.row, Here, run.since)'
    BY <1>2 DEF OfferSound
  <2>a. Here \in Paths
    BY <1>5 DEF InHand
  <2>1. PICK row, p, s : row = run.row /\ p = Here /\ s = run.since
    OBVIOUS
  <2>2. Known(row, p) /\ KeptSince(row, p, s)
    BY <2>1 DEF Current, OfferSound, Sound, Known, KeptSince, Looks, Unnoticed
  <2>3. Known(row, p)' /\ KeptSince(row, p, s)'
    BY <1>a, <1>m, <2>a, <2>1, <2>2, KnownStays, KeptStays
  <2> QED BY <1>2, <1>3, <2>1, <2>3 DEF Sound, Known, KeptSince, Looks, Unnoticed
<1>8. SendSound'
  <2> SUFFICES ASSUME run.at = "send", disk'[Here].ctime < run.since
      PROVE  run'.span = {disk'[Here].content}
    BY <1>2, <1>3 DEF SendSound
  <2>1. Here \in Paths /\ q # Here
    BY <1>5, <1>4, <1>a DEF InHand
  <2>2. run' = run /\ disk'[Here] = disk[Here]
    BY <1>1, <1>4, <2>1
  <2> QED BY <2>2 DEF Current, SendSound
<1> QED BY <1>m, <1>1, <1>2, <1>6, <1>7, <1>8, HoldsCurrent

LEMMA StoredElsewhereCurrent ==
  ASSUME IInv, Current, StoredElsewhere
  PROVE  Current'
<1>1. UNCHANGED <<disk, wasThere, restored, clock, checked, latest, parked, run>>
  BY DEF StoredElsewhere, files, local
<1> QED BY <1>1 DEF Current, Shown, SnapshotSound, RowsSound, LookupSound, Baseline,
                    HashSound,
                    OfferSound, SendSound, Begun, DriftIsOfThisPass, Sound, Known,
                    KeptSince, Looks, Unnoticed, Here

\* The rows an earlier pass left are those of readBaseline, and trustBoundary
\* is no later than the pass that recorded any of them.
LEMMA BaselineSound ==
  ASSUME IInv, Current, NEW p \in Paths, Lookup[p] # None
  PROVE  /\ Known(Lookup[p], p)
         /\ checked => /\ TrustBoundary # None /\ TrustBoundary <= clock
                       /\ KeptSince(Lookup[p], p, TrustBoundary)
<1>1. ASSUME NEW s \in {latest, parked}, RowOf(s, p) # None
      PROVE  /\ Known(RowOf(s, p), p) /\ KeptSince(RowOf(s, p), p, s.start)
             /\ s # None /\ s.start \in Nat /\ s.start <= clock /\ s.start # None
  <2>1. s # None /\ p \in DOMAIN s.rows /\ RowOf(s, p) = s.rows[p]
    BY <1>1 DEF RowOf
  <2>2. s \in Snapshot
    BY <2>1 DEF IInv, TypeOK
  <2>3. s.start <= clock /\ Sound(s.rows[p], p, s.start)
    BY <1>1, <2>1 DEF Current, SnapshotSound, RowsSound
  <2> QED BY <2>1, <2>2, <2>3 DEF Sound, Snapshot
<1>2. Lookup[p] = IF ParkedUsable /\ RowOf(parked, p) # None THEN RowOf(parked, p)
                                                              ELSE RowOf(latest, p)
  BY DEF Lookup
<1>t. /\ disk[p].ctime \in Nat /\ {latest, parked} \subseteq Snapshot \cup {None}
      /\ \A s \in Snapshot : s.start # None /\ s.start \in Nat
  BY DEF IInv, TypeOK, File, Snapshot
<1>3. CASE ParkedUsable /\ RowOf(parked, p) # None
  <2>1. /\ Known(Lookup[p], p) /\ KeptSince(Lookup[p], p, parked.start)
        /\ parked.start \in Nat /\ parked.start <= clock
    BY <1>1, <1>2, <1>3
  <2>2. CASE latest = None
    BY <1>3, <1>t, <2>1, <2>2 DEF TrustBoundary, IInv, TypeOK, Snapshot
  <2>3. CASE latest # None
    <3>1. /\ latest.start # None /\ latest.start \in Nat
          /\ latest.start <= parked.start /\ latest.start <= clock
      BY <1>3, <1>t, <2>3 DEF ParkedUsable, Snapshot, Current, SnapshotSound
    <3>2. TrustBoundary = IF checked THEN latest.start ELSE None
      BY <2>3 DEF TrustBoundary, IInv, TypeOK
    <3>3. KeptSince(Lookup[p], p, latest.start)
      BY <1>t, <2>1, <3>1 DEF KeptSince
    <3> QED BY <2>1, <3>1, <3>2, <3>3
  <2> QED BY <2>2, <2>3
<1>4. CASE ~(ParkedUsable /\ RowOf(parked, p) # None)
  <2>1. /\ Known(Lookup[p], p) /\ KeptSince(Lookup[p], p, latest.start)
        /\ latest # None /\ latest.start \in Nat /\ latest.start <= clock
        /\ latest.start # None
    BY <1>1, <1>2, <1>4
  <2>2. TrustBoundary = IF checked THEN latest.start ELSE None
    BY <2>1 DEF TrustBoundary, IInv, TypeOK
  <2> QED BY <2>1, <2>2
<1> QED BY <1>3, <1>4

\* A pass that has just begun, with what it was given.
LEMMA BeginsCurrent ==
  ASSUME IInv, Current, FilesMove, UNCHANGED <<disk, wasThere, restored, checked, local>>,
         run'.rows = <<>>, run'.at = "row", run'.drifted = {},
         run'.since \in Nat, run'.since <= clock',
         run'.mode = "upload" => run'.since = latest.start,
         run'.boundary # None => run'.boundary <= clock',
         Baseline(run'.lookup, run'.boundary)
  PROVE  Current'
<1>1. Shown' /\ SnapshotSound(latest)' /\ SnapshotSound(parked)'
  BY LocalStays DEF local
<1>2. RowsSound(run.rows, run.since)' /\ HashSound' /\ OfferSound' /\ SendSound'
      /\ DriftIsOfThisPass'
  BY DEF RowsSound, HashSound, OfferSound, SendSound, DriftIsOfThisPass
<1>3. LookupSound'
  BY DEF LookupSound, Baseline, Known, KeptSince, Looks, Unnoticed
<1>4. Begun'
  BY DEF Begun, local
<1> QED BY <1>1, <1>2, <1>3, <1>4 DEF Current

LEMMA BeginCurrent ==
  ASSUME IInv, Current,
         BeginPass("snapshot") \/ BeginPass("backup") \/ BeginUpload \/ BeginSeed
  PROVE  Current'
<1>m. FilesMove
  BY StepMoves DEF Next
<1>n. clock \in Nat
  BY DEF IInv, TypeOK
<1>1. ASSUME NEW mode \in {"snapshot", "backup"}, BeginPass(mode)
      PROVE  Current'
  <2>1. PICK rehash \in BOOLEAN :
          run' = [Idle EXCEPT !.at = "row", !.mode = mode, !.since = clock',
                    !.lookup = IF rehash THEN NoLookup ELSE Lookup,
                    !.boundary = IF rehash THEN None ELSE TrustBoundary,
                    !.stored = IF mode = "backup" THEN StoredHashes ELSE {}]
    BY <1>1 DEF BeginPass
  <2>2. /\ run'.rows = <<>> /\ run'.at = "row" /\ run'.drifted = {}
        /\ run'.since = clock' /\ run'.mode = mode
        /\ run'.lookup = (IF rehash THEN NoLookup ELSE Lookup)
        /\ run'.boundary = (IF rehash THEN None ELSE TrustBoundary)
    BY <2>1 DEF Idle
  <2>3. clock' = clock + 1 /\ UNCHANGED <<disk, wasThere, restored, checked, local>>
    BY <1>1 DEF BeginPass
  <2>4. TrustBoundary # None => TrustBoundary <= clock'
    <3> SUFFICES ASSUME TrustBoundary # None PROVE TrustBoundary <= clock'
      OBVIOUS
    <3>1. PICK s \in {latest, parked} : s # None /\ TrustBoundary = s.start
      BY DEF TrustBoundary, ParkedUsable
    <3>2. s \in Snapshot /\ s.start <= clock
      BY <3>1 DEF IInv, TypeOK, Current, SnapshotSound
    <3> QED BY <1>n, <2>3, <3>1, <3>2 DEF Snapshot
  <2>5. Baseline(run'.lookup, run'.boundary)
    <3>1. CASE rehash
      BY <2>2, <3>1 DEF NoLookup, Baseline
    <3>2. CASE ~rehash
      <4>1. run'.lookup = Lookup /\ run'.boundary = TrustBoundary
        BY <2>2, <3>2
      <4> QED BY <4>1, BaselineSound DEF Baseline
    <3> QED BY <3>1, <3>2
  <2>6. run'.boundary # None => run'.boundary <= clock'
    BY <2>2, <2>4
  <2>7. /\ run'.rows = <<>> /\ run'.at = "row" /\ run'.drifted = {}
        /\ run'.since \in Nat /\ run'.since <= clock'
        /\ run'.mode = "upload" => run'.since = latest.start
    BY <1>n, <2>2, <2>3
  <2>8. UNCHANGED <<disk, wasThere, restored, checked, local>>
    BY <2>3
  <2> QED BY <1>m, <2>5, <2>6, <2>7, <2>8, BeginsCurrent
<1>2. CASE BeginUpload \/ BeginSeed
  <2>1. /\ run'.rows = <<>> /\ run'.at = "row" /\ run'.drifted = {}
        /\ run'.lookup = NoLookup /\ run'.boundary = None
        /\ \/ run'.since = clock /\ run'.mode \in {"seed", "file"}
           \/ run'.since = latest.start /\ latest # None
    <3>1. CASE BeginUpload
      BY <3>1 DEF BeginUpload, Idle
    <3>2. CASE BeginSeed
      <4>1. CASE run' = [Idle EXCEPT !.at = "row", !.mode = "seed", !.since = clock]
        BY <4>1 DEF Idle
      <4>2. ASSUME NEW p \in Paths, NEW force \in BOOLEAN,
                   run' = [Idle EXCEPT !.at = "row", !.mode = "file", !.since = clock,
                                       !.last = p, !.force = force]
            PROVE  <2>1!:
        BY <4>2 DEF Idle
      <4> QED BY <3>2, <4>1, <4>2 DEF BeginSeed
    <3> QED BY <1>2, <3>1, <3>2
  <2>2. UNCHANGED <<disk, wasThere, restored, clock, checked, local>>
    BY <1>2 DEF BeginUpload, BeginSeed, files
  <2>3. latest # None => latest.start \in Nat /\ latest.start <= clock
    BY DEF IInv, TypeOK, Snapshot, Current, SnapshotSound
  <2>4. run'.since \in Nat /\ run'.since <= clock'
        /\ (run'.mode = "upload" => run'.since = latest.start)
    BY <1>n, <2>1, <2>2, <2>3
  <2>5. Baseline(run'.lookup, run'.boundary)
    BY <2>1 DEF NoLookup, Baseline
  <2> QED BY <1>m, <2>1, <2>2, <2>4, <2>5, BeginsCurrent
<1> QED BY <1>1, <1>2

\* What fileProps answers from an earlier pass is the file's, now and since
\* the pass began.
LEMMA ReuseSound ==
  ASSUME IInv, Current, Reuse
  PROVE  /\ run'.row = run.lookup[Here] /\ run'.row.hash = run.lookup[Here].hash
         /\ Unnoticed(Here) \/ run'.row.hash = disk[Here].content
         /\ Sound(run.lookup[Here], Here, run.since)
<1>1. /\ MoreRows /\ disk[Here].content # None
      /\ Matches(run.lookup[Here], disk[Here])
      /\ run' = [run EXCEPT !.at = "offer", !.row = run.lookup[Here]]
  BY DEF Reuse
<1>2. Here \in Paths /\ disk[Here] \in File
  BY <1>1, MoreRowsHere
<1> DEFINE row == run.lookup[Here]
<1>3. run'.row = row
  BY <1>1 DEF IInv, TypeOK, RunState
<1>4. row # None /\ Looks(row, Here) /\ TrustMatch(disk[Here], run.boundary)
  BY <1>1 DEF Matches, Looks, Stat
<1>5. Known(row, Here)
      /\ (checked => run.boundary # None /\ KeptSince(row, Here, run.boundary))
  BY <1>2, <1>4 DEF Current, LookupSound, Baseline
<1> HIDE DEF row
<1>6. row.hash = disk[Here].content \/ Unnoticed(Here)
  BY <1>4, <1>5 DEF Known, KeptSince, Unnoticed, TrustMatch
<1>7. Sound(row, Here, run.since)
  BY <1>4, <1>5, <1>6 DEF Sound, KeptSince
<1> QED BY <1>3, <1>6, <1>7 DEF row

LEMMA UnhashedCurrent ==
  ASSUME IInv, Current, FilesMove, run.at \in {"row", "hash"}, Here <= run.last,
         run' = Unhashed, UNCHANGED <<files, checked, local>>
  PROVE  Current'
<1>1. CASE run.mode = "file"
  BY <1>1, IdleCurrent, LocalStays DEF Unhashed, local
<1>2. CASE run.mode # "file"
  <2>1. run' = RowDone(None)
    BY <1>2 DEF Unhashed
  <2>2. Passes(None, run.seen, run.drifted, run.failure)
    BY <2>1, RowDoneTyped DEF IInv, Passes
  <2> QED BY <2>2, PassesCurrent
<1> QED BY <1>1, <1>2

\* What Hash gets when nothing was put back is what the file held all along.
LEMMA ReadIsWhatWasThere ==
  ASSUME IInv, run.at = "hash", NEW got \in Read, got # None,
         Looks(run.row, Here), run.span = {disk[Here].content}
  PROVE  got = disk[Here].content
<1>1. disk[Here] \in File /\ Size[disk[Here].content] = run.row.size
  BY InHandHere DEF Looks, StatProps, Stat, InHand
<1>2. disk[Here].content \in Contents
  BY <1>1 DEF Looks, File
<1> QED BY <1>1, <1>2 DEF Read, Got

LEMMA HashingCurrent ==
  ASSUME IInv, Current, Reuse \/ StartHash \/ Unhashable \/ Hash \/ ReadRow
  PROVE  Current'
<1>a. run \in RunState
  BY DEF IInv, TypeOK
<1>m. FilesMove
  BY StepMoves DEF Next
<1>u. UNCHANGED <<disk, wasThere, restored, checked, latest, parked, local, files>>
  BY DEF Reuse, StartHash, Unhashable, Hash, ReadRow, files, local
<1>1. CASE Reuse
  <2>1. /\ run'.at = "offer" /\ run'.row = run.lookup[Here] /\ run'.rows = run.rows
        /\ run'.since = run.since /\ run'.lookup = run.lookup /\ run'.mode = run.mode
        /\ run'.boundary = run.boundary /\ run'.drifted = run.drifted
        /\ run'.last = run.last /\ run.at = "row"
    BY <1>1, <1>a DEF Reuse, MoreRows, RunState
  <2>2. Here' = Here /\ Sound(run.lookup[Here], Here, run.since)
    BY <1>1, <2>1, ReuseSound DEF Here
  <2>3. HashSound' /\ OfferSound' /\ SendSound'
    BY <1>u, <2>1, <2>2 DEF HashSound, OfferSound, SendSound, Sound, Known, KeptSince,
                            Looks, Unnoticed
  <2> QED BY <1>m, <1>u, <2>1, <2>3, HoldsCurrent
<1>2. CASE StartHash
  <2> DEFINE now == StatProps(disk[Here])
             row == [hash |-> "torn", size |-> now.size, mtime |-> now.mtime]
  <2>1. MoreRows /\ disk[Here].content # None
        /\ run' = [run EXCEPT !.at = "hash", !.span = {disk[Here].content}, !.row = row]
    BY <1>2 DEF StartHash
  <2>2. Stat(row) = StatProps(disk[Here])
    BY DEF Stat, StatProps
  <2> HIDE DEF row
  <2>3. /\ run'.at = "hash" /\ run'.row = row /\ run'.rows = run.rows
        /\ run'.span = {disk[Here].content}
        /\ run'.since = run.since /\ run'.lookup = run.lookup /\ run'.mode = run.mode
        /\ run'.boundary = run.boundary /\ run'.drifted = run.drifted
        /\ run'.last = run.last /\ run.at = "row"
    BY <1>a, <2>1 DEF MoreRows, RunState
  <2>4. Here' = Here /\ Here \in Paths
    BY <2>1, <2>3, MoreRowsHere DEF Here
  <2>5. HashSound'
    BY <1>u, <2>1, <2>2, <2>3, <2>4 DEF HashSound, Looks, Current, Shown
  <2>6. OfferSound' /\ SendSound'
    BY <2>3 DEF OfferSound, SendSound
  <2> QED BY <1>m, <1>u, <2>3, <2>5, <2>6, HoldsCurrent
<1>3. CASE Unhashable
  BY <1>3, <1>m, <1>u, MoreRowsHere, UnhashedCurrent DEF Unhashable
<1>4. CASE Hash
  <2>1. PICK got \in Read :
          run' = IF got # None /\ run.row.size \in Lengths(got)
                 THEN [run EXCEPT !.at = "offer", !.span = {}, !.row.hash = got]
                 ELSE Unhashed
    BY <1>4 DEF Hash
  <2>a. run.at = "hash" /\ run.row \in Row /\ Here <= run.last /\ Here \in Paths
    BY <1>4, InHandHere DEF Hash, InHand
  <2>2. CASE ~(got # None /\ run.row.size \in Lengths(got))
    BY <1>m, <1>u, <2>1, <2>2, <2>a, UnhashedCurrent
  <2>3. CASE got # None /\ run.row.size \in Lengths(got)
    <3> DEFINE row == [run.row EXCEPT !.hash = got]
    <3>1. row.hash = got /\ Stat(row) = Stat(run.row)
      BY <2>a DEF Row, Stat
    <3>2. run' = [run EXCEPT !.at = "offer", !.span = {}, !.row = row]
      BY <1>a, <2>1, <2>3 DEF RunState
    <3> HIDE DEF row
    <3>3. /\ run'.at = "offer" /\ run'.row = row /\ run'.rows = run.rows
          /\ run'.since = run.since /\ run'.lookup = run.lookup /\ run'.mode = run.mode
          /\ run'.boundary = run.boundary /\ run'.drifted = run.drifted
          /\ run'.last = run.last
      BY <1>a, <3>2 DEF RunState
    <3>4. Here' = Here
      BY <3>3 DEF Here
    <3>5. /\ Stat(run.row) \in wasThere[Here]
          /\ Looks(run.row, Here) => run.span = {disk[Here].content} \/ Here \in restored
          /\ disk[Here].ctime < run.since =>
               Looks(run.row, Here) /\ run.span = {disk[Here].content}
      BY <2>a DEF Current, HashSound
    <3>6. Looks(row, Here) <=> Looks(run.row, Here)
      BY <3>1 DEF Looks
    <3>7. Sound(row, Here, run.since)
      BY <2>3, <2>a, <3>1, <3>5, <3>6, ReadIsWhatWasThere DEF Sound, Known, KeptSince
    <3>8. HashSound' /\ OfferSound' /\ SendSound'
      BY <1>u, <3>3, <3>4, <3>7 DEF HashSound, OfferSound, SendSound, Sound, Known,
                                    KeptSince, Looks, Unnoticed
    <3> QED BY <1>m, <1>u, <2>a, <3>3, <3>8, HoldsCurrent
  <2> QED BY <2>2, <2>3
<1>5. CASE ReadRow
  <2>1. MoreRows /\ run.at = "row" /\ run.mode = "upload" /\ latest # None
        /\ Here <= run.last /\ Here \in Paths
    BY <1>5, MoreRowsHere DEF ReadRow, IInv, Shape
  <2>2. CASE latest.rows[Here] = None
    <3>1. run' = RowDone(None)
      BY <1>5, <2>2 DEF ReadRow
    <3>2. Passes(None, run.seen, run.drifted, run.failure)
      BY <2>1, <3>1, RowDoneTyped DEF IInv, Passes
    <3> QED BY <1>u, <2>1, <3>2, PassesCurrent
  <2>3. CASE latest.rows[Here] # None
    <3>1. run' = [run EXCEPT !.at = "offer", !.row = latest.rows[Here]]
      BY <1>5, <2>3 DEF ReadRow
    <3>2. /\ run'.at = "offer" /\ run'.row = latest.rows[Here] /\ run'.rows = run.rows
          /\ run'.since = run.since /\ run'.lookup = run.lookup /\ run'.mode = run.mode
          /\ run'.boundary = run.boundary /\ run'.drifted = run.drifted
          /\ run'.last = run.last
      BY <1>a, <3>1 DEF RunState
    <3>3. Here \in DOMAIN latest.rows
      <4>1. latest.rows \in Rows /\ Len(latest.rows) = N
        BY <2>1 DEF IInv, TypeOK, Shape, Snapshot
      <4> QED BY <2>1, <4>1, RowsAreSequences DEF Paths
    <3>4. Sound(latest.rows[Here], Here, run.since) /\ Here' = Here
      BY <2>1, <2>3, <3>2, <3>3 DEF Current, SnapshotSound, RowsSound, Begun, Here
    <3>5. HashSound' /\ OfferSound' /\ SendSound'
      BY <1>u, <3>2, <3>4 DEF HashSound, OfferSound, SendSound, Sound, Known, KeptSince,
                              Looks, Unnoticed
    <3> QED BY <1>m, <1>u, <2>1, <3>2, <3>5, HoldsCurrent
  <2> QED BY <2>2, <2>3
<1> QED BY <1>1, <1>2, <1>3, <1>4, <1>5

\* A row in hand goes by; if it is named for a change, its file was changed
\* since the pass began, or unnoticed before.
LEMMA GoesByCurrent ==
  ASSUME IInv, Current, run.at \in {"offer", "confirmed", "send"},
         NEW seen, NEW drifted, NEW failure, Passes(run.row, seen, drifted, failure),
         UNCHANGED <<files, checked, local>>,
         \/ drifted = run.drifted
         \/ /\ drifted = run.drifted \cup {Here}
            /\ disk[Here].ctime < run.since => Unnoticed(Here)
  PROVE  Current'
<1>1. Here <= run.last /\ run.at # "idle" /\ run.row \in Row \cup {None}
      /\ disk[Here] \in File
  BY InHandHere DEF InHand
<1>2. Sound(run.row, Here, run.since)
  BY DEF Current, OfferSound
<1>3. disk[Here].ctime \in Nat /\ run.since \in Nat
  BY <1>1 DEF File, IInv, TypeOK, RunState
<1>4. Here \in drifted \ run.drifted => Unnoticed(Here) \/ disk[Here].ctime >= run.since
  BY <1>3
<1> QED BY <1>1, <1>2, <1>4, PassesCurrent

LEMMA PassOnCurrent ==
  ASSUME IInv, Current, PassOn
  PROVE  Current'
<1>1. run.at = "offer" /\ run.at \in InHand /\ UNCHANGED <<files, checked, local>>
  BY DEF PassOn, InHand
<1>2. CASE run' = RowDone(run.row)
  <2>1. Passes(run.row, run.seen, run.drifted, run.failure)
    BY <1>1, <1>2, WaysBy
  <2> QED BY <1>1, <2>1, GoesByCurrent
<1>3. CASE run' = Seen(RowDone(run.row))
  <2>1. Passes(run.row, run.seen \cup {run.row.hash}, run.drifted, run.failure)
    BY <1>1, <1>3, WaysBy
  <2> QED BY <1>1, <2>1, GoesByCurrent
<1>4. CASE FileChange /\ run' = Drifts(Seen(RowDone(run.row)))
  <2>1. Passes(run.row, run.seen \cup {run.row.hash}, run.drifted \cup {Here}, run.failure)
    BY <1>1, <1>4, WaysBy
  <2>2. ~Looks(run.row, Here)
    BY <1>4 DEF FileChange, Looks, Stat
  <2>3. ~(disk[Here].ctime < run.since)
    BY <1>1, <2>2 DEF Current, OfferSound, Sound, KeptSince
  <2> QED BY <1>1, <2>1, <2>3, GoesByCurrent
<1> QED BY <1>2, <1>3, <1>4 DEF PassOn

LEMMA ConfirmCurrent ==
  ASSUME IInv, Current, Confirm
  PROVE  Current'
<1>1. run.at = "offer" /\ UNCHANGED <<disk, wasThere, restored, checked, local>>
      /\ run' = [run EXCEPT !.seen = @ \cup {run.row.hash}, !.at = "confirmed"]
  BY DEF Confirm, Seen, files
<1>2. /\ run'.at = "confirmed" /\ run'.row = run.row /\ run'.rows = run.rows
      /\ run'.since = run.since /\ run'.lookup = run.lookup /\ run'.mode = run.mode
      /\ run'.boundary = run.boundary /\ run'.drifted = run.drifted
      /\ run'.last = run.last
  BY <1>1 DEF IInv, TypeOK, RunState
<1>3. HashSound' /\ OfferSound' /\ SendSound'
  BY <1>1, <1>2 DEF Current, HashSound, OfferSound, SendSound, Sound, Known, KeptSince,
                    Looks, Unnoticed, Here
<1> QED BY <1>1, <1>2, <1>3, StepMoves, HoldsCurrent DEF Next

LEMMA StartSendCurrent ==
  ASSUME IInv, Current, StartSend
  PROVE  Current'
<1>1. run.at = "confirmed" /\ run.at \in InHand /\ UNCHANGED <<files, checked, local>>
      /\ UNCHANGED <<disk, wasThere, restored, checked>>
  BY DEF StartSend, InHand, files
<1>2. ASSUME NEW why \in {"network", "file"}, run' = Fails(why)
      PROVE  Current'
  <2>1. Passes(run.row, run.seen, run.drifted, why)
    BY <1>1, <1>2, WaysBy
  <2> QED BY <1>1, <2>1, GoesByCurrent
<1>3. CASE run' = RowDone(run.row)
  <2>1. Passes(run.row, run.seen, run.drifted, run.failure)
    BY <1>1, <1>3, WaysBy
  <2> QED BY <1>1, <2>1, GoesByCurrent
<1>4. CASE run' = [run EXCEPT !.at = "send", !.span = {disk[Here].content}]
  <2>1. /\ run'.at = "send" /\ run'.row = run.row /\ run'.rows = run.rows
        /\ run'.since = run.since /\ run'.lookup = run.lookup /\ run'.mode = run.mode
        /\ run'.boundary = run.boundary /\ run'.drifted = run.drifted
        /\ run'.last = run.last /\ run'.span = {disk[Here].content}
    BY <1>4 DEF IInv, TypeOK, RunState
  <2>2. HashSound' /\ OfferSound' /\ SendSound'
    BY <1>1, <2>1 DEF Current, HashSound, OfferSound, SendSound, Sound, Known, KeptSince,
                      Looks, Unnoticed, Here
  <2> QED BY <1>1, <2>1, <2>2, StepMoves, HoldsCurrent DEF Next
<1> QED BY <1>2, <1>3, <1>4 DEF StartSend

LEMMA SendCurrent ==
  ASSUME IInv, Current, Send
  PROVE  Current'
<1>1. run.at = "send" /\ run.at \in InHand /\ UNCHANGED <<files, checked, local>>
  BY DEF Send, InHand
<1>2. ASSUME NEW why \in {"network", "file"}, run' = Fails(why)
      PROVE  Current'
  <2>1. Passes(run.row, run.seen, run.drifted, why)
    BY <1>1, <1>2, WaysBy
  <2> QED BY <1>1, <2>1, GoesByCurrent
<1>3. CASE run' = RowDone(run.row)
  <2>1. Passes(run.row, run.seen, run.drifted, run.failure)
    BY <1>1, <1>3, WaysBy
  <2> QED BY <1>1, <2>1, GoesByCurrent
<1>4. ASSUME NEW got \in Got(run.span), got # None, ~SentIsRecorded(got),
             run' = Drifts(RowDone(run.row))
      PROVE  Current'
  <2>1. Passes(run.row, run.seen, run.drifted \cup {Here}, run.failure)
    BY <1>1, <1>4, WaysBy
  <2>2. ASSUME disk[Here].ctime < run.since PROVE Unnoticed(Here)
    <3>1. run.span = {disk[Here].content}
      BY <1>1, <2>2 DEF Current, SendSound
    <3>2. Looks(run.row, Here) /\ (disk[Here].content = run.row.hash \/ Unnoticed(Here))
      BY <1>1, <2>2 DEF Current, OfferSound, Sound, KeptSince
    <3>3. disk[Here].content \in Contents
      BY <1>1, <3>2, InHandHere DEF Looks, File
    <3>4. got = disk[Here].content /\ got # "torn"
      BY <3>1, <3>3, <1>4 DEF Got
    <3> QED BY <1>4, <3>2, <3>4 DEF SentIsRecorded
  <2> QED BY <1>1, <2>1, <2>2, GoesByCurrent
<1> QED BY <1>2, <1>3, <1>4 DEF Send, PutObject

\* The rows of a pass that lands are the next one's latest snapshot; those of
\* one that stops, as many as were written, its parked rows.
LEMMA LandCurrent ==
  ASSUME IInv, Current, Land
  PROVE  Current'
<1>1. run.at = "row" /\ run' = [run EXCEPT !.at = "result"]
      /\ UNCHANGED <<disk, wasThere, restored, clock, checked>>
  BY DEF Land, files
<1>2. /\ run'.at = "result" /\ run'.rows = run.rows
      /\ run'.since = run.since /\ run'.lookup = run.lookup /\ run'.mode = run.mode
      /\ run'.boundary = run.boundary /\ run'.drifted = run.drifted
  BY <1>1 DEF IInv, TypeOK, RunState
<1>m. FilesMove
  BY StepMoves DEF Next
<1>3. Shown' /\ RowsSound(run.rows, run.since)' /\ LookupSound' /\ DriftIsOfThisPass'
  BY <1>m, <1>2, LocalStays, PassStays
<1>4. HashSound' /\ OfferSound' /\ SendSound'
  BY <1>2 DEF HashSound, OfferSound, SendSound
<1>5. SnapshotSound(latest)' /\ SnapshotSound(parked)' /\ Begun'
  <2>1. CASE run.mode \in {"snapshot", "backup"}
    <3>1. latest' = [rows |-> run.rows, start |-> run.since] /\ parked' \in {parked, None}
      BY <2>1 DEF Land
    <3>2. SnapshotSound(latest)'
      BY <1>1, <1>2, <1>3, <3>1 DEF SnapshotSound, RowsSound, Current, Begun
    <3>3. SnapshotSound(parked)'
      BY <1>m, <3>1, LocalStays DEF SnapshotSound
    <3>4. Begun'
      BY <1>1, <1>2, <2>1 DEF Current, Begun
    <3> QED BY <3>2, <3>3, <3>4
  <2>2. CASE run.mode \notin {"snapshot", "backup"}
    <3>1. UNCHANGED <<latest, parked>>
      BY <2>2 DEF Land, local
    <3> QED BY <1>m, <1>1, <1>2, <3>1, LocalStays DEF Current, Begun
  <2> QED BY <2>1, <2>2
<1> QED BY <1>3, <1>4, <1>5 DEF Current

LEMMA EndsCurrent ==
  ASSUME IInv, Current, Publish \/ End
  PROVE  Current'
<1>m. FilesMove
  BY StepMoves DEF Next
<1>1. run' = Idle /\ latest' = latest
      /\ UNCHANGED <<disk, wasThere, restored, clock, checked>>
  BY DEF Publish, End, local, files
<1>2. CASE parked' = parked
  BY <1>m, <1>1, <1>2, LocalStays, IdleCurrent
<1>3. ASSUME NEW k \in 0 .. Len(run.rows),
             parked' = [rows |-> SubSeq(run.rows, 1, k), start |-> run.since]
      PROVE  Current'
  <2>1. run.rows \in Seq(Row \cup {None}) /\ Len(run.rows) \in Nat
        /\ DOMAIN run.rows = 1 .. Len(run.rows)
    BY RowsAreSequences DEF IInv, TypeOK, RunState
  <2> DEFINE rows == SubSeq(run.rows, 1, k)
  <2>2. DOMAIN rows = 1 .. k /\ \A i \in 1 .. k : rows[i] = run.rows[i] /\ i \in DOMAIN run.rows
    BY <2>1
  <2> HIDE DEF rows
  <2>3. RowsSound(rows, run.since)
    BY <2>2 DEF Current, RowsSound
  <2>4. parked'.rows = rows /\ parked'.start = run.since
    BY <1>3 DEF rows
  <2>5. RowsSound(parked.rows, parked.start)'
    BY <1>1, <2>3, <2>4 DEF RowsSound, Sound, Known, KeptSince, Looks, Unnoticed
  <2>6. parked'.start <= clock'
    BY <1>1, <2>4 DEF Current, Begun
  <2> QED BY <1>m, <1>1, <2>5, <2>6, IdleCurrent DEF SnapshotSound
<1> QED BY <1>2, <1>3 DEF Publish, End, local

LEMMA NextCurrent ==
  ASSUME IInv, Current, [Next]_vars
  PROVE  Current'
<1>1. CASE (\E p \in Paths : Write(p)) \/ StoredElsewhere
  BY <1>1, WriteCurrent, StoredElsewhereCurrent
<1>2. CASE BeginPass("snapshot") \/ BeginPass("backup") \/ BeginUpload \/ BeginSeed
  BY <1>2, BeginCurrent
<1>3. CASE Reuse \/ StartHash \/ Unhashable \/ Hash \/ ReadRow
  BY <1>3, HashingCurrent
<1>4. CASE PassOn \/ Confirm \/ StartSend \/ Send
  BY <1>4, PassOnCurrent, ConfirmCurrent, StartSendCurrent, SendCurrent
<1>5. CASE Land \/ Publish \/ End
  BY <1>5, LandCurrent, EndsCurrent
<1>6. CASE UNCHANGED vars
  <2>1. UNCHANGED <<disk, wasThere, restored, clock, checked, latest, parked, run>>
    BY <1>6 DEF vars
  <2> QED BY <2>1 DEF Current, Shown, SnapshotSound, RowsSound, LookupSound, Baseline,
                    HashSound,
                      OfferSound, SendSound, Begun, DriftIsOfThisPass, Sound, Known,
                      KeptSince, Looks, Unnoticed, Here
<1> QED BY <1>1, <1>2, <1>3, <1>4, <1>5, <1>6 DEF Next

\* What every row recorded, parked, looked up or in hand says of its file: the
\* argument behind the theorems below.
LEMMA InductiveCurrent == Spec => []Current
<1>1. Init => IInv /\ Current
  BY InitInv, InitCurrent
<1>2. IInv /\ Current /\ [Next]_vars => (IInv /\ Current)'
  BY NextInv, NextCurrent
<1>3. IInv /\ Current => Current
  OBVIOUS
<1> QED BY <1>1, <1>2, <1>3, PTL DEF Spec

\* A hash taken over from an earlier pass (fileProps, trustMatch) is that of
\* what the file holds now, however many passes have stopped half-way or been
\* resumed since and whatever was written in between, but for a size and time
\* put back under a set that does not check the change time.
THEOREM ReusedAlwaysCurrent == Spec => ReusedIsCurrent
<1>1. IInv /\ Current /\ [Next]_vars =>
        [Reuse => Unnoticed(Here) \/ run'.row.hash = disk[Here].content]_vars
  BY ReuseSound
<1> QED BY <1>1, Inductive, InductiveCurrent, PTL DEF Spec, ReusedIsCurrent

\* No pass refuses a file over a row of an earlier one (fileChange and the
\* digest of the bytes sent, uploadObjects): what it names for a change was
\* changed after it began, or after the pass that recorded its rows did.
THEOREM DriftAlwaysOfThisPass == Spec => []DriftIsOfThisPass
<1>1. Current => DriftIsOfThisPass
  BY DEF Current
<1> QED BY <1>1, InductiveCurrent, PTL
-----------------------------------------------------------------------------
(***************************************************************************)
(* The refinement: what a bucket of backups promises                       *)
(***************************************************************************)
Needs == {HashesOf(rows) : rows \in published}

\* A step that leaves the bucket alone is none of its own.
LEMMA BucketStays ==
  ASSUME UNCHANGED <<objects, published>>
  PROVE  UNCHANGED Bucket!vars
<1>1. InBucket' = InBucket /\ Needs' = Needs
  BY DEF InBucket, Needs
<1> QED BY <1>1 DEF Bucket!vars, Needs

\* An object that is put stores its content, or had it stored.
LEMMA PutOfContent ==
  ASSUME IInv, NEW h \in Contents, objects' = [objects EXCEPT ![h] = h],
         published' = published
  PROVE  [Bucket!Next]_Bucket!vars
<1>1. InBucket' = InBucket \cup {h} /\ Needs' = Needs
  BY DEF IInv, TypeOK, InBucket, Needs
<1>2. Bucket!Store(h)
  BY <1>1 DEF Bucket!Store, Needs
<1> QED BY <1>2 DEF Bucket!Next

LEMMA SendOfContent ==
  ASSUME IInv, Send
  PROVE  [Bucket!Next]_Bucket!vars
<1>1. run.at \in InHand /\ published' = published
  BY DEF Send, InHand
<1>2. CASE UNCHANGED objects
  BY <1>1, <1>2, BucketStays
<1>3. ASSUME NEW got \in Got(run.span), got # None, SentIsRecorded(got),
             objects' = [objects EXCEPT ![run.row.hash] = got]
      PROVE  [Bucket!Next]_Bucket!vars
  <2>1. got = run.row.hash /\ got \in Contents
    BY <1>1, <1>3, InHandHere DEF SentIsRecorded, Got, RunState
  <2>2. objects' = [objects EXCEPT ![got] = got]
    BY <1>3, <2>1
  <2> QED BY <1>1, <2>1, <2>2, PutOfContent
<1> QED BY <1>2, <1>3 DEF Send, PutObject

\* A pass that publishes has had all that its rows name stored.
LEMMA PublishOfContent ==
  ASSUME IInv, Publish
  PROVE  [Bucket!Next]_Bucket!vars
<1> DEFINE refs == HashesOf(run.rows)
<1>1. /\ run.at = "result" /\ run.mode \in {"backup", "upload"} /\ run.failure = None
      /\ run.drifted = {} /\ published' = published \cup {run.rows} /\ objects' = objects
  BY DEF Publish, Succeeds
<1>2. refs \subseteq InBucket
  BY <1>1 DEF IInv, Accounted, Now, Explained, HashesOf
<1>3. InBucket' = InBucket /\ InBucket \subseteq Contents
  BY <1>1 DEF InBucket
<1>4. Needs' = Needs \cup {refs}
  BY <1>1 DEF Needs, HashesOf
<1> HIDE DEF refs
<1>5. refs \in SUBSET Contents /\ Bucket!Publish(refs)
  BY <1>2, <1>3, <1>4 DEF Bucket!Publish, Needs
<1> QED BY <1>5 DEF Bucket!Next

LEMMA NextOfContent == IInv /\ [Next]_vars => [Bucket!Next]_Bucket!vars
<1> SUFFICES ASSUME IInv, [Next]_vars PROVE [Bucket!Next]_Bucket!vars
  OBVIOUS
<1>1. CASE \E p \in Paths : Write(p)
  BY <1>1, BucketStays DEF Write, remote
<1>2. CASE StoredElsewhere
  BY <1>2, PutOfContent DEF StoredElsewhere
<1>3. CASE BeginPass("snapshot") \/ BeginPass("backup") \/ BeginUpload \/ BeginSeed
  BY <1>3, BucketStays DEF BeginPass, BeginUpload, BeginSeed, remote
<1>4. CASE Reuse \/ StartHash \/ Unhashable \/ Hash \/ ReadRow
  BY <1>4, BucketStays DEF Reuse, StartHash, Unhashable, Hash, ReadRow, remote
<1>5. CASE PassOn \/ Confirm \/ StartSend
  BY <1>5, BucketStays DEF PassOn, Confirm, StartSend, remote
<1>6. CASE Land \/ End
  BY <1>6, BucketStays DEF Land, End, remote
<1>7. CASE UNCHANGED vars
  BY <1>7, BucketStays DEF vars
<1> QED BY <1>1, <1>2, <1>3, <1>4, <1>5, <1>6, <1>7, SendOfContent, PublishOfContent
        DEF Next

\* To the bucket, every pass of uploadSet, uploadSnapshot, uploadDir and
\* uploadFile only adds content that hashes to its name, and a snapshot after
\* all it references: files that change under it, transfers that fail or drift,
\* and a process that dies are steps the promise never sees.
THEOREM PassesImplementBucket == Spec => ImplementsBucket
<1>1. Init => Bucket!Init
  BY DEF Init, Bucket!Init, InBucket
<1>2. IInv /\ [Next]_vars => [Bucket!Next]_Bucket!vars
  BY NextOfContent
<1> QED BY <1>1, <1>2, Inductive, PTL DEF Spec, Bucket!Spec, ImplementsBucket

-----------------------------------------------------------------------------
(***************************************************************************)
(* What a backup leaves out: the third invariant                           *)
(***************************************************************************)

\* Nothing there, or changed since s.
Absent(p, s) == disk[p].content = None \/ disk[p].ctime >= s

RowsWhole(rows, s) == \A i \in DOMAIN rows : rows[i] = None => Absent(i, s)

\* A file that has no row was gone, or was changed after the pass began.
Whole ==
  /\ latest # None => RowsWhole(latest.rows, latest.start)
  /\ RowsWhole(run.rows, run.since)

LEMMA RowsStayWhole ==
  ASSUME IInv, FilesMove, NEW rows \in Rows, NEW s \in Nat, s <= clock,
         RowsWhole(rows, s)
  PROVE  RowsWhole(rows, s)'
<1> SUFFICES ASSUME NEW i \in DOMAIN rows, rows[i] = None
    PROVE  Absent(i, s)'
  BY DEF RowsWhole
<1>1. i \in Paths /\ clock \in Nat
  BY RowsAreSequences DEF Paths, IInv, TypeOK
<1> QED BY <1>1 DEF RowsWhole, FilesMove, Absent

LEMMA LatestStaysWhole ==
  ASSUME IInv, Current, Whole, FilesMove, latest' = latest
  PROVE  latest' # None => RowsWhole(latest.rows, latest.start)'
<1> SUFFICES ASSUME latest # None
    PROVE  RowsWhole(latest.rows, latest.start)'
  OBVIOUS
<1>1. PICK rows \in Rows, s \in Nat :
        rows = latest.rows /\ s = latest.start /\ s <= clock /\ RowsWhole(rows, s)
  BY DEF IInv, TypeOK, Snapshot, Current, SnapshotSound, Whole, RowsWhole, Absent
<1>2. RowsWhole(rows, s)'
  BY <1>1, RowsStayWhole
<1> QED BY <1>1, <1>2 DEF RowsWhole, Absent

\* A pass keeps its rows, begins anew, or has one more: of a file that is
\* there, or of one that went or changed while the pass went on.
LEMMA PassStaysWhole ==
  ASSUME IInv, Current, Whole, FilesMove, latest' = latest,
         \/ run'.rows = <<>>
         \/ run'.rows = run.rows /\ run'.since = run.since
  PROVE  Whole'
<1>1. CASE run'.rows = <<>>
  BY <1>1, LatestStaysWhole DEF Whole, RowsWhole
<1>2. CASE run'.rows = run.rows /\ run'.since = run.since
  <2>1. PICK rows \in Rows, s \in Nat :
          rows = run.rows /\ s = run.since /\ s <= clock /\ RowsWhole(rows, s)
    BY DEF IInv, TypeOK, RunState, Current, Begun, Whole, RowsWhole, Absent
  <2>2. RowsWhole(rows, s)'
    BY <2>1, RowsStayWhole
  <2> QED BY <1>2, <2>1, <2>2, LatestStaysWhole DEF Whole, RowsWhole, Absent
<1> QED BY <1>1, <1>2

LEMMA PassesWhole ==
  ASSUME IInv, Current, Whole, Here <= run.last,
         NEW row \in Row \cup {None}, NEW seen, NEW drifted, NEW failure,
         Passes(row, seen, drifted, failure),
         disk' = disk, latest' = latest,
         run.mode # "file" /\ row = None => Absent(Here, run.since)
  PROVE  Whole'
<1>1. run'.since = run.since
      /\ run'.rows = IF run.mode = "file" THEN run.rows ELSE Append(run.rows, row)
  BY DEF Passes
<1>2. RowsWhole(run.rows, run.since)'
  <2>1. CASE run.mode = "file"
    BY <1>1, <2>1 DEF Whole, RowsWhole, Absent
  <2>2. CASE run.mode # "file"
    <3>1. run.rows \in Seq(Row \cup {None}) /\ Here = Len(run.rows) + 1
          /\ Len(run.rows) \in Nat /\ DOMAIN run.rows = 1 .. Len(run.rows)
      BY <2>2, RowsAreSequences DEF IInv, TypeOK, RunState, Here
    <3>2. /\ DOMAIN run'.rows = 1 .. Here /\ run'.rows[Here] = row
          /\ \A i \in DOMAIN run.rows : run'.rows[i] = run.rows[i]
      BY <1>1, <2>2, <3>1, AppendProperties
    <3> SUFFICES ASSUME NEW i \in DOMAIN run'.rows, run'.rows[i] = None
        PROVE  Absent(i, run.since)
      BY <1>1 DEF RowsWhole, Absent
    <3>3. CASE i = Here
      BY <2>2, <3>2, <3>3
    <3>4. CASE i # Here
      <4>1. i \in DOMAIN run.rows /\ run.rows[i] = None
        BY <3>1, <3>2, <3>4
      <4> QED BY <4>1 DEF Whole, RowsWhole
    <3> QED BY <3>3, <3>4
  <2> QED BY <2>1, <2>2
<1> QED BY <1>2 DEF Whole, RowsWhole, Absent

LEMMA UnhashedWhole ==
  ASSUME IInv, Current, Whole, run.at \in {"row", "hash"}, Here <= run.last,
         run' = Unhashed, UNCHANGED <<files, checked, local>>,
         Absent(Here, run.since)
  PROVE  Whole'
<1>1. UNCHANGED <<disk, latest>>
  BY DEF files, local
<1>2. CASE run.mode = "file"
  BY <1>1, <1>2 DEF Unhashed, Idle, Whole, RowsWhole, Absent
<1>3. CASE run.mode # "file"
  <2>1. run' = RowDone(None)
    BY <1>3 DEF Unhashed
  <2>2. Passes(None, run.seen, run.drifted, run.failure)
    BY <2>1, RowDoneTyped DEF IInv, Passes
  <2> QED BY <1>1, <2>2, PassesWhole
<1> QED BY <1>2, <1>3

\* A hash that fails failed for a file that was changed while it was read.
LEMMA HashWhole ==
  ASSUME IInv, Current, Whole, Hash
  PROVE  Whole'
<1>1. run.at = "hash" /\ run \in RunState /\ Here <= run.last /\ Here \in Paths
      /\ run.row \in Row /\ disk[Here] \in File /\ UNCHANGED <<files, checked, local>>
  BY InHandHere DEF Hash, InHand
<1>2. PICK got \in Read :
        run' = IF got # None /\ run.row.size \in Lengths(got)
               THEN [run EXCEPT !.at = "offer", !.span = {}, !.row.hash = got]
               ELSE Unhashed
  BY DEF Hash
<1>3. CASE got # None /\ run.row.size \in Lengths(got)
  <2>1. run'.rows = run.rows /\ run'.since = run.since
    BY <1>1, <1>2, <1>3 DEF RunState
  <2>2. latest' = latest /\ FilesMove
    BY <1>1, StepMoves DEF local, Next
  <2> QED BY <2>1, <2>2, PassStaysWhole
<1>4. CASE ~(got # None /\ run.row.size \in Lengths(got))
  <2>1. Absent(Here, run.since)
    <3> SUFFICES ASSUME disk[Here].content # None, ~(disk[Here].ctime >= run.since)
        PROVE FALSE
      BY DEF Absent
    <3>1. disk[Here].ctime \in Nat /\ run.since \in Nat
      BY <1>1 DEF File, RunState
    <3>2. Looks(run.row, Here) /\ run.span = {disk[Here].content}
      BY <1>1, <3>1 DEF Current, HashSound
    <3>3. disk[Here].content \in Contents /\ Size[disk[Here].content] = run.row.size
      BY <1>1, <3>2 DEF Looks, StatProps, Stat, File
    <3>4. got = disk[Here].content
      BY <3>2, <3>3 DEF Read, Got
    <3> QED BY <1>4, <3>3, <3>4 DEF Lengths
  <2> QED BY <1>1, <1>2, <1>4, <2>1, UnhashedWhole
<1> QED BY <1>3, <1>4

\* The row of a snapshot that is uploaded again is missing where its own was.
LEMMA ReadRowWhole ==
  ASSUME IInv, Current, Whole, ReadRow
  PROVE  Whole'
<1>1. /\ run.at = "row" /\ run.mode = "upload" /\ latest # None /\ run \in RunState
      /\ Here <= run.last /\ Here \in Paths /\ UNCHANGED <<files, checked, local>>
  BY MoreRowsHere DEF ReadRow, IInv, TypeOK, Shape
<1>2. latest' = latest /\ disk' = disk /\ FilesMove
  BY <1>1, StepMoves DEF local, files, Next
<1>3. CASE latest.rows[Here] = None
  <2>1. run' = RowDone(None)
    BY <1>3 DEF ReadRow
  <2>2. Passes(None, run.seen, run.drifted, run.failure)
    BY <1>1, <2>1, RowDoneTyped DEF IInv, Passes
  <2>3. Here \in DOMAIN latest.rows
    <3>1. latest.rows \in Rows /\ Len(latest.rows) = N
      BY <1>1 DEF IInv, TypeOK, Shape, Snapshot
    <3> QED BY <1>1, <3>1, RowsAreSequences DEF Paths
  <2>4. Absent(Here, run.since)
    BY <1>1, <1>3, <2>3 DEF Whole, RowsWhole, Current, Begun
  <2> QED BY <1>1, <1>2, <2>2, <2>4, PassesWhole
<1>4. CASE latest.rows[Here] # None
  <2>1. run' = [run EXCEPT !.at = "offer", !.row = latest.rows[Here]]
    BY <1>4 DEF ReadRow
  <2>2. run'.rows = run.rows /\ run'.since = run.since
    BY <1>1, <2>1 DEF RunState
  <2> QED BY <1>2, <2>2, PassStaysWhole
<1> QED BY <1>3, <1>4

LEMMA HashingWhole ==
  ASSUME IInv, Current, Whole, Reuse \/ StartHash \/ Unhashable
  PROVE  Whole'
<1>1. run \in RunState /\ MoreRows /\ UNCHANGED <<files, checked, local>>
  BY DEF IInv, TypeOK, Reuse, StartHash, Unhashable
<1>2. latest' = latest /\ FilesMove
  BY <1>1, StepMoves DEF local, Next
<1>3. CASE Reuse \/ StartHash
  <2>1. \E at, row, span : run' = [run EXCEPT !.at = at, !.row = row, !.span = span]
    <3>1. CASE Reuse
      <4>1. run' = [run EXCEPT !.at = "offer", !.row = run.lookup[Here]]
        BY <3>1 DEF Reuse
      <4>2. run' = [run EXCEPT !.at = "offer", !.row = run.lookup[Here], !.span = run.span]
        BY <1>1, <4>1 DEF RunState
      <4> QED BY <4>2
    <3>2. CASE StartHash
      <4> DEFINE now == StatProps(disk[Here])
                 row == [hash |-> "torn", size |-> now.size, mtime |-> now.mtime]
      <4>1. run' = [run EXCEPT !.at = "hash", !.row = row, !.span = {disk[Here].content}]
        <5>1. run' = [run EXCEPT !.at = "hash", !.span = {disk[Here].content}, !.row = row]
          BY <3>2 DEF StartHash
        <5> HIDE DEF row
        <5> QED BY <1>1, <5>1 DEF RunState
      <4> QED BY <4>1
    <3> QED BY <1>3, <3>1, <3>2
  <2>2. run'.rows = run.rows /\ run'.since = run.since
    BY <1>1, <2>1 DEF RunState
  <2> QED BY <1>2, <2>2, PassStaysWhole
<1>4. CASE Unhashable
  <2>1. run.at = "row" /\ Here <= run.last
    BY <1>1, MoreRowsHere
  <2>2. run' = Unhashed /\ Absent(Here, run.since)
    BY <1>4 DEF Unhashable, Absent
  <2> QED BY <1>1, <2>1, <2>2, UnhashedWhole
<1> QED BY <1>3, <1>4

LEMMA OfferWhole ==
  ASSUME IInv, Current, Whole, PassOn \/ Confirm \/ StartSend \/ Send
  PROVE  Whole'
<1>1. /\ run.at \in InHand /\ UNCHANGED <<files, checked, local>>
      /\ run \in RunState /\ run.row \in Row /\ run.row # None /\ Here <= run.last
  BY InHandHere DEF PassOn, Confirm, StartSend, Send, InHand
<1>2. latest' = latest /\ disk' = disk /\ FilesMove
  BY <1>1, StepMoves DEF local, files, Next
<1>3. ASSUME NEW seen, NEW drifted, NEW failure, Passes(run.row, seen, drifted, failure)
      PROVE  Whole'
  BY <1>1, <1>2, <1>3, PassesWhole
<1>4. CASE \/ run' \in {RowDone(run.row), Seen(RowDone(run.row)), Drifts(RowDone(run.row)),
                        Drifts(Seen(RowDone(run.row)))}
           \/ \E why \in {"network", "file"} : run' = Fails(why)
  <2>1. \E seen, drifted, failure : Passes(run.row, seen, drifted, failure)
    BY <1>1, <1>4, WaysBy
  <2> QED BY <1>3, <2>1
<1>5. CASE \/ run' = [Seen(run) EXCEPT !.at = "confirmed"]
           \/ run' = [run EXCEPT !.at = "send", !.span = {disk[Here].content}]
  <2>1. run'.rows = run.rows /\ run'.since = run.since
    BY <1>1, <1>5 DEF Seen, RunState
  <2> QED BY <1>2, <2>1, PassStaysWhole
<1> QED BY <1>4, <1>5 DEF PassOn, Confirm, StartSend, Send, PutObject

LEMMA LandWhole ==
  ASSUME IInv, Current, Whole, Land
  PROVE  Whole'
<1>1. run'.rows = run.rows /\ run'.since = run.since /\ disk' = disk
  BY DEF Land, files, IInv, TypeOK, RunState
<1>2. \/ latest' = latest
      \/ latest' = [rows |-> run.rows, start |-> run.since]
  BY DEF Land, local
<1> QED BY <1>1, <1>2 DEF Whole, RowsWhole, Absent

LEMMA NextWhole ==
  ASSUME IInv, Current, Whole, [Next]_vars
  PROVE  Whole'
<1>m. FilesMove
  BY StepMoves
<1>1. ASSUME NEW p \in Paths, Write(p) PROVE Whole'
  <2>1. latest' = latest /\ \/ run' = run
                            \/ \E c \in Contents \cup {None} :
                                 run' = [run EXCEPT !.span = @ \cup {c}]
    BY <1>1 DEF Write, local
  <2>2. run'.rows = run.rows /\ run'.since = run.since
    BY <2>1 DEF IInv, TypeOK, RunState
  <2> QED BY <1>m, <2>1, <2>2, PassStaysWhole
<1>2. CASE StoredElsewhere
  BY <1>m, <1>2, PassStaysWhole DEF StoredElsewhere, local
<1>3. CASE BeginPass("snapshot") \/ BeginPass("backup") \/ BeginUpload \/ BeginSeed
  <2>1. latest' = latest /\ run'.rows = <<>>
    BY <1>3 DEF BeginPass, BeginUpload, BeginSeed, Idle, local
  <2> QED BY <1>m, <2>1, PassStaysWhole
<1>4. CASE Publish \/ End
  <2>1. latest' = latest /\ run'.rows = <<>>
    BY <1>4 DEF Publish, End, Idle, local
  <2> QED BY <1>m, <2>1, PassStaysWhole
<1>5. CASE UNCHANGED vars
  BY <1>m, <1>5, PassStaysWhole DEF vars
<1> QED BY <1>1, <1>2, <1>3, <1>4, <1>5, HashingWhole, HashWhole, ReadRowWhole, OfferWhole,
           LandWhole DEF Next

LEMMA InductiveWhole == Spec => []Whole
<1>1. Init => Whole
  BY DEF Init, Whole, RowsWhole, Idle
<1>2. IInv /\ Current /\ Whole /\ [Next]_vars => Whole'
  BY NextWhole
<1> QED BY <1>1, <1>2, Inductive, InductiveCurrent, PTL DEF Spec

\* What a backup is for (uploadSet, uploadSnapshot): while the bucket has the
\* latest snapshot, each file that nobody has changed since that pass began has
\* a row there and an object with what it holds.  It takes all three invariants:
\* no file is left out of the rows, the rows are of what the files hold, and
\* what they name is in the bucket under its own hash.
THEOREM BackupAlwaysHoldsTheFiles == Spec => []BackupHoldsTheFiles
<1>1. IInv /\ Current /\ Whole => BackupHoldsTheFiles
  <2> SUFFICES ASSUME IInv, Current, Whole, latest # None, latest.rows \in published,
                      NEW p \in Paths, disk[p].content # None,
                      disk[p].ctime < latest.start, ~Unnoticed(p)
      PROVE  RowOf(latest, p) # None /\ objects[RowOf(latest, p).hash] = disk[p].content
    BY DEF BackupHoldsTheFiles
  <2> DEFINE row == latest.rows[p]
  <2>1. latest.rows \in Rows /\ latest.start \in Nat /\ disk[p].ctime \in Nat
    BY DEF IInv, TypeOK, Snapshot, File
  <2>2. p \in DOMAIN latest.rows /\ RowOf(latest, p) = row
    BY <2>1, RowsAreSequences DEF IInv, Shape, Paths, RowOf
  <2>3. row # None
    BY <2>1, <2>2 DEF Whole, RowsWhole, Absent
  <2>4. disk[p].content = row.hash
    BY <2>2, <2>3 DEF Current, SnapshotSound, RowsSound, Sound, KeptSince
  <2>5. row.hash \in InBucket
    BY <2>2, <2>3 DEF IInv, PublishedStored, HashesOf
  <2> QED BY <2>2, <2>3, <2>4, <2>5 DEF IInv, BytesMatchHash, InBucket
<1> QED BY <1>1, Inductive, InductiveCurrent, InductiveWhole, PTL
===============================================================================
