--------------------------- MODULE DeletionRecords ---------------------------
(***************************************************************************)
(* The files of the deletion record (src/src/lib/deletion-record.mjs).     *)
(*                                                                         *)
(* A delete writes its rows to a file of its own, at the next free index.  *)
(* A cleanup compacts: it reads every file, writes the rows a snapshot     *)
(* still references to a fresh index, then deletes the files it read.      *)
(* The locks keep uploads out meanwhile, but neither other deletes nor     *)
(* other cleanups.                                                         *)
(*                                                                         *)
(* The rows one delete writes stand together as that delete.  One step is  *)
(* one S3 request; a run may stop between any two.                         *)
(***************************************************************************)
EXTENDS Naturals, FiniteSetsExt

CONSTANTS
  Deletions,  \* runs of delete, and the rows each writes
  Compactors, \* runs of cleanup that have come to their compaction
  MaxIndex    \* bound on the index of a file

Indices == 1..MaxIndex
Runs == Deletions \cup Compactors

ASSUME RecordsAssumption ==
  /\ MaxIndex \in Nat \ {0}
  /\ Deletions \cap Compactors = {}

VARIABLES
  files,      \* the rows in each file; a file with no rows is never written
  referenced, \* the rows whose content some snapshot references
  pc,
  next,       \* the index a run tries to write at
  todo,       \* the files a compactor has listed and not yet read
  absorbed,   \* the files it has read, less those it has deleted
  rows,       \* the rows it read
  keep        \* its keep-set

compaction == <<todo, absorbed, rows, keep>>
vars == <<files, referenced, pc, next, compaction>>

PCs == {"idle", "read", "list", "put", "remove", "done"}

TypeOK ==
  /\ files \in [Indices -> SUBSET Deletions]
  /\ referenced \subseteq Deletions
  /\ pc \in [Runs -> PCs]
  /\ next \in [Runs -> 1..MaxIndex + 1]
  /\ todo \in [Compactors -> SUBSET Indices]
  /\ absorbed \in [Compactors -> SUBSET Indices]
  /\ rows \in [Compactors -> SUBSET Deletions]
  /\ keep \in [Compactors -> SUBSET Deletions]

Listed == {i \in Indices : files[i] # {}}
Recorded == UNION {files[i] : i \in Listed}

Moves(p, from, to) ==
  /\ pc[p] = from
  /\ pc' = [pc EXCEPT ![p] = to]

Init ==
  /\ files = [i \in Indices |-> {}]
  /\ referenced = Deletions
  /\ pc = [p \in Runs |-> "idle"]
  /\ next = [p \in Runs |-> 1]
  /\ todo = [c \in Compactors |-> {}]
  /\ absorbed = [c \in Compactors |-> {}]
  /\ rows = [c \in Compactors |-> {}]
  /\ keep = [c \in Compactors |-> {}]

-----------------------------------------------------------------------------
(***************************************************************************)
(* writeDeletionRecord                                                     *)
(***************************************************************************)
BeginDeletion(d) ==
  /\ Moves(d, "idle", "list")
  /\ UNCHANGED <<files, referenced, next, compaction>>

\* Max over the indices listed, or 0, plus one.
ListForNext(p) ==
  /\ Moves(p, "list", "put")
  /\ next' = [next EXCEPT ![p] = Max({0} \cup Listed) + 1]
  /\ UNCHANGED <<files, referenced, compaction>>

\* What a run writes, and what it goes on to once that is on record.
Content(p) == IF p \in Deletions THEN {p} ELSE rows[p] \cap keep[p]
AfterWrite(p) == IF p \in Deletions THEN "done" ELSE "remove"

Free(i) == i \in Indices /\ files[i] = {}

\* The no-overwrite PUT lands.
Put(p) ==
  /\ Free(next[p])
  /\ Moves(p, "put", AfterWrite(p))
  /\ files' = [files EXCEPT ![next[p]] = Content(p)]
  /\ next' = [next EXCEPT ![p] = 1]
  /\ UNCHANGED <<referenced, compaction>>

\* A mutant of PutTaken that takes a file at its index for its own.
PutTakenIsOwn(p) ==
  /\ next[p] \in Indices
  /\ Moves(p, "put", AfterWrite(p))
  /\ files' = IF Free(next[p]) THEN [files EXCEPT ![next[p]] = Content(p)]
              ELSE files
  /\ next' = [next EXCEPT ![p] = 1]
  /\ UNCHANGED <<referenced, compaction>>

\* A 412 sends the run one index up: the index is taken, by this run itself
\* if a response was lost and the request sent again.
PutTaken(p) ==
  /\ pc[p] = "put"
  /\ next[p] \in Indices
  /\ files' = IF Free(next[p]) THEN [files EXCEPT ![next[p]] = Content(p)]
              ELSE files
  /\ next' = [next EXCEPT ![p] = @ + 1]
  /\ UNCHANGED <<referenced, pc, compaction>>

-----------------------------------------------------------------------------
(***************************************************************************)
(* compactDeletionRecords                                                  *)
(***************************************************************************)

\* The keep-set covers all that is referenced: the cleanup has the delete
\* lock and has topped its scan up, so from here on references only go.
BeginCompaction(c) ==
  /\ Moves(c, "idle", "read")
  /\ keep' = [keep EXCEPT ![c] = referenced]
  /\ todo' = [todo EXCEPT ![c] = Listed]
  /\ UNCHANGED <<files, referenced, next, absorbed, rows>>

\* One GET; a file gone since the LIST is skipped.
ReadFile(c, i) ==
  /\ pc[c] = "read"
  /\ i \in todo[c]
  /\ todo' = [todo EXCEPT ![c] = @ \ {i}]
  /\ absorbed' = [absorbed EXCEPT ![c] = @ \cup ({i} \cap Listed)]
  /\ rows' = [rows EXCEPT ![c] = @ \cup files[i]]
  /\ UNCHANGED <<files, referenced, pc, next, keep>>

AlreadyCompact(c) ==
  \/ absorbed[c] = {}
  \/ Cardinality(absorbed[c]) = 1 /\ rows[c] \subseteq keep[c]

\* A mutant of Merge that deletes first and writes second.
MergeLast(c) ==
  /\ todo[c] = {}
  /\ Moves(c, "read", IF AlreadyCompact(c) THEN "done" ELSE "remove")
  /\ UNCHANGED <<files, referenced, next, compaction>>

\* A merge with no row left is not written.
Merge(c) ==
  /\ todo[c] = {}
  /\ Moves(c, "read", IF AlreadyCompact(c) THEN "done"
                      ELSE IF Content(c) = {} THEN "remove" ELSE "list")
  /\ UNCHANGED <<files, referenced, next, compaction>>

\* One DELETE of an absorbed key, whatever the key holds by now.
RemoveAbsorbed(c, i) ==
  /\ pc[c] = "remove"
  /\ i \in absorbed[c]
  /\ files' = [files EXCEPT ![i] = {}]
  /\ absorbed' = [absorbed EXCEPT ![c] = @ \ {i}]
  /\ UNCHANGED <<referenced, pc, next, todo, rows, keep>>

\* A compaction ends, fails or crashes, and another cleanup may start.
EndCompaction(c) ==
  /\ pc[c] # "idle"
  /\ pc' = [pc EXCEPT ![c] = "idle"]
  /\ next' = [next EXCEPT ![c] = 1]
  /\ todo' = [todo EXCEPT ![c] = {}]
  /\ absorbed' = [absorbed EXCEPT ![c] = {}]
  /\ rows' = [rows EXCEPT ![c] = {}]
  /\ keep' = [keep EXCEPT ![c] = {}]
  /\ UNCHANGED <<files, referenced>>

\* forget takes the last snapshot that references a delete's rows.
Unreference(d) ==
  /\ d \in referenced
  /\ referenced' = referenced \ {d}
  /\ UNCHANGED <<files, pc, next, compaction>>

-----------------------------------------------------------------------------
Next ==
  \/ \E d \in Deletions : BeginDeletion(d) \/ Unreference(d)
  \/ \E p \in Runs : ListForNext(p) \/ Put(p) \/ PutTaken(p)
  \/ \E c \in Compactors : BeginCompaction(c) \/ Merge(c) \/ EndCompaction(c)
  \/ \E c \in Compactors, i \in Indices : ReadFile(c, i) \/ RemoveAbsorbed(c, i)

Spec == Init /\ [][Next]_vars

-----------------------------------------------------------------------------
(***************************************************************************)
(* Properties                                                              *)
(***************************************************************************)

\* The abstract record, with what is in some file as what is on record.
Abstract == INSTANCE RecordedDeletions WITH
  recorded <- Recorded,
  acknowledged <- {d \in Deletions : pc[d] = "done"}

\* The files implement the record: whatever a compaction writes, deletes or
\* leaves half done, only rows nothing references leave it, and none comes
\* back or is acknowledged before it is there.
ImplementsRecord == Abstract!Spec

\* A delete goes on to remove objects once its record is written.  From then
\* on its rows stay on record for as long as a snapshot references them, so
\* content that was removed can always be told from content that was lost.
RowsKept ==
  \A d \in Deletions : pc[d] = "done" /\ d \in referenced => d \in Recorded

=============================================================================
