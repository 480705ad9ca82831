------------------------ MODULE DeletionRecordsProofs ------------------------
(***************************************************************************)
(* What holds of the deletion record for any number of deletes and any     *)
(* number of files, as long as cleanups compact one at a time.             *)
(***************************************************************************)
EXTENDS DeletionRecords, WellFoundedInduction, TLAPS

OneCompactor == \A a, b \in Compactors : a = b

(***************************************************************************)
(* The inductive invariant.  RowsKept alone is not inductive: it says      *)
(* nothing of a compactor about to delete files.  What is missing is where *)
(* the rows of the files it has absorbed are: in its memory until it has   *)
(* written them, in a file it will not delete from then on.                *)
(***************************************************************************)
Typed ==
  /\ files \in [Indices -> SUBSET Deletions]
  /\ referenced \subseteq Deletions
  /\ pc \in [Runs -> PCs]
  /\ absorbed \in [Compactors -> SUBSET Indices]
  /\ rows \in [Compactors -> SUBSET Deletions]
  /\ keep \in [Compactors -> SUBSET Deletions]

FreshStart == \A c \in Compactors : pc[c] = "idle" => absorbed[c] = {}

KeepCovers ==
  \A c \in Compactors :
    pc[c] \in {"read", "list", "put", "remove"} => referenced \subseteq keep[c]

HoldsRows ==
  \A c \in Compactors : pc[c] \in {"read", "list", "put"} =>
    \A i \in absorbed[c] : files[i] # {} /\ files[i] \subseteq rows[c]

RowsElsewhere ==
  \A c \in Compactors : pc[c] = "remove" =>
    \A i \in absorbed[c] :
      /\ files[i] # {}
      /\ \A d \in files[i] \cap referenced :
           \E j \in Indices \ absorbed[c] : d \in files[j]

IInv ==
  /\ Typed /\ FreshStart /\ KeepCovers /\ HoldsRows /\ RowsElsewhere
  /\ RowsKept

-----------------------------------------------------------------------------
\* A row is on record exactly when some file holds it.
LEMMA OnRecord ==
  ASSUME NEW d
  PROVE  d \in Recorded <=> \E i \in Indices : d \in files[i]
BY DEF Recorded, Listed

LEMMA InitInv == Init => IInv
BY DEF Init, IInv, Typed, PCs, FreshStart, KeepCovers, HoldsRows, RowsElsewhere,
       RowsKept, Runs

\* A write at a free index, by a delete or a compactor, disturbs no other file.
LEMMA WriteKeeps ==
  ASSUME IInv, NEW p \in Runs, pc[p] = "put", Free(next[p]),
         files' = [files EXCEPT ![next[p]] = Content(p)],
         UNCHANGED <<referenced, compaction>>,
         \/ UNCHANGED pc
         \/ pc' = [pc EXCEPT ![p] = AfterWrite(p)]
  PROVE  IInv'
<1> USE DEF IInv
<1>1. next[p] \in Indices /\ files[next[p]] = {}
  BY DEF Free
<1>2. Content(p) \subseteq Deletions
  BY DEF Content, Typed, Runs
<1>3. files' \in [Indices -> SUBSET Deletions]
  BY <1>1, <1>2 DEF Typed
<1>4. Typed'
  BY <1>3 DEF Typed, PCs, compaction, AfterWrite
<1>5. \A i \in Indices : files[i] # {} => files'[i] = files[i]
  BY <1>1 DEF Typed
<1>6. files'[next[p]] = Content(p)
  BY <1>1 DEF Typed
<1>7. \A c \in Compactors : pc'[c] # pc[c] =>
        c = p /\ pc[c] = "put" /\ pc'[c] = "remove"
  BY RecordsAssumption DEF Typed, AfterWrite, Runs
<1>8. FreshStart'
  BY <1>7 DEF FreshStart, compaction
<1>9. KeepCovers'
  BY <1>7 DEF KeepCovers, compaction
<1>10. HoldsRows'
  BY <1>5, <1>7 DEF HoldsRows, compaction, Typed
<1>11. RowsElsewhere'
  <2> SUFFICES ASSUME NEW c \in Compactors, pc'[c] = "remove",
                      NEW i \in absorbed[c]
               PROVE  /\ files'[i] # {}
                      /\ \A d \in files'[i] \cap referenced :
                           \E j \in Indices \ absorbed[c] : d \in files'[j]
    BY DEF RowsElsewhere, compaction
  <2>1. CASE pc[c] = "remove"
    BY <2>1, <1>5 DEF RowsElsewhere, Typed
  <2>2. CASE pc[c] # "remove"
    <3>1. c = p /\ pc[c] = "put"
      BY <2>2, <1>7
    <3>2. files[i] # {} /\ files[i] \subseteq rows[c]
      BY <3>1 DEF HoldsRows
    <3>3. referenced \subseteq keep[c]
      BY <3>1 DEF KeepCovers
    <3>4. Content(p) = rows[c] \cap keep[c]
      BY <3>1, RecordsAssumption DEF Content
    <3>5. files'[i] = files[i] /\ i \in Indices
      BY <3>2, <1>5 DEF Typed
    <3>6. next[p] \notin absorbed[c]
      BY <3>1, <1>1 DEF HoldsRows
    <3> QED
      BY <3>2, <3>3, <3>4, <3>5, <3>6, <1>1, <1>6
  <2> QED
    BY <2>1, <2>2
<1>12. RowsKept'
  <2> SUFFICES ASSUME NEW d \in Deletions, pc'[d] = "done", d \in referenced
               PROVE  \E i \in Indices : d \in files'[i]
    BY DEF RowsKept, Recorded, Listed
  <2>1. CASE pc[d] = "done"
    <3>1. PICK i \in Indices : d \in files[i]
      BY <2>1, OnRecord DEF RowsKept
    <3> QED
      BY <3>1, <1>5
  <2>2. CASE pc[d] # "done"
    <3>1. d = p
      BY <2>2 DEF Typed, Runs
    <3>2. d \in Content(p)
      BY <3>1 DEF Content
    <3> QED
      BY <3>2, <1>1, <1>6
  <2> QED
    BY <2>1, <2>2
<1> QED
  BY <1>4, <1>8, <1>9, <1>10, <1>11, <1>12

\* The step that loses a row with two compactors: a file goes.
LEMMA RemovalKeeps ==
  ASSUME IInv, OneCompactor, NEW c \in Compactors, NEW i \in Indices,
         RemoveAbsorbed(c, i)
  PROVE  IInv'
<1> USE DEF IInv, RemoveAbsorbed
<1>1. Typed'
  BY DEF Typed, PCs
<1>2. \A e \in Compactors : e = c
  BY DEF OneCompactor
<1>3. FreshStart' /\ KeepCovers' /\ HoldsRows'
  BY <1>2 DEF FreshStart, KeepCovers, HoldsRows, Typed
<1>4. absorbed'[c] = absorbed[c] \ {i} /\ files'[i] = {}
  BY DEF Typed
<1>5. \A k \in Indices : k # i => files'[k] = files[k]
  BY DEF Typed
<1>6. \A k \in absorbed[c], d \in Deletions :
        d \in files[k] /\ d \in referenced =>
          \E j \in Indices \ absorbed[c] : d \in files'[j]
  BY <1>5 DEF RowsElsewhere
<1>7. RowsElsewhere'
  BY <1>2, <1>4, <1>5, <1>6 DEF RowsElsewhere, Typed
<1>8. RowsKept'
  <2> SUFFICES ASSUME NEW d \in Deletions, pc'[d] = "done", d \in referenced
               PROVE  \E j \in Indices : d \in files'[j]
    BY DEF RowsKept, Recorded, Listed
  <2>1. PICK k \in Indices : d \in files[k]
    BY OnRecord DEF RowsKept
  <2>2. CASE k = i
    BY <2>1, <2>2, <1>6
  <2>3. CASE k # i
    BY <2>1, <2>3, <1>5
  <2> QED
    BY <2>2, <2>3
<1> QED
  BY <1>1, <1>3, <1>7, <1>8

LEMMA InvStep ==
  ASSUME IInv, OneCompactor, [Next]_vars
  PROVE  IInv'
<1> USE DEF IInv
<1>1. ASSUME NEW d \in Deletions, BeginDeletion(d)
      PROVE  IInv'
  BY <1>1, RecordsAssumption DEF BeginDeletion, Moves, compaction, Typed, PCs, FreshStart,
     KeepCovers, HoldsRows, RowsElsewhere, RowsKept, Recorded, Listed, Runs
<1>2. ASSUME NEW d \in Deletions, Unreference(d)
      PROVE  IInv'
  BY <1>2 DEF Unreference, compaction, Typed, PCs, FreshStart, KeepCovers,
     HoldsRows, RowsElsewhere, RowsKept, Recorded, Listed
<1>3. ASSUME NEW p \in Runs, ListForNext(p)
      PROVE  IInv'
  BY <1>3 DEF ListForNext, Moves, compaction, Typed, PCs, FreshStart, KeepCovers,
     HoldsRows, RowsElsewhere, RowsKept, Recorded, Listed, Runs
<1>4. ASSUME NEW p \in Runs, Put(p)
      PROVE  IInv'
  BY <1>4, WriteKeeps DEF Put, Moves
<1>5. ASSUME NEW p \in Runs, PutTaken(p)
      PROVE  IInv'
  <2>1. CASE Free(next[p])
    BY <1>5, <2>1, WriteKeeps DEF PutTaken
  <2>2. CASE ~Free(next[p])
    BY <1>5, <2>2 DEF PutTaken, compaction, Typed, PCs, FreshStart, KeepCovers,
       HoldsRows, RowsElsewhere, RowsKept, Recorded, Listed
  <2> QED
    BY <2>1, <2>2
<1>6. ASSUME NEW c \in Compactors, BeginCompaction(c)
      PROVE  IInv'
  BY <1>6, RecordsAssumption DEF BeginCompaction, Moves, Typed, PCs, FreshStart,
     KeepCovers, HoldsRows, RowsElsewhere, RowsKept, Recorded, Listed, Runs
<1>7. ASSUME NEW c \in Compactors, Merge(c)
      PROVE  IInv'
  <2>0. c \in Runs /\ pc[c] = "read"
    BY <1>7 DEF Runs, Merge, Moves
  <2>1. PICK to \in {"done", "remove", "list"} :
          /\ pc' = [pc EXCEPT ![c] = to]
          /\ to = "remove" => Content(c) = {}
    BY <1>7 DEF Merge, Moves
  <2>2. UNCHANGED <<files, referenced, next, todo, absorbed, rows, keep>>
    BY <1>7 DEF Merge, compaction
  <2>3. Typed'
    BY <2>0, <2>1, <2>2 DEF Typed, PCs
  <2>4. FreshStart' /\ KeepCovers' /\ HoldsRows'
    BY <2>0, <2>1, <2>2 DEF Typed, FreshStart, KeepCovers, HoldsRows, Runs
  <2>5. RowsKept'
    BY <2>0, <2>1, <2>2, RecordsAssumption
    DEF Typed, RowsKept, Recorded, Listed, Runs
  <2>6. ASSUME Content(c) = {},
               NEW i \in absorbed[c], NEW d \in files[i] \cap referenced
        PROVE  FALSE
    BY <2>0, <2>6, RecordsAssumption DEF HoldsRows, KeepCovers, Content
  <2>7. RowsElsewhere'
    BY <2>0, <2>1, <2>2, <2>6 DEF Typed, HoldsRows, RowsElsewhere, Runs
  <2> QED
    BY <2>3, <2>4, <2>5, <2>7
<1>8. ASSUME NEW c \in Compactors, EndCompaction(c)
      PROVE  IInv'
  <2>1. Typed'
    BY <1>8 DEF EndCompaction, Typed, PCs, Runs
  <2>2. FreshStart' /\ KeepCovers' /\ HoldsRows' /\ RowsElsewhere'
    BY <1>8 DEF EndCompaction, Typed, FreshStart, KeepCovers, HoldsRows,
       RowsElsewhere, Runs
  <2>3. RowsKept'
    BY <1>8, RecordsAssumption
    DEF EndCompaction, Typed, RowsKept, Recorded, Listed, Runs
  <2> QED
    BY <2>1, <2>2, <2>3
<1>9. ASSUME NEW c \in Compactors, NEW i \in Indices, ReadFile(c, i)
      PROVE  IInv'
  <2>1. Typed' /\ FreshStart' /\ KeepCovers' /\ RowsElsewhere' /\ RowsKept'
    BY <1>9 DEF ReadFile, Typed, PCs, FreshStart, KeepCovers, RowsElsewhere,
       RowsKept, Recorded, Listed
  <2>2. HoldsRows'
    BY <1>9 DEF ReadFile, Typed, HoldsRows, Listed
  <2> QED
    BY <2>1, <2>2
<1>10. ASSUME NEW c \in Compactors, NEW i \in Indices, RemoveAbsorbed(c, i)
       PROVE  IInv'
  BY <1>10, RemovalKeeps
<1>11. CASE UNCHANGED vars
  BY <1>11 DEF vars, compaction, Typed, PCs, FreshStart, KeepCovers, HoldsRows,
     RowsElsewhere, RowsKept, Recorded, Listed
<1> QED
  BY <1>1, <1>2, <1>3, <1>4, <1>5, <1>6, <1>7, <1>8, <1>9, <1>10, <1>11
  DEF Next

\* While cleanups compact one at a time, what a delete has put on record stays
\* there for as long as a snapshot references it.
THEOREM RecordKept ==
  ASSUME OneCompactor
  PROVE  Spec => []RowsKept
<1>1. Init => IInv
  BY InitInv
<1>2. IInv /\ [Next]_vars => IInv'
  BY InvStep
<1>3. IInv => RowsKept
  BY DEF IInv
<1> QED
  BY <1>1, <1>2, <1>3, PTL DEF Spec

-----------------------------------------------------------------------------
(***************************************************************************)
(* The refinement.  A compactor's write puts nothing on record that isn't  *)
(* there: the rows it has read stand in the files it has absorbed, for it  *)
(* is the only one to delete any.                                          *)
(***************************************************************************)
RowsStand ==
  \A c \in Compactors :
    /\ pc[c] = "idle" => rows[c] = {}
    /\ pc[c] \in {"read", "list", "put"} =>
         \A d \in rows[c] : \E i \in absorbed[c] : d \in files[i]

\* A file with rows is as it was, but for one that a compactor deletes.
LEMMA FilesStay ==
  ASSUME IInv, Next
  PROVE  \/ \A i \in Indices : files[i] # {} => files'[i] = files[i]
         \/ \E c \in Compactors, i \in Indices : RemoveAbsorbed(c, i)
<1> USE DEF IInv, Typed
<1>1. ASSUME NEW p \in Runs, Put(p) \/ PutTaken(p)
      PROVE  \A i \in Indices : files[i] # {} => files'[i] = files[i]
  BY <1>1 DEF Put, PutTaken, Free
<1>2. ASSUME NEW d \in Deletions, BeginDeletion(d) \/ Unreference(d)
      PROVE  UNCHANGED files
  BY <1>2 DEF BeginDeletion, Unreference
<1>3. ASSUME NEW p \in Runs, ListForNext(p)
      PROVE  UNCHANGED files
  BY <1>3 DEF ListForNext
<1>4. ASSUME NEW c \in Compactors, BeginCompaction(c) \/ Merge(c) \/ EndCompaction(c)
      PROVE  UNCHANGED files
  BY <1>4 DEF BeginCompaction, Merge, EndCompaction
<1>5. ASSUME NEW c \in Compactors, NEW i \in Indices, ReadFile(c, i)
      PROVE  UNCHANGED files
  BY <1>5 DEF ReadFile
<1> QED BY <1>1, <1>2, <1>3, <1>4, <1>5 DEF Next

LEMMA RowsStandStep ==
  ASSUME IInv, RowsStand, OneCompactor, [Next]_vars
  PROVE  RowsStand'
<1> USE DEF IInv, Typed, RowsStand
<1>1. CASE UNCHANGED vars
  BY <1>1 DEF vars, compaction
<1>2. ASSUME NEW c \in Compactors, NEW i \in Indices, RemoveAbsorbed(c, i)
      PROVE  RowsStand'
  <2>1. \A e \in Compactors : e = c
    BY DEF OneCompactor
  <2> QED BY <1>2, <2>1 DEF RemoveAbsorbed
<1>3. CASE Next /\ \A i \in Indices : files[i] # {} => files'[i] = files[i]
  <2> USE RecordsAssumption DEF Runs
  <2>0. \A d \in Deletions, i \in Indices : d \in files[i] => d \in files'[i]
    BY <1>3
  <2>1. ASSUME NEW d \in Deletions, BeginDeletion(d) \/ Unreference(d)
        PROVE  RowsStand'
    BY <2>1 DEF BeginDeletion, Unreference, Moves, compaction
  <2>2. ASSUME NEW p \in Runs, ListForNext(p) \/ Put(p) \/ PutTaken(p)
        PROVE  RowsStand'
    <3>1. absorbed' = absorbed /\ rows' = rows
      BY <2>2 DEF ListForNext, Put, PutTaken, compaction
    <3>2. \A c \in Compactors :
            /\ pc'[c] = "idle" => pc[c] = "idle"
            /\ pc'[c] \in {"read", "list", "put"} => pc[c] \in {"read", "list", "put"}
      BY <2>2 DEF ListForNext, Put, PutTaken, Moves, AfterWrite
    <3> QED BY <2>0, <3>1, <3>2
  <2>3. ASSUME NEW c \in Compactors, BeginCompaction(c)
        PROVE  RowsStand'
    BY <2>3 DEF BeginCompaction, Moves
  <2>4. ASSUME NEW c \in Compactors, Merge(c)
        PROVE  RowsStand'
    BY <2>4 DEF Merge, Moves, compaction
  <2>5. ASSUME NEW c \in Compactors, EndCompaction(c)
        PROVE  RowsStand'
    BY <2>5 DEF EndCompaction
  <2>6. ASSUME NEW c \in Compactors, NEW i \in Indices, ReadFile(c, i)
        PROVE  RowsStand'
    <3>1. \A d \in files[i] : i \in absorbed'[c]
      BY <2>6 DEF ReadFile, Listed
    <3> QED BY <2>6, <3>1 DEF ReadFile
  <2> QED BY <1>2, <1>3, <2>1, <2>2, <2>3, <2>4, <2>5, <2>6 DEF Next
<1> QED BY <1>1, <1>2, <1>3, FilesStay

\* What one write does to the record.
LEMMA WriteRecords ==
  ASSUME IInv, RowsStand, NEW p \in Runs, pc[p] = "put", Free(next[p]),
         files' = [files EXCEPT ![next[p]] = Content(p)]
  PROVE  Recorded' = Recorded \cup ({p} \cap Deletions)
<1> USE DEF IInv, Typed
<1>1. next[p] \in Indices /\ files[next[p]] = {}
  BY DEF Free
<1>2. \A d : d \in Recorded' <=> \E i \in Indices : d \in files'[i]
  BY DEF Recorded, Listed
<1>3. \A d : d \in Recorded' <=> d \in Recorded \/ d \in Content(p)
  <2>1. files'[next[p]] = Content(p) /\ \A i \in Indices \ {next[p]} : files'[i] = files[i]
    BY <1>1
  <2> HIDE DEF IInv
  <2> QED BY <1>1, <1>2, <2>1, OnRecord
<1>4. CASE p \in Deletions
  BY <1>3, <1>4 DEF Content
<1>5. CASE p \notin Deletions
  <2>1. p \in Compactors /\ Content(p) \subseteq rows[p]
    BY <1>5 DEF Runs, Content
  <2>2. \A d \in rows[p] : d \in Recorded
    BY <2>1, OnRecord DEF RowsStand
  <2> QED BY <1>3, <1>5, <2>1, <2>2
<1> QED BY <1>4, <1>5

\* Every step of a run is a step of the abstract record, or none.
LEMMA AbstractStep ==
  ASSUME IInv, RowsStand, OneCompactor, [Next]_vars
  PROVE  [Abstract!Next]_(Abstract!vars)
<1> DEFINE done == {d \in Deletions : pc[d] = "done"}
<1> USE RecordsAssumption DEF IInv, Typed, Runs
<1>a. UNCHANGED files => UNCHANGED Recorded
  BY DEF Recorded, Listed
<1>b. ASSUME UNCHANGED <<files, referenced>>,
             \A d \in Deletions : pc'[d] = "done" <=> pc[d] = "done"
      PROVE  UNCHANGED Abstract!vars
  BY <1>a, <1>b DEF Abstract!vars
<1>1. CASE UNCHANGED vars
  BY <1>1, <1>b DEF vars
<1>2. ASSUME NEW d \in Deletions, BeginDeletion(d)
      PROVE  UNCHANGED Abstract!vars
  BY <1>2, <1>b DEF BeginDeletion, Moves
<1>3. ASSUME NEW d \in Deletions, Unreference(d)
      PROVE  Abstract!Next
  BY <1>3, <1>a DEF Unreference, Abstract!Next, Abstract!Unreference
<1>4. ASSUME NEW p \in Runs, ListForNext(p)
      PROVE  UNCHANGED Abstract!vars
  BY <1>4, <1>b DEF ListForNext, Moves
<1>5. ASSUME NEW p \in Runs, Put(p)
      PROVE  [Abstract!Next]_(Abstract!vars)
  <2>1. Recorded' = Recorded \cup ({p} \cap Deletions)
    BY <1>5, WriteRecords DEF Put, Moves
  <2>2. CASE p \in Deletions
    <3>1. done' = done \cup {p}
      BY <1>5, <2>2 DEF Put, Moves, AfterWrite
    <3> HIDE DEF done
    <3>2. Abstract!Record(p)
      BY <1>5, <2>1, <2>2, <3>1 DEF Put, Abstract!Record, done
    <3> QED BY <2>2, <3>2 DEF Abstract!Next
  <2>3. CASE p \notin Deletions
    BY <1>5, <2>1, <2>3 DEF Put, Moves, Abstract!vars
  <2> QED BY <2>2, <2>3
<1>6. ASSUME NEW p \in Runs, PutTaken(p)
      PROVE  [Abstract!Next]_(Abstract!vars)
  <2>1. UNCHANGED <<pc, referenced>>
    BY <1>6 DEF PutTaken
  <2>2. CASE ~Free(next[p])
    BY <1>6, <1>b, <2>1, <2>2 DEF PutTaken
  <2>3. CASE Free(next[p])
    <3>1. Recorded' = Recorded \cup ({p} \cap Deletions)
      BY <1>6, <2>3, WriteRecords DEF PutTaken
    <3>2. CASE p \in Deletions
      BY <2>1, <3>1, <3>2 DEF Abstract!Next, Abstract!Record
    <3>3. CASE p \notin Deletions
      BY <2>1, <3>1, <3>3 DEF Abstract!vars
    <3> QED BY <3>2, <3>3
  <2> QED BY <2>2, <2>3
<1>7. ASSUME NEW c \in Compactors, BeginCompaction(c) \/ Merge(c) \/ EndCompaction(c)
      PROVE  UNCHANGED Abstract!vars
  <2>1. UNCHANGED <<files, referenced>>
    BY <1>7 DEF BeginCompaction, Merge, EndCompaction
  <2>2. \A d \in Deletions : pc'[d] = pc[d]
    BY <1>7 DEF BeginCompaction, Merge, EndCompaction, Moves
  <2> QED BY <1>b, <2>1, <2>2
<1>8. ASSUME NEW c \in Compactors, NEW i \in Indices, ReadFile(c, i)
      PROVE  UNCHANGED Abstract!vars
  BY <1>8, <1>b DEF ReadFile
<1>9. ASSUME NEW c \in Compactors, NEW i \in Indices, RemoveAbsorbed(c, i)
      PROVE  Abstract!Next
  <2> DEFINE gone == Recorded \ Recorded'
  <2>1. files' = [files EXCEPT ![i] = {}] /\ UNCHANGED <<pc, referenced>>
    BY <1>9 DEF RemoveAbsorbed
  <2>2. \A d : d \in Recorded' <=> \E j \in Indices : d \in files'[j]
    BY DEF Recorded, Listed
  <2>3. Recorded' \subseteq Recorded /\ Recorded \subseteq Deletions
    BY <2>1, <2>2, OnRecord
  <2>4. gone \cap referenced = {}
    <3> SUFFICES ASSUME NEW d \in referenced, NEW j \in Indices, d \in files[j]
                 PROVE  \E k \in Indices : d \in files'[k]
      BY <2>2, OnRecord
    <3>1. CASE j # i
      BY <2>1, <3>1
    <3>2. CASE j = i
      <4>1. PICK k \in Indices \ absorbed[c] : d \in files[k]
        BY <1>9, <3>2 DEF RemoveAbsorbed, RowsElsewhere
      <4>2. k # i
        BY <1>9, <4>1 DEF RemoveAbsorbed
      <4> QED BY <2>1, <4>1, <4>2
    <3> QED BY <3>1, <3>2
  <2>5. Recorded' = Recorded \ gone /\ gone \in SUBSET Deletions
    BY <2>3
  <2>6. Abstract!Drop(gone)
    BY <2>1, <2>4, <2>5 DEF Abstract!Drop
  <2> QED BY <2>5, <2>6 DEF Abstract!Next
<1> QED
  BY <1>1, <1>2, <1>3, <1>4, <1>5, <1>6, <1>7, <1>8, <1>9 DEF Next

\* While cleanups compact one at a time, the numbered files are a record that
\* loses a row only once no snapshot references it: each request of a delete
\* (writeDeletionRecord) or of a compaction (compactDeletionRecords) writes a
\* row down, drops such rows, or changes nothing of the record.
THEOREM FilesImplementRecord ==
  ASSUME OneCompactor
  PROVE  Spec => ImplementsRecord
<1>1. Init => IInv /\ RowsStand
  BY InitInv DEF Init, RowsStand
<1>2. IInv /\ RowsStand /\ [Next]_vars => (IInv /\ RowsStand)'
  BY InvStep, RowsStandStep
<1>3. Init => Abstract!Init
  BY RecordsAssumption DEF Init, Abstract!Init, Recorded, Listed, Runs
<1>4. IInv /\ RowsStand /\ [Next]_vars => [Abstract!Next]_(Abstract!vars)
  BY AbstractStep
<1> QED
  BY <1>1, <1>2, <1>3, <1>4, PTL DEF Spec, ImplementsRecord, Abstract!Spec

-----------------------------------------------------------------------------
(***************************************************************************)
(* Types                                                                   *)
(***************************************************************************)

\* Among indices there is a greatest: the one farthest up has the least to go.
LEMMA NextIndex ==
  ASSUME NEW S \in SUBSET Indices
  PROVE  Max({0} \cup S) + 1 \in 1 .. MaxIndex + 1
<1> DEFINE T == {0} \cup S
           togo == {MaxIndex - x : x \in T}
<1>1. T \subseteq 0 .. MaxIndex /\ MaxIndex \in Nat
  BY RecordsAssumption DEF Indices
<1>2. togo \subseteq Nat /\ togo # {}
  BY <1>1
<1>3. PICK g \in togo : \A h \in togo : ~(<<h, g>> \in OpToRel(<, Nat))
  BY <1>2, NatLessThanWellFounded, WFMin
<1>4. \A h \in togo : ~(h < g)
  BY <1>2, <1>3 DEF OpToRel
<1>5. PICK x \in T : g = MaxIndex - x
  OBVIOUS
<1>6. \A y \in T : x >= y
  <2> SUFFICES ASSUME NEW y \in T PROVE x >= y
    OBVIOUS
  <2>1. MaxIndex - y \in togo /\ ~(MaxIndex - y < MaxIndex - x)
    BY <1>4, <1>5
  <2>2. x \in Nat /\ y \in Nat
    BY <1>1
  <2> HIDE DEF T, togo
  <2> QED BY <1>1, <2>1, <2>2
<1>7. Max(T) \in T
  BY <1>6 DEF Max
<1> QED BY <1>1, <1>7

LEMMA TypesStep == TypeOK /\ [Next]_vars => TypeOK'
<1> SUFFICES ASSUME TypeOK, [Next]_vars PROVE TypeOK'
  OBVIOUS
<1> USE RecordsAssumption
<1>a. Deletions \subseteq Runs /\ Compactors \subseteq Runs /\ 1 \in 1 .. MaxIndex + 1
  BY DEF Runs
<1>b. \A p \in Runs : Content(p) \in SUBSET Deletions
  BY DEF TypeOK, Content, Runs
<1>1. ASSUME NEW d \in Deletions, BeginDeletion(d) \/ Unreference(d)
      PROVE  TypeOK'
  BY <1>a, <1>1 DEF BeginDeletion, Unreference, Moves, compaction, TypeOK, PCs
<1>2. ASSUME NEW p \in Runs, ListForNext(p)
      PROVE  TypeOK'
  <2>1. Max({0} \cup Listed) + 1 \in 1 .. MaxIndex + 1
    BY NextIndex DEF Listed
  <2> QED BY <1>2, <2>1 DEF ListForNext, Moves, compaction, TypeOK, PCs
<1>3. ASSUME NEW p \in Runs, Put(p)
      PROVE  TypeOK'
  <2>1. AfterWrite(p) \in PCs
    BY DEF AfterWrite, PCs
  <2> QED BY <1>a, <1>b, <1>3, <2>1 DEF Put, Moves, compaction, TypeOK
<1>4. ASSUME NEW p \in Runs, PutTaken(p)
      PROVE  TypeOK'
  <2>1. next[p] + 1 \in 1 .. MaxIndex + 1
    BY <1>4 DEF PutTaken, Indices
  <2> QED BY <1>b, <1>4, <2>1 DEF PutTaken, compaction, TypeOK
<1>5. ASSUME NEW c \in Compactors, BeginCompaction(c) \/ EndCompaction(c)
      PROVE  TypeOK'
  BY <1>a, <1>5 DEF BeginCompaction, EndCompaction, Moves, Listed, TypeOK, PCs
<1>6. ASSUME NEW c \in Compactors, Merge(c)
      PROVE  TypeOK'
  BY <1>a, <1>6 DEF Merge, Moves, compaction, TypeOK, PCs
<1>7. ASSUME NEW c \in Compactors, NEW i \in Indices, ReadFile(c, i) \/ RemoveAbsorbed(c, i)
      PROVE  TypeOK'
  BY <1>7 DEF ReadFile, RemoveAbsorbed, Listed, TypeOK
<1>8. CASE UNCHANGED vars
  BY <1>8 DEF vars, compaction, TypeOK
<1> QED BY <1>1, <1>2, <1>3, <1>4, <1>5, <1>6, <1>7, <1>8 DEF Next

\* Whatever the runs do, and however many compact at a time, the files stay
\* within the indices and every run at one it may write or one past the last.
THEOREM TypeCorrect == Spec => []TypeOK
<1>1. Init => TypeOK
  BY RecordsAssumption DEF Init, TypeOK, PCs, Runs
<1> QED BY <1>1, TypesStep, PTL DEF Spec
=============================================================================
