------------------------------ MODULE Integrity ------------------------------
(***************************************************************************)
(* What s3cab says of a bucket's content: the enumeration of the objects   *)
(* its snapshots reference (lib/referenced.mjs), verify's findings         *)
(* (lib/verify.mjs), cleanup's plan (lib/cleanup.mjs) and forget's         *)
(* unrestorable check (lib/unrestorable.mjs).                              *)
(*                                                                         *)
(* A bucket is                                                             *)
(*   snapshots   per set, its snapshots by name: the START (NoStart for a  *)
(*               file without one), its rows [path, hash, size], the rows  *)
(*               the reader refuses, and whether the file is damaged       *)
(*   stored      the objects: hash -> [size, archived]                     *)
(*   deleted     the deletion record: hash -> the instant                  *)
(*   records     whether the record's files are sound, damaged, or changed *)
(*               while they were read                                      *)
(***************************************************************************)
EXTENDS FiniteSetsExt

NoStart == 0

IsBucket(bucket) ==
    /\ bucket = [snapshots |-> bucket.snapshots, stored |-> bucket.stored,
                 deleted |-> bucket.deleted, records |-> bucket.records]
    /\ bucket.snapshots = [set \in DOMAIN bucket.snapshots |-> bucket.snapshots[set]]
    /\ bucket.records \in {"sound", "damaged", "changed"}
    /\ \A set \in DOMAIN bucket.snapshots :
          /\ IsFiniteSet(DOMAIN bucket.snapshots[set])
          /\ \A n \in DOMAIN bucket.snapshots[set] :
                /\ bucket.snapshots[set][n].start \in Nat
                /\ IsFiniteSet(bucket.snapshots[set][n].rows)
                /\ \A r \in bucket.snapshots[set][n].rows : r.size \in Nat
    /\ \A hash \in DOMAIN bucket.deleted : bucket.deleted[hash] \in Nat

-----------------------------------------------------------------------------
(* The enumeration.                                                        *)

SetsOf(bucket) == DOMAIN bucket.snapshots
NamesOf(bucket, set) == DOMAIN bucket.snapshots[set]
Checked(bucket, set) == {n \in NamesOf(bucket, set) : ~bucket.snapshots[set][n].damaged}
Unreadable(bucket, set) == NamesOf(bucket, set) \ Checked(bucket, set)

\* One set's references: a record per hash and path, the sizes its rows record
\* for it and the snapshots that hold it.
AddSnapshotReferences(bucket, set) ==
    LET rows == UNION {{[name |-> n, row |-> r] : r \in bucket.snapshots[set][n].rows} :
                          n \in Checked(bucket, set)}
    IN  {[hash |-> e.row.hash, path |-> e.row.path,
          sizes |-> {f.row.size : f \in {g \in rows : /\ g.row.hash = e.row.hash
                                                      /\ g.row.path = e.row.path}},
          snapshots |-> {f.name : f \in {g \in rows : /\ g.row.hash = e.row.hash
                                                      /\ g.row.path = e.row.path}}]
            : e \in rows}

HashesIn(references) == {r.hash : r \in references}
Pointing(references, hash) == {r \in references : r.hash = hash}
ReferencedAnywhere(bucket) ==
    UNION {HashesIn(AddSnapshotReferences(bucket, set)) : set \in SetsOf(bucket)}

\* A mutant of RuledOut that takes a deletion of the instant the backup began
\* for a later one.
RuledOutBefore(bucket, hash) ==
    \E set \in SetsOf(bucket) :
        \E r \in Pointing(AddSnapshotReferences(bucket, set), hash) :
            \E name \in r.snapshots :
                LET start == bucket.snapshots[set][name].start
                IN  start = NoStart \/ bucket.deleted[hash] < start

\* A deletion explains an absence when it is newer than the START of every
\* snapshot, in any set, that references the hash.
RuledOut(bucket, hash) ==
    \E set \in SetsOf(bucket) :
        \E r \in Pointing(AddSnapshotReferences(bucket, set), hash) :
            \E name \in r.snapshots :
                LET start == bucket.snapshots[set][name].start
                IN  start = NoStart \/ bucket.deleted[hash] <= start

\* The deletion record, but for those.
ExplainingDeletions(bucket) ==
    {hash \in DOMAIN bucket.deleted : ~RuledOut(bucket, hash)}

\* A size recorded for an object that its bytes in the bucket don't have.
SizeDisagreements(references, hash, storedSize) ==
    UNION {{[path |-> r.path, recordedSize |-> s] : s \in r.sizes \ {storedSize}} :
              r \in Pointing(references, hash)}

SafeSize(references, hash) == Max({0} \cup UNION {r.sizes : r \in Pointing(references, hash)})

-----------------------------------------------------------------------------
(* verify.                                                                 *)

Problem(path, problem, hash) == [path |-> path, problem |-> problem, hash |-> hash]

VerifySet(bucket, set) ==
    LET references == AddSnapshotReferences(bucket, set)
        missing == {r \in references : r.hash \notin DOMAIN bucket.stored}
        archived == {r \in references \ missing : bucket.stored[r.hash].archived}
        readable == references \ (missing \cup archived)
        expected == {r \in missing : r.hash \in ExplainingDeletions(bucket)}
        wrongSize == UNION {{Problem(d.path, "wrong-size", hash) :
                               d \in SizeDisagreements(readable, hash, bucket.stored[hash].size)} :
                              hash \in HashesIn(readable)}
        invalid == UNION {bucket.snapshots[set][n].refused : n \in Checked(bucket, set)}
    IN  [problems |-> {Problem(r.path, "missing", r.hash) : r \in missing \ expected}
                      \cup {Problem(r.path, "archived", r.hash) : r \in archived}
                      \cup wrongSize
                      \cup {Problem(r.path, "invalid", r.hash) : r \in invalid},
         expectedMissing |-> {Problem(r.path, "expected", r.hash) : r \in expected},
         snapshotsChecked |-> Cardinality(Checked(bucket, set)),
         unreadable |-> Unreadable(bucket, set)]

SetHasFindings(report) ==
    \/ report.problems # {}
    \/ report.unreadable # {}
    \/ report.snapshotsChecked = 0

Verify(bucket) == [set \in SetsOf(bucket) |-> VerifySet(bucket, set)]
VerifyHasFindings(reports) ==
    DOMAIN reports = {} \/ \E set \in DOMAIN reports : SetHasFindings(reports[set])

-----------------------------------------------------------------------------
(* cleanup's plan.                                                         *)

PlanCleanup(bucket) ==
    LET referenced == ReferencedAnywhere(bucket)
        lost == referenced \ DOMAIN bucket.stored
        Disagrees(hash) ==
            \E set \in SetsOf(bucket) :
                SizeDisagreements(AddSnapshotReferences(bucket, set), hash,
                                  bucket.stored[hash].size) # {}
    IN  [orphans |-> DOMAIN bucket.stored \ referenced,
         missing |-> lost \ ExplainingDeletions(bucket),
         damaged |-> {hash \in referenced \cap DOMAIN bucket.stored : Disagrees(hash)}]

\* The snapshots whose rows were refused.
InvalidRowSnapshots(bucket) ==
    UNION {{<<set, n>> : n \in {m \in Checked(bucket, set) :
                                   bucket.snapshots[set][m].refused # {}}} : set \in SetsOf(bucket)}

\* The interlocks, in the command's order: what stops a run, or "acts".
Cleanup(bucket, dryRun) ==
    IF \E set \in SetsOf(bucket) : Unreadable(bucket, set) # {} THEN "unreadable"
    ELSE IF InvalidRowSnapshots(bucket) # {} THEN "invalidRows"
    ELSE IF dryRun THEN "dryRun"
    ELSE IF bucket.records # "sound" THEN bucket.records
    ELSE IF PlanCleanup(bucket).missing # {} THEN "missing"
    ELSE "acts"

\* What an acting run leaves in the store, nothing having landed meanwhile.
AfterCleanup(bucket) ==
    [bucket EXCEPT !.stored =
        [hash \in DOMAIN bucket.stored \ PlanCleanup(bucket).orphans |-> bucket.stored[hash]]]

-----------------------------------------------------------------------------
(* forget's unrestorable check.                                            *)

\* What the selected snapshots alone hold in the set, less what other sets hold.
Orphaned(bucket, set, selected) ==
    LET references == AddSnapshotReferences(bucket, set)
        doomed == {hash \in HashesIn(references) :
                      \A r \in Pointing(references, hash) : r.snapshots \subseteq selected}
    IN  doomed \ UNION {HashesIn(AddSnapshotReferences(bucket, other)) :
                           other \in SetsOf(bucket) \ {set}}

\* Deleted content, which the store is asked for: forgetting can't lose it again.
Gone(bucket, set, selected) ==
    {hash \in Orphaned(bucket, set, selected) \cap ExplainingDeletions(bucket) :
        hash \notin DOMAIN bucket.stored}

\* Files are counted once per path, bytes once per object.
Tally(references, hashes) ==
    [files |-> Cardinality({r \in references : r.hash \in hashes}),
     bytes |-> SumFunctionOnSet([h \in HashesIn(references) |-> SafeSize(references, h)], hashes)]

PlanUnrestorable(bucket, set, selected) ==
    LET references == AddSnapshotReferences(bucket, set)
        gone == Gone(bucket, set, selected)
        orphaned == Orphaned(bucket, set, selected) \ gone
        referencing(hash) == UNION {r.snapshots : r \in Pointing(references, hash)}
        sole(name) == {h \in orphaned : referencing(h) = {name}}
    IN  [bySnapshot |-> [name \in selected |-> Tally(references, sole(name))],
         shared |-> Tally(references, {h \in orphaned : Cardinality(referencing(h)) > 1}),
         total |-> Tally(references, orphaned),
         orphaned |-> orphaned,
         deletedFiles |-> Tally(references, gone).files,
         lastOfSet |-> NamesOf(bucket, set) # {} /\ NamesOf(bucket, set) \subseteq selected,
         entries |-> {r \in references : r.hash \in orphaned}]

\* The bucket once the selected snapshots are forgotten.
AfterForget(bucket, set, selected) ==
    [bucket EXCEPT !.snapshots[set] = [n \in DOMAIN @ \ selected |-> @[n]]]

-----------------------------------------------------------------------------
(* What the reports promise.                                               *)

\* A file a restore brings back: its object is there, readable, at its size.
Restorable(bucket, row) ==
    /\ row.hash \in DOMAIN bucket.stored
    /\ ~bucket.stored[row.hash].archived
    /\ bucket.stored[row.hash].size = row.size

RowsOf(bucket, set) ==
    UNION {bucket.snapshots[set][n].rows : n \in Checked(bucket, set)}

\* What the files in the bucket name, those no reader gets included.
Named(bucket) ==
    UNION {UNION {{r.hash : r \in bucket.snapshots[set][n].rows \cup bucket.snapshots[set][n].refused} :
                     n \in NamesOf(bucket, set)} : set \in SetsOf(bucket)}

\* A row's absence is deliberate: the content was deleted after every backup,
\* of any set, that lists it had begun.
DeletedSince(bucket, hash) ==
    /\ hash \in DOMAIN bucket.deleted
    /\ \A set \in SetsOf(bucket) : \A n \in Checked(bucket, set) :
          (\E r \in bucket.snapshots[set][n].rows : r.hash = hash)
              => 0 < bucket.snapshots[set][n].start
                 /\ bucket.snapshots[set][n].start < bucket.deleted[hash]

\* Verify is quiet of a set exactly when all its rows restore, but for what was
\* deleted on purpose.
QuietMeansRestorable(bucket, reports) ==
    \A set \in SetsOf(bucket) :
        ~SetHasFindings(reports[set]) <=>
            /\ NamesOf(bucket, set) # {}
            /\ Unreadable(bucket, set) = {}
            /\ \A n \in NamesOf(bucket, set) : bucket.snapshots[set][n].refused = {}
            /\ \A r \in RowsOf(bucket, set) :
                  \/ Restorable(bucket, r)
                  \/ r.hash \notin DOMAIN bucket.stored /\ DeletedSince(bucket, r.hash)

\* A row that doesn't restore is named once, as a fault or as deleted.
EachBrokenRowNamed(bucket, reports) ==
    \A set \in SetsOf(bucket) : \A r \in RowsOf(bucket, set) :
        LET told == {p.problem : p \in {q \in reports[set].problems
                                            \cup reports[set].expectedMissing :
                                          /\ q.path = r.path /\ q.hash = r.hash
                                          /\ q.problem # "invalid"}}
        IN  /\ ~Restorable(bucket, r) => told # {}
            /\ Cardinality(told) <= 1

\* Cleaning up takes nothing that any snapshot file names, one that doesn't read
\* or a row that isn't valid included, and leaves verify's report as it was.
CleanupLosesNothing(bucket) ==
    Cleanup(bucket, FALSE) = "acts" =>
        /\ Named(bucket) \cap DOMAIN bucket.stored \subseteq DOMAIN AfterCleanup(bucket).stored
        /\ Verify(AfterCleanup(bucket)) = Verify(bucket)

\* Forgetting and then cleaning up stores no fewer objects than the preview said:
\* what goes is what is listed, and what no snapshot held before.
PreviewIsTheLoss(bucket, set, selected) ==
    LET before == PlanCleanup(bucket).orphans
        after == PlanCleanup(AfterForget(bucket, set, selected)).orphans
        plan == PlanUnrestorable(bucket, set, selected)
    IN  after \ before = plan.orphaned \cap DOMAIN bucket.stored

\* The rows of the preview add up.
PreviewAddsUp(bucket, set, selected) ==
    LET plan == PlanUnrestorable(bucket, set, selected)
    IN  /\ SumFunction([n \in selected |-> plan.bySnapshot[n].files]) + plan.shared.files
              = plan.total.files
        /\ SumFunction([n \in selected |-> plan.bySnapshot[n].bytes]) + plan.shared.bytes
              = plan.total.bytes
============================================================================
