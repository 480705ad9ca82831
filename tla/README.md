# s3cab in TLA+

s3cab backs directories up to an S3 bucket: content-addressed objects under
`objects/`, one snapshot file per backup under `snapshots/<set>/`, and no
server. Several machines may work on one bucket at once, and the only things
they have to coordinate with are single S3 requests. These modules model what
is hard in that: who may work beside whom, what a run may still believe of a
bucket it looked at a while ago, what a crash or a lost response leaves
behind; what one machine does with files that other programs write meanwhile;
and what s3cab says of all this: which files a pattern means, what a snapshot's
text holds, what a bucket can still give back, who signs a request.

Paths such as `lib/locks.mjs` are relative to the repository's `src/`. The
exact lines behind every definition are in `PROJECT.json` under `map`.

## Inventory

| Component | State | Operations | Modelled by |
|---|---|---|---|
| Bucket locks (`lib/locks.mjs`, `commands/unlock.mjs`) | objects `locks/<kind>-<instant>` | write, list and judge, hold, wait, release, unlock | `BucketLocks`, `UploadDeleteExclusion`; the lock's text in `Markers` |
| Uploads (`lib/upload.mjs`, `lib/objects.mjs`, `commands/backup.mjs`, `upload.mjs`) | `objects/`, `snapshots/`; in memory the skip-list, the hashes seen, the files that drifted | decide what to skip, look, hash, look again, send, publish, seed a folder or a file | `Repository` (between machines), `UploadPass` (between programs) |
| forget (`commands/forget.mjs`, `lib/unrestorable.mjs`) | `snapshots/` | check the holder, preview, remove snapshots | `Repository`, `SetOwnership`, `Integrity` |
| cleanup (`lib/bucket-scan.mjs`, `cleanup.mjs`, `remote.mjs`, `commands/cleanup.mjs`) | in memory the scan and the plan | scan, plan, confirm, top up, delete orphans, compact | `Repository`; the plan's sets in `Integrity` |
| delete (`lib/delete.mjs`, `commands/delete.mjs`) | `objects/`, the deletion record | preflight, record, remove | `Repository`, `DeletionRecords` |
| Deletion record (`lib/deletion-record.mjs`) | `deletions.<n>.tsv` files | allocate an index and write, read, compact | `DeletionRecords`, `RecordedDeletions` |
| Set ownership (`lib/set-marker.mjs`, `attach.mjs`, `commands/setup.mjs`, `takeover.mjs`, `reattach.mjs`) | `snapshots/<set>.info`, the local `claim`, the copy of the set's configuration | claim, take over, check, lose | `SetOwnership`, `SetHolder`; texts and copy in `Markers` |
| Snapshot work file (`lib/snapshot-file.mjs`, `snapshot.mjs`) | `.snapshot.tsv.gz`, `.snapshot.lookup.tsv.gz`, the snapshots | lock, write, land, park, resume; write and read the text | `WorkFile`, `SnapshotFormat`, `Listings` |
| Requests (`lib/objects.mjs`, `s3.mjs`, `network-status.mjs`) | requests in flight, the outage they share | ask, answer, retry, give up, settle | `RequestsInFlight`; the checked transfer in `UploadPass` |
| restore, extract (`lib/restore.mjs`, `atomic-file.mjs`, `commands/restore.mjs`, `extract.mjs`) | files on disk, temps, what became of each hash | select, plan, copy or fetch, rename into place, set the time, report | `Selection`, `Restore` |
| Walk, exclude, file properties (`lib/walk.mjs`, `exclude.mjs`, `path-match.mjs`, `file-props.mjs`) | none | walk the member directories, read patterns, suggest lines, reuse hashes | `Walk`, `Globs`, `Paths`, `UploadPass` |
| compare, find (`lib/compare.mjs`, `find.mjs`, `find-pattern.mjs`) | none | pair rows of two snapshots, spans of a content in many | `Comparison`, `Globs` |
| verify, referenced objects (`lib/verify.mjs`, `referenced.mjs`) | none | enumerate, find what can't be restored | `Integrity` |
| status, list, refresh (`commands/status.mjs`, `lib/remote.mjs`) | local snapshot files | list, refresh, count what is missing | `Listings` |
| Settings (`lib/env.mjs`, `env-file.mjs`, `provider.mjs`, `commands/provider.mjs`, `setup.mjs`) | a set's `env` file | read in layers, edit, switch the credential mode | `Settings` |
| Credentials (`lib/auth.mjs`, `roles-anywhere.mjs`, `stack-arns.mjs`, `commands/aws.mjs`, the error table of `s3.mjs`) | the machine's identity files, ARNs | make an identity, choose what signs, tell of it and of its failing | `SignIn`, `Certificates` |
| Command line, help, rendering (`commands.mjs`, `render.mjs`, ...) | none | | no: wording and layout |

How they interact: every command that uploads runs inside `holdUploadLock`,
every command that deletes objects inside `holdDeleteLock`. `forget` and every
reader take no lock. Uploads rely on nothing being deleted while they run: the
skip-list of an upload is decided once and trusted to the end. A cleanup scans
and plans with no lock and acts under one, so it reads again what appeared
meanwhile. A delete writes to the record before it removes anything, and every
reader of the record relies on that. Cleanups and deletes do not exclude each
other, by design.

What is hard: two LISTs and PUTs crossing; a PUT whose response is lost and
whose retry meets itself; a crash that leaves a lock, a half-made delete or a
half-made compaction; a scan that is not one moment of the bucket; names and
indices that come free and are used again; a delete that waits.

What makes each correct:

- locks: no upload works beside a delete; nobody loses its lock while it
  runs; a leftover blocks nobody for ever; uploads never wait.
- uploads: a published snapshot finds all it references in the store; what is
  skipped is stored.
- cleanup: what it deletes is referenced by nothing, at the moment it goes.
- delete and its record: whatever a snapshot references is stored, or its
  removal is on record.
- record files: no row is lost while a snapshot references its hash.
- ownership: one holder at a time publishes, as far as a check before the
  request can tell.
- work file: what lands is whole and the lander's own, no run takes another's
  file, and a run that ends leaves no lock behind.
- a pass over files others write: no object holds bytes of another hash; a file
  that changed on the way is named and its snapshot not published.
- requests in flight: the call is over only when nothing is on its way; an
  outage is waited out for the whole window and told as it is.
- restore: what lands is what was recorded, inside the output, over nothing
  that was to be left; the report and the exit code are so.
- answers: each path, pattern, walk, snapshot text, comparison, bucket,
  setting and sign-in is told as it is, for damaged, foreign and boundary data
  too.

## The modules

`UploadDeleteExclusion` is the abstract specification of the locks: two sets
of runs at work, of which one is always empty. `BucketLocks` implements it,
and `Repository` is built on it: it instantiates the abstract module and takes
its steps together with its own, so a property of `Repository` rests on
nothing about locks but what `BucketLocks` is shown to implement.

`KeptContent` is the abstract specification of the bucket: content is stored,
snapshots that need it appear when all of it is there, and what is needed goes
only after a record of it, which stays as long as the need. It knows no runs, no
locks and no memory. `Repository` implements it with many machines that upload,
clean up, delete and forget; `UploadPass` with the passes of one machine over
files that change while they are read, where nothing is deleted. So the two
models of an upload, each of which leaves out what the other is about, keep one
promise.

### BucketLocks

One step is one S3 request or a decision between two. `locks[k]` is the run
whose lines the object at key `k` holds; a key is a kind and an instant. `pc`
follows `writeLock` ("write", "readback"), `liveLocks` ("list", "get",
"judge"), `hold` ("work", "release", "withdraw") and the wait ("sleep").

- `PutLock`, `PutLockTaken`, `ReadBack` are the loop of `writeLock`. A lost
  response is the second outcome of `PutLock`: the key is written, and the run
  only learns of a 412, and reads the key back.
- `List`, `Get`, `ClearLeftover`, `Start`, `Refuse` are `liveLocks` and the two
  functions that call it. LIST and GETs are two steps, so a lock may vanish in
  between. A run may come to its decision without clearing a leftover it could
  clear: that is a pid in use again, which reads as alive.
- `EndHold`, `Release`, `Wake`, `Crash` are `hold`, a removal that fails, the
  wait and the end of a process. A process that crashed is "idle", and `Begin`
  starts another in its place once its lock has gone.
- `ShowLocks` and `Unlock` are `unlock`, between which a person answers a
  prompt. The person tells the truth: only locks of stopped commands are
  confirmed. Without that nothing holds, and the prompt asks for it.

Not modelled: two machines with one name and one user (an accepted gap of the
design), a folder marker under `locks/`, the wording of refusals.

### Repository

The bucket is `store` (hashes with an object), `snaps` (the snapshot under
each name) and `recorded` (hashes in the deletion record). A snapshot is the
set of hashes it references, and that set stands for its bytes and its ETag.
Each run has a record of its own that says where it is and what it remembers:
an upload its content and what of it is known to be stored; a cleanup its
listing with ETags, the names still to read, the references and the plan; a
delete what its preflight found.

- An upload takes its lock, then decides what to skip: from a baseline the
  bucket still has (`MatchBaseline`, then `SubtractDeleted`, which reads the
  record and HEADs), from a LIST (`ListStore`), or not at all (`SkipNothing`,
  the folder and file seeds, which publish nothing). It sends what is missing,
  one object a step, and publishes last. It may end anywhere.
- A cleanup is `ListSnapshots`, one `ReadSnapshot` per GET, `ListObjects`,
  `ReadRecordsAndPlan`, and under the lock `ListAgain`, more `ReadSnapshot`,
  `TopUp`, `DeleteOrphan` one at a time, `Compact` for the rows of one delete at
  a time. It may end anywhere, which
  covers its refusals, a declined prompt and a crash.
- A delete is `Preflight`, `TakeDeleteLock`, `RecordDeletion` and one
  `RemoveContent` per object.
- `Forget` removes one snapshot at any moment, with no lock.

Abstractions. A LIST is one step, though it is paged: objects and snapshots
change under an upload only by additions, and the models let every other run
move between any two steps. The record is one set here; its files are the next
module's. `ReadRecordsAndPlan` takes a row for an explanation of an absence
whatever its time, so the model's cleanup goes on where the program's may
refuse.

### DeletionRecords

The record's files, with `Put` and `PutTaken` for one conditional PUT (the
second with the lost response), `ListForNext` for the next free index, and the
compaction as `BeginCompaction`, `ReadFile`, `Merge`, the same write, and
`RemoveAbsorbed`. The rows of one delete stand together. `Unreference` is
`forget` taking the last snapshot that needs a delete's rows.

`RecordedDeletions` is the abstract specification: a set of rows that each
delete adds to before it says so, and that only loses rows nothing references.
The files implement it, with their numbers, retries, merges and crashes, as
long as one cleanup compacts at a time.

### SetOwnership

`SetHolder` is the abstract specification: a run publishes or forgets only
after it was told that its machine holds the set, and nothing is promised of
the time between the answer and the request, which is what a check and an
unconditional request can do.

`marker` is `snapshots/<set>.info`, `claim[m]` the `claim` file of machine
`m`, `attached` the machines with a directory for the set. A run's record
holds what it read (`mine`, `info`) and the CLAIMED it is about to write. A
machine stands for its OWNER text.

- `BeginSetup` ... `WriteSet` are `setup --new`: the look at the history, the
  conditional PUT, the local directory, and then `WriteClaim`.
- `BeginCheck`, `ReadClaim`, `Held`, `NotHeld`, `DropClaim` are `holding` and
  `assertHeld`. The claim is read, then the marker, then the claim file is
  deleted, three steps in which a second run of the machine may take part.
- `BeginTakeover`, `AttachSet`, `TakeOver`, `TakeUnclaimed`, `WriteClaim` are
  `takeover` and `reattach`. A PUT whose response is lost is sent again
  (`TakeOver` may stay where it is), or answered 412 where it is conditional.
- `FinishPass` leads a backup to its second check, `Publish` and `Forget` are
  the requests that the answer allows. `End` is any end of a run.

Not modelled: the set's config in the bucket, a claim file copied to another
machine, two machines with one OWNER text.

### WorkFile

`work` and `parked` are the files at `.snapshot.tsv.gz` and
`.snapshot.lookup.tsv.gz`, as inodes; `snapshot[n]` is what stands under a
snapshot's name, `file[f]` what an inode holds: how many rows of the pass,
whether it is closed with ".", and the name its run minted. One step is one
file operation, and `run[r].at` follows `withSnapshotFile`:

- `Begin` and `Recover` are the two ways into `readBaseline`, without and with
  a work file to adopt; `ReadParkedLookup` reads the parked file or passes it
  by.
- `CheckName`, `Open`, `OpenRefused`, `Identify`, `HashRow`, `CloseWhole` are
  the pass. `Stop` is the first Ctrl+C, `Fail` a callback that throws, `Kill`
  the second Ctrl+C or a power cut, after which rows not yet flushed are gone.
- `CheckOwn` is `ownsWorkFile`; `Land` and `Park` are the renames, which move
  whatever has the name by then; `RenameFails` and `StatFails` are their
  failures. `Release`, `Unlink` and `UnlinkFails` are the catch block.
- `Recover` and `UserDelete` may take a live run's file: the program asks the
  user whether anything is running, and the model lets the user be wrong.

Not modelled: what a row holds (so neither `--rehash` nor the time check of a
parked file; reading it or not is a free choice), `#error` rows, the debug
overwrite.

### UploadPass

One machine and a set of `N` files that other programs rewrite, remove and
bring back at any step (`Write`, with any modification time, an earlier one
included), and another machine that stores objects (`StoredElsewhere`). One step
is what happens between two awaits; a file that is rewritten while it is read
gives one of the contents it had or the mixture `"torn"` (`Got`).

- `BeginPass`, `BeginUpload`, `BeginSeed` are the five ways in: `snapshot`,
  `backup`, `upload --snapshot`, `--dir` and `--file`.
- `Reuse`, `StartHash`, `Unhashable`, `Hash` are `fileProps`: a hash is taken over
  by size, modification time and, with `S3CAB_CHECK_CHANGE_TIME`, change time
  against the moment the earlier pass began (`TrustBoundary`).
- `ReadRow`, `PassOn`, `Confirm`, `StartSend`, `Send` are `uploadObjects`: skip
  what is stored or seen, look again (`FileChange`), send, and let `putFile`
  hash what goes out (`SentIsRecorded`).
- `Land`, `Publish`, `End` are the end of a pass, whole, drifted or failed.

### RequestsInFlight

The workers of `eachInFlight` take hashes from one generator (`Take`), ask
(`Arrive`, `Answer`, with an answer that is lost or a refusal), retry by the
relay of `s3.mjs` within the window (`Retry`, `Wake`, `Throw`) and share the
outage of `network-status.mjs`. `Tick` is the clock. `Settle` and `Release` are
the call's end and the caller's delete lock.

### Restore

Rows of a snapshot, restored into one folder. `Begin` makes the plan; `Decide`
looks at a row's place again just before it is written; `OpenCopy` and `Copy`
copy from a file landed earlier, `Fetch` and `Store` from the bucket, `Absent`
asks the deletion records; `SetTime` is `utimes` after the rename. `Change`,
`Relink`, `PutFile` are other programs (an entry changes, the folder becomes a
link, a file stands at its name), `Record` and `Delete` other machines, `Abort`
and `Die` the ends in between. Two names the volume folds into one are one
entry.

### Answers and the modules of operators

What has no interleaving is a function of its input, and its module holds
operators: `Paths`, `Globs`, `Walk`, `SnapshotFormat`, `Selection`,
`Comparison`, `Integrity`, `Settings`, `SignIn`, `Certificates`, `Listings`,
`Markers`. Each ends in reference definitions, which say what an answer is to
promise without doing what the code does (`CountsNothingOver` counts the days,
`OneTree` says what makes paths fit one tree, `IsCertificate` reads back what
`BuildIdentity` wrote). `Answers` asks: one state for each question, one for
its answer. `MCAnswers` has the questions, small sets that are enumerated whole
rather than examples.

- `Paths`, `Globs`: equal and nested paths under two separators, drives and
  cases; what a pattern compiles to; how exclude.txt and find read one; the
  line that excludes exactly one path; and the exclude lines a backup suggests
  for files it couldn't read, which leave out all of those and nothing that
  was backed up before.
- `Walk`: member directories, links, unreadable and vanished entries, names no
  row can hold.
- `SnapshotFormat`: writing, strict reading and salvage, and which instants
  are real.
- `Selection`: what restore and extract take for their arguments, and the
  place of each file.
- `Comparison`: compare's pairing of moves and copies, find's spans.
- `Integrity`: verify, cleanup's plan, forget's preview, over the enumeration
  they share.
- `Listings`: keys below `snapshots/` as scan, restore, refresh and status read
  them, and the clock that names snapshots.
- `Markers`: `.info`, claim and lock texts, `dirs.txt` and `exclude.txt` as
  they travel through the bucket.
- `Settings`: the env file, its edits and the two-step switches of mode.
- `SignIn`: what signs a request, what is told of it, what is advised when it
  fails, the identity files and the table of errors.
- `Certificates`: DER, byte by byte.

## The runs

| Run | Instance | Distinct states | What it shows |
|---|---|---|---|
| `Locks` | a backup and a waiting delete on one of two systems, 3 instants, fairness | 22,629 | the refinement of `UploadDeleteExclusion`; no live lock is taken; a waiter gets its turn; uploads never wait |
| `Repository` | 2 hashes, 1 name, an upload, a cleanup, a delete | 220,018 | nothing needed is lost without a record; the refinement of `KeptContent` |
| `RecordsOneCleanup` | 3 deletes, 1 cleanup, indices up to 3 | 519,724 | no row is lost; the refinement of `RecordedDeletions` |
| `OwnershipTwoMachines` | 2 machines with a run each, 2 stamps, 2 names | 199,396 | the refinement of `SetHolder`; CREATED is kept, fresh claims are kept, a takeover takes |
| `WorkFile` | 2 runs, 3 inodes, 2 names, passes of 2 rows | 664,404 | whole snapshots, nobody's file taken, no lock left, nothing overwritten |
| `UploadPass` | 2 files, 2 contents, 2 times, 3 passes, 1 foreign write a pass | 5.06 million | stored bytes have their hash; the latest backup holds every file unchanged since; what drifts is named; a reused hash is current; the refinement of `KeptContent` |
| `RequestsInFlight` | 2 workers, 3 hashes, a window of 2 ticks, fairness | 56,132 | resolved means all done; nothing goes after the lock; the window is used up; the outage is told as it is; it ends |
| `Restore` | 2 entries, 2 contents, three selections of 2 and 3 rows, 1 foreign change | 1.74 million | content, place, leftovers, report |
| `Answers` | the questions of `MCAnswers` | 709,987 | every answer keeps its promise |
| `RecordsTwoCleanups` | 2 deletes, 2 cleanups, indices up to 3 | | violation: finding 2 |
| `RepositoryRepublished` | 1 hash, 1 name | | violation: finding 3 |
| `OwnershipTwoRuns` | 2 runs on one machine, 1 on another | | violation: finding 1 |

Every process repeats: a run that ended starts again, so a few stand for any
number one after another. Deadlock is checked in every run; where the system
may end it says so with a step of its own (`Over` of `RequestsInFlight`, an
answered question).

Further configurations are kept beside these, each of a statement that the code
does not keep; they are described under "Other observations":
`OwnershipForget`, `WorkFileParked`, `SeedSwallowed` and `AnswersDisputed`, which
has two (TLC's `-continue` shows both).

Bounds, and why they are enough:

- `Instants` (3): a key nobody holds, lists or shows stands for every instant
  not used before (`Unused`), so three are enough for two locks at once, for
  two runs of one instant, and for a lock rewritten after a wait. Instances
  with two deletes or two machines at work have passed outside the runs but
  take too long for them; the theorems have no bound.
- `NoneLeft` in `Release`: a waiting process whose removals fail leaves one
  lock behind, not one for each time it wakes.
- `NotAsListed` with `SameBytesReturn = FALSE`: no snapshot is published again
  as the very bytes a cleanup at work has listed. Finding 3 is what happens
  without it, and the theorems assume it. A name that comes back with other
  bytes is in all runs.
- Hashes (2) and one name in `Repository`: the properties speak of one hash and
  one snapshot at a time; the second hash is one that a later snapshot under
  the name shares with the earlier one or does not.
- `MaxIndex` (3): an index freed and used again needs one; two writers side by
  side need two. A write beyond it is not taken and the run stays where it is.
- The rows of one delete stand together, because they are written, absorbed
  and deleted together. They are referenced, or not, together, which a larger
  number of deletes makes up for.
- `Stamps` (2): CLAIMED has seconds, so two claims may carry one stamp; with
  two, every pair of claims is equal or not. Two machines: one that holds the
  set and one that takes it over. One run at a time on a machine
  (`OneRunEach`): finding 1 is what happens without it.
- `LockWindow = FALSE`: nobody acts between a run's check of the lock name and
  the rename or unlink that follows. The comment above `withSnapshotFile`
  accepts that window of microseconds; with it every property of the work file
  but its types can be violated. The same constant stands for the moment before
  the check: the handle is closed by then (`lib/snapshot-file.mjs:427`), so if
  the run's file has been removed, a file that another run opens just there may
  have its inode number and pass for it (`Holds`). With `FALSE` others still act
  between the close and the check, but a number is not used again.
- `NameWindow = FALSE`: no snapshot lands between another run's look at its
  name and its exclusive open. With it `LandedStays` does not hold.
- `LastRow` (2): a pass that has not begun, is half way, or is whole. Three
  inodes: one at each of the two names and one that a run has open.
- `UploadPass`, `MaxWrites` (1) and `MaxClock` (3): one foreign write may fall
  into any gap of any of three passes, of which the second may reuse the first
  one's rows and the third what the second parked. That stored bytes have their
  hash is proved for any number of writes. Two contents of one size, since a
  change of size is the easy case for every guard.
- `Window` (2) and three hashes for two workers: a retry that is not the last,
  and a hash that is taken when another request has already failed.
- `Restore`, `MaxWrites` (1): as above. Three selections: content shared by two
  files, a name the volume folds into another's, a name it refuses.
- `Answers`: texts of up to three or four tokens over the few tokens that the
  code tells apart; folders of two levels with every pairing of separators,
  drives and cases; walks of one and two member directories with every kind of
  entry; snapshots of up to three rows and histories of three; buckets of two
  sets and two hashes. The questions are in `MCAnswers`, each with what it
  ranges over.

Symmetry is over hashes, names, files, times, contents and interchangeable
runs, and only where no liveness is checked.

## Fairness

`FairSpec` of `BucketLocks` assumes that a process that runs goes on running
(weak fairness of its own next step, the end of its work included), that its
conditional PUT does not meet another run's key for ever (strong fairness of
`PutLock`: the clock moves to another instant after each meeting), and that a
person looks at the leftovers and unlocks them sooner or later. Without the
last one a crashed upload of another machine would keep a waiting delete
waiting for ever; the code says so in its own messages. Nothing makes a
command start or crash. `WaiterGetsItsTurn` has a premise of its own, that
uploads stop coming: nothing in the code keeps uploads away from a waiter.

`FairSpec` of `RequestsInFlight` assumes that a request ends, by an answer or
by the timeout of its socket, that a sleep ends, that the clock runs, and that
the call returns once it has settled. Nothing makes a request arrive or the
network come back, so `Ends` holds of a network that stays away for good: the
window ends it.

## Proofs

`BucketLocksProofs`, `RepositoryProofs`, `DeletionRecordsProofs`,
`SetOwnershipProofs`, `SnapshotProofs`, `UploadPassProofs`,
`RequestsInFlightProofs` and `RestoreProofs` hold the theorems, for any sets of
runs, systems, instants, hashes, names, machines, files and workers, and of the
operators for any bucket, disk, snapshot and history. A proof module is named for
its component; `SnapshotProofs` is of what a snapshot holds and of what is told
of it and of a bucket of them.

- **Locks.** The invariant behind `Exclusion` is `OneSawTheOther` with
  `LockHeld`: a run's lock is in the bucket from its PUT to its release, a run
  that lists sees every lock there, so of two opposed runs the one that listed
  later has seen the other. The refinement theorem follows from `Exclusion` in
  the next state, action by action.
- **Repository.** `NoUnexplainedLoss` is not inductive. What it needs: while
  an upload works no delete does (`LocksKept`); what a baseline still names is
  stored or recorded (`BaselineVouches`); what an upload skips is stored
  (`SkippedStaysStored`); a snapshot the scan has listed and that is still
  there as listed has all its references among those read or to be read
  (`ScanCovers`), and after the top-up every published snapshot has
  (`TopUpCovers`); and what a delete is about to remove is on record
  (`RemovalExplained`). The same invariant gives `OnlyDeadRowsLeave`: what a
  compaction drops was referenced neither at the plan nor by a snapshot that
  came since, which is why the top-up must be done before it.
  `RunsImplementContent` is the refinement of `KeptContent`: each step of a run
  is a step of the bucket or none. A publication needs `SkippedStaysStored`, an
  object's removal `TopUpCovers` (a cleanup) or `RemovalExplained` (a delete),
  a compaction `OnlyDeadRowsLeave`. `PromiseKeepsContent` says of the abstract
  bucket that what a snapshot needs is stored or recorded. Assumption:
  `~SameBytesReturn`.
- **Deletion record.** `RowsKept` needs that an absorbed file's rows are in
  the compaction's rows, and after the merge in another file that it does not
  delete. Assumption: at most one cleanup compacts (`OneCompactor`); finding 2
  shows it is needed. The types need no such assumption: that the index after
  the greatest listed is in range is `NextIndex`, from the well-foundedness of
  the natural numbers. The refinement of `RecordedDeletions` needs in addition
  that the rows a compaction has read still stand in the files it will delete
  (`RowsStand`): so its write puts nothing on record that was not there, and
  `RemoveAbsorbed` is the one step at which rows leave, namely those the merge
  passed over. It rests on `OneCompactor` too.
- **Ownership.** `CInv` holds for any runs: the marker a takeover has read and is
  about to replace has the CREATED of the marker there is (`OriginKnown`), and
  claims carry their own machine's name (`OwnPairs`, `OwnClaims`). It gives
  `CreatedKept` and, step by step, the refinement of `SetHolder`. With one run
  on a machine, what a run is about to delete does not match (`DroppedIsStale`,
  which lasts because a machine whose run is deleting is not taking over), and
  a pair about to be written to the claim file is in the marker unless another
  machine has taken over (`PairWritten`).
- **Work file.** `CInv`: a run's open file is its own (`OwnFile`, `OwnApart`).
  `IInv` adds that a run about to land has a whole file (`WholeInHand`), that
  a check of the lock name still holds when it is used (`CheckHolds`), and
  `LandedGone`. `LandedKept` needs `NameFree` as well: the name of a run with
  the lock is free. Assumptions: `~LockWindow`, and `~NameWindow` for the last.
- **Walk** (in `SnapshotProofs`). `WalkAlwaysAccounts`: a walk that succeeds
  lists each entry below a member directory as a file, as excluded or as an
  error, or the entry is below a folder that is so listed, or is s3cab's own
  or holds nothing. The folders on the way to an entry left out are finitely
  long names; were all of them descended into, the entry would have been told
  of, so there is a first that was not (`Least`, from the well-foundedness of
  the natural numbers), and that one was reached and is told of itself.
  `WalkListsAlwaysApart`: an answer depends on the entry and the member
  directories, not on the one the walk came from, so overlapping directories
  cannot say two things of one entry. Assumptions: `IsDisk`, that a disk that
  holds still has a folder for each entry's parent, and `Spelled`, that paths
  are sequences of tokens.
- **Instants** (in `SnapshotProofs`). `InstantsAlwaysReal`: what the reader takes
  for an instant is one of the calendar in every year, though the code looks at
  the parts of the text and the calendar is counted in days. Two months next to
  each other meet (`MonthsMeet`), by the arithmetic of leap years.
- **Reader** (in `SnapshotProofs`). `ReaderAlwaysTakesWhole`: of any lines, a
  strict read takes exactly the whole files of the format. `CutAlwaysKnown`: a
  file cut after any line but its last is refused, and a salvage accepts it and
  tells of each row that had landed. `ReadSoFar` says what the fold over the lines
  has come to after n of them: the line that faults, the "." passed, the rows
  kept. It holds of every n, by the least that it would fail of; that the fold has
  a value at all is proved as it is of sums. `EntriesAlwaysFit`: the rows taken
  are sound, one to a path, and none runs through another, since each separator of
  a path is one of its folder's too (`FolderIs`), under either way of counting
  them. That an entry lies inside a member directory compares texts split by
  `SelectSeq`, which the provers cannot expand, and stays with the run.
- **compare and find** (in `SnapshotProofs`). `HistoryAlwaysTold`: whatever
  snapshots are compared and whatever history is searched, the report adds up to
  them. compare goes through the newer snapshot row by row, and `DiffInv` holds
  after each: the paths gone are those moved from and those still taken for
  deleted, and never both; moves pair each path with at most one; as long as a
  file of a content is left over on one side none is on the other
  (`MovesTold`, which is what the greedy pass relies on); and a copy names a
  path of its content, or where one moved to, though later rows may move it on
  (`CopiesTold`). Counting moves by the rows they pair gives
  `ComparisonPairsAll`. find goes through the positions of a content, and after
  each its spans are the runs so far with a gap between any two (`AreSpans`).
  Both are recursive functions on 0 .. n. That such a function has all its
  stages is proved of each by the least stage that it would lack
  (`DiffExists`, `CollapseExists`), from the well-foundedness of the natural
  numbers, so no induction theorem with an operator parameter is needed.
  Assumption: `HistoryAssumption`, that what is asked about are snapshots: an
  order of rows, each path in one (`parseSnapshotStream` refuses both rows of a
  path that has two). Error rows may name any path, one with a row of its own
  too, which the reader accepts on purpose (`lib/snapshot-file.mjs:995`). Such a
  path of the newer snapshot is told as its row says, and as unreadable besides;
  it is never told as gone.
- **Reports of a bucket** (`Integrity`, in `SnapshotProofs`). verify and
  cleanup ask a map from each hash to the paths and sets that reference it;
  what they promise is said row by row, and lemmas take the one to the other.
  From them: verify is quiet of a set exactly when each row restores or was
  deleted on purpose after every backup that lists it began
  (`QuietAlwaysMeansRestorable`), each broken row is under exactly one heading,
  a cleanup takes nothing any file names and changes no report, and forget's
  preview is what the next cleanup takes because of it.
  `PreviewAlwaysAddsUp`: the parts of that preview, one per snapshot and one of
  what several share, come to its total in files and in bytes. Each object the
  preview counts is of one snapshot alone or of several, so it takes that a sum
  over disjoint sets is the sum of their sums (`SumOfParts`), for the fold that
  the model sums with. That the fold has a value on each finite set, and the
  same in whatever order, is proved by the smallest set that would have none.
- **Listings** (in `SnapshotProofs`). `ScanAlwaysWhole`: a scan of the bucket and
  the listing of one set read the same keys as snapshots of it.
  `RefreshAlwaysBringsBoth`: a refresh ends with what is here and what is there,
  or says that it was stopped and has brought the newest. `StatusAlwaysTrue`:
  what status counts is missing is missing. All rest on what "newest first" is
  of a finite set of minutes (`IsNewestFirst`: each once, in one order), which
  exists for every such set. `ClockAlwaysTold`: over any readings of any clock,
  after each run the latest name is that run's, or it was warned; by the runs
  in turn, the greatest name left so far being what the next is compared with.
- **Reports held together.** `BucketAlwaysToldTrue` is `BucketIsToldTrue` of the
  specification of `Answers`, and rests on the two items above. Its invariant
  `ToldInv` says which question an answer in hand belongs to, and is shared with
  `HistoryAlwaysTold`. Assumptions: `BucketAssumption`, the shape of a bucket
  (`IsBucket`, damaged files and rows without a hash included), of the keys a
  listing gives, of a folder and of a clock's readings; and
  `CanonicalAssumption`, that no set's name is empty or holds a space. TLC
  evaluates both for everything the questions range over.
- **Upload pass.** `Accounted`: unless a transfer failed, every content the pass
  has seen, and every row that has gone by, is stored, or has the content of a
  file named for a change, or is the one on its way. It needs that what a pass
  skips is stored (`SkipsStored`), which in turn needs `PublishedStored` of the
  snapshot a backup takes its skip-list from, and that a pass over a set has a
  row per file (`Shape`). `BytesMatchHash` rests on the digest of the bytes sent
  and on nothing the pass has read before. Nothing is assumed of the writes.
  A second invariant, `Current`, spans passes. Each row on hand, in the latest
  snapshot, in the parked file and in this pass is of a size and time its file
  has shown, and if the file shows them now it has the row's content, unless
  they were put back (`Known`); and a file not changed since the row's pass
  began is still the row's (`KeptSince`). `ReusedIsCurrent` follows from the
  first, and `DriftIsOfThisPass` is a conjunct that needs both: a row taken over
  was current as the pass began, so a change that fails the pass came later.
  A third, `Whole`, says what a pass leaves out: a file that has no row was gone,
  or was changed after the pass began. `BackupHoldsTheFiles` takes all three: by
  `Whole` a file that nobody changed since has a row, by `Current` the row is of
  what it holds, and by the first its object is stored with the bytes of its
  hash.
  `PassesImplementBucket` is the refinement of `KeptContent`, from the first.
  Assumptions: there is one content of no bytes, and the clock never shows the
  value that stands for no time.
- **Requests.** `Clocked`: what has passed of a request's window and what is left
  of it add up to the window. `Phases`: no worker is done while a hash is left
  to take, unless the call has failed, and the lock goes only after the call
  settled, with every worker done. `TakenIsAsked`: unless something failed, what
  was taken and is still in the bucket has a worker that asks for it.
- **Restore.** `IInv`: without `--overwrite` a row to be written had nothing at
  its name as the restore began (`Planned`); a row is worked on through a link
  only if the folder became one since the row began (`NotThroughLinks`); what
  was read of the deletion records stays explained, since records only get
  newer (`RecordsRead`); a restored row stands with its content and time unless
  somebody touched it, and a row in hand never has the place of one that stands
  (`ReportKept`, `LandedStands`). The last is what the look at the canonical
  paths just before a write is for: the names of two rows may be one entry.
  `LeftInv` gives `LeavesNothing`: a temp is the row's in hand or a dead
  process's (`TempsKnown`), a folder the row made has no other temp in it
  (`FolderClean`), and one that wasn't there is the row's in hand or has
  something in it (`FolderUsed`). Nothing is assumed of other programs.

Type invariants are proved rather than model-checked; `TypeOK` of a module that
has a proof module is a theorem there. So are `Exclusion`, `LockHeld` and
`OneSawTheOther` of the locks, which the run covers through the refinement they
give, and `SkippedStaysStored` of the repository, a part of its invariant.

Model-checked only:

- the three liveness properties (`WaiterGetsItsTurn`, `UploadsNeverWait`,
  `Ends`), which are out of the prover's reach, as is everything about ENABLED;
- the bundles of `Answers`, but for `HistoryIsTold`, `BucketIsToldTrue` and what
  is said above of instants, walks and the reader. A recursive function, or a fold
  of one known operator, can be reasoned about by its own stages, as compare,
  find, the preview's sums and the reader show. What is left builds on `SelectSeq`
  (splitting a path, filtering lines and patterns), which the provers take as it
  is, or on folds within folds (env files, certificates), whose stages are not
  worked out here.

## Findings

1. `OwnershipTwoRuns`. `lib/set-marker.mjs:211` says a pair that no longer
   matches is deleted since it can never match again. What is deleted is the
   file, which a takeover on the same machine may have written anew.
2. `RecordsTwoCleanups`. `lib/deletion-record.mjs:267` says a delete that runs
   beside a compaction writes to an index the compaction never listed. With a
   second compaction it may not: both absorb index 1, one deletes it, a delete
   finds the index free and writes there, the other compaction deletes it.
3. `RepositoryRepublished`. `docs/design/repository-protocol.md:176` says the
   top-up leaves the plan final. A snapshot the scan listed, found gone, and
   that is back with the same bytes by the top-up is read by neither:
   `readNewSnapshots` compares ETags with the listing, not with what was read.

## Other observations

Each of the first five has a configuration that TLC finds violated.

- `OwnershipForget` (`OnlyHolderForgets`). `commands/forget.mjs:136` says only
  the holder forgets. The check is made before the scan and the prompt and not
  again; the gaps listed in `guide/format.md:194` do not have it.
- `WorkFileParked` (`ParkedGrows`). `lib/snapshot-file.mjs:433` says each parked
  file is a superset of the one it replaces. A resumed run that is interrupted
  earlier in its pass than the one before parks fewer rows, and the others'
  hashes are computed again.
- `SeedSwallowed` (`SeedNamesEverySkip`). `lib/upload.mjs:387` marks a content as
  seen before it looks at the file again. If that file has changed, a second
  file with the content is neither sent nor named, though
  `lib/upload.mjs:854` and `commands/upload.mjs:53` say that a seed names what
  it skips. The next backup sends it; no snapshot is published meanwhile.
- `AnswersDisputed` (`MovesAreOfTheGone`). `lib/compare.mjs:338` takes a path
  that the newer snapshot has only an error for as gone, and a new file of its
  content as moved from there; `guide/compare.md:111` calls a move a file that
  is gone from its old path.
- `AnswersDisputed` (`DirsAreKept`). `setup` writes a directory's canonical
  path to `dirs.txt` as it is and `parseLines` trims each line
  (`lib/sets.mjs:344` and `454`), so a set of a directory whose name ends in a
  space is a set of another one.
- A file removed between the guard's lstat and `putFile`'s stat fails the run,
  though `lib/upload.mjs:331` says such a file is skipped.
- `**` in a pattern compiles to `.*` without the `s` flag: it doesn't match
  names with a line break. A POSIX path whose first folder begins with `\`
  reads as a share.
- A suggested exclude line names one entry in each member directory, not
  exactly one entry as the comment of `excludePattern` says.
- `authNotice` (`lib/s3.mjs`) names `AWS_PROFILE` even when a key signs, and
  `credentialsUsed` (`lib/auth.mjs`) names the key (`NoticeIsTrue` of `Answers`
  states it). `--endpoint` on a set that signs in by Roles Anywhere isn't
  refused, though the other order is (`RolesAnywhereIsAwsOnly`).
- `setup` that dies between `writeSet` and `updateEnvFile` leaves a set without
  its provider settings. Two `aws --roles-anywhere` at once may interleave
  their identity files, which no lock guards.

## Not modelled

- Command line, help and rendering: wording and layout, no state.
- Locks: two machines with one name and one user (an accepted gap of the
  design), a folder marker under `locks/`.
- Ownership: a claim file copied to another machine, two machines with one
  OWNER text.
- Work file: the age of a parked file, the debug overwrite.
- Upload pass: progress, and a set whose member directories change.
- Restore: folders below the first level, a foreign temp that can't be
  removed. A kill between the rename and `utimes` leaves the file with its own
  time, and a file made after the plan is replaced; both are in the model and
  both are documented (`guide/format.md`, ADR-0116). `SetTime` keeps the row's
  time or another: a disk that rounds a time by less than two seconds
  (`lib/restore.mjs:631`) and Windows outside 1970 to 2106, where the time is not
  read back (`:623`), both stand as kept, as the report has them.
- Walk: the member directory itself always lists.
- Settings: env lines with `export`, indentation, quotes, `$` or `#`. A value is
  read back as it was given; the code writes it raw, so that one with `$&` or
  `$$` changes as it replaces a line (`lib/env-file.mjs:62`), and one with quotes
  or ` #` is cut by `util.parseEnv`. A crash falls between two writes of the file,
  never inside one: `writeFileSync` empties the file first (`:70`, `:94`), and a
  crash just there loses the lines it held, which no repetition brings back.
- Sign-in: the AWS chain (external, its order taken from `lib/auth.mjs` and
  `docs/design/auth.md:55`), a key without its secret, `S3CAB_RA` exported in
  the shell, the signing of a CreateSession, the CloudFormation templates.
- Certificates: times are years below 2050, which ADR-0058 notes as a limit;
  signatures stand for the key that made them.
- Listings: ETags, which `Repository` has.
- `list` and `tree` print what they read.

## Plan

Next, in order: that no two runs of `BucketLocks` refuse or wait for each
other's leftovers for ever, as far as a safety property says it; folders of two
levels in `Restore`; the order of `setup`'s writes with a crash between any two;
`Globs` and `SnapshotFormat` with recursive functions in place of the folds, so
that lemmas about them can be stated in a module with proofs.
