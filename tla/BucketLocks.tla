----------------------------- MODULE BucketLocks -----------------------------
(***************************************************************************)
(* The bucket's locks (src/src/lib/locks.mjs, commands/unlock.mjs).        *)
(*                                                                         *)
(* A run is a process of one system, which is a machine, an operating      *)
(* system and a pid namespace together.  It writes its own lock under      *)
(* locks/ before it looks at anybody else's, and works only if it saw no   *)
(* live lock of the other kind.  A crash leaves its lock behind: the next  *)
(* run of the same system removes it, and so may a person.                 *)
(*                                                                         *)
(* One step is one S3 request, or a decision between two requests.         *)
(* A request in flight when its process stops either took effect before    *)
(* the crash or never does.                                                *)
(***************************************************************************)
CONSTANTS
  Uploads,   \* runs of backup and upload
  Deletes,   \* runs of cleanup and delete
  Waiters,   \* the deletes started with --wait
  Systems,
  SystemOf,  \* the system whose process table has the run
  Instants,  \* the instants a lock's key can name
  NoRun,     \* the value of a key that is not in the bucket
  NoKey      \* no lock of the run's own

Runs == Uploads \cup Deletes
Kinds == {"upload", "delete"}
Keys == Kinds \X Instants

ASSUME RunsAssumption ==
  /\ Uploads \cap Deletes = {}
  /\ Waiters \subseteq Deletes
  /\ SystemOf \in [Runs -> Systems]
  /\ NoRun \notin Runs
  /\ NoKey \notin Keys

VARIABLES
  locks, \* locks[k] is the run whose lines the object at key k holds
  pc,    \* where each run is; "idle" is a process that does not exist
  key,   \* the lock a run wrote last
  seen,  \* the locks a run has listed and not yet judged
  shown  \* the locks `unlock` printed and is removing

vars == <<locks, pc, key, seen, shown>>

KindOf(r) == IF r \in Uploads THEN "upload" ELSE "delete"

\* While a run is here it is inside `hold`, its lock in the bucket.
Holding == {"list", "get", "judge", "work", "release", "withdraw"}
PCs == Holding \cup {"idle", "write", "readback", "sleep"}

TypeOK ==
  /\ locks \in [Keys -> Runs \cup {NoRun}]
  /\ pc \in [Runs -> PCs]
  /\ key \in [Runs -> Keys \cup {NoKey}]
  /\ seen \in [Runs -> SUBSET Keys]
  /\ shown \subseteq Keys

Present == {k \in Keys : locks[k] # NoRun}
Running(r) == pc[r] # "idle"

\* Keys name instants, so a key nobody holds, has listed or has shown stands
\* for every instant not used before.
Unused(k) ==
  /\ locks[k] = NoRun
  /\ k \notin shown
  /\ \A q \in Runs : k \notin seen[q] /\ k # key[q]

Moves(r, from, to) ==
  /\ pc[r] = from
  /\ pc' = [pc EXCEPT ![r] = to]

Init ==
  /\ locks = [k \in Keys |-> NoRun]
  /\ pc = [r \in Runs |-> "idle"]
  /\ key = [r \in Runs |-> NoKey]
  /\ seen = [r \in Runs |-> {}]
  /\ shown = {}

-----------------------------------------------------------------------------
(***************************************************************************)
(* writeLock                                                               *)
(***************************************************************************)

\* A new process takes the place of run r, once r's last process left no lock.
Begin(r) ==
  /\ \A k \in Keys : locks[k] # r
  /\ Moves(r, "idle", "write")
  /\ UNCHANGED <<locks, key, seen, shown>>

\* The no-overwrite PUT lands.  If its response is lost the request is sent
\* again and answered 412, so the run goes on to read the key back.
PutLock(r) ==
  /\ \E i \in Instants :
       LET k == <<KindOf(r), i>> IN
       /\ Unused(k)
       /\ locks' = [locks EXCEPT ![k] = r]
       /\ key' = [key EXCEPT ![r] = k]
  /\ Moves(r, "write", "list") \/ Moves(r, "write", "readback")
  /\ UNCHANGED <<seen, shown>>

\* Another run's lock has this instant: 412, nothing written.  After a lost
\* instant the clock is made to move first, so the key is never the lost one.
PutLockTaken(r) ==
  /\ \E i \in Instants :
       LET k == <<KindOf(r), i>> IN
       /\ k \in Present
       /\ k # key[r]
       /\ key' = [key EXCEPT ![r] = k]
  /\ Moves(r, "write", "readback")
  /\ UNCHANGED <<locks, seen, shown>>

\* The same bytes are the run's own earlier write; the pid is in them.
ReadBack(r) ==
  /\ pc[r] = "readback"
  /\ pc' = [pc EXCEPT ![r] = IF locks[key[r]] = r THEN "list" ELSE "write"]
  /\ UNCHANGED <<locks, key, seen, shown>>

-----------------------------------------------------------------------------
(***************************************************************************)
(* liveLocks, holdUploadLock, holdDeleteLock                               *)
(***************************************************************************)

\* listLocks: one LIST ...
List(r) ==
  /\ Moves(r, "list", "get")
  /\ seen' = [seen EXCEPT ![r] = Present]
  /\ UNCHANGED <<locks, key, shown>>

\* ... then the GETs; a key gone by now was a lock that just ended.
Get(r) ==
  /\ Moves(r, "get", "judge")
  /\ seen' = [seen EXCEPT ![r] = @ \cap Present]
  /\ UNCHANGED <<locks, key, shown>>

Mine(r, q) == SystemOf[q] = SystemOf[r]

\* A mutant of ProcessGone that asks nothing and trusts the lock's age.
GoneByAge(r, q) == Mine(r, q)

\* processAlive: what r's process table says of q's pid.  A pid of another
\* system is in no table of r's.
ProcessGone(r, q) == Mine(r, q) => ~Running(q)

\* A lock of this system whose process is gone is removed.  That the run may
\* decide without taking this step stands for a pid in use again, which
\* reads as alive.
ClearLeftover(r, k) ==
  /\ pc[r] = "judge"
  /\ k \in seen[r] \cap Present
  /\ Mine(r, locks[k]) /\ ProcessGone(r, locks[k])
  /\ locks' = [locks EXCEPT ![k] = NoRun]
  /\ seen' = [seen EXCEPT ![r] = @ \ {k}]
  /\ UNCHANGED <<pc, key, shown>>

\* A mutant of Opposed that looks only for locks of another system.
OpposedElsewhere(r) ==
  {k \in seen[r] : k[1] # KindOf(r) /\ locks[k] # NoRun /\ ~Mine(r, locks[k])}

\* A mutant of Opposed in which any other run's lock opposes.
OpposedByAny(r) == seen[r] \ {key[r]}

Opposed(r) == {k \in seen[r] : k[1] # KindOf(r)}

Start(r) ==
  /\ Opposed(r) = {}
  /\ Moves(r, "judge", "work")
  /\ seen' = [seen EXCEPT ![r] = {}]
  /\ UNCHANGED <<locks, key, shown>>

\* A mutant of Refuse in which every run waits, the uploads too.
RefuseWaiting(r) ==
  /\ Opposed(r) # {}
  /\ Moves(r, "judge", "withdraw")
  /\ seen' = [seen EXCEPT ![r] = {}]
  /\ UNCHANGED <<locks, key, shown>>

\* An upload, or a delete without --wait, ends here with an error.
Refuse(r) ==
  /\ Opposed(r) # {}
  /\ Moves(r, "judge", IF r \in Waiters THEN "withdraw" ELSE "release")
  /\ seen' = [seen EXCEPT ![r] = {}]
  /\ UNCHANGED <<locks, key, shown>>

\* The work returns, or anything under the lock throws.
EndHold(r) ==
  /\ \E at \in {"list", "get", "judge", "work"} : Moves(r, at, "release")
  /\ seen' = [seen EXCEPT ![r] = {}]
  /\ UNCHANGED <<locks, key, shown>>

\* Bound: a waiting process whose removals fail leaves one lock, not many.
NoneLeft(r) == \A k \in Keys : locks[k] = r => k = key[r]

\* hold's finally: a removal that fails is only warned about.  The run ends,
\* or sleeps before it writes a lock again.
Release(r) ==
  /\ Moves(r, "release", "idle") \/ Moves(r, "withdraw", "sleep")
  /\ \/ locks' = [locks EXCEPT ![key[r]] = NoRun]
     \/ NoneLeft(r) /\ UNCHANGED locks
  /\ key' = [key EXCEPT ![r] = NoKey]
  /\ UNCHANGED <<seen, shown>>

Wake(r) ==
  /\ Moves(r, "sleep", "write")
  /\ UNCHANGED <<locks, key, seen, shown>>

\* A crash, Ctrl+C, or a failed request outside `hold`: the lock stays.
Crash(r) ==
  /\ Running(r)
  /\ pc' = [pc EXCEPT ![r] = "idle"]
  /\ key' = [key EXCEPT ![r] = NoKey]
  /\ seen' = [seen EXCEPT ![r] = {}]
  /\ UNCHANGED <<locks, shown>>

-----------------------------------------------------------------------------
(***************************************************************************)
(* unlock: a person confirms only locks whose command has stopped, as its  *)
(* prompt asks, and exactly the locks it showed are removed.               *)
(***************************************************************************)
Leftovers == {k \in Present : ~Running(locks[k])}

ShowLocks(ks) ==
  /\ shown = {}
  /\ ks # {}
  /\ ks \subseteq Leftovers
  /\ shown' = ks
  /\ UNCHANGED <<locks, pc, key, seen>>

Unlock(k) ==
  /\ k \in shown
  /\ locks' = [locks EXCEPT ![k] = NoRun]
  /\ shown' = shown \ {k}
  /\ UNCHANGED <<pc, key, seen>>

-----------------------------------------------------------------------------
Step(r) ==
  \/ Begin(r) \/ PutLock(r) \/ PutLockTaken(r) \/ ReadBack(r)
  \/ List(r) \/ Get(r) \/ (\E k \in Keys : ClearLeftover(r, k))
  \/ Start(r) \/ Refuse(r) \/ EndHold(r) \/ Release(r) \/ Wake(r) \/ Crash(r)

Person ==
  \/ \E ks \in SUBSET Keys : ShowLocks(ks)
  \/ \E k \in Keys : Unlock(k)

Next == (\E r \in Runs : Step(r)) \/ Person

Spec == Init /\ [][Next]_vars

(***************************************************************************)
(* Fairness.  A process that runs goes on running, its work included;      *)
(* nothing makes a command start, crash or lose an instant.  A person      *)
(* looks at the leftovers sooner or later.                                 *)
(***************************************************************************)
Progress(r) ==
  \/ ReadBack(r) \/ List(r) \/ Get(r) \/ Start(r) \/ Refuse(r)
  \/ (pc[r] = "work" /\ EndHold(r)) \/ Release(r) \/ Wake(r)

FairSpec ==
  /\ Spec
  /\ \A r \in Runs : WF_vars(Progress(r)) /\ SF_vars(PutLock(r))
  /\ WF_vars(shown = {} /\ ShowLocks(Leftovers))
  /\ \A k \in Keys : WF_vars(Unlock(k))

-----------------------------------------------------------------------------
(***************************************************************************)
(* Properties                                                              *)
(***************************************************************************)

\* No upload works while a delete works: what holdUploadLock's comment
\* promises to everything that decides what to skip.
Exclusion ==
  \A u \in Uploads, d \in Deletes : ~(pc[u] = "work" /\ pc[d] = "work")

\* The lock of a run inside `hold` stays in the bucket, whoever lists,
\* clears, unlocks or writes beside it.
LockHeld == \A r \in Runs : pc[r] \in Holding => locks[key[r]] = r

\* A lock vanishes only by its own run's release or once that run stopped.
OnlyDeadLocksTaken ==
  [][\A k \in Keys :
       locks[k] # NoRun /\ locks'[k] # locks[k] =>
         \/ ~Running(locks[k])
         \/ pc[locks[k]] \in {"release", "withdraw"}]_vars

\* Of an upload and a delete that have both listed, one has the other's lock
\* before it: write first, look second.
OneSawTheOther ==
  \A u \in Uploads, d \in Deletes :
    /\ pc[u] \in {"get", "judge"} /\ pc[d] \in {"get", "judge"} =>
         key[u] \in seen[d] \/ key[d] \in seen[u]
    /\ pc[u] \in {"get", "judge"} /\ pc[d] = "work" => key[d] \in seen[u]
    /\ pc[u] = "work" /\ pc[d] \in {"get", "judge"} => key[u] \in seen[d]

\* The abstract exclusion, with the runs at work as its two sets.
Abstract == INSTANCE UploadDeleteExclusion WITH
  uploading <- {u \in Uploads : pc[u] = "work"},
  deleting <- {d \in Deletes : pc[d] = "work"}

\* The protocol implements the abstract exclusion, step by step.
ImplementsExclusion == Abstract!Spec

\* A delete that waits with --wait gets its turn, or its process ends, once
\* uploads stop coming.
WaiterGetsItsTurn ==
  <>[](\A u \in Uploads : pc[u] = "idle") =>
    \A d \in Waiters : pc[d] = "sleep" ~> pc[d] \in {"work", "idle"}

\* A backup or upload never waits: from its first lock on it ends, or works.
UploadsNeverWait ==
  \A u \in Uploads : pc[u] = "write" ~> pc[u] \in {"work", "idle"}

=============================================================================
