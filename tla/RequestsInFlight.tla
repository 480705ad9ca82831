--------------------------- MODULE RequestsInFlight ---------------------------
(***************************************************************************)
(* Many requests at a time over a network that comes and goes: the workers *)
(* of eachInFlight (src/src/lib/objects.mjs), each request retried by      *)
(* requestErrorRelay (s3.mjs), and the one outage they share               *)
(* (network-status.mjs).  The caller holds a delete lock until the call is *)
(* over (locks.mjs).                                                       *)
(*                                                                         *)
(* A request that is asked reaches the bucket at any time until it is      *)
(* answered; an answer can be lost, and the request with it or not.  Time  *)
(* passes in ticks; a worker counts the ticks it has left.                 *)
(***************************************************************************)
EXTENDS Integers, Sequences, FiniteSets

CONSTANTS
  Hashes,   \* what the call is about
  Order,    \* the hashes as the caller lists them
  Workers,  \* REQUESTS_IN_FLIGHT of them
  Window,   \* NETWORK_RETRY_WINDOW_MS, in ticks
  None

ASSUME RequestsAssumption ==
  /\ IsFiniteSet(Hashes) /\ Order \in Seq(Hashes)
  /\ \A h \in Hashes : \E i \in DOMAIN Order : Order[i] = h
  /\ \A i, j \in DOMAIN Order : Order[i] = Order[j] => i = j
  /\ IsFiniteSet(Workers) /\ Workers # {}
  /\ Window \in Nat /\ Window > 0
  /\ None \notin Hashes \cup {"network", "refused"} /\ None \notin 0 .. Window

VARIABLES
  stored,   \* what the bucket holds of the hashes
  lock,     \* the caller's delete lock
  taken,    \* how many hashes the generator has given out
  closed,   \* a worker threw out of its for-of
  failure,  \* the first error
  settled,  \* what the call came to
  worker,   \* each worker, and the request it is about
  outage,   \* the state of network-status.mjs
  said,     \* history: the last status line
  through   \* history: a request has got through since the outage was announced

vars == <<stored, lock, taken, closed, failure, settled, worker, outage, said, through>>
call == <<lock, taken, closed, failure, settled>>
status == <<outage, said, through>>

Errors == {"network", "refused"}
WorkerState ==
  [at : {"free", "asked", "answered", "asleep", "done"},
   hash : Hashes \cup {None},
   error : Errors \cup {None},        \* the answer, if it is one
   retries : 0 .. 2,                  \* the attempt, as far as it matters
   left : 0 .. Window \cup {None},    \* ticks to the deadline
   waiting : BOOLEAN,                 \* counted into the outage
   failing : 0 .. Window]             \* history: ticks since the first failure

TypeOK ==
  /\ stored \subseteq Hashes /\ lock \in BOOLEAN
  /\ taken \in 0 .. Len(Order) /\ closed \in BOOLEAN
  /\ failure \in Errors \cup {None}
  /\ settled \in {"no", "resolved", "rejected"}
  /\ worker \in [Workers -> WorkerState]
  /\ outage \in [waiting : Nat, announced : BOOLEAN, recovered : BOOLEAN]
  /\ said \in {None, "lost", "back"} /\ through \in BOOLEAN

Free == [at |-> "free", hash |-> None, error |-> None, retries |-> 0,
         left |-> None, waiting |-> FALSE, failing |-> 0]
Quiet == [waiting |-> 0, announced |-> FALSE, recovered |-> FALSE]

Init ==
  /\ stored \in SUBSET Hashes /\ lock = TRUE
  /\ taken = 0 /\ closed = FALSE /\ failure = None /\ settled = "no"
  /\ worker = [w \in Workers |-> Free]
  /\ outage = Quiet /\ said = None /\ through = FALSE

-----------------------------------------------------------------------------
(***************************************************************************)
(* network-status.mjs: what a request that waits, or stops, says           *)
(***************************************************************************)
EnterNetworkWait ==
  /\ outage' = [waiting |-> outage.waiting + 1, announced |-> TRUE,
                recovered |-> outage.announced /\ outage.recovered]
  /\ IF outage.announced THEN UNCHANGED <<said, through>>
     ELSE said' = "lost" /\ through' = FALSE

BackOnline(recovered) == outage.announced /\ recovered

LeaveNetworkWait(completed) ==
  LET left == outage.waiting - 1
      recovered == outage.recovered \/ completed
  IN /\ outage' = IF left > 0 THEN [outage EXCEPT !.waiting = left, !.recovered = recovered]
                             ELSE [Quiet EXCEPT !.waiting = left]
     /\ said' = IF left <= 0 /\ BackOnline(recovered) THEN "back" ELSE said

\* A mutant of Finally that counts the request out only if it got through.
FinallyOnSuccess(w, completed) ==
  /\ through' = (through \/ completed)
  /\ IF worker[w].waiting /\ completed THEN LeaveNetworkWait(completed)
     ELSE UNCHANGED <<outage, said>>

\* The relay's finally.
Finally(w, completed) ==
  /\ through' = (through \/ completed)
  /\ IF worker[w].waiting THEN LeaveNetworkWait(completed)
     ELSE UNCHANGED <<outage, said>>

-----------------------------------------------------------------------------
(***************************************************************************)
(* eachInFlight: a worker takes the next hash, until there is none or the  *)
(* generator is closed                                                     *)
(***************************************************************************)

QueueEmpty == closed \/ taken = Len(Order)

\* A mutant of Asking in which the window runs from the request.
AskingOnTheClock(hash) == [Free EXCEPT !.at = "asked", !.hash = hash, !.left = Window]

Asking(hash) == [Free EXCEPT !.at = "asked", !.hash = hash]

Take(w) ==
  /\ worker[w].at = "free"
  /\ IF QueueEmpty
     THEN /\ worker' = [worker EXCEPT ![w].at = "done"]
          /\ UNCHANGED taken
     ELSE /\ taken' = taken + 1
          /\ worker' = [worker EXCEPT ![w] = Asking(Order[taken + 1])]
  /\ UNCHANGED <<stored, lock, closed, failure, settled, status>>

-----------------------------------------------------------------------------
(***************************************************************************)
(* The bucket, and the network                                             *)
(***************************************************************************)

\* The DELETE reaches the bucket.
Arrive(w) ==
  /\ worker[w].at = "asked"
  /\ worker[w].hash \in stored
  /\ stored' = stored \ {worker[w].hash}
  /\ UNCHANGED <<call, worker, status>>

\* What comes back.  A success means the DELETE arrived; an error says
\* nothing of it.
Answer(w) ==
  /\ worker[w].at = "asked"
  /\ \E e \in Errors \cup {None} :
       /\ e = None => worker[w].hash \notin stored
       /\ worker' = [worker EXCEPT ![w].at = "answered", ![w].error = e]
  /\ UNCHANGED <<stored, call, status>>

\* Time passes.
Tick ==
  /\ worker' = [w \in Workers |->
       [worker[w] EXCEPT !.left = IF @ \in 1 .. Window THEN @ - 1 ELSE @,
                         !.failing = IF worker[w].retries > 0 /\ @ < Window
                                     THEN @ + 1 ELSE @]]
  /\ worker' # worker
  /\ UNCHANGED <<stored, call, status>>

-----------------------------------------------------------------------------
(***************************************************************************)
(* requestErrorRelay                                                       *)
(***************************************************************************)

\* A mutant of Deadline that starts the window again at every failure.
DeadlineAgain(w) == Window

\* deadline ??= now + windowMs: the window runs from the first failure, so
\* one retry is unconditional.
Deadline(w) == IF worker[w].left = None THEN Window ELSE worker[w].left

MayRetry(w) == worker[w].error = "network" /\ Deadline(w) > 0

\* Another attempt, after a sleep.  The second retry is announced.
Retry(w) ==
  /\ worker[w].at = "answered" /\ MayRetry(w)
  /\ LET enters == worker[w].retries >= 1 /\ ~worker[w].waiting IN
     /\ worker' = [worker EXCEPT
          ![w].at = "asleep", ![w].error = None, ![w].left = Deadline(w),
          ![w].retries = IF @ = 2 THEN 2 ELSE @ + 1,
          ![w].waiting = @ \/ enters]
     /\ IF enters THEN EnterNetworkWait ELSE UNCHANGED status
  /\ UNCHANGED <<stored, call>>

Wake(w) ==
  /\ worker[w].at = "asleep"
  /\ worker' = [worker EXCEPT ![w].at = "asked"]
  /\ UNCHANGED <<stored, call, status>>

Return(w) ==
  /\ worker[w].at = "answered" /\ worker[w].error = None
  /\ worker' = [worker EXCEPT ![w] = Free]
  /\ Finally(w, TRUE)
  /\ UNCHANGED <<stored, call>>

\* A refusal, or a network that stayed away: the error is thrown, the worker's
\* for-of closes the generator, and the first error is kept.
Throw(w) ==
  /\ worker[w].at = "answered" /\ worker[w].error # None /\ ~MayRetry(w)
  /\ closed' = TRUE
  /\ failure' = IF failure = None THEN worker[w].error ELSE failure
  /\ worker' = [worker EXCEPT ![w] = [Free EXCEPT !.at = "done"]]
  /\ Finally(w, FALSE)
  /\ UNCHANGED <<stored, lock, taken, settled>>

-----------------------------------------------------------------------------
(***************************************************************************)
(* The end of the call                                                     *)
(***************************************************************************)

\* A mutant of AllSettled that rejects with the first worker.
FirstFails == failure # None \/ \A w \in Workers : worker[w].at = "done"

AllSettled == \A w \in Workers : worker[w].at = "done"

\* A mutant of Failed that takes a network that stayed away for an end.
FailedRefused == failure = "refused"

Failed == failure # None

Settle ==
  /\ settled = "no" /\ AllSettled
  /\ settled' = IF Failed THEN "rejected" ELSE "resolved"
  /\ UNCHANGED <<stored, lock, taken, closed, failure, worker, status>>

\* withBucketLock's finally.
Release ==
  /\ settled # "no" /\ lock
  /\ lock' = FALSE
  /\ UNCHANGED <<stored, taken, closed, failure, settled, worker, status>>

Over == ~lock /\ AllSettled /\ UNCHANGED vars

Work(w) == Take(w) \/ Answer(w) \/ Retry(w) \/ Wake(w) \/ Return(w) \/ Throw(w)

Next ==
  \/ \E w \in Workers :
       Take(w) \/ Arrive(w) \/ Answer(w) \/ Retry(w) \/ Wake(w) \/ Return(w) \/ Throw(w)
  \/ Tick \/ Settle \/ Release \/ Over

Spec == Init /\ [][Next]_vars

\* A request ends, if by a timeout of its socket; a sleep ends; the clock runs.
FairSpec ==
  /\ Spec
  /\ \A w \in Workers : WF_vars(Work(w))
  /\ WF_vars(Tick) /\ WF_vars(Settle) /\ WF_vars(Release)

-----------------------------------------------------------------------------
(***************************************************************************)
(* Properties                                                              *)
(***************************************************************************)

\* No object goes once the delete lock has: a DELETE in flight then could take
\* what a backup has just skipped as stored.
DeletesUnderLock == [][stored' # stored => lock]_vars

\* A call that resolves has done what it was asked for every hash.
ResolvedMeansAll == settled = "resolved" => stored = {} /\ taken = Len(Order)

\* After a failure no hash is begun: a failed run does not wait for the rest.
NoneBegunAfterFailure == [][failure # None => taken' = taken]_vars

\* The outage counts the requests that wait, and is over with the last of them,
\* whichever way each of them ended.
OutageBalanced ==
  /\ outage.waiting = Cardinality({w \in Workers : worker[w].waiting})
  /\ outage.announced <=> outage.waiting > 0

\* A user is told the network is back only if it is: some request got through
\* since the user was told it was gone.
BackOnlineIsTrue == said' = "back" /\ said # "back" => through'

\* What the user is told of the outage is so, as it begins and as it ends.
OutageIsTold == [][OutageBalanced' /\ BackOnlineIsTrue]_vars

\* A request gives up on the network only when the whole window has passed since
\* it first failed, so never without a retry.
GivesUpAfterWindow ==
  [][\A w \in Workers :
       worker[w].error = "network" /\ worker'[w].at = "done" =>
         worker[w].failing = Window]_vars

\* The call ends and the lock goes, whatever becomes of the network.
Ends == <>(settled # "no" /\ ~lock)
===============================================================================
