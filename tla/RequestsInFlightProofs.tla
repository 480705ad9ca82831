------------------------ MODULE RequestsInFlightProofs ------------------------
(***************************************************************************)
(* Proofs about many requests in flight.                                   *)
(***************************************************************************)
EXTENDS RequestsInFlight, FiniteSetTheorems, TLAPS

Pending == {"asked", "answered", "asleep"}

\* A worker between two hashes has nothing of a request left, and an error only
\* with an answer.
Tidy ==
  \A w \in Workers :
    /\ worker[w].at \in {"free", "done"} => worker[w].retries = 0
    /\ worker[w].at # "answered" => worker[w].error = None
    /\ worker[w].at \in Pending => worker[w].hash \in Hashes

\* The window runs from the first failure: what has passed of it and what is
\* left add up.
Clocked ==
  \A w \in Workers :
    IF worker[w].retries = 0
    THEN worker[w].left = None /\ worker[w].failing = 0 /\ ~worker[w].waiting
    ELSE worker[w].left \in 0 .. Window /\ worker[w].left + worker[w].failing = Window

\* A network that came back let a request through.
RecoveredIsTrue == outage.recovered => through

\* How far the call is.
Phases ==
  /\ failure = None <=> ~closed
  /\ \A w \in Workers : worker[w].at = "done" => closed \/ taken = Len(Order)
  /\ settled # "no" => AllSettled
  /\ settled = "resolved" => failure = None
  /\ ~lock => settled # "no"

\* Unless something failed, what has been taken is gone or asked for.
TakenIsAsked ==
  failure = None =>
    \A i \in 1 .. taken : Order[i] \in stored =>
      \E w \in Workers : /\ worker[w].at \in Pending /\ worker[w].hash = Order[i]
                         /\ worker[w].at = "answered" => worker[w].error # None

IInv == TypeOK /\ Tidy /\ Clocked /\ OutageBalanced /\ RecoveredIsTrue /\ Phases /\ TakenIsAsked

LEMMA Facts ==
  /\ Len(Order) \in Nat /\ \A i \in 1 .. Len(Order) : Order[i] \in Hashes
  /\ Window \in Nat /\ Window > 0
  /\ None \notin Hashes /\ None \notin Errors /\ None \notin 0 .. Window
  BY RequestsAssumption DEF Errors

Waiting == {w \in Workers : worker[w].waiting}

LEMMA WaitingFinite == IsFiniteSet(Waiting) /\ Cardinality(Waiting) \in Nat
<1>1. IsFiniteSet(Waiting) BY FS_Subset, RequestsAssumption DEF Waiting
<1> QED BY <1>1, FS_CardinalityType

LEMMA InitInv == Init => IInv
<1> SUFFICES ASSUME Init PROVE IInv OBVIOUS
<1>1. \A w \in Workers : worker[w] = Free
  BY DEF Init
<1>2. TypeOK
  <2>1. Free \in WorkerState
    BY Facts DEF Free, WorkerState, Errors
  <2>2. Quiet \in [waiting : Nat, announced : BOOLEAN, recovered : BOOLEAN]
    BY DEF Quiet
  <2>3. worker \in [Workers -> WorkerState]
    BY <2>1 DEF Init
  <2>4. outage \in [waiting : Nat, announced : BOOLEAN, recovered : BOOLEAN]
    BY <2>2 DEF Init
  <2>5. taken \in 0 .. Len(Order)
    BY Facts DEF Init
  <2> QED BY <2>3, <2>4, <2>5 DEF Init, TypeOK
<1>3. OutageBalanced
  <2>1. ~Free.waiting
    BY DEF Free
  <2>2. {w \in Workers : worker[w].waiting} = {}
    BY <1>1, <2>1
  <2> QED BY <2>2, FS_EmptySet DEF Init, Quiet, OutageBalanced
<1>4. Tidy /\ Clocked
  BY <1>1 DEF Tidy, Clocked, Free, Pending
<1>5. RecoveredIsTrue /\ Phases /\ TakenIsAsked
  <2>1. RecoveredIsTrue
    BY DEF Init, RecoveredIsTrue, Quiet
  <2>2. \A w \in Workers : worker[w].at # "done"
    BY <1>1 DEF Free
  <2>3. Phases
    BY <2>2 DEF Init, Phases
  <2>4. TakenIsAsked
    BY DEF Init, TakenIsAsked
  <2> QED BY <2>1, <2>3, <2>4
<1> QED BY <1>2, <1>3, <1>4, <1>5 DEF IInv

-----------------------------------------------------------------------------
(***************************************************************************)
(* The outage                                                              *)
(***************************************************************************)

\* A step that changes no worker's waiting keeps the balance of the outage.
LEMMA SameWaiting ==
  ASSUME OutageBalanced, \A w \in Workers : worker'[w].waiting <=> worker[w].waiting,
         outage' = outage
  PROVE  OutageBalanced'
<1>1. {w \in Workers : worker'[w].waiting} = {w \in Workers : worker[w].waiting}
  OBVIOUS
<1> QED BY <1>1 DEF OutageBalanced

\* One request more that waits.
LEMMA EnterBalances ==
  ASSUME NEW w \in Workers, TypeOK, OutageBalanced,
         ~worker[w].waiting, worker'[w].waiting,
         \A v \in Workers \ {w} : worker'[v].waiting = worker[v].waiting,
         EnterNetworkWait
  PROVE  OutageBalanced'
<1>1. {v \in Workers : worker'[v].waiting} = Waiting \cup {w}
  BY DEF Waiting
<1>2. Cardinality(Waiting \cup {w}) = Cardinality(Waiting) + 1
  BY WaitingFinite, FS_AddElement DEF Waiting
<1>3. outage'.waiting = outage.waiting + 1 /\ outage'.announced
  BY DEF EnterNetworkWait
<1>4. outage.waiting = Cardinality(Waiting)
  BY DEF OutageBalanced, Waiting
<1>5. outage'.waiting = Cardinality({v \in Workers : worker'[v].waiting})
  BY <1>1, <1>2, <1>3, <1>4
<1>6. outage'.waiting > 0
  BY <1>3, <1>4, WaitingFinite
<1> QED BY <1>3, <1>5, <1>6 DEF OutageBalanced

\* A request that stops is counted out, whether it was waiting or not.
LEMMA FinallyBalances ==
  ASSUME NEW w \in Workers, NEW completed \in BOOLEAN, TypeOK, OutageBalanced,
         ~worker'[w].waiting,
         \A v \in Workers \ {w} : worker'[v].waiting = worker[v].waiting,
         Finally(w, completed)
  PROVE  OutageBalanced'
<1>1. CASE ~worker[w].waiting
  <2>1. {v \in Workers : worker'[v].waiting} = {v \in Workers : worker[v].waiting}
    BY <1>1
  <2> QED BY <1>1, <2>1 DEF Finally, OutageBalanced
<1>2. CASE worker[w].waiting
  <2>1. {v \in Workers : worker'[v].waiting} = Waiting \ {w}
    BY DEF Waiting
  <2>2. w \in Waiting
    BY <1>2 DEF Waiting
  <2>3. Cardinality(Waiting \ {w}) = Cardinality(Waiting) - 1
    BY <2>2, WaitingFinite, FS_RemoveElement
  <2>4. outage.waiting = Cardinality(Waiting) /\ outage.announced
    <3>1. Cardinality(Waiting) # 0
      BY <2>2, WaitingFinite, FS_EmptySet
    <3> QED BY <3>1, WaitingFinite DEF OutageBalanced, Waiting
  <2>5. outage'.waiting = outage.waiting - 1 /\ (outage'.announced <=> outage.waiting - 1 > 0)
    <3>1. LeaveNetworkWait(completed)
      BY <1>2 DEF Finally
    <3>2. /\ outage \in [waiting : Nat, announced : BOOLEAN, recovered : BOOLEAN]
          /\ outage.waiting - 1 \in Int
      BY DEF TypeOK
    <3>3. CASE outage.waiting - 1 > 0
      <4>1. outage' = [outage EXCEPT !.waiting = outage.waiting - 1,
                                     !.recovered = outage.recovered \/ completed]
        BY <3>1, <3>3 DEF LeaveNetworkWait
      <4> QED BY <2>4, <3>2, <3>3, <4>1
    <3>4. CASE ~(outage.waiting - 1 > 0)
      <4>1. outage' = [Quiet EXCEPT !.waiting = outage.waiting - 1]
        BY <3>1, <3>4 DEF LeaveNetworkWait
      <4> QED BY <3>4, <4>1 DEF Quiet
    <3> QED BY <3>3, <3>4
  <2> QED BY <2>1, <2>3, <2>4, <2>5, WaitingFinite DEF OutageBalanced, Waiting
<1> QED BY <1>1, <1>2
-----------------------------------------------------------------------------
(***************************************************************************)
(* The workers                                                             *)
(***************************************************************************)

\* A worker is typed, and so is a worker whose place changes and whose error is
\* of the errors there are.
LEMMA WorkerTyped ==
  ASSUME TypeOK, NEW w \in Workers
  PROVE  /\ worker[w] \in WorkerState
         /\ DOMAIN worker = Workers
  BY DEF TypeOK

LEMMA FreeTyped == Free \in WorkerState
  BY Facts DEF Free, WorkerState, Errors

LEMMA TakeInv ==
  ASSUME IInv, NEW w \in Workers, Take(w)
  PROVE  IInv'
<1> USE DEF IInv
<1>a. worker[w] \in WorkerState /\ DOMAIN worker = Workers
  BY WorkerTyped
<1>o. \A v \in Workers \ {w} : worker'[v] = worker[v]
  BY DEF Take, TypeOK
<1>f. worker[w].at = "free" /\ worker[w].retries = 0 /\ worker[w].error = None
  BY DEF Take, Tidy
<1>c. worker[w].left = None /\ worker[w].failing = 0 /\ ~worker[w].waiting
  BY <1>f DEF Clocked
<1>1. CASE QueueEmpty
  <2>1. worker' = [worker EXCEPT ![w].at = "done"] /\ taken' = taken
    BY <1>1 DEF Take
  <2>2. worker'[w] = [worker[w] EXCEPT !.at = "done"]
    BY <1>a, <2>1
  <2>3. /\ worker'[w].at = "done" /\ worker'[w].error = None
        /\ worker'[w].retries = 0 /\ worker'[w].left = None /\ worker'[w].failing = 0
        /\ ~worker'[w].waiting /\ worker'[w] \in WorkerState
    BY <1>a, <1>f, <1>c, <2>2 DEF WorkerState
  <2>4. TypeOK'
    BY <1>a, <2>1, <2>3 DEF TypeOK, Take, status
  <2>5. Tidy' /\ Clocked'
    BY <1>o, <2>3 DEF Tidy, Clocked, Pending
  <2>6. OutageBalanced'
    BY <1>o, <1>c, <2>3, SameWaiting DEF Take, status
  <2>7. RecoveredIsTrue'
    BY DEF RecoveredIsTrue, Take, status
  <2>8. Phases'
    <3>1. settled = "no"
      BY <1>f DEF Phases, AllSettled
    <3> QED BY <1>1, <1>o, <2>1, <3>1 DEF Phases, Take, QueueEmpty
  <2>9. TakenIsAsked'
    <3>1. \A v \in Workers : worker[v].at \in Pending => worker'[v] = worker[v]
      BY <1>o, <1>f DEF Pending
    <3>2. UNCHANGED <<failure, taken, stored>>
      BY <2>1 DEF Take
    <3> QED BY <3>1, <3>2 DEF TakenIsAsked
  <2> QED BY <2>4, <2>5, <2>6, <2>7, <2>8, <2>9
<1>2. CASE ~QueueEmpty
  <2> DEFINE h == Order[taken + 1]
  <2>1. taken' = taken + 1 /\ worker' = [worker EXCEPT ![w] = Asking(h)]
    BY <1>2 DEF Take
  <2>2. taken \in Nat /\ taken + 1 \in 1 .. Len(Order) /\ h \in Hashes
    BY <1>2, Facts DEF QueueEmpty, TypeOK
  <2>3. /\ worker'[w].at = "asked" /\ worker'[w].error = None /\ worker'[w].hash = h
        /\ worker'[w].retries = 0 /\ worker'[w].left = None /\ worker'[w].failing = 0
        /\ ~worker'[w].waiting /\ worker'[w] \in WorkerState
    <3>1. worker'[w] = Asking(h)
      BY <1>a, <2>1
    <3>2. Asking(h) \in WorkerState
      BY <2>2, FreeTyped DEF Asking, WorkerState
    <3> QED BY <3>1, <3>2 DEF Asking, Free
  <2>4. TypeOK'
    BY <1>a, <2>1, <2>2, <2>3, Facts DEF TypeOK, Take, status
  <2>5. Tidy' /\ Clocked'
    BY <1>o, <2>2, <2>3 DEF Tidy, Clocked, Pending
  <2>6. OutageBalanced'
    BY <1>o, <1>c, <2>3, SameWaiting DEF Take, status
  <2>7. RecoveredIsTrue'
    BY DEF RecoveredIsTrue, Take, status
  <2>8. Phases'
    <3>1. settled = "no"
      BY <1>f DEF Phases, AllSettled
    <3>2. \A v \in Workers : worker'[v].at = "done" => worker[v].at = "done"
      BY <1>o, <2>3
    <3>3. \A v \in Workers : worker[v].at # "done"
      BY <1>2 DEF Phases, QueueEmpty
    <3> QED BY <3>1, <3>2, <3>3 DEF Phases, Take
  <2>9. TakenIsAsked'
    <3> SUFFICES ASSUME failure = None, NEW i \in 1 .. taken + 1, Order[i] \in stored
        PROVE  \E v \in Workers : /\ worker'[v].at \in Pending /\ worker'[v].hash = Order[i]
                                  /\ worker'[v].at = "answered" => worker'[v].error # None
      BY <2>1 DEF TakenIsAsked, Take
    <3>1. CASE i = taken + 1
      BY <3>1, <2>3 DEF Pending
    <3>2. CASE i # taken + 1
      <4>1. i \in 1 .. taken
        BY <3>2, <2>2
      <4>2. PICK v \in Workers : /\ worker[v].at \in Pending /\ worker[v].hash = Order[i]
                                 /\ worker[v].at = "answered" => worker[v].error # None
        BY <4>1 DEF TakenIsAsked
      <4>3. v # w
        BY <4>2, <1>f DEF Pending
      <4> QED BY <4>2, <4>3, <1>o
    <3> QED BY <3>1, <3>2
  <2> QED BY <2>4, <2>5, <2>6, <2>7, <2>8, <2>9
<1> QED BY <1>1, <1>2

LEMMA ArriveInv ==
  ASSUME IInv, NEW w \in Workers, Arrive(w)
  PROVE  IInv'
<1>1. stored' \subseteq stored /\ UNCHANGED <<call, worker, status>>
  BY DEF Arrive
<1>2. TypeOK' /\ Tidy' /\ Clocked' /\ RecoveredIsTrue' /\ Phases'
  BY <1>1 DEF IInv, TypeOK, Tidy, Clocked, RecoveredIsTrue, Phases, AllSettled, call, status
<1>3. OutageBalanced'
  BY <1>1 DEF IInv, OutageBalanced, call, status
<1>4. TakenIsAsked'
  BY <1>1 DEF IInv, TakenIsAsked, call
<1> QED BY <1>2, <1>3, <1>4 DEF IInv

LEMMA AnswerInv ==
  ASSUME IInv, NEW w \in Workers, Answer(w)
  PROVE  IInv'
<1>a. worker[w] \in WorkerState /\ DOMAIN worker = Workers
  BY WorkerTyped DEF IInv
<1>1. PICK e \in Errors \cup {None} :
        /\ e = None => worker[w].hash \notin stored
        /\ worker' = [worker EXCEPT ![w].at = "answered", ![w].error = e]
  BY DEF Answer
<1>2. worker'[w] = [worker[w] EXCEPT !.at = "answered", !.error = e]
  BY <1>a, <1>1
<1>3. worker[w].at = "asked" /\ UNCHANGED <<stored, call, status>>
  BY DEF Answer
<1>4. /\ worker'[w] \in WorkerState /\ worker'[w].at = "answered" /\ worker'[w].error = e
      /\ worker'[w].hash = worker[w].hash /\ worker'[w].retries = worker[w].retries
      /\ worker'[w].left = worker[w].left /\ worker'[w].failing = worker[w].failing
      /\ worker'[w].waiting = worker[w].waiting
  BY <1>a, <1>2 DEF WorkerState
<1>o. \A v \in Workers \ {w} : worker'[v] = worker[v]
  BY <1>a, <1>1
<1>5. TypeOK'
  BY <1>a, <1>1, <1>3, <1>4 DEF IInv, TypeOK, call, status
<1>6. Tidy' /\ Clocked'
  BY <1>3, <1>4, <1>o DEF IInv, Tidy, Clocked, Pending
<1>7. OutageBalanced'
  BY <1>3, <1>4, <1>o, SameWaiting DEF IInv, status
<1>8. RecoveredIsTrue'
  BY <1>3 DEF IInv, RecoveredIsTrue, status
<1>9. Phases'
  <2>1. settled = "no"
    BY <1>3 DEF IInv, Phases, AllSettled
  <2> QED BY <2>1, <1>3, <1>4, <1>o DEF IInv, Phases, call
<1>10. TakenIsAsked'
  <2> SUFFICES ASSUME failure = None, NEW i \in 1 .. taken, Order[i] \in stored
      PROVE  \E v \in Workers : /\ worker'[v].at \in Pending /\ worker'[v].hash = Order[i]
                                /\ worker'[v].at = "answered" => worker'[v].error # None
    BY <1>3 DEF TakenIsAsked, call
  <2>1. PICK v \in Workers : /\ worker[v].at \in Pending /\ worker[v].hash = Order[i]
                             /\ worker[v].at = "answered" => worker[v].error # None
    BY DEF IInv, TakenIsAsked
  <2>2. CASE v = w
    BY <2>1, <2>2, <1>1, <1>4 DEF Pending
  <2>3. CASE v # w
    BY <2>1, <2>3, <1>o
  <2> QED BY <2>2, <2>3
<1> QED BY <1>5, <1>6, <1>7, <1>8, <1>9, <1>10 DEF IInv

LEMMA WakeInv ==
  ASSUME IInv, NEW w \in Workers, Wake(w)
  PROVE  IInv'
<1>a. worker[w] \in WorkerState /\ DOMAIN worker = Workers
  BY WorkerTyped DEF IInv
<1>1. worker[w].at = "asleep" /\ UNCHANGED <<stored, call, status>>
  BY DEF Wake
<1>2. worker'[w] = [worker[w] EXCEPT !.at = "asked"]
  BY <1>a DEF Wake
<1>4. /\ worker'[w] \in WorkerState /\ worker'[w].at = "asked"
      /\ worker'[w].error = worker[w].error
      /\ worker'[w].hash = worker[w].hash /\ worker'[w].retries = worker[w].retries
      /\ worker'[w].left = worker[w].left /\ worker'[w].failing = worker[w].failing
      /\ worker'[w].waiting = worker[w].waiting
  BY <1>a, <1>2 DEF WorkerState
<1>o. \A v \in Workers \ {w} : worker'[v] = worker[v]
  BY <1>a DEF Wake
<1>5. TypeOK'
  BY <1>a, <1>1, <1>4 DEF IInv, TypeOK, Wake, call, status
<1>6. Tidy' /\ Clocked'
  BY <1>1, <1>4, <1>o DEF IInv, Tidy, Clocked, Pending
<1>7. OutageBalanced'
  BY <1>1, <1>4, <1>o, SameWaiting DEF IInv, status
<1>8. RecoveredIsTrue'
  BY <1>1 DEF IInv, RecoveredIsTrue, status
<1>9. Phases'
  <2>1. settled = "no"
    BY <1>1 DEF IInv, Phases, AllSettled
  <2> QED BY <2>1, <1>1, <1>4, <1>o DEF IInv, Phases, call
<1>10. TakenIsAsked'
  <2>1. \A v \in Workers : worker[v].at \in Pending =>
          /\ worker'[v].at \in Pending /\ worker'[v].hash = worker[v].hash
          /\ worker'[v].at = "answered" => worker[v].at = "answered"
          /\ worker'[v].error = worker[v].error
    BY <1>1, <1>4, <1>o DEF Pending
  <2> QED BY <2>1, <1>1 DEF IInv, TakenIsAsked, call
<1> QED BY <1>5, <1>6, <1>7, <1>8, <1>9, <1>10 DEF IInv

LEMMA TickInv ==
  ASSUME IInv, Tick
  PROVE  IInv'
<1>u. UNCHANGED <<stored, call, status>>
  BY DEF Tick
<1>1. ASSUME NEW w \in Workers
      PROVE  /\ worker'[w] \in WorkerState
             /\ worker'[w].at = worker[w].at /\ worker'[w].error = worker[w].error
             /\ worker'[w].hash = worker[w].hash /\ worker'[w].retries = worker[w].retries
             /\ worker'[w].waiting = worker[w].waiting
             /\ IF worker[w].retries = 0
                THEN worker'[w].left = None /\ worker'[w].failing = 0
                ELSE /\ worker'[w].left \in 0 .. Window
                     /\ worker'[w].left + worker'[w].failing = Window
  <2> DEFINE old == worker[w]
             left == IF old.left \in 1 .. Window THEN old.left - 1 ELSE old.left
             failing == IF old.retries > 0 /\ old.failing < Window THEN old.failing + 1
                                                                  ELSE old.failing
  <2>1. old \in WorkerState
    BY <1>1, WorkerTyped DEF IInv
  <2>2. worker'[w] = [old EXCEPT !.left = left, !.failing = failing]
    BY <1>1 DEF Tick
  <2>3. /\ worker'[w].at = old.at /\ worker'[w].error = old.error
        /\ worker'[w].hash = old.hash /\ worker'[w].retries = old.retries
        /\ worker'[w].waiting = old.waiting
        /\ worker'[w].left = left /\ worker'[w].failing = failing
    BY <2>1, <2>2 DEF WorkerState
  <2>4. old.retries \in 0 .. 2 /\ old.failing \in 0 .. Window /\ old.left \in 0 .. Window \cup {None}
    BY <2>1 DEF WorkerState
  <2>5. IF old.retries = 0 THEN old.left = None /\ old.failing = 0
        ELSE old.left \in 0 .. Window /\ old.left + old.failing = Window
    BY <1>1 DEF IInv, Clocked
  <2>6. IF old.retries = 0 THEN left = None /\ failing = 0
        ELSE left \in 0 .. Window /\ left + failing = Window
    BY <2>4, <2>5, Facts
  <2>7. left \in 0 .. Window \cup {None} /\ failing \in 0 .. Window
    <3>1. left \in 0 .. Window \cup {None}
      BY <2>4, Facts
    <3>2. failing \in 0 .. Window
      BY <2>4, Facts
    <3> QED BY <3>1, <3>2
  <2>8. worker'[w] \in WorkerState
    BY <2>1, <2>2, <2>7 DEF WorkerState
  <2> QED BY <2>3, <2>6, <2>8
<1>2. TypeOK'
  <2>1. worker' \in [Workers -> WorkerState]
    BY <1>1 DEF Tick
  <2> QED BY <1>u, <2>1 DEF IInv, TypeOK, call, status
<1>3. Tidy'
  BY <1>1 DEF IInv, Tidy
<1>4. Clocked'
  BY <1>1 DEF IInv, Clocked
<1>5. OutageBalanced'
  BY <1>u, <1>1, SameWaiting DEF IInv, status
<1>6. RecoveredIsTrue'
  BY <1>u DEF IInv, RecoveredIsTrue, status
<1>7. Phases'
  BY <1>u, <1>1 DEF IInv, Phases, AllSettled, call
<1>8. TakenIsAsked'
  BY <1>u, <1>1 DEF IInv, TakenIsAsked, call
<1> QED BY <1>2, <1>3, <1>4, <1>5, <1>6, <1>7, <1>8 DEF IInv

LEMMA RetryInv ==
  ASSUME IInv, NEW w \in Workers, Retry(w)
  PROVE  IInv'
<1> DEFINE old == worker[w]
           enters == old.retries >= 1 /\ ~old.waiting
           retries == IF old.retries = 2 THEN 2 ELSE old.retries + 1
<1>a. old \in WorkerState /\ DOMAIN worker = Workers
  BY WorkerTyped DEF IInv
<1>t. old.retries \in 0 .. 2 /\ old.left \in 0 .. Window \cup {None}
      /\ old.failing \in 0 .. Window /\ old.waiting \in BOOLEAN
  BY <1>a DEF WorkerState
<1>u. old.at = "answered" /\ MayRetry(w) /\ UNCHANGED <<stored, call>>
  BY DEF Retry
<1>w. worker' = [worker EXCEPT
          ![w].at = "asleep", ![w].error = None, ![w].left = Deadline(w),
          ![w].retries = retries, ![w].waiting = old.waiting \/ enters]
  BY <1>a DEF Retry
<1>2. worker'[w] = [old EXCEPT !.at = "asleep", !.error = None, !.left = Deadline(w),
                               !.retries = retries, !.waiting = old.waiting \/ enters]
  BY <1>a, <1>w
<1>d. Deadline(w) \in 0 .. Window /\ retries \in 1 .. 2
  BY <1>t, Facts DEF Deadline
<1>4. /\ worker'[w] \in WorkerState /\ worker'[w].at = "asleep"
      /\ worker'[w].error = None /\ worker'[w].hash = old.hash
      /\ worker'[w].retries = retries /\ worker'[w].left = Deadline(w)
      /\ worker'[w].failing = old.failing
      /\ worker'[w].waiting = (old.waiting \/ enters)
  <2>1. worker'[w] \in WorkerState
    <3>1. (old.waiting \/ enters) \in BOOLEAN /\ retries \in 0 .. 2
      BY <1>t, <1>d
    <3> HIDE DEF enters, retries
    <3> QED BY <1>a, <1>2, <1>d, <3>1 DEF WorkerState
  <2> QED BY <2>1, <1>a, <1>2 DEF WorkerState
<1>o. \A v \in Workers \ {w} : worker'[v] = worker[v]
  BY <1>a, <1>w
<1>e. IF enters THEN EnterNetworkWait ELSE UNCHANGED status
  BY DEF Retry
<1>5. TypeOK'
  <2>1. worker' \in [Workers -> WorkerState]
    BY <1>4, <1>w DEF IInv, TypeOK
  <2>2. /\ outage' \in [waiting : Nat, announced : BOOLEAN, recovered : BOOLEAN]
        /\ said' \in {None, "lost", "back"} /\ through' \in BOOLEAN
    <3>1. CASE enters
      <4>1. EnterNetworkWait
        BY <1>e, <3>1
      <4>2. outage.waiting + 1 \in Nat /\ (outage.announced /\ outage.recovered) \in BOOLEAN
        BY DEF IInv, TypeOK
      <4>3. outage' \in [waiting : Nat, announced : BOOLEAN, recovered : BOOLEAN]
        BY <4>1, <4>2 DEF EnterNetworkWait
      <4>4. said' \in {None, "lost", "back"} /\ through' \in BOOLEAN
        BY <4>1 DEF EnterNetworkWait, IInv, TypeOK
      <4> QED BY <4>3, <4>4
    <3>2. CASE ~enters
      BY <1>e, <3>2 DEF IInv, TypeOK, status
    <3> QED BY <3>1, <3>2
  <2> QED BY <1>u, <2>1, <2>2 DEF IInv, TypeOK, call
<1>6. Tidy'
  BY <1>u, <1>4, <1>o DEF IInv, Tidy, Pending
<1>7. Clocked'
  <2>1. worker'[w].retries # 0 /\ Deadline(w) + old.failing = Window
    BY <1>t, <1>d, <1>4, Facts DEF Deadline, IInv, Clocked
  <2> QED BY <2>1, <1>4, <1>d, <1>o DEF IInv, Clocked
<1>8. OutageBalanced'
  <2>1. CASE enters
    BY <2>1, <1>e, <1>4, <1>o, EnterBalances DEF IInv
  <2>2. CASE ~enters
    BY <2>2, <1>e, <1>4, <1>o, SameWaiting DEF IInv, status
  <2> QED BY <2>1, <2>2
<1>9. RecoveredIsTrue'
  <2>1. CASE enters
    <3>1. EnterNetworkWait
      BY <1>e, <2>1
    <3>2. outage'.recovered => outage.announced /\ outage.recovered
      BY <3>1 DEF EnterNetworkWait
    <3>3. outage.announced => through' = through
      BY <3>1 DEF EnterNetworkWait
    <3> QED BY <3>2, <3>3 DEF IInv, RecoveredIsTrue
  <2>2. CASE ~enters
    BY <2>2, <1>e DEF IInv, RecoveredIsTrue, status
  <2> QED BY <2>1, <2>2
<1>10. Phases'
  <2>1. settled = "no"
    BY <1>u DEF IInv, Phases, AllSettled
  <2> QED BY <2>1, <1>u, <1>4, <1>o DEF IInv, Phases, call
<1>11. TakenIsAsked'
  <2>1. \A v \in Workers : worker[v].at \in Pending =>
          /\ worker'[v].at \in Pending /\ worker'[v].hash = worker[v].hash
          /\ worker'[v].at = "answered" => worker'[v] = worker[v]
    BY <1>u, <1>4, <1>o DEF Pending
  <2> QED BY <2>1, <1>u DEF IInv, TakenIsAsked, call
<1> QED BY <1>5, <1>6, <1>7, <1>8, <1>9, <1>10, <1>11 DEF IInv

\* What a request that stops leaves of the outage.
LEMMA FinallyTyped ==
  ASSUME NEW w \in Workers, NEW completed \in BOOLEAN, TypeOK, OutageBalanced, RecoveredIsTrue,
         Finally(w, completed)
  PROVE  /\ outage' \in [waiting : Nat, announced : BOOLEAN, recovered : BOOLEAN]
         /\ said' \in {None, "lost", "back"} /\ through' \in BOOLEAN
         /\ RecoveredIsTrue'
         /\ BackOnlineIsTrue
<1>1. through' = (through \/ completed)
  BY DEF Finally
<1>2. CASE ~worker[w].waiting
  BY <1>1, <1>2 DEF Finally, TypeOK, RecoveredIsTrue, BackOnlineIsTrue
<1>3. CASE worker[w].waiting
  <2> DEFINE left == outage.waiting - 1
             recovered == outage.recovered \/ completed
  <2>1. LeaveNetworkWait(completed)
    BY <1>3 DEF Finally
  <2>2. left \in Nat
    <3>1. w \in Waiting
      BY <1>3 DEF Waiting
    <3>2. Cardinality(Waiting) # 0
      BY <3>1, WaitingFinite, FS_EmptySet
    <3> QED BY <3>2, WaitingFinite DEF OutageBalanced, Waiting
  <2>3. recovered => through'
    BY <1>1 DEF RecoveredIsTrue
  <2>4. /\ outage' \in [waiting : Nat, announced : BOOLEAN, recovered : BOOLEAN]
        /\ outage'.recovered => recovered
    <3>1. recovered \in BOOLEAN
      BY DEF TypeOK
    <3>2. CASE left > 0
      <4>1. outage' = [outage EXCEPT !.waiting = left, !.recovered = recovered]
        BY <2>1, <3>2 DEF LeaveNetworkWait
      <4> HIDE DEF left, recovered
      <4> QED BY <2>2, <3>1, <4>1 DEF TypeOK
    <3>3. CASE ~(left > 0)
      <4>1. outage' = [Quiet EXCEPT !.waiting = left]
        BY <2>1, <3>3 DEF LeaveNetworkWait
      <4> HIDE DEF left, recovered
      <4> QED BY <2>2, <4>1 DEF Quiet
    <3> QED BY <3>2, <3>3
  <2>5. said' \in {None, "lost", "back"}
    BY <2>1 DEF LeaveNetworkWait, TypeOK
  <2>6. said' = "back" /\ said # "back" => recovered
    BY <2>1 DEF LeaveNetworkWait, BackOnline
  <2>7. through' \in BOOLEAN
    BY <1>1 DEF TypeOK
  <2>8. RecoveredIsTrue'
    BY <2>3, <2>4 DEF RecoveredIsTrue
  <2>9. BackOnlineIsTrue
    BY <2>3, <2>6 DEF BackOnlineIsTrue
  <2> QED BY <2>4, <2>5, <2>7, <2>8, <2>9
<1> QED BY <1>2, <1>3

LEMMA ReturnInv ==
  ASSUME IInv, NEW w \in Workers, Return(w)
  PROVE  IInv'
<1>1. /\ worker[w].at = "answered" /\ worker[w].error = None
      /\ worker' = [worker EXCEPT ![w] = Free] /\ Finally(w, TRUE)
      /\ UNCHANGED <<stored, call>>
  BY DEF Return
<1>2. worker'[w] = Free /\ \A v \in Workers \ {w} : worker'[v] = worker[v]
  BY <1>1, WorkerTyped DEF IInv
<1>3. /\ Free.at = "free" /\ Free.error = None /\ Free.retries = 0 /\ Free.left = None
      /\ Free.failing = 0 /\ ~Free.waiting
  BY DEF Free
<1>4. TypeOK' /\ RecoveredIsTrue'
  <2>1. worker' \in [Workers -> WorkerState]
    BY <1>1, FreeTyped DEF IInv, TypeOK
  <2> QED BY <1>1, <2>1, FinallyTyped DEF IInv, TypeOK, call
<1>5. Tidy' /\ Clocked'
  BY <1>2, <1>3 DEF IInv, Tidy, Clocked, Pending
<1>6. OutageBalanced'
  BY <1>1, <1>2, <1>3, FinallyBalances DEF IInv
<1>7. Phases'
  <2>1. settled = "no"
    BY <1>1 DEF IInv, Phases, AllSettled
  <2> QED BY <2>1, <1>1, <1>2, <1>3 DEF IInv, Phases, call
<1>8. TakenIsAsked'
  <2> SUFFICES ASSUME failure = None, NEW i \in 1 .. taken, Order[i] \in stored
      PROVE  \E v \in Workers : /\ worker'[v].at \in Pending /\ worker'[v].hash = Order[i]
                                /\ worker'[v].at = "answered" => worker'[v].error # None
    BY <1>1 DEF TakenIsAsked, call
  <2>1. PICK v \in Workers : /\ worker[v].at \in Pending /\ worker[v].hash = Order[i]
                             /\ worker[v].at = "answered" => worker[v].error # None
    BY DEF IInv, TakenIsAsked
  <2> QED BY <2>1, <1>1, <1>2
<1> QED BY <1>4, <1>5, <1>6, <1>7, <1>8 DEF IInv

LEMMA ThrowInv ==
  ASSUME IInv, NEW w \in Workers, Throw(w)
  PROVE  IInv'
<1> DEFINE Done == [Free EXCEPT !.at = "done"]
<1>1. /\ worker[w].at = "answered" /\ worker[w].error # None
      /\ closed' = TRUE
      /\ failure' = IF failure = None THEN worker[w].error ELSE failure
      /\ worker' = [worker EXCEPT ![w] = Done] /\ Finally(w, FALSE)
      /\ UNCHANGED <<stored, lock, taken, settled>>
  BY DEF Throw
<1>2. worker'[w] = Done /\ \A v \in Workers \ {w} : worker'[v] = worker[v]
  BY <1>1, WorkerTyped DEF IInv
<1>3. /\ Done.at = "done" /\ Done.error = None /\ Done.retries = 0 /\ Done.left = None
      /\ Done.failing = 0 /\ ~Done.waiting
  BY DEF Free
<1>f. failure' # None /\ failure' \in Errors
  BY <1>1, WorkerTyped, Facts DEF IInv, TypeOK, WorkerState
<1>4. TypeOK' /\ RecoveredIsTrue'
  <2>1. Done \in WorkerState
    BY FreeTyped DEF WorkerState
  <2>2. worker' \in [Workers -> WorkerState]
    BY <1>1, <2>1 DEF IInv, TypeOK
  <2>3. /\ outage' \in [waiting : Nat, announced : BOOLEAN, recovered : BOOLEAN]
        /\ said' \in {None, "lost", "back"} /\ through' \in BOOLEAN
        /\ RecoveredIsTrue'
    BY <1>1, FinallyTyped DEF IInv
  <2> QED BY <1>1, <1>f, <2>2, <2>3 DEF IInv, TypeOK
<1> HIDE DEF Done
<1>5. Tidy' /\ Clocked'
  BY <1>2, <1>3 DEF IInv, Tidy, Clocked, Pending
<1>6. OutageBalanced'
  <2>1. ~worker'[w].waiting
    BY <1>2, <1>3
  <2> QED BY <1>1, <1>2, <2>1, FinallyBalances DEF IInv
<1>7. Phases'
  <2>1. settled = "no"
    BY <1>1 DEF IInv, Phases, AllSettled
  <2> QED BY <2>1, <1>1, <1>f DEF IInv, Phases
<1>8. TakenIsAsked'
  BY <1>f DEF TakenIsAsked
<1> QED BY <1>4, <1>5, <1>6, <1>7, <1>8 DEF IInv

-----------------------------------------------------------------------------
(***************************************************************************)
(* The call                                                                *)
(***************************************************************************)

LEMMA EndInv ==
  ASSUME IInv, Settle \/ Release \/ UNCHANGED vars
  PROVE  IInv'
<1>1. UNCHANGED <<stored, taken, closed, failure, worker, status>>
  BY DEF Settle, Release, vars, status
<1>2. TypeOK'
  BY <1>1 DEF IInv, TypeOK, Settle, Release, vars, status
<1>3. Tidy' /\ Clocked' /\ RecoveredIsTrue' /\ TakenIsAsked'
  BY <1>1 DEF IInv, Tidy, Clocked, RecoveredIsTrue, TakenIsAsked, status
<1>4. OutageBalanced'
  BY <1>1 DEF IInv, OutageBalanced, status
<1>5. Phases'
  BY <1>1 DEF IInv, Phases, AllSettled, Settle, Release, Failed, vars
<1> QED BY <1>2, <1>3, <1>4, <1>5 DEF IInv

LEMMA NextInv == IInv /\ [Next]_vars => IInv'
<1> SUFFICES ASSUME IInv, [Next]_vars PROVE IInv'
  OBVIOUS
<1>1. ASSUME NEW w \in Workers,
             Take(w) \/ Arrive(w) \/ Answer(w) \/ Retry(w) \/ Wake(w) \/ Return(w) \/ Throw(w)
      PROVE  IInv'
  BY <1>1, TakeInv, ArriveInv, AnswerInv, RetryInv, WakeInv, ReturnInv, ThrowInv
<1>2. CASE Tick
  BY <1>2, TickInv
<1>3. CASE Settle \/ Release \/ Over \/ UNCHANGED vars
  BY <1>3, EndInv DEF Over
<1> QED BY <1>1, <1>2, <1>3 DEF Next

LEMMA Inductive == Spec => []IInv
  BY InitInv, NextInv, PTL DEF Spec

\* The variables have their types.
THEOREM TypeCorrect == Spec => []TypeOK
<1>1. IInv => TypeOK
  BY DEF IInv
<1> QED BY <1>1, Inductive, PTL

-----------------------------------------------------------------------------
(***************************************************************************)
(* Theorems                                                                *)
(***************************************************************************)

\* eachInFlight resolves only when every hash was taken and none is left in the
\* bucket, for any number of workers and hashes.
THEOREM ResolvesWithAll == Spec => []ResolvedMeansAll
<1>1. IInv => ResolvedMeansAll
  <2> SUFFICES ASSUME IInv, settled = "resolved" PROVE stored = {} /\ taken = Len(Order)
    BY DEF ResolvedMeansAll
  <2>1. failure = None /\ ~closed /\ AllSettled
    BY DEF IInv, Phases
  <2>2. taken = Len(Order)
    <3>1. PICK w \in Workers : TRUE
      BY RequestsAssumption
    <3> QED BY <2>1, <3>1 DEF IInv, Phases, AllSettled
  <2>3. ASSUME NEW h \in stored PROVE FALSE
    <3>1. h \in Hashes
      BY <2>3 DEF IInv, TypeOK
    <3>2. PICK i \in 1 .. Len(Order) : Order[i] = h
      BY <3>1, RequestsAssumption
    <3>3. PICK w \in Workers : worker[w].at \in Pending
      BY <2>1, <2>2, <2>3, <3>2 DEF IInv, TakenIsAsked
    <3> QED BY <3>3, <2>1 DEF AllSettled, Pending
  <2> QED BY <2>2, <2>3
<1> QED BY <1>1, Inductive, PTL

\* No DELETE takes anything once the caller's lock has gone: eachInFlight waits
\* for all of its workers, however many, before it settles.
THEOREM NothingGoesUnlocked == Spec => DeletesUnderLock
<1>1. IInv /\ [Next]_vars => [stored' # stored => lock]_vars
  <2> SUFFICES ASSUME IInv, Next, stored' # stored PROVE lock
    OBVIOUS
  <2>1. PICK w \in Workers : Arrive(w)
    BY DEF Next, Take, Answer, Retry, Wake, Return, Throw, Tick, Settle, Release, Over, vars
  <2>2. ~AllSettled
    BY <2>1 DEF Arrive, AllSettled
  <2> QED BY <2>2 DEF IInv, Phases, TypeOK
<1> QED BY <1>1, Inductive, PTL DEF DeletesUnderLock, Spec

\* A request gives up on the network only after the whole window, whatever the
\* others do.
THEOREM WindowIsUsedUp == Spec => GivesUpAfterWindow
<1> DEFINE Waits == \A w \in Workers :
             worker[w].error = "network" /\ worker'[w].at = "done" =>
               worker[w].failing = Window
<1>1. IInv /\ [Next]_vars => [Waits]_vars
  <2> SUFFICES ASSUME IInv, Next, NEW w \in Workers,
                      worker[w].error = "network", worker'[w].at = "done"
               PROVE  worker[w].failing = Window
    OBVIOUS
  <2>a. "network" # None
    BY Facts DEF Errors
  <2>b. worker[w] \in WorkerState /\ DOMAIN worker = Workers
    BY WorkerTyped DEF IInv
  <2>1. worker[w].at = "answered"
    BY <2>a DEF IInv, Tidy
  <2>2. Throw(w)
    <3>1. ASSUME NEW v \in Workers,
                 Take(v) \/ Answer(v) \/ Wake(v) \/ Retry(v) \/ Return(v) \/ Throw(v), v # w
          PROVE  FALSE
      <4>1. worker'[w] = worker[w]
        BY <2>b, <3>1 DEF Take, Answer, Wake, Retry, Return, Throw
      <4> QED BY <2>1, <4>1
    <3>2. ~Tick
      <4> DEFINE old == worker[w]
                 left == IF old.left \in 1 .. Window THEN old.left - 1 ELSE old.left
                 failing == IF old.retries > 0 /\ old.failing < Window
                            THEN old.failing + 1 ELSE old.failing
      <4>1. Tick => worker'[w] = [old EXCEPT !.left = left, !.failing = failing]
        BY DEF Tick
      <4>2. Tick => worker'[w].at = old.at
        BY <2>b, <4>1 DEF WorkerState
      <4> QED BY <2>1, <4>2
    <3>3. ~\E v \in Workers : Arrive(v)
      BY <2>1 DEF Arrive
    <3>4. ~(Settle \/ Release \/ Over)
      BY <2>1 DEF Settle, Release, Over, vars
    <3>5. ~(Take(w) \/ Answer(w) \/ Wake(w) \/ Return(w))
      BY <2>1, <2>a DEF Take, Answer, Wake, Return
    <3>6. ~Retry(w)
      BY <2>b DEF Retry, WorkerState
    <3> QED BY <3>1, <3>2, <3>3, <3>4, <3>5, <3>6 DEF Next
  <2>3. Deadline(w) \notin Nat \/ ~(Deadline(w) > 0)
    BY <2>2 DEF Throw, MayRetry
  <2>4. worker[w].left # None /\ worker[w].left = 0
    BY <2>3, <2>b, Facts DEF Deadline, WorkerState
  <2> QED BY <2>4, <2>b, Facts DEF IInv, Clocked, WorkerState
<1> QED BY <1>1, Inductive, PTL DEF GivesUpAfterWindow, Spec

\* The outage counts exactly the requests that wait, and a user who is told the
\* network is back is told so by a request that got through.
THEOREM OutageToldTrue == Spec => OutageIsTold
<1> DEFINE Told == OutageBalanced' /\ BackOnlineIsTrue
<1>1. IInv /\ IInv' /\ [Next]_vars => [Told]_vars
  <2> SUFFICES ASSUME IInv, IInv', Next PROVE BackOnlineIsTrue
    BY DEF IInv
  <2>1. ASSUME NEW w \in Workers, Take(w) \/ Arrive(w) \/ Answer(w) \/ Wake(w)
        PROVE  BackOnlineIsTrue
    BY <2>1 DEF Take, Arrive, Answer, Wake, status, BackOnlineIsTrue
  <2>2. ASSUME NEW w \in Workers, Retry(w)
        PROVE  BackOnlineIsTrue
    BY <2>2 DEF Retry, EnterNetworkWait, status, BackOnlineIsTrue
  <2>3. ASSUME NEW w \in Workers, Return(w) \/ Throw(w)
        PROVE  BackOnlineIsTrue
    BY <2>3, FinallyTyped DEF IInv, Return, Throw
  <2>4. CASE Tick \/ Settle \/ Release \/ Over
    BY <2>4 DEF Tick, Settle, Release, Over, vars, status, BackOnlineIsTrue
  <2> QED BY <2>1, <2>2, <2>3, <2>4 DEF Next
<1> QED BY <1>1, Inductive, PTL DEF OutageIsTold, Spec
===============================================================================
