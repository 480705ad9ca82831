-------------------------- MODULE BucketLocksProofs --------------------------
(***************************************************************************)
(* BucketLocks for any runs, systems and instants.  The argument: the lock *)
(* of a run inside `hold` stays in the bucket (LockHeld), because nobody   *)
(* removes a lock whose process runs and a fresh key is nobody's.  So of   *)
(* two runs that have listed, the later one listed the earlier one's lock  *)
(* (OneSawTheOther), and neither starts while it has the other's lock      *)
(* before it.                                                              *)
(***************************************************************************)
EXTENDS BucketLocks, TLAPS

\* The key a run remembers is of its own kind, and is set inside `hold`.
OwnKey ==
  \A r \in Runs :
    /\ pc[r] \in Holding \cup {"readback"} => key[r] \in Keys
    /\ key[r] \in Keys => key[r][1] = KindOf(r)

\* What a person is removing belongs to nobody who runs.
ShownDead == \A k \in shown : locks[k] # NoRun => ~Running(locks[k])

IInv ==
  TypeOK /\ OwnKey /\ ShownDead /\ LockHeld /\ OneSawTheOther /\ Exclusion

-----------------------------------------------------------------------------
(* A run's kind is a kind, and an upload and a delete differ in it. *)
LEMMA KindsDiffer ==
  /\ \A r \in Runs : KindOf(r) \in Kinds
  /\ \A u \in Uploads : KindOf(u) = "upload"
  /\ \A d \in Deletes : KindOf(d) = "delete"
  /\ \A u \in Uploads, d \in Deletes : u # d
BY RunsAssumption DEF KindOf, Kinds, Runs

(* Every step of a run, and of a person, keeps the variables in their types. *)
LEMMA TypeStep == TypeOK /\ [Next]_vars => TypeOK'
<1> SUFFICES ASSUME TypeOK, [Next]_vars PROVE TypeOK'
  OBVIOUS
<1> USE RunsAssumption DEF TypeOK, PCs, Holding, Moves, Present
<1>1. ASSUME NEW r \in Runs, Begin(r) PROVE TypeOK'
  BY <1>1 DEF Begin
<1>2. ASSUME NEW r \in Runs, PutLock(r) PROVE TypeOK'
  <2>1. PICK i \in Instants :
          /\ locks' = [locks EXCEPT ![<<KindOf(r), i>>] = r]
          /\ key' = [key EXCEPT ![r] = <<KindOf(r), i>>]
    BY <1>2 DEF PutLock
  <2>2. <<KindOf(r), i>> \in Keys
    BY KindsDiffer DEF Keys
  <2>3. QED BY <1>2, <2>1, <2>2 DEF PutLock
<1>3. ASSUME NEW r \in Runs, PutLockTaken(r) PROVE TypeOK'
  BY <1>3 DEF PutLockTaken
<1>4. ASSUME NEW r \in Runs, ReadBack(r) PROVE TypeOK'
  BY <1>4 DEF ReadBack
<1>5. ASSUME NEW r \in Runs, List(r) PROVE TypeOK'
  BY <1>5 DEF List
<1>6. ASSUME NEW r \in Runs, Get(r) PROVE TypeOK'
  BY <1>6 DEF Get
<1>7. ASSUME NEW r \in Runs, NEW k \in Keys, ClearLeftover(r, k) PROVE TypeOK'
  BY <1>7 DEF ClearLeftover
<1>8. ASSUME NEW r \in Runs, Start(r) PROVE TypeOK'
  BY <1>8 DEF Start
<1>9. ASSUME NEW r \in Runs, Refuse(r) PROVE TypeOK'
  BY <1>9 DEF Refuse
<1>10. ASSUME NEW r \in Runs, EndHold(r) PROVE TypeOK'
  BY <1>10 DEF EndHold
<1>11. ASSUME NEW r \in Runs, Release(r) PROVE TypeOK'
  BY <1>11 DEF Release
<1>12. ASSUME NEW r \in Runs, Wake(r) PROVE TypeOK'
  BY <1>12 DEF Wake
<1>13. ASSUME NEW r \in Runs, Crash(r) PROVE TypeOK'
  BY <1>13 DEF Crash
<1>14. ASSUME NEW ks \in SUBSET Keys, ShowLocks(ks) PROVE TypeOK'
  BY <1>14 DEF ShowLocks
<1>15. ASSUME NEW k \in Keys, Unlock(k) PROVE TypeOK'
  BY <1>15 DEF Unlock
<1>16. CASE UNCHANGED vars
  BY <1>16 DEF vars
<1>17. QED
  BY <1>1, <1>2, <1>3, <1>4, <1>5, <1>6, <1>7, <1>8, <1>9, <1>10, <1>11,
     <1>12, <1>13, <1>14, <1>15, <1>16 DEF Next, Step, Person

(* The invariant holds when no process exists yet. *)
LEMMA InitInv == Init => IInv
BY RunsAssumption
   DEF Init, IInv, TypeOK, OwnKey, ShownDead, LockHeld, OneSawTheOther,
       Exclusion, PCs, Holding, Runs


(* No step of a run or a person takes the invariant away. *)
LEMMA InvStep == IInv /\ [Next]_vars => IInv'
<1> SUFFICES ASSUME IInv, [Next]_vars PROVE IInv'
  OBVIOUS
<1> USE RunsAssumption, KindsDiffer
<1>0. TypeOK'
  BY TypeStep DEF IInv
<1>1. ASSUME NEW r \in Runs, Begin(r) PROVE IInv'
  <2> USE <1>1, <1>0 DEF Begin, Moves, IInv, TypeOK, PCs, Holding, Running
  <2>1. OwnKey'
    BY DEF OwnKey
  <2>2. LockHeld'
    BY DEF LockHeld, OwnKey
  <2>3. ShownDead'
    BY DEF ShownDead
  <2>4. OneSawTheOther'
    BY DEF OneSawTheOther, LockHeld, OwnKey, Runs
  <2>5. Exclusion'
    BY DEF Exclusion, OneSawTheOther, Runs
  <2>6. QED
    BY <2>1, <2>2, <2>3, <2>4, <2>5
<1>2. ASSUME NEW r \in Runs, PutLock(r) PROVE IInv'
  <2> USE <1>2, <1>0 DEF PutLock, Moves, IInv, TypeOK, PCs, Holding, Running
  <2>1. OwnKey'
    BY DEF OwnKey
  <2>2. LockHeld'
    <3>1. PICK i \in Instants :
            /\ Unused(<<KindOf(r), i>>)
            /\ locks' = [locks EXCEPT ![<<KindOf(r), i>>] = r]
            /\ key' = [key EXCEPT ![r] = <<KindOf(r), i>>]
      BY DEF PutLock
    <3>2. <<KindOf(r), i>> \in Keys
      BY DEF Keys
    <3>3. ASSUME NEW q \in Runs, pc'[q] \in Holding PROVE locks'[key'[q]] = q
      BY <3>1, <3>2, <3>3 DEF LockHeld, OwnKey, Unused
    <3>4. QED BY <3>3 DEF LockHeld
  <2>3. ShownDead'
    <3>1. PICK i \in Instants :
            /\ Unused(<<KindOf(r), i>>)
            /\ locks' = [locks EXCEPT ![<<KindOf(r), i>>] = r]
      BY DEF PutLock
    <3>2. \A k \in shown : locks'[k] = locks[k]
      BY <3>1 DEF Unused
    <3>3. QED BY <3>2, KindsDiffer DEF ShownDead
  <2>4. OneSawTheOther'
    BY DEF OneSawTheOther, LockHeld, OwnKey, Runs
  <2>5. Exclusion'
    BY DEF Exclusion, OneSawTheOther, Runs
  <2>6. QED
    BY <2>1, <2>2, <2>3, <2>4, <2>5
<1>3. ASSUME NEW r \in Runs, PutLockTaken(r) PROVE IInv'
  <2> USE <1>3, <1>0 DEF PutLockTaken, Moves, IInv, TypeOK, PCs, Holding, Running
  <2>1. OwnKey'
    <3>1. PICK i \in Instants : key' = [key EXCEPT ![r] = <<KindOf(r), i>>]
      BY DEF PutLockTaken
    <3>2. <<KindOf(r), i>> \in Keys
      BY DEF Keys
    <3>3. QED BY <3>1, <3>2 DEF OwnKey
  <2>2. LockHeld'
    BY DEF LockHeld, OwnKey
  <2>3. ShownDead'
    BY DEF ShownDead
  <2>4. OneSawTheOther'
    BY DEF OneSawTheOther, LockHeld, OwnKey, Runs
  <2>5. Exclusion'
    BY DEF Exclusion, OneSawTheOther, Runs
  <2>6. QED
    BY <2>1, <2>2, <2>3, <2>4, <2>5
<1>4. ASSUME NEW r \in Runs, ReadBack(r) PROVE IInv'
  <2> USE <1>4, <1>0 DEF ReadBack, Moves, IInv, TypeOK, PCs, Holding, Running
  <2>1. OwnKey'
    BY DEF OwnKey
  <2>2. LockHeld'
    BY DEF LockHeld, OwnKey
  <2>3. ShownDead'
    BY DEF ShownDead
  <2>4. OneSawTheOther'
    BY DEF OneSawTheOther, LockHeld, OwnKey, Runs
  <2>5. Exclusion'
    BY DEF Exclusion, OneSawTheOther, Runs
  <2>6. QED
    BY <2>1, <2>2, <2>3, <2>4, <2>5
<1>5. ASSUME NEW r \in Runs, List(r) PROVE IInv'
  <2> USE <1>5, <1>0 DEF List, Moves, IInv, TypeOK, PCs, Holding, Running
  <2>1. OwnKey'
    BY DEF OwnKey
  <2>2. LockHeld'
    BY DEF LockHeld, OwnKey
  <2>3. ShownDead'
    BY DEF ShownDead
  <2>4. OneSawTheOther'
    <3>1. \A q \in Runs : pc[q] \in Holding =>
            key[q] \in Keys /\ locks[key[q]] = q /\ key[q][1] = KindOf(q)
      BY DEF LockHeld, OwnKey
    <3>2. QED BY <3>1 DEF OneSawTheOther, Runs, Present
  <2>5. Exclusion'
    BY DEF Exclusion, OneSawTheOther, Runs
  <2>6. QED
    BY <2>1, <2>2, <2>3, <2>4, <2>5
<1>6. ASSUME NEW r \in Runs, Get(r) PROVE IInv'
  <2> USE <1>6, <1>0 DEF Get, Moves, IInv, TypeOK, PCs, Holding, Running
  <2>1. OwnKey'
    BY DEF OwnKey
  <2>2. LockHeld'
    BY DEF LockHeld, OwnKey
  <2>3. ShownDead'
    BY DEF ShownDead
  <2>4. OneSawTheOther'
    <3>1. \A q \in Runs : pc[q] \in Holding =>
            key[q] \in Keys /\ locks[key[q]] = q /\ key[q][1] = KindOf(q)
      BY DEF LockHeld, OwnKey
    <3>2. QED BY <3>1 DEF OneSawTheOther, Runs, Present
  <2>5. Exclusion'
    BY DEF Exclusion, OneSawTheOther, Runs
  <2>6. QED
    BY <2>1, <2>2, <2>3, <2>4, <2>5
<1>7. ASSUME NEW r \in Runs, NEW k \in Keys, ClearLeftover(r, k) PROVE IInv'
  <2> USE <1>7, <1>0 DEF ClearLeftover, Moves, IInv, TypeOK, PCs, Holding, Running
  <2>1. OwnKey'
    BY DEF OwnKey
  <2>2. LockHeld'
    <3>1. ~Running(locks[k])
      BY DEF ProcessGone
    <3>2. QED BY <3>1 DEF LockHeld, OwnKey
  <2>3. ShownDead'
    BY DEF ShownDead
  <2>4. OneSawTheOther'
    <3>1. \A q \in Runs : pc[q] \in Holding => key[q] # k
      BY DEF LockHeld, ProcessGone
    <3>2. QED BY <3>1 DEF OneSawTheOther, Runs
  <2>5. Exclusion'
    BY DEF Exclusion, OneSawTheOther, Runs
  <2>6. QED
    BY <2>1, <2>2, <2>3, <2>4, <2>5
<1>8. ASSUME NEW r \in Runs, Start(r) PROVE IInv'
  <2> USE <1>8, <1>0 DEF Start, Moves, IInv, TypeOK, PCs, Holding, Running
  <2>1. OwnKey'
    BY DEF OwnKey
  <2>2. LockHeld'
    BY DEF LockHeld, OwnKey
  <2>3. ShownDead'
    BY DEF ShownDead
  <2>4. OneSawTheOther'
    <3>1. \A q \in Runs : pc[q] \in Holding =>
            key[q] \in Keys /\ locks[key[q]] = q /\ key[q][1] = KindOf(q)
      BY DEF LockHeld, OwnKey
    <3>2. QED BY <3>1 DEF OneSawTheOther, Runs, Opposed
  <2>5. Exclusion'
    <3>1. \A q \in Runs : pc[q] \in Holding => key[q][1] = KindOf(q)
      BY DEF LockHeld, OwnKey
    <3>2. QED BY <3>1 DEF Exclusion, OneSawTheOther, Runs, Opposed
  <2>6. QED
    BY <2>1, <2>2, <2>3, <2>4, <2>5
<1>9. ASSUME NEW r \in Runs, Refuse(r) PROVE IInv'
  <2> USE <1>9, <1>0 DEF Refuse, Moves, IInv, TypeOK, PCs, Holding, Running
  <2>1. OwnKey'
    BY DEF OwnKey
  <2>2. LockHeld'
    BY DEF LockHeld, OwnKey
  <2>3. ShownDead'
    BY DEF ShownDead
  <2>4. OneSawTheOther'
    BY DEF OneSawTheOther, LockHeld, OwnKey, Runs
  <2>5. Exclusion'
    BY DEF Exclusion, OneSawTheOther, Runs
  <2>6. QED
    BY <2>1, <2>2, <2>3, <2>4, <2>5
<1>10. ASSUME NEW r \in Runs, EndHold(r) PROVE IInv'
  <2> USE <1>10, <1>0 DEF EndHold, Moves, IInv, TypeOK, PCs, Holding, Running
  <2>1. OwnKey'
    BY DEF OwnKey
  <2>2. LockHeld'
    BY DEF LockHeld, OwnKey
  <2>3. ShownDead'
    BY DEF ShownDead
  <2>4. OneSawTheOther'
    BY DEF OneSawTheOther, LockHeld, OwnKey, Runs
  <2>5. Exclusion'
    BY DEF Exclusion, OneSawTheOther, Runs
  <2>6. QED
    BY <2>1, <2>2, <2>3, <2>4, <2>5
<1>11. ASSUME NEW r \in Runs, Release(r) PROVE IInv'
  <2> USE <1>11, <1>0 DEF Release, Moves, IInv, TypeOK, PCs, Holding, Running
  <2>1. OwnKey'
    BY DEF OwnKey
  <2>2. LockHeld'
    BY DEF LockHeld, OwnKey
  <2>3. ShownDead'
    BY DEF ShownDead
  <2>4. OneSawTheOther'
    BY DEF OneSawTheOther, LockHeld, OwnKey, Runs
  <2>5. Exclusion'
    BY DEF Exclusion, OneSawTheOther, Runs
  <2>6. QED
    BY <2>1, <2>2, <2>3, <2>4, <2>5
<1>12. ASSUME NEW r \in Runs, Wake(r) PROVE IInv'
  <2> USE <1>12, <1>0 DEF Wake, Moves, IInv, TypeOK, PCs, Holding, Running
  <2>1. OwnKey'
    BY DEF OwnKey
  <2>2. LockHeld'
    BY DEF LockHeld, OwnKey
  <2>3. ShownDead'
    BY DEF ShownDead
  <2>4. OneSawTheOther'
    BY DEF OneSawTheOther, LockHeld, OwnKey, Runs
  <2>5. Exclusion'
    BY DEF Exclusion, OneSawTheOther, Runs
  <2>6. QED
    BY <2>1, <2>2, <2>3, <2>4, <2>5
<1>13. ASSUME NEW r \in Runs, Crash(r) PROVE IInv'
  <2> USE <1>13, <1>0 DEF Crash, Moves, IInv, TypeOK, PCs, Holding, Running
  <2>1. OwnKey'
    BY DEF OwnKey
  <2>2. LockHeld'
    BY DEF LockHeld, OwnKey
  <2>3. ShownDead'
    BY DEF ShownDead
  <2>4. OneSawTheOther'
    BY DEF OneSawTheOther, LockHeld, OwnKey, Runs
  <2>5. Exclusion'
    BY DEF Exclusion, OneSawTheOther, Runs
  <2>6. QED
    BY <2>1, <2>2, <2>3, <2>4, <2>5
<1>14. ASSUME NEW ks \in SUBSET Keys, ShowLocks(ks) PROVE IInv'
  <2> USE <1>14, <1>0 DEF ShowLocks, Moves, IInv, TypeOK, PCs, Holding, Running
  <2>1. OwnKey'
    BY DEF OwnKey
  <2>2. LockHeld'
    BY DEF LockHeld, OwnKey
  <2>3. ShownDead'
    BY DEF ShownDead, Leftovers
  <2>4. OneSawTheOther'
    BY DEF OneSawTheOther, LockHeld, OwnKey, Runs
  <2>5. Exclusion'
    BY DEF Exclusion, OneSawTheOther, Runs
  <2>6. QED
    BY <2>1, <2>2, <2>3, <2>4, <2>5
<1>15. ASSUME NEW k \in Keys, Unlock(k) PROVE IInv'
  <2> USE <1>15, <1>0 DEF Unlock, Moves, IInv, TypeOK, PCs, Holding, Running
  <2>1. OwnKey'
    BY DEF OwnKey
  <2>2. LockHeld'
    <3>1. locks[k] # NoRun => ~Running(locks[k])
      BY DEF ShownDead
    <3>2. \A q \in Runs : pc[q] \in Holding => key[q] # k
      BY <3>1 DEF LockHeld
    <3>3. QED BY <3>2 DEF LockHeld, OwnKey
  <2>3. ShownDead'
    BY DEF ShownDead
  <2>4. OneSawTheOther'
    BY DEF OneSawTheOther, LockHeld, OwnKey, Runs
  <2>5. Exclusion'
    BY DEF Exclusion, OneSawTheOther, Runs
  <2>6. QED
    BY <2>1, <2>2, <2>3, <2>4, <2>5
<1>16. CASE UNCHANGED vars
  BY <1>16, <1>0
     DEF vars, IInv, OwnKey, ShownDead, LockHeld, OneSawTheOther, Exclusion,
         Running
<1>17. QED
  BY <1>1, <1>2, <1>3, <1>4, <1>5, <1>6, <1>7, <1>8, <1>9, <1>10, <1>11, <1>12, <1>13, <1>14, <1>15, <1>16
     DEF Next, Step, Person

-----------------------------------------------------------------------------
(* The invariant holds for every behaviour of the locks. *)
LEMMA InvAlways == Spec => []IInv
BY InitInv, InvStep, PTL DEF Spec

(* The variables of the lock protocol keep their types. *)
THEOREM TypeCorrect == Spec => []TypeOK
<1>1. IInv => TypeOK
  BY DEF IInv
<1>2. QED BY <1>1, InvAlways, PTL

(* holdUploadLock and holdDeleteLock never let an upload and a delete work *)
(* at the same time, whatever crashes, leftovers, waits and unlocks occur. *)
THEOREM UploadsAndDeletesExclude == Spec => []Exclusion
<1>1. IInv => Exclusion
  BY DEF IInv
<1>2. QED BY <1>1, InvAlways, PTL

(* The lock of a run inside `hold` is in the bucket until hold's finally. *)
THEOREM HeldLockStays == Spec => []LockHeld
<1>1. IInv => LockHeld
  BY DEF IInv
<1>2. QED BY <1>1, InvAlways, PTL

(* Of two runs that look at locks/, one sees the other's lock. *)
THEOREM LaterSawEarlier == Spec => []OneSawTheOther
<1>1. IInv => OneSawTheOther
  BY DEF IInv
<1>2. QED BY <1>1, InvAlways, PTL

(* Neither liveLocks nor unlock takes the lock of a process that runs. *)
THEOREM OnlyDeadTaken == Spec => OnlyDeadLocksTaken
<1> DEFINE Taken(k) ==
      locks[k] # NoRun /\ locks'[k] # locks[k] =>
        \/ ~Running(locks[k])
        \/ pc[locks[k]] \in {"release", "withdraw"}
<1>1. IInv /\ [Next]_vars => [\A k \in Keys : Taken(k)]_vars
  <2> SUFFICES ASSUME IInv, Next, NEW k \in Keys PROVE Taken(k)
    BY DEF vars
  <2> USE DEF IInv, TypeOK, Moves
  <2>1. ASSUME NEW r \in Runs, PutLock(r) PROVE Taken(k)
    BY <2>1, KindsDiffer DEF PutLock, Unused, Keys
  <2>2. ASSUME NEW r \in Runs, NEW j \in Keys, ClearLeftover(r, j)
        PROVE Taken(k)
    BY <2>2 DEF ClearLeftover, ProcessGone
  <2>3. ASSUME NEW r \in Runs, Release(r) PROVE Taken(k)
    BY <2>3 DEF Release, LockHeld, Holding
  <2>4. ASSUME NEW j \in Keys, Unlock(j) PROVE Taken(k)
    BY <2>4 DEF Unlock, ShownDead
  <2>5. ASSUME NEW r \in Runs,
               Begin(r) \/ PutLockTaken(r) \/ ReadBack(r) \/ List(r) \/ Get(r)
                 \/ Start(r) \/ Refuse(r) \/ EndHold(r) \/ Wake(r) \/ Crash(r)
        PROVE Taken(k)
    BY <2>5 DEF Begin, PutLockTaken, ReadBack, List, Get, Start, Refuse,
                EndHold, Wake, Crash
  <2>6. ASSUME NEW ks \in SUBSET Keys, ShowLocks(ks) PROVE Taken(k)
    BY <2>6 DEF ShowLocks
  <2>7. QED
    BY <2>1, <2>2, <2>3, <2>4, <2>5, <2>6 DEF Next, Step, Person
<1>2. QED
  BY <1>1, InvAlways, PTL DEF Spec, OnlyDeadLocksTaken

-----------------------------------------------------------------------------
Working(S) == {r \in S : pc[r] = "work"}

(* Start is the abstract start: nobody of the other kind is at work. *)
LEMMA StartFindsNobody ==
  ASSUME IInv, NEW r \in Runs, Start(r)
  PROVE  /\ r \in Uploads => Working(Deletes) = {}
         /\ r \in Deletes => Working(Uploads) = {}
<1> USE RunsAssumption, KindsDiffer DEF IInv, Runs, Working
<1>1. pc[r] = "judge" /\ \A k \in seen[r] : k[1] = KindOf(r)
  BY DEF Start, Opposed, Moves
<1>2. \A q \in Runs : pc[q] = "work" => key[q][1] = KindOf(q)
  BY DEF OwnKey, Holding
<1>3. ASSUME r \in Uploads, NEW d \in Deletes, pc[d] = "work" PROVE FALSE
  BY <1>1, <1>2, <1>3 DEF OneSawTheOther
<1>4. ASSUME r \in Deletes, NEW u \in Uploads, pc[u] = "work" PROVE FALSE
  BY <1>1, <1>2, <1>4 DEF OneSawTheOther
<1>5. QED BY <1>3, <1>4

(* A run that leaves "work" ends its abstract work; one that neither enters *)
(* nor leaves it takes no abstract step. *)
LEMMA AbstractStep == IInv /\ [Next]_vars => [Abstract!Next]_(Abstract!vars)
<1> SUFFICES ASSUME IInv, [Next]_vars
             PROVE  [Abstract!Next]_(Abstract!vars)
  OBVIOUS
<1> USE RunsAssumption DEF IInv, TypeOK, Runs, Moves,
        Abstract!Next, Abstract!vars, Abstract!StartUpload,
        Abstract!StartDelete, Abstract!EndUpload, Abstract!EndDelete
<1>1. ASSUME NEW r \in Runs, Start(r) PROVE Abstract!Next
  <2>1. pc[r] # "work" /\ pc' = [pc EXCEPT ![r] = "work"]
    BY <1>1 DEF Start
  <2>2. CASE r \in Uploads
    BY <1>1, <2>1, <2>2, StartFindsNobody DEF Working
  <2>3. CASE r \in Deletes
    BY <1>1, <2>1, <2>3, StartFindsNobody DEF Working
  <2>4. QED BY <2>2, <2>3
<1>2. ASSUME NEW r \in Runs, NEW p \in PCs \ {"work"},
             pc' = [pc EXCEPT ![r] = p]
      PROVE  [Abstract!Next]_(Abstract!vars)
  <2>1. CASE pc[r] = "work"
    <3>1. CASE r \in Uploads
      BY <1>2, <2>1, <3>1
    <3>2. CASE r \in Deletes
      BY <1>2, <2>1, <3>2
    <3>3. QED BY <3>1, <3>2
  <2>2. CASE pc[r] # "work"
    BY <1>2, <2>2
  <2>3. QED BY <2>1, <2>2
<1>3. ASSUME NEW r \in Runs, Step(r), ~Start(r)
      PROVE  \/ \E p \in PCs \ {"work"} : pc' = [pc EXCEPT ![r] = p]
             \/ UNCHANGED pc
  BY <1>3 DEF Step, Begin, PutLock, PutLockTaken, ReadBack, List, Get,
              ClearLeftover, Refuse, EndHold, Release, Wake, Crash, PCs, Holding
<1>4. ASSUME Person \/ UNCHANGED vars PROVE UNCHANGED pc
  BY <1>4 DEF Person, ShowLocks, Unlock, vars
<1>5. UNCHANGED pc => UNCHANGED Abstract!vars
  OBVIOUS
<1>6. QED
  BY <1>1, <1>2, <1>3, <1>4, <1>5 DEF Next

(* The lock objects implement the abstract exclusion. *)
THEOREM LocksImplementExclusion == Spec => ImplementsExclusion
<1>1. Init => Abstract!Init
  BY RunsAssumption DEF Init, Abstract!Init, Runs
<1>2. QED
  BY <1>1, AbstractStep, InvAlways, PTL
     DEF Spec, ImplementsExclusion, Abstract!Spec

=============================================================================
