-------------------------- MODULE SetOwnershipProofs --------------------------
(***************************************************************************)
(* What holds of a set's ownership for any number of machines, runs,       *)
(* snapshots and instants.                                                 *)
(***************************************************************************)
EXTENDS SetOwnership, TLAPS

\* The condition of the last two theorems: no two runs share a claim file.
OneRunEach == \A r, q \in Runs : MachineOf[r] = MachineOf[q] => r = q

(***************************************************************************)
(* The inductive invariants.  A takeover carries the CREATED it read to    *)
(* the marker it writes, so what it read must still be the marker's.  A    *)
(* run about to delete the claim has the claim in hand and has seen it not *)
(* match; a run about to write its claim has its pair in the marker unless *)
(* another machine's is there.                                             *)
(***************************************************************************)
OriginKnown ==
  \A r \in Runs : run[r].at = "take" /\ run[r].info # NoMarker =>
    marker # NoMarker /\ marker.created = run[r].info.created

OwnPairs ==
  \A r \in Runs : run[r].at \in {"get", "drop"} /\ run[r].mine # NoClaim =>
    run[r].mine.owner = MachineOf[r]

OwnClaims == \A m \in Machines : claim[m] # NoClaim => claim[m].owner = m

ClaimInHand ==
  \A r \in Runs : run[r].at \in {"get", "drop"} =>
    run[r].mine = claim[MachineOf[r]]

DroppedIsStale ==
  \A r \in Runs : run[r].at = "drop" =>
    run[r].mine # NoClaim /\ ~Matches(run[r].mine, marker)

PairWritten ==
  \A r \in Runs : run[r].at \in {"attach", "keep"} =>
    /\ marker # NoMarker
    /\ marker.owner = MachineOf[r] => marker.claimed = run[r].stamp

CInv == TypeOK /\ OriginKnown /\ OwnClaims /\ OwnPairs
IInv == CInv /\ ClaimInHand /\ DroppedIsStale /\ PairWritten

-----------------------------------------------------------------------------
LEMMA RestType == Rest \in RunState /\ Rest.at = "idle"
BY OwnershipAssumption DEF Rest, RunState

\* A move to "idle" forgets everything, any other changes `at` alone.
LEMMA MovesType ==
  ASSUME TypeOK, NEW r \in Runs, NEW from, NEW to, Moves(r, from, to),
         to \in {"idle", "attach", "info", "take", "keep", "drop", "list",
                 "work", "publish", "forget"}
  PROVE  /\ run' \in [Runs -> RunState]
         /\ run[r].at = from /\ run'[r].at = to
         /\ \A q \in Runs \ {r} : run'[q] = run[q]
         /\ to # "idle" => /\ run'[r].mine = run[r].mine
                           /\ run'[r].info = run[r].info
                           /\ run'[r].stamp = run[r].stamp
BY RestType DEF TypeOK, Moves, RunState

LEMMA FreshType ==
  ASSUME TypeOK, NEW r \in Runs, NEW s \in Stamps
  PROVE  /\ Fresh(r, s) \in Marker
         /\ Fresh(r, s) # NoMarker
         /\ Fresh(r, s).owner = MachineOf[r]
         /\ Fresh(r, s).claimed = run[r].stamp
         /\ Fresh(r, s).created = s
BY OwnershipAssumption, OwnershipValues DEF Fresh, Marker, TypeOK, RunState

\* A run that reads something notes it and goes on.
LEMMA RecordType ==
  ASSUME TypeOK, NEW r \in Runs, NEW s \in RunState,
         run' = [run EXCEPT ![r] = s]
  PROVE  /\ run' \in [Runs -> RunState] /\ run'[r] = s
         /\ \A q \in Runs \ {r} : run'[q] = run[q]
BY DEF TypeOK

LEMMA InitInv == Init => IInv
BY RestType DEF Init, IInv, CInv, TypeOK, OriginKnown, OwnClaims, OwnPairs,
   ClaimInHand, DroppedIsStale, PairWritten

-----------------------------------------------------------------------------
(* The steps, by what they do to the bucket and to this machine. *)

\* The first three write the marker, and nothing else does.
MarkerStep(r) == ClaimSet(r) \/ TakeOver(r) \/ TakeUnclaimed(r)

\* These write or delete a claim.
ClaimStep(r) == WriteClaim(r) \/ DropClaim(r)

\* These change neither.
QuietStep(r) ==
  \/ BeginSetup(r) \/ ListHistory(r) \/ WriteSet(r) \/ BeginCheck(r)
  \/ ReadClaim(r) \/ Held(r) \/ NotHeld(r) \/ BeginTakeover(r) \/ AttachSet(r)
  \/ FinishPass(r) \/ Publish(r) \/ Forget(r) \/ End(r)

LEMMA NextCases ==
  Next <=> \E r \in Runs : MarkerStep(r) \/ ClaimStep(r) \/ QuietStep(r)
BY DEF Next, MarkerStep, ClaimStep, QuietStep

\* A marker that is written is the writer's own, with its CREATED kept.
LEMMA MarkerWritten ==
  ASSUME CInv, NEW r \in Runs, MarkerStep(r)
  PROVE  /\ marker' \in Marker /\ marker' # NoMarker
         /\ marker'.owner = MachineOf[r]
         /\ marker'.claimed = run[r].stamp
         /\ marker # NoMarker => marker'.created = marker.created
         /\ UNCHANGED <<snaps, attached, claim>>
         /\ run' \in [Runs -> RunState]
         /\ \A q \in Runs \ {r} : run'[q] = run[q]
         /\ run'[r].at \in {"idle", "attach", "keep", "take"}
         /\ run'[r].at # "idle" => run'[r].stamp = run[r].stamp
         /\ run'[r].at = "take" => run'[r].info = run[r].info
                                   /\ run[r].at = "take" /\ marker # NoMarker
         /\ run[r].at \in {"claim", "take"}
<1> USE DEF CInv
<1>1. CASE ClaimSet(r)
  <2>1. run[r].stamp \in Stamps
    BY DEF TypeOK, RunState
  <2>2. PICK to \in {"attach", "idle"} : Moves(r, "claim", to)
    BY <1>1 DEF ClaimSet
  <2> QED BY <1>1, <2>1, <2>2, MovesType, FreshType DEF ClaimSet, local
<1>2. CASE TakeOver(r)
  <2>1. PICK to \in {"keep", "take"} : Moves(r, "take", to)
    BY <1>2 DEF TakeOver
  <2>2. run[r].at = "take"
    BY <2>1, MovesType
  <2>3. run[r].info \in Marker /\ marker # NoMarker
        /\ marker.created = run[r].info.created
    BY <1>2, <2>2 DEF TakeOver, OriginKnown, TypeOK, RunState
  <2>4. run[r].info.created \in Stamps
    BY <2>3 DEF Marker
  <2> QED BY <1>2, <2>1, <2>2, <2>3, <2>4, MovesType, FreshType
          DEF TakeOver, local
<1>3. CASE TakeUnclaimed(r)
  <2>1. run[r].stamp \in Stamps
    BY DEF TypeOK, RunState
  <2>2. PICK to \in {"keep", "idle"} : Moves(r, "take", to)
    BY <1>3 DEF TakeUnclaimed
  <2> QED BY <1>3, <2>1, <2>2, MovesType, FreshType
          DEF TakeUnclaimed, local
<1> QED BY <1>1, <1>2, <1>3 DEF MarkerStep

LEMMA ClaimWritten ==
  ASSUME TypeOK, NEW r \in Runs, ClaimStep(r)
  PROVE  /\ UNCHANGED <<marker, snaps, attached>>
         /\ run' \in [Runs -> RunState] /\ run'[r].at = "idle"
         /\ \A q \in Runs \ {r} : run'[q] = run[q]
         /\ claim' \in [Machines -> Pair \cup {NoClaim}]
         /\ \A m \in Machines \ {MachineOf[r]} : claim'[m] = claim[m]
         /\ \/ /\ run[r].at = "keep"
               /\ claim'[MachineOf[r]] =
                    [owner |-> MachineOf[r], claimed |-> run[r].stamp]
            \/ run[r].at = "drop" /\ claim'[MachineOf[r]] = NoClaim
<1>1. MachineOf[r] \in Machines /\ run[r].stamp \in Stamps
  BY OwnershipAssumption DEF TypeOK, RunState
<1>2. CASE WriteClaim(r)
  <2>1. Moves(r, "keep", "idle")
    BY <1>2 DEF WriteClaim
  <2>2. [owner |-> MachineOf[r], claimed |-> run[r].stamp] \in Pair
    BY <1>1 DEF Pair
  <2> QED BY <1>1, <1>2, <2>1, <2>2, MovesType DEF WriteClaim, bucket, TypeOK
<1>3. CASE DropClaim(r)
  <2>1. Moves(r, "drop", "idle")
    BY <1>3 DEF DropClaim
  <2> QED BY <1>1, <1>3, <2>1, MovesType DEF DropClaim, bucket, TypeOK
<1> QED BY <1>2, <1>3 DEF ClaimStep

\* The quiet steps that note something they have read.
ReadStep(r) ==
  ListHistory(r) \/ BeginCheck(r) \/ ReadClaim(r) \/ AttachSet(r) \/ FinishPass(r)

LEMMA ReadStepKeeps ==
  ASSUME TypeOK, NEW r \in Runs, ReadStep(r)
  PROVE  /\ UNCHANGED <<marker, claim, snaps>>
         /\ attached' \subseteq Machines
         /\ run' \in [Runs -> RunState]
         /\ \A q \in Runs \ {r} : run'[q] = run[q]
         /\ run[r].at \in {"list", "idle", "check", "info", "work"}
         /\ run'[r].at \in {"claim", "check", "get", "take"}
         /\ run'[r].at = "take" => run'[r].info = marker
         /\ run'[r].at = "get" => run'[r].mine = claim[MachineOf[r]]
<1>1. MachineOf[r] \in Machines /\ run[r] \in RunState
  BY OwnershipAssumption DEF TypeOK
<1>3. CASE ListHistory(r)
  <2>1. PICK x \in Stamps :
          run' = [run EXCEPT ![r] = [run[r] EXCEPT !.at = "claim", !.stamp = x]]
    BY <1>3 DEF ListHistory
  <2> DEFINE s == [run[r] EXCEPT !.at = "claim", !.stamp = x]
  <2>2. s \in RunState /\ s.at = "claim"
    BY <1>1 DEF RunState, TypeOK
  <2>3. run' = [run EXCEPT ![r] = s]
    BY <2>1
  <2> HIDE DEF s
  <2> QED BY <1>1, <1>3, <2>2, <2>3, RecordType
          DEF ListHistory, bucket, local, TypeOK
<1>5. CASE BeginCheck(r)
  <2>1. PICK n \in {"info", "work", "publish", "forget"} :
          run' = [run EXCEPT ![r] = [run[r] EXCEPT !.at = "check", !.next = n]]
    BY <1>5 DEF BeginCheck
  <2> DEFINE s == [run[r] EXCEPT !.at = "check", !.next = n]
  <2>2. s \in RunState /\ s.at = "check"
    BY <1>1 DEF RunState, TypeOK
  <2>3. run' = [run EXCEPT ![r] = s]
    BY <2>1
  <2> HIDE DEF s
  <2> QED BY <1>1, <1>5, <2>2, <2>3, RecordType
          DEF BeginCheck, bucket, local, TypeOK
<1>6. CASE ReadClaim(r)
  <2>1. run' = [run EXCEPT ![r] = [run[r] EXCEPT !.at = "get", !.mine = claim[MachineOf[r]]]]
    BY <1>6 DEF ReadClaim
  <2> DEFINE s == [run[r] EXCEPT !.at = "get", !.mine = claim[MachineOf[r]]]
  <2>2. s \in RunState /\ s.at = "get" /\ s.mine = claim[MachineOf[r]]
    BY <1>1 DEF RunState, TypeOK
  <2>3. run' = [run EXCEPT ![r] = s]
    BY <2>1
  <2> HIDE DEF s
  <2> QED BY <1>1, <1>6, <2>2, <2>3, RecordType
          DEF ReadClaim, bucket, local, TypeOK
<1>10. CASE AttachSet(r)
  <2>1. PICK x \in Stamps :
          run' = [run EXCEPT ![r] = [run[r] EXCEPT !.at = "take", !.info = marker, !.stamp = x]]
    BY <1>10 DEF AttachSet
  <2> DEFINE s == [run[r] EXCEPT !.at = "take", !.info = marker, !.stamp = x]
  <2>2. s \in RunState /\ s.at = "take" /\ s.info = marker
    BY <1>1 DEF RunState, TypeOK
  <2>3. run' = [run EXCEPT ![r] = s]
    BY <2>1
  <2> HIDE DEF s
  <2> QED BY <1>1, <1>10, <2>2, <2>3, RecordType
          DEF AttachSet, bucket, local, TypeOK
<1>11. CASE FinishPass(r)
  <2>1. run' = [run EXCEPT ![r] = [run[r] EXCEPT !.at = "check", !.next = "publish"]]
    BY <1>11 DEF FinishPass
  <2> DEFINE s == [run[r] EXCEPT !.at = "check", !.next = "publish"]
  <2>2. s \in RunState /\ s.at = "check"
    BY <1>1 DEF RunState, TypeOK
  <2>3. run' = [run EXCEPT ![r] = s]
    BY <2>1
  <2> HIDE DEF s
  <2> QED BY <1>1, <1>11, <2>2, <2>3, RecordType
          DEF FinishPass, bucket, local, TypeOK
<1> QED BY <1>3, <1>5, <1>6, <1>10, <1>11 DEF ReadStep

LEMMA QuietStepKeeps ==
  ASSUME TypeOK, NEW r \in Runs, QuietStep(r)
  PROVE  /\ UNCHANGED <<marker, claim>>
         /\ snaps' \subseteq Names /\ attached' \subseteq Machines
         /\ run' \in [Runs -> RunState]
         /\ \A q \in Runs \ {r} : run'[q] = run[q]
         /\ run'[r].at = "take" => run'[r].info = marker
         /\ run'[r].at = "attach" => FALSE
         /\ run'[r].at = "keep" => /\ run[r].at = "attach"
                                   /\ run'[r].stamp = run[r].stamp
         /\ run'[r].at = "get" => run'[r].mine = claim[MachineOf[r]]
         /\ run'[r].at = "drop" => /\ run[r].at = "get"
                                   /\ run'[r].mine = run[r].mine
                                   /\ run[r].mine # NoClaim
                                   /\ ~Matches(run[r].mine, marker)
<1>1. MachineOf[r] \in Machines /\ run[r] \in RunState
  BY OwnershipAssumption DEF TypeOK
<1>2. CASE BeginSetup(r)
  BY <1>2, MovesType DEF BeginSetup, bucket, local, TypeOK
<1>4. CASE WriteSet(r)
  BY <1>1, <1>4, MovesType DEF WriteSet, bucket, local, TypeOK
<1>7. CASE Held(r)
  <2>1. PICK to \in {"idle", "work", "publish", "forget"} : Moves(r, "get", to)
    BY <1>1, <1>7 DEF Held, RunState
  <2> QED BY <1>7, <2>1, MovesType DEF Held, bucket, local, TypeOK
<1>8. CASE NotHeld(r)
  <2>1. PICK to \in {"idle", "info", "drop"} :
          Moves(r, "get", to) /\ (to = "drop" => run[r].mine # NoClaim)
    BY <1>1, <1>8 DEF NotHeld
  <2> QED BY <1>8, <2>1, MovesType DEF NotHeld, bucket, local, TypeOK
<1>9. CASE BeginTakeover(r)
  BY <1>9, MovesType DEF BeginTakeover, bucket, local, TypeOK
<1>12. CASE Publish(r)
  BY <1>12, MovesType DEF Publish, bucket, local, TypeOK
<1>13. CASE Forget(r)
  BY <1>13, MovesType DEF Forget, bucket, local, TypeOK
<1>14. CASE End(r)
  BY <1>14, RestType DEF End, bucket, local, TypeOK
<1>15. CASE ReadStep(r)
  BY <1>15, ReadStepKeeps DEF TypeOK
<1> QED
  BY <1>2, <1>4, <1>7, <1>8, <1>9, <1>12, <1>13, <1>14, <1>15
  DEF QuietStep, ReadStep

-----------------------------------------------------------------------------
LEMMA CInvStep == CInv /\ [Next]_vars => CInv'
<1> SUFFICES ASSUME CInv, [Next]_vars PROVE CInv'
  OBVIOUS
<1> USE DEF CInv
<1>1. \A r \in Runs : MachineOf[r] \in Machines
  BY OwnershipAssumption
<1>2. ASSUME NEW r \in Runs, MarkerStep(r) PROVE CInv'
  <2>1. TypeOK'
    BY <1>2, MarkerWritten DEF TypeOK
  <2>2. OriginKnown'
    BY <1>2, MarkerWritten DEF OriginKnown
  <2>3. OwnClaims' /\ OwnPairs'
    BY <1>2, MarkerWritten DEF OwnClaims, OwnPairs
  <2> QED BY <2>1, <2>2, <2>3
<1>3. ASSUME NEW r \in Runs, ClaimStep(r) PROVE CInv'
  <2>1. TypeOK'
    BY <1>3, ClaimWritten DEF TypeOK
  <2>2. /\ marker' = marker /\ run'[r].at = "idle"
        /\ \A q \in Runs \ {r} : run'[q] = run[q]
    BY <1>3, ClaimWritten
  <2>3. OriginKnown' /\ OwnPairs'
    BY <2>2 DEF OriginKnown, OwnPairs
  <2>4. claim'[MachineOf[r]] # NoClaim => claim'[MachineOf[r]].owner = MachineOf[r]
    <3>1. \/ claim'[MachineOf[r]] = NoClaim
          \/ claim'[MachineOf[r]] =
               [owner |-> MachineOf[r], claimed |-> run[r].stamp]
      BY <1>3, ClaimWritten
    <3> QED BY <3>1
  <2>5. \A m \in Machines \ {MachineOf[r]} : claim'[m] = claim[m]
    BY <1>3, ClaimWritten
  <2>6. OwnClaims'
    BY <2>4, <2>5 DEF OwnClaims
  <2> QED BY <2>1, <2>3, <2>6
<1>4. ASSUME NEW r \in Runs, QuietStep(r) PROVE CInv'
  <2>1. TypeOK' /\ OriginKnown'
    BY <1>4, QuietStepKeeps DEF TypeOK, OriginKnown
  <2>2. OwnClaims' /\ OwnPairs'
    BY <1>1, <1>4, QuietStepKeeps DEF OwnClaims, OwnPairs
  <2> QED BY <2>1, <2>2
<1>5. CASE UNCHANGED vars
  BY <1>5 DEF vars, TypeOK, OriginKnown, OwnClaims, OwnPairs
<1> QED BY <1>2, <1>3, <1>4, <1>5, NextCases

\* While no two runs share a machine, what a run has in hand stays true of its
\* machine's claim, and another machine's marker never carries its pair.
LEMMA IInvStep ==
  ASSUME OneRunEach
  PROVE  IInv /\ [Next]_vars => IInv'
<1> SUFFICES ASSUME IInv, [Next]_vars PROVE IInv'
  OBVIOUS
<1>1. CInv /\ CInv' /\ TypeOK
  BY CInvStep DEF IInv, CInv
<1>2. \A r \in Runs : /\ MachineOf[r] \in Machines
                      /\ \A q \in Runs \ {r} : MachineOf[q] # MachineOf[r]
  BY OneRunEach, OwnershipAssumption DEF OneRunEach
<1>4. ASSUME NEW r \in Runs, MarkerStep(r) PROVE IInv'
  <2>1. ClaimInHand'
    BY <1>1, <1>4, MarkerWritten DEF IInv, ClaimInHand
  <2>2. DroppedIsStale'
    <3> SUFFICES ASSUME NEW q \in Runs, run'[q].at = "drop"
                 PROVE  run'[q].mine # NoClaim /\ ~Matches(run'[q].mine, marker')
      BY DEF DroppedIsStale, Matches
    <3>1. q # r /\ run'[q] = run[q]
      BY <1>1, <1>4, MarkerWritten
    <3>2. run[q].mine # NoClaim /\ run[q].mine.owner = MachineOf[q]
      BY <1>1, <3>1 DEF IInv, DroppedIsStale, CInv, OwnPairs
    <3>3. marker'.owner = MachineOf[r] /\ MachineOf[r] # MachineOf[q]
      BY <1>1, <1>2, <1>4, <3>1, MarkerWritten
    <3> QED BY <3>1, <3>2, <3>3 DEF Matches
  <2>3. PairWritten'
    BY <1>1, <1>2, <1>4, MarkerWritten DEF IInv, PairWritten
  <2> QED BY <1>1, <2>1, <2>2, <2>3 DEF IInv
<1>5. ASSUME NEW r \in Runs, ClaimStep(r) PROVE IInv'
  <2>1. ClaimInHand'
    <3>1. /\ run'[r].at = "idle"
          /\ \A q \in Runs \ {r} : run'[q] = run[q]
          /\ \A m \in Machines \ {MachineOf[r]} : claim'[m] = claim[m]
      BY <1>1, <1>5, ClaimWritten
    <3> QED BY <1>2, <3>1 DEF IInv, ClaimInHand
  <2>2. /\ marker' = marker /\ run'[r].at = "idle"
        /\ \A q \in Runs \ {r} : run'[q] = run[q]
    BY <1>1, <1>5, ClaimWritten
  <2>3. DroppedIsStale' /\ PairWritten'
    BY <2>2 DEF IInv, DroppedIsStale, PairWritten, Matches
  <2> QED BY <1>1, <2>1, <2>2, <2>3 DEF IInv
<1>6. ASSUME NEW r \in Runs, QuietStep(r) PROVE IInv'
  <2>2. ClaimInHand'
    BY <1>1, <1>6, QuietStepKeeps DEF IInv, ClaimInHand
  <2>3. DroppedIsStale'
    BY <1>1, <1>6, QuietStepKeeps DEF IInv, DroppedIsStale, Matches
  <2>4. PairWritten'
    BY <1>1, <1>6, QuietStepKeeps DEF IInv, PairWritten
  <2> QED BY <1>1, <2>2, <2>3, <2>4 DEF IInv
<1>7. CASE UNCHANGED vars
  BY <1>1, <1>7 DEF vars, IInv, ClaimInHand, DroppedIsStale,
     PairWritten, Matches
<1> QED BY <1>4, <1>5, <1>6, <1>7, NextCases

-----------------------------------------------------------------------------
LEMMA CInvAlways == Spec => []CInv
<1>1. Init => CInv
  BY InitInv DEF IInv
<1> QED BY <1>1, CInvStep, PTL DEF Spec

\* The marker, the claims and what the runs have read keep their types.
THEOREM TypeCorrect == Spec => []TypeOK
<1>1. CInv => TypeOK
  BY DEF CInv
<1> QED BY <1>1, CInvAlways, PTL

\* CREATED never changes, however takeovers and setups cross: a takeover
\* writes back what it read, and a claim succeeds only where there is none.
THEOREM CreatedStays == Spec => CreatedKept
<1>1. CInv /\ [Next]_vars =>
        (marker # NoMarker =>
           marker' # NoMarker /\ marker'.created = marker.created)
  <2> SUFFICES ASSUME CInv, [Next]_vars, marker # NoMarker
               PROVE  marker' # NoMarker /\ marker'.created = marker.created
    OBVIOUS
  <2>1. TypeOK
    BY DEF CInv
  <2>2. ASSUME NEW r \in Runs, MarkerStep(r)
        PROVE  marker' # NoMarker /\ marker'.created = marker.created
    BY <2>2, MarkerWritten
  <2>3. ASSUME NEW r \in Runs, ClaimStep(r) \/ QuietStep(r)
        PROVE  UNCHANGED marker
    BY <2>1, <2>3, ClaimWritten, QuietStepKeeps
  <2> QED BY <2>2, <2>3, NextCases DEF vars
<1> QED BY <1>1, CInvAlways, PTL DEF Spec, CreatedKept

\* The check publishes and forgets only for the holder's runs.
LEMMA HolderStep == CInv /\ [Next]_vars => [Holder!Next]_(Holder!vars)
<1> SUFFICES ASSUME CInv, [Next]_vars PROVE [Holder!Next]_(Holder!vars)
  OBVIOUS
<1> DEFINE holder == IF marker = NoMarker THEN NoMachine ELSE marker.owner
           cleared == {r \in Runs : run[r].at \in {"publish", "forget"}}
<1>1. TypeOK
  BY DEF CInv
<1>2. ASSUME NEW r \in Runs, MarkerStep(r) PROVE [Holder!Next]_(Holder!vars)
  <2>1. /\ marker' # NoMarker /\ marker'.owner = MachineOf[r]
        /\ snaps' = snaps
        /\ \A q \in Runs \ {r} : run'[q] = run[q]
        /\ run[r].at \in {"claim", "take"}
        /\ run'[r].at \in {"idle", "attach", "keep", "take"}
    BY <1>2, MarkerWritten
  <2>2. holder' = MachineOf[r] /\ MachineOf[r] \in Machines
    BY <2>1, OwnershipAssumption
  <2>3. cleared' = cleared
    BY <2>1
  <2> QED BY <2>1, <2>2, <2>3 DEF Holder!Next, Holder!Take
<1>3. ASSUME NEW r \in Runs, UNCHANGED <<marker, snaps>>, run'[r].at = "idle",
             \A q \in Runs \ {r} : run'[q] = run[q]
      PROVE  [Holder!Next]_(Holder!vars)
  <2>1. cleared' = cleared \ {r}
    BY <1>3
  <2> QED BY <1>3, <2>1 DEF Holder!Next, Holder!End
<1>4. ASSUME NEW r \in Runs, ClaimStep(r) \/ End(r)
      PROVE  [Holder!Next]_(Holder!vars)
  <2>1. CASE ClaimStep(r)
    BY <1>1, <1>3, <2>1, ClaimWritten
  <2>2. CASE End(r)
    BY <1>1, <1>3, <2>2, RestType DEF End, bucket, TypeOK
  <2> QED BY <1>4, <2>1, <2>2
<1>5. ASSUME NEW r \in Runs, Publish(r) PROVE [Holder!Next]_(Holder!vars)
  <2>1. run[r].at = "publish" /\ run'[r].at = "idle"
        /\ \A q \in Runs \ {r} : run'[q] = run[q]
    BY <1>1, <1>5, MovesType DEF Publish
  <2>2. r \in cleared /\ cleared' = cleared \ {r}
    BY <2>1
  <2>3. UNCHANGED holder /\ \E n \in Names : snaps' = snaps \cup {n}
    BY <1>5 DEF Publish
  <2> QED BY <2>2, <2>3 DEF Holder!Next, Holder!Publish
<1>6. ASSUME NEW r \in Runs, Forget(r) PROVE [Holder!Next]_(Holder!vars)
  <2>1. run[r].at = "forget" /\ run'[r].at = "forget"
        /\ \A q \in Runs \ {r} : run'[q] = run[q]
    BY <1>1, <1>6, MovesType DEF Forget
  <2>2. r \in cleared /\ cleared' = cleared
    BY <2>1
  <2>3. UNCHANGED holder /\ \E n \in Names : snaps' = snaps \ {n}
    BY <1>1, <1>6 DEF Forget, TypeOK
  <2> QED BY <2>2, <2>3 DEF Holder!Next, Holder!Forget
<1>7. ASSUME NEW r \in Runs, Held(r) PROVE [Holder!Next]_(Holder!vars)
  <2>1. PICK to \in {"idle", "work", "publish", "forget"} : Moves(r, "get", to)
    BY <1>1, <1>7 DEF Held, TypeOK, RunState
  <2>2. run[r].at = "get" /\ run'[r].at = to
        /\ \A q \in Runs \ {r} : run'[q] = run[q]
    BY <1>1, <2>1, MovesType
  <2>3. CASE to \in {"publish", "forget"}
    <3>1. cleared' = cleared \cup {r}
      BY <2>2, <2>3
    <3>2. run[r].mine # NoClaim /\ marker # NoMarker
          /\ marker.owner = run[r].mine.owner /\ UNCHANGED <<marker, snaps>>
      BY <1>7 DEF Held, Matches, bucket
    <3>3. holder = MachineOf[r] /\ UNCHANGED <<holder, snaps>>
      BY <2>2, <3>2 DEF CInv, OwnPairs
    <3> QED BY <3>1, <3>3 DEF Holder!Next, Holder!Clear
  <2>4. CASE to \in {"idle", "work"}
    <3>1. cleared' = cleared
      BY <2>2, <2>4
    <3> QED BY <1>7, <3>1 DEF Held, bucket, Holder!vars
  <2> QED BY <2>3, <2>4
\* The other steps neither start nor end what the promise is about.
<1>8. ASSUME NEW r \in Runs, UNCHANGED <<marker, snaps>>,
             run[r].at \notin {"publish", "forget"},
             run'[r].at \notin {"publish", "forget"},
             \A q \in Runs \ {r} : run'[q] = run[q]
      PROVE  [Holder!Next]_(Holder!vars)
  <2>1. cleared' = cleared
    BY <1>8
  <2> QED BY <1>8, <2>1 DEF Holder!vars
<1>9. ASSUME NEW r \in Runs,
             BeginSetup(r) \/ WriteSet(r) \/ BeginTakeover(r)
      PROVE  [Holder!Next]_(Holder!vars)
  <2>1. PICK from \in {"idle", "attach"}, to \in {"list", "keep", "info"} :
          Moves(r, from, to)
    BY <1>9 DEF BeginSetup, WriteSet, BeginTakeover
  <2>2. UNCHANGED <<marker, snaps>>
    BY <1>9 DEF BeginSetup, WriteSet, BeginTakeover, bucket
  <2>3. /\ run[r].at = from /\ run'[r].at = to
        /\ \A q \in Runs \ {r} : run'[q] = run[q]
    BY <1>1, <2>1, MovesType
  <2> QED BY <1>8, <2>2, <2>3
<1>10. ASSUME NEW r \in Runs, NotHeld(r) PROVE [Holder!Next]_(Holder!vars)
  <2>1. PICK to \in {"idle", "info", "drop"} : Moves(r, "get", to)
    BY <1>10 DEF NotHeld
  <2>2. /\ run[r].at = "get" /\ run'[r].at = to
        /\ \A q \in Runs \ {r} : run'[q] = run[q]
    BY <1>1, <2>1, MovesType
  <2> QED BY <1>8, <1>10, <2>2 DEF NotHeld, bucket
<1>11. ASSUME NEW r \in Runs, ReadStep(r) PROVE [Holder!Next]_(Holder!vars)
  BY <1>1, <1>8, <1>11, ReadStepKeeps
<1>12. CASE UNCHANGED vars
  BY <1>12 DEF vars, Holder!vars
<1> QED
  BY <1>2, <1>4, <1>5, <1>6, <1>7, <1>9, <1>10, <1>11, <1>12, NextCases
  DEF QuietStep, ReadStep

\* However checks, takeovers and crashes cross, a run publishes or forgets
\* only after it was told, since its work ended, that its machine holds the set.
THEOREM OwnershipImplementsHolder == Spec => ImplementsHolder
<1>1. Init => Holder!Init
  <2> SUFFICES ASSUME Init PROVE Holder!Init
    OBVIOUS
  <2> QED BY RestType DEF Init, Holder!Init
<1> QED
  BY <1>1, HolderStep, CInvAlways, PTL DEF Spec, ImplementsHolder, Holder!Spec

-----------------------------------------------------------------------------
LEMMA IInvAlways ==
  ASSUME OneRunEach
  PROVE  Spec => []IInv
<1>1. IInv /\ [Next]_vars => IInv'
  BY IInvStep
<1> QED BY <1>1, InitInv, PTL DEF Spec

\* While no two runs share a machine, assertHeld never deletes the pair that
\* makes this machine the holder.
THEOREM NoFreshClaimDropped ==
  ASSUME OneRunEach
  PROVE  Spec => FreshClaimKept
<1> DEFINE Kept == \A m \in Machines :
      claim[m] # NoClaim /\ claim'[m] = NoClaim => ~Matches(claim[m], marker)
<1>1. IInv /\ [Next]_vars => Kept
  <2> SUFFICES ASSUME IInv, [Next]_vars, NEW m \in Machines,
                      claim[m] # NoClaim, claim'[m] = NoClaim
               PROVE  ~Matches(claim[m], marker)
    OBVIOUS
  <2>1. CInv /\ TypeOK
    BY DEF IInv, CInv
  <2>2. ASSUME NEW r \in Runs, MarkerStep(r) \/ QuietStep(r)
        PROVE  claim' = claim
    BY <2>1, <2>2, MarkerWritten, QuietStepKeeps
  <2>3. ASSUME NEW r \in Runs, ClaimStep(r)
        PROVE  ~Matches(claim[m], marker)
    <3>1. run[r].at = "drop" /\ m = MachineOf[r]
      <4>1. m = MachineOf[r]
        BY <2>1, <2>3, ClaimWritten
      <4>2. [owner |-> MachineOf[r], claimed |-> run[r].stamp] \in Pair
        BY <2>1, OwnershipAssumption DEF TypeOK, RunState, Pair
      <4> QED BY <2>1, <2>3, <4>1, <4>2, ClaimWritten, OwnershipValues
    <3> QED BY <3>1 DEF IInv, ClaimInHand, DroppedIsStale
  <2> QED BY <2>2, <2>3, NextCases DEF vars
<1> QED BY <1>1, IInvAlways, PTL DEF Spec, FreshClaimKept

\* While no two runs share a machine, whoever ends a setup or a takeover holds
\* the set, unless another machine took it over meanwhile.
THEOREM TakersHold ==
  ASSUME OneRunEach
  PROVE  Spec => TakenIsHeld
<1> DEFINE Holds == \A r \in Runs :
      WriteClaim(r) => \/ Matches(claim'[MachineOf[r]], marker)
                       \/ marker.owner # MachineOf[r]
<1>1. IInv => Holds
  <2> SUFFICES ASSUME IInv, NEW r \in Runs, WriteClaim(r),
                      marker.owner = MachineOf[r]
               PROVE  Matches(claim'[MachineOf[r]], marker)
    OBVIOUS
  <2>1. run[r].at = "keep" /\ marker # NoMarker /\ marker.claimed = run[r].stamp
    BY DEF IInv, PairWritten, WriteClaim, Moves
  <2>2. claim'[MachineOf[r]] = [owner |-> MachineOf[r], claimed |-> run[r].stamp]
    BY OwnershipAssumption DEF IInv, CInv, TypeOK, WriteClaim
  <2>3. [owner |-> MachineOf[r], claimed |-> run[r].stamp] # NoClaim
    BY OwnershipAssumption, OwnershipValues DEF IInv, CInv, TypeOK, RunState, Pair
  <2> QED BY <2>1, <2>2, <2>3 DEF Matches
<1> QED BY <1>1, IInvAlways, PTL DEF Spec, TakenIsHeld
============================================================================
