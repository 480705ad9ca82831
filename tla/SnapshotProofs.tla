---------------------------- MODULE SnapshotProofs ----------------------------
(***************************************************************************)
(* What a snapshot is and what is told of it: its work file, for any       *)
(* number of runs and rows; what the walk that fills it leaves out (Walk), *)
(* for any disk; what the reader takes of its text (SnapshotFormat), for   *)
(* any lines; what compare and find tell (Comparison), for any snapshots   *)
(* and any history; what verify, cleanup and forget make of the snapshots  *)
(* of a bucket (Integrity), for any bucket; and which snapshots a listing, *)
(* a refresh, status and the clock speak of (Listings), for any keys and   *)
(* clock.  Answers, that asks all of it, holds them together.              *)
(***************************************************************************)
EXTENDS WorkFile, Answers, FiniteSetTheorems, TLAPS

Before == {"idle", "killed", "lookup", "name", "named"}
Writing == {"opened", "write", "written", "stopped", "land", "park", "landed",
            "failed", "unlink", "unlinkUnsure"}

\* A run has a file from its open on, which carries the name the run minted,
\* and no two runs have the same, unless a number is used again too soon.
OwnFile ==
  \A r \in Runs :
    /\ run[r].at \in Before => run[r].own = NoFile
    /\ run[r].at \in Writing => run[r].own \in Files
    /\ run[r].at \in Writing \cup {"named"} => run[r].name \in Names
    /\ ~LockWindow /\ run[r].own # NoFile => file[run[r].own].name = run[r].name

OwnApart ==
  ~LockWindow =>
    \A r, q \in Runs : r # q /\ run[r].own # NoFile => run[r].own # run[q].own

CInv == TypeOK /\ OwnFile /\ OwnApart

LEMMA InitInv == Init => CInv
  BY WorkFileAssumption DEF Init, CInv, TypeOK, OwnFile, OwnApart, Content,
     Empty, NewFile, Rest, RunState, Before, Writing

USE WorkFileAssumption

LEMMA MovesRun ==
  ASSUME NEW r \in Runs, NEW from, NEW to, TypeOK, Moves(r, from, to),
         to \in Before \cup Writing
  PROVE  /\ run' \in [Runs -> RunState]
         /\ run[r].at = from
         /\ run'[r].at = to
         /\ to = "idle" => run'[r] = Rest
         /\ to # "idle" => /\ run'[r].own = run[r].own
                           /\ run'[r].name = run[r].name
                           /\ run'[r].read = run[r].read
         /\ \A q \in Runs : q # r => run'[q] = run[q]
  BY DEF Moves, TypeOK, RunState, Rest, Before, Writing

\* A step of one run moves no other.
LEMMA OthersStay ==
  ASSUME NEW r \in Runs, NEW q \in Runs, q # r, TypeOK, Step(r)
  PROVE  run'[q] = run[q]
<1>1. CASE Begin(r) \/ Recover(r) \/ ReadParkedLookup(r) \/ CheckName(r) \/ Open(r)
           \/ HashRow(r) \/ Kill(r)
  BY <1>1 DEF Begin, Recover, Starts, ReadParkedLookup, CheckName, Open, HashRow,
     Kill, TypeOK
<1>2. CASE OpenRefused(r) \/ Identify(r) \/ CloseWhole(r) \/ Stop(r) \/ Fail(r)
           \/ CheckOwn(r) \/ StatFails(r)
  BY <1>2 DEF OpenRefused, Identify, CloseWhole, Stop, Fail, CheckOwn, StatFails,
     Moves, TypeOK
<1>3. CASE Land(r) \/ Park(r) \/ RenameFails(r) \/ Unpark(r) \/ Release(r)
           \/ Unlink(r) \/ UnlinkFails(r)
  BY <1>3 DEF Land, Park, RenameFails, Unpark, Release, Unlink, UnlinkFails,
     Moves, TypeOK
<1> QED BY <1>1, <1>2, <1>3 DEF Step

\* The steps with which a run ends in peace.
LEMMA EndingSteps ==
  ASSUME NEW r \in Runs, TypeOK, Step(r), run[r].at # "idle", run'[r].at = "idle"
  PROVE  OpenRefused(r) \/ Unpark(r) \/ Release(r) \/ Unlink(r) \/ UnlinkFails(r)
<1>1. ~(Begin(r) \/ Recover(r))
  <2> SUFFICES ASSUME Starts(r) PROVE FALSE
    BY DEF Begin, Recover
  <2>1. run'[r] = [Rest EXCEPT !.at = "lookup"]
    BY DEF Starts, TypeOK
  <2> QED BY <2>1 DEF Rest
<1>2. ~HashRow(r)
  BY DEF HashRow
<1>3. ~Kill(r)
  <2> SUFFICES ASSUME Kill(r) PROVE FALSE
    OBVIOUS
  <2>1. run'[r] = [Rest EXCEPT !.at = "killed"]
    BY DEF Kill, TypeOK
  <2> QED BY <2>1 DEF Rest
<1>4. ~ReadParkedLookup(r)
  <2> SUFFICES ASSUME NEW f, run' = [run EXCEPT ![r] = [@ EXCEPT !.at = "name", !.read = f]]
               PROVE  FALSE
    BY DEF ReadParkedLookup
  <2>1. run'[r] = [run[r] EXCEPT !.at = "name", !.read = f]
    BY DEF TypeOK
  <2> QED BY <2>1 DEF TypeOK, RunState
<1>5. ~CheckName(r)
  <2> SUFFICES ASSUME NEW n, run' = [run EXCEPT ![r] = [@ EXCEPT !.at = "named", !.name = n]]
               PROVE  FALSE
    BY DEF CheckName
  <2>1. run'[r] = [run[r] EXCEPT !.at = "named", !.name = n]
    BY DEF TypeOK
  <2> QED BY <2>1 DEF TypeOK, RunState
<1>6. ~Open(r)
  <2> SUFFICES ASSUME NEW f, run' = [run EXCEPT ![r] = [@ EXCEPT !.at = "opened", !.own = f]]
               PROVE  FALSE
    BY DEF Open
  <2>1. run'[r] = [run[r] EXCEPT !.at = "opened", !.own = f]
    BY DEF TypeOK
  <2> QED BY <2>1 DEF TypeOK, RunState
<1>7. ~(Identify(r) \/ CloseWhole(r) \/ Stop(r) \/ Fail(r) \/ CheckOwn(r) \/ StatFails(r))
  BY MovesRun DEF Identify, CloseWhole, Stop, Fail, CheckOwn, StatFails, Before, Writing
<1>8. ~(Land(r) \/ Park(r) \/ RenameFails(r))
  BY MovesRun DEF Land, Park, RenameFails, Before, Writing
<1> QED BY <1>1, <1>2, <1>3, <1>4, <1>5, <1>6, <1>7, <1>8 DEF Step

LEMMA CInvStep == CInv /\ [Next]_vars => CInv'
<1> SUFFICES ASSUME CInv, [Next]_vars PROVE CInv'
  OBVIOUS
<1> USE DEF CInv
<1>1. CASE UNCHANGED vars
  BY <1>1 DEF TypeOK, OwnFile, OwnApart, vars
<1>2. CASE UserDelete
  BY <1>2 DEF UserDelete, TypeOK, OwnFile, OwnApart
<1>3. ASSUME NEW r \in Runs, Step(r) PROVE CInv'
  <2>1. CASE Begin(r)
    BY <2>1 DEF Begin, Starts, Rest, RunState, names, TypeOK, OwnFile, OwnApart, Before, Writing
  <2>2. CASE Recover(r)
    BY <2>2 DEF Recover, Starts, Rest, RunState, names, TypeOK, OwnFile, OwnApart, Before, Writing
  <2>3. CASE ReadParkedLookup(r)
    <3>1. PICK f \in {parked, NoFile} :
            run' = [run EXCEPT ![r] = [@ EXCEPT !.at = "name", !.read = f]]
      BY <2>3 DEF ReadParkedLookup
    <3>2. run' \in [Runs -> RunState]
      <4>1. run[r] \in RunState /\ f \in Files \cup {NoFile}
        BY DEF TypeOK
      <4>2. [run[r] EXCEPT !.at = "name", !.read = f] \in RunState
        BY <4>1 DEF RunState
      <4> QED BY <3>1, <4>2 DEF TypeOK
    <3>3. /\ run'[r].at = "name" /\ run'[r].own = run[r].own
          /\ run'[r].name = run[r].name
          /\ \A q \in Runs \ {r} : run'[q] = run[q]
      BY <3>1 DEF TypeOK, RunState
    <3>4. UNCHANGED <<work, parked, snapshot, file>> /\ run[r].at = "lookup"
      BY <2>3 DEF ReadParkedLookup, names
    <3> QED BY <3>2, <3>3, <3>4 DEF TypeOK, OwnFile, OwnApart, Before, Writing
  <2>4. CASE CheckName(r)
    <3>1. PICK n \in Names :
            run' = [run EXCEPT ![r] = [@ EXCEPT !.at = "named", !.name = n]]
      BY <2>4 DEF CheckName
    <3>2. run' \in [Runs -> RunState]
      <4>1. run[r] \in RunState
        BY DEF TypeOK
      <4>2. [run[r] EXCEPT !.at = "named", !.name = n] \in RunState
        BY <4>1 DEF RunState
      <4> QED BY <3>1, <4>2 DEF TypeOK
    <3>3. TypeOK'
      BY <2>4, <3>2 DEF CheckName, TypeOK, names
    <3>4. run[r].own = NoFile
      BY <2>4 DEF CheckName, OwnFile, Before
    <3>5. OwnFile' /\ OwnApart'
      BY <2>4, <3>1, <3>4 DEF CheckName, TypeOK, RunState, OwnFile, OwnApart, Before, Writing
    <3> QED BY <3>3, <3>5
  <2>5. CASE Open(r)
    <3>1. PICK f \in Files :
            /\ Fresh(f) /\ work' = f
            /\ file' = [file EXCEPT ![f] = NewFile(run[r].name)]
            /\ run' = [run EXCEPT ![r] = [@ EXCEPT !.at = "opened", !.own = f]]
      BY <2>5 DEF Open
    <3>2. run[r].at = "named" /\ run[r].name \in Names
      BY <2>5 DEF Open, OwnFile
    <3>3. run' \in [Runs -> RunState]
      <4>1. run[r] \in RunState
        BY DEF TypeOK
      <4>2. [run[r] EXCEPT !.at = "opened", !.own = f] \in RunState
        BY <4>1 DEF RunState
      <4> QED BY <3>1, <4>2 DEF TypeOK
    <3>4. file' \in [Files -> Content]
      <4>1. NewFile(run[r].name) \in Content
        BY <3>2 DEF NewFile, Content
      <4> QED BY <3>1, <4>1 DEF TypeOK
    <3>5. TypeOK'
      BY <2>5, <3>1, <3>3, <3>4 DEF Open, TypeOK
    <3>6. /\ run'[r].at = "opened" /\ run'[r].own = f
          /\ run'[r].name = run[r].name /\ file'[f].name = run[r].name
          /\ \A q \in Runs \ {r} : run'[q] = run[q]
      BY <3>1 DEF TypeOK, RunState, NewFile
    <3>7. OwnFile' /\ OwnApart'
      BY <3>1, <3>2, <3>6 DEF Fresh, Holds, TypeOK, OwnFile, OwnApart, Before, Writing
    <3> QED BY <3>5, <3>7
  <2>6. CASE OpenRefused(r)
    <3>1. Moves(r, "named", "idle") /\ UNCHANGED <<work, parked, snapshot, file>>
      BY <2>6 DEF OpenRefused, names
    <3>2. /\ run' \in [Runs -> RunState] /\ run'[r] = Rest
          /\ \A q \in Runs \ {r} : run'[q] = run[q]
      BY <3>1, MovesRun DEF Before
    <3> QED BY <3>1, <3>2 DEF Rest, TypeOK, OwnFile, OwnApart, Before, Writing
  <2>7. CASE Identify(r)
    BY <2>7, MovesRun DEF Identify, names, TypeOK, OwnFile, OwnApart, Before, Writing
  <2>8. CASE HashRow(r)
    BY <2>8 DEF HashRow, names, Content, TypeOK, OwnFile, OwnApart, Before, Writing
  <2>9. CASE CloseWhole(r)
    <3>1. Moves(r, "write", "written")
          /\ file' = [file EXCEPT ![run[r].own].whole = TRUE]
      BY <2>9 DEF CloseWhole
    <3>2. /\ run' \in [Runs -> RunState]
          /\ run[r].at = "write" /\ run'[r].at = "written"
          /\ run'[r].own = run[r].own /\ run'[r].name = run[r].name
          /\ \A q \in Runs \ {r} : run'[q] = run[q]
      BY <3>1, MovesRun DEF Before, Writing
    <3>3. run[r].own \in Files
      BY <3>2 DEF OwnFile, Writing
    <3>4. /\ file' \in [Files -> Content]
          /\ \A f \in Files : file'[f].name = file[f].name
      <4>1. file[run[r].own] \in Content
        BY <3>3 DEF TypeOK
      <4>2. LET c == [file[run[r].own] EXCEPT !.whole = TRUE]
            IN  c \in Content /\ c.name = file[run[r].own].name
        BY <4>1 DEF Content
      <4> QED BY <3>1, <3>3, <4>2 DEF TypeOK
    <3>5. TypeOK'
      BY <2>9, <3>2, <3>4 DEF CloseWhole, TypeOK, names
    <3>6. \A q \in Runs : run'[q].own = run[q].own /\ run'[q].name = run[q].name
      BY <3>2
    <3>7. OwnApart'
      BY <3>6 DEF OwnApart
    <3>8. OwnFile'
      <4> SUFFICES ASSUME NEW q \in Runs
                   PROVE  /\ run'[q].at \in Before => run'[q].own = NoFile
                          /\ run'[q].at \in Writing => run'[q].own \in Files
                          /\ run'[q].at \in Writing \cup {"named"} => run'[q].name \in Names
                          /\ ~LockWindow /\ run'[q].own # NoFile =>
                               file'[run'[q].own].name = run'[q].name
        BY DEF OwnFile
      <4>1. run[q].own \in Files \cup {NoFile}
        BY DEF TypeOK, RunState
      <4>2. CASE q = r
        BY <3>2, <3>4, <3>6, <4>1, <4>2 DEF OwnFile, Before, Writing
      <4>3. CASE q # r
        BY <3>2, <3>4, <4>1, <4>3 DEF OwnFile
      <4> QED BY <4>2, <4>3
    <3> QED BY <3>5, <3>7, <3>8
  <2>10. CASE Stop(r)
    BY <2>10, MovesRun DEF Stop, names, TypeOK, OwnFile, OwnApart, Before, Writing
  <2>11. CASE Fail(r)
    BY <2>11, MovesRun DEF Fail, names, TypeOK, OwnFile, OwnApart, Before, Writing
  <2>12. CASE CheckOwn(r)
    BY <2>12, MovesRun DEF CheckOwn, names, TypeOK, OwnFile, OwnApart, Before, Writing
  <2>13. CASE StatFails(r)
    BY <2>13, MovesRun DEF StatFails, names, TypeOK, OwnFile, OwnApart, Before, Writing
  <2>14. CASE Land(r)
    BY <2>14, MovesRun DEF Land, names, TypeOK, OwnFile, OwnApart, Before, Writing
  <2>15. CASE Park(r)
    BY <2>15, MovesRun DEF Park, names, TypeOK, OwnFile, OwnApart, Before, Writing
  <2>16. CASE RenameFails(r)
    BY <2>16, MovesRun DEF RenameFails, names, TypeOK, OwnFile, OwnApart, Before, Writing
  <2>17. CASE Unpark(r)
    BY <2>17, MovesRun DEF Unpark, Rest, names, TypeOK, OwnFile, OwnApart, Before, Writing
  <2>18. CASE Release(r)
    BY <2>18, MovesRun DEF Release, Rest, names, TypeOK, OwnFile, OwnApart, Before, Writing
  <2>19. CASE Unlink(r)
    BY <2>19, MovesRun DEF Unlink, Rest, names, TypeOK, OwnFile, OwnApart, Before, Writing
  <2>20. CASE UnlinkFails(r)
    BY <2>20, MovesRun DEF UnlinkFails, Rest, names, TypeOK, OwnFile, OwnApart, Before, Writing
  <2>21. CASE Kill(r)
    <3>1. /\ run[r].at \notin {"idle", "killed"}
          /\ run' = [run EXCEPT ![r] = [Rest EXCEPT !.at = "killed"]]
          /\ UNCHANGED <<work, parked, snapshot>>
      BY <2>21 DEF Kill, names
    <3>2. /\ run' \in [Runs -> RunState]
          /\ run'[r].at = "killed" /\ run'[r].own = NoFile
          /\ \A q \in Runs \ {r} : run'[q] = run[q]
      BY <3>1 DEF TypeOK, RunState, Rest
    <3>3. /\ file' \in [Files -> Content]
          /\ \A f \in Files : file'[f].name = file[f].name
      <4>1. CASE UNCHANGED file
        BY <4>1 DEF TypeOK
      <4>2. CASE ~UNCHANGED file
        <5>1. run[r].at = "write" /\ run[r].own \in Files
          BY <2>21, <4>2 DEF Kill, OwnFile, Writing
        <5>2. PICK k \in 0 .. LastRow : file' = [file EXCEPT ![run[r].own].rows = k]
          BY <2>21, <4>2 DEF Kill
        <5> QED BY <5>1, <5>2 DEF TypeOK, Content
      <4> QED BY <4>1, <4>2
    <3>4. TypeOK'
      BY <3>1, <3>2, <3>3 DEF TypeOK
    <3>5. OwnApart'
      BY <3>2 DEF OwnApart
    <3>6. OwnFile'
      <4> SUFFICES ASSUME NEW q \in Runs
                   PROVE  /\ run'[q].at \in Before => run'[q].own = NoFile
                          /\ run'[q].at \in Writing => run'[q].own \in Files
                          /\ run'[q].at \in Writing \cup {"named"} => run'[q].name \in Names
                          /\ ~LockWindow /\ run'[q].own # NoFile =>
                               file'[run'[q].own].name = run'[q].name
        BY DEF OwnFile
      <4>1. CASE q = r
        BY <3>2, <4>1 DEF Before, Writing
      <4>2. CASE q # r
        <5>1. run'[q] = run[q] /\ run[q].own \in Files \cup {NoFile}
          BY <3>2, <4>2 DEF TypeOK, RunState
        <5> QED BY <3>3, <5>1 DEF OwnFile
      <4> QED BY <4>1, <4>2
    <3> QED BY <3>4, <3>5, <3>6
  <2> QED BY <1>3, <2>1, <2>2, <2>3, <2>4, <2>5, <2>6, <2>7, <2>8, <2>9, <2>10, <2>11,
             <2>12, <2>13, <2>14, <2>15, <2>16, <2>17, <2>18, <2>19, <2>20, <2>21 DEF Step
<1> QED BY <1>1, <1>2, <1>3 DEF Next

-----------------------------------------------------------------------------
(***************************************************************************)
(* With nobody in the window between a check and its use                   *)
(***************************************************************************)

\* A run that is about to land has written its file to the end.
WholeInHand ==
  \A r \in Runs :
    run[r].at \in {"written", "land"} =>
      file[run[r].own].rows = LastRow /\ file[run[r].own].whole = TRUE

\* A check of the lock name holds until it is used.
CheckHolds ==
  \A r \in Runs :
    run[r].at \in {"land", "park", "unlink"} => work \in {run[r].own, NoFile}

LandedGone == \A r \in Runs : run[r].at = "landed" => run[r].own # work

IInv == CInv /\ WholeInHand /\ CheckHolds /\ LandedGone /\ SnapshotsWhole

LEMMA IInitInv == Init => IInv
  BY InitInv DEF Init, IInv, WholeInHand, CheckHolds, LandedGone, SnapshotsWhole,
     Taken, Rest

LEMMA IInvStep == ~LockWindow /\ IInv /\ [Next]_vars => IInv'
<1> SUFFICES ASSUME ~LockWindow, IInv, [Next]_vars PROVE IInv'
  OBVIOUS
<1>0. CInv /\ CInv'
  BY CInvStep DEF IInv
<1> USE DEF IInv
<1> SUFFICES WholeInHand' /\ CheckHolds' /\ LandedGone' /\ SnapshotsWhole'
  BY <1>0
<1> HIDE DEF IInv
<1> USE <1>0
<1>a. TypeOK /\ OwnFile /\ OwnApart /\ WholeInHand /\ CheckHolds /\ LandedGone /\ SnapshotsWhole
  BY DEF IInv, CInv
<1> USE <1>a
<1>1. CASE UNCHANGED vars
  BY <1>1 DEF WholeInHand, CheckHolds, LandedGone, SnapshotsWhole, Taken, vars
<1>2. CASE UserDelete
  BY <1>2 DEF UserDelete, OwnFile, Writing, TypeOK, WholeInHand, CheckHolds, LandedGone,
              SnapshotsWhole, Taken
<1>3. ASSUME NEW r \in Runs, Step(r)
      PROVE  WholeInHand' /\ CheckHolds' /\ LandedGone' /\ SnapshotsWhole'
  <2>1. CASE Begin(r)
    BY <2>1 DEF Begin, Starts, Rest, names, TypeOK, OwnFile, OwnApart,
       Before, Writing, WholeInHand, CheckHolds, LandedGone, SnapshotsWhole, Taken
  <2>2. CASE Recover(r)
    BY <2>2 DEF Recover, Starts, Rest, Undisturbed, names, TypeOK, OwnFile, OwnApart,
       Before, Writing, WholeInHand, CheckHolds, LandedGone, SnapshotsWhole, Taken
  <2>3. CASE ReadParkedLookup(r)
    BY <2>3 DEF ReadParkedLookup, names, TypeOK, OwnFile, OwnApart,
       Before, Writing, WholeInHand, CheckHolds, LandedGone, SnapshotsWhole, Taken
  <2>4. CASE CheckName(r)
    BY <2>4 DEF CheckName, names, TypeOK, OwnFile, OwnApart,
       Before, Writing, WholeInHand, CheckHolds, LandedGone, SnapshotsWhole, Taken
  <2>5. CASE Open(r)
    BY <2>5 DEF Open, Undisturbed, Fresh, Holds, names, TypeOK, OwnFile, OwnApart,
       Before, Writing, WholeInHand, CheckHolds, LandedGone, SnapshotsWhole, Taken
  <2>6. CASE OpenRefused(r)
    BY <2>6, MovesRun DEF OpenRefused, Rest, names, TypeOK, OwnFile, OwnApart,
       Before, Writing, WholeInHand, CheckHolds, LandedGone, SnapshotsWhole, Taken
  <2>7. CASE Identify(r)
    BY <2>7, MovesRun DEF Identify, names, TypeOK, OwnFile, OwnApart,
       Before, Writing, WholeInHand, CheckHolds, LandedGone, SnapshotsWhole, Taken
  <2>8. CASE HashRow(r)
    BY <2>8 DEF HashRow, names, TypeOK, OwnFile, OwnApart,
       Before, Writing, WholeInHand, CheckHolds, LandedGone, SnapshotsWhole, Taken
  <2>9. CASE CloseWhole(r)
    BY <2>9, MovesRun DEF CloseWhole, names, TypeOK, OwnFile, OwnApart,
       Before, Writing, WholeInHand, CheckHolds, LandedGone, SnapshotsWhole, Taken
  <2>10. CASE Stop(r)
    BY <2>10, MovesRun DEF Stop, names, TypeOK, OwnFile, OwnApart,
       Before, Writing, WholeInHand, CheckHolds, LandedGone, SnapshotsWhole, Taken
  <2>11. CASE Fail(r)
    BY <2>11, MovesRun DEF Fail, names, TypeOK, OwnFile, OwnApart,
       Before, Writing, WholeInHand, CheckHolds, LandedGone, SnapshotsWhole, Taken
  <2>12. CASE CheckOwn(r)
    BY <2>12, MovesRun DEF CheckOwn, Owns, names, TypeOK, OwnFile, OwnApart,
       Before, Writing, WholeInHand, CheckHolds, LandedGone, SnapshotsWhole, Taken
  <2>13. CASE StatFails(r)
    BY <2>13, MovesRun DEF StatFails, names, TypeOK, OwnFile, OwnApart,
       Before, Writing, WholeInHand, CheckHolds, LandedGone, SnapshotsWhole, Taken
  <2>14. CASE Land(r)
    <3>1. /\ run[r].at = "land" /\ run'[r].at = "landed"
          /\ run'[r].own = run[r].own
          /\ \A q \in Runs \ {r} : run'[q] = run[q]
      BY <2>14, MovesRun DEF Land, Before, Writing
    <3>2. /\ run[r].own \in Files /\ run[r].name \in Names
          /\ work = run[r].own
      BY <2>14, <3>1 DEF Land, OwnFile, CheckHolds, Writing
    <3>3. WholeInHand' /\ CheckHolds' /\ LandedGone'
      BY <2>14, <3>1, <3>2 DEF Land, OwnFile, Writing, WholeInHand, CheckHolds, LandedGone
    <3>4. file[work] = [rows |-> LastRow, whole |-> TRUE, name |-> run[r].name]
      <4>1. file[work] \in Content
        BY <3>2 DEF TypeOK
      <4>2. /\ file[work].rows = LastRow /\ file[work].whole = TRUE
            /\ file[work].name = run[r].name
        BY <3>1, <3>2 DEF WholeInHand, OwnFile
      <4>3. file[work] = [rows |-> file[work].rows, whole |-> file[work].whole,
                          name |-> file[work].name]
        BY <4>1 DEF Content
      <4> QED BY <4>2, <4>3
    <3>5. snapshot' = [snapshot EXCEPT ![run[r].name] = file[work]]
      BY <2>14 DEF Land
    <3>6. SnapshotsWhole'
      BY <3>2, <3>4, <3>5 DEF SnapshotsWhole, Taken, TypeOK
    <3> QED BY <3>3, <3>6
  <2>15. CASE Park(r)
    BY <2>15, MovesRun DEF Park, names, TypeOK, OwnFile, OwnApart,
       Before, Writing, WholeInHand, CheckHolds, LandedGone, SnapshotsWhole, Taken
  <2>16. CASE RenameFails(r)
    BY <2>16, MovesRun DEF RenameFails, names, TypeOK, OwnFile, OwnApart,
       Before, Writing, WholeInHand, CheckHolds, LandedGone, SnapshotsWhole, Taken
  <2>17. CASE Unpark(r)
    BY <2>17, MovesRun DEF Unpark, Rest, names, TypeOK, OwnFile, OwnApart,
       Before, Writing, WholeInHand, CheckHolds, LandedGone, SnapshotsWhole, Taken
  <2>18. CASE Release(r)
    BY <2>18, MovesRun DEF Release, Owns, Rest, names, TypeOK, OwnFile, OwnApart,
       Before, Writing, WholeInHand, CheckHolds, LandedGone, SnapshotsWhole, Taken
  <2>19. CASE Unlink(r)
    BY <2>19, MovesRun DEF Unlink, Rest, names, TypeOK, OwnFile, OwnApart,
       Before, Writing, WholeInHand, CheckHolds, LandedGone, SnapshotsWhole, Taken
  <2>20. CASE UnlinkFails(r)
    BY <2>20, MovesRun DEF UnlinkFails, Rest, names, TypeOK, OwnFile, OwnApart,
       Before, Writing, WholeInHand, CheckHolds, LandedGone, SnapshotsWhole, Taken
  <2>21. CASE Kill(r)
    <3>1. /\ run[r].at \notin {"idle", "killed"}
          /\ run'[r].at = "killed"
          /\ \A q \in Runs \ {r} : run'[q] = run[q]
          /\ UNCHANGED <<work, parked, snapshot>>
      BY <2>21 DEF Kill, names, TypeOK, Rest
    <3>2. CheckHolds' /\ LandedGone' /\ SnapshotsWhole'
      BY <3>1 DEF CheckHolds, LandedGone, SnapshotsWhole, Taken
    <3>3. ASSUME NEW q \in Runs, q # r, run[q].own \in Files
          PROVE  file'[run[q].own] = file[run[q].own]
      <4>1. run[q].own # run[r].own
        BY <3>3 DEF OwnApart
      <4>2. UNCHANGED file \/ \E k : file' = [file EXCEPT ![run[r].own].rows = k]
        BY <2>21 DEF Kill
      <4> QED BY <3>3, <4>1, <4>2 DEF TypeOK
    <3>4. WholeInHand'
      <4> SUFFICES ASSUME NEW q \in Runs, run'[q].at \in {"written", "land"}
                   PROVE  /\ file'[run'[q].own].rows = LastRow
                          /\ file'[run'[q].own].whole = TRUE
        BY DEF WholeInHand
      <4>1. q # r /\ run'[q] = run[q]
        BY <3>1
      <4>2. run[q].own \in Files
        BY <4>1 DEF OwnFile, Writing
      <4> QED BY <3>3, <4>1, <4>2 DEF WholeInHand
    <3> QED BY <3>2, <3>4
  <2> QED BY <1>3, <2>1, <2>2, <2>3, <2>4, <2>5, <2>6, <2>7, <2>8, <2>9, <2>10, <2>11,
             <2>12, <2>13, <2>14, <2>15, <2>16, <2>17, <2>18, <2>19, <2>20, <2>21 DEF Step
<1> QED BY <1>1, <1>2, <1>3 DEF Next

\* The name a run is about to land on is free, as long as the name window is
\* closed too: who has its file at the lock name has the set to itself.
NameFree ==
  \A r \in Runs :
    run[r].at = "named" \/ (run[r].at \in Writing /\ work = run[r].own)
      => ~Taken(run[r].name)

LEMMA NameStep ==
  ~LockWindow /\ ~NameWindow /\ IInv /\ NameFree /\ [Next]_vars => NameFree'
<1> SUFFICES ASSUME ~LockWindow, ~NameWindow, IInv, NameFree, [Next]_vars
             PROVE  NameFree'
  OBVIOUS
<1>a. TypeOK /\ OwnFile /\ OwnApart /\ CheckHolds /\ LandedGone
  BY DEF IInv, CInv
<1> USE <1>a
<1>1. CASE UNCHANGED vars
  BY <1>1 DEF NameFree, Taken, vars
<1>2. CASE UserDelete
  BY <1>2 DEF UserDelete, OwnFile, Writing, TypeOK, NameFree, Taken
<1>3. ASSUME NEW r \in Runs, Step(r)
      PROVE  NameFree'
  <2>1. CASE Begin(r)
    BY <2>1 DEF Begin, Starts, Rest, names, TypeOK, OwnFile, OwnApart,
       Before, Writing, NameFree, Taken
  <2>2. CASE Recover(r)
    BY <2>2 DEF Recover, Starts, Rest, names, TypeOK, OwnFile, OwnApart,
       Before, Writing, NameFree, Taken
  <2>3. CASE ReadParkedLookup(r)
    BY <2>3 DEF ReadParkedLookup, names, TypeOK, OwnFile, OwnApart,
       Before, Writing, NameFree, Taken
  <2>4. CASE CheckName(r)
    BY <2>4 DEF CheckName, names, TypeOK, OwnFile, OwnApart,
       Before, Writing, NameFree, Taken
  <2>5. CASE Open(r)
    BY <2>5 DEF Open, Fresh, Holds, names, TypeOK, OwnFile, OwnApart,
       Before, Writing, NameFree, Taken
  <2>6. CASE OpenRefused(r)
    BY <2>6, MovesRun DEF OpenRefused, Rest, names, TypeOK, OwnFile, OwnApart,
       Before, Writing, NameFree, Taken
  <2>7. CASE Identify(r)
    BY <2>7, MovesRun DEF Identify, names, TypeOK, OwnFile, OwnApart,
       Before, Writing, NameFree, Taken
  <2>8. CASE HashRow(r)
    BY <2>8 DEF HashRow, names, TypeOK, OwnFile, OwnApart,
       Before, Writing, NameFree, Taken
  <2>9. CASE CloseWhole(r)
    BY <2>9, MovesRun DEF CloseWhole, names, TypeOK, OwnFile, OwnApart,
       Before, Writing, NameFree, Taken
  <2>10. CASE Stop(r)
    BY <2>10, MovesRun DEF Stop, names, TypeOK, OwnFile, OwnApart,
       Before, Writing, NameFree, Taken
  <2>11. CASE Fail(r)
    BY <2>11, MovesRun DEF Fail, names, TypeOK, OwnFile, OwnApart,
       Before, Writing, NameFree, Taken
  <2>12. CASE CheckOwn(r)
    BY <2>12, MovesRun DEF CheckOwn, names, TypeOK, OwnFile, OwnApart,
       Before, Writing, NameFree, Taken
  <2>13. CASE StatFails(r)
    BY <2>13, MovesRun DEF StatFails, names, TypeOK, OwnFile, OwnApart,
       Before, Writing, NameFree, Taken
  <2>14. CASE Land(r)
    BY <2>14, MovesRun DEF Land, CheckHolds, names, TypeOK, OwnFile, OwnApart,
       Before, Writing, NameFree, Taken
  <2>15. CASE Park(r)
    BY <2>15, MovesRun DEF Park, names, TypeOK, OwnFile, OwnApart,
       Before, Writing, NameFree, Taken
  <2>16. CASE RenameFails(r)
    BY <2>16, MovesRun DEF RenameFails, names, TypeOK, OwnFile, OwnApart,
       Before, Writing, NameFree, Taken
  <2>17. CASE Unpark(r)
    BY <2>17, MovesRun DEF Unpark, Rest, names, TypeOK, OwnFile, OwnApart,
       Before, Writing, NameFree, Taken
  <2>18. CASE Release(r)
    BY <2>18, MovesRun DEF Release, Rest, names, TypeOK, OwnFile, OwnApart,
       Before, Writing, NameFree, Taken
  <2>19. CASE Unlink(r)
    BY <2>19, MovesRun DEF Unlink, Rest, names, TypeOK, OwnFile, OwnApart,
       Before, Writing, NameFree, Taken
  <2>20. CASE UnlinkFails(r)
    BY <2>20, MovesRun DEF UnlinkFails, Rest, names, TypeOK, OwnFile, OwnApart,
       Before, Writing, NameFree, Taken
  <2>21. CASE Kill(r)
    BY <2>21 DEF Kill, Rest, names, TypeOK, OwnFile, OwnApart,
       Before, Writing, NameFree, Taken
  <2> QED BY <1>3, <2>1, <2>2, <2>3, <2>4, <2>5, <2>6, <2>7, <2>8, <2>9, <2>10, <2>11,
             <2>12, <2>13, <2>14, <2>15, <2>16, <2>17, <2>18, <2>19, <2>20, <2>21 DEF Step
<1> QED BY <1>1, <1>2, <1>3 DEF Next

-----------------------------------------------------------------------------
(***************************************************************************)
(* Theorems                                                                *)
(***************************************************************************)

\* The variables keep their types, whoever acts in whose window.
THEOREM TypeCorrect == Spec => []TypeOK
<1>1. CInv /\ [Next]_vars => CInv'
  BY CInvStep
<1>2. CInv => TypeOK
  BY DEF CInv
<1> QED BY InitInv, <1>1, <1>2, PTL DEF Spec

LEMMA IInvAlways == ASSUME ~LockWindow PROVE Spec => []IInv
<1>1. IInv /\ [Next]_vars => IInv'
  BY IInvStep
<1> QED BY IInitInv, <1>1, PTL DEF Spec

\* What stands under a snapshot's name is a whole pass of the run that minted
\* the name, for any number of runs, resumes and deletions of a live run's
\* file, as long as none hits the window between a check and its rename.
THEOREM LandedWhole == ASSUME ~LockWindow PROVE Spec => []SnapshotsWhole
<1>1. IInv => SnapshotsWhole
  BY DEF IInv
<1> QED BY IInvAlways, <1>1, PTL

\* No run lands, parks or removes another run's file.
THEOREM OwnTaken == ASSUME ~LockWindow PROVE Spec => OnlyOwnTaken
<1> DEFINE Own == \A r \in Runs :
             Land(r) \/ Park(r) \/ (run[r].at = "unlink" /\ Unlink(r))
               => work \in {run[r].own, NoFile}
<1>1. IInv => Own
  BY DEF IInv, CheckHolds, Land, Park, Moves
<1>2. Spec => [][Own]_vars
  BY IInvAlways, <1>1, PTL
<1> QED BY <1>2 DEF OnlyOwnTaken

\* Every end of a run but a kill or a failed removal takes its file from the
\* lock name.
THEOREM LockReleased == ASSUME ~LockWindow PROVE Spec => EndsReleased
<1> DEFINE Released == \A r \in Runs :
             run[r].own # NoFile /\ run'[r].at = "idle" /\ work' = run[r].own
               => UnlinkFails(r)
<1>1. IInv /\ [Next]_vars => [Released]_vars
  <2> SUFFICES ASSUME IInv, [Next]_vars, NEW q \in Runs, run[q].own # NoFile,
                      run'[q].at = "idle", work' = run[q].own
               PROVE  UnlinkFails(q)
    OBVIOUS
  <2>a. TypeOK /\ OwnFile /\ LandedGone
    BY DEF IInv, CInv
  <2>1. run[q].at \notin Before
    BY <2>a DEF OwnFile
  <2>2. PICK r \in Runs : Step(r)
    BY <2>1 DEF Next, UserDelete, vars, Before
  <2>3. q = r
    BY <2>a, <2>1, <2>2, OthersStay DEF Before
  <2>4. OpenRefused(r) \/ Unpark(r) \/ Release(r) \/ Unlink(r) \/ UnlinkFails(r)
    BY <2>a, <2>1, <2>2, <2>3, EndingSteps DEF Before
  <2>5. ~OpenRefused(r)
    BY <2>1, <2>3 DEF OpenRefused, Moves, Before
  <2>6. ~Unpark(r)
    BY <2>a, <2>3 DEF Unpark, Moves, LandedGone
  <2>7. ~Release(r)
    <3>1. run[r].at # "idle"
      BY <2>1, <2>3 DEF Before
    <3>2. ASSUME Moves(r, "failed", "unlink") PROVE FALSE
      BY <2>a, <2>3, <3>2, MovesRun DEF Writing
    <3> QED BY <2>3, <3>2 DEF Release, Owns, names
  <2>8. ~Unlink(r)
    BY <2>3, <2>a, WorkFileAssumption DEF Unlink
  <2> QED BY <2>3, <2>4, <2>5, <2>6, <2>7, <2>8
<1>2. Spec => [][Released]_vars
  BY IInvAlways, <1>1, PTL DEF Spec
<1> QED BY <1>2 DEF EndsReleased

\* No snapshot that has landed is overwritten, as long as nothing lands between
\* another run's look at a name and its open.
THEOREM LandedKept == ASSUME ~LockWindow, ~NameWindow PROVE Spec => LandedStays
<1> DEFINE Free == \A r \in Runs : Land(r) => ~Taken(run[r].name)
<1>1. Init => NameFree
  BY DEF Init, NameFree, Rest, Writing
<1>2. IInv /\ NameFree /\ [Next]_vars => NameFree'
  BY NameStep
<1>3. IInv /\ NameFree => Free
  BY DEF IInv, NameFree, CheckHolds, Land, Moves, Writing
<1>4. Spec => [][Free]_vars
  BY IInvAlways, <1>1, <1>2, <1>3, PTL DEF Spec
<1> QED BY <1>4 DEF LandedStays

-----------------------------------------------------------------------------
(***************************************************************************)
(* What a snapshot is made of: the walk, over any disk.                    *)
(***************************************************************************)
HIDE WorkFileAssumption

\* A folder on the way to a path: below the member directory too, nearer to it,
\* and with no folder before it that isn't before the path.
LEMMA FoldersNest ==
  ASSUME NEW Tokens, NEW root \in Seq(Tokens), NEW p \in Seq(Tokens),
         NEW f \in FoldersBetween(root, p)
  PROVE  /\ f \in Seq(Tokens) /\ Len(f) < Len(p)
         /\ FoldersBetween(root, f) \subseteq FoldersBetween(root, p)
         /\ Slash \in Tokens /\ IsPrefix(Append(root, Slash), p) =>
              IsPrefix(Append(root, Slash), f)
<1>1. PICK i \in Len(root) + 2 .. Len(p) : p[i] = Slash /\ f = SubSeq(p, 1, i - 1)
  BY DEF FoldersBetween
<1>2. f \in Seq(Tokens) /\ Len(f) = i - 1 /\ \A j \in 1 .. i - 1 : f[j] = p[j]
  BY <1>1
<1>3. ASSUME NEW j \in Len(root) + 2 .. Len(f), f[j] = Slash
      PROVE  p[j] = Slash /\ SubSeq(f, 1, j - 1) = SubSeq(p, 1, j - 1)
  <2>1. j \in 1 .. i - 1 /\ i - 1 <= Len(p)
    BY <1>1, <1>2, <1>3
  <2>2. p[j] = Slash
    BY <1>2, <1>3, <2>1
  <2> DEFINE short == SubSeq(f, 1, j - 1)
             long == SubSeq(p, 1, j - 1)
  <2>3. /\ short \in Seq(Tokens) /\ Len(short) = j - 1
        /\ \A k \in 1 .. j - 1 : short[k] = f[k]
    BY <1>2, <2>1
  <2>4. /\ long \in Seq(Tokens) /\ Len(long) = j - 1
        /\ \A k \in 1 .. j - 1 : long[k] = p[k]
    BY <1>2, <2>1
  <2> HIDE DEF short, long
  <2>5. \A k \in 1 .. j - 1 : short[k] = long[k]
    BY <1>2, <2>1, <2>3, <2>4
  <2>6. short = long
    BY <2>3, <2>4, <2>5
  <2> QED
    BY <2>2, <2>6 DEF short, long
<1>4. FoldersBetween(root, f) \subseteq FoldersBetween(root, p)
  <2> SUFFICES ASSUME NEW g \in FoldersBetween(root, f)
               PROVE  g \in FoldersBetween(root, p)
    OBVIOUS
  <2>1. PICK j \in Len(root) + 2 .. Len(f) : f[j] = Slash /\ g = SubSeq(f, 1, j - 1)
    BY DEF FoldersBetween
  <2>2. j \in Len(root) + 2 .. Len(p)
    BY <1>1, <1>2, <2>1
  <2>3. p[j] = Slash /\ g = SubSeq(p, 1, j - 1)
    BY <1>3, <2>1
  <2> QED
    BY <2>2, <2>3 DEF FoldersBetween
<1>5. ASSUME Slash \in Tokens, IsPrefix(Append(root, Slash), p)
      PROVE  IsPrefix(Append(root, Slash), f)
  <2> DEFINE a == Append(root, Slash)
  <2>1. a \in Seq(Tokens) /\ Len(a) = Len(root) + 1
    BY <1>5
  <2> HIDE DEF a
  <2>2. SubSeq(f, 1, Len(a)) = SubSeq(p, 1, Len(a)) /\ Len(a) <= Len(f)
    BY <2>1, <1>1, <1>2
  <2> QED
    BY <1>5, <2>1, <2>2 DEF IsPrefix, a
<1> QED
  BY <1>1, <1>2, <1>4, <1>5

\* The least of a set of lengths.
LEMMA Least ==
  ASSUME NEW T, T \subseteq Nat, T # {}
  PROVE  \E x \in T : \A y \in T : x <= y
<1> DEFINE R == OpToRel(<, Nat)
<1>1. IsWellFoundedOn(R, Nat)
  BY NatLessThanWellFounded
<1>2. \A x, y \in Nat : <<y, x>> \in R <=> y < x
  BY DEF OpToRel
<1> HIDE DEF R
<1>3. PICK x \in T : \A y \in T : ~(<<y, x>> \in R)
  BY <1>1, WFMin
<1>4. ASSUME NEW y \in T PROVE x <= y
  <2>1. x \in Nat /\ y \in Nat /\ ~(y < x)
    BY <1>2, <1>3
  <2> QED
    BY <2>1
<1> QED
  BY <1>4

\* What the walk is told of a path, and whether it gets there from a root.
Seen(roots, disk, excludes, p) == Visit(roots, excludes, p, disk[p])
Reaches(roots, disk, excludes, root, p) ==
  /\ p \in Below(disk, root)
  /\ \A f \in FoldersBetween(root, p) :
       f \in DOMAIN disk => Descends(disk, f, Seen(roots, disk, excludes, f))

Spelled(roots, disk, Tokens) ==
  Slash \in Tokens /\ roots \subseteq Seq(Tokens) /\ DOMAIN disk \subseteq Seq(Tokens)

\* The lists of a walk that succeeds: what was told of the paths it reached.
LEMMA WalkLists ==
  ASSUME NEW Tokens, NEW roots, NEW disk, NEW excludes,
         IsDisk(roots, disk), Spelled(roots, disk, Tokens), NEW walk,
         walk = WalkDirs(disk, roots, excludes), "refused" \notin DOMAIN walk
  PROVE  LET told(p) == Seen(roots, disk, excludes, p)
             reached == {p \in DOMAIN disk :
                           \E root \in roots : Reaches(roots, disk, excludes, root, p)}
         IN  /\ walk.files = {p \in reached : told(p).kept /\ TypeOf(disk[p]) # Directory}
             /\ walk.excluded = {p \in reached : "excluded" \in told(p).told}
             /\ walk.errors = {p \in reached : "error" \in told(p).told}
             /\ \A p \in reached : "unrepresentable" \notin told(p).told
<1> DEFINE told(p) == Seen(roots, disk, excludes, p)
           Visits(root) ==
             [p \in Below(disk, root) |-> Visit(roots, excludes, p, disk[p])]
           Walked(root, visits) == [p \in Met(disk, visits, root) |-> visits[p]]
           walks == [root \in roots |-> Walked(root, Visits(root))]
           reached == {p \in DOMAIN disk :
                         \E root \in roots : Reaches(roots, disk, excludes, root, p)}
<1>1. walk = Gather(disk, walks) /\ DOMAIN walks = roots
  BY DEF WalkDirs
<1>2. ASSUME NEW root \in roots, NEW p
      PROVE  p \in DOMAIN walks[root] <=> Reaches(roots, disk, excludes, root, p)
  <2>1. DOMAIN walks[root] = Met(disk, Visits(root), root)
    OBVIOUS
  <2>2. p \in Below(disk, root) =>
          \A f \in FoldersBetween(root, p) :
             /\ f \in Below(disk, root) /\ f \in DOMAIN disk
             /\ Visits(root)[f] = told(f)
    <3> SUFFICES ASSUME p \in Below(disk, root), NEW f \in FoldersBetween(root, p)
                 PROVE  f \in Below(disk, root)
      BY DEF Seen, Below
    <3>1. f \in DOMAIN disk
      BY DEF IsDisk
    <3> QED
      BY <3>1, FoldersNest DEF Below, Spelled
  <2> QED
    BY <2>1, <2>2 DEF Met, Reaches
<1>3. ASSUME NEW root \in roots, NEW p \in DOMAIN walks[root]
      PROVE  p \in DOMAIN disk /\ walks[root][p] = told(p)
  BY <1>2 DEF Met, Below, Seen
<1> HIDE DEF walks
<1>4. LET among(as) == UNION {{p \in DOMAIN walks[root] : as \in walks[root][p].told} :
                                 root \in DOMAIN walks}
      IN  /\ walk.files =
               UNION {{p \in DOMAIN walks[root] : /\ walks[root][p].kept
                                                  /\ ResolveFileType(disk[p]) # Directory} :
                        root \in DOMAIN walks}
          /\ walk.excluded = among("excluded")
          /\ walk.errors = among("error")
          /\ among("unrepresentable") = {}
  BY <1>1 DEF Gather
<1>5. \A p : TypeOf(disk[p]) = ResolveFileType(disk[p])
  BY DEF TypeOf, ResolveFileType
<1>6. ASSUME NEW as
      PROVE  UNION {{p \in DOMAIN walks[root] : as \in walks[root][p].told} :
                      root \in roots}
               = {p \in reached : as \in told(p).told}
  <2> DEFINE of(root) == {p \in DOMAIN walks[root] : as \in walks[root][p].told}
             right == {p \in reached : as \in told(p).told}
  <2>1. ASSUME NEW p
        PROVE  p \in right <=> \E root \in roots : p \in of(root)
    BY <1>2, <1>3
  <2>2. ASSUME NEW p
        PROVE  p \in UNION {of(root) : root \in roots}
                 <=> \E root \in roots : p \in of(root)
    OBVIOUS
  <2> HIDE DEF of, right
  <2>3. UNION {of(root) : root \in roots} = right
    BY <2>1, <2>2
  <2> QED
    BY <2>3 DEF of, right
<1>7. UNION {{p \in DOMAIN walks[root] : /\ walks[root][p].kept
                                        /\ ResolveFileType(disk[p]) # Directory} :
               root \in roots}
        = {p \in reached : told(p).kept /\ TypeOf(disk[p]) # Directory}
  BY <1>2, <1>3, <1>5
<1>8. /\ walk.files = {p \in reached : told(p).kept /\ TypeOf(disk[p]) # Directory}
      /\ walk.excluded = {p \in reached : "excluded" \in told(p).told}
      /\ walk.errors = {p \in reached : "error" \in told(p).told}
      /\ {p \in reached : "unrepresentable" \in told(p).told} = {}
  BY <1>1, <1>4, <1>6, <1>7
<1> QED
  BY <1>8

\* The walk gets to every path behind no folder left out: the first folder on
\* the way it did not descend into would have been reached and left out itself.
LEMMA GetsThere ==
  ASSUME NEW Tokens, NEW roots, NEW disk, NEW excludes,
         IsDisk(roots, disk), Spelled(roots, disk, Tokens), NEW walk,
         walk = WalkDirs(disk, roots, excludes), "refused" \notin DOMAIN walk,
         NEW root \in roots, NEW p \in Below(disk, root),
         \A f \in FoldersBetween(root, p) :
            NameOf(f) # <<S3cabFolder>> /\ f \notin walk.excluded
  PROVE  Reaches(roots, disk, excludes, root, p)
<1> DEFINE told(q) == Seen(roots, disk, excludes, q)
           closed == {f \in FoldersBetween(root, p) : ~Descends(disk, f, told(f))}
<1> SUFFICES ASSUME closed # {} PROVE FALSE
  BY DEF Reaches
<1>1. root \in Seq(Tokens) /\ p \in Seq(Tokens) /\ \A f \in closed : Len(f) \in Nat
  <2>1. root \in Seq(Tokens) /\ p \in Seq(Tokens)
    BY DEF Spelled, Below
  <2>2. \A f \in FoldersBetween(root, p) : f \in Seq(Tokens)
    BY <2>1, FoldersNest
  <2> QED
    BY <2>1, <2>2
<1>2. PICK f \in closed : \A g \in closed : Len(f) <= Len(g)
  <2> DEFINE lengths == {Len(f) : f \in closed}
  <2>1. lengths \subseteq Nat /\ lengths # {}
    BY <1>1
  <2> HIDE DEF lengths
  <2>2. PICK n \in lengths : \A m \in lengths : n <= m
    BY <2>1, Least
  <2> USE DEF lengths
  <2>3. PICK f \in closed : n = Len(f)
    BY <2>2
  <2>4. \A g \in closed : Len(g) \in lengths
    OBVIOUS
  <2> HIDE DEF closed, lengths
  <2>5. \A g \in closed : Len(f) <= Len(g)
    BY <2>2, <2>3, <2>4
  <2> QED
    BY <2>5
<1>3. \A g \in FoldersBetween(root, f) : Descends(disk, g, told(g))
  <2> SUFFICES ASSUME NEW g \in FoldersBetween(root, f) PROVE g \notin closed
    BY <1>1, FoldersNest
  <2>1. f \in Seq(Tokens) /\ g \in Seq(Tokens) /\ Len(g) < Len(f)
    BY <1>1, FoldersNest
  <2>2. ~(Len(f) <= Len(g))
    BY <2>1
  <2> QED
    BY <1>2, <2>2
<1>4. f \in DOMAIN disk /\ TypeOf(disk[f]) = Directory /\ f \in Below(disk, root)
  <2>1. f \in DOMAIN disk /\ TypeOf(disk[f]) = Directory
    BY DEF IsDisk
  <2> QED
    BY <1>1, <2>1, FoldersNest DEF Below, Spelled
<1>5. Reaches(roots, disk, excludes, root, f)
  BY <1>3, <1>4 DEF Reaches
<1>6. "unrepresentable" \notin told(f).told /\ "excluded" \notin told(f).told
  BY <1>4, <1>5, WalkLists
<1>7. told(f).kept
  BY <1>4, <1>6 DEF Seen, Visit, Kept, Told, TypeOf, ResolveFileType, Directory, Vanished,
     Denied, Link, Other, Unknown
<1> QED
  BY <1>4, <1>7 DEF Descends, TypeOf, ResolveFileType

\* What is reached is in a list, holds nothing, or is a link into the backup.
LEMMA ToldOf ==
  ASSUME NEW Tokens, NEW roots, NEW disk, NEW excludes,
         IsDisk(roots, disk), Spelled(roots, disk, Tokens), NEW walk,
         walk = WalkDirs(disk, roots, excludes), "refused" \notin DOMAIN walk,
         NEW root \in roots, NEW p \in Below(disk, root),
         Reaches(roots, disk, excludes, root, p)
  PROVE  \/ p \in walk.files \cup walk.excluded \cup walk.errors
         \/ HoldsNothing(p, disk[p])
         \/ LET link == disk[p].link
            IN  /\ TypeOf(disk[p]) = Link /\ link.read = Resolved
                /\ link.stat \in {File, Directory}
                /\ InBackup(roots, link.real, link.stat = Directory)
<1> DEFINE told == Seen(roots, disk, excludes, p)
<1>1. /\ told.kept /\ TypeOf(disk[p]) # Directory => p \in walk.files
      /\ "excluded" \in told.told => p \in walk.excluded
      /\ "error" \in told.told => p \in walk.errors
      /\ "unrepresentable" \notin told.told
  BY WalkLists DEF Below
<1>2. TypeOf(disk[p]) \in {File, Directory, Link, Other, Unknown, Vanished, Denied}
  BY DEF IsDisk, Below
<1>3. TypeOf(disk[p]) = ResolveFileType(disk[p])
  BY DEF TypeOf, ResolveFileType
<1>4. CASE ~disk[p].unicode
  BY <1>1, <1>4 DEF Seen, Visit, Told
<1>5. CASE disk[p].unicode /\ TypeOf(disk[p]) \in {Other, Unknown, Vanished, Directory}
  BY <1>5 DEF HoldsNothing
<1>6. CASE disk[p].unicode /\ TypeOf(disk[p]) = Denied
  BY <1>1, <1>3, <1>6 DEF Seen, Visit, Told, RecordUninspectable, Denied, Vanished
<1>7. CASE disk[p].unicode /\ TypeOf(disk[p]) = File
  BY <1>1, <1>3, <1>7 DEF Seen, Visit, Told, Kept, Denied, Vanished, File, Link, Other,
     Unknown, Directory
<1>8. CASE disk[p].unicode /\ TypeOf(disk[p]) = Link
  <2>1. told = CheckLink(roots, excludes, p, disk[p].link)
    BY <1>3, <1>8 DEF Seen, Visit, Denied, Vanished, Link
  <2>2. /\ disk[p].link.read \in {Resolved, Vanished, Denied}
        /\ disk[p].link.stat \in {File, Directory, Other, Broken, Denied}
    BY <1>8 DEF IsDisk, Below
  <2>3. CASE disk[p].link.read # Resolved
    <3>1. CASE disk[p].link.read = Vanished
      BY <1>8, <3>1 DEF HoldsNothing
    <3>2. CASE disk[p].link.read = Denied
      <4>1. told = Told("excluded") \/ told = Told("error")
        BY <2>1, <3>2 DEF CheckLink, RecordUninspectable, Vanished, Denied
      <4> QED
        BY <1>1, <4>1 DEF Told
    <3> QED
      BY <2>2, <2>3, <3>1, <3>2
  <2>4. CASE /\ disk[p].link.read = Resolved
             /\ disk[p].link.stat \in {Broken, Other}
    BY <1>8, <2>4 DEF HoldsNothing
  <2>5. CASE /\ disk[p].link.read = Resolved
             /\ disk[p].link.stat \in {File, Directory, Denied}
    <3>1. \/ told = Told("excluded") \/ told = Told("error")
          \/ /\ disk[p].link.stat \in {File, Directory}
             /\ InBackup(roots, disk[p].link.real, disk[p].link.stat = Directory)
      <4> HIDE DEF told
      <4> QED
        BY <2>1, <2>5 DEF CheckLink, Resolved, Vanished, Denied, File, Directory,
           Broken, Other
    <3> QED
      BY <1>1, <1>8, <2>5, <3>1 DEF Told
  <2> QED
    BY <2>2, <2>3, <2>4, <2>5
<1> QED
  BY <1>2, <1>4, <1>5, <1>6, <1>7, <1>8

\* Nothing below a member directory is left out unsaid, on any disk that holds
\* still: each entry outside what was left out by name is a file, an excluded
\* entry or an error, holds nothing, or leads to such an entry.
THEOREM WalkAlwaysAccounts ==
  ASSUME NEW Tokens, NEW dirs, NEW disk, NEW excludes,
         IsDisk({d.real : d \in dirs}, disk),
         Spelled({d.real : d \in dirs}, disk, Tokens),
         "refused" \notin DOMAIN WalkSet(dirs, disk, excludes)
  PROVE  AccountsForAll(dirs, disk, excludes, WalkSet(dirs, disk, excludes))
<1> DEFINE roots == {d.real : d \in dirs}
           walk == WalkSet(dirs, disk, excludes)
           told == walk.files \cup walk.excluded \cup walk.errors
           Free(root, p) == \A f \in FoldersBetween(root, p) :
                              NameOf(f) # <<S3cabFolder>> /\ f \notin walk.excluded
           Entered(p) == \E root \in roots : p \in Below(disk, root) /\ Free(root, p)
           Saved(p, isDir) ==
             \/ p \in roots
             \/ \E root \in roots : \E f \in FoldersBetween(root, p) \cup {p} :
                  p \in Below(disk, root) /\ f \in walk.excluded
             \/ p \in told
             \/ isDir /\ Entered(p) /\ NameOf(p) # <<S3cabFolder>>
<1>1. walk = WalkDirs(disk, roots, excludes)
  BY DEF WalkSet
<1> HIDE DEF roots, walk
<1>2. ASSUME NEW root \in roots, NEW p \in Below(disk, root), Free(root, p)
      PROVE  \/ p \in told
             \/ HoldsNothing(p, disk[p])
             \/ LET link == disk[p].link
                IN  /\ TypeOf(disk[p]) = Link /\ link.read = Resolved
                    /\ link.stat \in {File, Directory}
                    /\ InBackup(roots, link.real, link.stat = Directory)
  <2>1. /\ IsDisk(roots, disk) /\ Spelled(roots, disk, Tokens)
        /\ walk = WalkDirs(disk, roots, excludes) /\ "refused" \notin DOMAIN walk
    BY <1>1 DEF roots, walk
  <2>2. Reaches(roots, disk, excludes, root, p)
    BY <1>2, <2>1, GetsThere
  <2> QED
    BY <2>1, <2>2, ToldOf
<1>3. ASSUME NEW p \in DOMAIN disk, NEW root \in roots, p \in Below(disk, root),
             Free(root, p)
      PROVE  \/ p \in told
             \/ HoldsNothing(p, disk[p])
             \/ /\ TypeOf(disk[p]) = Link
                /\ Saved(disk[p].link.real, disk[p].link.stat = Directory)
  <2> DEFINE link == disk[p].link
             real == link.real
  <2> SUFFICES ASSUME TypeOf(disk[p]) = Link, link.read = Resolved,
                      link.stat \in {File, Directory},
                      InBackup(roots, real, link.stat = Directory)
               PROVE  Saved(real, link.stat = Directory)
    BY <1>2, <1>3
  <2> SUFFICES ASSUME real \notin roots
               PROVE  Saved(real, link.stat = Directory)
    OBVIOUS
  <2>1. PICK above \in roots :
          /\ IsPrefix(Append(above, Slash), real)
          /\ \A f \in FoldersBetween(above, real) : NameOf(f) # <<S3cabFolder>>
          /\ link.stat = Directory => NameOf(real) # <<S3cabFolder>>
    BY DEF InBackup
  <2>2. real \in Below(disk, above) /\ TypeOf(disk[real]) = link.stat
    BY <2>1 DEF IsDisk, Below, roots
  <2>3. CASE \E f \in FoldersBetween(above, real) : f \in walk.excluded
    BY <2>2, <2>3
  <2>4. CASE Free(above, real)
    <3>1. CASE link.stat = Directory
      BY <2>1, <2>2, <2>4, <3>1
    <3>2. CASE link.stat = File
      <4>1. TypeOf(disk[real]) = File
        BY <2>2, <3>2
      <4>2. real \in told
        BY <1>2, <2>2, <2>4, <4>1 DEF HoldsNothing, File, Directory, Vanished, Other,
           Unknown, Link
      <4> QED
        BY <4>2
    <3> QED
      BY <3>1, <3>2
  <2> QED
    BY <2>1, <2>3, <2>4
<1> QED
  BY <1>3 DEF AccountsForAll, roots, walk

\* What is a file is in no other list, and what is excluded is no error: all the
\* roots are told the same of a path.
THEOREM WalkListsAlwaysApart ==
  ASSUME NEW Tokens, NEW dirs, NEW disk, NEW excludes,
         IsDisk({d.real : d \in dirs}, disk),
         Spelled({d.real : d \in dirs}, disk, Tokens),
         "refused" \notin DOMAIN WalkSet(dirs, disk, excludes)
  PROVE  ListsApart(WalkSet(dirs, disk, excludes))
<1> DEFINE roots == {d.real : d \in dirs}
           walk == WalkSet(dirs, disk, excludes)
           told(p) == Seen(roots, disk, excludes, p)
<1>1. walk = WalkDirs(disk, roots, excludes)
  BY DEF WalkSet
<1>2. \A p : told(p) = Kept \/ told(p) = Nowhere \/ \E as : told(p) = Told(as)
  <2> SUFFICES ASSUME NEW p
               PROVE  told(p) = Kept \/ told(p) = Nowhere \/ \E as : told(p) = Told(as)
    OBVIOUS
  <2>1. \E as : RecordUninspectable(excludes, p) = Told(as)
    BY DEF RecordUninspectable
  <2>2. ASSUME NEW link
        PROVE  LET check == CheckLink(roots, excludes, p, link)
               IN  check = Nowhere \/ \E as : check = Told(as)
    <3> HIDE DEF roots
    <3> QED
      BY <2>1 DEF CheckLink
  <2> HIDE DEF roots
  <2> QED
    BY <2>1, <2>2 DEF Seen, Visit
<1>3. ASSUME NEW p
      PROVE  /\ told(p).kept => told(p).told = {}
             /\ ~("excluded" \in told(p).told /\ "error" \in told(p).told)
  <2> HIDE DEF told
  <2>1. CASE told(p) = Kept \/ told(p) = Nowhere
    BY <2>1 DEF Kept, Nowhere
  <2>2. CASE \E as : told(p) = Told(as)
    <3>1. PICK as : told(p) = Told(as)
      BY <2>2
    <3>2. ~told(p).kept /\ told(p).told = {as}
      BY <3>1 DEF Told
    <3> QED
      BY <3>2
  <2> QED
    BY <1>2, <2>1, <2>2
<1>4. /\ \A p \in walk.files : told(p).kept
      /\ \A p \in walk.excluded : "excluded" \in told(p).told
      /\ \A p \in walk.errors : "error" \in told(p).told
  <2> HIDE DEF roots, walk
  <2>1. /\ IsDisk(roots, disk) /\ Spelled(roots, disk, Tokens)
        /\ walk = WalkDirs(disk, roots, excludes) /\ "refused" \notin DOMAIN walk
    BY <1>1 DEF roots, walk
  <2> QED
    BY <2>1, WalkLists
<1> HIDE DEF walk, told
<1> QED
  BY <1>3, <1>4 DEF ListsApart, walk

-----------------------------------------------------------------------------
(***************************************************************************)
(* The instants of a snapshot's text                                       *)
(***************************************************************************)

\* An instant as its text has it: any year, and fields of any value.
IsFields(t) ==
  t \in [year : Nat, month : Nat, day : Nat, hour : Nat, minute : Nat, second : Nat]

\* A quotient moves on exactly at the multiples.
LEMMA QuotientMoves ==
  ASSUME NEW y \in Nat
  PROVE  /\ y \div 4 - (y - 1) \div 4 = IF y % 4 = 0 THEN 1 ELSE 0
         /\ y \div 100 - (y - 1) \div 100 = IF y % 100 = 0 THEN 1 ELSE 0
         /\ y \div 400 - (y - 1) \div 400 = IF y % 400 = 0 THEN 1 ELSE 0
         /\ y % 400 = 0 => y % 100 = 0
         /\ y % 100 = 0 => y % 4 = 0
OBVIOUS

\* From a day to the first of the next month it is what the table of days says.
LEMMA MonthsMeet ==
  ASSUME NEW y \in Nat, NEW m \in 1 .. 12, NEW t, IsFields(t), t.year = y, t.month = m
  PROVE  LET next == IF t.month = 12 THEN [t EXCEPT !.year = @ + 1, !.month = 1, !.day = 1]
                     ELSE [t EXCEPT !.month = @ + 1, !.day = 1]
         IN  DayNumber(next) - DayNumber(t) = DaysOf(m, IsLeap(y)) + 1 - t.day
<1> DEFINE next == IF t.month = 12 THEN [t EXCEPT !.year = @ + 1, !.month = 1, !.day = 1]
                   ELSE [t EXCEPT !.month = @ + 1, !.day = 1]
           years(n) == 365 * n + n \div 4 - n \div 100 + n \div 400
           months(k) == (153 * ((k + 9) % 12) + 2) \div 5
<1>1. /\ next.day = 1
      /\ next.month = IF m = 12 THEN 1 ELSE m + 1
      /\ next.year = IF m = 12 THEN y + 1 ELSE y
  BY DEF IsFields
<1>2. DayNumber(next) - DayNumber(t) =
        years(IF next.month <= 2 THEN next.year - 1 ELSE next.year) + months(next.month) + 1
        - (years(IF m <= 2 THEN y - 1 ELSE y) + months(m) + t.day)
  <2> HIDE DEF next
  <2> QED BY <1>1 DEF DayNumber, IsFields
<1>3. years(y) - years(y - 1) = 365 + (IF IsLeap(y) THEN 1 ELSE 0)
  BY QuotientMoves DEF IsLeap
<1>4. /\ years(y) \in Int /\ years(y - 1) \in Int /\ years(y + 1 - 1) = years(y)
  OBVIOUS
<1>5. /\ months(1) = 306 /\ months(2) = 337 /\ months(3) = 0 /\ months(4) = 31
      /\ months(5) = 61 /\ months(6) = 92 /\ months(7) = 122 /\ months(8) = 153
      /\ months(9) = 184 /\ months(10) = 214 /\ months(11) = 245 /\ months(12) = 275
  OBVIOUS
<1> HIDE DEF next, years, months
<1>6. t.day \in Int
  BY DEF IsFields
<1> QED
  BY <1>1, <1>2, <1>3, <1>4, <1>5, <1>6 DEF DaysOf, next

\* What the reader takes for an instant (SnapshotFormat, snapshot-file.mjs) is one
\* in every year to come, leap centuries included: the day and the time are
\* counted on no further than the calendar goes.
THEOREM InstantsAlwaysReal ==
  ASSUME NEW t, IsFields(t)
  PROVE  IsInstant(t) <=> CountsNothingOver(t)
<1> DEFINE next == IF t.month = 12 THEN [t EXCEPT !.year = @ + 1, !.month = 1, !.day = 1]
                   ELSE [t EXCEPT !.month = @ + 1, !.day = 1]
<1>1. CASE t.month \in 1 .. 12
  <2>1. DayNumber(next) - DayNumber(t) = DaysOf(t.month, IsLeap(t.year)) + 1 - t.day
    BY <1>1, MonthsMeet DEF IsFields
  <2>2. DayNumber(next) \in Int /\ DayNumber(t) \in Int
    BY DEF DayNumber, IsFields
  <2>3. DaysOf(t.month, IsLeap(t.year)) \in Int
    BY DEF DaysOf
  <2>4. DayNumber(t) < DayNumber(next) <=> t.day <= DaysOf(t.month, IsLeap(t.year))
    <3> HIDE DEF next
    <3> QED BY <2>1, <2>2, <2>3 DEF IsFields
  <2>5. /\ t.hour * 3600 + t.minute * 60 + t.second < 86400
        /\ t.minute * 60 + t.second < 3600
        /\ t.second < 60
        <=> t.hour <= 23 /\ t.minute <= 59 /\ t.second <= 59
    BY DEF IsFields
  <2> QED
    BY <1>1, <2>4, <2>5 DEF IsInstant, CountsNothingOver
<1>2. CASE t.month \notin 1 .. 12
  BY <1>2 DEF IsInstant, CountsNothingOver
<1> QED
  BY <1>1, <1>2

-----------------------------------------------------------------------------
(***************************************************************************)
(* Two snapshots compared                                                  *)
(***************************************************************************)

\* What the pairing has come to after the first n rows of the newer snapshot,
DiffStep(previous, current, errors, state, n) ==
  IF current[n].path \in PathsOf(previous) THEN state
  ELSE Classify(previous, errors, state, current[n])

\* and all its stages.
IsDiff(previous, current, errors, stages, last) ==
  stages = [n \in 0 .. last |->
              IF n = 0 THEN Settled(previous, current)
              ELSE DiffStep(previous, current, errors, stages[n - 1], n)]

\* A list of stages goes on by one more.
LEMMA DiffGoesOn ==
  ASSUME NEW previous, NEW current, NEW errors, NEW last \in Nat, NEW f,
         IsDiff(previous, current, errors, f, last)
  PROVE  \E g : IsDiff(previous, current, errors, g, last + 1)
<1> DEFINE After(s, n) == DiffStep(previous, current, errors, s, n)
           start == Settled(previous, current)
           g == [n \in 0 .. last + 1 |-> IF n = last + 1 THEN After(f[last], n) ELSE f[n]]
<1>1. f = [n \in 0 .. last |-> IF n = 0 THEN start ELSE After(f[n - 1], n)]
  BY DEF IsDiff
<1> HIDE DEF After, start
<1>2. ASSUME NEW n \in 0 .. last + 1
      PROVE  g[n] = IF n = 0 THEN start ELSE After(g[n - 1], n)
  <2>1. CASE n = last + 1
    <3>1. g[n - 1] = f[last] /\ n # 0
      BY <2>1
    <3> QED
      BY <2>1, <3>1
  <2>2. CASE n # last + 1
    <3>1. n \in 0 .. last /\ (n # 0 => n - 1 \in 0 .. last + 1 /\ n - 1 # last + 1)
      BY <2>2
    <3>2. g[n] = f[n] /\ (n # 0 => g[n - 1] = f[n - 1])
      BY <2>2, <3>1
    <3> QED
      BY <1>1, <3>1, <3>2
  <2> QED
    BY <2>1, <2>2
<1>3. g = [n \in 0 .. last + 1 |-> g[n]]
  OBVIOUS
<1> HIDE DEF g
<1>4. g = [n \in 0 .. last + 1 |-> IF n = 0 THEN start ELSE After(g[n - 1], n)]
  BY <1>2, <1>3
<1> QED
  BY <1>4 DEF IsDiff, After, start

\* So there are stages for any number of rows.
LEMMA DiffExists ==
  ASSUME NEW previous, NEW current, NEW errors, NEW last \in Nat
  PROVE  \E f : IsDiff(previous, current, errors, f, last)
<1> DEFINE T == {n \in Nat : ~\E f : IsDiff(previous, current, errors, f, n)}
<1> SUFFICES ASSUME T # {} PROVE FALSE
  OBVIOUS
<1>1. PICK n \in T : \A k \in T : n <= k
  <2>1. T \subseteq Nat
    OBVIOUS
  <2> HIDE DEF T
  <2> QED
    BY <2>1, Least
<1>2. CASE n = 0
  <2>1. IsDiff(previous, current, errors, [k \in 0 .. 0 |-> Settled(previous, current)], 0)
    BY DEF IsDiff
  <2> QED
    BY <1>2, <2>1
<1>3. CASE n # 0
  <2>1. n - 1 \in Nat /\ n - 1 \notin T /\ (n - 1) + 1 = n
    BY <1>1, <1>3
  <2>2. PICK f : IsDiff(previous, current, errors, f, n - 1)
    BY <2>1
  <2>3. \E g : IsDiff(previous, current, errors, g, (n - 1) + 1)
    <3> HIDE DEF T
    <3> QED
      BY <2>1, <2>2, DiffGoesOn
  <2> QED
    BY <2>1, <2>3
<1> QED
  BY <1>2, <1>3

LEMMA DiffIsLast ==
  ASSUME NEW previous, NEW current, NEW errors, Len(current) \in Nat
  PROVE  \E f : /\ IsDiff(previous, current, errors, f, Len(current))
                /\ Diff(previous, current, errors) = f[Len(current)]
<1> DEFINE f == CHOOSE g : IsDiff(previous, current, errors, g, Len(current))
<1>1. IsDiff(previous, current, errors, f, Len(current))
  BY DiffExists
<1>2. Diff(previous, current, errors) = f[Len(current)]
  BY DEF Diff, IsDiff, DiffStep
<1> QED
  BY <1>1, <1>2

\* A path's hash is that of its one row.
LEMMA HashIsOfRow ==
  ASSUME NEW s, IsSnapshot(s), NEW i \in DOMAIN s.entries
  PROVE  HashAt(s.entries, s.entries[i].path) = s.entries[i].hash
<1> DEFINE row == CHOOSE r \in RowsIn(s.entries) : r.path = s.entries[i].path
<1>1. row \in RowsIn(s.entries) /\ row.path = s.entries[i].path
  BY DEF RowsIn
<1>2. PICK k \in DOMAIN s.entries : row = s.entries[k]
  BY <1>1 DEF RowsIn
<1>3. k = i
  BY <1>1, <1>2 DEF IsSnapshot
<1> QED
  BY <1>2, <1>3 DEF HashAt

LEMMA RowsHavePlaces ==
  ASSUME NEW s, IsSnapshot(s)
  PROVE  /\ Len(s.entries) \in Nat /\ DOMAIN s.entries = 1 .. Len(s.entries)
         /\ \A p : p \in PathsOf(s.entries) <=> \E i \in DOMAIN s.entries : s.entries[i].path = p
BY DEF IsSnapshot, PathsOf, RowsIn

\* The paths of the newer snapshot alone, of its first n rows, and those of the
\* older one alone.
AloneOf(since, until, n) ==
  {until.entries[i].path :
     i \in {k \in 1 .. n : until.entries[k].path \notin PathsOf(since.entries)}}
GoneOf(since, until) == PathsOf(since.entries) \ PathsOf(until.entries)

\* The parts of a stage, and what a move and an addition make of them.
Stage(added, moved, deleted, modified) ==
  [added |-> added, moved |-> moved, deleted |-> deleted, modified |-> modified]

LEMMA StageParts ==
  ASSUME NEW a, NEW m, NEW d, NEW c
  PROVE  /\ Stage(a, m, d, c).added = a /\ Stage(a, m, d, c).moved = m
         /\ Stage(a, m, d, c).deleted = d /\ Stage(a, m, d, c).modified = c
BY DEF Stage

Adds(s, new) == [s EXCEPT !.added = @ \cup {new}]
Pairs(s, p, move) == [s EXCEPT !.deleted = @ \ {p}, !.moved = @ \cup {move}]
IsStage(s, kept) == s = Stage(s.added, s.moved, s.deleted, kept)

LEMMA StageAdds ==
  ASSUME NEW s, NEW kept, IsStage(s, kept), NEW new, NEW t, t = Adds(s, new)
  PROVE  /\ IsStage(t, kept)
         /\ t.added = s.added \cup {new} /\ t.moved = s.moved /\ t.deleted = s.deleted
<1>1. t = Stage(s.added \cup {new}, s.moved, s.deleted, kept)
  BY DEF Stage, Adds, IsStage
<1>2. t.added = s.added \cup {new} /\ t.moved = s.moved /\ t.deleted = s.deleted
  BY <1>1, StageParts
<1> QED
  BY <1>1, <1>2 DEF IsStage

LEMMA StageMoves ==
  ASSUME NEW s, NEW kept, IsStage(s, kept), NEW p, NEW move, NEW t, t = Pairs(s, p, move)
  PROVE  /\ IsStage(t, kept)
         /\ t.added = s.added /\ t.moved = s.moved \cup {move} /\ t.deleted = s.deleted \ {p}
<1> DEFINE u == [s EXCEPT !.deleted = @ \ {p}]
<1>1. Pairs(s, p, move) = [u EXCEPT !.moved = s.moved \cup {move}]
  BY Zenon DEF Pairs
<1>2. u = Stage(s.added, s.moved, s.deleted \ {p}, kept)
  BY DEF Stage, IsStage
<1>3. t = Stage(s.added, s.moved \cup {move}, s.deleted \ {p}, kept)
  <2> HIDE DEF u
  <2> QED
    BY <1>1, <1>2 DEF Stage
<1>4. t.added = s.added /\ t.moved = s.moved \cup {move} /\ t.deleted = s.deleted \ {p}
  BY <1>3, StageParts
<1> QED
  BY <1>3, <1>4 DEF IsStage

\* Each path alone is added or moved to, in one place,
NewTold(since, until, s, n) ==
  /\ \A a \in s.added : a.path \in AloneOf(since, until, n)
  /\ \A m \in s.moved : m.to \in AloneOf(since, until, n)
  /\ \A p \in AloneOf(since, until, n) :
       (\E a \in s.added : a.path = p) \/ (\E m \in s.moved : m.to = p)
  /\ \A a, b \in s.added : a.path = b.path => a = b
  /\ \A m, k \in s.moved : m.to = k.to => m = k
  /\ \A a \in s.added, m \in s.moved : a.path # m.to

\* each path gone is deleted or moved from, in one place,
GoneTold(since, until, s) ==
  /\ s.deleted \subseteq GoneOf(since, until)
  /\ \A m \in s.moved : m.path \in GoneOf(since, until) \ s.deleted
  /\ \A p \in GoneOf(since, until) : p \in s.deleted \/ \E m \in s.moved : m.path = p
  /\ \A m, k \in s.moved : m.path = k.path => m = k

\* moves are of a content, and nothing that could be one is an addition,
MovesTold(since, until, s) ==
  /\ \A m \in s.moved : /\ m.to \notin since.errors
                         /\ HashAt(since.entries, m.path) = HashAt(until.entries, m.to)
  /\ \A a \in s.added : a.path \notin since.errors =>
       \A p \in s.deleted : HashAt(since.entries, p) # HashAt(until.entries, a.path)

\* and an addition names where its content was.
CopiesTold(since, until, s) ==
  \A a \in s.added :
    LET held == {p \in PathsOf(since.entries) :
                   HashAt(since.entries, p) = HashAt(until.entries, a.path)}
    IN  /\ a.duplicates = {} <=> held = {}
        /\ a.duplicates \subseteq held \cup {m.to : m \in s.moved}

DiffInv(since, until, s, n) ==
  /\ IsStage(s, Settled(since.entries, until.entries).modified)
  /\ NewTold(since, until, s, n)
  /\ GoneTold(since, until, s)
  /\ MovesTold(since, until, s)
  /\ CopiesTold(since, until, s)

LEMMA DiffBegins ==
  ASSUME NEW since, NEW until, IsSnapshot(since), IsSnapshot(until)
  PROVE  DiffInv(since, until, Settled(since.entries, until.entries), 0)
<1> DEFINE s == Settled(since.entries, until.entries)
<1>1. s.added = {} /\ s.moved = {} /\ s.deleted = GoneOf(since, until)
  BY DEF Settled, GoneOf
<1>2. s = Stage(s.added, s.moved, s.deleted, s.modified)
  BY DEF Settled, Stage
<1>3. AloneOf(since, until, 0) = {}
  BY DEF AloneOf
<1> HIDE DEF s
<1> QED
  BY <1>1, <1>2, <1>3 DEF DiffInv, NewTold, GoneTold, MovesTold, CopiesTold, IsStage, s

\* The source of a move is one of the candidates.
LEMMA SourceIsOne ==
  ASSUME NEW previous, NEW sources, NEW path, sources \subseteq Nat, sources # {}
  PROVE  \E i \in sources : PickSource(previous, sources, path) = previous[i].path
<1> DEFINE sameBase == {i \in sources : previous[i].path.base = path.base}
           sameDir == {i \in sources : previous[i].path.dir = path.dir}
           candidates == IF sameBase # {} THEN sameBase
                         ELSE IF sameDir # {} THEN sameDir ELSE sources
           first == CHOOSE i \in candidates : \A k \in candidates : i <= k
<1>1. candidates \subseteq sources /\ candidates # {}
  OBVIOUS
<1>2. PickSource(previous, sources, path) = previous[first].path
  BY DEF PickSource
<1> HIDE DEF candidates
<1>3. \E i \in candidates : \A k \in candidates : i <= k
  BY <1>1, Least
<1>4. first \in sources
  BY <1>1, <1>3
<1> QED
  BY <1>2, <1>4

\* A row of the newer snapshot alone is a move from a path that is gone, of its
\* content,
IsMove(since, s, row, now) ==
  \E p, move :
    /\ p \in s.deleted \cap PathsOf(since.entries)
    /\ row.path \notin since.errors
    /\ HashAt(since.entries, p) = row.hash
    /\ move.path = p /\ move.to = row.path
    /\ now = Pairs(s, p, move)

\* or an addition with nothing left to move from.
IsAddition(since, s, row, now) ==
  \E held, new :
    /\ \/ row.path \in since.errors
       \/ \A p \in s.deleted \cap PathsOf(since.entries) : HashAt(since.entries, p) # row.hash
    /\ held = {p \in PathsOf(since.entries) : HashAt(since.entries, p) = row.hash}
    /\ new.path = row.path /\ new.duplicates = Duplicates(held, s.moved)
    /\ now = Adds(s, new)

LEMMA Classified ==
  ASSUME NEW since, IsSnapshot(since), NEW s, NEW row,
         NEW now, now = Classify(since.entries, since.errors, s, row)
  PROVE  IsMove(since, s, row, now) \/ IsAddition(since, s, row, now)
<1> DEFINE rows == since.entries
           holders == Holders(rows, row.hash)
           sources == {i \in holders : rows[i].path \in s.deleted /\ row.path \notin since.errors}
           held == {p \in PathsOf(rows) : HashAt(rows, p) = row.hash}
<1>1. /\ \A i \in DOMAIN rows : HashAt(rows, rows[i].path) = rows[i].hash
      /\ \A p : p \in PathsOf(rows) <=> \E i \in DOMAIN rows : rows[i].path = p
  BY HashIsOfRow, RowsHavePlaces
<1>2. holders \subseteq DOMAIN rows /\ \A i \in holders : rows[i].hash = row.hash
  BY DEF Holders
<1>3. {rows[i].path : i \in holders} = held
  <2> HIDE DEF rows
  <2> QED
    BY <1>1 DEF Holders
<1>4. CASE sources # {}
  <2>1. sources \subseteq Nat
    BY <1>2, RowsHavePlaces
  <2>2. PICK i \in sources : PickSource(rows, sources, row.path) = rows[i].path
    <3>1. PICK previous, of, path : previous = rows /\ of = sources /\ path = row.path
      OBVIOUS
    <3>2. of \subseteq Nat /\ of # {}
      BY <1>4, <2>1, <3>1
    <3>3. \E i \in of : PickSource(previous, of, path) = previous[i].path
      BY <3>2, SourceIsOne
    <3> HIDE DEF sources, rows
    <3> QED
      BY <3>1, <3>3
  <2>3. /\ rows[i].path \in s.deleted \cap PathsOf(rows) /\ row.path \notin since.errors
        /\ HashAt(rows, rows[i].path) = row.hash
    BY <1>1, <1>2
  <2>4. now = Pairs(s, rows[i].path, [path |-> rows[i].path, to |-> row.path])
    BY <1>4, <2>2 DEF Classify, Pairs
  <2> QED
    BY <2>3, <2>4 DEF IsMove
<1>5. CASE sources = {}
  <2>1. \/ row.path \in since.errors
        \/ \A p \in s.deleted \cap PathsOf(rows) : HashAt(rows, p) # row.hash
    BY <1>1, <1>5 DEF Holders
  <2>2. Classify(rows, since.errors, s, row) =
          Adds(s, [path |-> row.path,
                   duplicates |-> Duplicates({rows[i].path : i \in holders}, s.moved)])
    BY <1>5 DEF Classify, Adds
  <2>3. now = Adds(s, [path |-> row.path, duplicates |-> Duplicates(held, s.moved)])
    <3> HIDE DEF held, holders
    <3> QED
      BY <1>3, <2>2
  <2> QED
    BY <2>1, <2>3 DEF IsAddition
<1> QED
  BY <1>4, <1>5

\* One more row: alone, or not.
LEMMA AloneGrows ==
  ASSUME NEW since, NEW until, IsSnapshot(until), NEW n \in DOMAIN until.entries
  PROVE  LET path == until.entries[n].path
         IN  /\ path \in PathsOf(since.entries) =>
                  AloneOf(since, until, n) = AloneOf(since, until, n - 1)
             /\ path \notin PathsOf(since.entries) =>
                  /\ AloneOf(since, until, n) = AloneOf(since, until, n - 1) \cup {path}
                  /\ path \notin AloneOf(since, until, n - 1)
<1>1. n \in Nat /\ 1 .. n = (1 .. n - 1) \cup {n} /\ 1 .. n - 1 \subseteq DOMAIN until.entries
      /\ n \notin 1 .. n - 1
  BY RowsHavePlaces
<1>2. \A i, k \in DOMAIN until.entries : until.entries[i].path = until.entries[k].path => i = k
  BY DEF IsSnapshot
<1> QED
  BY <1>1, <1>2 DEF AloneOf

\* What moved keeps its place in what is told, if more has moved.
LEMMA CopiesStay ==
  ASSUME NEW since, NEW until, NEW s, NEW t,
         CopiesTold(since, until, s), t.added = s.added, s.moved \subseteq t.moved
  PROVE  CopiesTold(since, until, t)
BY DEF CopiesTold

\* Where a new path's content was, is told of it.
LEMMA DuplicatesTold ==
  ASSUME NEW held, NEW moved
  PROVE  /\ Duplicates(held, moved) = {} <=> held = {}
         /\ Duplicates(held, moved) \subseteq held \cup {m.to : m \in moved}
BY DEF Duplicates

LEMMA DiffMoves ==
  ASSUME NEW since, NEW until, IsSnapshot(since), IsSnapshot(until),
         NEW n \in DOMAIN until.entries, NEW row, row = until.entries[n],
         row.path \notin PathsOf(since.entries),
         NEW s, DiffInv(since, until, s, n - 1), NEW t, IsMove(since, s, row, t)
  PROVE  DiffInv(since, until, t, n)
<1> DEFINE kept == Settled(since.entries, until.entries).modified
<1>1. /\ IsStage(s, kept)
      /\ NewTold(since, until, s, n - 1) /\ GoneTold(since, until, s)
      /\ MovesTold(since, until, s) /\ CopiesTold(since, until, s)
  BY DEF DiffInv
<1>2. PICK p, move :
        /\ p \in s.deleted \cap PathsOf(since.entries)
        /\ row.path \notin since.errors
        /\ HashAt(since.entries, p) = row.hash
        /\ move.path = p /\ move.to = row.path
        /\ t = Pairs(s, p, move)
  BY DEF IsMove
<1> HIDE DEF kept
<1>3. /\ IsStage(t, kept)
      /\ t.added = s.added /\ t.moved = s.moved \cup {move} /\ t.deleted = s.deleted \ {p}
  BY <1>1, <1>2, StageMoves
<1>4. /\ AloneOf(since, until, n) = AloneOf(since, until, n - 1) \cup {row.path}
      /\ row.path \notin AloneOf(since, until, n - 1)
  BY AloneGrows
<1>5. HashAt(until.entries, row.path) = row.hash
  BY HashIsOfRow
<1>6. NewTold(since, until, t, n)
  BY <1>1, <1>2, <1>3, <1>4 DEF NewTold
<1>7. GoneTold(since, until, t)
  BY <1>1, <1>2, <1>3 DEF GoneTold
<1>8. MovesTold(since, until, t)
  BY <1>1, <1>2, <1>3, <1>5 DEF MovesTold
<1>9. CopiesTold(since, until, t)
  BY <1>1, <1>3, CopiesStay
<1> QED
  BY <1>3, <1>6, <1>7, <1>8, <1>9 DEF DiffInv, kept

LEMMA DiffAdds ==
  ASSUME NEW since, NEW until, IsSnapshot(since), IsSnapshot(until),
         NEW n \in DOMAIN until.entries, NEW row, row = until.entries[n],
         row.path \notin PathsOf(since.entries),
         NEW s, DiffInv(since, until, s, n - 1), NEW t, IsAddition(since, s, row, t)
  PROVE  DiffInv(since, until, t, n)
<1> DEFINE kept == Settled(since.entries, until.entries).modified
<1>1. /\ IsStage(s, kept)
      /\ NewTold(since, until, s, n - 1) /\ GoneTold(since, until, s)
      /\ MovesTold(since, until, s) /\ CopiesTold(since, until, s)
  BY DEF DiffInv
<1>2. PICK held, new :
        /\ \/ row.path \in since.errors
           \/ \A p \in s.deleted \cap PathsOf(since.entries) : HashAt(since.entries, p) # row.hash
        /\ held = {p \in PathsOf(since.entries) : HashAt(since.entries, p) = row.hash}
        /\ new.path = row.path /\ new.duplicates = Duplicates(held, s.moved)
        /\ t = Adds(s, new)
  BY DEF IsAddition
<1> HIDE DEF kept
<1>3. /\ IsStage(t, kept)
      /\ t.added = s.added \cup {new} /\ t.moved = s.moved /\ t.deleted = s.deleted
  BY <1>1, <1>2, StageAdds
<1>4. /\ AloneOf(since, until, n) = AloneOf(since, until, n - 1) \cup {row.path}
      /\ row.path \notin AloneOf(since, until, n - 1)
  BY AloneGrows
<1>5. HashAt(until.entries, row.path) = row.hash
  BY HashIsOfRow
<1>6. row.path \in since.errors \/ \A p \in s.deleted : HashAt(since.entries, p) # row.hash
  BY <1>1, <1>2 DEF GoneTold, GoneOf
<1>7. NewTold(since, until, t, n)
  BY <1>1, <1>2, <1>3, <1>4 DEF NewTold
<1>8. GoneTold(since, until, t)
  BY <1>1, <1>3 DEF GoneTold
<1>9. MovesTold(since, until, t)
  BY <1>1, <1>2, <1>3, <1>5, <1>6 DEF MovesTold
<1>10. CopiesTold(since, until, t)
  <2>1. held = {p \in PathsOf(since.entries) :
                  HashAt(since.entries, p) = HashAt(until.entries, new.path)}
    BY <1>2, <1>5
  <2>2. /\ new.duplicates = {} <=> held = {}
        /\ new.duplicates \subseteq held \cup {m.to : m \in s.moved}
    BY <1>2, DuplicatesTold
  <2> QED
    BY <1>1, <1>3, <2>1, <2>2 DEF CopiesTold
<1> QED
  BY <1>3, <1>7, <1>8, <1>9, <1>10 DEF DiffInv, kept

LEMMA DiffSteps ==
  ASSUME NEW since, NEW until, IsSnapshot(since), IsSnapshot(until),
         NEW n \in DOMAIN until.entries, NEW s, DiffInv(since, until, s, n - 1)
  PROVE  DiffInv(since, until, DiffStep(since.entries, until.entries, since.errors, s, n), n)
<1>1. CASE until.entries[n].path \in PathsOf(since.entries)
  <2>1. AloneOf(since, until, n) = AloneOf(since, until, n - 1)
    BY <1>1, AloneGrows
  <2> QED
    BY <1>1, <2>1 DEF DiffInv, NewTold, DiffStep
<1>2. CASE until.entries[n].path \notin PathsOf(since.entries)
  <2>1. PICK row, now : /\ row = until.entries[n]
                        /\ now = Classify(since.entries, since.errors, s, row)
    OBVIOUS
  <2>2. IsMove(since, s, row, now) \/ IsAddition(since, s, row, now)
    BY <2>1, Classified
  <2>3. DiffInv(since, until, now, n)
    BY <1>2, <2>1, <2>2, DiffMoves, DiffAdds
  <2> QED
    BY <1>2, <2>1, <2>3 DEF DiffStep
<1> QED
  BY <1>1, <1>2

LEMMA DiffHolds ==
  ASSUME NEW since, NEW until, IsSnapshot(since), IsSnapshot(until)
  PROVE  DiffInv(since, until, Diff(since.entries, until.entries, since.errors),
                 Len(until.entries))
<1> DEFINE last == Len(until.entries)
<1>1. last \in Nat /\ DOMAIN until.entries = 1 .. last
  BY RowsHavePlaces
<1>2. PICK f : /\ IsDiff(since.entries, until.entries, since.errors, f, last)
               /\ Diff(since.entries, until.entries, since.errors) = f[last]
  BY <1>1, DiffIsLast
<1> DEFINE T == {n \in 0 .. last : ~DiffInv(since, until, f[n], n)}
<1>3. T = {}
  <2> SUFFICES ASSUME T # {} PROVE FALSE
    OBVIOUS
  <2>1. PICK n \in T : \A k \in T : n <= k
    <3>1. T \subseteq Nat
      BY <1>1
    <3> HIDE DEF T
    <3> QED
      BY <3>1, Least
  <2>2. n \in 0 .. last /\ ~DiffInv(since, until, f[n], n)
    OBVIOUS
  <2>3. CASE n = 0
    <3>1. f[0] = Settled(since.entries, until.entries)
      BY <1>1, <1>2 DEF IsDiff
    <3> QED
      BY <2>2, <2>3, <3>1, DiffBegins
  <2>4. CASE n # 0
    <3>1. n \in DOMAIN until.entries /\ n - 1 \in 0 .. last /\ ~(n <= n - 1)
      BY <1>1, <2>2, <2>4
    <3>2. DiffInv(since, until, f[n - 1], n - 1)
      BY <2>1, <3>1
    <3>3. f[n] = DiffStep(since.entries, until.entries, since.errors, f[n - 1], n)
      BY <1>2, <2>2, <2>4 DEF IsDiff
    <3> QED
      BY <2>2, <3>1, <3>2, <3>3, DiffSteps
  <2> QED
    BY <2>3, <2>4
<1>4. last \in 0 .. last
  BY <1>1
<1> QED
  BY <1>2, <1>3, <1>4

\* What the report says of a comparison.
LEMMA ReportOf ==
  ASSUME NEW since, NEW until, IsSnapshot(since), IsSnapshot(until)
  PROVE  \E d : LET report == CompareSnapshots(since, until)
                IN  /\ DiffInv(since, until, d, Len(until.entries))
                    /\ report.added = {[path |-> a.path, duplicates |-> a.duplicates,
                                        wasUnreadable |-> a.path \in since.errors] : a \in d.added}
                    /\ report.moved = d.moved
                    /\ report.modified = Settled(since.entries, until.entries).modified
                    /\ report.deleted = d.deleted \ until.errors
                    /\ report.errors = until.errors
<1> DEFINE kept == Settled(since.entries, until.entries).modified
<1>1. PICK d : d = Diff(since.entries, until.entries, since.errors)
  OBVIOUS
<1>2. DiffInv(since, until, d, Len(until.entries))
  BY <1>1, DiffHolds
<1>3. d.modified = kept
  <2>1. d = Stage(d.added, d.moved, d.deleted, kept)
    BY <1>2 DEF DiffInv, IsStage
  <2> HIDE DEF kept
  <2> QED
    BY <2>1, StageParts
<1> QED
  BY <1>1, <1>2, <1>3 DEF CompareSnapshots

\* A set whose members are all one.
LEMMA AtMostOne ==
  ASSUME NEW S, \A x, y \in S : x = y
  PROVE  Cardinality(S) = IF S = {} THEN 0 ELSE 1
<1>1. CASE S = {}
  BY <1>1, FS_EmptySet
<1>2. CASE S # {}
  <2>1. PICK x \in S : TRUE
    BY <1>2
  <2>2. S = {x}
    BY <2>1
  <2> QED
    BY <1>2, <2>2, FS_Singleton
<1> QED
  BY <1>1, <1>2

\* The places of a path in a report count to nothing or one.
LEMMA PlacesCount ==
  ASSUME NEW since, NEW until, IsSnapshot(since), IsSnapshot(until), NEW path,
         NEW report, report = CompareSnapshots(since, until)
  PROVE  LET p == Places(report, path)
         IN  /\ p.added = IF \E a \in report.added : a.path = path THEN 1 ELSE 0
             /\ p.movedTo = IF \E m \in report.moved : m.to = path THEN 1 ELSE 0
             /\ p.movedFrom = IF \E m \in report.moved : m.path = path THEN 1 ELSE 0
             /\ p.modified = IF path \in report.modified THEN 1 ELSE 0
             /\ p.deleted = IF path \in report.deleted THEN 1 ELSE 0
             /\ p.errors = IF path \in report.errors THEN 1 ELSE 0
<1> DEFINE A == {a \in report.added : a.path = path}
           T == {m \in report.moved : m.to = path}
           F == {m \in report.moved : m.path = path}
<1>1. PICK d :
        /\ DiffInv(since, until, d, Len(until.entries))
        /\ report.added = {[path |-> a.path, duplicates |-> a.duplicates,
                            wasUnreadable |-> a.path \in since.errors] : a \in d.added}
        /\ report.moved = d.moved
  BY ReportOf
<1>2. /\ NewTold(since, until, d, Len(until.entries)) /\ GoneTold(since, until, d)
  BY <1>1 DEF DiffInv
<1>3. \A a, b \in A : a = b
  BY <1>1, <1>2 DEF NewTold
<1>4. \A m, k \in T : m = k
  BY <1>1, <1>2 DEF NewTold
<1>5. \A m, k \in F : m = k
  BY <1>1, <1>2 DEF GoneTold
<1>6. /\ Cardinality(A) = IF A = {} THEN 0 ELSE 1
      /\ Cardinality(T) = IF T = {} THEN 0 ELSE 1
      /\ Cardinality(F) = IF F = {} THEN 0 ELSE 1
  <2> HIDE DEF A, T, F
  <2> QED
    BY <1>3, <1>4, <1>5, AtMostOne
<1>7. /\ A = {} <=> ~\E a \in report.added : a.path = path
      /\ T = {} <=> ~\E m \in report.moved : m.to = path
      /\ F = {} <=> ~\E m \in report.moved : m.path = path
  OBVIOUS
<1>8. /\ Places(report, path).added = Cardinality(A)
      /\ Places(report, path).movedTo = Cardinality(T)
      /\ Places(report, path).movedFrom = Cardinality(F)
  BY DEF Places
<1>9. /\ Places(report, path).modified = IF path \in report.modified THEN 1 ELSE 0
      /\ Places(report, path).deleted = IF path \in report.deleted THEN 1 ELSE 0
      /\ Places(report, path).errors = IF path \in report.errors THEN 1 ELSE 0
  BY DEF Places
<1> HIDE DEF A, T, F
<1> QED
  BY <1>6, <1>7, <1>8, <1>9

\* The report by its paths: what is added or moved to, what is moved from or
\* deleted, and what is modified.
LEMMA ReportCovers ==
  ASSUME NEW since, NEW until, IsSnapshot(since), IsSnapshot(until),
         NEW report, report = CompareSnapshots(since, until)
  PROVE  /\ \A p : (\E a \in report.added : a.path = p) \/ (\E m \in report.moved : m.to = p)
                     <=> p \in PathsOf(until.entries) \ PathsOf(since.entries)
         /\ \A p : ~((\E a \in report.added : a.path = p) /\ (\E m \in report.moved : m.to = p))
         /\ \A p : (\E m \in report.moved : m.path = p) \/ p \in report.deleted
                     => p \in GoneOf(since, until)
         /\ \A p \in GoneOf(since, until) :
              (\E m \in report.moved : m.path = p) \/ p \in report.deleted \/ p \in until.errors
         /\ \A p : ~((\E m \in report.moved : m.path = p) /\ p \in report.deleted)
         /\ report.deleted \cap until.errors = {}
         /\ report.errors = until.errors
         /\ report.modified = Settled(since.entries, until.entries).modified
<1>1. PICK d :
        /\ DiffInv(since, until, d, Len(until.entries))
        /\ report.added = {[path |-> a.path, duplicates |-> a.duplicates,
                            wasUnreadable |-> a.path \in since.errors] : a \in d.added}
        /\ report.moved = d.moved
        /\ report.modified = Settled(since.entries, until.entries).modified
        /\ report.deleted = d.deleted \ until.errors
        /\ report.errors = until.errors
  BY ReportOf
<1>2. /\ NewTold(since, until, d, Len(until.entries)) /\ GoneTold(since, until, d)
  BY <1>1 DEF DiffInv
<1>3. AloneOf(since, until, Len(until.entries)) = PathsOf(until.entries) \ PathsOf(since.entries)
  <2>1. /\ DOMAIN until.entries = 1 .. Len(until.entries)
        /\ \A p : p \in PathsOf(until.entries) <=>
                \E i \in DOMAIN until.entries : until.entries[i].path = p
    BY RowsHavePlaces
  <2> QED
    BY <2>1 DEF AloneOf
<1>4. \A p : (\E a \in report.added : a.path = p) <=> (\E a \in d.added : a.path = p)
  <2>1. \A a \in report.added : \E b \in d.added : a.path = b.path
    BY <1>1
  <2>2. ASSUME NEW b \in d.added PROVE \E a \in report.added : a.path = b.path
    <3>1. PICK a : a = [path |-> b.path, duplicates |-> b.duplicates,
                        wasUnreadable |-> b.path \in since.errors]
      OBVIOUS
    <3>2. a \in report.added
      BY <1>1, <3>1
    <3>3. a.path = b.path
      BY <3>1
    <3> QED
      BY <3>2, <3>3
  <2> QED
    BY <2>1, <2>2
<1>5. /\ \A p : (\E a \in report.added : a.path = p) \/ (\E m \in report.moved : m.to = p)
                  <=> p \in PathsOf(until.entries) \ PathsOf(since.entries)
      /\ \A p : ~((\E a \in report.added : a.path = p) /\ (\E m \in report.moved : m.to = p))
  BY <1>1, <1>2, <1>3, <1>4 DEF NewTold
<1>6. /\ \A p : (\E m \in report.moved : m.path = p) \/ p \in report.deleted
                  => p \in GoneOf(since, until)
      /\ \A p \in GoneOf(since, until) :
           (\E m \in report.moved : m.path = p) \/ p \in report.deleted \/ p \in until.errors
      /\ \A p : ~((\E m \in report.moved : m.path = p) /\ p \in report.deleted)
      /\ report.deleted \cap until.errors = {}
  BY <1>1, <1>2 DEF GoneTold
<1> QED
  BY <1>1, <1>5, <1>6

\* A path is modified when both snapshots hold it, at two hashes.
LEMMA ModifiedIs ==
  ASSUME NEW since, NEW until, IsSnapshot(since), IsSnapshot(until),
         NEW i \in DOMAIN until.entries
  PROVE  /\ until.entries[i] \in RowsIn(since.entries) =>
              /\ until.entries[i].path \in PathsOf(since.entries)
              /\ until.entries[i].path \notin Settled(since.entries, until.entries).modified
         /\ until.entries[i].path \in PathsOf(since.entries)
              /\ until.entries[i] \notin RowsIn(since.entries) =>
                   until.entries[i].path \in Settled(since.entries, until.entries).modified
<1> DEFINE row == until.entries[i]
<1>1. Settled(since.entries, until.entries).modified =
        {p \in PathsOf(since.entries) \cap PathsOf(until.entries) :
            HashAt(since.entries, p) # HashAt(until.entries, p)}
  BY DEF Settled
<1>2. row.path \in PathsOf(until.entries) /\ HashAt(until.entries, row.path) = row.hash
  BY HashIsOfRow, RowsHavePlaces
<1>3. row = Row(row.path, row.hash)
  BY DEF IsSnapshot
<1>4. CASE row \in RowsIn(since.entries)
  <2>1. PICK k \in DOMAIN since.entries : since.entries[k] = row
    BY <1>4 DEF RowsIn
  <2>2. since.entries[k].path \in PathsOf(since.entries)
    BY <2>1, RowsHavePlaces
  <2>3. HashAt(since.entries, since.entries[k].path) = since.entries[k].hash
    BY <2>1, HashIsOfRow
  <2> QED
    BY <1>1, <1>2, <1>4, <2>1, <2>2, <2>3
<1>5. CASE row \notin RowsIn(since.entries) /\ row.path \in PathsOf(since.entries)
  <2>1. PICK k \in DOMAIN since.entries : since.entries[k].path = row.path
    <3>1. \A p : p \in PathsOf(since.entries) <=>
             \E j \in DOMAIN since.entries : since.entries[j].path = p
      BY RowsHavePlaces
    <3> QED
      BY <1>5, <3>1
  <2>2. since.entries[k] = Row(row.path, since.entries[k].hash)
    BY <2>1 DEF IsSnapshot
  <2>3. since.entries[k].hash # row.hash
    BY <1>3, <1>5, <2>1, <2>2 DEF RowsIn
  <2>4. HashAt(since.entries, row.path) = since.entries[k].hash
    BY <2>1, HashIsOfRow
  <2> QED
    BY <1>1, <1>2, <1>5, <2>3, <2>4
<1> QED
  BY <1>4, <1>5

\* Whatever two snapshots hold, each path of the newer one is told in one place of
\* the report, added, moved to or modified, and in none if its row is unchanged;
\* it is never told as gone, and as unreadable exactly if the newer snapshot has an
\* error row of it beside its file row (compareSnapshots).
THEOREM ComparisonTellsTheHeldOnce ==
  ASSUME NEW since, NEW until, IsSnapshot(since), IsSnapshot(until)
  PROVE  HeldIsToldOnce(since, until, CompareSnapshots(since, until))
<1>1. PICK report : report = CompareSnapshots(since, until)
  OBVIOUS
<1>2. ASSUME NEW row \in RowsIn(until.entries)
      PROVE  LET p == Places(report, row.path)
             IN  /\ p.added + p.movedTo + p.modified =
                      IF row \in RowsIn(since.entries) THEN 0 ELSE 1
                 /\ p.movedFrom + p.deleted = 0
                 /\ p.errors = IF row.path \in until.errors THEN 1 ELSE 0
  <2>1. PICK i \in DOMAIN until.entries : row = until.entries[i]
    BY DEF RowsIn
  <2>2. row.path \in PathsOf(until.entries)
    BY <2>1, RowsHavePlaces
  <2>3. row.path \notin GoneOf(since, until)
    BY <2>2 DEF GoneOf
  <2>4. Settled(since.entries, until.entries).modified \subseteq PathsOf(since.entries)
    BY DEF Settled
  <2>5. /\ row \in RowsIn(since.entries) =>
             row.path \in PathsOf(since.entries) /\ row.path \notin report.modified
        /\ row \notin RowsIn(since.entries) /\ row.path \in PathsOf(since.entries) =>
             row.path \in report.modified
        /\ row.path \notin PathsOf(since.entries) => row.path \notin report.modified
    BY <1>1, <2>1, <2>4, ModifiedIs, ReportCovers
  <2>6. /\ (\E a \in report.added : a.path = row.path) \/ (\E m \in report.moved : m.to = row.path)
             <=> row.path \notin PathsOf(since.entries)
        /\ ~(/\ \E a \in report.added : a.path = row.path
             /\ \E m \in report.moved : m.to = row.path)
        /\ ~(\E m \in report.moved : m.path = row.path) /\ row.path \notin report.deleted
        /\ report.errors = until.errors
    BY <1>1, <2>2, <2>3, ReportCovers
  <2>7. PICK p : p = Places(report, row.path)
    OBVIOUS
  <2>8. /\ p.added = IF \E a \in report.added : a.path = row.path THEN 1 ELSE 0
        /\ p.movedTo = IF \E m \in report.moved : m.to = row.path THEN 1 ELSE 0
        /\ p.movedFrom = IF \E m \in report.moved : m.path = row.path THEN 1 ELSE 0
        /\ p.modified = IF row.path \in report.modified THEN 1 ELSE 0
        /\ p.deleted = IF row.path \in report.deleted THEN 1 ELSE 0
        /\ p.errors = IF row.path \in report.errors THEN 1 ELSE 0
    BY <1>1, <2>7, PlacesCount
  <2>9. /\ p.movedFrom + p.deleted = 0
        /\ p.errors = IF row.path \in until.errors THEN 1 ELSE 0
    BY <2>6, <2>8
  <2>10. p.added + p.movedTo = IF row.path \in PathsOf(since.entries) THEN 0 ELSE 1
    BY <2>6, <2>8
  <2>11. p.added + p.movedTo + p.modified = IF row \in RowsIn(since.entries) THEN 0 ELSE 1
    BY <2>5, <2>8, <2>10
  <2> QED
    BY <2>7, <2>9, <2>11
<1> QED
  BY <1>1, <1>2 DEF HeldIsToldOnce

\* And each path only the older one holds is said to be gone once, moved from or
\* deleted, unless the newer one couldn't read it.
THEOREM ComparisonTellsTheGoneOnce ==
  ASSUME NEW since, NEW until, IsSnapshot(since), IsSnapshot(until)
  PROVE  GoneIsToldOnce(since, until, CompareSnapshots(since, until))
<1>1. PICK report : report = CompareSnapshots(since, until)
  OBVIOUS
<1>2. ASSUME NEW path \in PathsOf(since.entries) \ PathsOf(until.entries)
      PROVE  LET p == Places(report, path)
             IN  /\ p.added + p.movedTo + p.modified = 0
                 /\ p.movedFrom + p.deleted <= 1
                 /\ path \in until.errors => p.deleted = 0
                 /\ p.movedFrom + p.deleted + p.errors >= 1
  <2>1. path \in GoneOf(since, until)
    BY DEF GoneOf
  <2>2. path \notin report.modified
    <3>1. path \notin Settled(since.entries, until.entries).modified
      BY DEF Settled
    <3> QED
      BY <1>1, <3>1, ReportCovers
  <2>3. /\ ~(\E a \in report.added : a.path = path) /\ ~(\E m \in report.moved : m.to = path)
        /\ ~((\E m \in report.moved : m.path = path) /\ path \in report.deleted)
        /\ \/ \E m \in report.moved : m.path = path
           \/ path \in report.deleted \/ path \in report.errors
        /\ path \in until.errors => path \notin report.deleted
    <3>1. ~(\E a \in report.added : a.path = path) /\ ~(\E m \in report.moved : m.to = path)
      BY <1>1, ReportCovers
    <3>2. /\ ~((\E m \in report.moved : m.path = path) /\ path \in report.deleted)
          /\ report.deleted \cap until.errors = {} /\ report.errors = until.errors
      BY <1>1, ReportCovers
    <3>3. \/ \E m \in report.moved : m.path = path
          \/ path \in report.deleted \/ path \in until.errors
      BY <1>1, <2>1, ReportCovers
    <3> QED
      BY <3>1, <3>2, <3>3
  <2>4. PICK p : p = Places(report, path)
    OBVIOUS
  <2>5. /\ p.added = IF \E a \in report.added : a.path = path THEN 1 ELSE 0
        /\ p.movedTo = IF \E m \in report.moved : m.to = path THEN 1 ELSE 0
        /\ p.movedFrom = IF \E m \in report.moved : m.path = path THEN 1 ELSE 0
        /\ p.modified = IF path \in report.modified THEN 1 ELSE 0
        /\ p.deleted = IF path \in report.deleted THEN 1 ELSE 0
        /\ p.errors = IF path \in report.errors THEN 1 ELSE 0
    BY <1>1, <2>4, PlacesCount
  <2>6. p.added + p.movedTo + p.modified = 0
    BY <2>2, <2>3, <2>5
  <2>7. /\ p.movedFrom + p.deleted <= 1
        /\ path \in until.errors => p.deleted = 0
        /\ p.movedFrom + p.deleted + p.errors >= 1
    BY <2>3, <2>5
  <2> QED
    BY <2>4, <2>6, <2>7
<1> QED
  BY <1>1, <1>2 DEF GoneIsToldOnce

\* A path added whose content the older snapshot held names where that content
\* was, or has moved to (diff's duplicates).
THEOREM ComparisonNamesCopies ==
  ASSUME NEW since, NEW until, IsSnapshot(since), IsSnapshot(until)
  PROVE  CopiesAreNamed(since, until, CompareSnapshots(since, until))
<1>1. PICK report, d :
        /\ report = CompareSnapshots(since, until)
        /\ DiffInv(since, until, d, Len(until.entries))
        /\ report.added = {[path |-> a.path, duplicates |-> a.duplicates,
                            wasUnreadable |-> a.path \in since.errors] : a \in d.added}
        /\ report.moved = d.moved
  BY ReportOf
<1>2. CopiesTold(since, until, d)
  BY <1>1 DEF DiffInv
<1>3. ASSUME NEW h
      PROVE  {r.path : r \in {s \in RowsIn(since.entries) : s.hash = h}} =
               {p \in PathsOf(since.entries) : HashAt(since.entries, p) = h}
  <2>1. \A i \in DOMAIN since.entries :
          HashAt(since.entries, since.entries[i].path) = since.entries[i].hash
    BY HashIsOfRow
  <2> QED
    BY <2>1 DEF PathsOf, RowsIn
<1>4. ASSUME NEW a \in report.added, NEW held,
             held = {p \in PathsOf(since.entries) :
                       HashAt(since.entries, p) = HashAt(until.entries, a.path)}
      PROVE  /\ a.duplicates = {} <=> held = {}
             /\ a.duplicates \subseteq held \cup {m.to : m \in report.moved}
  <2>1. PICK b \in d.added : a.path = b.path /\ a.duplicates = b.duplicates
    BY <1>1
  <2> QED
    BY <1>1, <1>2, <1>4, <2>1 DEF CopiesTold
<1>5. ASSUME NEW a \in report.added
      PROVE  LET h == HashAt(until.entries, a.path)
                 held == {r.path : r \in {s \in RowsIn(since.entries) : s.hash = h}}
             IN  /\ (a.duplicates = {}) <=> (held = {})
                 /\ a.duplicates \subseteq held \cup {m.to : m \in report.moved}
  BY <1>3, <1>4
<1> QED
  BY <1>1, <1>5 DEF CopiesAreNamed

LEMMA RowsAreFinite ==
  ASSUME NEW s, IsSnapshot(s)
  PROVE  IsFiniteSet(RowsIn(s.entries))
<1> DEFINE places == 1 .. Len(s.entries)
           f == [i \in places |-> s.entries[i]]
<1>1. Len(s.entries) \in Nat /\ DOMAIN s.entries = places
  BY RowsHavePlaces
<1>2. IsFiniteSet(places)
  BY <1>1, FS_Interval
<1>3. f \in Surjection(places, RowsIn(s.entries))
  BY <1>1 DEF Surjection, RowsIn
<1> QED
  BY <1>2, <1>3, FS_Surjection

\* Moves counted by the rows they pair: no more than there are on either side,
\* and all there are on one of them.
LEMMA PairedCount ==
  ASSUME NEW moves, NEW from, NEW into, IsFiniteSet(from), IsFiniteSet(into),
         NEW f \in Injection(moves, from), NEW g \in Injection(moves, into),
         f \in Surjection(moves, from) \/ g \in Surjection(moves, into)
  PROVE  Cardinality(moves) = IF Cardinality(from) < Cardinality(into)
                              THEN Cardinality(from) ELSE Cardinality(into)
<1>1. /\ IsFiniteSet(moves)
      /\ Cardinality(moves) <= Cardinality(from) /\ Cardinality(moves) <= Cardinality(into)
      /\ Cardinality(moves) = Cardinality(from) <=> f \in Surjection(moves, from)
      /\ Cardinality(moves) = Cardinality(into) <=> g \in Surjection(moves, into)
  BY FS_Injection
<1>2. /\ Cardinality(moves) \in Nat /\ Cardinality(from) \in Nat /\ Cardinality(into) \in Nat
  BY <1>1, FS_CardinalityType
<1> QED
  BY <1>1, <1>2

\* A row by its path: the one with the path's hash.
LEMMA RowIsOfPath ==
  ASSUME NEW s, IsSnapshot(s), NEW r \in RowsIn(s.entries)
  PROVE  /\ r = Row(r.path, r.hash) /\ r.path \in PathsOf(s.entries)
         /\ HashAt(s.entries, r.path) = r.hash
<1>1. PICK i \in DOMAIN s.entries : r = s.entries[i]
  BY DEF RowsIn
<1>2. r = Row(r.path, r.hash)
  BY <1>1 DEF IsSnapshot
<1>3. HashAt(s.entries, r.path) = r.hash
  BY <1>1, HashIsOfRow
<1> QED
  BY <1>2, <1>3 DEF PathsOf

LEMMA RowOfPath ==
  ASSUME NEW s, IsSnapshot(s), NEW p \in PathsOf(s.entries)
  PROVE  Row(p, HashAt(s.entries, p)) \in RowsIn(s.entries)
<1>1. PICK r \in RowsIn(s.entries) : r.path = p
  BY DEF PathsOf
<1> QED
  BY <1>1, RowIsOfPath

\* Of each content there are as many moves as files to pair, however many vanished
\* and however many appeared (diff's greedy pass).
THEOREM ComparisonPairsAll ==
  ASSUME NEW since, NEW until, IsSnapshot(since), IsSnapshot(until)
  PROVE  MovesPairAll(since, until, CompareSnapshots(since, until))
<1>1. PICK report, d :
        /\ report = CompareSnapshots(since, until)
        /\ DiffInv(since, until, d, Len(until.entries))
        /\ report.moved = d.moved
  BY ReportOf
<1>2. /\ NewTold(since, until, d, Len(until.entries)) /\ GoneTold(since, until, d)
      /\ MovesTold(since, until, d)
  BY <1>1 DEF DiffInv
<1>3. AloneOf(since, until, Len(until.entries)) = PathsOf(until.entries) \ PathsOf(since.entries)
  <2>1. /\ DOMAIN until.entries = 1 .. Len(until.entries)
        /\ \A p : p \in PathsOf(until.entries) <=>
                \E i \in DOMAIN until.entries : until.entries[i].path = p
    BY RowsHavePlaces
  <2> QED
    BY <2>1 DEF AloneOf
<1>4. ASSUME NEW h
      PROVE  LET gone == {r \in RowsIn(since.entries) :
                             r.hash = h /\ r.path \notin PathsOf(until.entries)}
                 new == {r \in RowsIn(until.entries) :
                            /\ r.hash = h
                            /\ r.path \notin PathsOf(since.entries) \cup since.errors}
                 pairs == {m \in report.moved : HashAt(since.entries, m.path) = h}
             IN  Cardinality(pairs) = IF Cardinality(gone) < Cardinality(new)
                                      THEN Cardinality(gone) ELSE Cardinality(new)
  <2> DEFINE gone == {r \in RowsIn(since.entries) :
                         r.hash = h /\ r.path \notin PathsOf(until.entries)}
             new == {r \in RowsIn(until.entries) :
                        /\ r.hash = h
                        /\ r.path \notin PathsOf(since.entries) \cup since.errors}
             pairs == {m \in report.moved : HashAt(since.entries, m.path) = h}
             f == [m \in pairs |-> Row(m.path, h)]
             g == [m \in pairs |-> Row(m.to, h)]
  <2>1. IsFiniteSet(gone) /\ IsFiniteSet(new)
    <3>1. gone \subseteq RowsIn(since.entries) /\ new \subseteq RowsIn(until.entries)
      OBVIOUS
    <3> HIDE DEF gone, new
    <3> QED
      BY <3>1, RowsAreFinite, FS_Subset
  <2>2. \A r \in gone : /\ r = Row(r.path, h) /\ r.path \in GoneOf(since, until)
                        /\ HashAt(since.entries, r.path) = h
    BY RowIsOfPath DEF GoneOf
  <2>3. \A p \in GoneOf(since, until) : HashAt(since.entries, p) = h => Row(p, h) \in gone
    BY RowOfPath DEF GoneOf, Row
  <2>4. \A r \in new : /\ r = Row(r.path, h) /\ r.path \notin since.errors
                       /\ r.path \in AloneOf(since, until, Len(until.entries))
                       /\ HashAt(until.entries, r.path) = h
    BY <1>3, RowIsOfPath
  <2>5. \A p \in AloneOf(since, until, Len(until.entries)) \ since.errors :
          HashAt(until.entries, p) = h => Row(p, h) \in new
    BY <1>3, RowOfPath DEF Row
  <2>6. \A m \in pairs : /\ m \in d.moved /\ m.path \in GoneOf(since, until)
                         /\ HashAt(since.entries, m.path) = h
                         /\ m.to \in AloneOf(since, until, Len(until.entries)) \ since.errors
                         /\ HashAt(until.entries, m.to) = h
    BY <1>1, <1>2 DEF NewTold, GoneTold, MovesTold
  <2>7. \A m \in d.moved : HashAt(since.entries, m.path) = h => m \in pairs
    BY <1>1
  <2>8. \A a, b : Row(a, h) = Row(b, h) => a = b
    BY DEF Row
  <2> HIDE DEF gone, new, pairs
  <2>9. f \in Injection(pairs, gone)
    BY <1>2, <2>3, <2>6, <2>8 DEF Injection, IsInjective, GoneTold
  <2>10. g \in Injection(pairs, new)
    BY <1>2, <2>5, <2>6, <2>8 DEF Injection, IsInjective, NewTold
  <2>11. f \in Surjection(pairs, gone) \/ g \in Surjection(pairs, new)
    <3>1. CASE \E p \in d.deleted : HashAt(since.entries, p) = h
      <4>1. ASSUME NEW r \in new
            PROVE  \E m \in pairs : g[m] = r
        <5>1. ~\E a \in d.added : a.path = r.path
          BY <1>2, <2>4, <3>1 DEF MovesTold
        <5>2. PICK m \in d.moved : m.to = r.path
          BY <1>2, <2>4, <5>1 DEF NewTold
        <5>3. HashAt(since.entries, m.path) = h
          BY <1>2, <2>4, <5>2 DEF MovesTold
        <5> QED
          BY <2>4, <2>7, <5>2, <5>3
      <4>2. g \in [pairs -> new]
        BY <2>10 DEF Injection
      <4> QED
        BY <4>1, <4>2 DEF Surjection
    <3>2. CASE ~\E p \in d.deleted : HashAt(since.entries, p) = h
      <4>1. ASSUME NEW r \in gone
            PROVE  \E m \in pairs : f[m] = r
        <5>1. PICK m \in d.moved : m.path = r.path
          BY <1>2, <2>2, <3>2 DEF GoneTold
        <5> QED
          BY <2>2, <2>7, <5>1
      <4>2. f \in [pairs -> gone]
        BY <2>9 DEF Injection
      <4> QED
        BY <4>1, <4>2 DEF Surjection
    <3> QED
      BY <3>1, <3>2
  <2> HIDE DEF f, g
  <2>12. Cardinality(pairs) = IF Cardinality(gone) < Cardinality(new)
                              THEN Cardinality(gone) ELSE Cardinality(new)
    BY <2>1, <2>9, <2>10, <2>11, PairedCount
  <2> QED
    BY <2>12 DEF gone, new, pairs
<1>5. \A m \in report.moved : HashAt(since.entries, m.path) = HashAt(until.entries, m.to)
  BY <1>1, <1>2 DEF MovesTold
<1> QED
  BY <1>1, <1>4, <1>5 DEF MovesPairAll

-----------------------------------------------------------------------------
(***************************************************************************)
(* The spans of a history                                                  *)
(***************************************************************************)

Spans(set) == [set : {set}, first : Nat, last : Nat, count : Nat]

\* Spans of the positions up to the n-th, with a gap between each two.
AreSpans(set, indices, spans, n) ==
  /\ spans \in Seq(Spans(set))
  /\ \A i \in 1 .. Len(spans) :
       /\ spans[i].first <= spans[i].last /\ spans[i].last <= n
       /\ spans[i].count = spans[i].last - spans[i].first + 1
  /\ \A i \in 1 .. Len(spans) - 1 : spans[i].last + 1 < spans[i + 1].first
  /\ \A k \in Nat : k \in indices /\ k <= n <=>
       \E i \in 1 .. Len(spans) : spans[i].first <= k /\ k <= spans[i].last

LEMMA SpanParts ==
  ASSUME NEW set, NEW indices, NEW spans, NEW n, AreSpans(set, indices, spans, n)
  PROVE  /\ Len(spans) \in Nat /\ DOMAIN spans = 1 .. Len(spans)
         /\ \A i \in 1 .. Len(spans) :
              /\ spans[i] \in Spans(set)
              /\ spans[i].first \in Nat /\ spans[i].last \in Nat /\ spans[i].count \in Nat
<1>1. spans \in Seq(Spans(set))
  BY DEF AreSpans
<1>2. \A i \in 1 .. Len(spans) : spans[i] \in Spans(set)
  BY <1>1
<1>3. \A one \in Spans(set) : one.first \in Nat /\ one.last \in Nat /\ one.count \in Nat
  BY DEF Spans
<1> QED
  BY <1>1, <1>2, <1>3

LEMMA SpanIs ==
  ASSUME NEW set, NEW first, NEW last, NEW count
  PROVE  /\ Span(set, first, last, count).first = first
         /\ Span(set, first, last, count).last = last
         /\ Span(set, first, last, count).count = count
         /\ first \in Nat /\ last \in Nat /\ count \in Nat =>
              Span(set, first, last, count) \in Spans(set)
BY DEF Span, Spans

LEMMA SpanJoins ==
  ASSUME NEW set, NEW indices, NEW spans, NEW n \in Nat, n + 1 \in indices,
         AreSpans(set, indices, spans, n), Len(spans) > 0, spans[Len(spans)].last = n,
         NEW t, t = [spans EXCEPT ![Len(spans)] = Span(set, @.first, n + 1, @.count + 1)]
  PROVE  AreSpans(set, indices, t, n + 1)
<1> DEFINE at == Len(spans)
           one == Span(set, spans[at].first, n + 1, spans[at].count + 1)
<1>1. /\ at \in Nat /\ DOMAIN spans = 1 .. at /\ at \in 1 .. at
      /\ spans \in Seq(Spans(set))
      /\ \A i \in 1 .. at : /\ spans[i].first \in Nat /\ spans[i].last \in Nat
                            /\ spans[i].count \in Nat
  <2>1. /\ at \in Nat /\ DOMAIN spans = 1 .. at
        /\ \A i \in 1 .. at : /\ spans[i].first \in Nat /\ spans[i].last \in Nat
                              /\ spans[i].count \in Nat
    BY SpanParts
  <2>2. spans \in Seq(Spans(set))
    BY DEF AreSpans
  <2> QED
    BY <2>1, <2>2
<1>2. \A i \in 1 .. at : /\ spans[i].first <= spans[i].last /\ spans[i].last <= n
                         /\ spans[i].count = spans[i].last - spans[i].first + 1
  BY DEF AreSpans
<1>3. /\ one \in Spans(set) /\ one.first = spans[at].first /\ one.last = n + 1
      /\ one.count = spans[at].count + 1
  <2>1. spans[at].first \in Nat /\ n + 1 \in Nat /\ spans[at].count + 1 \in Nat
    BY <1>1
  <2> HIDE DEF at
  <2> HIDE DEF one
  <2>2. one = Span(set, spans[at].first, n + 1, spans[at].count + 1)
    BY DEF one
  <2> QED
    BY <2>1, <2>2, SpanIs
<1>4. t = [spans EXCEPT ![at] = one]
  OBVIOUS
<1> HIDE DEF one, at
<1>5. /\ t \in Seq(Spans(set)) /\ Len(t) = at
      /\ t[at] = one /\ \A i \in 1 .. at : i # at => t[i] = spans[i]
  <2> HIDE DEF Spans
  <2>1. DOMAIN t = 1 .. at /\ \A i \in 1 .. at : t[i] = IF i = at THEN one ELSE spans[i]
    BY <1>1, <1>4, Zenon
  <2>2. t = [i \in 1 .. at |-> t[i]]
    BY <1>1, <1>4, <2>1, Zenon
  <2>3. \A i \in 1 .. at : t[i] \in Spans(set)
    BY <1>1, <1>3, <2>1, SpanParts DEF at
  <2>4. t \in [1 .. at -> Spans(set)]
    BY <2>2, <2>3, Zenon
  <2>5. t \in Seq(Spans(set)) /\ Len(t) = at
    BY <1>1, <2>4
  <2> QED
    BY <1>1, <2>1, <2>5
<1>6. \A i \in 1 .. at : t[i].first = spans[i].first
  BY <1>3, <1>5
<1>7. spans[at].last = n
  BY DEF at
<1>8. \A i \in 1 .. at : /\ t[i].first <= t[i].last /\ t[i].last <= n + 1
                         /\ t[i].count = t[i].last - t[i].first + 1
  <2> TAKE i \in 1 .. at
  <2>1. CASE i = at
    <3>1. /\ t[i].first = spans[at].first /\ t[i].last = n + 1
          /\ t[i].count = spans[at].count + 1
      BY <1>3, <1>5, <2>1
    <3>2. /\ spans[at].first \in Nat /\ spans[at].first <= n
          /\ spans[at].count = n - spans[at].first + 1
      BY <1>1, <1>2, <1>7
    <3> QED
      BY <3>1, <3>2, SMTT(40)
  <2>2. CASE i # at
    <3>1. t[i] = spans[i]
      BY <1>5, <2>2
    <3> QED
      BY <1>1, <1>2, <3>1
  <2> QED
    BY <2>1, <2>2
<1>9. \A i \in 1 .. at - 1 : t[i].last + 1 < t[i + 1].first
  <2> TAKE i \in 1 .. at - 1
  <2>1. i \in 1 .. at /\ i + 1 \in 1 .. at /\ i # at
    BY <1>1
  <2>2. spans[i].last + 1 < spans[i + 1].first
    BY DEF AreSpans, at
  <2> QED
    BY <1>5, <1>6, <2>1, <2>2
<1>10. ASSUME NEW k \in Nat
       PROVE  k \in indices /\ k <= n + 1 <=>
                \E i \in 1 .. at : t[i].first <= k /\ k <= t[i].last
  <2>1. k \in indices /\ k <= n <=>
          \E i \in 1 .. at : spans[i].first <= k /\ k <= spans[i].last
    BY DEF AreSpans, at
  <2>2. CASE k = n + 1
    <3>1. t[at].first <= k /\ k <= t[at].last
      BY <1>1, <1>8, <1>3, <1>5, <2>2
    <3> QED
      BY <1>1, <2>2, <3>1
  <2>3. CASE k # n + 1
    <3>1. k <= n <=> k <= n + 1
      BY <2>3
    <3>2. \A i \in 1 .. at : k <= t[i].last <=> k <= spans[i].last
      <4> TAKE i \in 1 .. at
      <4>1. CASE i = at
        BY <1>3, <1>5, <1>7, <2>3, <4>1
      <4>2. CASE i # at
        BY <1>5, <4>2
      <4> QED
        BY <4>1, <4>2
    <3> QED
      BY <1>6, <2>1, <3>1, <3>2
  <2> QED
    BY <2>2, <2>3
<1> QED
  BY <1>5, <1>8, <1>9, <1>10 DEF AreSpans

LEMMA SpanOpens ==
  ASSUME NEW set, NEW indices, NEW spans, NEW n \in Nat, n + 1 \in indices,
         AreSpans(set, indices, spans, n), Len(spans) > 0 => spans[Len(spans)].last # n,
         NEW t, t = Append(spans, Span(set, n + 1, n + 1, 1))
  PROVE  AreSpans(set, indices, t, n + 1)
<1> DEFINE at == Len(spans)
           one == Span(set, n + 1, n + 1, 1)
<1>1. /\ at \in Nat /\ \A i \in 1 .. at : spans[i] \in Spans(set)
  BY DEF AreSpans
<1>2. /\ one \in Spans(set) /\ one.first = n + 1 /\ one.last = n + 1 /\ one.count = 1
  BY DEF Span, Spans
<1> HIDE DEF one
<1>3. /\ t \in Seq(Spans(set)) /\ Len(t) = at + 1 /\ t[at + 1] = one
      /\ \A i \in 1 .. at : t[i] = spans[i]
  BY <1>1, <1>2 DEF AreSpans, one
<1>4. \A i \in 1 .. at : spans[i].first \in Nat /\ spans[i].last \in Nat
  BY <1>1 DEF Spans
<1>5. \A i \in 1 .. at : /\ spans[i].first <= spans[i].last /\ spans[i].last <= n
                         /\ spans[i].count = spans[i].last - spans[i].first + 1
  BY DEF AreSpans
<1>6. \A i \in 1 .. at - 1 : spans[i].last + 1 < spans[i + 1].first
  BY DEF AreSpans
<1>7. at > 0 => spans[at].last < n
  BY <1>1, <1>4, <1>5
<1>8. \A k \in Nat : k \in indices /\ k <= n <=>
        \E i \in 1 .. at : spans[i].first <= k /\ k <= spans[i].last
  BY DEF AreSpans
<1> HIDE DEF at
<1>9. \A i \in 1 .. at + 1 : /\ t[i].first <= t[i].last /\ t[i].last <= n + 1
                             /\ t[i].count = t[i].last - t[i].first + 1
  <2> TAKE i \in 1 .. at + 1
  <2>1. CASE i = at + 1
    BY <1>2, <1>3, <2>1
  <2>2. CASE i # at + 1
    <3>1. i \in 1 .. at
      BY <1>1, <2>2
    <3> QED
      BY <1>3, <1>4, <1>5, <3>1
  <2> QED
    BY <2>1, <2>2
<1>10. \A i \in 1 .. at : t[i].last + 1 < t[i + 1].first
  <2> TAKE i \in 1 .. at
  <2>1. CASE i = at
    BY <1>1, <1>2, <1>3, <1>4, <1>7, <2>1
  <2>2. CASE i # at
    <3>1. i \in 1 .. at - 1 /\ i + 1 \in 1 .. at
      BY <1>1, <2>2
    <3> QED
      BY <1>3, <1>6, <3>1
  <2> QED
    BY <2>1, <2>2
<1>11. ASSUME NEW k \in Nat
       PROVE  k \in indices /\ k <= n + 1 <=>
                \E i \in 1 .. at + 1 : t[i].first <= k /\ k <= t[i].last
  <2>1. at + 1 \in 1 .. at + 1 /\ 1 .. at + 1 = (1 .. at) \cup {at + 1}
    BY <1>1
  <2>2. CASE k = n + 1
    BY <1>2, <1>3, <2>1, <2>2
  <2>3. CASE k # n + 1
    <3>1. k <= n <=> k <= n + 1
      BY <2>3
    <3>2. ~(t[at + 1].first <= k /\ k <= t[at + 1].last)
      BY <1>2, <1>3, <2>3
    <3> QED
      BY <1>3, <1>8, <2>1, <3>1, <3>2
  <2> QED
    BY <2>2, <2>3
<1>12. Len(t) - 1 = at
  BY <1>1, <1>3
<1> QED
  BY <1>3, <1>9, <1>10, <1>11, <1>12 DEF AreSpans

\* The spans after each position, and all its stages.
CollapseStep(set, indices, spans, n) ==
  IF n \in indices THEN Extend(set, FALSE, spans, n) ELSE spans
IsCollapse(set, indices, stages, last) ==
  stages = [n \in 0 .. last |->
              IF n = 0 THEN <<>> ELSE CollapseStep(set, indices, stages[n - 1], n)]

LEMMA CollapseGoesOn ==
  ASSUME NEW set, NEW indices, NEW last \in Nat, NEW f, IsCollapse(set, indices, f, last)
  PROVE  \E g : IsCollapse(set, indices, g, last + 1)
<1> DEFINE After(s, n) == CollapseStep(set, indices, s, n)
           g == [n \in 0 .. last + 1 |-> IF n = last + 1 THEN After(f[last], n) ELSE f[n]]
<1>1. f = [n \in 0 .. last |-> IF n = 0 THEN <<>> ELSE After(f[n - 1], n)]
  BY DEF IsCollapse
<1> HIDE DEF After
<1>2. ASSUME NEW n \in 0 .. last + 1
      PROVE  g[n] = IF n = 0 THEN <<>> ELSE After(g[n - 1], n)
  <2>1. CASE n = last + 1
    <3>1. g[n - 1] = f[last] /\ n # 0
      BY <2>1
    <3> QED
      BY <2>1, <3>1
  <2>2. CASE n # last + 1
    <3>1. n \in 0 .. last /\ (n # 0 => n - 1 \in 0 .. last + 1 /\ n - 1 # last + 1)
      BY <2>2
    <3>2. g[n] = f[n] /\ (n # 0 => g[n - 1] = f[n - 1])
      BY <2>2, <3>1
    <3> QED
      BY <1>1, <3>1, <3>2
  <2> QED
    BY <2>1, <2>2
<1>3. g = [n \in 0 .. last + 1 |-> g[n]]
  OBVIOUS
<1> HIDE DEF g
<1>4. g = [n \in 0 .. last + 1 |-> IF n = 0 THEN <<>> ELSE After(g[n - 1], n)]
  BY <1>2, <1>3
<1> QED
  BY <1>4 DEF IsCollapse, After

LEMMA CollapseExists ==
  ASSUME NEW set, NEW indices, NEW last \in Nat
  PROVE  \E f : IsCollapse(set, indices, f, last)
<1> DEFINE T == {n \in Nat : ~\E f : IsCollapse(set, indices, f, n)}
<1> SUFFICES ASSUME T # {} PROVE FALSE
  OBVIOUS
<1>1. PICK n \in T : \A k \in T : n <= k
  <2>1. T \subseteq Nat
    OBVIOUS
  <2> HIDE DEF T
  <2> QED
    BY <2>1, Least
<1>2. CASE n = 0
  <2>1. IsCollapse(set, indices, [k \in 0 .. 0 |-> <<>>], 0)
    BY DEF IsCollapse
  <2> QED
    BY <1>2, <2>1
<1>3. CASE n # 0
  <2>1. n - 1 \in Nat /\ n - 1 \notin T /\ (n - 1) + 1 = n
    BY <1>1, <1>3
  <2>2. PICK f : IsCollapse(set, indices, f, n - 1)
    BY <2>1
  <2>3. \E g : IsCollapse(set, indices, g, (n - 1) + 1)
    <3> HIDE DEF T
    <3> QED
      BY <2>1, <2>2, CollapseGoesOn
  <2> QED
    BY <2>1, <2>3
<1> QED
  BY <1>2, <1>3

LEMMA CollapseIsLast ==
  ASSUME NEW set, NEW indices, NEW last \in Nat
  PROVE  \E f : /\ IsCollapse(set, indices, f, last)
                /\ Collapse(set, last, indices, FALSE) = f[last]
<1> DEFINE f == CHOOSE g : IsCollapse(set, indices, g, last)
<1>1. IsCollapse(set, indices, f, last)
  BY CollapseExists
<1>2. Collapse(set, last, indices, FALSE) = f[last]
  BY DEF Collapse, IsCollapse, CollapseStep
<1> QED
  BY <1>1, <1>2

LEMMA CollapseSteps ==
  ASSUME NEW set, NEW indices, NEW spans, NEW n \in Nat, AreSpans(set, indices, spans, n)
  PROVE  AreSpans(set, indices, CollapseStep(set, indices, spans, n + 1), n + 1)
<1>1. CASE n + 1 \notin indices
  <2>1. \A k \in Nat : k \in indices /\ k <= n + 1 <=> k \in indices /\ k <= n
    BY <1>1
  <2>2. \A i \in 1 .. Len(spans) : spans[i].last \in Nat
    BY SpanParts
  <2> QED
    BY <1>1, <2>1, <2>2 DEF AreSpans, CollapseStep
<1>2. CASE n + 1 \in indices /\ Len(spans) > 0 /\ spans[Len(spans)].last = n
  <2>1. CollapseStep(set, indices, spans, n + 1) =
          [spans EXCEPT ![Len(spans)] = Span(set, @.first, n + 1, @.count + 1)]
    BY <1>2 DEF CollapseStep, Extend
  <2> QED
    BY <1>2, <2>1, SpanJoins
<1>3. CASE n + 1 \in indices /\ ~(Len(spans) > 0 /\ spans[Len(spans)].last = n)
  <2>1. CollapseStep(set, indices, spans, n + 1) = Append(spans, Span(set, n + 1, n + 1, 1))
    BY <1>3 DEF CollapseStep, Extend
  <2> QED
    BY <1>3, <2>1, SpanOpens
<1> QED
  BY <1>1, <1>2, <1>3

LEMMA CollapseHolds ==
  ASSUME NEW set, NEW indices, NEW last \in Nat, indices \subseteq 1 .. last
  PROVE  AreSpans(set, indices, Collapse(set, last, indices, FALSE), last)
<1>1. PICK f : /\ IsCollapse(set, indices, f, last)
               /\ Collapse(set, last, indices, FALSE) = f[last]
  BY CollapseIsLast
<1> DEFINE T == {n \in 0 .. last : ~AreSpans(set, indices, f[n], n)}
<1>2. T = {}
  <2> SUFFICES ASSUME T # {} PROVE FALSE
    OBVIOUS
  <2>1. PICK n \in T : \A k \in T : n <= k
    <3>1. T \subseteq Nat
      OBVIOUS
    <3> HIDE DEF T
    <3> QED
      BY <3>1, Least
  <2>2. n \in 0 .. last /\ ~AreSpans(set, indices, f[n], n)
    OBVIOUS
  <2>3. CASE n = 0
    <3>1. f[0] = <<>>
      BY <1>1 DEF IsCollapse
    <3>2. AreSpans(set, indices, <<>>, 0)
      BY DEF AreSpans
    <3> QED
      BY <2>2, <2>3, <3>1, <3>2
  <2>4. CASE n # 0
    <3>1. n - 1 \in Nat /\ n - 1 \in 0 .. last /\ ~(n <= n - 1) /\ (n - 1) + 1 = n
      BY <2>2, <2>4
    <3>2. AreSpans(set, indices, f[n - 1], n - 1)
      BY <2>1, <3>1
    <3>3. f[n] = CollapseStep(set, indices, f[n - 1], n)
      BY <1>1, <2>2, <2>4 DEF IsCollapse
    <3>4. AreSpans(set, indices, CollapseStep(set, indices, f[n - 1], (n - 1) + 1), (n - 1) + 1)
      <4> HIDE DEF T
      <4> QED
        BY <3>1, <3>2, CollapseSteps
    <3> QED
      BY <2>2, <3>1, <3>3, <3>4
  <2> QED
    BY <2>3, <2>4
<1>3. last \in 0 .. last
  OBVIOUS
<1> QED
  BY <1>1, <1>2, <1>3

\* The object of a matched row, and what goes with it.
IsObject(history, matches, object, row) ==
  /\ row.path \in matches
  /\ object.path = row.path /\ object.hash = row.hash
  /\ object.spans = [set \in {s \in DOMAIN history : SeenAt(history, s, row) # {}} |->
                       Collapse(set, Len(history[set]), SeenAt(history, set, row), FALSE)]
  /\ object.alsoBacks = {r.path : r \in {s \in RowsRead(history) :
                           s.hash = row.hash /\ s.path \notin matches}}

LEMMA ObjectIs ==
  ASSUME NEW history, NEW matches, NEW object \in FindInSnapshots(history, matches, FALSE).objects
  PROVE  \E row \in RowsRead(history) : IsObject(history, matches, object, row)
<1> DEFINE matched == {row \in RowsRead(history) : row.path \in matches}
           others == OtherPaths(history, {r.hash : r \in matched}, {r.path : r \in matched})
           ObjectOf(row) ==
             [path |-> row.path, hash |-> row.hash,
              spans |-> [set \in {s \in DOMAIN history : SeenAt(history, s, row) # {}} |->
                           Collapse(set, Len(history[set]), SeenAt(history, set, row), FALSE)],
              alsoBacks |-> {o.path : o \in {p \in others : p.hash = row.hash}}]
<1>1. FindInSnapshots(history, matches, FALSE).objects = {ObjectOf(row) : row \in matched}
  BY DEF FindInSnapshots
<1>2. PICK row \in matched : object = ObjectOf(row)
  BY <1>1
<1>3. {p \in others : p.hash = row.hash} =
        {s \in RowsRead(history) : s.hash = row.hash /\ s.path \notin matches}
  <2>1. \A s \in RowsRead(history) : s.path \in {r.path : r \in matched} <=> s.path \in matches
    OBVIOUS
  <2> QED
    BY <2>1 DEF OtherPaths
<1> HIDE DEF others
<1>4. row \in RowsRead(history) /\ row.path \in matches
  OBVIOUS
<1> HIDE DEF matched
<1>5. IsObject(history, matches, object, row)
  BY <1>2, <1>3, <1>4 DEF IsObject
<1> QED
  BY <1>4, <1>5

\* Whatever a history holds, the spans find tells of an object are the runs of
\* snapshots that record it, and all other paths of its content come with it
\* (findInSnapshots, collapse).
THEOREM FindTellsRuns ==
  ASSUME NEW history, IsHistory(history), NEW matches,
         NEW object \in FindInSnapshots(history, matches, FALSE).objects
  PROVE  /\ \A set \in DOMAIN object.spans : SpansAreRuns(history, object, set)
         /\ BacksAll(history, object, matches)
<1>1. PICK row \in RowsRead(history) : IsObject(history, matches, object, row)
  BY ObjectIs
<1>2. row = Row(row.path, row.hash)
  <2>1. PICK set \in DOMAIN history :
          row \in UNION {history[set][i].rows : i \in Readable(history, set)}
    BY DEF RowsRead
  <2>2. PICK i \in Readable(history, set) : row \in history[set][i].rows
    BY <2>1
  <2> QED
    BY <2>2 DEF IsHistory, Readable
<1>3. ASSUME NEW set \in DOMAIN object.spans
      PROVE  SpansAreRuns(history, object, set)
  <2>1. /\ set \in DOMAIN history
        /\ object.spans[set] =
             Collapse(set, Len(history[set]), SeenAt(history, set, row), FALSE)
    BY <1>1 DEF IsObject
  <2>2. Len(history[set]) \in Nat /\ DOMAIN history[set] = 1 .. Len(history[set])
    BY <2>1 DEF IsHistory
  <2>3. SeenAt(history, set, row) = {i \in DOMAIN history[set] :
           /\ ~history[set][i].damaged
           /\ Row(object.path, object.hash) \in history[set][i].rows}
    BY <1>1, <1>2 DEF SeenAt, Readable, IsObject
  <2>4. PICK spans, held : spans = object.spans[set] /\ held = SeenAt(history, set, row)
    OBVIOUS
  <2>5. AreSpans(set, held, spans, Len(history[set])) /\ held \subseteq 1 .. Len(history[set])
    BY <2>1, <2>2, <2>3, <2>4, CollapseHolds
  <2>6. /\ DOMAIN spans = 1 .. Len(spans)
        /\ \A i \in 1 .. Len(spans) : spans[i].first \in Nat /\ spans[i].last \in Nat
    BY <2>5, SpanParts
  <2>7. UNION {spans[i].first .. spans[i].last : i \in DOMAIN spans} = held
    <3>1. ASSUME NEW k \in UNION {spans[i].first .. spans[i].last : i \in DOMAIN spans}
          PROVE  k \in held
      <4>1. PICK i \in 1 .. Len(spans) : k \in spans[i].first .. spans[i].last
        BY <2>6
      <4>2. k \in Nat /\ spans[i].first <= k /\ k <= spans[i].last
        BY <2>6, <4>1
      <4> QED
        BY <2>5, <4>2 DEF AreSpans
    <3>2. ASSUME NEW k \in held
          PROVE  k \in UNION {spans[i].first .. spans[i].last : i \in DOMAIN spans}
      <4>1. k \in Nat /\ k <= Len(history[set])
        BY <2>2, <2>5
      <4>2. PICK i \in 1 .. Len(spans) : spans[i].first <= k /\ k <= spans[i].last
        BY <2>5, <4>1 DEF AreSpans
      <4>3. k \in spans[i].first .. spans[i].last
        BY <2>6, <4>1, <4>2
      <4> QED
        BY <2>6, <4>3
    <3> QED
      BY <3>1, <3>2
  <2>8. \A i \in DOMAIN spans : spans[i].count = Cardinality(spans[i].first .. spans[i].last)
    <3> TAKE i \in DOMAIN spans
    <3>1. /\ spans[i].first <= spans[i].last
          /\ spans[i].count = spans[i].last - spans[i].first + 1
      BY <2>5, <2>6 DEF AreSpans
    <3>2. PICK a, b : a = spans[i].first /\ b = spans[i].last
      OBVIOUS
    <3>3. a \in Int /\ b \in Int /\ ~(a > b)
      BY <2>6, <3>1, <3>2
    <3>4. Cardinality(a .. b) = b - a + 1
      BY <3>3, FS_Interval
    <3> QED
      BY <3>1, <3>2, <3>4
  <2>9. \A i \in 1 .. Len(spans) - 1 : spans[i].last + 1 < spans[i + 1].first
    BY <2>5 DEF AreSpans
  <2>10. LET all == object.spans[set]
         IN  /\ UNION {all[i].first .. all[i].last : i \in DOMAIN all}
                   = {i \in DOMAIN history[set] :
                        /\ ~history[set][i].damaged
                        /\ Row(object.path, object.hash) \in history[set][i].rows}
             /\ \A i \in DOMAIN all : all[i].count = Cardinality(all[i].first .. all[i].last)
             /\ \A i \in 1 .. Len(all) - 1 : all[i].last + 1 < all[i + 1].first
    BY <2>3, <2>4, <2>7, <2>8, <2>9
  <2> QED
    BY <2>10, Zenon DEF SpansAreRuns
<1>4. BacksAll(history, object, matches)
  BY <1>1 DEF IsObject, BacksAll
<1> QED
  BY <1>3, <1>4

-----------------------------------------------------------------------------
(***************************************************************************)
(* What is said of a bucket.  The references are records of rows merged    *)
(* by hash and path; what is shown is that a report made of them says of   *)
(* each row what a look at that row and its object would.                  *)
(***************************************************************************)

\* A reference stands for the rows of one hash and path, and for each of them.
LEMMA ReferencesAreRows ==
  ASSUME NEW b, NEW set
  PROVE  /\ \A r \in AddSnapshotReferences(b, set) :
              /\ \E row \in RowsOf(b, set) : row.hash = r.hash /\ row.path = r.path
              /\ \A s \in r.sizes : \E row \in RowsOf(b, set) :
                   row.hash = r.hash /\ row.path = r.path /\ row.size = s
              /\ \A n \in r.snapshots :
                   /\ n \in Checked(b, set)
                   /\ \E row \in b.snapshots[set][n].rows : row.hash = r.hash
         /\ \A n \in Checked(b, set) : \A row \in b.snapshots[set][n].rows :
              \E r \in AddSnapshotReferences(b, set) :
                 /\ row.hash = r.hash /\ row.path = r.path
                 /\ row.size \in r.sizes /\ n \in r.snapshots
<1> DEFINE rows == UNION {{[name |-> n, row |-> r] : r \in b.snapshots[set][n].rows} :
                            n \in Checked(b, set)}
           alike(e) == {g \in rows : g.row.hash = e.row.hash /\ g.row.path = e.row.path}
           ref(e) == [hash |-> e.row.hash, path |-> e.row.path,
                      sizes |-> {f.row.size : f \in alike(e)},
                      snapshots |-> {f.name : f \in alike(e)}]
<1>1. AddSnapshotReferences(b, set) = {ref(e) : e \in rows}
  BY DEF AddSnapshotReferences
<1>2. \A e \in rows : /\ e.name \in Checked(b, set)
                      /\ e.row \in b.snapshots[set][e.name].rows
                      /\ e.row \in RowsOf(b, set)
  BY DEF RowsOf
<1>3. \A n \in Checked(b, set) : \A row \in b.snapshots[set][n].rows :
        \E e \in rows : e.name = n /\ e.row = row
  <2> SUFFICES ASSUME NEW n \in Checked(b, set), NEW row \in b.snapshots[set][n].rows
      PROVE  [name |-> n, row |-> row] \in rows
    OBVIOUS
  <2> QED OBVIOUS
<1> HIDE DEF rows
<1>4. ASSUME NEW r \in AddSnapshotReferences(b, set)
      PROVE  /\ \E row \in RowsOf(b, set) : row.hash = r.hash /\ row.path = r.path
             /\ \A s \in r.sizes : \E row \in RowsOf(b, set) :
                   row.hash = r.hash /\ row.path = r.path /\ row.size = s
             /\ \A n \in r.snapshots :
                   /\ n \in Checked(b, set)
                   /\ \E row \in b.snapshots[set][n].rows : row.hash = r.hash
  <2>1. PICK e \in rows : r = ref(e)
    BY <1>1
  <2>2. r.hash = e.row.hash /\ r.path = e.row.path
        /\ r.sizes = {f.row.size : f \in alike(e)} /\ r.snapshots = {f.name : f \in alike(e)}
    BY <2>1
  <2> QED BY <1>2, <2>2
<1>5. ASSUME NEW n \in Checked(b, set), NEW row \in b.snapshots[set][n].rows
      PROVE  \E r \in AddSnapshotReferences(b, set) :
                 /\ row.hash = r.hash /\ row.path = r.path
                 /\ row.size \in r.sizes /\ n \in r.snapshots
  <2>1. PICK e \in rows : e.name = n /\ e.row = row
    BY <1>3
  <2>2. ref(e) \in AddSnapshotReferences(b, set) /\ e \in alike(e)
    BY <1>1
  <2>3. /\ row.hash = ref(e).hash /\ row.path = ref(e).path
        /\ row.size \in ref(e).sizes /\ n \in ref(e).snapshots
    BY <2>1, <2>2
  <2> QED BY <2>2, <2>3
<1> QED BY <1>4, <1>5

\* The deletions that explain an absence are those the reports promise.
LEMMA DeletionExplains ==
  ASSUME NEW b, IsBucket(b), NEW h
  PROVE  h \in ExplainingDeletions(b) <=> DeletedSince(b, h)
<1> SUFFICES ASSUME h \in DOMAIN b.deleted
    PROVE  ~RuledOut(b, h) <=>
             \A set \in DOMAIN b.snapshots : \A n \in Checked(b, set) :
               (\E r \in b.snapshots[set][n].rows : r.hash = h) =>
                  0 < b.snapshots[set][n].start /\ b.snapshots[set][n].start < b.deleted[h]
  BY DEF ExplainingDeletions, DeletedSince, SetsOf
<1>1. ASSUME NEW set \in DOMAIN b.snapshots, NEW n \in Checked(b, set)
      PROVE  /\ b.snapshots[set][n].start \in Nat /\ b.deleted[h] \in Nat
             /\ (\E r \in AddSnapshotReferences(b, set) :
                   r.hash = h /\ n \in r.snapshots)
                <=> \E r \in b.snapshots[set][n].rows : r.hash = h
  <2>1. n \in DOMAIN b.snapshots[set]
    BY DEF Checked, NamesOf
  <2>2. b.snapshots[set][n].start \in Nat /\ b.deleted[h] \in Nat
    BY <2>1 DEF IsBucket
  <2>3. ASSUME NEW r \in AddSnapshotReferences(b, set), r.hash = h, n \in r.snapshots
        PROVE  \E row \in b.snapshots[set][n].rows : row.hash = h
    BY <2>3, ReferencesAreRows
  <2>4. ASSUME NEW row \in b.snapshots[set][n].rows, row.hash = h
        PROVE  \E r \in AddSnapshotReferences(b, set) :
                   r.hash = h /\ n \in r.snapshots
    BY <2>4, ReferencesAreRows
  <2> QED BY <2>2, <2>3, <2>4
<1>2. ~RuledOut(b, h) <=>
        \A set \in DOMAIN b.snapshots : \A n \in Checked(b, set) :
          (\E r \in AddSnapshotReferences(b, set) : r.hash = h /\ n \in r.snapshots) =>
             ~(b.snapshots[set][n].start = 0 \/ b.deleted[h] <= b.snapshots[set][n].start)
  <2>1. \A set : \A r \in AddSnapshotReferences(b, set) :
          r.snapshots \subseteq Checked(b, set)
    BY ReferencesAreRows
  <2> QED BY <2>1 DEF RuledOut, Pointing, SetsOf, NoStart
<1>3. \A s, d \in Nat : ~(s = 0 \/ d <= s) <=> 0 < s /\ s < d
  OBVIOUS
<1> QED BY <1>1, <1>2, <1>3

\* What verify finds of a set, row by row.
SaidOf(b, row) ==
  CASE row.hash \notin DOMAIN b.stored ->
         IF DeletedSince(b, row.hash) THEN "expected" ELSE "missing"
    [] row.hash \in DOMAIN b.stored /\ b.stored[row.hash].archived -> "archived"
    [] OTHER -> IF b.stored[row.hash].size = row.size THEN "sound" ELSE "wrong-size"

\* Verify's report of a set is what is told of its rows, with the rows refused.
LEMMA VerifyByRow ==
  ASSUME NEW b, IsBucket(b), NEW set \in DOMAIN b.snapshots
  PROVE  LET report == VerifySet(b, set)
             told(row) == Problem(row.path, SaidOf(b, row), row.hash)
             rows == RowsOf(b, set)
             refused == UNION {b.snapshots[set][n].refused : n \in Checked(b, set)}
         IN  /\ report.problems =
                  {told(row) : row \in {r \in rows : SaidOf(b, r) \notin {"sound", "expected"}}}
                  \cup {Problem(r.path, "invalid", r.hash) : r \in refused}
             /\ report.expectedMissing =
                  {told(row) : row \in {r \in rows : SaidOf(b, r) = "expected"}}
             /\ report.unreadable = Unreadable(b, set)
             /\ report.snapshotsChecked = Cardinality(Checked(b, set))
<1> DEFINE references == AddSnapshotReferences(b, set)
           missing == {r \in references : r.hash \notin DOMAIN b.stored}
           archived == {r \in references \ missing : b.stored[r.hash].archived}
           readable == references \ (missing \cup archived)
           expected == {r \in missing : r.hash \in ExplainingDeletions(b)}
           wrongSize == UNION {{Problem(d.path, "wrong-size", hash) :
                               d \in SizeDisagreements(readable, hash, b.stored[hash].size)} :
                              hash \in HashesIn(readable)}
           refused == UNION {b.snapshots[set][n].refused : n \in Checked(b, set)}
           rows == RowsOf(b, set)
           report == VerifySet(b, set)
           told(row) == Problem(row.path, SaidOf(b, row), row.hash)
           asMissing == {Problem(r.path, "missing", r.hash) : r \in missing \ expected}
           asArchived == {Problem(r.path, "archived", r.hash) : r \in archived}
           asExpected == {Problem(r.path, "expected", r.hash) : r \in expected}
           asInvalid == {Problem(r.path, "invalid", r.hash) : r \in refused}
<1>1. /\ report.problems = asMissing \cup asArchived \cup wrongSize \cup asInvalid
      /\ report.expectedMissing = asExpected
      /\ report.unreadable = Unreadable(b, set)
      /\ report.snapshotsChecked = Cardinality(Checked(b, set))
  <2>1. report = [problems |-> asMissing \cup asArchived \cup wrongSize \cup asInvalid,
                  expectedMissing |-> asExpected,
                  snapshotsChecked |-> Cardinality(Checked(b, set)),
                  unreadable |-> Unreadable(b, set)]
    BY DEF VerifySet
  <2> HIDE DEF report, asMissing, asArchived, wrongSize, asInvalid, asExpected
  <2> QED BY <2>1
<1>2. /\ \A r \in references : \E row \in rows : row.hash = r.hash /\ row.path = r.path
      /\ \A r \in references : \A s \in r.sizes : \E row \in rows :
           row.hash = r.hash /\ row.path = r.path /\ row.size = s
      /\ \A row \in rows : \E r \in references :
           row.hash = r.hash /\ row.path = r.path /\ row.size \in r.sizes
  BY ReferencesAreRows DEF RowsOf
<1> HIDE DEF references, rows, report
<1>3. asMissing = {told(row) : row \in {r \in rows : SaidOf(b, r) = "missing"}}
  BY <1>2, DeletionExplains DEF SaidOf, Problem
<1>4. asExpected = {told(row) : row \in {r \in rows : SaidOf(b, r) = "expected"}}
  BY <1>2, DeletionExplains DEF SaidOf, Problem
<1>5. asArchived = {told(row) : row \in {r \in rows : SaidOf(b, r) = "archived"}}
  BY <1>2 DEF SaidOf, Problem
<1>6. wrongSize = {told(row) : row \in {r \in rows : SaidOf(b, r) = "wrong-size"}}
  <2>1. \A r : r \in readable <=> /\ r \in references /\ r.hash \in DOMAIN b.stored
                                  /\ ~b.stored[r.hash].archived
    OBVIOUS
  <2> HIDE DEF readable
  <2>2. ASSUME NEW row \in rows, SaidOf(b, row) = "wrong-size"
        PROVE  told(row) \in wrongSize
    <3>1. PICK r \in references : row.hash = r.hash /\ row.path = r.path /\ row.size \in r.sizes
      BY <1>2
    <3>2. r \in readable /\ row.size # b.stored[r.hash].size
      BY <2>1, <2>2, <3>1 DEF SaidOf
    <3>3. [path |-> r.path, recordedSize |-> row.size]
            \in SizeDisagreements(readable, r.hash, b.stored[r.hash].size)
      BY <3>1, <3>2 DEF SizeDisagreements, Pointing
    <3>4. r.hash \in HashesIn(readable)
      BY <3>2 DEF HashesIn
    <3>5. Problem(r.path, "wrong-size", r.hash) \in wrongSize
      BY <3>3, <3>4
    <3> QED BY <2>2, <3>1, <3>5
  <2>3. ASSUME NEW x \in wrongSize
        PROVE  \E row \in rows : SaidOf(b, row) = "wrong-size" /\ x = told(row)
    <3> DEFINE Wrong(hash) ==
                 {Problem(d.path, "wrong-size", hash) :
                    d \in SizeDisagreements(readable, hash, b.stored[hash].size)}
    <3>a. x \in UNION {Wrong(hash) : hash \in HashesIn(readable)}
      BY <2>3
    <3> HIDE DEF Wrong
    <3>b. PICK hash \in HashesIn(readable) : x \in Wrong(hash)
      BY <3>a
    <3>1. PICK d \in SizeDisagreements(readable, hash, b.stored[hash].size) :
            x = Problem(d.path, "wrong-size", hash)
      BY <3>b DEF Wrong, Problem
    <3>2. PICK r \in readable : /\ r.hash = hash
                                /\ \E s \in r.sizes \ {b.stored[hash].size} :
                                     d = [path |-> r.path, recordedSize |-> s]
      BY DEF SizeDisagreements, Pointing
    <3>c. PICK s \in r.sizes \ {b.stored[hash].size} :
            d = [path |-> r.path, recordedSize |-> s]
      BY <3>2
    <3>d. x = Problem(r.path, "wrong-size", hash)
      BY <3>1, <3>c
    <3>3. PICK row \in rows : row.hash = r.hash /\ row.path = r.path /\ row.size = s
      BY <1>2, <2>1
    <3>4. SaidOf(b, row) = "wrong-size"
      BY <2>1, <3>2, <3>3 DEF SaidOf
    <3> QED BY <3>2, <3>3, <3>4, <3>d
  <2> HIDE DEF wrongSize
  <2> QED BY <2>2, <2>3
<1>7. \A r : SaidOf(b, r) \in {"missing", "expected", "archived", "sound", "wrong-size"}
  BY DEF SaidOf
<1> HIDE DEF asMissing, asArchived, wrongSize, asInvalid, asExpected, told
<1>8. asMissing \cup asArchived \cup wrongSize =
        {told(row) : row \in {r \in rows : SaidOf(b, r) \notin {"sound", "expected"}}}
  BY <1>3, <1>5, <1>6, <1>7
<1> USE DEF report, rows, asInvalid, told
<1> QED BY <1>1, <1>4, <1>8

\* When the parts of that report are empty.
LEMMA Findings ==
  ASSUME NEW b, IsBucket(b), NEW set \in DOMAIN b.snapshots
  PROVE  /\ (VerifySet(b, set).problems = {}) <=>
              /\ \A r \in RowsOf(b, set) : SaidOf(b, r) \in {"sound", "expected"}
              /\ \A n \in Checked(b, set) : b.snapshots[set][n].refused = {}
         /\ VerifySet(b, set).unreadable = Unreadable(b, set)
         /\ (VerifySet(b, set).snapshotsChecked = 0) <=> (Checked(b, set) = {})
<1> DEFINE refused == UNION {b.snapshots[set][n].refused : n \in Checked(b, set)}
           told(row) == Problem(row.path, SaidOf(b, row), row.hash)
           broken == {told(row) : row \in {r \in RowsOf(b, set) :
                                             SaidOf(b, r) \notin {"sound", "expected"}}}
           invalid == {Problem(r.path, "invalid", r.hash) : r \in refused}
<1>1. /\ VerifySet(b, set).problems = broken \cup invalid
      /\ VerifySet(b, set).unreadable = Unreadable(b, set)
      /\ VerifySet(b, set).snapshotsChecked = Cardinality(Checked(b, set))
  BY VerifyByRow
<1>2. broken = {} <=> \A r \in RowsOf(b, set) : SaidOf(b, r) \in {"sound", "expected"}
  OBVIOUS
<1>3. invalid = {} <=> refused = {}
  OBVIOUS
<1>4. refused = {} <=> \A n \in Checked(b, set) : b.snapshots[set][n].refused = {}
  OBVIOUS
<1>5. Cardinality(Checked(b, set)) = 0 <=> Checked(b, set) = {}
  <2>1. IsFiniteSet(Checked(b, set))
    <3>1. IsFiniteSet(DOMAIN b.snapshots[set]) /\ Checked(b, set) \subseteq DOMAIN b.snapshots[set]
      BY DEF IsBucket, Checked, NamesOf
    <3> QED BY <3>1, FS_Subset
  <2> QED BY <2>1, FS_EmptySet
<1> HIDE DEF broken, invalid, refused
<1> QED BY <1>1, <1>2, <1>3, <1>4, <1>5

\* Verify is quiet of a set exactly when all its rows restore, but for what was
\* deleted after every backup that lists it had begun (lib/verify.mjs).
THEOREM QuietAlwaysMeansRestorable ==
  ASSUME NEW b, IsBucket(b)
  PROVE  QuietMeansRestorable(b, Verify(b))
<1> SUFFICES ASSUME NEW set \in DOMAIN b.snapshots
    PROVE  ~SetHasFindings(VerifySet(b, set)) <=>
              /\ NamesOf(b, set) # {}
              /\ Unreadable(b, set) = {}
              /\ \A n \in NamesOf(b, set) : b.snapshots[set][n].refused = {}
              /\ \A r \in RowsOf(b, set) :
                    \/ Restorable(b, r)
                    \/ r.hash \notin DOMAIN b.stored /\ DeletedSince(b, r.hash)
  BY DEF QuietMeansRestorable, Verify, SetsOf
<1>1. \A r : SaidOf(b, r) \in {"sound", "expected"} <=>
               \/ Restorable(b, r)
               \/ r.hash \notin DOMAIN b.stored /\ DeletedSince(b, r.hash)
  BY DEF SaidOf, Restorable
<1>2. Unreadable(b, set) = {} => Checked(b, set) = NamesOf(b, set)
  BY DEF Unreadable, Checked
<1> QED BY <1>1, <1>2, Findings DEF SetHasFindings

\* A row that doesn't restore is named, once: as a fault or as deleted
\* (lib/verify.mjs).
THEOREM EachBrokenRowAlwaysNamed ==
  ASSUME NEW b, IsBucket(b)
  PROVE  EachBrokenRowNamed(b, Verify(b))
<1> SUFFICES ASSUME NEW set \in DOMAIN b.snapshots, NEW r \in RowsOf(b, set)
    PROVE  LET told == {p.problem : p \in {q \in VerifySet(b, set).problems
                                               \cup VerifySet(b, set).expectedMissing :
                                             /\ q.path = r.path /\ q.hash = r.hash
                                             /\ q.problem # "invalid"}}
           IN  /\ ~Restorable(b, r) => told # {}
               /\ Cardinality(told) <= 1
  BY DEF EachBrokenRowNamed, Verify, SetsOf
<1> DEFINE all == VerifySet(b, set).problems \cup VerifySet(b, set).expectedMissing
           of == {q \in all : q.path = r.path /\ q.hash = r.hash /\ q.problem # "invalid"}
           told == {p.problem : p \in of}
           say(row) == Problem(row.path, SaidOf(b, row), row.hash)
           refused == UNION {b.snapshots[set][n].refused : n \in Checked(b, set)}
<1>1. all = {say(row) : row \in {x \in RowsOf(b, set) : SaidOf(b, x) # "sound"}}
              \cup {Problem(x.path, "invalid", x.hash) : x \in refused}
  <2>1. /\ VerifySet(b, set).problems =
             {say(row) : row \in {x \in RowsOf(b, set) : SaidOf(b, x) \notin {"sound", "expected"}}}
             \cup {Problem(x.path, "invalid", x.hash) : x \in refused}
        /\ VerifySet(b, set).expectedMissing =
             {say(row) : row \in {x \in RowsOf(b, set) : SaidOf(b, x) = "expected"}}
    BY VerifyByRow
  <2> HIDE DEF say, refused
  <2> QED BY <2>1
<1> HIDE DEF all
<1>2. \A row : /\ SaidOf(b, row) # "invalid"
               /\ ~Restorable(b, row) <=> SaidOf(b, row) # "sound"
  BY DEF SaidOf, Restorable
<1>3. \A row : say(row).path = row.path /\ say(row).hash = row.hash
               /\ say(row).problem = SaidOf(b, row)
  BY DEF Problem
<1>4. ~Restorable(b, r) => say(r) \in of
  BY <1>1, <1>2, <1>3
<1>5. \A q \in of : \E row \in RowsOf(b, set) :
        SaidOf(b, row) # "sound" /\ row.hash = r.hash /\ q.problem = SaidOf(b, row)
  BY <1>1, <1>3 DEF Problem
<1>6. \A x, y : x.hash = y.hash /\ SaidOf(b, x) # "sound" /\ SaidOf(b, y) # "sound"
                  => SaidOf(b, x) = SaidOf(b, y)
  BY DEF SaidOf
<1>7. \A p, q \in told : p = q
  BY <1>5, <1>6
<1> HIDE DEF of, say
<1>8. Cardinality(told) <= 1
  <2>1. CASE told = {}
    BY <2>1, FS_EmptySet
  <2>2. CASE told # {}
    <3>1. PICK p \in told : TRUE
      BY <2>2
    <3> HIDE DEF told
    <3>2. told = {p}
      BY <1>7
    <3> QED BY <3>2, FS_Singleton
  <2> QED BY <2>1, <2>2
<1> QED BY <1>4, <1>8 DEF of, all

\* What is referenced is what the rows of the snapshots that read name.
LEMMA ReferencedByRow ==
  ASSUME NEW b
  PROVE  /\ \A set, h : h \in HashesIn(AddSnapshotReferences(b, set)) <=>
              \E n \in Checked(b, set) : \E r \in b.snapshots[set][n].rows : r.hash = h
         /\ \A h : h \in ReferencedAnywhere(b) <=>
              \E set \in DOMAIN b.snapshots : \E n \in Checked(b, set) :
                 \E r \in b.snapshots[set][n].rows : r.hash = h
<1>1. ASSUME NEW set, NEW h
      PROVE  h \in HashesIn(AddSnapshotReferences(b, set)) <=>
               \E n \in Checked(b, set) : \E r \in b.snapshots[set][n].rows : r.hash = h
  <2>1. h \in HashesIn(AddSnapshotReferences(b, set)) <=>
          \E r \in AddSnapshotReferences(b, set) : r.hash = h
    BY DEF HashesIn
  <2>2. (\E r \in RowsOf(b, set) : r.hash = h) <=>
          \E n \in Checked(b, set) : \E r \in b.snapshots[set][n].rows : r.hash = h
    BY DEF RowsOf
  <2> QED BY <2>1, <2>2, ReferencesAreRows
<1> QED BY <1>1 DEF ReferencedAnywhere, SetsOf

\* A cleanup that acts takes nothing any snapshot file names, and verify says
\* after it what it said before (lib/cleanup.mjs).
THEOREM CleanupAlwaysLosesNothing ==
  ASSUME NEW b, IsBucket(b)
  PROVE  CleanupLosesNothing(b)
<1> SUFFICES ASSUME Cleanup(b, FALSE) = "acts"
    PROVE  /\ Named(b) \cap DOMAIN b.stored \subseteq DOMAIN AfterCleanup(b).stored
           /\ Verify(AfterCleanup(b)) = Verify(b)
  BY DEF CleanupLosesNothing
<1> DEFINE after == AfterCleanup(b)
           kept == DOMAIN b.stored \ PlanCleanup(b).orphans
<1>1. \A set \in DOMAIN b.snapshots :
        /\ Unreadable(b, set) = {}
        /\ \A n \in Checked(b, set) : b.snapshots[set][n].refused = {}
  <2> DEFINE unread == \E set \in SetsOf(b) : Unreadable(b, set) # {}
             invalid == InvalidRowSnapshots(b) # {}
             lost == PlanCleanup(b).missing # {}
  <2>1. ~unread /\ ~invalid
    <3>1. Cleanup(b, FALSE) = IF unread THEN "unreadable"
                              ELSE IF invalid THEN "invalidRows"
                              ELSE IF b.records # "sound" THEN b.records
                              ELSE IF lost THEN "missing" ELSE "acts"
      BY DEF Cleanup
    <3> HIDE DEF unread, invalid, lost
    <3> QED BY <3>1
  <2>2. ASSUME NEW set \in DOMAIN b.snapshots, NEW n \in Checked(b, set),
               b.snapshots[set][n].refused # {}
        PROVE  FALSE
    <3> DEFINE of(s) == {<<s, m>> : m \in {k \in Checked(b, s) : b.snapshots[s][k].refused # {}}}
    <3>1. <<set, n>> \in of(set)
      BY <2>2
    <3>2. InvalidRowSnapshots(b) = UNION {of(s) : s \in DOMAIN b.snapshots}
      BY DEF InvalidRowSnapshots, SetsOf
    <3> HIDE DEF of
    <3> QED BY <2>1, <3>1, <3>2
  <2> QED BY <2>1, <2>2 DEF SetsOf
<1>2. kept = DOMAIN b.stored \cap ReferencedAnywhere(b)
  BY DEF PlanCleanup
<1>3. after = [snapshots |-> b.snapshots, stored |-> [h \in kept |-> b.stored[h]],
               deleted |-> b.deleted, records |-> b.records]
  <2>1. b = [snapshots |-> b.snapshots, stored |-> b.stored, deleted |-> b.deleted,
             records |-> b.records]
    BY DEF IsBucket
  <2>2. after = [b EXCEPT !.stored = [h \in kept |-> b.stored[h]]]
    BY DEF AfterCleanup
  <2> HIDE DEF kept, after
  <2> QED BY <2>1, <2>2
<1> HIDE DEF kept, after
<1>4. /\ after.snapshots = b.snapshots /\ after.deleted = b.deleted
      /\ DOMAIN after.stored = kept /\ \A h \in kept : after.stored[h] = b.stored[h]
  BY <1>3
<1>5. Named(b) \cap DOMAIN b.stored \subseteq kept
  <2> SUFFICES ASSUME NEW h \in Named(b) PROVE h \in ReferencedAnywhere(b)
    BY <1>2
  <2>1. PICK set \in DOMAIN b.snapshots : \E n \in NamesOf(b, set) :
          \E r \in b.snapshots[set][n].rows \cup b.snapshots[set][n].refused : r.hash = h
    BY DEF Named, SetsOf
  <2>2. NamesOf(b, set) = Checked(b, set)
    BY <1>1 DEF Unreadable, Checked
  <2> QED BY <1>1, <2>1, <2>2, ReferencedByRow
<1>6. ASSUME NEW set \in DOMAIN b.snapshots
      PROVE  VerifySet(after, set) = VerifySet(b, set)
  <2>1. IsBucket(after)
    BY <1>3, <1>4 DEF IsBucket
  <2>2. /\ Checked(after, set) = Checked(b, set) /\ Unreadable(after, set) = Unreadable(b, set)
        /\ RowsOf(after, set) = RowsOf(b, set)
    BY <1>4 DEF Checked, Unreadable, RowsOf, NamesOf
  <2>3. \A h : DeletedSince(after, h) <=> DeletedSince(b, h)
    BY <1>4 DEF DeletedSince, SetsOf, Checked, NamesOf
  <2>4. \A r \in RowsOf(b, set) : r.hash \in ReferencedAnywhere(b)
    BY ReferencedByRow DEF RowsOf
  <2>5. \A r \in RowsOf(b, set) : SaidOf(after, r) = SaidOf(b, r)
    <3> SUFFICES ASSUME NEW r \in RowsOf(b, set) PROVE SaidOf(after, r) = SaidOf(b, r)
      OBVIOUS
    <3>1. r.hash \in DOMAIN after.stored <=> r.hash \in DOMAIN b.stored
      BY <1>2, <1>4, <2>4
    <3>2. r.hash \in DOMAIN b.stored => after.stored[r.hash] = b.stored[r.hash]
      BY <1>2, <1>4, <2>4
    <3> QED BY <2>3, <3>1, <3>2 DEF SaidOf
  <2>6. /\ VerifySet(after, set).problems = VerifySet(b, set).problems
        /\ VerifySet(after, set).expectedMissing = VerifySet(b, set).expectedMissing
    <3> DEFINE rows == RowsOf(b, set)
               refused(x) == UNION {x.snapshots[set][n].refused : n \in Checked(x, set)}
               say(x, row) == Problem(row.path, SaidOf(x, row), row.hash)
               broken(x) == {say(x, row) : row \in {r \in rows : SaidOf(x, r) \notin {"sound", "expected"}}}
               gone(x) == {say(x, row) : row \in {r \in rows : SaidOf(x, r) = "expected"}}
               invalid(x) == {Problem(r.path, "invalid", r.hash) : r \in refused(x)}
    <3>1. /\ VerifySet(b, set).problems = broken(b) \cup invalid(b)
          /\ VerifySet(b, set).expectedMissing = gone(b)
      BY VerifyByRow
    <3>2. /\ VerifySet(after, set).problems = broken(after) \cup invalid(after)
          /\ VerifySet(after, set).expectedMissing = gone(after)
      BY <1>4, <2>1, <2>2, VerifyByRow
    <3>3. invalid(after) = invalid(b)
      BY <1>4, <2>2
    <3>4. broken(after) = broken(b) /\ gone(after) = gone(b)
      BY <2>5
    <3> QED BY <3>1, <3>2, <3>3, <3>4
  <2>7. /\ VerifySet(after, set).unreadable = VerifySet(b, set).unreadable
        /\ VerifySet(after, set).snapshotsChecked = VerifySet(b, set).snapshotsChecked
    BY <1>4, <2>1, <2>2, VerifyByRow
  <2>8. \A x : VerifySet(x, set) =
          [problems |-> VerifySet(x, set).problems,
           expectedMissing |-> VerifySet(x, set).expectedMissing,
           snapshotsChecked |-> VerifySet(x, set).snapshotsChecked,
           unreadable |-> VerifySet(x, set).unreadable]
    BY DEF VerifySet
  <2> QED BY <2>6, <2>7, <2>8
<1> QED BY <1>4, <1>5, <1>6 DEF Verify, SetsOf, after

\* What forget previews as lost is what the next cleanup takes for it
\* (lib/unrestorable.mjs, commands/forget.mjs).
THEOREM PreviewIsAlwaysTheLoss ==
  ASSUME NEW b, IsBucket(b), NEW set \in DOMAIN b.snapshots, NEW selected
  PROVE  PreviewIsTheLoss(b, set, selected)
<1> DEFINE after == AfterForget(b, set, selected)
           left == [n \in DOMAIN b.snapshots[set] \ selected |-> b.snapshots[set][n]]
<1>1. after = [snapshots |-> [b.snapshots EXCEPT ![set] = left], stored |-> b.stored,
               deleted |-> b.deleted, records |-> b.records]
  <2>1. b = [snapshots |-> b.snapshots, stored |-> b.stored, deleted |-> b.deleted,
             records |-> b.records]
    BY DEF IsBucket
  <2>2. after = [b EXCEPT !.snapshots = [b.snapshots EXCEPT ![set] = left]]
    BY DEF AfterForget
  <2> HIDE DEF after, left
  <2> QED BY <2>1, <2>2
<1> HIDE DEF after
<1>2. /\ after.stored = b.stored
      /\ DOMAIN after.snapshots = DOMAIN b.snapshots
      /\ after.snapshots[set] = left
      /\ \A other \in DOMAIN b.snapshots \ {set} : after.snapshots[other] = b.snapshots[other]
  BY <1>1 DEF IsBucket
<1>3. /\ Checked(after, set) = Checked(b, set) \ selected
      /\ \A n \in Checked(after, set) : after.snapshots[set][n] = b.snapshots[set][n]
      /\ \A other \in DOMAIN b.snapshots \ {set} : Checked(after, other) = Checked(b, other)
  BY <1>2 DEF Checked, NamesOf
<1> DEFINE HasHash(s, n, h) == \E r \in b.snapshots[s][n].rows : r.hash = h
           Elsewhere(h) == \E other \in DOMAIN b.snapshots \ {set} :
                              \E n \in Checked(b, other) : HasHash(other, n, h)
<1>4. \A h : h \in ReferencedAnywhere(b) <=>
        Elsewhere(h) \/ \E n \in Checked(b, set) : HasHash(set, n, h)
  BY ReferencedByRow
<1>5. \A h : h \in ReferencedAnywhere(after) <=>
        Elsewhere(h) \/ \E n \in Checked(b, set) \ selected : HasHash(set, n, h)
  <2>1. \A h : h \in ReferencedAnywhere(after) <=>
          \E s \in DOMAIN b.snapshots : \E n \in Checked(after, s) :
             \E r \in after.snapshots[s][n].rows : r.hash = h
    BY <1>2, ReferencedByRow
  <2> QED BY <1>2, <1>3, <2>1
<1>6. \A h : h \in Orphaned(b, set, selected) <=>
        /\ \E n \in Checked(b, set) : HasHash(set, n, h)
        /\ \A n \in Checked(b, set) : HasHash(set, n, h) => n \in selected
        /\ ~Elsewhere(h)
  <2> DEFINE references == AddSnapshotReferences(b, set)
  <2>1. ASSUME NEW h
        PROVE  (\A r \in Pointing(references, h) : r.snapshots \subseteq selected) <=>
                 \A n \in Checked(b, set) : HasHash(set, n, h) => n \in selected
    <3>1. (\A r \in Pointing(references, h) : r.snapshots \subseteq selected) <=>
            \A r \in references : r.hash = h => \A n \in r.snapshots : n \in selected
      BY DEF Pointing
    <3> QED BY <3>1, ReferencesAreRows
  <2>2. \A h : h \in UNION {HashesIn(AddSnapshotReferences(b, other)) :
                             other \in DOMAIN b.snapshots \ {set}} <=> Elsewhere(h)
    BY ReferencedByRow
  <2>3. \A h : h \in HashesIn(references) <=> \E n \in Checked(b, set) : HasHash(set, n, h)
    BY ReferencedByRow
  <2> HIDE DEF references, HasHash, Elsewhere
  <2> QED BY <2>1, <2>2, <2>3 DEF Orphaned, SetsOf, references
<1> HIDE DEF HasHash, Elsewhere
<1>7. PlanUnrestorable(b, set, selected).orphaned \cap DOMAIN b.stored
        = Orphaned(b, set, selected) \cap DOMAIN b.stored
  BY DEF PlanUnrestorable, Gone
<1>8. /\ PlanCleanup(b).orphans = DOMAIN b.stored \ ReferencedAnywhere(b)
      /\ PlanCleanup(after).orphans = DOMAIN b.stored \ ReferencedAnywhere(after)
  BY <1>2 DEF PlanCleanup
<1> QED BY <1>4, <1>5, <1>6, <1>7, <1>8 DEF PreviewIsTheLoss, after

-----------------------------------------------------------------------------
(***************************************************************************)
(* Sums, and what forget's preview counts                                  *)
(***************************************************************************)

\* What the sum over a set has come to without the member taken first, with what
\* it is without it,
OneOf(s) == CHOOSE x \in s : TRUE
SumBody(f, g, s) == IF s = {} THEN 0 ELSE f[OneOf(s)] + g[s \ {OneOf(s)}]

\* and the sums over the subsets of up to n members.
UpTo(S, n) == {s \in SUBSET S : Cardinality(s) <= n}
AreSums(f, g, sets) == g = [s \in sets |-> SumBody(f, g, s)]
SumsBelow(f, g, S) == AreSums(f, g, SUBSET S)

LEMMA OneIsOf ==
  ASSUME NEW s, s # {}
  PROVE  OneOf(s) \in s
BY DEF OneOf

\* A set less one of its members.
LEMMA OneLess ==
  ASSUME NEW s, IsFiniteSet(s), NEW x \in s
  PROVE  /\ IsFiniteSet(s \ {x}) /\ Cardinality(s) \in Nat /\ Cardinality(s) # 0
         /\ Cardinality(s \ {x}) = Cardinality(s) - 1 /\ Cardinality(s \ {x}) \in Nat
<1>1. /\ IsFiniteSet(s \ {x}) /\ Cardinality(s \ {x}) = Cardinality(s) - 1
      /\ Cardinality(s) \in Nat /\ Cardinality(s \ {x}) \in Nat
  BY FS_RemoveElement, FS_CardinalityType
<1> QED
  BY <1>1

LEMMA SumsGoOn ==
  ASSUME NEW f, NEW S, IsFiniteSet(S), NEW n \in Nat, NEW g, AreSums(f, g, UpTo(S, n))
  PROVE  \E h : AreSums(f, h, UpTo(S, n + 1))
<1> DEFINE h == [s \in UpTo(S, n + 1) |-> IF s \in UpTo(S, n) THEN g[s] ELSE SumBody(f, g, s)]
<1>1. ASSUME NEW s \in UpTo(S, n + 1)
      PROVE  h[s] = SumBody(f, h, s)
  <2>1. CASE s = {}
    <3>1. SumBody(f, h, s) = 0 /\ SumBody(f, g, s) = 0
      BY <2>1 DEF SumBody
    <3>2. s \in UpTo(S, n) => g[s] = SumBody(f, g, s)
      BY DEF AreSums
    <3> QED
      BY <3>1, <3>2
  <2>2. CASE s # {}
    <3> DEFINE u == s \ {OneOf(s)}
    <3>1. s \subseteq S /\ IsFiniteSet(s) /\ OneOf(s) \in s /\ Cardinality(s) <= n + 1
      BY <2>2, OneIsOf, FS_Subset DEF UpTo
    <3>2. Cardinality(u) <= n
      <4>1. Cardinality(s) \in Nat /\ Cardinality(u) = Cardinality(s) - 1
        BY <3>1, OneLess
      <4> QED
        BY <3>1, <4>1
    <3>3. u \in UpTo(S, n) /\ u \in UpTo(S, n + 1)
      <4>1. Cardinality(u) \in Nat
        BY <3>1, OneLess
      <4> QED
        BY <3>1, <3>2, <4>1 DEF UpTo
    <3>4. h[u] = g[u]
      BY <3>3
    <3>5. SumBody(f, h, s) = SumBody(f, g, s)
      BY <3>4 DEF SumBody
    <3>6. s \in UpTo(S, n) => g[s] = SumBody(f, g, s)
      BY DEF AreSums
    <3> QED
      BY <3>5, <3>6
  <2> QED
    BY <2>1, <2>2
<1>2. h = [s \in UpTo(S, n + 1) |-> h[s]]
  OBVIOUS
<1> HIDE DEF h
<1>3. h = [s \in UpTo(S, n + 1) |-> SumBody(f, h, s)]
  BY <1>1, <1>2
<1> QED
  BY <1>3 DEF AreSums

LEMMA SumsExist ==
  ASSUME NEW f, NEW S, IsFiniteSet(S)
  PROVE  \E g : SumsBelow(f, g, S)
<1>1. ASSUME NEW last \in Nat
      PROVE  \E g : AreSums(f, g, UpTo(S, last))
  <2> DEFINE T == {n \in Nat : ~\E g : AreSums(f, g, UpTo(S, n))}
  <2> SUFFICES ASSUME T # {} PROVE FALSE
    OBVIOUS
  <2>1. PICK n \in T : \A k \in T : n <= k
    <3>1. T \subseteq Nat
      OBVIOUS
    <3> HIDE DEF T
    <3> QED
      BY <3>1, Least
  <2>2. CASE n = 0
    <3>1. \A s \in UpTo(S, 0) : s = {}
      <4> SUFFICES ASSUME NEW s \in UpTo(S, 0) PROVE s = {}
        OBVIOUS
      <4>1. IsFiniteSet(s) /\ Cardinality(s) \in Nat /\ Cardinality(s) <= 0
        BY FS_Subset, FS_CardinalityType DEF UpTo
      <4> QED
        BY <4>1, FS_EmptySet
    <3>2. AreSums(f, [s \in UpTo(S, 0) |-> 0], UpTo(S, 0))
      BY <3>1 DEF AreSums, SumBody
    <3> QED
      BY <2>2, <3>2
  <2>3. CASE n # 0
    <3>1. n - 1 \in Nat /\ n - 1 \notin T /\ (n - 1) + 1 = n
      BY <2>1, <2>3
    <3>2. PICK g : AreSums(f, g, UpTo(S, n - 1))
      BY <3>1
    <3>3. \E h : AreSums(f, h, UpTo(S, (n - 1) + 1))
      <4> HIDE DEF T
      <4> QED
        BY <3>1, <3>2, SumsGoOn
    <3> QED
      BY <3>1, <3>3
  <2> QED
    BY <2>2, <2>3
<1>2. Cardinality(S) \in Nat /\ UpTo(S, Cardinality(S)) = SUBSET S
  BY FS_Subset, FS_CardinalityType DEF UpTo
<1> QED
  BY <1>1, <1>2 DEF SumsBelow

\* Sums over a set's subsets and over those of a part of it are the same.
LEMMA SumsAgree ==
  ASSUME NEW f, NEW S, IsFiniteSet(S), NEW T, T \subseteq S,
         NEW g, SumsBelow(f, g, S), NEW h, SumsBelow(f, h, T)
  PROVE  g[T] = h[T]
<1> DEFINE B == {n \in Nat : \E s \in SUBSET T : Cardinality(s) = n /\ g[s] # h[s]}
<1>1. IsFiniteSet(T)
  BY FS_Subset
<1>2. B = {}
  <2> SUFFICES ASSUME B # {} PROVE FALSE
    OBVIOUS
  <2>1. PICK n \in B : \A k \in B : n <= k
    <3>1. B \subseteq Nat
      OBVIOUS
    <3> HIDE DEF B
    <3> QED
      BY <3>1, Least
  <2>2. PICK s \in SUBSET T : Cardinality(s) = n /\ g[s] # h[s]
    OBVIOUS
  <2>3. g[s] = SumBody(f, g, s) /\ h[s] = SumBody(f, h, s)
    BY DEF SumsBelow, AreSums
  <2>4. s # {}
    BY <2>2, <2>3 DEF SumBody
  <2> DEFINE u == s \ {OneOf(s)}
  <2>5. IsFiniteSet(s) /\ OneOf(s) \in s
    BY <1>1, <2>4, OneIsOf, FS_Subset
  <2>6. Cardinality(u) \in Nat /\ Cardinality(u) = n - 1 /\ n \in Nat
    BY <2>2, <2>5, OneLess
  <2>7. g[u] = h[u]
    <3>1. u \in SUBSET T
      OBVIOUS
    <3>2. Cardinality(u) \notin B
      <4> HIDE DEF B, u
      <4> QED
        BY <2>1, <2>6
    <3> QED
      BY <2>6, <3>1, <3>2
  <2> QED
    BY <2>2, <2>3, <2>7 DEF SumBody
<1>3. Cardinality(T) \in Nat
  BY <1>1, FS_CardinalityType
<1> QED
  BY <1>2, <1>3

LEMMA SumIs ==
  ASSUME NEW f, NEW S, IsFiniteSet(S)
  PROVE  \E g : SumsBelow(f, g, S) /\ SumFunctionOnSet(f, S) = g[S]
<1> DEFINE g == CHOOSE h : SumsBelow(f, h, S)
<1>1. SumsBelow(f, g, S)
  BY SumsExist
<1>2. SumFunctionOnSet(f, S) = g[S]
  BY DEF SumFunctionOnSet, FoldFunctionOnSet, MapThenFoldSet, SumsBelow, AreSums, SumBody, OneOf
<1> QED
  BY <1>1, <1>2

\* A sum less the member the fold takes first.
LEMMA SumLessFirst ==
  ASSUME NEW f, NEW S, IsFiniteSet(S)
  PROVE  /\ S = {} => SumFunctionOnSet(f, S) = 0
         /\ S # {} => SumFunctionOnSet(f, S) =
                        f[OneOf(S)] + SumFunctionOnSet(f, S \ {OneOf(S)})
<1>1. PICK g : SumsBelow(f, g, S) /\ SumFunctionOnSet(f, S) = g[S]
  BY SumIs
<1>2. g[S] = SumBody(f, g, S)
  BY <1>1 DEF SumsBelow, AreSums
<1>3. PICK u : u = S \ {OneOf(S)}
  OBVIOUS
<1>4. IsFiniteSet(u) /\ u \subseteq S
  BY <1>3, FS_Subset
<1>5. PICK h : SumsBelow(f, h, u) /\ SumFunctionOnSet(f, u) = h[u]
  BY <1>4, SumIs
<1>6. g[u] = h[u]
  BY <1>1, <1>4, <1>5, SumsAgree
<1> QED
  BY <1>1, <1>2, <1>3, <1>5, <1>6 DEF SumBody

\* and less any member.
LEMMA SumLess ==
  ASSUME NEW f, NEW S, IsFiniteSet(S), \A x \in S : f[x] \in Nat
  PROVE  /\ SumFunctionOnSet(f, S) \in Nat
         /\ \A x \in S : SumFunctionOnSet(f, S) = f[x] + SumFunctionOnSet(f, S \ {x})
<1> DEFINE sum(s) == SumFunctionOnSet(f, s)
           Fine(s) == /\ sum(s) \in Nat
                      /\ \A x \in s : sum(s) = f[x] + sum(s \ {x})
           B == {n \in Nat : \E s \in SUBSET S : Cardinality(s) = n /\ ~Fine(s)}
<1>0. \A s \in SUBSET S : IsFiniteSet(s) /\ Cardinality(s) \in Nat
  BY FS_Subset, FS_CardinalityType
<1>1. B = {}
  <2> SUFFICES ASSUME B # {} PROVE FALSE
    OBVIOUS
  <2>1. PICK n \in B : \A k \in B : n <= k
    <3>1. B \subseteq Nat
      OBVIOUS
    <3> HIDE DEF B
    <3> QED
      BY <3>1, Least
  <2>2. PICK s \in SUBSET S : Cardinality(s) = n /\ ~Fine(s)
    OBVIOUS
  <2>3. \A u \in SUBSET S : Cardinality(u) < n => Fine(u)
    <3> SUFFICES ASSUME NEW u \in SUBSET S, Cardinality(u) < n, ~Fine(u) PROVE FALSE
      OBVIOUS
    <3>1. Cardinality(u) \in B
      BY <1>0
    <3> QED
      BY <1>0, <2>1, <3>1
  <2>4. \A x \in s : Fine(s \ {x}) /\ s \ {x} \in SUBSET S
    <3> SUFFICES ASSUME NEW x \in s PROVE Fine(s \ {x}) /\ s \ {x} \in SUBSET S
      OBVIOUS
    <3>1. Cardinality(s \ {x}) = n - 1 /\ n \in Nat
      BY <1>0, <2>2, OneLess
    <3>2. s \ {x} \in SUBSET S /\ Cardinality(s \ {x}) < n
      BY <3>1
    <3> QED
      BY <2>3, <3>2
  <2> HIDE DEF B
  <2>5. s # {}
    <3> SUFFICES ASSUME s = {} PROVE FALSE
      OBVIOUS
    <3>1. sum(s) = 0
      BY <1>0, SumLessFirst
    <3> QED
      BY <2>2, <3>1
  <2> DEFINE c == OneOf(s)
  <2>6. c \in s /\ sum(s) = f[c] + sum(s \ {c})
    BY <1>0, <2>5, OneIsOf, SumLessFirst
  <2>7. f[c] \in Nat /\ sum(s \ {c}) \in Nat
    BY <2>4, <2>6
  <2>8. ASSUME NEW x \in s
        PROVE  sum(s) = f[x] + sum(s \ {x})
    <3>1. CASE x = c
      BY <2>6, <3>1
    <3>2. CASE x # c
      <4> DEFINE u == (s \ {c}) \ {x}
      <4>1. u = (s \ {x}) \ {c} /\ x \in s \ {c} /\ c \in s \ {x}
        BY <2>6, <3>2
      <4>2. sum(s \ {c}) = f[x] + sum(u)
        BY <2>4, <2>6, <4>1
      <4>3. sum(s \ {x}) = f[c] + sum(u)
        BY <2>4, <4>1
      <4>4. f[x] \in Nat /\ f[c] \in Nat /\ sum(u) \in Nat
        <5>1. Cardinality(u) < n /\ u \in SUBSET S
          <6>1. IsFiniteSet(s \ {c}) /\ Cardinality(s \ {c}) = n - 1
            BY <1>0, <2>2, <2>6, OneLess
          <6>2. Cardinality(u) = n - 1 - 1
            BY <4>1, <6>1, OneLess
          <6>3. n \in Nat /\ n - 1 - 1 < n
            BY <1>0, <2>2
          <6>4. u \in SUBSET S
            OBVIOUS
          <6> HIDE DEF u
          <6> QED
            BY <6>2, <6>3, <6>4
        <5>2. Fine(u)
          BY <2>3, <5>1
        <5> QED
          BY <2>6, <5>2
      <4> HIDE DEF u, c, sum
      <4> QED
        BY <2>6, <4>2, <4>3, <4>4
    <3> QED
      BY <3>1, <3>2
  <2> HIDE DEF c
  <2>9. sum(s) \in Nat
    <3> HIDE DEF sum
    <3> QED BY <2>6, <2>7
  <2> QED
    BY <2>2, <2>8, <2>9
<1>2. Fine(S)
  <2> HIDE DEF Fine
  <2> QED BY <1>0, <1>1
<1> QED
  BY <1>2

\* The sum over two sets with nothing in common,
LEMMA SumOfTwo ==
  ASSUME NEW f, NEW A, NEW B, IsFiniteSet(A), IsFiniteSet(B), A \cap B = {},
         \A x \in A \cup B : f[x] \in Nat
  PROVE  SumFunctionOnSet(f, A \cup B) = SumFunctionOnSet(f, A) + SumFunctionOnSet(f, B)
<1> DEFINE sum(s) == SumFunctionOnSet(f, s)
           Fine(a) == sum(a \cup B) = sum(a) + sum(B)
           T == {n \in Nat : \E a \in SUBSET A : Cardinality(a) = n /\ ~Fine(a)}
<1>1. ASSUME NEW a \in SUBSET A
      PROVE  /\ IsFiniteSet(a) /\ Cardinality(a) \in Nat /\ IsFiniteSet(a \cup B)
             /\ sum(a) \in Nat /\ sum(B) \in Nat
             /\ \A x \in a : /\ sum(a) = f[x] + sum(a \ {x})
                             /\ sum(a \cup B) = f[x] + sum((a \ {x}) \cup B)
  <2>1. IsFiniteSet(a) /\ Cardinality(a) \in Nat /\ IsFiniteSet(a \cup B)
    BY FS_Subset, FS_CardinalityType, FS_Union
  <2>2. /\ sum(a) \in Nat /\ sum(B) \in Nat
        /\ \A x \in a : sum(a) = f[x] + sum(a \ {x})
        /\ \A x \in a \cup B : sum(a \cup B) = f[x] + sum((a \cup B) \ {x})
    BY <2>1, SumLess
  <2>3. \A x \in a : (a \cup B) \ {x} = (a \ {x}) \cup B
    OBVIOUS
  <2> QED
    BY <2>1, <2>2, <2>3
<1>2. T = {}
  <2> SUFFICES ASSUME T # {} PROVE FALSE
    OBVIOUS
  <2>1. PICK n \in T : \A k \in T : n <= k
    <3>1. T \subseteq Nat
      OBVIOUS
    <3> HIDE DEF T
    <3> QED
      BY <3>1, Least
  <2>2. PICK a \in SUBSET A : Cardinality(a) = n /\ ~Fine(a)
    OBVIOUS
  <2>3. a # {}
    <3> SUFFICES ASSUME a = {} PROVE FALSE
      OBVIOUS
    <3>1. sum(a) = 0
      BY <1>1, SumLessFirst
    <3>2. sum(a \cup B) = sum(B)
      <4>1. a \cup B = B
        OBVIOUS
      <4> HIDE DEF sum
      <4> QED
        BY <4>1
    <3>3. sum(B) \in Nat
      <4> HIDE DEF sum
      <4> QED
        BY <1>1
    <3> HIDE DEF sum
    <3> QED
      BY <2>2, <3>1, <3>2, <3>3
  <2>4. PICK x \in a : TRUE
    BY <2>3
  <2>5. Fine(a \ {x})
    <3>1. Cardinality(a \ {x}) = n - 1 /\ Cardinality(a \ {x}) \in Nat /\ n \in Nat
      BY <1>1, <2>2, <2>4, OneLess
    <3>2. Cardinality(a \ {x}) \notin T
      <4> HIDE DEF T
      <4> QED
        BY <2>1, <3>1
    <3>3. a \ {x} \in SUBSET A
      OBVIOUS
    <3> HIDE DEF Fine
    <3> QED
      BY <3>1, <3>2, <3>3
  <2>6. /\ sum(a) = f[x] + sum(a \ {x}) /\ sum(a \cup B) = f[x] + sum((a \ {x}) \cup B)
        /\ sum(a \ {x}) \in Nat /\ sum(B) \in Nat /\ f[x] \in Nat
    <3>1. a \ {x} \in SUBSET A
      OBVIOUS
    <3> HIDE DEF sum
    <3> QED
      BY <1>1, <2>4, <3>1
  <2> HIDE DEF sum
  <2> QED
    BY <2>2, <2>5, <2>6
<1>3. Fine(A)
  <2> HIDE DEF Fine
  <2> QED
    BY <1>1, <1>2
<1> QED
  BY <1>3

\* A measure of the subsets of O that adds up over two with nothing in common
Additive(F, O) ==
  /\ F \in [SUBSET O -> Nat]
  /\ F[{}] = 0
  /\ \A A, B \in SUBSET O : A \cap B = {} => F[A \cup B] = F[A] + F[B]

\* adds up over any number of parts, with nothing in common.
Joined(P, S) == UNION {P[n] : n \in S}
ArePartsOf(P, S, O) ==
  /\ \A n \in S : P[n] \subseteq O
  /\ \A m, n \in S : m # n => P[m] \cap P[n] = {}

LEMMA SumOfParts ==
  ASSUME NEW F, NEW O, Additive(F, O), NEW S, IsFiniteSet(S),
         NEW P, ArePartsOf(P, S, O),
         NEW f, \A n \in S : f[n] = F[P[n]]
  PROVE  SumFunctionOnSet(f, S) = F[Joined(P, S)]
<1> DEFINE sum(s) == SumFunctionOnSet(f, s)
           all(s) == UNION {P[n] : n \in s}
           Fine(s) == sum(s) = F[all(s)]
           T == {n \in Nat : \E s \in SUBSET S : Cardinality(s) = n /\ ~Fine(s)}
<1>0. /\ \A n \in S : P[n] \subseteq O
      /\ \A m, n \in S : m # n => P[m] \cap P[n] = {}
  BY DEF ArePartsOf
<1>1. ASSUME NEW s \in SUBSET S
      PROVE  IsFiniteSet(s) /\ Cardinality(s) \in Nat /\ \A x \in s : f[x] \in Nat
  <2>1. \A x \in s : P[x] \in SUBSET O
    BY <1>0
  <2> QED
    BY <2>1, FS_Subset, FS_CardinalityType DEF Additive
<1>2. ASSUME NEW s \in SUBSET S, NEW x \in s
      PROVE  /\ sum(s) = f[x] + sum(s \ {x})
             /\ F[all(s)] = f[x] + F[all(s \ {x})]
  <2>1. sum(s) = f[x] + sum(s \ {x})
    BY <1>1, SumLess
  <2>2. all(s) = P[x] \cup all(s \ {x}) /\ P[x] \cap all(s \ {x}) = {}
    BY <1>0
  <2>3. P[x] \in SUBSET O /\ all(s \ {x}) \in SUBSET O /\ f[x] = F[P[x]]
    BY <1>0
  <2>4. F[all(s)] = F[P[x]] + F[all(s \ {x})]
    <3>1. PICK p, q : p = P[x] /\ q = all(s \ {x})
      OBVIOUS
    <3>2. p \in SUBSET O /\ q \in SUBSET O /\ p \cap q = {} /\ all(s) = p \cup q
      <4> HIDE DEF all
      <4> QED
        BY <2>2, <2>3, <3>1
    <3>3. F[p \cup q] = F[p] + F[q]
      BY <3>2 DEF Additive
    <3> HIDE DEF all
    <3> QED
      BY <3>1, <3>2, <3>3
  <2> HIDE DEF all, sum
  <2> QED
    BY <2>1, <2>3, <2>4
<1>3. T = {}
  <2> SUFFICES ASSUME T # {} PROVE FALSE
    OBVIOUS
  <2>1. PICK n \in T : \A k \in T : n <= k
    <3>1. T \subseteq Nat
      OBVIOUS
    <3> HIDE DEF T
    <3> QED
      BY <3>1, Least
  <2>2. PICK s \in SUBSET S : Cardinality(s) = n /\ ~Fine(s)
    OBVIOUS
  <2>3. s # {}
    <3> SUFFICES ASSUME s = {} PROVE FALSE
      OBVIOUS
    <3>1. sum(s) = 0
      BY <1>1, SumLessFirst
    <3>2. all(s) = {}
      OBVIOUS
    <3> QED
      BY <2>2, <3>1, <3>2 DEF Additive
  <2>4. PICK x \in s : TRUE
    BY <2>3
  <2>5. Fine(s \ {x})
    <3>1. Cardinality(s \ {x}) = n - 1 /\ Cardinality(s \ {x}) \in Nat /\ n \in Nat
      BY <1>1, <2>2, <2>4, OneLess
    <3>2. Cardinality(s \ {x}) \notin T
      <4> HIDE DEF T
      <4> QED
        BY <2>1, <3>1
    <3>3. s \ {x} \in SUBSET S
      OBVIOUS
    <3> HIDE DEF Fine
    <3> QED
      BY <3>1, <3>2, <3>3
  <2> HIDE DEF sum, all
  <2> QED
    BY <1>2, <2>2, <2>4, <2>5
<1>4. Fine(S)
  <2> HIDE DEF Fine
  <2> QED
    BY <1>1, <1>3
<1> QED
  BY <1>4 DEF Joined

\* Any finite set of numbers has a greatest.
LEMMA Greatest ==
  ASSUME NEW S, S \subseteq Int, IsFiniteSet(S), S # {}
  PROVE  \E x \in S : \A y \in S : y <= x
<1> DEFINE Fine(s) == \E x \in s : \A y \in s : y <= x
           T == {n \in Nat : \E s \in SUBSET S : Cardinality(s) = n /\ s # {} /\ ~Fine(s)}
<1>1. \A s \in SUBSET S : IsFiniteSet(s) /\ Cardinality(s) \in Nat
  BY FS_Subset, FS_CardinalityType
<1>2. T = {}
  <2> SUFFICES ASSUME T # {} PROVE FALSE
    OBVIOUS
  <2>1. PICK n \in T : \A k \in T : n <= k
    <3>1. T \subseteq Nat
      OBVIOUS
    <3> HIDE DEF T
    <3> QED
      BY <3>1, Least
  <2>2. PICK s \in SUBSET S : Cardinality(s) = n /\ s # {} /\ ~Fine(s)
    OBVIOUS
  <2>3. PICK x \in s : TRUE
    BY <2>2
  <2>4. s \ {x} # {}
    <3> SUFFICES ASSUME s = {x} PROVE FALSE
      BY <2>3
    <3>1. Fine(s)
      OBVIOUS
    <3> QED
      BY <2>2, <3>1
  <2>5. Fine(s \ {x})
    <3>1. Cardinality(s \ {x}) = n - 1 /\ Cardinality(s \ {x}) \in Nat /\ n \in Nat
      BY <1>1, <2>2, <2>3, OneLess
    <3>2. Cardinality(s \ {x}) \notin T
      <4> HIDE DEF T
      <4> QED
        BY <2>1, <3>1
    <3>3. s \ {x} \in SUBSET S
      OBVIOUS
    <3> HIDE DEF Fine
    <3> QED
      BY <2>4, <3>1, <3>2, <3>3
  <2>6. PICK y \in s \ {x} : \A z \in s \ {x} : z <= y
    BY <2>5
  <2>7. \A z \in s : z \in Int
    OBVIOUS
  <2>8. (\A z \in s : z <= x) \/ \A z \in s : z <= y
    BY <2>6, <2>7
  <2> QED
    BY <2>2, <2>3, <2>6, <2>8
<1>3. Fine(S)
  <2> HIDE DEF Fine
  <2> QED
    BY <1>1, <1>2
<1> QED
  BY <1>3

\* What a function makes of finitely many.
LEMMA FiniteImage ==
  ASSUME NEW S, IsFiniteSet(S), NEW f
  PROVE  IsFiniteSet({f[x] : x \in S})
<1> DEFINE g == [x \in S |-> f[x]]
<1>1. g \in Surjection(S, {f[x] : x \in S})
  BY DEF Surjection
<1> QED
  BY <1>1, FS_Surjection

\* A set's references are finitely many, each of some snapshots and with sizes
\* of which there is a greatest.
LEMMA ReferencesAreFinite ==
  ASSUME NEW b, IsBucket(b), NEW set \in DOMAIN b.snapshots
  PROVE  /\ IsFiniteSet(AddSnapshotReferences(b, set))
         /\ \A r \in AddSnapshotReferences(b, set) :
              /\ IsFiniteSet(r.sizes) /\ r.sizes \subseteq Nat
              /\ IsFiniteSet(r.snapshots) /\ r.snapshots # {}
<1> DEFINE of == [n \in Checked(b, set) |->
                    {[name |-> n, row |-> r] : r \in b.snapshots[set][n].rows}]
           rows == UNION {{[name |-> n, row |-> r] : r \in b.snapshots[set][n].rows} :
                            n \in Checked(b, set)}
           alike(e) == {g \in rows : g.row.hash = e.row.hash /\ g.row.path = e.row.path}
           ref == [e \in rows |-> [hash |-> e.row.hash, path |-> e.row.path,
                                   sizes |-> {f.row.size : f \in alike(e)},
                                   snapshots |-> {f.name : f \in alike(e)}]]
<1>1. AddSnapshotReferences(b, set) = {ref[e] : e \in rows}
  <2> DEFINE plain(e) == [hash |-> e.row.hash, path |-> e.row.path,
                          sizes |-> {f.row.size : f \in alike(e)},
                          snapshots |-> {f.name : f \in alike(e)}]
  <2>1. AddSnapshotReferences(b, set) = {plain(e) : e \in rows}
    BY DEF AddSnapshotReferences
  <2>2. \A e \in rows : ref[e] = plain(e)
    OBVIOUS
  <2> HIDE DEF rows, ref, plain
  <2> QED
    BY <2>1, <2>2
<1>2. IsFiniteSet(Checked(b, set)) /\ Checked(b, set) \subseteq DOMAIN b.snapshots[set]
  <2>1. IsFiniteSet(DOMAIN b.snapshots[set]) /\ Checked(b, set) \subseteq DOMAIN b.snapshots[set]
    BY DEF IsBucket, Checked, NamesOf
  <2> QED
    BY <2>1, FS_Subset
<1>3. IsFiniteSet(rows)
  <2>1. ASSUME NEW n \in Checked(b, set)
        PROVE  IsFiniteSet(of[n])
    <3> DEFINE own == b.snapshots[set][n].rows
               pair == [r \in own |-> [name |-> n, row |-> r]]
    <3>1. IsFiniteSet(own)
      BY <1>2 DEF IsBucket
    <3>2. IsFiniteSet({pair[r] : r \in own})
      <4> HIDE DEF own, pair
      <4> QED
        BY <3>1, FiniteImage
    <3>3. {pair[r] : r \in own} = of[n]
      OBVIOUS
    <3> QED
      BY <3>2, <3>3
  <2>3. rows = UNION {of[n] : n \in Checked(b, set)}
    OBVIOUS
  <2> HIDE DEF of, rows
  <2>2. IsFiniteSet({of[n] : n \in Checked(b, set)})
    BY <1>2, FiniteImage
  <2> QED
    BY <2>1, <2>2, <2>3, FS_UNION
<1>4. \A e \in rows : e.row.size \in Nat
  BY <1>2 DEF IsBucket
<1> HIDE DEF rows
<1>5. IsFiniteSet({ref[e] : e \in rows})
  <2> HIDE DEF ref
  <2> QED
    BY <1>3, FiniteImage
<1>6. ASSUME NEW e \in rows
      PROVE  /\ IsFiniteSet(ref[e].sizes) /\ ref[e].sizes \subseteq Nat
             /\ IsFiniteSet(ref[e].snapshots) /\ ref[e].snapshots # {}
  <2> DEFINE size == [f \in rows |-> f.row.size]
             name == [f \in rows |-> f.name]
  <2>1. e \in alike(e) /\ alike(e) \in SUBSET rows
    OBVIOUS
  <2>2. IsFiniteSet(alike(e))
    <3> HIDE DEF alike
    <3> QED
      BY <1>3, <2>1, FS_Subset
  <2>3. /\ ref[e].sizes = {size[f] : f \in alike(e)}
        /\ ref[e].snapshots = {name[f] : f \in alike(e)}
    OBVIOUS
  <2>4. IsFiniteSet({size[f] : f \in alike(e)}) /\ IsFiniteSet({name[f] : f \in alike(e)})
    <3> HIDE DEF alike, size, name
    <3> QED
      BY <2>2, FiniteImage
  <2>5. \A f \in alike(e) : size[f] \in Nat
    BY <1>4
  <2> HIDE DEF alike, size, name, ref
  <2> QED
    BY <2>1, <2>3, <2>4, <2>5
<1> HIDE DEF ref
<1> QED
  BY <1>1, <1>5, <1>6

\* A reference's size is a number.
LEMMA SizesAreSafe ==
  ASSUME NEW b, IsBucket(b), NEW set \in DOMAIN b.snapshots, NEW h
  PROVE  SafeSize(AddSnapshotReferences(b, set), h) \in Nat
<1> DEFINE references == AddSnapshotReferences(b, set)
           sizes == [r \in references |-> r.sizes]
           some == {sizes[r] : r \in Pointing(references, h)}
           all == {0} \cup UNION some
<1>1. IsFiniteSet(Pointing(references, h)) /\ Pointing(references, h) \subseteq references
  <2>1. IsFiniteSet(references) /\ Pointing(references, h) \in SUBSET references
    BY ReferencesAreFinite DEF Pointing
  <2> QED
    BY <2>1, FS_Subset
<1>2. \A r \in references : IsFiniteSet(r.sizes) /\ r.sizes \subseteq Nat
  BY ReferencesAreFinite
<1>3. IsFiniteSet(some)
  <2> HIDE DEF sizes, references
  <2> QED
    BY <1>1, FiniteImage
<1> HIDE DEF references
<1>4. \A s \in some : IsFiniteSet(s) /\ s \subseteq Nat
  BY <1>1, <1>2
<1>5. some = {r.sizes : r \in Pointing(references, h)}
  BY <1>1
<1> HIDE DEF some
<1>6. IsFiniteSet(UNION some)
  BY <1>3, <1>4, FS_UNION
<1>7. IsFiniteSet(all)
  <2>1. IsFiniteSet({0})
    BY FS_Singleton
  <2> QED
    BY <1>6, <2>1, FS_Union
<1>8. all \subseteq Nat /\ all # {}
  BY <1>4
<1>9. SafeSize(references, h) = Max(all)
  BY <1>5 DEF SafeSize
<1> HIDE DEF all
<1>10. PICK x \in all : \A y \in all : y <= x
  <2>1. all \subseteq Int
    BY <1>8
  <2> QED
    BY <1>7, <1>8, <2>1, Greatest
<1>11. \A y \in all : x >= y
  BY <1>8, <1>10
<1>12. Max(all) \in all
  BY <1>11 DEF Max
<1> USE DEF references
<1> QED
  BY <1>8, <1>9, <1>12

\* A tally of a set's objects counts each once, in files and in bytes.
LEMMA TallyIsAdditive ==
  ASSUME NEW b, IsBucket(b), NEW set \in DOMAIN b.snapshots,
         NEW O, O \subseteq HashesIn(AddSnapshotReferences(b, set))
  PROVE  /\ Additive([h \in SUBSET O |-> Tally(AddSnapshotReferences(b, set), h).files], O)
         /\ Additive([h \in SUBSET O |-> Tally(AddSnapshotReferences(b, set), h).bytes], O)
<1> DEFINE references == AddSnapshotReferences(b, set)
           size == [h \in HashesIn(references) |-> SafeSize(references, h)]
           files(H) == {r \in references : r.hash \in H}
           asFiles == [h \in SUBSET O |-> Tally(references, h).files]
           asBytes == [h \in SUBSET O |-> Tally(references, h).bytes]
<1>1. \A H : /\ Tally(references, H).files = Cardinality(files(H))
             /\ Tally(references, H).bytes = SumFunctionOnSet(size, H)
  BY DEF Tally
<1>2. \A h \in HashesIn(references) : size[h] \in Nat
  BY SizesAreSafe
<1>3. IsFiniteSet(references)
  BY ReferencesAreFinite
<1>4. IsFiniteSet(HashesIn(references))
  <2> DEFINE hash == [r \in references |-> r.hash]
  <2>1. HashesIn(references) = {hash[r] : r \in references}
    BY DEF HashesIn
  <2> HIDE DEF hash, references
  <2> QED
    BY <1>3, <2>1, FiniteImage
<1> HIDE DEF references
<1>5. O \subseteq HashesIn(references)
  BY DEF references
<1>6. \A H \in SUBSET O : IsFiniteSet(H) /\ \A h \in H : size[h] \in Nat
  <2>1. IsFiniteSet(O)
    BY <1>4, <1>5, FS_Subset
  <2> HIDE DEF size
  <2> QED
    BY <1>2, <1>5, <2>1, FS_Subset
<1>7. \A H : IsFiniteSet(files(H)) /\ Cardinality(files(H)) \in Nat
  <2> SUFFICES ASSUME NEW H PROVE IsFiniteSet(files(H)) /\ Cardinality(files(H)) \in Nat
    OBVIOUS
  <2>1. files(H) \in SUBSET references
    OBVIOUS
  <2> HIDE DEF files
  <2> QED
    BY <1>3, <2>1, FS_Subset, FS_CardinalityType
<1> HIDE DEF size
<1>8. Additive(asFiles, O)
  <2>1. asFiles \in [SUBSET O -> Nat]
    BY <1>1, <1>7
  <2>2. asFiles[{}] = 0
    <3>1. files({}) = {}
      OBVIOUS
    <3> QED
      BY <1>1, <3>1, FS_EmptySet
  <2>3. ASSUME NEW A \in SUBSET O, NEW B \in SUBSET O, A \cap B = {}
        PROVE  asFiles[A \cup B] = asFiles[A] + asFiles[B]
    <3>1. files(A \cup B) = files(A) \cup files(B) /\ files(A) \cap files(B) = {}
      BY <2>3
    <3>2. Cardinality(files(A) \cap files(B)) = 0
      <4> HIDE DEF files
      <4> QED
        BY <3>1, FS_EmptySet
    <3>3. Cardinality(files(A \cup B)) = Cardinality(files(A)) + Cardinality(files(B))
      <4> HIDE DEF files
      <4>1. Cardinality(files(A) \cup files(B)) =
              Cardinality(files(A)) + Cardinality(files(B)) - Cardinality(files(A) \cap files(B))
        BY <1>7, FS_Union
      <4>2. \A m, n \in Nat : m + n - 0 = m + n
        OBVIOUS
      <4> QED
        BY <1>7, <3>1, <3>2, <4>1, <4>2
    <3>4. A \cup B \in SUBSET O
      OBVIOUS
    <3> HIDE DEF files
    <3> QED
      BY <1>1, <3>3, <3>4
  <2> HIDE DEF asFiles
  <2> QED
    BY <2>1, <2>2, <2>3 DEF Additive
<1>9. Additive(asBytes, O)
  <2>1. asBytes \in [SUBSET O -> Nat]
    <3>1. \A H \in SUBSET O : SumFunctionOnSet(size, H) \in Nat
      BY <1>6, SumLess
    <3> QED
      BY <1>1, <3>1
  <2>2. asBytes[{}] = 0
    BY <1>1, FS_EmptySet, SumLessFirst
  <2>3. ASSUME NEW A \in SUBSET O, NEW B \in SUBSET O, A \cap B = {}
        PROVE  asBytes[A \cup B] = asBytes[A] + asBytes[B]
    <3>1. \A x \in A \cup B : size[x] \in Nat
      BY <1>6
    <3>2. SumFunctionOnSet(size, A \cup B) = SumFunctionOnSet(size, A) + SumFunctionOnSet(size, B)
      BY <1>6, <2>3, <3>1, SumOfTwo
    <3>3. A \cup B \in SUBSET O
      OBVIOUS
    <3> QED
      BY <1>1, <3>2, <3>3
  <2> HIDE DEF asBytes
  <2> QED
    BY <2>1, <2>2, <2>3 DEF Additive
<1> QED
  BY <1>8, <1>9 DEF references

\* What the selected snapshots alone hold is parted into what one of them holds
\* and what several do.
LEMMA OrphansPart ==
  ASSUME NEW b, IsBucket(b), NEW set \in DOMAIN b.snapshots, NEW selected, NEW O,
         O \subseteq Orphaned(b, set, selected)
  PROVE  LET references == AddSnapshotReferences(b, set)
             referencing(hash) == UNION {r.snapshots : r \in Pointing(references, hash)}
             sole(name) == {h \in O : referencing(h) = {name}}
             shared == {h \in O : Cardinality(referencing(h)) > 1}
             alone == UNION {sole(n) : n \in selected}
         IN  /\ O \subseteq HashesIn(references)
             /\ O = alone \cup shared
             /\ alone \cap shared = {}
<1> DEFINE references == AddSnapshotReferences(b, set)
           referencing(hash) == UNION {r.snapshots : r \in Pointing(references, hash)}
           sole(name) == {h \in O : referencing(h) = {name}}
           shared == {h \in O : Cardinality(referencing(h)) > 1}
           alone == UNION {sole(n) : n \in selected}
<1>1. \A h \in O : /\ h \in HashesIn(references)
                   /\ \A r \in Pointing(references, h) : r.snapshots \subseteq selected
  BY DEF Orphaned
<1>2. ASSUME NEW h \in O
      PROVE  /\ IsFiniteSet(referencing(h)) /\ referencing(h) # {}
             /\ referencing(h) \subseteq selected
  <2> DEFINE held == [r \in references |-> r.snapshots]
             P == Pointing(references, h)
  <2>1. /\ IsFiniteSet(references)
        /\ \A r \in references : IsFiniteSet(r.snapshots) /\ r.snapshots # {}
    BY ReferencesAreFinite
  <2>2. P \in SUBSET references
    BY DEF Pointing
  <2>3. \E r \in references : r \in P
    BY <1>1 DEF HashesIn, Pointing
  <2>4. \A r \in P : r.snapshots \subseteq selected
    BY <1>1
  <2> HIDE DEF references, P
  <2>5. IsFiniteSet({held[r] : r \in P})
    <3>1. IsFiniteSet(P)
      BY <2>1, <2>2, FS_Subset
    <3> HIDE DEF held
    <3> QED
      BY <3>1, FiniteImage
  <2>6. {held[r] : r \in P} = {r.snapshots : r \in P}
    BY <2>2
  <2>7. IsFiniteSet(UNION {r.snapshots : r \in P})
    BY <2>1, <2>2, <2>5, <2>6, FS_UNION
  <2>8. UNION {r.snapshots : r \in P} # {} /\ UNION {r.snapshots : r \in P} \subseteq selected
    BY <2>1, <2>3, <2>4
  <2> QED
    BY <2>7, <2>8 DEF P
<1> HIDE DEF references, referencing
<1>3. ASSUME NEW h \in O
      PROVE  (\E n \in selected : referencing(h) = {n}) <=> ~(Cardinality(referencing(h)) > 1)
  <2> DEFINE c == Cardinality(referencing(h))
  <2>1. /\ c \in Nat /\ c # 0
        /\ c = 1 <=> \E n : referencing(h) = {n}
    BY <1>2, FS_CardinalityType, FS_EmptySet, FS_Singleton
  <2>2. \A n : referencing(h) = {n} => n \in selected
    BY <1>2
  <2> HIDE DEF c
  <2>3. c = 1 <=> ~(c > 1)
    BY <2>1
  <2> USE DEF c
  <2> QED
    BY <2>1, <2>2, <2>3
<1>4. O = alone \cup shared /\ alone \cap shared = {}
  BY <1>3
<1> USE DEF references, referencing
<1> QED
  BY <1>1, <1>4

\* The rows of forget's preview add up to its total, in files and in bytes,
\* whatever is selected (lib/unrestorable.mjs).
THEOREM PreviewAlwaysAddsUp ==
  ASSUME NEW b, IsBucket(b), NEW set \in DOMAIN b.snapshots,
         NEW selected, IsFiniteSet(selected)
  PROVE  PreviewAddsUp(b, set, selected)
<1> DEFINE references == AddSnapshotReferences(b, set)
           O == Orphaned(b, set, selected) \ Gone(b, set, selected)
           referencing(hash) == UNION {r.snapshots : r \in Pointing(references, hash)}
           sole(name) == {h \in O : referencing(h) = {name}}
           P == [n \in selected |-> sole(n)]
           shared == {h \in O : Cardinality(referencing(h)) > 1}
           alone == UNION {sole(n) : n \in selected}
           plan == PlanUnrestorable(b, set, selected)
           asFiles == [h \in SUBSET O |-> Tally(references, h).files]
           asBytes == [h \in SUBSET O |-> Tally(references, h).bytes]
           ofFiles == [n \in selected |-> plan.bySnapshot[n].files]
           ofBytes == [n \in selected |-> plan.bySnapshot[n].bytes]
<1>1. /\ \A n \in selected : plan.bySnapshot[n] = Tally(references, sole(n))
      /\ plan.shared = Tally(references, shared)
      /\ plan.total = Tally(references, O)
  BY DEF PlanUnrestorable
<1>2. /\ O \subseteq HashesIn(references)
      /\ O = alone \cup shared /\ alone \cap shared = {}
  <2>1. O \subseteq Orphaned(b, set, selected)
    OBVIOUS
  <2> HIDE DEF O
  <2> QED
    BY <2>1, OrphansPart
<1> HIDE DEF O, referencing, plan
<1>3. Additive(asFiles, O) /\ Additive(asBytes, O)
  BY <1>2, TallyIsAdditive
<1>4. /\ \A n \in selected : P[n] \in SUBSET O
      /\ ArePartsOf(P, selected, O)
  BY DEF ArePartsOf
<1>5. alone = Joined(P, selected)
  BY DEF Joined
<1>6. alone \in SUBSET O /\ shared \in SUBSET O /\ O \in SUBSET O
  OBVIOUS
<1>7. \A n \in selected : ofFiles[n] = asFiles[P[n]] /\ ofBytes[n] = asBytes[P[n]]
  BY <1>1, <1>4
<1> HIDE DEF P, shared, alone, references
<1>8. plan.shared.files = asFiles[shared] /\ plan.total.files = asFiles[O]
  BY <1>1, <1>6
<1>9. plan.shared.bytes = asBytes[shared] /\ plan.total.bytes = asBytes[O]
  BY <1>1, <1>6
<1>10. /\ SumFunction(ofFiles) = SumFunctionOnSet(ofFiles, selected)
       /\ SumFunction(ofBytes) = SumFunctionOnSet(ofBytes, selected)
  <2>1. DOMAIN ofFiles = selected /\ DOMAIN ofBytes = selected
    OBVIOUS
  <2> HIDE DEF ofFiles, ofBytes
  <2> QED
    BY <2>1 DEF SumFunction
<1> HIDE DEF asFiles, asBytes, ofFiles, ofBytes
<1>11. SumFunction(ofFiles) = asFiles[alone] /\ SumFunction(ofBytes) = asBytes[alone]
  <2>1. SumFunctionOnSet(ofFiles, selected) = asFiles[Joined(P, selected)]
    BY <1>3, <1>4, <1>7, SumOfParts
  <2>2. SumFunctionOnSet(ofBytes, selected) = asBytes[Joined(P, selected)]
    BY <1>3, <1>4, <1>7, SumOfParts
  <2> QED
    BY <1>5, <1>10, <2>1, <2>2
<1>12. /\ asFiles[O] = asFiles[alone] + asFiles[shared]
       /\ asBytes[O] = asBytes[alone] + asBytes[shared]
  BY <1>2, <1>3, <1>6 DEF Additive
<1>13. /\ SumFunction(ofFiles) + plan.shared.files = plan.total.files
       /\ SumFunction(ofBytes) + plan.shared.bytes = plan.total.bytes
  BY <1>8, <1>9, <1>11, <1>12
<1> USE DEF plan, ofFiles, ofBytes
<1> QED
  BY <1>13 DEF PreviewAddsUp

-----------------------------------------------------------------------------
(***************************************************************************)
(* A bucket's keys, and the clock that names snapshots                     *)
(***************************************************************************)

\* Numbers listed newest first: each of them, once.
IsNewestFirst(s, minutes) ==
  /\ s \in Seq(minutes) /\ Len(s) = Cardinality(minutes)
  /\ \A i, j \in 1 .. Len(s) : i < j => s[i] > s[j]
  /\ \A m \in minutes : \E i \in 1 .. Len(s) : s[i] = m

LEMMA DescendingExists ==
  ASSUME NEW minutes, minutes \subseteq Int, IsFiniteSet(minutes)
  PROVE  \E s \in [1 .. Cardinality(minutes) -> minutes] :
           \A i, j \in DOMAIN s : i < j => s[i] > s[j]
<1> DEFINE Fine(m) == \E s \in [1 .. Cardinality(m) -> m] :
                        \A i, j \in DOMAIN s : i < j => s[i] > s[j]
           T == {n \in Nat : \E m \in SUBSET minutes : Cardinality(m) = n /\ ~Fine(m)}
<1>1. \A m \in SUBSET minutes : IsFiniteSet(m) /\ Cardinality(m) \in Nat
  BY FS_Subset, FS_CardinalityType
<1>2. T = {}
  <2> SUFFICES ASSUME T # {} PROVE FALSE
    OBVIOUS
  <2>1. PICK n \in T : \A k \in T : n <= k
    <3>1. T \subseteq Nat
      OBVIOUS
    <3> HIDE DEF T
    <3> QED
      BY <3>1, Least
  <2>2. PICK m \in SUBSET minutes : Cardinality(m) = n /\ ~Fine(m)
    OBVIOUS
  <2>3. m # {}
    <3> SUFFICES ASSUME m = {} PROVE FALSE
      OBVIOUS
    <3>1. Cardinality(m) = 0
      BY FS_EmptySet
    <3>2. <<>> \in [1 .. 0 -> {}] /\ DOMAIN <<>> = {}
      OBVIOUS
    <3>3. Fine(m)
      BY <3>1, <3>2
    <3> QED
      BY <2>2, <3>3
  <2>4. PICK x \in m : \A y \in m : y <= x
    BY <1>1, <2>3, Greatest
  <2>5. Cardinality(m \ {x}) = n - 1 /\ n - 1 \in Nat /\ n \in Nat
    BY <1>1, <2>2, <2>4, OneLess
  <2>6. Fine(m \ {x})
    <3>1. Cardinality(m \ {x}) \notin T
      <4> HIDE DEF T
      <4> QED
        BY <2>1, <2>5
    <3>2. m \ {x} \in SUBSET minutes
      OBVIOUS
    <3> HIDE DEF Fine
    <3> QED
      BY <2>5, <3>1, <3>2
  <2>7. PICK s \in [1 .. n - 1 -> m \ {x}] : \A i, j \in 1 .. n - 1 : i < j => s[i] > s[j]
    BY <2>5, <2>6
  <2> DEFINE t == [i \in 1 .. n |-> IF i = 1 THEN x ELSE s[i - 1]]
  <2>8. \A i \in 1 .. n : i # 1 => i - 1 \in 1 .. n - 1 /\ s[i - 1] \in m \ {x}
    BY <2>5, <2>7
  <2>9. t \in [1 .. n -> m]
    BY <2>4, <2>8
  <2>10. ASSUME NEW i \in 1 .. n, NEW j \in 1 .. n, i < j
         PROVE  t[i] > t[j]
    <3>1. j # 1 /\ t[j] = s[j - 1] /\ s[j - 1] \in m \ {x}
      BY <2>8, <2>10
    <3>2. CASE i = 1
      <4>1. t[i] = x /\ x \in Int /\ t[j] \in Int /\ t[j] # x /\ t[j] <= x
        BY <2>4, <3>1, <3>2
      <4> HIDE DEF t
      <4> QED
        BY <4>1
    <3>3. CASE i # 1
      <4>1. t[i] = s[i - 1] /\ i - 1 \in 1 .. n - 1 /\ j - 1 \in 1 .. n - 1 /\ i - 1 < j - 1
        BY <2>5, <2>8, <2>10, <3>1, <3>3
      <4> HIDE DEF t
      <4> QED
        BY <2>7, <3>1, <4>1
    <3> QED
      BY <3>2, <3>3
  <2>11. Fine(m)
    <3>1. DOMAIN t = 1 .. n
      OBVIOUS
    <3> HIDE DEF t
    <3> QED
      BY <2>2, <2>9, <2>10, <3>1
  <2> QED
    BY <2>2, <2>11
<1>3. Fine(minutes)
  <2> HIDE DEF Fine
  <2> QED
    BY <1>1, <1>2
<1> QED
  BY <1>3

LEMMA NewestFirstIs ==
  ASSUME NEW minutes, minutes \subseteq Int, IsFiniteSet(minutes)
  PROVE  IsNewestFirst(NewestFirst(minutes), minutes)
<1> DEFINE s == NewestFirst(minutes)
           n == Cardinality(minutes)
<1>1. /\ s \in [1 .. n -> minutes]
      /\ \A i, j \in DOMAIN s : i < j => s[i] > s[j]
  BY DescendingExists DEF NewestFirst
<1>2. n \in Nat /\ IsFiniteSet(1 .. n) /\ Cardinality(1 .. n) = n
  <2>1. n \in Nat
    BY FS_CardinalityType
  <2> HIDE DEF n
  <2> QED
    BY <2>1, FS_Interval
<1> HIDE DEF s
<1>3. s \in Injection(1 .. n, minutes)
  <2>1. \A i, j \in 1 .. n : s[i] = s[j] => i = j
    <3> SUFFICES ASSUME NEW i \in 1 .. n, NEW j \in 1 .. n, s[i] = s[j], i # j PROVE FALSE
      OBVIOUS
    <3>1. s[i] \in Int /\ s[j] \in Int
      BY <1>1
    <3>2. i < j \/ j < i
      BY <1>2
    <3> QED
      BY <1>1, <3>1, <3>2
  <2> QED
    BY <1>1, <2>1 DEF Injection, IsInjective
<1>4. s \in Surjection(1 .. n, minutes)
  BY <1>2, <1>3, FS_Injection
<1>5. s \in Seq(minutes) /\ Len(s) = n
  BY <1>1, <1>2
<1> QED
  BY <1>1, <1>4, <1>5 DEF IsNewestFirst, Surjection, s

LEMMA MembersOf ==
  ASSUME NEW s, NEW minutes, IsNewestFirst(s, minutes)
  PROVE  ToSet(s) = minutes
BY DEF IsNewestFirst, ToSet

\* The snapshots among some files, listed.
SnapshotsAmong(files) ==
  {g[1].moment : g \in
     {f \in files : Len(f) = 1 /\ f[1].ext = SnapshotExt /\ f[1].moment \in Minutes}}

LEMMA SnapshotNamesAre ==
  ASSUME NEW files, IsFiniteSet(files)
  PROVE  /\ SnapshotNames(files) = NewestFirst(SnapshotsAmong(files))
         /\ IsNewestFirst(SnapshotNames(files), SnapshotsAmong(files))
         /\ SnapshotsAmong(files) \subseteq Minutes
         /\ IsFiniteSet(SnapshotsAmong(files))
<1> DEFINE some == {f \in files : Len(f) = 1 /\ f[1].ext = SnapshotExt /\ f[1].moment \in Minutes}
           moment == [f \in some |-> f[1].moment]
<1>1. SnapshotNames(files) = NewestFirst(SnapshotsAmong(files))
  BY DEF SnapshotNames, SnapshotsAmong
<1>2. SnapshotsAmong(files) = {moment[f] : f \in some} /\ SnapshotsAmong(files) \subseteq Minutes
  BY DEF SnapshotsAmong
<1>3. IsFiniteSet(some)
  <2>1. some \in SUBSET files
    OBVIOUS
  <2> HIDE DEF some
  <2> QED
    BY <2>1, FS_Subset
<1> HIDE DEF some, moment
<1>4. IsFiniteSet(SnapshotsAmong(files))
  BY <1>2, <1>3, FiniteImage
<1>5. SnapshotsAmong(files) \subseteq Int
  <2>1. \A m \in Minutes : m \in Int
    BY MinutesAssumption
  <2> QED
    BY <1>2, <2>1
<1> QED
  BY <1>1, <1>2, <1>4, <1>5, NewestFirstIs

\* A key in the folder of a set, and the snapshots there.
InFolder(key, set) == Len(key) > 1 /\ key[1] = Segment(set, NoPart)
SnapshotsOf(keys, set) == {m \in Minutes : RemoteSnapshotKey(set, m) \in keys}

\* A key is read as of the set whose marker it is, or in whose folder it lies.
LEMMA KeyIsOf ==
  ASSUME NEW key, IsKey(key), NEW set \in Canonical
  PROVE  LET entry == ParseSnapshotsKey(key)
         IN  /\ entry # NotAKey => entry.set \in Canonical
             /\ entry.set = set <=> key = RemoteInfoKey(set) \/ InFolder(key, set)
             /\ key = RemoteInfoKey(set) => entry.file = <<>>
             /\ InFolder(key, set) => entry.file = Tail(key)
<1> DEFINE entry == ParseSnapshotsKey(key)
<1>1. /\ key \in Seq(ToSet(key)) /\ Len(key) \in Nat \ {0} /\ key[1] \in ToSet(key)
      /\ IsSegment(key[1])
  <2>1. key \in Seq(ToSet(key)) /\ key # <<>>
    BY DEF IsKey
  <2>2. Len(key) \in Nat /\ Len(key) # 0 /\ DOMAIN key = 1 .. Len(key)
    BY <2>1
  <2>3. key[1] \in ToSet(key)
    BY <2>2 DEF ToSet
  <2> QED
    BY <2>1, <2>2, <2>3 DEF IsKey
<1>2. key[1].name \in Canonical => key[1] = Segment(key[1].name, key[1].ext)
  <2> SUFFICES ASSUME key[1].name \in Canonical
               PROVE  key[1] = Segment(key[1].name, key[1].ext)
    OBVIOUS
  <2>1. \A s : IsSegment(s) => s = Segment(s.name, s.ext) \/ s = MomentSegment(s.moment, s.ext)
    BY DEF IsSegment
  <2>2. MomentSegment(key[1].moment, key[1].ext).name \notin Canonical
    BY CanonicalAssumption DEF MomentSegment
  <2> QED
    BY <1>1, <2>1, <2>2
<1>3. \A name, ext : Segment(name, ext).name = name /\ Segment(name, ext).ext = ext
  BY DEF Segment
<1>4. key = RemoteInfoKey(set) <=> Len(key) = 1 /\ key[1] = Segment(set, InfoExt)
  <2>1. Len(key) = 1 => key = <<key[1]>>
    BY <1>1
  <2> QED
    BY <2>1 DEF RemoteInfoKey
<1>5. InfoExt # NoPart /\ NotAKey.set \notin Canonical
  BY CanonicalAssumption DEF InfoExt, NotAKey, NoPart
<1>6. CASE key[1].name \in Canonical /\ Len(key) = 1 /\ key[1].ext = InfoExt
  <2>1. entry.set = key[1].name /\ entry.file = <<>>
    BY <1>6 DEF ParseSnapshotsKey
  <2>2. ~InFolder(key, set)
    BY <1>6 DEF InFolder
  <2>3. key[1].name = set <=> key[1] = Segment(set, InfoExt)
    BY <1>2, <1>3, <1>6
  <2> QED
    BY <1>4, <1>6, <2>1, <2>2, <2>3
<1>7. CASE key[1].name \in Canonical /\ Len(key) > 1 /\ key[1].ext = NoPart
  <2>1. entry.set = key[1].name /\ entry.file = Tail(key)
    BY <1>5, <1>7 DEF ParseSnapshotsKey
  <2>2. key # RemoteInfoKey(set)
    <3>1. Len(key) # 1
      <4>1. Len(key) \in Nat /\ Len(key) > 1
        BY <1>1, <1>7
      <4>2. \A n \in Nat : n > 1 => n # 1
        OBVIOUS
      <4> QED
        BY <4>1, <4>2
    <3> QED
      BY <1>4, <3>1
  <2>3. key[1].name = set <=> InFolder(key, set)
    BY <1>2, <1>3, <1>7 DEF InFolder
  <2> QED
    BY <1>7, <2>1, <2>2, <2>3
<1>8. CASE /\ ~(key[1].name \in Canonical /\ Len(key) = 1 /\ key[1].ext = InfoExt)
           /\ ~(key[1].name \in Canonical /\ Len(key) > 1 /\ key[1].ext = NoPart)
  <2>1. entry = NotAKey
    BY <1>8 DEF ParseSnapshotsKey
  <2>2. key # RemoteInfoKey(set)
    <3> SUFFICES ASSUME key = RemoteInfoKey(set) PROVE FALSE
      OBVIOUS
    <3>1. Len(key) = 1 /\ key[1].name = set /\ key[1].ext = InfoExt
      BY <1>3, <1>4
    <3> QED
      BY <1>8, <3>1
  <2>3. ~InFolder(key, set)
    <3> SUFFICES ASSUME InFolder(key, set) PROVE FALSE
      OBVIOUS
    <3>1. Len(key) > 1 /\ key[1].name = set /\ key[1].ext = NoPart
      BY <1>3 DEF InFolder
    <3> QED
      BY <1>8, <3>1
  <2> QED
    BY <1>5, <2>1, <2>2, <2>3
<1> QED
  BY <1>6, <1>7, <1>8

\* A file is a snapshot of a set exactly as its key is.
LEMMA FileIsSnapshot ==
  ASSUME NEW key, IsKey(key), NEW set \in Canonical, InFolder(key, set), NEW m \in Minutes
  PROVE  /\ Tail(key) \in Seq(ToSet(key))
         /\ (/\ Len(Tail(key)) = 1 /\ Tail(key)[1].ext = SnapshotExt
             /\ Tail(key)[1].moment = m) <=> key = RemoteSnapshotKey(set, m)
<1>1. /\ key \in Seq(ToSet(key)) /\ Len(key) \in Nat /\ Len(key) > 1
      /\ DOMAIN key = 1 .. Len(key)
  <2>1. key \in Seq(ToSet(key)) /\ Len(key) > 1
    BY DEF IsKey, InFolder
  <2> QED
    BY <2>1
<1>2. IsSegment(key[2])
  <2>1. key[2] \in ToSet(key)
    BY <1>1 DEF ToSet
  <2> QED
    BY <2>1 DEF IsKey
<1>3. Tail(key) \in Seq(ToSet(key)) /\ Len(Tail(key)) = Len(key) - 1 /\ Tail(key)[1] = key[2]
  BY <1>1
<1>4. key[2].ext = SnapshotExt /\ key[2].moment = m <=> key[2] = SnapshotFileName(m)
  <2>1. key[2] = Segment(key[2].name, key[2].ext) \/ key[2] = MomentSegment(key[2].moment, key[2].ext)
    BY <1>2 DEF IsSegment
  <2>2. Segment(key[2].name, key[2].ext).moment # m
    BY MinutesAssumption DEF Segment
  <2>3. /\ MomentSegment(m, SnapshotExt).ext = SnapshotExt
        /\ MomentSegment(m, SnapshotExt).moment = m
    BY DEF MomentSegment
  <2> QED
    BY <2>1, <2>2, <2>3 DEF SnapshotFileName
<1>5. Len(key) = 2 /\ key[2] = SnapshotFileName(m) <=> key = RemoteSnapshotKey(set, m)
  <2> DEFINE folder == Segment(set, NoPart)
             called == SnapshotFileName(m)
  <2>1. Len(key) = 2 => key = <<key[1], key[2]>>
    BY <1>1
  <2>2. key[1] = folder /\ RemoteSnapshotKey(set, m) = <<folder, called>>
    BY DEF InFolder, RemoteSnapshotKey
  <2> HIDE DEF folder, called
  <2>3. Len(<<folder, called>>) = 2 /\ <<folder, called>>[2] = called
    OBVIOUS
  <2> QED
    BY <2>1, <2>2, <2>3 DEF called
<1>6. Len(key) - 1 = 1 <=> Len(key) = 2
  BY <1>1
<1> QED
  BY <1>3, <1>4, <1>5, <1>6

\* The files of a set's folder, but perhaps for the folder's own mark, tell its
\* snapshots.
LEMMA FilesTell ==
  ASSUME NEW keys, IsListing(keys), NEW set \in Canonical, NEW files,
         \A f \in files : \E k \in keys : InFolder(k, set) /\ f = Tail(k),
         \A k \in keys : InFolder(k, set) => Tail(k) \in files \/ Tail(k) = <<FolderMark>>
  PROVE  SnapshotsAmong(files) = SnapshotsOf(keys, set)
<1>1. ASSUME NEW m \in SnapshotsAmong(files)
      PROVE  m \in SnapshotsOf(keys, set)
  <2>1. PICK f \in files : /\ Len(f) = 1 /\ f[1].ext = SnapshotExt
                           /\ f[1].moment \in Minutes /\ m = f[1].moment
    BY DEF SnapshotsAmong
  <2>2. PICK k \in keys : InFolder(k, set) /\ f = Tail(k)
    OBVIOUS
  <2>3. IsKey(k)
    BY DEF IsListing
  <2>4. k = RemoteSnapshotKey(set, m)
    BY <2>1, <2>2, <2>3, FileIsSnapshot
  <2> QED
    BY <2>1, <2>4 DEF SnapshotsOf
<1>2. ASSUME NEW m \in SnapshotsOf(keys, set)
      PROVE  m \in SnapshotsAmong(files)
  <2> DEFINE k == RemoteSnapshotKey(set, m)
  <2>1. m \in Minutes /\ k \in keys
    BY DEF SnapshotsOf
  <2>2. InFolder(k, set)
    BY DEF RemoteSnapshotKey, InFolder
  <2>3. IsKey(k)
    BY <2>1 DEF IsListing
  <2> HIDE DEF k
  <2>4. Len(Tail(k)) = 1 /\ Tail(k)[1].ext = SnapshotExt /\ Tail(k)[1].moment = m
    BY <2>1, <2>2, <2>3, FileIsSnapshot DEF k
  <2>5. Tail(k) # <<FolderMark>>
    <3>1. <<FolderMark>>[1].moment = 0
      BY DEF FolderMark, Segment
    <3> QED
      BY <2>1, <2>4, <3>1, MinutesAssumption
  <2>6. Tail(k) \in files
    BY <2>1, <2>2, <2>5
  <2> QED
    BY <2>1, <2>4, <2>6 DEF SnapshotsAmong
<1> QED
  BY <1>1, <1>2

\* A set's own listing,
LEMMA RemoteSnapshotsAre ==
  ASSUME NEW keys, IsListing(keys), NEW set \in Canonical
  PROVE  /\ ListRemoteSnapshots(keys, set) = NewestFirst(SnapshotsOf(keys, set))
         /\ IsNewestFirst(ListRemoteSnapshots(keys, set), SnapshotsOf(keys, set))
<1> DEFINE own == {j \in keys : Len(j) > 1 /\ j[1] = Segment(set, NoPart)}
           rest == [k \in own |-> Tail(k)]
           files == {Tail(k) : k \in own}
<1>1. ListRemoteSnapshots(keys, set) = SnapshotNames(files)
  BY DEF ListRemoteSnapshots
<1>2. IsFiniteSet(files)
  <2>1. IsFiniteSet(own)
    <3>1. own \in SUBSET keys /\ IsFiniteSet(keys)
      BY DEF IsListing
    <3> HIDE DEF own
    <3> QED
      BY <3>1, FS_Subset
  <2>2. files = {rest[k] : k \in own}
    OBVIOUS
  <2> HIDE DEF own, rest, files
  <2> QED
    BY <2>1, <2>2, FiniteImage
<1>3. SnapshotsAmong(files) = SnapshotsOf(keys, set)
  <2>1. \A f \in files : \E k \in keys : InFolder(k, set) /\ f = Tail(k)
    BY DEF InFolder
  <2>2. \A k \in keys : InFolder(k, set) => Tail(k) \in files
    BY DEF InFolder
  <2> HIDE DEF files
  <2> QED
    BY <2>1, <2>2, FilesTell
<1> HIDE DEF files
<1> QED
  BY <1>1, <1>2, <1>3, SnapshotNamesAre

\* which sets there are,
LEMMA RemoteSetsAre ==
  ASSUME NEW keys, IsListing(keys)
  PROVE  /\ ListRemoteSets(keys) \subseteq Canonical
         /\ \A set \in Canonical :
              set \in ListRemoteSets(keys)
                <=> RemoteInfoKey(set) \in keys \/ \E k \in keys : InFolder(k, set)
<1>1. \A k \in keys : IsKey(k)
  BY DEF IsListing
<1>2. \A set : set \in ListRemoteSets(keys)
                 <=> \E k \in keys : /\ ParseSnapshotsKey(k) # NotAKey
                                     /\ ParseSnapshotsKey(k).set = set
  BY DEF ListRemoteSets, SetKeys
<1>3. NotAKey.set \notin Canonical
  BY CanonicalAssumption DEF NotAKey
<1>4. ListRemoteSets(keys) \subseteq Canonical
  <2> SUFFICES ASSUME NEW set \in ListRemoteSets(keys) PROVE set \in Canonical
    OBVIOUS
  <2>1. PICK k \in keys : ParseSnapshotsKey(k) # NotAKey /\ ParseSnapshotsKey(k).set = set
    BY <1>2
  <2>2. ParseSnapshotsKey(k) # NotAKey => ParseSnapshotsKey(k).set \in Canonical
    BY DEF ParseSnapshotsKey
  <2> QED
    BY <2>1, <2>2
<1>5. ASSUME NEW set \in Canonical
      PROVE  set \in ListRemoteSets(keys)
               <=> RemoteInfoKey(set) \in keys \/ \E k \in keys : InFolder(k, set)
  <2>1. set \in ListRemoteSets(keys) <=> \E k \in keys : ParseSnapshotsKey(k).set = set
    BY <1>2, <1>3
  <2>2. \A k \in keys : ParseSnapshotsKey(k).set = set
                          <=> k = RemoteInfoKey(set) \/ InFolder(k, set)
    BY <1>1, KeyIsOf
  <2> QED
    BY <2>1, <2>2
<1> QED
  BY <1>4, <1>5

\* and what a scan of all of them finds of it.
LEMMA ScannedAre ==
  ASSUME NEW keys, IsListing(keys), NEW set \in ListRemoteSets(keys)
  PROVE  ScannedSnapshots(keys)[set] = ListRemoteSnapshots(keys, set)
<1> DEFINE entries == {e \in SetKeys(keys) : e.set = set}
           files == {e.file : e \in entries} \ {<<>>, <<FolderMark>>}
<1>1. set \in Canonical
  BY RemoteSetsAre
<1>2. /\ ListSnapshotFiles(keys)[set] = files
      /\ ScannedSnapshots(keys)[set] = SnapshotNames(files)
  <2>1. ListSnapshotFiles(keys)[set] = files /\ DOMAIN ListSnapshotFiles(keys) = ListRemoteSets(keys)
    BY DEF ListSnapshotFiles
  <2> HIDE DEF files
  <2> QED
    BY <2>1 DEF ScannedSnapshots
<1>3. \A k \in keys : IsKey(k)
  BY DEF IsListing
<1>4. \A e : e \in entries <=> \E k \in keys : /\ e = ParseSnapshotsKey(k) /\ e # NotAKey
                                               /\ e.set = set
  BY DEF SetKeys
<1> HIDE DEF entries
<1>5. ASSUME NEW f \in files
      PROVE  \E k \in keys : InFolder(k, set) /\ f = Tail(k)
  <2>1. PICK e \in entries : f = e.file /\ f # <<>>
    OBVIOUS
  <2>2. PICK k \in keys : e = ParseSnapshotsKey(k) /\ e.set = set
    BY <1>4
  <2> QED
    BY <1>1, <1>3, <2>1, <2>2, KeyIsOf
<1>6. ASSUME NEW k \in keys, InFolder(k, set)
      PROVE  Tail(k) \in files \/ Tail(k) = <<FolderMark>>
  <2> DEFINE e == ParseSnapshotsKey(k)
  <2>1. e.set = set /\ e.file = Tail(k)
    BY <1>1, <1>3, <1>6, KeyIsOf
  <2>2. e # NotAKey
    <3>1. NotAKey.set \notin Canonical
      BY CanonicalAssumption DEF NotAKey
    <3> HIDE DEF e
    <3> QED
      BY <1>1, <2>1, <3>1
  <2>3. Tail(k) # <<>>
    <3>1. k \in Seq(ToSet(k)) /\ Len(k) > 1
      BY <1>3, <1>6 DEF IsKey, InFolder
    <3>2. Len(Tail(k)) = Len(k) - 1 /\ Len(k) \in Nat
      BY <3>1
    <3>3. \A n \in Nat : n > 1 => n - 1 # 0
      OBVIOUS
    <3>4. Len(<<>>) = 0
      OBVIOUS
    <3> QED
      BY <3>1, <3>2, <3>3, <3>4
  <2> HIDE DEF e
  <2>4. e \in entries
    BY <1>4, <2>1, <2>2 DEF e
  <2> QED
    BY <2>1, <2>3, <2>4
<1>7. SnapshotsAmong(files) = SnapshotsOf(keys, set)
  <2> HIDE DEF files
  <2> QED
    BY <1>1, <1>5, <1>6, FilesTell
<1>8. SnapshotNames(files) = NewestFirst(SnapshotsAmong(files))
  <2> HIDE DEF files
  <2> QED
    BY DEF SnapshotNames, SnapshotsAmong
<1> HIDE DEF files
<1> QED
  BY <1>1, <1>2, <1>7, <1>8, RemoteSnapshotsAre

\* A scan of the bucket reads, of each set it has, exactly the snapshots that a
\* listing of that set names (lib/remote.mjs).
THEOREM ScanAlwaysWhole ==
  ASSUME NEW keys, IsListing(keys)
  PROVE  ScanIsWhole(keys, ListRemoteSets(keys), ScannedSnapshots(keys),
                     [set \in Canonical |-> ListRemoteSnapshots(keys, set)])
<1>1. DOMAIN ScannedSnapshots(keys) = ListRemoteSets(keys)
  BY DEF ScannedSnapshots, ListSnapshotFiles
<1>2. ASSUME NEW set \in Canonical
      PROVE  /\ set \in ListRemoteSets(keys)
                  <=> \/ RemoteInfoKey(set) \in keys
                      \/ \E k \in keys : Len(k) > 1 /\ k[1] = Segment(set, NoPart)
             /\ ToSet(ListRemoteSnapshots(keys, set))
                  = {m \in Minutes : RemoteSnapshotKey(set, m) \in keys}
             /\ set \in ListRemoteSets(keys)
                  => ScannedSnapshots(keys)[set] = ListRemoteSnapshots(keys, set)
  <2>1. ToSet(ListRemoteSnapshots(keys, set)) = SnapshotsOf(keys, set)
    BY RemoteSnapshotsAre, MembersOf
  <2> QED
    BY <2>1, RemoteSetsAre, ScannedAre DEF InFolder, SnapshotsOf
<1>3. ListRemoteSets(keys) \subseteq Canonical
  BY RemoteSetsAre
<1> QED
  BY <1>1, <1>2, <1>3 DEF ScanIsWhole

\* The snapshots a folder here has.
SnapshotHere(m) == [name |-> SnapshotFileName(m), isFile |-> TRUE]
HeldHere(folder) == {m \in Minutes : SnapshotHere(m) \in folder}

LEMMA SnapshotsHereAre ==
  ASSUME NEW folder, IsFolder(folder)
  PROVE  IsNewestFirst(ListSnapshotNames(folder), HeldHere(folder))
<1> DEFINE own == {f \in folder : f.isFile}
           rest == [e \in own |-> <<e.name>>]
           files == {<<e.name>> : e \in own}
<1>1. ListSnapshotNames(folder) = SnapshotNames(files)
  BY DEF ListSnapshotNames
<1>2. IsFiniteSet(files)
  <2>1. IsFiniteSet(own)
    <3>1. own \in SUBSET folder /\ IsFiniteSet(folder)
      BY DEF IsFolder
    <3> HIDE DEF own
    <3> QED
      BY <3>1, FS_Subset
  <2>2. files = {rest[k] : k \in own}
    OBVIOUS
  <2> HIDE DEF own, rest, files
  <2> QED
    BY <2>1, <2>2, FiniteImage
<1>3. \A s : IsSegment(s) => \/ s = Segment(s.name, s.ext)
                             \/ s = MomentSegment(s.moment, s.ext)
  BY DEF IsSegment
<1>4. ASSUME NEW m \in SnapshotsAmong(files)
      PROVE  m \in HeldHere(folder)
  <2>1. PICK f \in files : /\ f[1].ext = SnapshotExt
                           /\ f[1].moment \in Minutes /\ m = f[1].moment
    BY DEF SnapshotsAmong
  <2>2. PICK e \in own : f = <<e.name>>
    OBVIOUS
  <2>3. f[1] = e.name
    BY <2>2
  <2>4. /\ e \in folder /\ e.isFile = TRUE /\ IsSegment(e.name)
        /\ e = [name |-> e.name, isFile |-> e.isFile]
    BY DEF IsFolder
  <2>5. e.name = SnapshotFileName(m)
    <3>1. Segment(e.name.name, e.name.ext).moment = 0 /\ 0 \notin Minutes
      BY MinutesAssumption DEF Segment
    <3> QED
      BY <1>3, <2>1, <2>3, <2>4, <3>1 DEF SnapshotFileName
  <2>6. e = SnapshotHere(m)
    BY <2>4, <2>5 DEF SnapshotHere
  <2> QED
    BY <2>1, <2>4, <2>6 DEF HeldHere
<1>5. ASSUME NEW m \in HeldHere(folder)
      PROVE  m \in SnapshotsAmong(files)
  <2> DEFINE e == SnapshotHere(m)
             f == <<SnapshotFileName(m)>>
  <2>1. m \in Minutes /\ e \in own /\ e.name = SnapshotFileName(m)
    BY DEF HeldHere, SnapshotHere
  <2>2. f \in files
    BY <2>1
  <2>3. Len(f) = 1 /\ f[1] = SnapshotFileName(m)
    OBVIOUS
  <2>4. SnapshotFileName(m).ext = SnapshotExt /\ SnapshotFileName(m).moment = m
    BY DEF SnapshotFileName, MomentSegment
  <2> HIDE DEF f, files
  <2>5. \E g \in {h \in files : Len(h) = 1 /\ h[1].ext = SnapshotExt /\ h[1].moment \in Minutes} :
          m = g[1].moment
    BY <2>1, <2>2, <2>3, <2>4
  <2> QED
    BY <2>5 DEF SnapshotsAmong
<1>6. SnapshotsAmong(files) = HeldHere(folder)
  BY <1>4, <1>5
<1> HIDE DEF files
<1> QED
  BY <1>1, <1>2, <1>6, SnapshotNamesAre

\* A part of a listing from its newest on.
LEMMA NewestOf ==
  ASSUME NEW s, NEW minutes, minutes \subseteq Int, IsNewestFirst(s, minutes),
         NEW k \in 0 .. Len(s), Len(s) \in Nat
  PROVE  LET p == SubSeq(s, 1, k)
         IN  /\ Len(p) = k /\ ToSet(p) = {s[i] : i \in 1 .. k}
             /\ ToSet(p) \subseteq minutes /\ Cardinality(ToSet(p)) = k
             /\ \A m \in ToSet(p), l \in minutes \ ToSet(p) : m > l
             /\ k = Len(s) => ToSet(p) = minutes
<1> DEFINE p == SubSeq(s, 1, k)
           P == {s[i] : i \in 1 .. k}
           f == [i \in 1 .. k |-> s[i]]
<1>1. /\ s \in Seq(minutes)
      /\ \A i, j \in 1 .. Len(s) : i < j => s[i] > s[j]
      /\ \A m \in minutes : \E i \in 1 .. Len(s) : s[i] = m
  BY DEF IsNewestFirst
<1>2. Len(p) = k /\ p \in Seq(minutes) /\ \A i \in 1 .. k : p[i] = s[i]
  BY <1>1
<1>3. ToSet(p) = P
  <2>1. DOMAIN p = 1 .. k
    BY <1>2
  <2> HIDE DEF p
  <2> QED
    BY <1>2, <2>1 DEF ToSet
<1>4. P \subseteq minutes /\ \A i \in 1 .. Len(s) : s[i] \in Int
  <2>1. \A i \in 1 .. Len(s) : s[i] \in minutes
    BY <1>1
  <2>2. 1 .. k \subseteq 1 .. Len(s)
    OBVIOUS
  <2> QED
    BY <2>1, <2>2
<1>5. Cardinality(P) = k
  <2>1. \A i, j \in 1 .. k : s[i] = s[j] => i = j
    <3> SUFFICES ASSUME NEW i \in 1 .. k, NEW j \in 1 .. k, s[i] = s[j], i # j PROVE FALSE
      OBVIOUS
    <3>1. /\ i \in 1 .. Len(s) /\ j \in 1 .. Len(s) /\ s[i] \in Int /\ s[j] \in Int
          /\ (i < j \/ j < i)
      BY <1>4
    <3> QED
      BY <1>1, <3>1
  <2>2. f \in Bijection(1 .. k, P)
    BY <2>1 DEF Bijection, Injection, Surjection, IsInjective
  <2>3. IsFiniteSet(1 .. k) /\ Cardinality(1 .. k) = k
    BY FS_Interval
  <2>4. ExistsBijection(1 .. k, P)
    BY <2>2 DEF ExistsBijection
  <2> HIDE DEF P
  <2> QED
    BY <2>3, <2>4, FS_Bijection
<1>6. ASSUME NEW m \in P, NEW l \in minutes \ P
      PROVE  m > l
  <2>1. PICK i \in 1 .. k : m = s[i]
    OBVIOUS
  <2>2. PICK j \in 1 .. Len(s) : l = s[j]
    BY <1>1
  <2>3. j \notin 1 .. k
    BY <2>2
  <2>4. i \in 1 .. Len(s) /\ i < j
    BY <2>3
  <2> QED
    BY <1>1, <2>1, <2>2, <2>4
<1>7. k = Len(s) => P = minutes
  BY <1>1, <1>4
<1> HIDE DEF P, p
<1> QED
  BY <1>2, <1>3, <1>4, <1>5, <1>6, <1>7 DEF P, p

\* A refresh brings here every snapshot the bucket lists and touches no file that
\* was here; one that is stopped says so and has brought the newest ones
\* (downloadRemoteSnapshots).
THEOREM RefreshAlwaysBringsBoth ==
  ASSUME NEW keys, IsListing(keys), NEW set \in Canonical, NEW folder, IsFolder(folder)
  PROVE  RefreshedIsBoth(folder, ListRemoteSnapshots(keys, set),
                         DownloadRemoteSnapshots(keys, set, folder))
<1> DEFINE listed == ListRemoteSnapshots(keys, set)
           R == SnapshotsOf(keys, set)
           H == HeldHere(folder)
           wanted == NewestFirst(R \ H)
           Stands(m) == [name |-> SnapshotFileName(m), isFile |-> FALSE] \in folder
           blocked == {i \in DOMAIN wanted : Stands(wanted[i])}
           k == IF blocked = {} THEN Len(wanted) ELSE Min(blocked) - 1
           pulled == SubSeq(wanted, 1, k)
           P == ToSet(pulled)
           added == {[name |-> SnapshotFileName(m), isFile |-> TRUE] : m \in P}
           download == DownloadRemoteSnapshots(keys, set, folder)
<1>1. ToSet(listed) = R /\ ToSet(ListSnapshotNames(folder)) = H
  BY RemoteSnapshotsAre, SnapshotsHereAre, MembersOf
<1>2. download = [failed |-> blocked # {}, pulled |-> Len(pulled), folder |-> folder \cup added]
  BY <1>1 DEF DownloadRemoteSnapshots
<1>3. R \subseteq Minutes /\ IsFiniteSet(R) /\ H \subseteq Minutes
  <2>1. R \subseteq Minutes /\ H \subseteq Minutes
    BY DEF SnapshotsOf, HeldHere
  <2>2. /\ IsNewestFirst(listed, R) /\ R \in SUBSET ToSet(listed)
    BY <1>1, RemoteSnapshotsAre
  <2>3. IsFiniteSet(R)
    <3> DEFINE places == 1 .. Len(listed)
    <3>1. listed \in Seq(R)
      BY <2>2 DEF IsNewestFirst
    <3>2. Len(listed) \in Nat /\ DOMAIN listed = places
      BY <3>1
    <3>3. IsFiniteSet(places)
      BY <3>2, FS_Interval
    <3>4. IsFiniteSet({listed[i] : i \in places})
      BY <3>3, FiniteImage
    <3>5. R = {listed[i] : i \in places}
      BY <1>1, <3>2 DEF ToSet
    <3> QED
      BY <3>4, <3>5
  <2> QED
    BY <2>1, <2>3
<1>4. /\ IsFiniteSet(R \ H) /\ R \ H \subseteq Int /\ R \ H \subseteq Minutes
  <2>1. R \ H \in SUBSET R /\ R \ H \subseteq Minutes
    BY <1>3
  <2>2. \A m \in Minutes : m \in Int
    BY MinutesAssumption
  <2> QED
    BY <1>3, <2>1, <2>2, FS_Subset
<1> HIDE DEF R, H
<1>5. IsNewestFirst(wanted, R \ H)
  BY <1>4, NewestFirstIs
<1> HIDE DEF wanted, Stands
<1>6. Len(wanted) \in Nat /\ DOMAIN wanted = 1 .. Len(wanted)
  BY <1>5 DEF IsNewestFirst
<1>7. k \in 0 .. Len(wanted)
  <2>1. CASE blocked = {}
    BY <1>6, <2>1
  <2>2. CASE blocked # {}
    <3>1. blocked \subseteq 1 .. Len(wanted) /\ blocked \subseteq Nat
      BY <1>6
    <3> HIDE DEF blocked
    <3>2. PICK x \in blocked : \A y \in blocked : x <= y
      BY <2>2, <3>1, Least
    <3>3. Min(blocked) \in blocked
      BY <3>2 DEF Min
    <3>4. Min(blocked) \in 1 .. Len(wanted)
      BY <3>1, <3>3
    <3> QED
      BY <1>6, <2>2, <3>4
  <2> QED
    BY <2>1, <2>2
<1>8. /\ Len(pulled) = k /\ P \subseteq R \ H /\ Cardinality(P) = k
      /\ \A m \in P, l \in (R \ H) \ P : m > l
      /\ k = Len(wanted) => P = R \ H
  <2> HIDE DEF k
  <2> QED
    BY <1>4, <1>5, <1>6, <1>7, NewestOf
<1>9. blocked = {} => P = R \ H
  BY <1>8
<1> HIDE DEF k, P, pulled, blocked
<1>10. IsFolder(folder \cup added)
  <2>1. IsFiniteSet(P)
    BY <1>4, <1>8, FS_Subset
  <2>2. IsFiniteSet(added)
    <3> DEFINE entry == [m \in P |-> [name |-> SnapshotFileName(m), isFile |-> TRUE]]
    <3>1. added = {entry[m] : m \in P}
      OBVIOUS
    <3> HIDE DEF added, entry
    <3> QED
      BY <2>1, <3>1, FiniteImage
  <2>3. IsFiniteSet(folder \cup added)
    <3>1. IsFiniteSet(folder)
      BY DEF IsFolder
    <3> HIDE DEF added
    <3> QED
      BY <2>2, <3>1, FS_Union
  <2>4. ASSUME NEW m \in P
        PROVE  IsSegment(SnapshotFileName(m))
    <3>1. m \in Nat
      BY <1>4, <1>8, MinutesAssumption
    <3>2. SnapshotFileName(m) = MomentSegment(SnapshotFileName(m).moment, SnapshotFileName(m).ext)
          /\ SnapshotFileName(m).moment = m
      BY DEF SnapshotFileName, MomentSegment
    <3> QED
      BY <3>1, <3>2 DEF IsSegment
  <2>5. \A e \in added : /\ e = [name |-> e.name, isFile |-> e.isFile]
                         /\ IsSegment(e.name) /\ e.isFile \in BOOLEAN
    <3> SUFFICES ASSUME NEW e \in added
                 PROVE  /\ e = [name |-> e.name, isFile |-> e.isFile]
                        /\ IsSegment(e.name) /\ e.isFile \in BOOLEAN
      OBVIOUS
    <3>1. PICK m \in P : e = [name |-> SnapshotFileName(m), isFile |-> TRUE]
      OBVIOUS
    <3>2. e.name = SnapshotFileName(m) /\ e.isFile = TRUE
      BY <3>1
    <3> QED
      BY <2>4, <3>1, <3>2
  <2> HIDE DEF added
  <2> QED
    BY <2>3, <2>5 DEF IsFolder
<1>11. HeldHere(folder \cup added) = H \cup P
  <2>1. P \subseteq Minutes
    BY <1>4, <1>8
  <2>2. \A m, n : SnapshotHere(m) = SnapshotHere(n) => m = n
    BY DEF SnapshotHere, SnapshotFileName, MomentSegment
  <2>3. added = {SnapshotHere(m) : m \in P}
    BY DEF SnapshotHere
  <2> HIDE DEF added
  <2> QED
    BY <2>1, <2>2, <2>3 DEF HeldHere, H
<1>12. ToSet(ListSnapshotNames(folder \cup added)) = H \cup P
  <2> HIDE DEF added
  <2> QED
    BY <1>10, <1>11, SnapshotsHereAre, MembersOf
<1>13. /\ download.failed = (blocked # {}) /\ download.pulled = Len(pulled)
       /\ download.folder = folder \cup added
  <2> HIDE DEF download, added
  <2> QED
    BY <1>2
<1> HIDE DEF download, added, listed
<1>14. RefreshedIsBoth(folder, listed, download)
  <2>1. folder \subseteq download.folder
    BY <1>13
  <2>2. /\ ToSet(ListSnapshotNames(folder)) = H
        /\ ToSet(ListSnapshotNames(download.folder)) = H \cup P
        /\ ToSet(listed) = R
    BY <1>1, <1>12, <1>13
  <2>3. (H \cup P) \ H = P
    BY <1>8
  <2>4. \A m \in P, l \in R \ (H \cup P) : m > l
    BY <1>8
  <2>5. ~download.failed => H \cup P = H \cup R
    BY <1>9, <1>13
  <2>6. Cardinality((H \cup P) \ H) = download.pulled
    BY <1>8, <1>13, <2>3
  <2> QED
    BY <1>8, <2>1, <2>2, <2>3, <2>4, <2>5, <2>6 DEF RefreshedIsBoth
<1> QED
  BY <1>14 DEF listed, download

\* What status counts is so of what the bucket lacks (commands/status.mjs).
THEOREM StatusAlwaysTrue ==
  ASSUME NEW keys, NEW set, NEW folder, NEW content, NEW records, NEW inStore,
         ListSnapshotNames(folder) # <<>>
  PROVE  LET status == Status(keys, set, folder, content, records, inStore)
             there == ListRemoteSnapshots(keys, set)
         IN  StatusIsTrue(status, content[status.snapshot],
                          IF there = <<>> THEN {} ELSE content[there[1]], records, inStore)
<1> DEFINE here == ListSnapshotNames(folder)
           there == ListRemoteSnapshots(keys, set)
           newest == IF there = <<>> THEN {} ELSE content[there[1]]
           target == content[here[1]]
           stored == IF records.damaged THEN inStore ELSE newest \ (records.deleted \ inStore)
           status == Status(keys, set, folder, content, records, inStore)
<1>1. status.snapshot = here[1] /\ status.toUpload = target \ stored
  <2>1. status = [snapshot |-> here[1],
                  snapshotBackedUp |-> here[1] \in ToSet(there),
                  backedUp |-> there,
                  toUpload |-> target \ stored]
    BY DEF Status, PlanUpload, GetUndeletedHashes
  <2> HIDE DEF status, stored, target
  <2> QED
    BY <2>1
<1> HIDE DEF status, newest, here, target
<1>2. newest \subseteq inStore \cup records.deleted =>
        /\ target \ inStore \subseteq target \ stored
        /\ (target \ stored) \cap newest \cap inStore = {}
        /\ records.damaged => target \ stored = target \ inStore
  OBVIOUS
<1> HIDE DEF stored
<1>3. StatusIsTrue(status, target, newest, records, inStore)
  BY <1>1, <1>2 DEF StatusIsTrue
<1> QED
  BY <1>1, <1>3 DEF status, newest, here, target

-----------------------------------------------------------------------------
\* All stages of some runs in turn.
IsRuns(reads, stages, last) ==
  stages = [n \in 0 .. last |->
              IF n = 0 THEN <<>> ELSE Append(stages[n - 1], RunAt(reads[n], stages[n - 1]))]

LEMMA RunsGoOn ==
  ASSUME NEW reads, NEW last \in Nat, NEW f, IsRuns(reads, f, last)
  PROVE  \E g : IsRuns(reads, g, last + 1)
<1> DEFINE After(s, n) == Append(s, RunAt(reads[n], s))
           g == [n \in 0 .. last + 1 |-> IF n = last + 1 THEN After(f[last], n) ELSE f[n]]
<1>1. f = [n \in 0 .. last |-> IF n = 0 THEN <<>> ELSE After(f[n - 1], n)]
  BY DEF IsRuns
<1> HIDE DEF After
<1>2. ASSUME NEW n \in 0 .. last + 1
      PROVE  g[n] = IF n = 0 THEN <<>> ELSE After(g[n - 1], n)
  <2>1. CASE n = last + 1
    <3>1. g[n - 1] = f[last] /\ n # 0
      BY <2>1
    <3> QED
      BY <2>1, <3>1
  <2>2. CASE n # last + 1
    <3>1. n \in 0 .. last /\ (n # 0 => n - 1 \in 0 .. last + 1 /\ n - 1 # last + 1)
      BY <2>2
    <3>2. g[n] = f[n] /\ (n # 0 => g[n - 1] = f[n - 1])
      BY <2>2, <3>1
    <3> QED
      BY <1>1, <3>1, <3>2
  <2> QED
    BY <2>1, <2>2
<1>3. g = [n \in 0 .. last + 1 |-> g[n]]
  OBVIOUS
<1> HIDE DEF g
<1>4. g = [n \in 0 .. last + 1 |-> IF n = 0 THEN <<>> ELSE After(g[n - 1], n)]
  BY <1>2, <1>3
<1> QED
  BY <1>4 DEF IsRuns, After

LEMMA RunsExist ==
  ASSUME NEW reads, NEW last \in Nat
  PROVE  \E f : IsRuns(reads, f, last)
<1> DEFINE T == {n \in Nat : ~\E f : IsRuns(reads, f, n)}
<1> SUFFICES ASSUME T # {} PROVE FALSE
  OBVIOUS
<1>1. PICK n \in T : \A k \in T : n <= k
  <2>1. T \subseteq Nat
    OBVIOUS
  <2> HIDE DEF T
  <2> QED
    BY <2>1, Least
<1>2. CASE n = 0
  <2>1. IsRuns(reads, [k \in 0 .. 0 |-> <<>>], 0)
    BY DEF IsRuns
  <2> QED
    BY <1>2, <2>1
<1>3. CASE n # 0
  <2>1. n - 1 \in Nat /\ n - 1 \notin T /\ (n - 1) + 1 = n
    BY <1>1, <1>3
  <2>2. PICK f : IsRuns(reads, f, n - 1)
    BY <2>1
  <2>3. \E g : IsRuns(reads, g, (n - 1) + 1)
    <3> HIDE DEF T
    <3> QED
      BY <2>1, <2>2, RunsGoOn
  <2> QED
    BY <2>1, <2>3
<1> QED
  BY <1>2, <1>3

LEMMA RunsAreLast ==
  ASSUME NEW reads, Len(reads) \in Nat
  PROVE  \E f : IsRuns(reads, f, Len(reads)) /\ RunsOf(reads) = f[Len(reads)]
<1> DEFINE f == CHOOSE g : IsRuns(reads, g, Len(reads))
<1>1. IsRuns(reads, f, Len(reads))
  BY RunsExist
<1>2. RunsOf(reads) = f[Len(reads)]
  BY DEF RunsOf, IsRuns
<1> QED
  BY <1>1, <1>2

LEMMA MaxIs ==
  ASSUME NEW S, S \subseteq Int, NEW x \in S, \A y \in S : y <= x
  PROVE  Max(S) = x
<1>1. \A y \in S : x >= y
  OBVIOUS
<1>2. Max(S) \in S /\ \A y \in S : Max(S) >= y
  BY <1>1 DEF Max
<1>3. PICK m : m = Max(S)
  OBVIOUS
<1>4. m \in Int /\ x \in Int /\ m >= x /\ m <= x
  BY <1>2, <1>3
<1> QED
  BY <1>3, <1>4

\* Runs so far, each told rightly.
ARun == [name : Int, instant : Int, refused : BOOLEAN, warned : BOOLEAN]
RunsTold(runs, n) == runs \in Seq(ARun) /\ Len(runs) = n /\ LatestIsLastOrTold(runs)

LEMMA NamesLeft ==
  ASSUME NEW runs \in Seq(ARun)
  PROVE  /\ Left(runs) \subseteq Int /\ IsFiniteSet(Left(runs))
         /\ IsNewestFirst(NewestFirst(Left(runs)), Left(runs))
<1> DEFINE places == 1 .. Len(runs)
           some == {j \in DOMAIN runs : ~runs[j].refused}
           name == [k \in some |-> runs[k].name]
<1>1. Len(runs) \in Nat /\ DOMAIN runs = places /\ \A j \in places : runs[j] \in ARun
  OBVIOUS
<1>2. IsFiniteSet(some)
  <2>1. some \in SUBSET places
    BY <1>1
  <2>2. IsFiniteSet(places)
    BY <1>1, FS_Interval
  <2> HIDE DEF some, places
  <2> QED
    BY <2>1, <2>2, FS_Subset
<1>3. Left(runs) = {name[k] : k \in some}
  BY DEF Left
<1>4. Left(runs) \subseteq Int
  BY <1>1 DEF Left, ARun
<1> HIDE DEF some, name
<1>5. IsFiniteSet(Left(runs))
  BY <1>2, <1>3, FiniteImage
<1> QED
  BY <1>4, <1>5, NewestFirstIs

\* The newest of the names left is the first listed.
LEMMA NewestIsFirst ==
  ASSUME NEW s, NEW minutes, minutes \subseteq Int, IsFiniteSet(minutes), IsNewestFirst(s, minutes)
  PROVE  /\ s = <<>> <=> minutes = {}
         /\ s # <<>> => s[1] \in minutes /\ \A m \in minutes : m <= s[1]
<1>1. /\ s \in Seq(minutes) /\ Len(s) = Cardinality(minutes)
      /\ \A i, j \in 1 .. Len(s) : i < j => s[i] > s[j]
      /\ \A m \in minutes : \E i \in 1 .. Len(s) : s[i] = m
  BY DEF IsNewestFirst
<1>2. s = <<>> <=> minutes = {}
  <2>1. Cardinality(minutes) = 0 <=> minutes = {}
    BY FS_EmptySet
  <2>2. s = <<>> <=> Len(s) = 0
    BY <1>1
  <2> QED
    BY <1>1, <2>1, <2>2
<1>3. ASSUME s # <<>>
      PROVE  s[1] \in minutes /\ \A m \in minutes : m <= s[1]
  <2>1. Len(s) \in Nat /\ 1 \in 1 .. Len(s) /\ \A i \in 1 .. Len(s) : s[i] \in minutes
    BY <1>1, <1>3
  <2>2. ASSUME NEW m \in minutes
        PROVE  m <= s[1]
    <3>1. PICK i \in 1 .. Len(s) : s[i] = m
      BY <1>1
    <3>2. s[1] \in Int /\ m \in Int
      BY <2>1
    <3>3. i = 1 \/ 1 < i
      BY <2>1
    <3>4. 1 < i => s[1] > s[i]
      BY <1>1, <2>1
    <3> QED
      BY <3>1, <3>2, <3>3, <3>4
  <2> QED
    BY <2>1, <2>2
<1> QED
  BY <1>2, <1>3

LEMMA RunIsTold ==
  ASSUME NEW runs \in Seq(ARun), NEW read, read.instant \in Int, read.zone \in Int
  PROVE  LET r == RunAt(read, runs)
         IN  /\ r \in ARun
             /\ ~r.refused => (r.warned <=> r.name # Max(Left(runs) \cup {r.name}))
<1> DEFINE left == Left(runs)
           listed == NewestFirst(left)
           r == RunAt(read, runs)
           x == read.instant + read.zone
<1>1. left \subseteq Int /\ IsFiniteSet(left) /\ IsNewestFirst(listed, left)
  BY NamesLeft
<1>2. r = [name |-> x, instant |-> read.instant, refused |-> x \in ToSet(listed),
           warned |-> listed # <<>> /\ x < listed[1]]
  BY DEF RunAt, LocalMoment, ClockWentBack
<1>3. x \in Int
  OBVIOUS
<1> HIDE DEF left, listed, r, x
<1>4. ToSet(listed) = left
  BY <1>1, MembersOf
<1>5. /\ listed = <<>> <=> left = {}
      /\ listed # <<>> => listed[1] \in left /\ \A m \in left : m <= listed[1]
  BY <1>1, NewestIsFirst
<1>6. r \in ARun
  BY <1>2, <1>3 DEF ARun
<1>7. r.name = x /\ r.refused = (x \in left) /\ r.warned = (listed # <<>> /\ x < listed[1])
  BY <1>2, <1>4
<1>8. PICK top : top = listed[1]
  OBVIOUS
<1>9. left # {} => /\ listed # <<>> /\ top \in left /\ top \in Int
                   /\ \A m \in left : m \in Int /\ m <= top
  BY <1>1, <1>5, <1>8
<1>10. left = {} => listed = <<>>
  BY <1>5
<1>11. ASSUME x \notin left
      PROVE  (listed # <<>> /\ x < listed[1]) <=> x # Max(left \cup {x})
  <2>1. left \cup {x} \subseteq Int
    BY <1>1, <1>3
  <2>2. CASE left = {}
    <3>1. x \in left \cup {x} /\ \A y \in left \cup {x} : y <= x
      BY <1>3, <2>2
    <3>2. Max(left \cup {x}) = x
      BY <2>1, <3>1, MaxIs
    <3> QED
      BY <1>10, <2>2, <3>2
  <2>3. CASE left # {} /\ x < top
    <3>1. top \in left \cup {x} /\ \A y \in left \cup {x} : y <= top
      BY <1>3, <1>9, <2>3
    <3>2. Max(left \cup {x}) = top
      BY <2>1, <3>1, MaxIs
    <3>3. x # top
      BY <1>3, <1>9, <2>3
    <3> QED
      BY <1>8, <1>9, <2>3, <3>2, <3>3
  <2>4. CASE left # {} /\ ~(x < top)
    <3>1. top \in Int /\ top <= x /\ \A m \in left : m \in Int /\ m <= top
      BY <1>3, <1>9, <2>4
    <3>2. x \in left \cup {x} /\ \A y \in left \cup {x} : y <= x
      BY <1>3, <3>1
    <3>3. Max(left \cup {x}) = x
      BY <2>1, <3>2, MaxIs
    <3> QED
      BY <1>8, <2>4, <3>3
  <2> QED
    BY <2>2, <2>3, <2>4
<1> QED
  BY <1>6, <1>7, <1>11 DEF r, left

\* Names of the runs up to one of them.
NamesUpTo(runs, n) == {runs[k].name : k \in {j \in 1 .. n : ~runs[j].refused}}

LEMMA RunsGrow ==
  ASSUME NEW n \in Nat, NEW runs, RunsTold(runs, n),
         NEW read, read.instant \in Int, read.zone \in Int
  PROVE  RunsTold(Append(runs, RunAt(read, runs)), n + 1)
<1> DEFINE r == RunAt(read, runs)
           next == Append(runs, r)
<1>1. /\ runs \in Seq(ARun) /\ Len(runs) = n
      /\ \A k \in 1 .. n : ~runs[k].refused =>
            (runs[k].warned <=> runs[k].name # Max(NamesUpTo(runs, k)))
  <2>1. runs \in Seq(ARun) /\ Len(runs) = n /\ DOMAIN runs = 1 .. n
    BY DEF RunsTold
  <2> QED
    BY <2>1 DEF RunsTold, LatestIsLastOrTold, NamesUpTo
<1>2. /\ r \in ARun
      /\ ~r.refused => (r.warned <=> r.name # Max(Left(runs) \cup {r.name}))
  BY <1>1, RunIsTold
<1> HIDE DEF r
<1>3. /\ next \in Seq(ARun) /\ Len(next) = n + 1 /\ DOMAIN next = 1 .. n + 1
      /\ next[n + 1] = r /\ \A k \in 1 .. n : next[k] = runs[k]
  BY <1>1, <1>2
<1> HIDE DEF next
<1>4. \A k \in 1 .. n : NamesUpTo(next, k) = NamesUpTo(runs, k)
  <2> SUFFICES ASSUME NEW k \in 1 .. n PROVE NamesUpTo(next, k) = NamesUpTo(runs, k)
    OBVIOUS
  <2>1. \A j \in 1 .. k : j \in 1 .. n
    OBVIOUS
  <2> QED
    BY <1>3, <2>1 DEF NamesUpTo
<1>5. ~r.refused => NamesUpTo(next, n + 1) = Left(runs) \cup {r.name}
  <2> SUFFICES ASSUME ~r.refused
               PROVE  NamesUpTo(next, n + 1) = Left(runs) \cup {r.name}
    OBVIOUS
  <2>1. DOMAIN runs = 1 .. n /\ 1 .. n + 1 = (1 .. n) \cup {n + 1}
    BY <1>1
  <2>2. {j \in 1 .. n + 1 : ~next[j].refused} = {j \in DOMAIN runs : ~runs[j].refused} \cup {n + 1}
    BY <1>3, <2>1
  <2>3. \A j \in DOMAIN runs : next[j].name = runs[j].name
    BY <1>3, <2>1
  <2> QED
    BY <1>3, <2>2, <2>3 DEF NamesUpTo, Left
<1>6. ASSUME NEW k \in 1 .. n + 1, ~next[k].refused
      PROVE  next[k].warned <=> next[k].name # Max(NamesUpTo(next, k))
  <2>1. CASE k = n + 1
    BY <1>2, <1>3, <1>5, <1>6, <2>1
  <2>2. CASE k # n + 1
    <3>1. k \in 1 .. n
      BY <2>2
    <3> QED
      BY <1>1, <1>3, <1>4, <1>6, <3>1
  <2> QED
    BY <2>1, <2>2
<1>7. LatestIsLastOrTold(next)
  BY <1>3, <1>6 DEF LatestIsLastOrTold, NamesUpTo
<1> QED
  BY <1>3, <1>7 DEF RunsTold, next, r

\* A set's latest snapshot is its last run's, or that run was warned that it would
\* not be, wherever the clock went (warnIfClockWentBack).
THEOREM ClockAlwaysTold ==
  ASSUME NEW reads, IsClock(reads)
  PROVE  LatestIsLastOrTold(RunsOf(reads))
<1>1. /\ Len(reads) \in Nat
      /\ \A n \in 1 .. Len(reads) : reads[n].instant \in Int /\ reads[n].zone \in Int
  <2>1. reads \in Seq(ToSet(reads))
    BY DEF IsClock
  <2>2. Len(reads) \in Nat /\ DOMAIN reads = 1 .. Len(reads)
    BY <2>1
  <2>3. \A n \in DOMAIN reads : reads[n] \in ToSet(reads)
    BY DEF ToSet
  <2> QED
    BY <2>2, <2>3 DEF IsClock
<1>2. PICK f : IsRuns(reads, f, Len(reads)) /\ RunsOf(reads) = f[Len(reads)]
  BY <1>1, RunsAreLast
<1>3. \A n \in 0 .. Len(reads) :
        f[n] = IF n = 0 THEN <<>> ELSE Append(f[n - 1], RunAt(reads[n], f[n - 1]))
  BY <1>2 DEF IsRuns
<1>4. \A n \in 0 .. Len(reads) : RunsTold(f[n], n)
  <2> DEFINE T == {n \in 0 .. Len(reads) : ~RunsTold(f[n], n)}
  <2> SUFFICES ASSUME T # {} PROVE FALSE
    OBVIOUS
  <2>1. PICK n \in T : \A k \in T : n <= k
    <3>1. T \subseteq Nat
      BY <1>1
    <3> HIDE DEF T
    <3> QED
      BY <3>1, Least
  <2>2. n \in 0 .. Len(reads) /\ ~RunsTold(f[n], n)
    OBVIOUS
  <2>3. CASE n = 0
    <3>1. f[n] = <<>>
      BY <1>3, <2>2, <2>3
    <3>2. <<>> \in Seq(ARun) /\ Len(<<>>) = 0 /\ DOMAIN <<>> = {}
      OBVIOUS
    <3>3. RunsTold(<<>>, 0)
      BY <3>2 DEF RunsTold, LatestIsLastOrTold
    <3> QED
      BY <2>2, <2>3, <3>1, <3>3
  <2>4. CASE n # 0
    <3>1. /\ n - 1 \in 0 .. Len(reads) /\ n - 1 \in Nat /\ n \in 1 .. Len(reads)
          /\ (n - 1) + 1 = n /\ ~(n <= n - 1)
      BY <1>1, <2>2, <2>4
    <3>2. RunsTold(f[n - 1], n - 1)
      BY <2>1, <3>1
    <3>3. RunsTold(Append(f[n - 1], RunAt(reads[n], f[n - 1])), (n - 1) + 1)
      BY <1>1, <3>1, <3>2, RunsGrow
    <3>4. f[n] = Append(f[n - 1], RunAt(reads[n], f[n - 1]))
      BY <1>3, <2>2, <2>4
    <3> QED
      BY <2>2, <3>1, <3>3, <3>4
  <2> QED
    BY <2>3, <2>4
<1> QED
  BY <1>1, <1>2, <1>4 DEF RunsTold

-----------------------------------------------------------------------------
(***************************************************************************)
(* The text of a snapshot, read                                            *)
(***************************************************************************)

\* The lines of a text, each of a kind.
LineKinds == {"heading", "file", "error", "dir", "mark", "dot", "dotMore", "blank",
              "unknown", "raw"}
IsText(lines) == lines \in Seq(ToSet(lines)) /\ \A line \in ToSet(lines) : line.kind \in LineKinds

LEMMA TextHasLines ==
  ASSUME NEW lines, IsText(lines)
  PROVE  /\ Len(lines) \in Nat /\ DOMAIN lines = 1 .. Len(lines)
         /\ \A i \in 1 .. Len(lines) : lines[i] \in ToSet(lines) /\ lines[i].kind \in LineKinds
<1>1. Len(lines) \in Nat /\ DOMAIN lines = 1 .. Len(lines)
  BY DEF IsText
<1>2. \A i \in 1 .. Len(lines) : lines[i] \in ToSet(lines)
  BY <1>1 DEF ToSet
<1> QED
  BY <1>1, <1>2 DEF IsText

\* What the lines before any have come to, and what some of them come to, with
\* what they do without the last.
Unread == [number |-> 0, ended |-> FALSE, fault |-> NoFault, rows |-> <<>>]
ReadBody(lines, g, s) == IF s = {} THEN Unread ELSE ReadLine(g[s \ {Max(s)}], lines[Max(s)])
AreReads(lines, g, sets) == g = [s \in sets |-> ReadBody(lines, g, s)]
ReadsBelow(lines, g, S) == AreReads(lines, g, SUBSET S)

LEMMA MaxIsOf ==
  ASSUME NEW s, s \subseteq Int, IsFiniteSet(s), s # {}
  PROVE  Max(s) \in s
<1>1. PICK x \in s : \A y \in s : y <= x
  BY Greatest
<1>2. Max(s) = x
  BY <1>1, MaxIs
<1> QED
  BY <1>1, <1>2

LEMMA ReadsGoOn ==
  ASSUME NEW lines, NEW S, S \subseteq Int, IsFiniteSet(S), NEW n \in Nat,
         NEW g, AreReads(lines, g, UpTo(S, n))
  PROVE  \E h : AreReads(lines, h, UpTo(S, n + 1))
<1> DEFINE h == [s \in UpTo(S, n + 1) |->
                   IF s \in UpTo(S, n) THEN g[s] ELSE ReadBody(lines, g, s)]
<1>1. ASSUME NEW s \in UpTo(S, n + 1)
      PROVE  h[s] = ReadBody(lines, h, s)
  <2>0. s \in UpTo(S, n) => g[s] = ReadBody(lines, g, s)
    BY DEF AreReads
  <2>1. CASE s = {}
    <3>1. ReadBody(lines, h, s) = Unread /\ ReadBody(lines, g, s) = Unread
      BY <2>1 DEF ReadBody
    <3> QED
      BY <2>0, <3>1
  <2>2. CASE s # {}
    <3> DEFINE u == s \ {Max(s)}
    <3>1. s \subseteq S /\ IsFiniteSet(s) /\ Max(s) \in s /\ Cardinality(s) <= n + 1
      BY <2>2, MaxIsOf, FS_Subset DEF UpTo
    <3>2. Cardinality(u) <= n /\ Cardinality(u) \in Nat
      <4>1. /\ Cardinality(s) \in Nat /\ Cardinality(u) = Cardinality(s) - 1
            /\ Cardinality(u) \in Nat
        BY <3>1, OneLess
      <4> QED
        BY <3>1, <4>1
    <3>3. u \in UpTo(S, n) /\ u \in UpTo(S, n + 1)
      <4>1. u \in SUBSET S
        BY <3>1
      <4> HIDE DEF u
      <4>2. Cardinality(u) <= n + 1
        BY <3>2
      <4> QED
        BY <3>2, <4>1, <4>2 DEF UpTo
    <3>4. h[u] = g[u]
      BY <3>3
    <3>5. ReadBody(lines, h, s) = ReadBody(lines, g, s)
      BY <3>4 DEF ReadBody
    <3> QED
      BY <2>0, <3>5
  <2> QED
    BY <2>1, <2>2
<1>2. h = [s \in UpTo(S, n + 1) |-> h[s]]
  OBVIOUS
<1> HIDE DEF h
<1>3. h = [s \in UpTo(S, n + 1) |-> ReadBody(lines, h, s)]
  BY <1>1, <1>2
<1> QED
  BY <1>3 DEF AreReads

LEMMA ReadsExist ==
  ASSUME NEW lines, NEW S, S \subseteq Int, IsFiniteSet(S)
  PROVE  \E g : ReadsBelow(lines, g, S)
<1>1. ASSUME NEW last \in Nat
      PROVE  \E g : AreReads(lines, g, UpTo(S, last))
  <2> DEFINE T == {n \in Nat : ~\E g : AreReads(lines, g, UpTo(S, n))}
  <2> SUFFICES ASSUME T # {} PROVE FALSE
    OBVIOUS
  <2>1. PICK n \in T : \A k \in T : n <= k
    <3>1. T \subseteq Nat
      OBVIOUS
    <3> HIDE DEF T
    <3> QED
      BY <3>1, Least
  <2>2. CASE n = 0
    <3>1. \A s \in UpTo(S, 0) : s = {}
      <4> SUFFICES ASSUME NEW s \in UpTo(S, 0) PROVE s = {}
        OBVIOUS
      <4>1. IsFiniteSet(s) /\ Cardinality(s) \in Nat /\ Cardinality(s) <= 0
        BY FS_Subset, FS_CardinalityType DEF UpTo
      <4> QED
        BY <4>1, FS_EmptySet
    <3>2. AreReads(lines, [s \in UpTo(S, 0) |-> Unread], UpTo(S, 0))
      BY <3>1 DEF AreReads, ReadBody
    <3> QED
      BY <2>2, <3>2
  <2>3. CASE n # 0
    <3>1. n - 1 \in Nat /\ n - 1 \notin T /\ (n - 1) + 1 = n
      BY <2>1, <2>3
    <3>2. PICK g : AreReads(lines, g, UpTo(S, n - 1))
      BY <3>1
    <3>3. \E h : AreReads(lines, h, UpTo(S, (n - 1) + 1))
      <4> HIDE DEF T
      <4> QED
        BY <3>1, <3>2, ReadsGoOn
    <3> QED
      BY <3>1, <3>3
  <2> QED
    BY <2>2, <2>3
<1>2. Cardinality(S) \in Nat /\ UpTo(S, Cardinality(S)) = SUBSET S
  BY FS_Subset, FS_CardinalityType DEF UpTo
<1> QED
  BY <1>1, <1>2 DEF ReadsBelow

LEMMA ReadIs ==
  ASSUME NEW lines, DOMAIN lines \subseteq Int, IsFiniteSet(DOMAIN lines)
  PROVE  \E g : /\ ReadsBelow(lines, g, DOMAIN lines)
                /\ ParseS3cabFile(lines) = g[DOMAIN lines]
<1> DEFINE g == CHOOSE h : ReadsBelow(lines, h, DOMAIN lines)
<1>1. ReadsBelow(lines, g, DOMAIN lines)
  BY ReadsExist
<1>2. ParseS3cabFile(lines) = g[DOMAIN lines]
  BY DEF ParseS3cabFile, FoldLeft, MapThenFoldSet, ReadsBelow, AreReads, ReadBody, Unread
<1> QED
  BY <1>1, <1>2

\* What has been read once n lines have gone by: whether the "." has, whether
\* each was valid where it stands, and the rows among them.
Passed(lines, n) == \E i \in 1 .. n : lines[i].kind = "dot"
ValidAt(lines, i) == LineFault(lines[i], i, Passed(lines, i - 1)) = NoFault
RowAt(lines, i) == RowLine(lines[i], i, Passed(lines, i - 1))
RowsUpTo(lines, n) == {lines[i] : i \in {j \in 1 .. n : RowAt(lines, j)}}
ReadSoFar(lines, n, state) ==
  /\ state.number = n
  /\ state.ended = Passed(lines, n)
  /\ state.fault = NoFault <=> \A i \in 1 .. n : ValidAt(lines, i)
  /\ state.rows \in Seq(ToSet(lines)) /\ ToSet(state.rows) = RowsUpTo(lines, n)

LEMMA ToSetOfAppend ==
  ASSUME NEW S, NEW s \in Seq(S), NEW x \in S
  PROVE  Append(s, x) \in Seq(S) /\ ToSet(Append(s, x)) = ToSet(s) \cup {x}
<1> DEFINE t == Append(s, x)
<1>1. /\ t \in Seq(S) /\ DOMAIN t = 1 .. Len(s) + 1 /\ DOMAIN s = 1 .. Len(s) /\ Len(s) \in Nat
      /\ \A i \in 1 .. Len(s) : t[i] = s[i]
      /\ t[Len(s) + 1] = x
  OBVIOUS
<1> HIDE DEF t
<1>2. ToSet(t) = {t[i] : i \in 1 .. Len(s) + 1} /\ ToSet(s) = {s[i] : i \in 1 .. Len(s)}
  BY <1>1 DEF ToSet
<1>3. ToSet(t) = ToSet(s) \cup {x}
  BY <1>1, <1>2
<1> QED
  BY <1>1, <1>3 DEF t

LEMMA ReadGoesOn ==
  ASSUME NEW lines, IsText(lines), NEW n \in 1 .. Len(lines), NEW state,
         ReadSoFar(lines, n - 1, state)
  PROVE  ReadSoFar(lines, n, ReadLine(state, lines[n]))
<1> DEFINE next == ReadLine(state, lines[n])
           line == lines[n]
<1>1. Len(lines) \in Nat /\ n \in Nat /\ n - 1 \in Nat /\ line \in ToSet(lines)
  BY TextHasLines
<1>2. /\ state.number + 1 = n /\ state.ended = Passed(lines, n - 1)
      /\ state.fault = NoFault <=> \A i \in 1 .. n - 1 : ValidAt(lines, i)
      /\ state.rows \in Seq(ToSet(lines)) /\ ToSet(state.rows) = RowsUpTo(lines, n - 1)
  BY <1>1 DEF ReadSoFar
<1>3. 1 .. n = (1 .. n - 1) \cup {n}
  BY <1>1
<1>4. /\ next.number = n
      /\ next.ended = (Passed(lines, n - 1) \/ line.kind = "dot")
      /\ next.fault = (IF state.fault = NoFault
                       THEN LineFault(line, n, Passed(lines, n - 1)) ELSE state.fault)
      /\ next.rows = (IF RowAt(lines, n) THEN Append(state.rows, line) ELSE state.rows)
  BY <1>2 DEF ReadLine, RowAt
<1>5. next.ended = Passed(lines, n)
  <2>1. Passed(lines, n) <=> Passed(lines, n - 1) \/ line.kind = "dot"
    BY <1>3 DEF Passed
  <2>2. Passed(lines, n) \in BOOLEAN
    BY DEF Passed
  <2> HIDE DEF next
  <2> QED
    BY <1>4, <2>1, <2>2
<1>6. next.fault = NoFault <=> \A i \in 1 .. n : ValidAt(lines, i)
  <2>1. next.fault = NoFault <=> state.fault = NoFault /\ ValidAt(lines, n)
    <3> HIDE DEF next
    <3> QED
      BY <1>4 DEF ValidAt
  <2> HIDE DEF next
  <2> QED
    BY <1>2, <1>3, <2>1
<1>7. next.rows \in Seq(ToSet(lines)) /\ ToSet(next.rows) = RowsUpTo(lines, n)
  <2> HIDE DEF next
  <2>1. CASE RowAt(lines, n)
    <3>1. RowsUpTo(lines, n) = RowsUpTo(lines, n - 1) \cup {line}
      BY <1>3, <2>1 DEF RowsUpTo
    <3> QED
      BY <1>1, <1>2, <1>4, <2>1, <3>1, ToSetOfAppend
  <2>2. CASE ~RowAt(lines, n)
    <3>1. RowsUpTo(lines, n) = RowsUpTo(lines, n - 1)
      BY <1>3, <2>2 DEF RowsUpTo
    <3> QED
      BY <1>2, <1>4, <2>2, <3>1
  <2> QED
    BY <2>1, <2>2
<1> HIDE DEF next
<1> QED
  BY <1>4, <1>5, <1>6, <1>7 DEF ReadSoFar, next

\* So it is of a whole text.
LEMMA ReadWhole ==
  ASSUME NEW lines, IsText(lines)
  PROVE  ReadSoFar(lines, Len(lines), ParseS3cabFile(lines))
<1> DEFINE D == DOMAIN lines
<1>1. Len(lines) \in Nat /\ D = 1 .. Len(lines)
  BY TextHasLines
<1>2. D \subseteq Int /\ IsFiniteSet(D)
  BY <1>1, FS_Interval
<1>3. PICK g : ReadsBelow(lines, g, D) /\ ParseS3cabFile(lines) = g[D]
  BY <1>2, ReadIs
<1>4. \A s \in SUBSET D : g[s] = ReadBody(lines, g, s)
  BY <1>3 DEF ReadsBelow, AreReads
<1> DEFINE Fine(n) == ReadSoFar(lines, n, g[1 .. n])
           T == {n \in 0 .. Len(lines) : ~Fine(n)}
<1>5. T = {}
  <2> SUFFICES ASSUME T # {} PROVE FALSE
    OBVIOUS
  <2>1. PICK n \in T : \A k \in T : n <= k
    <3>1. T \subseteq Nat
      BY <1>1
    <3> HIDE DEF T
    <3> QED
      BY <3>1, Least
  <2>2. CASE n = 0
    <3>1. 1 .. 0 = {}
      OBVIOUS
    <3>2. g[{}] = Unread
      BY <1>4 DEF ReadBody
    <3>3. ~Passed(lines, 0) /\ RowsUpTo(lines, 0) = {}
      BY <3>1 DEF Passed, RowsUpTo
    <3>4. Unread.rows \in Seq(ToSet(lines)) /\ ToSet(Unread.rows) = {}
      BY DEF Unread, ToSet
    <3>5. Unread.number = 0 /\ Unread.ended = FALSE /\ Unread.fault = NoFault
      BY DEF Unread
    <3>6. Passed(lines, 0) = FALSE
      BY <3>3 DEF Passed
    <3>7. ReadSoFar(lines, 0, Unread)
      BY <3>1, <3>3, <3>4, <3>5, <3>6 DEF ReadSoFar
    <3> QED
      BY <2>2, <3>1, <3>2, <3>7
  <2>3. CASE n # 0
    <3>1. n \in 1 .. Len(lines) /\ n - 1 \in 0 .. Len(lines) /\ n \in Nat
      BY <1>1, <2>3
    <3>2. n - 1 \notin T
      <4> HIDE DEF T
      <4> QED
        BY <2>1, <3>1
    <3>3. Fine(n - 1)
      BY <3>1, <3>2
    <3>4. Max(1 .. n) = n
      <4>1. 1 .. n \subseteq Int /\ n \in 1 .. n /\ \A y \in 1 .. n : y <= n
        BY <3>1
      <4> QED
        BY <4>1, MaxIs
    <3>5. (1 .. n) \ {n} = 1 .. n - 1 /\ 1 .. n # {} /\ 1 .. n \in SUBSET D
      <4>1. (1 .. n) \ {n} = 1 .. n - 1
        BY <3>1
      <4>2. n \in 1 .. n
        BY <3>1
      <4>3. 1 .. n \subseteq 1 .. Len(lines)
        BY <1>1, <3>1
      <4> HIDE DEF D
      <4> QED
        BY <1>1, <4>1, <4>2, <4>3
    <3>6. g[1 .. n] = ReadLine(g[1 .. n - 1], lines[n])
      BY <1>4, <3>4, <3>5 DEF ReadBody
    <3>7. Fine(n)
      BY <3>1, <3>3, <3>6, ReadGoesOn
    <3> QED
      BY <3>7
  <2> QED
    BY <2>2, <2>3
<1>6. Fine(Len(lines))
  BY <1>1, <1>5
<1> QED
  BY <1>1, <1>3, <1>6

\* What a snapshot is made of by its reader, and what of it is told.
LEMMA SnapshotIs ==
  ASSUME NEW fault, NEW rows, NEW dirs, NEW entries
  PROVE  LET read == Snapshot(fault, rows, dirs, entries)
         IN  /\ read.fault = fault
             /\ PathsOfKind(rows, "file") \subseteq read.entries \cup read.errors
             /\ PathsOfKind(rows, "error") \ {<<>>} \subseteq read.errors
BY DEF Snapshot

LEMMA ParsedIs ==
  ASSUME NEW lines, NEW held, NEW tolerant
  PROVE  LET read == ParseS3cabFile(lines)
             parsed == ParseSnapshot(lines, held, tolerant)
         IN  /\ parsed.fault = FaultAtEnd(read, held, tolerant)
             /\ PathsOfKind(read.rows, "file") \subseteq parsed.entries \cup parsed.errors
             /\ PathsOfKind(read.rows, "error") \ {<<>>} \subseteq parsed.errors
<1> DEFINE read == ParseS3cabFile(lines)
<1>1. \E dirs, entries :
        ParseSnapshot(lines, held, tolerant)
          = Snapshot(FaultAtEnd(read, held, tolerant), read.rows, dirs, entries)
  BY DEF ParseSnapshot
<1> HIDE DEF read
<1>2. PICK dirs, entries :
        ParseSnapshot(lines, held, tolerant)
          = Snapshot(FaultAtEnd(read, held, tolerant), read.rows, dirs, entries)
  BY <1>1
<1>3. /\ ParseSnapshot(lines, held, tolerant).fault = FaultAtEnd(read, held, tolerant)
      /\ PathsOfKind(read.rows, "file") \subseteq
            ParseSnapshot(lines, held, tolerant).entries \cup ParseSnapshot(lines, held, tolerant).errors
      /\ PathsOfKind(read.rows, "error") \ {<<>>} \subseteq ParseSnapshot(lines, held, tolerant).errors
  BY <1>2, SnapshotIs
<1> QED
  BY <1>3 DEF read

\* A "." ends what is valid.
LEMMA ValidUpTo ==
  ASSUME NEW lines, IsText(lines)
  PROVE  (\A i \in 1 .. Len(lines) : ValidAt(lines, i)) /\ Passed(lines, Len(lines))
            <=> /\ Len(lines) >= 2
                /\ lines[1].kind = "heading"
                /\ lines[Len(lines)].kind = "dot"
                /\ \A i \in 2 .. Len(lines) - 1 :
                      lines[i].kind \in {"file", "error", "dir", "mark", "heading"}
<1>1. Len(lines) \in Nat /\ \A i \in 1 .. Len(lines) : lines[i].kind \in LineKinds
  BY TextHasLines
<1>2. ASSUME \A i \in 1 .. Len(lines) : ValidAt(lines, i), Passed(lines, Len(lines))
      PROVE  /\ Len(lines) >= 2
             /\ lines[1].kind = "heading"
             /\ lines[Len(lines)].kind = "dot"
             /\ \A i \in 2 .. Len(lines) - 1 :
                   lines[i].kind \in {"file", "error", "dir", "mark", "heading"}
  <2>1. PICK d \in 1 .. Len(lines) : lines[d].kind = "dot"
    BY <1>2 DEF Passed
  <2>2. 1 \in 1 .. Len(lines) /\ d \in Nat
    BY <1>1, <2>1
  <2>3. lines[1].kind = "heading"
    BY <1>2, <2>2 DEF ValidAt, LineFault, NoFault
  <2>4. d # 1
    BY <2>1, <2>3
  <2>5. \A i \in 2 .. Len(lines) :
           /\ ~Passed(lines, i - 1)
           /\ lines[i].kind \notin {"raw", "dotMore", "blank", "unknown"}
    <3> SUFFICES ASSUME NEW i \in 2 .. Len(lines)
                 PROVE  /\ ~Passed(lines, i - 1)
                        /\ lines[i].kind \notin {"raw", "dotMore", "blank", "unknown"}
      OBVIOUS
    <3>1. i \in 1 .. Len(lines) /\ i # 1
      BY <1>1
    <3>2. LineFault(lines[i], i, Passed(lines, i - 1)) = NoFault
      BY <1>2, <3>1 DEF ValidAt
    <3> QED
      BY <3>1, <3>2 DEF LineFault, NoFault
  <2>6. \A i \in 2 .. Len(lines) : \A j \in 1 .. i - 1 : lines[j].kind # "dot"
    BY <2>5 DEF Passed
  <2>7. d = Len(lines)
    <3> SUFFICES ASSUME d # Len(lines) PROVE FALSE
      OBVIOUS
    <3>1. Len(lines) \in 2 .. Len(lines) /\ d \in 1 .. Len(lines) - 1
      BY <1>1, <2>2, <2>4
    <3> QED
      BY <2>1, <2>6, <3>1
  <2>8. ASSUME NEW i \in 2 .. Len(lines) - 1
        PROVE  lines[i].kind \in {"file", "error", "dir", "mark", "heading"}
    <3>1. i \in 1 .. Len(lines) /\ i \in 2 .. Len(lines)
      BY <1>1
    <3>2. Len(lines) \in 2 .. Len(lines) /\ i \in 1 .. Len(lines) - 1
      BY <1>1, <3>1
    <3>3. lines[i].kind # "dot"
      BY <2>6, <3>2
    <3> QED
      BY <1>1, <2>5, <3>1, <3>3 DEF LineKinds
  <2> QED
    BY <1>1, <2>1, <2>2, <2>3, <2>4, <2>7, <2>8
<1>3. ASSUME Len(lines) >= 2,
             lines[1].kind = "heading",
             lines[Len(lines)].kind = "dot",
             \A i \in 2 .. Len(lines) - 1 :
                lines[i].kind \in {"file", "error", "dir", "mark", "heading"}
      PROVE  (\A i \in 1 .. Len(lines) : ValidAt(lines, i)) /\ Passed(lines, Len(lines))
  <2>1. \A i \in 1 .. Len(lines) : i = 1 \/ i = Len(lines) \/ i \in 2 .. Len(lines) - 1
    BY <1>1
  <2>2. ASSUME NEW i \in 1 .. Len(lines)
        PROVE  ~Passed(lines, i - 1)
    <3> SUFFICES ASSUME NEW j \in 1 .. i - 1, lines[j].kind = "dot" PROVE FALSE
      BY DEF Passed
    <3>1. j \in 1 .. Len(lines) /\ j # Len(lines)
      BY <1>1
    <3> QED
      BY <1>3, <2>1, <3>1
  <2>3. ASSUME NEW i \in 1 .. Len(lines)
        PROVE  ValidAt(lines, i)
    <3>1. CASE i = 1
      BY <1>3, <3>1 DEF ValidAt, LineFault, NoFault
    <3>2. CASE i # 1
      <4>1. lines[i].kind \in {"file", "error", "dir", "mark", "heading", "dot"}
        BY <1>3, <2>1, <3>2
      <4> QED
        BY <2>2, <3>2, <4>1 DEF ValidAt, LineFault, NoFault
    <3> QED
      BY <3>1, <3>2
  <2>4. Passed(lines, Len(lines))
    BY <1>1, <1>3 DEF Passed
  <2> QED
    BY <2>3, <2>4
<1> QED
  BY <1>2, <1>3

\* A strict read takes exactly the whole files of the format, whatever lines
\* there are and whatever follows the last of them (lib/s3cab-file.mjs,
\* parseSnapshot).
THEOREM ReaderAlwaysTakesWhole ==
  ASSUME NEW lines, IsText(lines), NEW held \in Pieces
  PROVE  ParseSnapshot(lines, held, FALSE).fault = NoFault <=> ValidFile(lines, held)
<1> DEFINE read == ParseS3cabFile(lines)
<1>1. ParseSnapshot(lines, held, FALSE).fault = FaultAtEnd(read, held, FALSE)
  BY ParsedIs
<1>2. ReadSoFar(lines, Len(lines), read)
  BY ReadWhole
<1>3. /\ read.ended = Passed(lines, Len(lines)) /\ Passed(lines, Len(lines)) \in BOOLEAN
      /\ read.fault = NoFault <=> \A i \in 1 .. Len(lines) : ValidAt(lines, i)
  BY <1>2 DEF ReadSoFar, Passed
<1> HIDE DEF read
<1>4. FaultAtEnd(read, held, FALSE) = NoFault
        <=> read.fault = NoFault /\ read.ended /\ held = Nothing
  BY <1>3 DEF FaultAtEnd, NoFault, Nothing, Pieces
<1> QED
  BY <1>1, <1>3, <1>4, ValidUpTo DEF ValidFile

\* What a text begins with.
LEMMA BeginsAlike ==
  ASSUME NEW lines, IsText(lines), NEW k \in 1 .. Len(lines)
  PROVE  LET cut == SubSeq(lines, 1, k)
         IN  /\ IsText(cut) /\ Len(cut) = k
             /\ \A i \in 1 .. k : /\ cut[i] = lines[i]
                                   /\ (ValidAt(cut, i) <=> ValidAt(lines, i))
                                   /\ (RowAt(cut, i) <=> RowAt(lines, i))
<1> DEFINE cut == SubSeq(lines, 1, k)
<1>1. /\ Len(lines) \in Nat /\ k \in Nat /\ k <= Len(lines) /\ lines \in Seq(ToSet(lines))
      /\ \A i \in 1 .. Len(lines) : lines[i] \in ToSet(lines) /\ lines[i].kind \in LineKinds
  BY TextHasLines DEF IsText
<1>2. /\ cut \in Seq(ToSet(lines)) /\ Len(cut) = k /\ DOMAIN cut = 1 .. k
      /\ \A i \in 1 .. k : cut[i] = lines[i]
  BY <1>1
<1> HIDE DEF cut
<1>3. ToSet(cut) = {cut[i] : i \in 1 .. k}
  BY <1>2 DEF ToSet
<1>4. \A i \in 1 .. k : cut[i] \in ToSet(cut) /\ cut[i].kind \in LineKinds
  BY <1>1, <1>2, <1>3
<1>5. cut \in Seq(ToSet(cut))
  BY <1>1, <1>2, <1>4
<1>6. IsText(cut)
  BY <1>3, <1>4, <1>5 DEF IsText
<1>7. ASSUME NEW i \in 1 .. k
      PROVE  (ValidAt(cut, i) <=> ValidAt(lines, i)) /\ (RowAt(cut, i) <=> RowAt(lines, i))
  <2>1. \A j \in 1 .. i - 1 : cut[j] = lines[j]
    BY <1>1, <1>2
  <2>2. Passed(cut, i - 1) = Passed(lines, i - 1)
    BY <2>1 DEF Passed
  <2>3. cut[i] = lines[i]
    BY <1>2
  <2> QED
    BY <2>2, <2>3 DEF ValidAt, RowAt
<1> QED
  BY <1>2, <1>6, <1>7 DEF cut

\* A file cut after any of its lines but the last is refused, whatever piece of
\* the next it ends in; and what salvages it takes each of its lines, so that of
\* each file and error that had landed it tells (lib/snapshot-file.mjs).
THEOREM CutAlwaysKnown ==
  ASSUME NEW lines, IsText(lines), ValidFile(lines, Nothing),
         NEW k \in 1 .. Len(lines) - 1, NEW held \in Pieces
  PROVE  LET strict == ParseSnapshot(SubSeq(lines, 1, k), held, FALSE)
             tolerant == ParseSnapshot(SubSeq(lines, 1, k), held, TRUE)
             Landed(kind) == {lines[i].path : i \in {j \in 1 .. k : lines[j].kind = kind}}
         IN  /\ strict.fault # NoFault
             /\ tolerant.fault = NoFault
             /\ Landed("file") \subseteq tolerant.entries \cup tolerant.errors
             /\ Landed("error") \ {<<>>} \subseteq tolerant.errors
<1> DEFINE cut == SubSeq(lines, 1, k)
           read == ParseS3cabFile(cut)
           tolerant == ParseSnapshot(cut, held, TRUE)
           Landed(kind) == {lines[i].path : i \in {j \in 1 .. k : lines[j].kind = kind}}
<1>1. Len(lines) \in Nat /\ k \in 1 .. Len(lines) /\ k \in Nat
  BY TextHasLines
<1>2. /\ IsText(cut) /\ Len(cut) = k
      /\ \A i \in 1 .. k : /\ cut[i] = lines[i]
                            /\ (ValidAt(cut, i) <=> ValidAt(lines, i))
                            /\ (RowAt(cut, i) <=> RowAt(lines, i))
  BY <1>1, BeginsAlike
<1>3. /\ Len(lines) >= 2 /\ lines[1].kind = "heading"
      /\ \A i \in 2 .. Len(lines) - 1 :
            lines[i].kind \in {"file", "error", "dir", "mark", "heading"}
      /\ \A i \in 1 .. Len(lines) : ValidAt(lines, i)
  BY ValidUpTo DEF ValidFile
<1>4. \A i \in 1 .. k : lines[i].kind \in {"file", "error", "dir", "mark", "heading"}
  BY <1>1, <1>3
<1>5. ParseSnapshot(cut, held, FALSE).fault # NoFault
  <2>1. cut[k].kind # "dot"
    BY <1>1, <1>2, <1>4
  <2>2. ~ValidFile(cut, held)
    BY <1>2, <2>1 DEF ValidFile
  <2> QED
    BY <1>2, <2>2, ReaderAlwaysTakesWhole
<1>6. ReadSoFar(cut, k, read)
  BY <1>2, ReadWhole
<1>7. read.fault = NoFault
  <2>1. \A i \in 1 .. k : ValidAt(cut, i)
    BY <1>1, <1>2, <1>3
  <2> QED
    BY <1>6, <2>1 DEF ReadSoFar
<1>8. \A i \in 1 .. k : lines[i].kind # "heading" => lines[i] \in ToSet(read.rows)
  <2> SUFFICES ASSUME NEW i \in 1 .. k, lines[i].kind # "heading"
               PROVE  lines[i] \in RowsUpTo(cut, k)
    BY <1>6 DEF ReadSoFar
  <2>1. ~Passed(lines, i - 1)
    BY <1>1, <1>4 DEF Passed
  <2>2. RowAt(lines, i)
    BY <1>4, <2>1 DEF RowAt, RowLine
  <2> QED
    BY <1>2, <2>2 DEF RowsUpTo
<1>9. /\ tolerant.fault = FaultAtEnd(read, held, TRUE)
      /\ PathsOfKind(read.rows, "file") \subseteq tolerant.entries \cup tolerant.errors
      /\ PathsOfKind(read.rows, "error") \ {<<>>} \subseteq tolerant.errors
  BY ParsedIs
<1> HIDE DEF read, tolerant
<1>10. tolerant.fault = NoFault
  BY <1>7, <1>9 DEF FaultAtEnd
<1>11. /\ Landed("file") \subseteq PathsOfKind(read.rows, "file")
       /\ Landed("error") \subseteq PathsOfKind(read.rows, "error")
  BY <1>8 DEF PathsOfKind
<1>12. /\ Landed("file") \subseteq tolerant.entries \cup tolerant.errors
       /\ Landed("error") \ {<<>>} \subseteq tolerant.errors
  BY <1>9, <1>11
<1> QED
  BY <1>5, <1>10, <1>12 DEF tolerant

\* A path's folder goes up to its last separator, so that each of its separators
\* is one of its folder's.
LEMMA FolderIs ==
  ASSUME NEW Tokens, NEW path \in Seq(Tokens)
  PROVE  \A i \in Cuts(path) : /\ i \in Cuts(FolderOf(path))
                               /\ SubSeq(FolderOf(path), 1, i - 1) = SubSeq(path, 1, i - 1)
<1> DEFINE seps == CountingSeps(path)
           last == LastOf(path, seps)
           places == {i \in DOMAIN path : path[i] \in seps}
           folder == SubSeq(path, 1, last)
<1>1. Len(path) \in Nat /\ DOMAIN path = 1 .. Len(path)
  OBVIOUS
<1>2. Cuts(path) = places
  BY DEF Cuts
<1>3. /\ last \in 0 .. Len(path) /\ \A i \in places : i <= last
  <2>1. CASE places = {}
    BY <1>1, <2>1 DEF LastOf
  <2>2. CASE places # {}
    <3>1. places \subseteq Int /\ IsFiniteSet(places)
      <4>1. places \in SUBSET (1 .. Len(path))
        BY <1>1
      <4>2. 1 .. Len(path) \subseteq Int /\ IsFiniteSet(1 .. Len(path))
        BY <1>1, FS_Interval
      <4> HIDE DEF places
      <4> QED
        BY <4>1, <4>2, FS_Subset
    <3>2. \E i \in places : \A j \in places : j <= i
      <4> HIDE DEF places
      <4> QED
        BY <2>2, <3>1, Greatest
    <3>3. last = CHOOSE i \in places : \A j \in places : j <= i
      BY <2>2 DEF LastOf
    <3>4. last \in places /\ \A j \in places : j <= last
      <4> HIDE DEF places, last
      <4> QED
        BY <3>2, <3>3
    <3> HIDE DEF last
    <3> QED
      BY <1>1, <3>4
  <2> QED
    BY <2>1, <2>2
<1>4. FolderOf(path) = folder
  <2>1. PreparePath(path).base = SubSeq(path, last + 1, Len(path))
    BY DEF PreparePath
  <2> HIDE DEF last
  <2>2. Len(SubSeq(path, last + 1, Len(path))) = Len(path) - last
    <3>1. CASE last < Len(path)
      <4>1. last + 1 \in 1 .. Len(path) /\ Len(path) - (last + 1) + 1 = Len(path) - last
        BY <1>1, <1>3, <3>1
      <4>2. Len(SubSeq(path, last + 1, Len(path))) = Len(path) - (last + 1) + 1
        BY <1>1, <4>1
      <4> QED
        BY <4>1, <4>2
    <3>2. CASE last = Len(path)
      <4>1. Len(SubSeq(path, last + 1, Len(path))) = 0
        BY <1>1, <3>2
      <4> QED
        BY <1>1, <3>2, <4>1
    <3>3. last < Len(path) \/ last = Len(path)
      <4>1. \A n \in Nat : \A l \in 0 .. n : l < n \/ l = n
        OBVIOUS
      <4> QED
        BY <1>1, <1>3, <4>1
    <3> QED
      BY <3>1, <3>2, <3>3
  <2>3. Len(path) - (Len(path) - last) = last
    BY <1>1, <1>3
  <2> QED
    BY <2>1, <2>2, <2>3 DEF FolderOf
<1> HIDE DEF last
<1>5. /\ folder \in Seq(Tokens) /\ Len(folder) = last /\ DOMAIN folder = 1 .. last
      /\ \A i \in 1 .. last : folder[i] = path[i]
  BY <1>1, <1>3
<1> HIDE DEF folder
<1>6. ASSUME NEW i \in Cuts(path)
      PROVE  i \in Cuts(folder) /\ SubSeq(folder, 1, i - 1) = SubSeq(path, 1, i - 1)
  <2>1. i \in 1 .. last /\ path[i] \in seps /\ last \in 1 .. Len(path)
    <3> HIDE DEF seps
    <3> QED
      BY <1>1, <1>2, <1>3, <1>6
  <2>2. FoldsCase(folder) <=> FoldsCase(path)
    <3>1. CASE FoldsCase(path)
      <4>1. Len(path) >= 2 /\ path[2] \in Separators /\ path[1] \in Drives \cup Separators
        BY <3>1 DEF FoldsCase
      <4>2. 2 \in places
        BY <1>1, <3>1, <4>1 DEF CountingSeps
      <4>3. 2 <= last
        BY <1>3, <4>2
      <4>4. folder[1] = path[1] /\ folder[2] = path[2]
        BY <1>3, <1>5, <4>3
      <4> QED
        BY <1>5, <3>1, <4>1, <4>3, <4>4 DEF FoldsCase
    <3>2. CASE FoldsCase(folder)
      <4>1. /\ last >= 2
            /\ folder[2] \in Separators /\ folder[1] \in Drives \cup Separators
        BY <1>5, <3>2 DEF FoldsCase
      <4>2. folder[1] = path[1] /\ folder[2] = path[2] /\ Len(path) >= 2
        BY <1>1, <1>3, <1>5, <4>1
      <4> QED
        BY <3>2, <4>1, <4>2 DEF FoldsCase
    <3> QED
      BY <3>1, <3>2
  <2>3. CountingSeps(folder) = seps
    BY <2>2 DEF CountingSeps
  <2>4. i \in Cuts(folder)
    BY <1>5, <2>1, <2>3 DEF Cuts
  <2>5. SubSeq(folder, 1, i - 1) = SubSeq(path, 1, i - 1)
    <3> DEFINE a == SubSeq(folder, 1, i - 1)
               b == SubSeq(path, 1, i - 1)
    <3>1. /\ a \in Seq(Tokens) /\ Len(a) = i - 1
          /\ \A j \in 1 .. i - 1 : a[j] = folder[j]
      BY <1>5, <2>1
    <3>2. /\ b \in Seq(Tokens) /\ Len(b) = i - 1
          /\ \A j \in 1 .. i - 1 : b[j] = path[j]
      BY <1>1, <2>1
    <3>3. \A j \in 1 .. i - 1 : folder[j] = path[j]
      BY <1>5, <2>1
    <3> HIDE DEF a, b
    <3>4. a = b
      BY <2>1, <3>1, <3>2, <3>3
    <3> QED
      BY <3>4 DEF a, b
  <2> QED
    BY <2>4, <2>5
<1> QED
  BY <1>4, <1>6

\* Of any rows, those taken are sound, each the only one of its path, and no path
\* of them runs through another as a folder (lib/snapshot-file.mjs).
THEOREM EntriesAlwaysFit ==
  ASSUME NEW Rows, NEW rows \in Seq(Rows), NEW Tokens,
         \A row \in Rows : row.path \in Seq(Tokens), NEW dirs
  PROVE  \A p \in Entries(rows, dirs) :
           /\ ~PathFault(p)
           /\ \E i \in DOMAIN rows :
                 /\ rows[i].path = p /\ rows[i].sound
                 /\ \A j \in DOMAIN rows : rows[j].path = p => j = i
           /\ \A q \in Entries(rows, dirs) \ {p} : ~\E i \in Cuts(p) : SubSeq(p, 1, i - 1) = q
<1> DEFINE named == {r.path : r \in ToSet(rows)} \ RowsRefused(rows)
<1>1. Len(rows) \in Nat /\ DOMAIN rows = 1 .. Len(rows)
  OBVIOUS
<1>2. PICK files : files \subseteq named /\ Entries(rows, dirs) = files \ InTheWay(files)
  BY DEF Entries
<1> SUFFICES ASSUME NEW p \in files \ InTheWay(files)
             PROVE  /\ ~PathFault(p)
                    /\ \E i \in DOMAIN rows :
                          /\ rows[i].path = p /\ rows[i].sound
                          /\ \A j \in DOMAIN rows : rows[j].path = p => j = i
                    /\ \A q \in files \ {p} : ~\E i \in Cuts(p) : SubSeq(p, 1, i - 1) = q
  BY <1>2
<1>3. p \in named
  BY <1>2
<1>4. PICK i \in DOMAIN rows : rows[i].path = p
  BY <1>3 DEF ToSet
<1>5. ~FileRowFault(rows[i])
  BY <1>3, <1>4 DEF RowsRefused
<1>6. ASSUME NEW j \in DOMAIN rows, rows[j].path = p
      PROVE  j = i
  <2>1. ~(j < i) /\ ~(i < j)
    <3>1. \A m, n \in DOMAIN rows : rows[m].path = p /\ rows[n].path = p => ~(m < n)
      <4> SUFFICES ASSUME NEW m \in DOMAIN rows, NEW n \in DOMAIN rows,
                          rows[m].path = p, rows[n].path = p, m < n
                   PROVE  FALSE
        OBVIOUS
      <4>1. m \in 1 .. n - 1 /\ rows[m].path = rows[n].path
        BY <1>1
      <4>2. p \in RowsRefused(rows)
        BY <4>1 DEF RowsRefused
      <4> QED
        BY <1>3, <4>2
    <3> QED
      BY <1>4, <1>6, <3>1
  <2> QED
    BY <1>1, <1>4, <2>1
<1>7. p \in Seq(Tokens)
  BY <1>1, <1>4
<1>8. ASSUME NEW q \in files, NEW k \in Cuts(p), SubSeq(p, 1, k - 1) = q
      PROVE  FALSE
  <2>1. k \in Cuts(FolderOf(p)) /\ SubSeq(FolderOf(p), 1, k - 1) = q
    BY <1>7, <1>8, FolderIs
  <2>2. q \in Blockers(p, files)
    BY <2>1 DEF Blockers
  <2>3. p \in InTheWay(files)
    BY <2>2 DEF InTheWay
  <2> QED
    BY <2>3
<1> QED
  BY <1>4, <1>5, <1>6, <1>8 DEF FileRowFault

-----------------------------------------------------------------------------
(***************************************************************************)
(* What is asked and answered                                              *)
(***************************************************************************)

\* What is asked about snapshots or a bucket is one of the questions, and what is
\* answered is what the code works out of it.
QuestionsOf ==
  [compare |-> CompareQuestions, find |-> FindQuestions, bucket |-> BucketQuestions,
   listing |-> ListingQuestions, clock |-> ClockQuestions]
ProvedOf == {"compare", "find", "bucket", "listing", "clock"}

AskedInv ==
  /\ topic = Nobody => answer = Pending
  /\ \A about \in ProvedOf : topic = about => question \in QuestionsOf[about]
AnsweredInv ==
  /\ Of("compare") => answer.of = CompareSnapshots(question.since, question.until)
  /\ Of("find") => answer.of = FindInSnapshots(question.history, question.matches, question.all)
  /\ Of("bucket") => answer.of.verify = Verify(question.bucket)
  /\ Of("listing") => answer.of = ListingOf(question)
  /\ Of("clock") => answer.of = RunsOf(question.reads)
ToldInv == AskedInv /\ AnsweredInv

\* A question of any topic.
LEMMA AskKeeps ==
  ASSUME ToldInv, Asked
  PROVE  ToldInv'
<1>1. topic = Nobody /\ UNCHANGED answer
  BY DEF Asked, Ask
<1>2. /\ \A about \in ProvedOf : topic' = about => question' \in QuestionsOf[about]
      /\ topic' # Nobody
  BY DEF Asked, Ask, Nobody, ProvedOf, QuestionsOf
<1>3. answer' = Pending
  BY <1>1 DEF ToldInv, AskedInv
<1> QED
  BY <1>2, <1>3 DEF ToldInv, AskedInv, AnsweredInv, Of

LEMMA ReplyKeeps ==
  ASSUME ToldInv, Replied
  PROVE  ToldInv'
<1>1. CASE ReplyCompare
  BY <1>1 DEF ToldInv, AskedInv, AnsweredInv, Of, Pending, Nobody, ReplyCompare, Reply
<1>2. CASE ReplyFind
  BY <1>2 DEF ToldInv, AskedInv, AnsweredInv, Of, Pending, Nobody, ReplyFind, Reply
<1>3. CASE ReplyBucket
  BY <1>3 DEF ToldInv, AskedInv, AnsweredInv, Of, Pending, Nobody, ReplyBucket, Reply
<1>4. CASE ReplyListing
  BY <1>4 DEF ToldInv, AskedInv, AnsweredInv, Of, Pending, Nobody, ReplyListing, Reply
<1>5. CASE ReplyClock
  BY <1>5 DEF ToldInv, AskedInv, AnsweredInv, Of, Pending, Nobody, ReplyClock, Reply
<1>6. CASE topic \notin ProvedOf \cup {Nobody} /\ topic' = topic
  BY <1>6 DEF ToldInv, AskedInv, AnsweredInv, Of, ProvedOf
<1>7. CASE ~(ReplyCompare \/ ReplyFind \/ ReplyBucket \/ ReplyListing \/ ReplyClock)
  <2>1. topic \notin ProvedOf \cup {Nobody} /\ topic' = topic
    <3>1. CASE ReplyPaths
      BY <3>1 DEF ReplyPaths, Reply, Nobody, ProvedOf
    <3>2. CASE ReplyGlob
      BY <3>2 DEF ReplyGlob, Reply, Nobody, ProvedOf
    <3>3. CASE ReplyLineTo
      BY <3>3 DEF ReplyLineTo, Reply, Nobody, ProvedOf
    <3>4. CASE ReplyWalk
      BY <3>4 DEF ReplyWalk, Reply, Nobody, ProvedOf
    <3>5. CASE ReplyRestore
      BY <3>5 DEF ReplyRestore, Reply, Nobody, ProvedOf
    <3>6. CASE ReplyExtract
      BY <3>6 DEF ReplyExtract, Reply, Nobody, ProvedOf
    <3>7. CASE ReplyLines
      BY <3>7 DEF ReplyLines, Reply, Nobody, ProvedOf
    <3>8. CASE ReplyFile
      BY <3>8 DEF ReplyFile, Reply, Nobody, ProvedOf
    <3>9. CASE ReplySettings
      BY <3>9 DEF ReplySettings, Reply, Nobody, ProvedOf
    <3>10. CASE ReplySetup
      BY <3>10 DEF ReplySetup, Reply, Nobody, ProvedOf
    <3>11. CASE ReplySignIn
      BY <3>11 DEF ReplySignIn, Reply, Nobody, ProvedOf
    <3>12. CASE ReplyIdentity
      BY <3>12 DEF ReplyIdentity, Reply, Nobody, ProvedOf
    <3>13. CASE ReplyError
      BY <3>13 DEF ReplyError, Reply, Nobody, ProvedOf
    <3>14. CASE ReplyDer
      BY <3>14 DEF ReplyDer, Reply, Nobody, ProvedOf
    <3>15. CASE ReplyInstant
      BY <3>15 DEF ReplyInstant, Reply, Nobody, ProvedOf
    <3>16. CASE ReplyMarker
      BY <3>16 DEF ReplyMarker, Reply, Nobody, ProvedOf
    <3>17. CASE ReplyLock
      BY <3>17 DEF ReplyLock, Reply, Nobody, ProvedOf
    <3>18. CASE ReplyConfig
      BY <3>18 DEF ReplyConfig, Reply, Nobody, ProvedOf
    <3>19. CASE ReplySuggestion
      BY <3>19 DEF ReplySuggestion, Reply, Nobody, ProvedOf
    <3> QED
      BY <1>7, <3>1, <3>2, <3>3, <3>4, <3>5, <3>6, <3>7, <3>8, <3>9, <3>10, <3>11, <3>12, <3>13, <3>14, <3>15, <3>16, <3>17, <3>18, <3>19 DEF Replied
  <2> QED
    BY <1>6, <2>1
<1> QED
  BY <1>1, <1>2, <1>3, <1>4, <1>5, <1>7

LEMMA HistoryHolds ==
  ASSUME ToldInv
  PROVE  HistoryIsTold
<1>1. EachPathToldOnce /\ ContentIsTraced
  <2>1. CASE Of("compare")
    <3>1. /\ IsSnapshot(question.since) /\ IsSnapshot(question.until)
          /\ answer.of = CompareSnapshots(question.since, question.until)
      BY <2>1, HistoryAssumption DEF ToldInv, AskedInv, AnsweredInv, ProvedOf, QuestionsOf, Of
    <3>2. /\ HeldIsToldOnce(question.since, question.until, answer.of)
          /\ GoneIsToldOnce(question.since, question.until, answer.of)
          /\ CopiesAreNamed(question.since, question.until, answer.of)
          /\ MovesPairAll(question.since, question.until, answer.of)
      BY <3>1, ComparisonTellsTheHeldOnce, ComparisonTellsTheGoneOnce, ComparisonNamesCopies,
         ComparisonPairsAll
    <3> QED
      BY <3>2 DEF EachPathToldOnce, ContentIsTraced
  <2>2. CASE ~Of("compare")
    BY <2>2 DEF EachPathToldOnce, ContentIsTraced
  <2> QED
    BY <2>1, <2>2
<1>2. FindTellsTheRuns
  <2>1. CASE Of("find") /\ ~question.all
    <3>1. /\ IsHistory(question.history) /\ question.all = FALSE
          /\ answer.of = FindInSnapshots(question.history, question.matches, question.all)
      BY <2>1, HistoryAssumption DEF ToldInv, AskedInv, AnsweredInv, ProvedOf, QuestionsOf, Of
    <3>2. ASSUME NEW object \in answer.of.objects
          PROVE  /\ \A set \in DOMAIN object.spans : SpansAreRuns(question.history, object, set)
                 /\ BacksAll(question.history, object, question.matches)
      <4>1. object \in FindInSnapshots(question.history, question.matches, FALSE).objects
        BY <3>1
      <4> QED
        BY <3>1, <4>1, FindTellsRuns
    <3> QED
      BY <3>2 DEF FindTellsTheRuns
  <2>2. CASE ~(Of("find") /\ ~question.all)
    BY <2>2 DEF FindTellsTheRuns
  <2> QED
    BY <2>1, <2>2
<1> QED
  BY <1>1, <1>2 DEF HistoryIsTold

LEMMA BucketHolds ==
  ASSUME ToldInv
  PROVE  BucketIsToldTrue
<1>1. VerifyIsExact /\ CleanupIsLossless /\ ForgetPreviewIsTrue
  <2>1. CASE Of("bucket")
    <3>1. /\ IsBucket(question.bucket) /\ question.set \in DOMAIN question.bucket.snapshots
          /\ IsFiniteSet(question.selected)
          /\ answer.of.verify = Verify(question.bucket)
      BY <2>1, BucketAssumption
         DEF ToldInv, AskedInv, AnsweredInv, ProvedOf, QuestionsOf, Of, SetsOf
    <3>2. /\ QuietMeansRestorable(question.bucket, answer.of.verify)
          /\ EachBrokenRowNamed(question.bucket, answer.of.verify)
          /\ CleanupLosesNothing(question.bucket)
          /\ PreviewIsTheLoss(question.bucket, question.set, question.selected)
          /\ PreviewAddsUp(question.bucket, question.set, question.selected)
      BY <3>1, QuietAlwaysMeansRestorable, EachBrokenRowAlwaysNamed, CleanupAlwaysLosesNothing,
         PreviewIsAlwaysTheLoss, PreviewAlwaysAddsUp
    <3> QED
      BY <3>2 DEF VerifyIsExact, CleanupIsLossless, ForgetPreviewIsTrue
  <2>2. CASE ~Of("bucket")
    BY <2>2 DEF VerifyIsExact, CleanupIsLossless, ForgetPreviewIsTrue
  <2> QED
    BY <2>1, <2>2
<1>2. KeysAreCounted
  <2>1. CASE Of("listing")
    <3> DEFINE keys == question.keys
               set == question.set
               there == ListRemoteSnapshots(keys, set)
               status == Status(keys, set, question.folder, question.content,
                                question.records, question.inStore)
               newest == IF there = <<>> THEN {} ELSE question.content[there[1]]
    <3>1. /\ IsListing(keys) /\ set \in Canonical /\ IsFolder(question.folder)
          /\ answer.of = ListingOf(question)
      BY <2>1, BucketAssumption DEF ToldInv, AskedInv, AnsweredInv, ProvedOf, QuestionsOf, Of
    <3>2. /\ answer.of.sets = ListRemoteSets(keys) /\ answer.of.scanned = ScannedSnapshots(keys)
          /\ answer.of.listed = [s \in Canonical |-> ListRemoteSnapshots(keys, s)]
          /\ answer.of.download = DownloadRemoteSnapshots(keys, set, question.folder)
          /\ answer.of.status = status
      BY <3>1 DEF ListingOf
    <3>3. answer.of.listed[set] = there
      BY <3>1, <3>2
    <3>4. ScanIsWhole(keys, answer.of.sets, answer.of.scanned, answer.of.listed)
      BY <3>1, <3>2, ScanAlwaysWhole
    <3>5. RefreshedIsBoth(question.folder, answer.of.listed[set], answer.of.download)
      BY <3>1, <3>2, <3>3, RefreshAlwaysBringsBoth
    <3>6. "refused" \notin DOMAIN status =>
            StatusIsTrue(status, question.content[status.snapshot], newest,
                         question.records, question.inStore)
      <4>1. ListSnapshotNames(question.folder) = <<>> => "refused" \in DOMAIN status
        <5>1. ListSnapshotNames(question.folder) = <<>> => status = [refused |-> "no snapshot"]
          BY DEF Status
        <5>2. "refused" \in DOMAIN [refused |-> "no snapshot"]
          OBVIOUS
        <5> HIDE DEF status
        <5>3. SUFFICES ASSUME ListSnapshotNames(question.folder) = <<>>
                       PROVE  "refused" \in DOMAIN status
          OBVIOUS
        <5>4. status = [refused |-> "no snapshot"]
          BY <5>1, <5>3
        <5> QED
          BY <5>2, <5>4
      <4> QED
        BY <4>1, StatusAlwaysTrue
    <3> HIDE DEF there, status
    <3> QED
      BY <3>2, <3>3, <3>4, <3>5, <3>6 DEF KeysAreCounted
  <2>2. CASE ~Of("listing")
    BY <2>2 DEF KeysAreCounted
  <2> QED
    BY <2>1, <2>2
<1>3. ClockIsTold
  <2>1. CASE Of("clock")
    <3>1. IsClock(question.reads) /\ answer.of = RunsOf(question.reads)
      BY <2>1, BucketAssumption DEF ToldInv, AskedInv, AnsweredInv, ProvedOf, QuestionsOf, Of
    <3> QED
      BY <3>1, ClockAlwaysTold DEF ClockIsTold
  <2>2. CASE ~Of("clock")
    BY <2>2 DEF ClockIsTold
  <2> QED
    BY <2>1, <2>2
<1> QED
  BY <1>1, <1>2, <1>3 DEF BucketIsToldTrue

LEMMA ToldAlways == AnswersSpec => []ToldInv
<1>1. AnswersInit => ToldInv
  BY DEF AnswersInit, ToldInv, AskedInv, AnsweredInv, ProvedOf, Of, Pending, Nobody
<1>2. ToldInv /\ [AnswersNext]_answersVars => ToldInv'
  <2> SUFFICES ASSUME ToldInv, [AnswersNext]_answersVars PROVE ToldInv'
    OBVIOUS
  <2>1. CASE Asked
    BY <2>1, AskKeeps
  <2>2. CASE Replied
    BY <2>2, ReplyKeeps
  <2>3. CASE Close
    BY <2>3 DEF Close, ToldInv, AskedInv, AnsweredInv, ProvedOf, Of, Pending, Nobody
  <2>4. CASE UNCHANGED answersVars
    BY <2>4 DEF answersVars, ToldInv, AskedInv, AnsweredInv, Of
  <2> QED
    BY <2>1, <2>2, <2>3, <2>4 DEF AnswersNext
<1> QED
  BY <1>1, <1>2, PTL DEF AnswersSpec

\* So what compare and find answer of any snapshots adds up to the snapshots.
THEOREM HistoryAlwaysTold == AnswersSpec => []HistoryIsTold
<1>1. ToldInv => HistoryIsTold
  BY HistoryHolds
<1> QED
  BY <1>1, ToldAlways, PTL

\* And what verify, cleanup, forget, a listing, a refresh, status and the clock's
\* warning say of any bucket is so.
THEOREM BucketAlwaysToldTrue == AnswersSpec => []BucketIsToldTrue
<1>1. ToldInv => BucketIsToldTrue
  BY BucketHolds
<1> QED
  BY <1>1, ToldAlways, PTL
===============================================================================
