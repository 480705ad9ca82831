----------------------------- MODULE SetOwnership -----------------------------
(***************************************************************************)
(* Who holds a backup set (src/src/lib/set-marker.mjs, attach.mjs and the  *)
(* commands setup, takeover, backup, upload and forget).                   *)
(*                                                                         *)
(* The bucket has one marker for the set, snapshots/<set>.info; a machine  *)
(* that claimed the set or took it over keeps the pair of OWNER and        *)
(* CLAIMED it wrote there.  A machine holds the set while the marker       *)
(* carries that pair.  Publishing and forgetting snapshots ask first.      *)
(*                                                                         *)
(* One step is one S3 request or one access to the local claim file.  Runs *)
(* of one machine share its files.                                         *)
(***************************************************************************)
CONSTANTS
  Machines,   \* a machine stands for its OWNER text too
  Runs,
  MachineOf,  \* the machine a run is a process of
  Names,      \* snapshot names
  Stamps,     \* the instants CLAIMED and CREATED can carry, seconds
  NoMarker,
  NoClaim,
  NoMachine

ASSUME OwnershipAssumption ==
  /\ MachineOf \in [Runs -> Machines]
  /\ Stamps # {}
  /\ NoMachine \notin Machines

Pair == [owner : Machines, claimed : Stamps]
Marker == [owner : Machines, claimed : Stamps, created : Stamps]

ASSUME OwnershipValues == NoMarker \notin Marker /\ NoClaim \notin Pair

VARIABLES
  marker,   \* snapshots/<set>.info
  snaps,    \* the names of the snapshots under snapshots/<set>/
  attached, \* the machines with a local directory for the set
  claim,    \* each machine's claim file
  run       \* where each run is, and what it has read

vars == <<marker, snaps, attached, claim, run>>

RunState == [at : {"idle", "list", "claim", "attach", "info", "take", "keep",
                   "check", "get", "drop", "work", "publish", "forget"},
             next : {"info", "work", "publish", "forget"}, \* after the check
             mine : Pair \cup {NoClaim},     \* the claim file as read
             info : Marker \cup {NoMarker},  \* the marker as read
             stamp : Stamps]                 \* the CLAIMED this run writes

TypeOK ==
  /\ marker \in Marker \cup {NoMarker}
  /\ snaps \subseteq Names
  /\ attached \subseteq Machines
  /\ claim \in [Machines -> Pair \cup {NoClaim}]
  /\ run \in [Runs -> RunState]

\* What a run remembers before it starts.
Rest == [at |-> "idle", next |-> "work", mine |-> NoClaim, info |-> NoMarker,
         stamp |-> CHOOSE s \in Stamps : TRUE]

\* Snapshots without a marker are another client's, which claimed nothing.
Init ==
  /\ marker = NoMarker
  /\ snaps \in SUBSET Names
  /\ attached = {}
  /\ claim = [m \in Machines |-> NoClaim]
  /\ run = [r \in Runs |-> Rest]

bucket == <<marker, snaps>>
local == <<attached, claim>>

Moves(r, from, to) ==
  /\ run[r].at = from
  /\ run' = [run EXCEPT ![r] = IF to = "idle" THEN Rest ELSE [@ EXCEPT !.at = to]]

\* The marker run r writes.
Fresh(r, created) ==
  [owner |-> MachineOf[r], claimed |-> run[r].stamp, created |-> created]

\* The marker carries the pair.
Matches(pair, info) ==
  /\ pair # NoClaim /\ info # NoMarker
  /\ info.owner = pair.owner /\ info.claimed = pair.claimed

-----------------------------------------------------------------------------
(***************************************************************************)
(* setup                                                                   *)
(***************************************************************************)

BeginSetup(r) ==
  /\ MachineOf[r] \notin attached
  /\ Moves(r, "idle", "list")
  /\ UNCHANGED <<bucket, local>>

\* A set with snapshots exists, marker or not.  The clock is read next.
ListHistory(r) ==
  /\ run[r].at = "list"
  /\ snaps = {}
  /\ \E s \in Stamps : run' = [run EXCEPT ![r] = [@ EXCEPT !.at = "claim", !.stamp = s]]
  /\ UNCHANGED <<bucket, local>>

\* The conditional PUT.  If its response is lost, the retry is answered 412
\* and the run ends, taking its own marker for another's.
ClaimSet(r) ==
  /\ marker = NoMarker
  /\ marker' = Fresh(r, run[r].stamp)
  /\ Moves(r, "claim", "attach") \/ Moves(r, "claim", "idle")
  /\ UNCHANGED <<snaps, local>>

WriteSet(r) ==
  /\ Moves(r, "attach", "keep")
  /\ attached' = attached \cup {MachineOf[r]}
  /\ UNCHANGED <<bucket, claim>>

-----------------------------------------------------------------------------
(***************************************************************************)
(* holding, assertHeld                                                     *)
(***************************************************************************)

\* backup asks before its pass and again before it publishes; upload and
\* forget ask once; takeover asks whether there is anything to do.
BeginCheck(r) ==
  /\ MachineOf[r] \in attached
  /\ run[r].at = "idle"
  /\ \E n \in {"info", "work", "publish", "forget"} :
       run' = [run EXCEPT ![r] = [@ EXCEPT !.at = "check", !.next = n]]
  /\ UNCHANGED <<bucket, local>>

ReadClaim(r) ==
  /\ run[r].at = "check"
  /\ run' = [run EXCEPT ![r] = [@ EXCEPT !.at = "get", !.mine = claim[MachineOf[r]]]]
  /\ UNCHANGED <<bucket, local>>

\* The GET of the marker, whose answer ends a takeover.
Held(r) ==
  /\ Matches(run[r].mine, marker)
  /\ Moves(r, "get", IF run[r].next = "info" THEN "idle" ELSE run[r].next)
  /\ UNCHANGED <<bucket, local>>

\* A mutant of NotHeld that compares CLAIMED with CREATED.
NotHeldSinceCreated(r) ==
  LET mine == run[r].mine IN
  /\ ~(/\ mine # NoClaim /\ marker # NoMarker
       /\ mine.owner = marker.owner /\ mine.claimed = marker.created)
  /\ Moves(r, "get", IF run[r].next = "info" THEN "info"
                     ELSE IF mine # NoClaim THEN "drop" ELSE "idle")
  /\ UNCHANGED <<bucket, local>>

\* Any other answer: only a takeover goes on.
NotHeld(r) ==
  /\ ~Matches(run[r].mine, marker)
  /\ Moves(r, "get", IF run[r].next = "info" THEN "info"
                     ELSE IF run[r].mine # NoClaim THEN "drop" ELSE "idle")
  /\ UNCHANGED <<bucket, local>>

\* The file goes, whatever is in it by now.
DropClaim(r) ==
  /\ Moves(r, "drop", "idle")
  /\ claim' = [claim EXCEPT ![MachineOf[r]] = NoClaim]
  /\ UNCHANGED <<bucket, attached>>

-----------------------------------------------------------------------------
(***************************************************************************)
(* takeover                                                                *)
(***************************************************************************)

\* A set that is not on this machine is not asked about first.
BeginTakeover(r) ==
  /\ MachineOf[r] \notin attached
  /\ Moves(r, "idle", "info")
  /\ UNCHANGED <<bucket, local>>

\* attachSet: a set nobody has attached here must have something in the bucket.
AttachSet(r) ==
  /\ run[r].at = "info"
  /\ MachineOf[r] \in attached \/ marker # NoMarker \/ snaps # {}
  /\ \E s \in Stamps :
       run' = [run EXCEPT ![r] = [@ EXCEPT !.at = "take", !.info = marker,
                                           !.stamp = s]]
  /\ attached' = attached \cup {MachineOf[r]}
  /\ UNCHANGED <<bucket, claim>>

\* A mutant of TakeOver with a new CREATED.
TakeOverAnew(r) ==
  /\ run[r].info # NoMarker
  /\ marker' = Fresh(r, run[r].stamp)
  /\ Moves(r, "take", "keep") \/ Moves(r, "take", "take")
  /\ UNCHANGED <<snaps, local>>

\* The plain PUT over the marker the run has read, sent again when its
\* response is lost.
TakeOver(r) ==
  /\ run[r].info # NoMarker
  /\ marker' = Fresh(r, run[r].info.created)
  /\ Moves(r, "take", "keep") \/ Moves(r, "take", "take")
  /\ UNCHANGED <<snaps, local>>

\* No marker when it looked: the conditional PUT of `setup`.
TakeUnclaimed(r) ==
  /\ run[r].info = NoMarker
  /\ marker = NoMarker
  /\ marker' = Fresh(r, run[r].stamp)
  /\ Moves(r, "take", "keep") \/ Moves(r, "take", "idle")
  /\ UNCHANGED <<snaps, local>>

\* A mutant of WriteClaim that reads the clock again.
WriteClaimAnew(r) ==
  /\ Moves(r, "keep", "idle")
  /\ \E s \in Stamps :
       claim' = [claim EXCEPT ![MachineOf[r]] =
                   [owner |-> MachineOf[r], claimed |-> s]]
  /\ UNCHANGED <<bucket, attached>>

\* The last step of setup and of takeover.
WriteClaim(r) ==
  /\ Moves(r, "keep", "idle")
  /\ claim' = [claim EXCEPT ![MachineOf[r]] =
                 [owner |-> MachineOf[r], claimed |-> run[r].stamp]]
  /\ UNCHANGED <<bucket, attached>>

-----------------------------------------------------------------------------
(***************************************************************************)
(* backup, upload and forget                                               *)
(***************************************************************************)

\* A mutant of FinishPass without the second check.
FinishPassUnasked(r) ==
  /\ run[r].at = "work"
  /\ run' = [run EXCEPT ![r] = [@ EXCEPT !.at = "publish", !.next = "publish"]]
  /\ UNCHANGED <<bucket, local>>

\* Everything is hashed and stored; the claim is asked about again.
FinishPass(r) ==
  /\ run[r].at = "work"
  /\ run' = [run EXCEPT ![r] = [@ EXCEPT !.at = "check", !.next = "publish"]]
  /\ UNCHANGED <<bucket, local>>

\* The conditional PUT of the snapshot.  A name that is taken ends the run.
Publish(r) ==
  /\ Moves(r, "publish", "idle")
  /\ \E n \in Names \ snaps : snaps' = snaps \cup {n}
  /\ UNCHANGED <<marker, local>>

\* The preview and the prompt are past; one of the named snapshots goes.
Forget(r) ==
  /\ Moves(r, "forget", "forget")
  /\ \E n \in snaps : snaps' = snaps \ {n}
  /\ UNCHANGED <<marker, local>>

\* A run ends anywhere: done, refused, failed or stopped.
End(r) ==
  /\ run[r].at # "idle"
  /\ run' = [run EXCEPT ![r] = Rest]
  /\ UNCHANGED <<bucket, local>>

Next == \E r \in Runs :
  \/ BeginSetup(r) \/ ListHistory(r) \/ ClaimSet(r) \/ WriteSet(r)
  \/ BeginCheck(r) \/ ReadClaim(r) \/ Held(r) \/ NotHeld(r) \/ DropClaim(r)
  \/ BeginTakeover(r) \/ AttachSet(r) \/ TakeOver(r) \/ TakeUnclaimed(r)
  \/ WriteClaim(r)
  \/ FinishPass(r) \/ Publish(r) \/ Forget(r)
  \/ End(r)

Spec == Init /\ [][Next]_vars

-----------------------------------------------------------------------------
(***************************************************************************)
(* Properties                                                              *)
(***************************************************************************)

\* A machine publishes and forgets a set's snapshots only after it was told,
\* since its work ended, that it holds the set.
Holder == INSTANCE SetHolder WITH
  holder <- IF marker = NoMarker THEN NoMachine ELSE marker.owner,
  cleared <- {r \in Runs : run[r].at \in {"publish", "forget"}}
ImplementsHolder == Holder!Spec

\* CREATED says when the set was first claimed, whoever takes it over, and two
\* claims of one set never both succeed.
CreatedKept ==
  [][marker # NoMarker => marker' # NoMarker /\ marker'.created = marker.created]_vars

\* assertHeld deletes no pair that the marker carries: a pair that stopped
\* matching never matches again, so what is deleted is of no more use.
FreshClaimKept ==
  [][\A m \in Machines :
       claim[m] # NoClaim /\ claim'[m] = NoClaim => ~Matches(claim[m], marker)]_vars

\* A setup or takeover that ran to its end made its machine the holder, unless
\* another machine has taken the set over meanwhile.
TakenIsHeld ==
  [][\A r \in Runs :
       WriteClaim(r) => \/ Matches(claim'[MachineOf[r]], marker)
                        \/ marker.owner # MachineOf[r]]_vars

\* Only the machine that holds the set forgets its snapshots.
OnlyHolderForgets ==
  [][\A r \in Runs : Forget(r) => marker.owner = MachineOf[r]]_vars
================================================================================
