----------------------------- MODULE KeptContent -----------------------------
(***************************************************************************)
(* What a bucket of backups promises, without saying who works in it or    *)
(* what they know: content that a snapshot needs is put there first and    *)
(* leaves only on purpose, after a record of it that stays as long as the  *)
(* snapshot does.                                                          *)
(*                                                                         *)
(* Repository implements this with uploads, cleanups and deletes of many   *)
(* machines, and UploadPass with the passes of one machine over files that *)
(* change meanwhile.                                                       *)
(***************************************************************************)

CONSTANT Hashes

VARIABLES
  stored,    \* the content in the bucket
  snapshots, \* what each snapshot in the bucket references
  recorded   \* the content that a deletion record names

vars == <<stored, snapshots, recorded>>

Needed == UNION snapshots

Init ==
  /\ stored = {}
  /\ snapshots = {}
  /\ recorded = {}

Store(h) ==
  /\ stored' = stored \cup {h}
  /\ UNCHANGED <<snapshots, recorded>>

\* All a snapshot references is there before the snapshot is, what had been
\* deleted included.
Publish(refs) ==
  /\ refs \subseteq stored
  /\ snapshots' = snapshots \cup {refs}
  /\ UNCHANGED <<stored, recorded>>

Forget(refs) ==
  /\ snapshots' = snapshots \ {refs}
  /\ UNCHANGED <<stored, recorded>>

Record(hs) ==
  /\ recorded' = recorded \cup hs
  /\ UNCHANGED <<stored, snapshots>>

\* What no snapshot needs, or was recorded before.
Remove(h) ==
  /\ h \in Needed => h \in recorded
  /\ stored' = stored \ {h}
  /\ UNCHANGED <<snapshots, recorded>>

\* Rows that no snapshot needs.
Drop(rows) ==
  /\ rows \cap Needed = {}
  /\ recorded' = recorded \ rows
  /\ UNCHANGED <<stored, snapshots>>

Next ==
  \/ \E h \in Hashes : Store(h) \/ Remove(h)
  \/ \E hs \in SUBSET Hashes : Publish(hs) \/ Forget(hs) \/ Record(hs) \/ Drop(hs)

Spec == Init /\ [][Next]_vars

\* What the promise comes to: whatever is needed is there, or a record tells
\* that somebody deleted it.
Kept == Needed \subseteq stored \cup recorded
=============================================================================
