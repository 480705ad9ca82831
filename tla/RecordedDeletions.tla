-------------------------- MODULE RecordedDeletions --------------------------
(***************************************************************************)
(* What the deletion record promises, without saying how: the rows of a    *)
(* delete are on record from its acknowledgement on, and leave the record  *)
(* only once no snapshot references them, a few at a time.                 *)
(* DeletionRecords implements this module with numbered files, and         *)
(* Repository's record of deletions is one that changes so.                *)
(***************************************************************************)

CONSTANT Deletions \* runs of delete, and the rows each writes

VARIABLES
  recorded,     \* the rows on record
  acknowledged, \* the deletes that know their rows to be
  referenced    \* the rows whose content some snapshot references

vars == <<recorded, acknowledged, referenced>>

Init ==
  /\ recorded = {}
  /\ acknowledged = {}
  /\ referenced = Deletions

\* The rows are written, and the delete is told so, or the answer is lost.
Record(d) ==
  /\ recorded' = recorded \cup {d}
  /\ acknowledged' \in {acknowledged, acknowledged \cup {d}}
  /\ UNCHANGED referenced

\* Rows nothing references go.
Drop(rows) ==
  /\ rows \cap referenced = {}
  /\ recorded' = recorded \ rows
  /\ UNCHANGED <<acknowledged, referenced>>

Unreference(d) ==
  /\ referenced' = referenced \ {d}
  /\ UNCHANGED <<recorded, acknowledged>>

Next ==
  \/ \E d \in Deletions : Record(d) \/ Unreference(d)
  \/ \E rows \in SUBSET Deletions : Drop(rows)

Spec == Init /\ [][Next]_vars

=============================================================================
