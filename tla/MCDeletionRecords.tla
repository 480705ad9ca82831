-------------------------- MODULE MCDeletionRecords --------------------------
(* Small instances of DeletionRecords. *)
EXTENDS DeletionRecords, TLC

Symmetry == Permutations(Deletions) \cup Permutations(Compactors)
=============================================================================
