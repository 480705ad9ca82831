---------------------------- MODULE MCRepository ----------------------------
(* Small instances of Repository. *)
EXTENDS Repository, TLC

Symmetry == Permutations(Hashes) \cup Permutations(Names)
=============================================================================
