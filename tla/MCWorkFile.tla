------------------------------ MODULE MCWorkFile ------------------------------
(* Instances of WorkFile for TLC. *)
EXTENDS WorkFile, TLC

Symmetry == Permutations(Runs) \cup Permutations(Files) \cup Permutations(Names)
=============================================================================
