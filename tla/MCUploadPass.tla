---------------------------- MODULE MCUploadPass ----------------------------
(* Two files, two contents of one size, two modification times. *)
EXTENDS UploadPass, TLC

CONSTANTS a, b, t1, t2

SizeOf == (a :> 1) @@ (b :> 1)
Symmetry == Permutations({a, b}) \cup Permutations({t1, t2})
=============================================================================
