---------------------------- MODULE MCSetOwnership ----------------------------
(* Instances of SetOwnership for TLC. *)
EXTENDS SetOwnership, TLC

CONSTANTS a, b, a1, a2, b1

OneRunEach == (a1 :> a) @@ (b1 :> b)
TwoRunsOfOne == (a1 :> a) @@ (a2 :> a) @@ (b1 :> b)
=============================================================================
