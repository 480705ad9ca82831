---------------------------- MODULE MCBucketLocks ----------------------------
(* A backup and a delete that waits for it, on one of two machines. *)
EXTENDS BucketLocks, TLC

CONSTANTS u1, d1, s1, s2

SystemOfOne == (u1 :> s1) @@ (d1 :> s1)
=============================================================================
