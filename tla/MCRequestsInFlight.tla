------------------------- MODULE MCRequestsInFlight -------------------------
(* Two workers and three hashes: one more than are in flight. *)
EXTENDS RequestsInFlight

CONSTANTS h1, h2, h3, w1, w2

Listed == <<h1, h2, h3>>
=============================================================================
