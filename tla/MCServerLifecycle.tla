------------------------- MODULE MCServerLifecycle -------------------------
(* Instances of ServerLifecycle for TLC: as many requests as it takes to   *)
(* have one in flight, one waiting for a worker and one refused.           *)
EXTENDS ServerLifecycle, TLC

CONSTANTS q1, q2, q3, w1, w2
=============================================================================
