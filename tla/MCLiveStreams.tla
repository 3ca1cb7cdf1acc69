--------------------------- MODULE MCLiveStreams ---------------------------
(* Instances of LiveStreams for TLC: SQLite has one writer connection and  *)
(* readers of its own; a PostgreSQL pool has several connections for both. *)
EXTENDS LiveStreams, TLC

CONSTANTS t1, t2, t3, s1, r1, r2, c1, c2
=============================================================================
