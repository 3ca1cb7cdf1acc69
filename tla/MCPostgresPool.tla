-------------------------- MODULE MCPostgresPool --------------------------
(* Instances of PostgresPool for TLC: more threads than connections, so    *)
(* that somebody waits.                                                    *)
EXTENDS PostgresPool, TLC

CONSTANTS t1, t2, t3
=============================================================================
