-------------------------- MODULE MCRemoteChanges --------------------------
(* Instance of RemoteChanges for TLC.                                      *)
EXTENDS RemoteChanges, TLC

CONSTANTS i1, i2, t1, t2
=============================================================================
