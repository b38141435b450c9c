-------------------------- MODULE MCPoolTransaction --------------------------
(* More transactions than connections.                                      *)
EXTENDS PoolTransaction

CONSTANTS t1, t2, t3
=============================================================================
