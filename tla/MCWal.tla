------------------------------- MODULE MCWal -------------------------------
(* Instances of Wal for TLC.                                               *)
EXTENDS Wal

CONSTANT v1
=============================================================================
