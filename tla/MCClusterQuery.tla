--------------------------- MODULE MCClusterQuery ---------------------------
(* Instances of ClusterQuery for TLC.                                      *)
EXTENDS ClusterQuery, TLC

Symmetry == Permutations(Node \ Front) \cup Permutations(Thread)
=============================================================================
