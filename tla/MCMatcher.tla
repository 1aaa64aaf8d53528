----------------------------- MODULE MCMatcher -----------------------------
(* Instances of Matcher for TLC.                                           *)
EXTENDS Matcher, TLC

\* Records of five bytes, all different.
FourRecords == <<<<1, 0, 1, 1, 0>>, <<0, 1, 1, 0, 1>>, <<1, 1, 0, 0, 1>>, <<0, 0, 1, 1, 1>>>>

\* Keys that start at different buckets and keys that share one.
MixSpread == [k \in Key |-> 3 * k + 1]

Symmetry == Permutations(Shard)
=============================================================================
