--------------------------- MODULE MCClientKeys ---------------------------
(* Instances of ClientKeys for TLC.                                        *)
EXTENDS ClientKeys, TLC

Symmetry ==
  UNION {Permutations(S) : S \in {Node, Handler, Keyset, Principal}}

\* The state without what no step reads any more: the caller after the claim, the
\* expected number of chunks after they have arrived, the upload of a handler that
\* has failed, and how far a call of RegisterKeys had to reach.
LiveState ==
  <<stores, pc, op, node, callee, via, read, history,
    [h \in Handler |-> IF pc[h] \in {"receive", "claim"} THEN who[h] ELSE NoOne],
    [h \in Handler |-> IF pc[h] = "receive" THEN total[h] ELSE 0],
    [h \in Handler |-> IF pc[h] = "error" THEN <<>> ELSE <<keys[h], count[h], peers[h]>>],
    [h \in Handler |-> IF pc[h] # "error" /\ op[h] = "register" THEN reach[h] ELSE {}]>>
=============================================================================
