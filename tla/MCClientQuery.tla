--------------------------- MODULE MCClientQuery ---------------------------
(* Instances of ClientQuery for TLC.                                       *)
EXTENDS ClientQuery

Orders ==
  {<<>>, <<[column |-> 1, descending |-> FALSE]>>,
   <<[column |-> 2, descending |-> TRUE], [column |-> 1, descending |-> FALSE]>>}

Scans ==
  [scan: {TRUE}, key: {0}, columns: {<<1>>, <<2, 1>>}, distinct: BOOLEAN, order: Orders]

Lookups ==
  [scan: {FALSE}, key: {0}, columns: {<<2>>}, distinct: BOOLEAN, order: Orders]

ScansAndLookups == Scans \cup Lookups

SmallLimits == {1, Unset}
HugeLimits == {CountMax}
=============================================================================
