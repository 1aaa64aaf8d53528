------------------------------ MODULE ShardMap ------------------------------
(***************************************************************************)
(* The consistent-hash ring of cluster/shard_map.cpp.  A node has one      *)
(* point on the ring per virtual node; a key belongs to the node of the    *)
(* first point at or after its hash.  Nodes are numbered in the order of   *)
(* their ids, and a hash is any function from the strings "node#v".        *)
(***************************************************************************)
EXTENDS Integers, Sequences, FiniteSets, Functions

CONSTANTS
  Node,
  Virtual   \* 0 .. virtual_nodes_ - 1

ASSUME RingAssumption == Node \subseteq Nat /\ IsFiniteSet(Node) /\ Virtual # {}

NoOwner == -1

Hash == [Node \X Virtual -> Nat]

Points(hash, nodes) == {hash[x] : x \in nodes \X Virtual}

\* The nodes with a virtual node at point p.
At(hash, nodes, p) == {n \in nodes : \E v \in Virtual : hash[<<n, v>>] = p}

\* Rebuild: of the nodes that hash to one point the last stays, and nodes_ is sorted.
Rebuild(hash, nodes) ==
  [p \in Points(hash, nodes) |->
     CHOOSE n \in At(hash, nodes, p) : \A m \in At(hash, nodes, p) : m <= n]

\* Mutant of SetNodes: the ids are taken in the order they are given in.
SetNodesAsGiven(hash, list) ==
  [p \in Points(hash, Range(list)) |->
     list[CHOOSE i \in DOMAIN list :
            /\ list[i] \in At(hash, Range(list), p)
            /\ \A j \in DOMAIN list : list[j] \in At(hash, Range(list), p) => j <= i]]

\* SetNodes: the ids are sorted and de-duplicated.
SetNodes(hash, list) == Rebuild(hash, Range(list))

Least(S) == CHOOSE p \in S : \A q \in S : p <= q

\* Mutant of OwnerOfHash: the points are counted through, modulo their number.
OwnerModulo(ring, h) ==
  IF DOMAIN ring = {} THEN NoOwner ELSE ring[CHOOSE p \in DOMAIN ring :
         Cardinality({q \in DOMAIN ring : q < p}) = h % Cardinality(DOMAIN ring)]

\* OwnerOfHash: lower_bound, and from the end on to the first point; a ring without
\* points is an error.
OwnerOfHash(ring, h) ==
  LET later == {p \in DOMAIN ring : p >= h}
  IN  IF DOMAIN ring = {} THEN NoOwner
      ELSE ring[Least(IF later = {} THEN DOMAIN ring ELSE later)]
=============================================================================
