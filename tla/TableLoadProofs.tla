-------------------------- MODULE TableLoadProofs --------------------------
(***************************************************************************)
(* The shards of a table, for any number of nodes and virtual nodes and    *)
(* any hash.  ShardInv says that a shard is what the ring of its list      *)
(* gives the node; the rest is about rings: whatever owns a key among many *)
(* nodes owns it among fewer.  Then the printed configuration: every kind  *)
(* of key is read back as the value that was printed.  Last the rows:      *)
(* RowsInv says that the files of an epoch are those of the rows that were *)
(* written, but for damage, and RecordProofs what is read from such files. *)
(***************************************************************************)
EXTENDS TableLoad, RecordProofs

-----------------------------------------------------------------------------
(* Least points and greatest nodes.                                        *)

\* A set of points has a least one.
LEMMA LeastIsLeast ==
  ASSUME NEW S, S \subseteq Nat, S # {}
  PROVE  Least(S) \in S /\ \A q \in S : Least(S) <= q
BY LeastExists, Zenon DEF Least

\* A set of nodes has a greatest one: of the sets without, one would be smallest.
LEMMA GreatestExists ==
  ASSUME NEW S, S \subseteq Node, S # {}
  PROVE  \E n \in S : \A m \in S : m <= n
<1> DEFINE Top(T) == \E n \in T : \A m \in T : m <= n
           Bad == {k \in Nat : \E T \in SUBSET Node : T # {} /\ Cardinality(T) = k /\ ~ Top(T)}
<1>1. \A T \in SUBSET Node : IsFiniteSet(T) /\ Cardinality(T) \in Nat
  BY RingAssumption, FS_Subset, FS_CardinalityType, Zenon
<1>2. SUFFICES ASSUME Bad # {} PROVE FALSE
  BY <1>1
<1>3. PICK T \in SUBSET Node : T # {} /\ Cardinality(T) = Least(Bad) /\ ~ Top(T)
  BY <1>2, LeastIsLeast, ZenonT(40)
<1>4. PICK x : x \in T
  BY <1>3
<1> DEFINE U == T \ {x}
<1>5. Cardinality(U) = Cardinality(T) - 1 /\ Cardinality(U) \in Nat
  BY <1>1, <1>4, FS_RemoveElement
<1>6. Cardinality(U) \notin Bad
  <2>1. \A k \in Bad : Least(Bad) <= k
    BY <1>2, LeastIsLeast, Zenon
  <2>2. Least(Bad) \in Nat
    BY <1>1, <1>3, Zenon
  <2> HIDE DEF Bad
  <2> QED BY <1>3, <1>5, <2>1, <2>2, SMTT(30)
<1>7. U = {} \/ Top(U)
  BY <1>5, <1>6, Zenon
<1>8. T \subseteq Nat
  BY RingAssumption, Zenon
<1>9. CASE U = {}
  <2>1. \A m \in T : m = x
    BY <1>9, Zenon
  <2> QED BY <1>3, <1>4, <1>8, <2>1, SMTT(30)
<1>10. CASE Top(U)
  <2>1. PICK n \in U : \A m \in U : m <= n
    BY <1>10, Zenon
  <2>2. CASE x <= n
    BY <1>3, <2>1, <2>2, Zenon
  <2>3. CASE ~ (x <= n)
    <3>1. \A m \in T : m <= x
      BY <1>4, <1>8, <2>1, <2>3, SMTT(30)
    <3> QED BY <1>3, <1>4, <3>1, ZenonT(40)
  <2> QED BY <2>2, <2>3, ZenonT(40)
<1> QED BY <1>7, <1>9, <1>10, Zenon

-----------------------------------------------------------------------------
(* Rings.                                                                  *)

\* The point that OwnerOfHash finds.
First(P, h) ==
  LET later == {p \in P : p >= h} IN Least(IF later = {} THEN P ELSE later)

Owner(hash, nodes, h) == OwnerOfHash(Rebuild(hash, nodes), h)

\* The points of nodes.
LEMMA PointsType ==
  ASSUME NEW hash \in Hash, NEW nodes, nodes \subseteq Node
  PROVE  /\ Points(hash, nodes) \subseteq Nat
         /\ nodes # {} => Points(hash, nodes) # {}
         /\ \A p : p \in Points(hash, nodes) <=> At(hash, nodes, p) # {}
<1>1. \A n \in nodes, v \in Virtual : hash[<<n, v>>] \in Nat
  <2> SUFFICES ASSUME NEW n \in nodes, NEW v \in Virtual PROVE hash[<<n, v>>] \in Nat
    OBVIOUS
  <2>1. <<n, v>> \in Node \X Virtual
    OBVIOUS
  <2> QED BY <2>1, Zenon DEF Hash
<1>2. \A p : p \in Points(hash, nodes) <=> \E n \in nodes, v \in Virtual : hash[<<n, v>>] = p
  <2> SUFFICES ASSUME NEW p
               PROVE  p \in Points(hash, nodes)
                        <=> \E n \in nodes, v \in Virtual : hash[<<n, v>>] = p
    BY Zenon
  <2>1. ASSUME p \in Points(hash, nodes)
        PROVE  \E n \in nodes, v \in Virtual : hash[<<n, v>>] = p
    <3>1. PICK x \in nodes \X Virtual : hash[x] = p
      BY <2>1, Zenon DEF Points
    <3>2. x[1] \in nodes /\ x[2] \in Virtual /\ x = <<x[1], x[2]>>
      OBVIOUS
    <3> QED BY <3>1, <3>2
  <2>2. ASSUME NEW n \in nodes, NEW v \in Virtual, hash[<<n, v>>] = p
        PROVE  p \in Points(hash, nodes)
    <3>1. <<n, v>> \in nodes \X Virtual
      OBVIOUS
    <3> QED BY <2>2, <3>1, Zenon DEF Points
  <2> QED BY <2>1, <2>2, Zenon
<1>3. Points(hash, nodes) \subseteq Nat
  <2> SUFFICES ASSUME NEW p \in Points(hash, nodes) PROVE p \in Nat
    OBVIOUS
  <2>1. PICK n \in nodes, v \in Virtual : hash[<<n, v>>] = p
    BY <1>2, Zenon
  <2> QED BY <1>1, <2>1, Zenon
<1>4. nodes # {} => Points(hash, nodes) # {}
  <2> SUFFICES ASSUME nodes # {} PROVE \E p : p \in Points(hash, nodes)
    BY Zenon
  <2>1. PICK n \in nodes, v \in Virtual : TRUE
    BY RingAssumption, Zenon
  <2> QED BY <1>2, <2>1, Zenon
<1>5. \A p : p \in Points(hash, nodes) <=> At(hash, nodes, p) # {}
  BY <1>2, Zenon DEF At
<1> QED BY <1>3, <1>4, <1>5, Zenon

\* The first point is one of the points.
LEMMA FirstIsPoint ==
  ASSUME NEW P, P \subseteq Nat, P # {}, NEW h
  PROVE  First(P, h) \in P
BY LeastIsLeast, Zenon DEF First

\* Fewer points, the first among them: it stays the first.
LEMMA FirstOfFewer ==
  ASSUME NEW P, P \subseteq Nat, NEW Q, Q \subseteq P, NEW h, First(P, h) \in Q
  PROVE  First(Q, h) = First(P, h)
<1> DEFINE Later(R) == {p \in R : p >= h}
           Of(R) == IF Later(R) = {} THEN R ELSE Later(R)
<1>1. First(P, h) = Least(Of(P)) /\ First(Q, h) = Least(Of(Q))
  BY DEF First
<1>2. Of(P) \subseteq Nat /\ Of(Q) \subseteq Nat /\ Of(P) # {} /\ Of(Q) # {}
  BY Zenon
<1>3. Least(Of(P)) \in Of(P) /\ \A q \in Of(P) : Least(Of(P)) <= q
  BY <1>2, LeastIsLeast
<1>4. Least(Of(Q)) \in Of(Q) /\ \A q \in Of(Q) : Least(Of(Q)) <= q
  BY <1>2, LeastIsLeast
<1>5. Of(Q) \subseteq Of(P) /\ Least(Of(P)) \in Of(Q)
  BY <1>1, <1>3, Zenon
<1>6. Least(Of(P)) <= Least(Of(Q)) /\ Least(Of(Q)) <= Least(Of(P))
  BY <1>3, <1>4, <1>5, ZenonT(40)
<1>7. Least(Of(P)) \in Nat /\ Least(Of(Q)) \in Nat
  BY <1>2, <1>3, <1>4
<1> QED BY <1>1, <1>6, <1>7

\* The owner is the greatest of the nodes at the first point.
LEMMA OwnerIsGreatest ==
  ASSUME NEW hash \in Hash, NEW nodes, nodes \subseteq Node, nodes # {}, NEW h
  PROVE  LET p == First(Points(hash, nodes), h) IN
         /\ p \in Points(hash, nodes)
         /\ Owner(hash, nodes, h) \in At(hash, nodes, p)
         /\ \A m \in At(hash, nodes, p) : m <= Owner(hash, nodes, h)
<1> DEFINE P == Points(hash, nodes)
           p == First(P, h)
           ring == Rebuild(hash, nodes)
<1>1. P \subseteq Nat /\ P # {} /\ p \in P /\ At(hash, nodes, p) # {}
  BY PointsType, FirstIsPoint, Zenon
<1>2. DOMAIN ring = P /\ Owner(hash, nodes, h) = ring[p]
  BY <1>1, Zenon DEF Owner, OwnerOfHash, Rebuild, First
<1>3. ring[p] = CHOOSE n \in At(hash, nodes, p) : \A m \in At(hash, nodes, p) : m <= n
  BY <1>1 DEF Rebuild
<1>4. \E n \in At(hash, nodes, p) : \A m \in At(hash, nodes, p) : m <= n
  BY <1>1, GreatestExists, ZenonT(40) DEF At
<1> QED BY <1>1, <1>2, <1>3, <1>4, ZenonT(40)

\* A key whose owner among many nodes is one of fewer nodes has the same owner there.
LEMMA OwnerOfFewer ==
  ASSUME NEW hash \in Hash, NEW many, many \subseteq Node, NEW few, few \subseteq many,
         NEW h, Owner(hash, many, h) \in few
  PROVE  Owner(hash, few, h) = Owner(hash, many, h)
<1> DEFINE P == Points(hash, many)
           Q == Points(hash, few)
           p == First(P, h)
           o == Owner(hash, many, h)
           u == Owner(hash, few, h)
<1>1. p \in P /\ o \in At(hash, many, p) /\ \A m \in At(hash, many, p) : m <= o
  BY OwnerIsGreatest, Zenon
<1>2. o \in At(hash, few, p)
  BY <1>1, Zenon DEF At
<1>3. p \in Q /\ P \subseteq Nat /\ Q \subseteq P
  <2>1. P \subseteq Nat /\ p \in Q
    BY <1>2, PointsType, Zenon
  <2>2. few \X Virtual \subseteq many \X Virtual
    OBVIOUS
  <2>3. Q \subseteq P
    BY <2>2, Zenon DEF Points
  <2> QED BY <2>1, <2>3, Zenon
<1>4. First(Q, h) = p
  BY <1>3, FirstOfFewer, Zenon
<1>5. u \in At(hash, few, p) /\ \A m \in At(hash, few, p) : m <= u
  BY <1>4, OwnerIsGreatest, Zenon
<1>6. u \in At(hash, many, p)
  BY <1>5, Zenon DEF At
<1>7. o \in Nat /\ u \in Nat
  BY <1>1, <1>6, RingAssumption, Zenon DEF At
<1> QED BY <1>1, <1>2, <1>5, <1>6, <1>7

-----------------------------------------------------------------------------
(* Shards.                                                                 *)

\* The hash of the key of a line.
LineHash(l) ==
  LET columns == ParseCreateTable(input.ddl).columns
  IN  KeyHash(KeyOf(columns, CellsOf(columns, input.lines[l])))

\* A node that was loaded with a list has the lines that the list's ring gives it.
ShardInv ==
  /\ input \in Input
  /\ shard \in [Node -> SUBSET Node] /\ DOMAIN kept = Node
  /\ \A n \in Node : shard[n] # {} =>
       kept[n] = {l \in DOMAIN input.lines : Owner(input.hash, shard[n], LineHash(l)) = n}

LEMMA InitShards == Init => ShardInv
BY DEF Init, ShardInv

\* What a load leaves of the shards.
LEMMA LoadShards ==
  ASSUME ShardInv, NEW n \in Node, LoadCommand(n)
  PROVE  /\ UNCHANGED input
         /\ \E nodes \in SUBSET Node, lines \in SUBSET DOMAIN input.lines :
              /\ shard' = [shard EXCEPT ![n] = nodes]
              /\ kept' = [kept EXCEPT ![n] = lines]
              /\ nodes # {} =>
                   lines = {l \in DOMAIN input.lines : Owner(input.hash, nodes, LineHash(l)) = n}
<1> DEFINE columns == ParseCreateTable(input.ddl).columns
           g == GeometryFrom(loaded.config, columns)
<1>1. \/ \E list \in input.lists : PublishLines(n, g, Mine(n, columns, list), Range(list))
      \/ PublishLines(n, g, DOMAIN input.lines, {})
  BY Zenon DEF LoadCommand
<1>2. \A lines, nodes : PublishLines(n, g, lines, nodes) =>
        /\ UNCHANGED input
        /\ shard' = [shard EXCEPT ![n] = nodes]
        /\ kept' = [kept EXCEPT ![n] = lines]
  BY Zenon DEF PublishLines
<1>3. ASSUME NEW list \in input.lists
      PROVE  /\ Range(list) \in SUBSET Node
             /\ Mine(n, columns, list)
                  = {l \in DOMAIN input.lines : Owner(input.hash, Range(list), LineHash(l)) = n}
  BY InputAssumption, Zenon DEF ShardInv, Mine, SetNodes, Owner, LineHash
<1>4. CASE PublishLines(n, g, DOMAIN input.lines, {})
  <2>1. /\ UNCHANGED input
        /\ shard' = [shard EXCEPT ![n] = {}]
        /\ kept' = [kept EXCEPT ![n] = DOMAIN input.lines]
    BY <1>2, <1>4, Zenon
  <2> QED BY <2>1, Zenon
<1>5. ASSUME NEW list \in input.lists,
             PublishLines(n, g, Mine(n, columns, list), Range(list))
      PROVE  /\ UNCHANGED input
             /\ \E nodes \in SUBSET Node, lines \in SUBSET DOMAIN input.lines :
                  /\ shard' = [shard EXCEPT ![n] = nodes]
                  /\ kept' = [kept EXCEPT ![n] = lines]
                  /\ nodes # {} =>
                       lines = {l \in DOMAIN input.lines : Owner(input.hash, nodes, LineHash(l)) = n}
  <2> DEFINE nodes == Range(list)
             lines == {l \in DOMAIN input.lines : Owner(input.hash, nodes, LineHash(l)) = n}
  <2>1. /\ UNCHANGED input
        /\ shard' = [shard EXCEPT ![n] = nodes]
        /\ kept' = [kept EXCEPT ![n] = Mine(n, columns, list)]
    BY <1>2, <1>5, Zenon
  <2>2. nodes \in SUBSET Node /\ lines \in SUBSET DOMAIN input.lines
    BY <1>3, Zenon
  <2>3. kept' = [kept EXCEPT ![n] = lines]
    BY <1>3, <2>1, Zenon
  <2>4. nodes # {} =>
          lines = {l \in DOMAIN input.lines : Owner(input.hash, nodes, LineHash(l)) = n}
    OBVIOUS
  <2> HIDE DEF nodes, lines
  <2> QED BY <2>1, <2>2, <2>3, <2>4, Zenon
<1> QED BY <1>1, <1>4, <1>5, ZenonT(40)

\* Every other step leaves the shards as they are.
LEMMA OtherSteps ==
  ASSUME NEW n, Reconfigure \/ ConfigPrint \/ Insert(n) \/ Damage(n)
  PROVE  UNCHANGED <<input, shard, kept>>
BY Zenon DEF Reconfigure, ConfigPrint, Insert, Damage

LEMMA ShardInvariance == Spec => []ShardInv
<1>1. ShardInv /\ [Next]_vars => ShardInv'
  <2> SUFFICES ASSUME ShardInv, [Next]_vars PROVE ShardInv'
    OBVIOUS
  <2>1. CASE UNCHANGED <<input, shard, kept>>
    <3>1. \A l : LineHash(l)' = LineHash(l)
      BY <2>1, SMTT(30) DEF LineHash, CellsOf
    <3> QED BY <2>1, <3>1, Zenon DEF ShardInv
  <2>2. ASSUME NEW n \in Node, LoadCommand(n) PROVE ShardInv'
    <3>1. UNCHANGED input /\ \A l : LineHash(l)' = LineHash(l)
      <4>1. UNCHANGED input
        BY <2>2, LoadShards, ZenonT(40)
      <4> QED BY <4>1, SMTT(30) DEF LineHash, CellsOf
    <3>2. PICK nodes \in SUBSET Node, lines \in SUBSET DOMAIN input.lines :
              /\ shard' = [shard EXCEPT ![n] = nodes]
              /\ kept' = [kept EXCEPT ![n] = lines]
              /\ nodes # {} =>
                   lines = {l \in DOMAIN input.lines : Owner(input.hash, nodes, LineHash(l)) = n}
      BY <2>2, LoadShards, ZenonT(40)
    <3> QED BY <3>1, <3>2, ZenonT(40) DEF ShardInv
  <2>3. input.nodes \subseteq Node
    BY InputAssumption DEF ShardInv
  <2> QED BY <2>1, <2>2, <2>3, OtherSteps, ZenonT(40) DEF Next, vars
<1> QED BY <1>1, InitShards, PTL DEF Spec

\* Once every node of a list has loaded its shard (LoadCommand with --shard-nodes),
\* every line of the file is at exactly one of them, for any number of nodes, any
\* number of points per node and any hash, collisions included.
THEOREM ShardsPartition == Spec => []RowOnOneShard
<1>1. ShardInv => RowOnOneShard
  <2> SUFFICES ASSUME ShardInv, NEW nodes \in (SUBSET Node) \ {{}},
                      \A n \in nodes : shard[n] = nodes, NEW l \in DOMAIN input.lines
               PROVE  \E n \in nodes : \A m \in nodes : l \in kept[m] <=> m = n
    BY ZenonT(40) DEF RowOnOneShard
  <2> DEFINE o == Owner(input.hash, nodes, LineHash(l))
  <2>1. o \in nodes
    <3>1. input.hash \in Hash /\ nodes \subseteq Node /\ nodes # {}
      BY InputAssumption DEF ShardInv
    <3>2. o \in At(input.hash, nodes, First(Points(input.hash, nodes), LineHash(l)))
      BY <3>1, OwnerIsGreatest
    <3> QED BY <3>2 DEF At
  <2>2. \A m \in nodes : l \in kept[m] <=> o = m
    BY DEF ShardInv
  <2> QED BY <2>1, <2>2, Zenon
<1> QED BY <1>1, ShardInvariance, PTL

\* A node that loads again gains no line when nodes have joined the list and loses
\* none when nodes have left it (ShardMap::OwnerOfHash).
THEOREM ChangesMoveFew == Spec => MovesOnlyChanged
<1> DEFINE Moves(n) ==
             n \in shard[n] /\ n \in shard'[n] =>
               /\ shard[n] \subseteq shard'[n] => kept'[n] \subseteq kept[n]
               /\ shard'[n] \subseteq shard[n] => kept[n] \subseteq kept'[n]
<1>1. ASSUME ShardInv, ShardInv', [Next]_vars, NEW n \in Node PROVE Moves(n)
  <2>1. UNCHANGED input
    BY <1>1, LoadShards, OtherSteps, InputAssumption, ZenonT(40) DEF Next, vars, ShardInv
  <2>2. \A l : LineHash(l)' = LineHash(l)
    BY <2>1, SMTT(30) DEF LineHash, CellsOf
  <2>3. input.hash \in Hash /\ shard[n] \subseteq Node /\ shard'[n] \subseteq Node
    BY <1>1, InputAssumption, Zenon DEF ShardInv
  <2>4. ASSUME n \in shard[n], n \in shard'[n]
        PROVE  \A l : /\ l \in kept[n] <=> l \in DOMAIN input.lines /\ Owner(input.hash, shard[n], LineHash(l)) = n
                      /\ l \in kept'[n] <=> l \in DOMAIN input.lines /\ Owner(input.hash, shard'[n], LineHash(l)) = n
    BY <1>1, <2>1, <2>2, <2>4, SMTT(30) DEF ShardInv
  <2>5. ASSUME n \in shard[n], n \in shard'[n], shard[n] \subseteq shard'[n], NEW l \in kept'[n]
        PROVE  l \in kept[n]
    BY <2>3, <2>4, <2>5, OwnerOfFewer, SMTT(30)
  <2>6. ASSUME n \in shard[n], n \in shard'[n], shard'[n] \subseteq shard[n], NEW l \in kept[n]
        PROVE  l \in kept'[n]
    BY <2>3, <2>4, <2>6, OwnerOfFewer, SMTT(30)
  <2> QED BY <2>5, <2>6, Zenon
<1>2. ShardInv /\ ShardInv' /\ [Next]_vars => [\A n \in Node : Moves(n)]_vars
  BY <1>1
<1> QED BY <1>2, ShardInvariance, PTL DEF Spec, MovesOnlyChanged

-----------------------------------------------------------------------------
(* The arrays of a file.                                                   *)

\* What a sequence of one element is.
LEMMA OneElement ==
  ASSUME NEW T, NEW x \in T
  PROVE  <<x>> \in Seq(T) /\ <<x>> # <<>> /\ Len(<<x>>) = 1 /\ <<x>>[1] = x
OBVIOUS

\* The elements of an array joined are a text.
LEMMA ConcatText ==
  ASSUME NEW s \in Seq(Text), s # <<>>
  PROVE  Concat(s) \in Text
<1>0. s \in Seq(Seq(Piece)) /\ Len(s) \in Nat /\ Len(s) >= 1
  BY DEF Text
<1>1. PICK f : /\ f[0] = <<>> /\ Concat(s) = f[Len(s)]
               /\ \A m \in Nat : m + 1 <= Len(s) => f[m + 1] = f[m] \o s[m + 1]
  BY <1>0, ConcatIs, Zenon
<1> DEFINE Good == {m \in Nat : m <= Len(s) => f[m] \in Seq(Piece) /\ (m # 0 => f[m] \in Text)}
<1>2. 0 \in Good
  <2>1. <<>> \in Seq(Piece) /\ 0 \in Nat
    OBVIOUS
  <2> QED BY <1>1, <2>1, Zenon
<1>3. ASSUME NEW m \in Nat, m \in Good PROVE m + 1 \in Good
  <2> SUFFICES ASSUME m + 1 <= Len(s) PROVE f[m + 1] \in Seq(Piece) /\ f[m + 1] \in Text
    OBVIOUS
  <2>1. m <= Len(s) /\ s[m + 1] \in Text
    BY <1>0
  <2>2. f[m + 1] = f[m] \o s[m + 1] /\ f[m] \in Seq(Piece)
    BY <1>1, <1>3, <2>1, Zenon
  <2>3. \A a \in Seq(Piece), b \in Text : a \o b \in Text
    BY DEF Text
  <2> QED BY <2>1, <2>2, <2>3, Zenon DEF Text
<1> HIDE DEF Good
<1>4. \A m \in Nat : m \in Good
  BY <1>2, <1>3, SetInduction, Zenon
<1>5. Len(s) \in Good
  BY <1>0, <1>4, Zenon
<1> QED BY <1>0, <1>1, <1>5 DEF Good

\* An array of texts without commas, joined, is the text of its elements.
LEMMA ConcatPieces ==
  ASSUME NEW list \in Seq(Piece)
  PROVE  Concat([i \in DOMAIN list |-> <<list[i]>>]) = list
<1> DEFINE s == [i \in DOMAIN list |-> <<list[i]>>]
<1>0. /\ s \in Seq(Seq(Piece)) /\ Len(s) = Len(list) /\ Len(list) \in Nat
      /\ \A i \in 1 .. Len(list) : s[i] = <<list[i]>>
  <2>1. /\ DOMAIN list = 1 .. Len(list) /\ Len(list) \in Nat
        /\ \A i \in 1 .. Len(list) : list[i] \in Piece
    OBVIOUS
  <2>2. \A x \in Piece : <<x>> \in Seq(Piece)
    BY OneElement, Zenon
  <2>3. s \in [1 .. Len(list) -> Seq(Piece)]
    BY <2>1, <2>2
  <2>4. s \in Seq(Seq(Piece)) /\ Len(s) = Len(list)
    BY <2>1, <2>3
  <2>5. \A i \in 1 .. Len(list) : s[i] = <<list[i]>>
    BY <2>1, Zenon
  <2> HIDE DEF s
  <2> QED BY <2>1, <2>4, <2>5, Zenon
<1> HIDE DEF s
<1>1. PICK f : /\ f[0] = <<>> /\ Concat(s) = f[Len(s)]
               /\ \A m \in Nat : m + 1 <= Len(s) => f[m + 1] = f[m] \o s[m + 1]
  BY <1>0, ConcatIs, Zenon
<1> DEFINE Good == {m \in Nat : m <= Len(list) => f[m] = SubSeq(list, 1, m)}
<1>2. 0 \in Good
  <2>1. SubSeq(list, 1, 0) = <<>>
    OBVIOUS
  <2> QED BY <1>1, <2>1, Zenon
<1>3. ASSUME NEW m \in Nat, m \in Good PROVE m + 1 \in Good
  <2> SUFFICES ASSUME m + 1 <= Len(list) PROVE f[m + 1] = SubSeq(list, 1, m + 1)
    OBVIOUS
  <2>0. m + 1 \in 1 .. Len(list) /\ m <= Len(list)
    BY <1>0
  <2>1. f[m + 1] = f[m] \o <<list[m + 1]>> /\ f[m] = SubSeq(list, 1, m)
    BY <1>0, <1>1, <1>3, <2>0, Zenon
  <2>2. SubSeq(list, 1, m) \o <<list[m + 1]>> = SubSeq(list, 1, m + 1)
    <3> DEFINE a == SubSeq(list, 1, m)
               b == a \o <<list[m + 1]>>
               c == SubSeq(list, 1, m + 1)
    <3>1. a \in Seq(Piece) /\ Len(a) = m /\ \A i \in 1 .. m : a[i] = list[i]
      BY <2>0
    <3>2. c \in Seq(Piece) /\ Len(c) = m + 1 /\ \A i \in 1 .. m + 1 : c[i] = list[i]
      BY <2>0
    <3>3. list[m + 1] \in Piece
      BY <2>0
    <3> HIDE DEF a, c
    <3>4. /\ b \in Seq(Piece) /\ Len(b) = m + 1
          /\ \A i \in 1 .. m + 1 : b[i] = list[i]
      BY <3>1, <3>3
    <3> HIDE DEF b
    <3>5. Len(b) = Len(c) /\ \A i \in 1 .. Len(b) : b[i] = c[i]
      BY <3>2, <3>4
    <3>6. b = c
      BY <3>2, <3>4, <3>5, SameElements, Zenon
    <3> QED BY <3>6, Zenon DEF a, b, c
  <2> QED BY <2>1, <2>2, Zenon
<1> HIDE DEF Good
<1>4. Len(list) \in Good
  BY <1>0, <1>2, <1>3, SetInduction, Zenon
<1>5. SubSeq(list, 1, Len(list)) = list
  OBVIOUS
<1>6. Concat(s) = list
  <2>1. Len(list) <= Len(list)
    BY <1>0
  <2> QED BY <1>0, <1>1, <1>4, <1>5, <2>1, Zenon DEF Good
<1> QED BY <1>6, Zenon DEF s

\* A scalar joined is its text.
LEMMA ConcatScalar ==
  ASSUME NEW text \in Text
  PROVE  TomlNodeToString(Scalar(text)) = text
<1> DEFINE s == <<text>>
<1>0. text \in Seq(Piece) /\ s \in Seq(Seq(Piece)) /\ s # <<>> /\ Len(s) = 1 /\ s[1] = text
  <2>1. text \in Seq(Piece)
    BY Zenon DEF Text
  <2> QED BY <2>1, OneElement, Zenon
<1> HIDE DEF s
<1>1. PICK f : /\ f[0] = <<>> /\ Concat(s) = f[Len(s)]
               /\ \A m \in Nat : m + 1 <= Len(s) => f[m + 1] = f[m] \o s[m + 1]
  BY <1>0, ConcatIs, Zenon
<1>2. Concat(s) = <<>> \o text
  <2>1. 0 \in Nat /\ 0 + 1 = 1 /\ 0 + 1 <= Len(s)
    BY <1>0
  <2> QED BY <1>0, <1>1, <2>1, Zenon
<1>3. <<>> \o text = text
  BY <1>0
<1> QED BY <1>0, <1>2, <1>3, Zenon DEF TomlNodeToString, Scalar, s

-----------------------------------------------------------------------------
(* The values of keys.                                                     *)

Integers32 == {Numeral[p] : p \in DOMAIN Numeral} \cap 0 .. U32Max
Integers64 == {Numeral[p] : p \in DOMAIN Numeral} \cap 0 .. U64Max
\* The integers of a list are signed.
Elements == {n \in {Numeral[p] : p \in DOMAIN Numeral} : 2 * n \in -U32Max - 1 .. U32Max}

\* A value that a key may have.
Typed(k, v) ==
  /\ k \in TextKeys => v \in Text
  /\ k \in BoolKeys => v \in BOOLEAN
  /\ k \in U32Keys => v \in Integers32
  /\ k \in U64Keys => v \in Integers64
  /\ k \in IntListKeys => v \in Seq(Elements)
  /\ k \in TextListKeys => v \in Seq(Piece) /\ v # EmptyText
  /\ k = "auth.mode" => v \in {"token", "mtls", "none"}
  /\ k = "logging.format" => v \in {"json", "text"}

\* The keys that are not of one of the kinds.
WordKeys == {"auth.mode", "logging.format"}

\* A key is of one kind.
LEMMA KindsDiffer ==
  /\ \A k \in BoolKeys : k \notin TextKeys
  /\ \A k \in U32Keys \cup U64Keys : k \notin TextKeys \cup BoolKeys
  /\ \A k \in IntListKeys : k \notin TextKeys \cup BoolKeys \cup U32Keys \cup U64Keys
  /\ \A k \in TextListKeys :
       k \notin TextKeys \cup BoolKeys \cup U32Keys \cup U64Keys \cup IntListKeys
  /\ \A k \in WordKeys :
       k \notin TextKeys \cup BoolKeys \cup U32Keys \cup U64Keys \cup IntListKeys \cup TextListKeys
  /\ \A k \in U64Keys : k \notin U32Keys
BY SMTT(30) DEF TextKeys, BoolKeys, U32Keys, U64Keys, IntListKeys, TextListKeys, WordKeys

LEMMA KindsCover ==
  ASSUME NEW k \in Keys
  PROVE  k \in TextKeys \/ k \in BoolKeys \/ k \in U32Keys \/ k \in U64Keys
         \/ k \in IntListKeys \/ k \in TextListKeys \/ k \in WordKeys
BY Zenon DEF Keys, WordKeys

\* What ApplyKeyValue sets for each kind of key.
LEMMA ValueAtKinds ==
  ASSUME NEW k, NEW text
  PROVE  /\ k \in TextKeys => ValueAt(k, text) = text
         /\ k \in U32Keys \cup U64Keys => ValueAt(k, text) = Numeral[text[1]]
         /\ k \in IntListKeys =>
              ValueAt(k, text) = [i \in DOMAIN ListOf(text) |-> Numeral[ListOf(text)[i]]]
         /\ k \in TextListKeys => ValueAt(k, text) = ListOf(text)
         /\ k \in WordKeys => ValueAt(k, text) = text[1]
<1>1. k \in TextKeys => ValueAt(k, text) = text
  BY KindsDiffer DEF ValueAt
<1>2. k \in U32Keys \cup U64Keys => ValueAt(k, text) = Numeral[text[1]]
  BY KindsDiffer DEF ValueAt
<1>3. k \in IntListKeys =>
        ValueAt(k, text) = [i \in DOMAIN ListOf(text) |-> Numeral[ListOf(text)[i]]]
  BY KindsDiffer DEF ValueAt
<1>4. k \in TextListKeys => ValueAt(k, text) = ListOf(text)
  BY KindsDiffer DEF ValueAt
<1>5. k \in WordKeys => ValueAt(k, text) = text[1]
  BY KindsDiffer DEF ValueAt
<1> QED BY <1>1, <1>2, <1>3, <1>4, <1>5, Zenon

LEMMA ValueAtSwitch ==
  ASSUME NEW k \in BoolKeys, NEW text
  PROVE  /\ IsTrue(text) => ValueAt(k, text) = TRUE
         /\ ~IsTrue(text) => ValueAt(k, text) = FALSE
<1>1. ValueAt(k, text) = IsTrue(text)
  BY KindsDiffer DEF ValueAt
<1>2. ASSUME IsTrue(text) PROVE IsTrue(text) = TRUE
  BY <1>2 DEF IsTrue
<1>3. ASSUME ~IsTrue(text) PROVE IsTrue(text) = FALSE
  BY <1>3 DEF IsTrue
<1> QED BY <1>1, <1>2, <1>3, Zenon

\* What ApplyKeyValue sets from a text that it can read is a value of the key.
LEMMA ValueTyped ==
  ASSUME NEW k \in Keys, NEW text \in Text, Readable(k, text)
  PROVE  Typed(k, ValueAt(k, text))
<1>1. CASE k \in TextKeys
  BY <1>1, KindsDiffer, ValueAtKinds DEF Typed, WordKeys
<1>2. CASE k \in BoolKeys
  <2>1. ValueAt(k, text) \in BOOLEAN
    BY <1>2, ValueAtSwitch, Zenon
  <2> QED BY <1>2, <2>1, KindsDiffer DEF Typed, WordKeys
<1>3. CASE k \in U32Keys
  <2>1. ValueAt(k, text) \in Integers32
    BY <1>3, ValueAtKinds DEF Readable, IsNumber, Integers32
  <2> QED BY <1>3, <2>1, KindsDiffer DEF Typed, WordKeys
<1>4. CASE k \in U64Keys
  <2>1. ValueAt(k, text) \in Integers64
    BY <1>4, ValueAtKinds DEF Readable, IsNumber, Integers64
  <2> QED BY <1>4, <2>1, KindsDiffer DEF Typed, WordKeys
<1>5. CASE k \in IntListKeys
  <2> DEFINE list == ListOf(text)
  <2>1. list \in Seq(Piece) /\ \A i \in DOMAIN list : Numeral[list[i]] \in Elements
    <3>1. CASE text = EmptyText
      BY <3>1 DEF ListOf
    <3>2. CASE text # EmptyText
      <4>1. list = text
        BY <3>2, Zenon DEF ListOf
      <4>2. \A i \in DOMAIN text :
              text[i] \in DOMAIN Numeral /\ 2 * Numeral[text[i]] \in -U32Max - 1 .. U32Max
        BY <1>5, <3>2, Zenon DEF Readable
      <4>3. \A i \in DOMAIN text : Numeral[text[i]] \in Elements
        BY <4>2, Zenon DEF Elements
      <4> HIDE DEF list
      <4> QED BY <4>1, <4>3, Zenon DEF Text
    <3> QED BY <3>1, <3>2, Zenon
  <2> HIDE DEF list
  <2>2. [i \in DOMAIN list |-> Numeral[list[i]]] \in Seq(Elements)
    BY <2>1
  <2>3. ValueAt(k, text) = [i \in DOMAIN list |-> Numeral[list[i]]]
    <3> USE DEF list
    <3> QED BY <1>5, ValueAtKinds, Zenon
  <2>4. ValueAt(k, text) \in Seq(Elements)
    BY <2>2, <2>3, Zenon
  <2> QED BY <1>5, <2>4, KindsDiffer DEF Typed, WordKeys
<1>6. CASE k \in TextListKeys
  <2>1. text \in Seq(Piece) /\ <<>> \in Seq(Piece) /\ <<>> # EmptyText
    BY DEF Text, EmptyText
  <2>2. ListOf(text) \in Seq(Piece) /\ ListOf(text) # EmptyText
    BY <2>1, Zenon DEF ListOf
  <2> QED BY <1>6, <2>2, KindsDiffer, ValueAtKinds DEF Typed, WordKeys
<1>7. CASE k \in WordKeys
  <2>1. \A x : <<x>>[1] = x
    OBVIOUS
  <2>2. /\ k = "auth.mode" => text[1] \in {"token", "mtls", "none"}
        /\ k = "logging.format" => text[1] \in {"json", "text"}
    BY <2>1, Zenon DEF Readable
  <2> QED BY <1>7, <2>2, KindsDiffer, ValueAtKinds DEF Typed
<1> QED BY <1>1, <1>2, <1>3, <1>4, <1>5, <1>6, <1>7, KindsCover, Zenon

-----------------------------------------------------------------------------
(* Printing.                                                               *)

\* The file's node is read as the value.
ReadsAs(k, node, v) ==
  /\ node \in Seq(Text)
  /\ Readable(k, TomlNodeToString(node))
  /\ ValueAt(k, TomlNodeToString(node)) = v

\* An integer that TOML holds is printed as a numeral of it.
LEMMA PrintedIs ==
  ASSUME NEW n \in {Numeral[p] : p \in DOMAIN Numeral}, n <= I64Max
  PROVE  \E p \in DOMAIN Numeral : Numeral[p] = n /\ Printed(n) = <<p>> /\ p # "" /\ p \in Piece
<1>0. n \in Int /\ I64Max \in Int
  <2>1. n \in Int /\ I64Max \in Nat
    BY NumeralAssumption, Zenon
  <2> QED BY <2>1
<1>1. ~ (n > I64Max)
  BY <1>0
<1>2. Printed(n) = <<CHOOSE p \in DOMAIN Numeral : Numeral[p] = n>>
  BY <1>1, Zenon DEF Printed
<1>3. \E p \in DOMAIN Numeral : Numeral[p] = n
  OBVIOUS
<1> QED BY <1>2, <1>3, NumeralAssumption, Zenon

\* A scalar of one piece is read as that piece.
LEMMA ScalarPiece ==
  ASSUME NEW p \in Piece
  PROVE  /\ Scalar(<<p>>) \in Seq(Text) /\ TomlNodeToString(Scalar(<<p>>)) = <<p>>
         /\ <<p>> \in Text /\ Len(<<p>>) = 1 /\ <<p>>[1] = p
<1>1. <<p>> \in Text /\ Len(<<p>>) = 1 /\ <<p>>[1] = p
  BY OneElement, Zenon DEF Text
<1>2. Scalar(<<p>>) \in Seq(Text)
  BY <1>1, OneElement, Zenon DEF Scalar
<1> QED BY <1>1, <1>2, ConcatScalar, Zenon

\* A list of pieces is read as the text of them.
LEMMA ListPieces ==
  ASSUME NEW list \in Seq(Piece), list # <<>>
  PROVE  LET node == [i \in DOMAIN list |-> <<list[i]>>]
         IN  node \in Seq(Text) /\ TomlNodeToString(node) = list
<1> DEFINE node == [i \in DOMAIN list |-> <<list[i]>>]
<1>1. DOMAIN list = 1 .. Len(list) /\ Len(list) \in Nat /\ Len(list) # 0
      /\ \A i \in DOMAIN list : list[i] \in Piece
  OBVIOUS
<1>2. \A i \in DOMAIN list : <<list[i]>> \in Text
  BY <1>1, ScalarPiece, Zenon
<1>3. node \in [1 .. Len(list) -> Text]
  BY <1>1, <1>2, Zenon
<1>4. Concat(node) = list
  BY ConcatPieces, Zenon
<1> HIDE DEF node
<1>5. node \in Seq(Text) /\ node # <<>>
  BY <1>1, <1>3
<1>6. node \in Seq(Text) /\ TomlNodeToString(node) = list
  BY <1>4, <1>5, Zenon DEF TomlNodeToString
<1> QED BY <1>6, Zenon DEF node

\* ToToml writes each value so that ApplyKeyValue reads it back.
LEMMA PrintsText ==
  ASSUME NEW k \in TextKeys, NEW v, Typed(k, v)
  PROVE  ReadsAs(k, Scalar(v), v)
<1>1. v \in Text
  BY Zenon DEF Typed
<1>2. Scalar(v) \in Seq(Text) /\ TomlNodeToString(Scalar(v)) = v
  BY <1>1, OneElement, ConcatScalar, Zenon DEF Scalar
<1> QED BY <1>2, KindsDiffer, ValueAtKinds DEF ReadsAs, Readable, WordKeys

LEMMA PrintsSwitch ==
  ASSUME NEW k \in BoolKeys, NEW v, Typed(k, v)
  PROVE  ReadsAs(k, Scalar(IF v THEN <<"true">> ELSE <<"false">>), v)
<1> DEFINE p == IF v THEN "true" ELSE "false"
           node == Scalar(IF v THEN <<"true">> ELSE <<"false">>)
<1>1. v \in BOOLEAN
  BY Zenon DEF Typed
<1>2. node = Scalar(<<p>>) /\ p \in Piece
  <2>1. "true" \in Piece /\ "false" \in Piece
    BY WordAssumption, Zenon
  <2>2. CASE v = TRUE
    BY <2>1, <2>2, Zenon
  <2>3. CASE v = FALSE
    BY <2>1, <2>3, Zenon
  <2> QED BY <1>1, <2>2, <2>3, Zenon
<1>3. node \in Seq(Text) /\ TomlNodeToString(node) = <<p>>
  BY <1>2, ScalarPiece, Zenon
<1>4. IsTrue(<<"true">>) /\ ~IsTrue(<<"false">>) /\ IsFalse(<<"false">>)
  BY DEF IsTrue, IsFalse
<1>5. (IsTrue(<<p>>) \/ IsFalse(<<p>>)) /\ ValueAt(k, <<p>>) = v
  <2>1. CASE v = TRUE
    BY <1>4, <2>1, ValueAtSwitch, Zenon
  <2>2. CASE v = FALSE
    BY <1>4, <2>2, ValueAtSwitch, Zenon
  <2> QED BY <1>1, <2>1, <2>2, Zenon
<1> HIDE DEF p, node
<1>6. Readable(k, <<p>>)
  BY <1>5, KindsDiffer DEF Readable, WordKeys
<1>7. ReadsAs(k, node, v)
  BY <1>3, <1>5, <1>6, Zenon DEF ReadsAs
<1> QED BY <1>7, Zenon DEF node

LEMMA PrintsInteger ==
  ASSUME NEW k \in U32Keys \cup U64Keys, NEW v, Typed(k, v), v <= I64Max
  PROVE  ReadsAs(k, Scalar(Printed(v)), v)
<1>1. /\ v \in {Numeral[p] : p \in DOMAIN Numeral}
      /\ k \in U32Keys => v \in 0 .. U32Max
      /\ k \in U64Keys => v \in 0 .. U64Max
  BY Zenon DEF Typed, Integers32, Integers64
<1>2. PICK p \in DOMAIN Numeral : Numeral[p] = v /\ Printed(v) = <<p>> /\ p \in Piece
  BY <1>1, PrintedIs, Zenon
<1>3. /\ Scalar(<<p>>) \in Seq(Text) /\ TomlNodeToString(Scalar(<<p>>)) = <<p>>
      /\ Len(<<p>>) = 1 /\ <<p>>[1] = p
  BY <1>2, ScalarPiece, Zenon
<1>4. (k \in U32Keys => IsNumber(<<p>>, U32Max)) /\ (k \in U64Keys => IsNumber(<<p>>, U64Max))
  BY <1>1, <1>2, <1>3, Zenon DEF IsNumber
<1>5. Readable(k, <<p>>)
  BY <1>4, KindsDiffer DEF Readable, WordKeys
<1>6. ValueAt(k, <<p>>) = v
  BY <1>2, <1>3, ValueAtKinds, Zenon
<1> QED BY <1>2, <1>3, <1>5, <1>6, Zenon DEF ReadsAs

LEMMA PrintsWord ==
  ASSUME NEW k \in WordKeys, NEW v, Typed(k, v)
  PROVE  ReadsAs(k, Scalar(<<v>>), v)
<1>1. v \in Piece
  <2>1. {"token", "mtls", "none"} \subseteq Piece /\ {"json", "text"} \subseteq Piece
    BY WordAssumption, Zenon
  <2> QED BY <2>1, Zenon DEF Typed, WordKeys
<1>2. /\ Scalar(<<v>>) \in Seq(Text) /\ TomlNodeToString(Scalar(<<v>>)) = <<v>>
      /\ <<v>>[1] = v
  BY <1>1, ScalarPiece, Zenon
<1>3. /\ k = "auth.mode" => <<v>> \in {<<"token">>, <<"mtls">>, <<"none">>}
      /\ k = "logging.format" => <<v>> \in {<<"json">>, <<"text">>}
  BY Zenon DEF Typed
<1>4. Readable(k, <<v>>)
  BY <1>3, KindsDiffer, Zenon DEF Readable
<1>5. ValueAt(k, <<v>>) = v
  BY <1>2, ValueAtKinds, Zenon
<1> QED BY <1>2, <1>4, <1>5, Zenon DEF ReadsAs

LEMMA PrintsTexts ==
  ASSUME NEW k \in TextListKeys, NEW v, Typed(k, v)
  PROVE  ReadsAs(k, [i \in DOMAIN v |-> <<v[i]>>], v)
<1> DEFINE node == [i \in DOMAIN v |-> <<v[i]>>]
<1>1. v \in Seq(Piece) /\ v # EmptyText
  BY Zenon DEF Typed
<1>2. \A text : Readable(k, text) /\ ValueAt(k, text) = ListOf(text)
  BY KindsDiffer, ValueAtKinds DEF Readable, WordKeys
<1>3. CASE v = <<>>
  <2>1. node = <<>> /\ <<>> \in Seq(Text)
    BY <1>3
  <2>2. TomlNodeToString(node) = EmptyText
    BY <2>1, Zenon DEF TomlNodeToString
  <2> QED BY <1>2, <1>3, <2>1, <2>2, Zenon DEF ReadsAs, ListOf
<1>4. CASE v # <<>>
  <2>1. node \in Seq(Text) /\ TomlNodeToString(node) = v
    BY <1>1, <1>4, ListPieces, Zenon
  <2> QED BY <1>1, <1>2, <2>1, Zenon DEF ReadsAs, ListOf
<1> QED BY <1>3, <1>4, Zenon

LEMMA PrintsIntegers ==
  ASSUME NEW k \in IntListKeys, NEW v, Typed(k, v)
  PROVE  ReadsAs(k, [i \in DOMAIN v |-> Printed(v[i])], v)
<1> DEFINE node == [i \in DOMAIN v |-> Printed(v[i])]
<1>1. v \in Seq(Elements)
  BY Zenon DEF Typed
<1>2. /\ \A text : ValueAt(k, text) = [i \in DOMAIN ListOf(text) |-> Numeral[ListOf(text)[i]]]
      /\ Readable(k, EmptyText)
      /\ \A text : (\A i \in DOMAIN text : text[i] \in DOMAIN Numeral /\ 2 * Numeral[text[i]] \in -U32Max - 1 .. U32Max)
           => Readable(k, text)
  <2>1. \A text : ValueAt(k, text) = [i \in DOMAIN ListOf(text) |-> Numeral[ListOf(text)[i]]]
    BY ValueAtKinds, Zenon
  <2> QED BY <2>1, KindsDiffer, Zenon DEF Readable, WordKeys
<1>3. CASE v = <<>>
  <2>1. node = <<>> /\ <<>> \in Seq(Text)
    BY <1>3
  <2>2. TomlNodeToString(node) = EmptyText /\ ListOf(EmptyText) = <<>>
    BY <2>1, Zenon DEF TomlNodeToString, ListOf
  <2>3. [i \in DOMAIN ListOf(EmptyText) |-> Numeral[ListOf(EmptyText)[i]]] = <<>>
    BY <2>2
  <2>4. ValueAt(k, EmptyText) = <<>>
    BY <1>2, <2>3, Zenon
  <2> HIDE DEF node
  <2>5. ReadsAs(k, node, v)
    BY <1>2, <1>3, <2>1, <2>2, <2>4, Zenon DEF ReadsAs
  <2> QED BY <2>5, Zenon DEF node
<1>4. CASE v # <<>>
  <2> DEFINE Shown(i) == CHOOSE p \in DOMAIN Numeral : Numeral[p] = v[i] /\ Printed(v[i]) = <<p>> /\ p # "" /\ p \in Piece
             list == [i \in DOMAIN v |-> Shown(i)]
  <2>1. /\ DOMAIN v = 1 .. Len(v) /\ Len(v) \in Nat /\ Len(v) # 0
        /\ \A i \in DOMAIN v : v[i] \in Elements
    BY <1>1, <1>4
  <2>2. ASSUME NEW i \in DOMAIN v
        PROVE  /\ Shown(i) \in DOMAIN Numeral /\ Numeral[Shown(i)] = v[i]
               /\ Printed(v[i]) = <<Shown(i)>> /\ Shown(i) # "" /\ Shown(i) \in Piece
    <3>1. v[i] \in {Numeral[p] : p \in DOMAIN Numeral} /\ 2 * v[i] \in -U32Max - 1 .. U32Max
      BY <2>1, Zenon DEF Elements
    <3>2. v[i] \in Int /\ U32Max \in Nat /\ I64Max \in Nat /\ U32Max <= I64Max
      BY <3>1, NumeralAssumption, Zenon
    <3>3. v[i] <= I64Max
      BY <3>1, <3>2
    <3>4. \E p \in DOMAIN Numeral : Numeral[p] = v[i] /\ Printed(v[i]) = <<p>> /\ p # "" /\ p \in Piece
      BY <3>1, <3>3, PrintedIs, Zenon
    <3> QED BY <3>4, Zenon
  <2> HIDE DEF Shown
  <2>3. list \in [1 .. Len(v) -> Piece] /\ \A i \in DOMAIN v : list[i] = Shown(i)
    BY <2>1, <2>2, Zenon
  <2>4. list \in Seq(Piece) /\ list # <<>> /\ DOMAIN list = DOMAIN v /\ 1 \in DOMAIN v
    <3> HIDE DEF list
    <3> QED BY <2>1, <2>3
  <2>5. node = [i \in DOMAIN list |-> <<list[i]>>]
    BY <2>2, <2>3, <2>4, Zenon
  <2> HIDE DEF list
  <2>6. node \in Seq(Text) /\ TomlNodeToString(node) = list
    BY <2>4, <2>5, ListPieces, Zenon
  <2>7. ListOf(list) = list
    <3>1. list[1] # "" /\ EmptyText[1] = ""
      BY <2>2, <2>3, <2>4 DEF EmptyText
    <3> QED BY <3>1, Zenon DEF ListOf
  <2>8. \A i \in DOMAIN list : list[i] \in DOMAIN Numeral /\ Numeral[list[i]] = v[i]
    BY <2>2, <2>3, <2>4, Zenon
  <2>9. Readable(k, list)
    <3>1. \A i \in DOMAIN list : 2 * v[i] \in -U32Max - 1 .. U32Max
      BY <2>1, <2>4, Zenon DEF Elements
    <3> QED BY <1>2, <2>8, <3>1, Zenon
  <2>10. ValueAt(k, list) = v
    <3>1. v = [i \in DOMAIN v |-> v[i]]
      BY <1>1
    <3>2. [i \in DOMAIN list |-> Numeral[list[i]]] = [i \in DOMAIN v |-> v[i]]
      BY <2>4, <2>8, Zenon
    <3>3. ValueAt(k, list) = [i \in DOMAIN list |-> Numeral[list[i]]]
      BY <1>2, <2>7, Zenon
    <3> QED BY <3>1, <3>2, <3>3, Zenon
  <2> HIDE DEF node
  <2>11. ReadsAs(k, node, v)
    BY <2>6, <2>9, <2>10, Zenon DEF ReadsAs
  <2> QED BY <2>11, Zenon DEF node
<1> QED BY <1>3, <1>4, Zenon

\* A size that TOML does not hold is printed as a numeral too.
LEMMA PrintsSize ==
  ASSUME NEW k \in U64Keys, NEW v, Typed(k, v)
  PROVE  Scalar(Printed(v)) \in Seq(Text)
<1>1. PICK p \in DOMAIN Numeral : Numeral[p] = v /\ Numeral[p] \in Int
  BY NumeralAssumption, Zenon DEF Typed, Integers64
<1>2. I64Max \in Nat
  BY NumeralAssumption, Zenon
<1> DEFINE m == IF v > I64Max THEN v - U64Max - 1 ELSE v
<1>3. \E q \in DOMAIN Numeral : Numeral[q] = m
  <2>1. CASE v > I64Max
    <3>1. I64Max < Numeral[p]
      BY <1>1, <1>2, <2>1
    <3>2. \E q \in DOMAIN Numeral : Numeral[q] = v - U64Max - 1
      BY <1>1, <3>1, NumeralAssumption, Zenon
    <3> QED BY <2>1, <3>2, Zenon
  <2>2. CASE ~(v > I64Max)
    BY <1>1, <2>2, Zenon
  <2> QED BY <2>1, <2>2, Zenon
<1>4. Printed(v) = <<CHOOSE q \in DOMAIN Numeral : Numeral[q] = m>>
  BY Zenon DEF Printed
<1> HIDE DEF m
<1>5. PICK q \in Piece : Printed(v) = <<q>>
  BY <1>3, <1>4, NumeralAssumption, Zenon
<1> QED BY <1>5, ScalarPiece, Zenon

\* ToToml writes every key as what is read back as its value.
LEMMA PrintsValue ==
  ASSUME NEW c, NEW k \in Keys, Typed(k, c[k]),
         k = "server.max_message_bytes" => c[k] <= I64Max
  PROVE  ReadsAs(k, ToToml(c).nodes[k], c[k])
<1> DEFINE node == ToToml(c).nodes[k]
<1>0. node =
        CASE k \in TextKeys     -> Scalar(c[k])
          [] k \in BoolKeys     -> Scalar(IF c[k] THEN <<"true">> ELSE <<"false">>)
          [] k \in U32Keys \cup U64Keys -> Scalar(Printed(c[k]))
          [] k \in IntListKeys  -> [i \in DOMAIN c[k] |-> Printed(c[k][i])]
          [] k \in TextListKeys -> [i \in DOMAIN c[k] |-> <<c[k][i]>>]
          [] OTHER              -> Scalar(<<c[k]>>)
  BY DEF ToToml
<1> HIDE DEF node
<1>1. CASE k \in TextKeys
  <2>1. node = Scalar(c[k])
    BY <1>0, <1>1, KindsDiffer
  <2> QED BY <1>1, <2>1, PrintsText, Zenon DEF node
<1>2. CASE k \in BoolKeys
  <2>1. node = Scalar(IF c[k] THEN <<"true">> ELSE <<"false">>)
    BY <1>0, <1>2, KindsDiffer
  <2> QED BY <1>2, <2>1, PrintsSwitch, Zenon DEF node
<1>3. CASE k \in U32Keys \cup U64Keys
  <2>1. node = Scalar(Printed(c[k]))
    BY <1>0, <1>3, KindsDiffer
  <2>2. c[k] <= I64Max
    <3>1. CASE k \in U32Keys
      <4>1. c[k] \in 0 .. U32Max /\ U32Max \in Nat /\ I64Max \in Nat /\ U32Max <= I64Max
        BY <3>1, NumeralAssumption, Zenon DEF Typed, Integers32
      <4> QED BY <4>1
    <3>2. CASE k \in U64Keys
      BY <3>2, Zenon DEF U64Keys
    <3> QED BY <1>3, <3>1, <3>2, Zenon
  <2> QED BY <1>3, <2>1, <2>2, PrintsInteger, Zenon DEF node
<1>4. CASE k \in IntListKeys
  <2>1. node = [i \in DOMAIN c[k] |-> Printed(c[k][i])]
    BY <1>0, <1>4, KindsDiffer
  <2> QED BY <1>4, <2>1, PrintsIntegers, Zenon DEF node
<1>5. CASE k \in TextListKeys
  <2>1. node = [i \in DOMAIN c[k] |-> <<c[k][i]>>]
    BY <1>0, <1>5, KindsDiffer
  <2> QED BY <1>5, <2>1, PrintsTexts, Zenon DEF node
<1>6. CASE k \in WordKeys
  <2>1. node = Scalar(<<c[k]>>)
    BY <1>0, <1>6, KindsDiffer
  <2> QED BY <1>6, <2>1, PrintsWord, Zenon DEF node
<1> QED BY <1>1, <1>2, <1>3, <1>4, <1>5, <1>6, KindsCover, Zenon

\* The nodes that ToToml writes are those of a file.
LEMMA PrintsNode ==
  ASSUME NEW c, NEW k \in Keys, Typed(k, c[k])
  PROVE  ToToml(c).nodes[k] \in Seq(Text)
<1>1. CASE k = "server.max_message_bytes"
  <2>1. k \in U64Keys
    BY <1>1, Zenon DEF U64Keys
  <2>2. ToToml(c).nodes[k] = Scalar(Printed(c[k]))
    BY <2>1, KindsDiffer DEF ToToml
  <2> QED BY <2>1, <2>2, PrintsSize, Zenon
<1>2. CASE k # "server.max_message_bytes"
  BY <1>2, PrintsValue, Zenon DEF ReadsAs
<1> QED BY <1>1, <1>2, Zenon

-----------------------------------------------------------------------------
(* Loading.                                                                *)

\* A configuration, with a value of the right kind at every key.
IsConfig(c) == c = [k \in Keys |-> c[k]] /\ \A k \in Keys : Typed(k, c[k])

LEMMA DefaultTexts ==
  ASSUME NEW k \in TextKeys
  PROVE  Default[k] \in Text
<1> DEFINE Given == {"node.data_dir", "cluster.leader_key", "server.listen", "metrics.listen",
                     "auth.token_file", "logging.level"}
<1>1. k \in Keys
  BY Zenon DEF Keys
<1>2. Given \subseteq Keys /\ \A g \in Given : g \notin BoolKeys
  BY KindsDiffer, Zenon DEF Keys, TextKeys
<1>3. /\ Default["node.data_dir"] = <<"/var/lib/opaquedb">>
      /\ Default["cluster.leader_key"] = <<"/opaquedb/leader">>
      /\ Default["server.listen"] = <<"0.0.0.0:50051">>
      /\ Default["metrics.listen"] = <<"0.0.0.0:9090">>
      /\ Default["auth.token_file"] = <<"/etc/opaquedb/tokens">>
      /\ Default["logging.level"] = <<"info">>
  BY <1>2, SMTT(30) DEF Default
<1>4. k \notin Given => Default[k] = EmptyText
  <2>1. k \notin BoolKeys
    BY KindsDiffer, Zenon
  <2>2. k \notin {"cluster.etcd_endpoints", "logging.format", "auth.mode", "auth.admin_identities",
                  "server.max_message_bytes", "server.rate_limit_per_second",
                  "server.rate_limit_burst", "crypto.poly_modulus_degree",
                  "crypto.plain_modulus_bits", "crypto.coeff_modulus_bits", "crypto.key_bits",
                  "crypto.result_buckets", "storage.record_bytes"}
    BY KindsDiffer, Zenon DEF U32Keys, U64Keys, IntListKeys, TextListKeys, WordKeys
  <2> QED BY <1>1, <2>1, <2>2, SMTT(30) DEF Default
<1>5. \A p \in Piece : <<p>> \in Text
  BY ScalarPiece, Zenon
<1> QED BY <1>3, <1>4, <1>5, WordAssumption, Zenon DEF EmptyText

LEMMA DefaultIntegers ==
  ASSUME NEW k \in U32Keys \cup U64Keys
  PROVE  Default[k] \in Integers32
<1>1. \A j \in U32Keys \cup U64Keys : j \in Keys /\ j \notin BoolKeys
  BY KindsDiffer, Zenon DEF Keys
<1>2. /\ Default["server.max_message_bytes"] = 67108864
      /\ Default["server.rate_limit_per_second"] = 2000
      /\ Default["server.rate_limit_burst"] = 2000
      /\ Default["crypto.poly_modulus_degree"] = 16384
      /\ Default["crypto.plain_modulus_bits"] = 20
      /\ Default["crypto.key_bits"] = 16
      /\ Default["crypto.result_buckets"] = 16
      /\ Default["storage.record_bytes"] = 128
  BY <1>1, SMTT(30) DEF Default, U32Keys, U64Keys
<1>3. U32Max \in Nat
  BY NumeralAssumption, Zenon
<1>4. ASSUME NEW n \in {16, 20, 49, 60, 128, 2000, 16384, 67108864} PROVE n \in Integers32
  <2>1. \E p \in DOMAIN Numeral : Numeral[p] = n
    BY DefaultAssumption, SMT
  <2>2. 67108864 <= U32Max
    BY DefaultAssumption, SMT
  <2>3. n \in 0 .. U32Max
    BY <1>3, <2>2, SMT
  <2> QED BY <2>1, <2>3, SMT DEF Integers32
<1>5. k \in {"server.max_message_bytes", "server.rate_limit_per_second", "server.rate_limit_burst",
             "crypto.poly_modulus_degree", "crypto.plain_modulus_bits", "crypto.key_bits",
             "crypto.result_buckets", "storage.record_bytes"}
  BY Zenon DEF U32Keys, U64Keys
<1>6. Default[k] \in {16, 20, 49, 60, 128, 2000, 16384, 67108864}
  BY <1>2, <1>5, SMTT(30)
<1> QED BY <1>4, <1>6, SMT

LEMMA DefaultIntegerList ==
  ASSUME NEW k \in IntListKeys
  PROVE  Default[k] \in Seq(Elements)
<1>1. Default["crypto.coeff_modulus_bits"] = <<60, 60, 60, 60, 60, 49>>
  BY SMTT(30) DEF Default, Keys, IntListKeys, BoolKeys
<1>2. 60 \in Elements /\ 49 \in Elements
  <2>1. (\E p \in DOMAIN Numeral : Numeral[p] = 60) /\ (\E p \in DOMAIN Numeral : Numeral[p] = 49)
    BY DefaultAssumption, SMT
  <2>2. 2 * 60 \in -U32Max - 1 .. U32Max /\ 2 * 49 \in -U32Max - 1 .. U32Max
    <3>1. U32Max \in Nat
      BY NumeralAssumption, Zenon
    <3>2. 67108864 <= U32Max
      BY DefaultAssumption, SMT
    <3> QED BY <3>1, <3>2, SMT
  <2> QED BY <2>1, <2>2, SMT DEF Elements
<1>3. ASSUME NEW T, NEW a \in T, NEW b \in T PROVE <<a, a, a, a, a, b>> \in Seq(T)
  BY SMT
<1>4. <<60, 60, 60, 60, 60, 49>> \in Seq(Elements)
  BY <1>2, <1>3, Zenon
<1> QED BY <1>1, <1>4, Zenon DEF IntListKeys

LEMMA DefaultOthers ==
  /\ \A k \in BoolKeys : Default[k] = FALSE
  /\ Default["cluster.etcd_endpoints"] = <<"http://127.0.0.1:2379">>
  /\ Default["auth.admin_identities"] = <<>>
  /\ Default["auth.mode"] = "token" /\ Default["logging.format"] = "json"
<1>1. ASSUME NEW k \in BoolKeys PROVE Default[k] = FALSE
  BY SMTT(30) DEF Default, Keys, BoolKeys
<1>2. Default["cluster.etcd_endpoints"] = <<"http://127.0.0.1:2379">>
  BY SMTT(30) DEF Default, Keys, TextListKeys, BoolKeys
<1>3. Default["auth.admin_identities"] = <<>>
  BY SMTT(30) DEF Default, Keys, TextListKeys, BoolKeys
<1>4. Default["auth.mode"] = "token" /\ Default["logging.format"] = "json"
  BY SMTT(30) DEF Default, Keys, BoolKeys
<1> QED BY <1>1, <1>2, <1>3, <1>4, Zenon

\* The defaults are a configuration.
LEMMA DefaultTyped == IsConfig(Default)
<1>1. Default = [k \in Keys |-> Default[k]]
  BY SMT DEF Default
<1>2. ASSUME NEW k \in Keys PROVE Typed(k, Default[k])
  <2>1. CASE k \in TextKeys
    BY <2>1, DefaultTexts, KindsDiffer, Zenon DEF Typed, WordKeys
  <2>2. CASE k \in BoolKeys
    BY <2>2, DefaultOthers, KindsDiffer, Zenon DEF Typed, WordKeys
  <2>3. CASE k \in U32Keys \cup U64Keys
    <3>1. Default[k] \in Integers32
      BY <2>3, DefaultIntegers, Zenon
    <3>2. Integers32 \subseteq Integers64
      <4>1. U32Max \in Nat /\ I64Max \in Nat /\ U64Max \in Nat /\ U32Max <= I64Max /\ I64Max <= U64Max
        BY NumeralAssumption, Zenon
      <4>2. 0 .. U32Max \subseteq 0 .. U64Max
        BY <4>1
      <4> QED BY <4>2, Zenon DEF Integers32, Integers64
    <3> QED BY <2>3, <3>1, <3>2, KindsDiffer, Zenon DEF Typed, WordKeys
  <2>4. CASE k \in IntListKeys
    BY <2>4, DefaultIntegerList, KindsDiffer, Zenon DEF Typed, WordKeys
  <2>5. CASE k \in TextListKeys
    <3>1. <<"http://127.0.0.1:2379">> \in Seq(Piece) /\ <<>> \in Seq(Piece)
      <4>1. "http://127.0.0.1:2379" \in Piece
        BY WordAssumption, Zenon
      <4>2. <<"http://127.0.0.1:2379">> \in Seq(Piece)
        BY <4>1, OneElement, Zenon
      <4>3. <<>> \in Seq(Piece)
        OBVIOUS
      <4> QED BY <4>2, <4>3, Zenon
    <3>2. <<"http://127.0.0.1:2379">> # EmptyText /\ <<>> # EmptyText
      BY DEF EmptyText
    <3>3. Default[k] \in {<<"http://127.0.0.1:2379">>, <<>>}
      BY <2>5, DefaultOthers, Zenon DEF TextListKeys
    <3> QED BY <2>5, <3>1, <3>2, <3>3, KindsDiffer, Zenon DEF Typed, WordKeys
  <2>6. CASE k \in WordKeys
    BY <2>6, DefaultOthers, KindsDiffer, Zenon DEF Typed, WordKeys
  <2> QED BY <2>1, <2>2, <2>3, <2>4, <2>5, <2>6, KindsCover, Zenon
<1> QED BY <1>1, <1>2, Zenon DEF IsConfig

\* A layer that can be read over a configuration gives a configuration.
LEMMA LayerTyped ==
  ASSUME NEW c, IsConfig(c), NEW layer, \A k \in DOMAIN layer : layer[k] \in Text,
         LayerReadable(layer)
  PROVE  IsConfig(ApplyLayer(c, layer))
<1> DEFINE d == ApplyLayer(c, layer)
<1>1. d = [k \in Keys |-> d[k]]
  BY DEF ApplyLayer
<1>2. ASSUME NEW k \in Keys PROVE Typed(k, d[k])
  <2>1. CASE k \in DOMAIN layer
    <3>1. d[k] = ValueAt(k, layer[k])
      BY <2>1, Zenon DEF ApplyLayer
    <3>2. Readable(k, layer[k]) /\ layer[k] \in Text
      BY <2>1, Zenon DEF LayerReadable
    <3> QED BY <3>1, <3>2, ValueTyped, Zenon
  <2>2. CASE k \notin DOMAIN layer
    <3>1. d[k] = c[k]
      BY <2>2, Zenon DEF ApplyLayer
    <3> QED BY <3>1, Zenon DEF IsConfig
  <2> QED BY <2>1, <2>2, Zenon
<1> HIDE DEF d
<1>3. IsConfig(d)
  BY <1>1, <1>2, Zenon DEF IsConfig
<1> QED BY <1>3, Zenon DEF d

\* The texts of a file.
LEMMA FileTexts ==
  ASSUME NEW file, \A k \in DOMAIN file.nodes : file.nodes[k] \in Seq(Text)
  PROVE  \A k \in DOMAIN FileLayer(file) : FileLayer(file)[k] \in Text
<1>1. EmptyText \in Text
  <2>1. "" \in Piece
    BY WordAssumption, Zenon
  <2> QED BY <2>1, OneElement, Zenon DEF EmptyText, Text
<1>2. \A node \in Seq(Text) : TomlNodeToString(node) \in Text
  BY <1>1, ConcatText, Zenon DEF TomlNodeToString
<1>3. /\ DOMAIN FileLayer(file) = DOMAIN file.nodes \cap Keys
      /\ \A k \in DOMAIN file.nodes \cap Keys : FileLayer(file)[k] = TomlNodeToString(file.nodes[k])
  BY Zenon DEF FileLayer
<1> QED BY <1>2, <1>3, Zenon

\* What Load makes of a file, an environment and flags.
LEMMA LoadTyped ==
  ASSUME NEW o, IsLoadOptions(o), Load(o).ok
  PROVE  IsConfig(Load(o).config) /\ Validate(Load(o).config)
         /\ Load(o) = [ok |-> TRUE, config |-> Load(o).config]
<1> DEFINE a == ApplyTomlFile(Default, o.file)
           b == ApplyLayer(a, o.env)
           c == ApplyLayer(b, o.flags)
           Passes == /\ FileApplies(o.file, o.optional)
                     /\ LayerReadable(o.env)
                     /\ DOMAIN o.flags \subseteq Keys /\ LayerReadable(o.flags)
                     /\ Validate(c)
<1>1. Load(o) = IF Passes THEN [ok |-> TRUE, config |-> c] ELSE [ok |-> FALSE]
  BY Zenon DEF Load
<1>2. Passes
  <2>1. SUFFICES ASSUME ~Passes PROVE FALSE
    BY Zenon
  <2> HIDE DEF Passes
  <2>2. Load(o) = [ok |-> FALSE]
    BY <1>1, <2>1, Zenon
  <2> QED BY <2>2
<1>3. Load(o) = [ok |-> TRUE, config |-> c]
  BY <1>1, <1>2, Zenon
<1>4. Load(o).config = c
  <2> HIDE DEF c
  <2> QED BY <1>3
<1>5. IsConfig(a)
  <2>1. CASE o.file.bad
    BY <2>1, DefaultTyped, Zenon DEF ApplyTomlFile
  <2>2. CASE ~o.file.bad
    <3>1. \A k \in DOMAIN FileLayer(o.file) : FileLayer(o.file)[k] \in Text
      BY FileTexts, Zenon DEF IsLoadOptions
    <3>2. LayerReadable(FileLayer(o.file))
      BY <1>2, <2>2, Zenon DEF FileApplies
    <3>3. a = ApplyLayer(Default, FileLayer(o.file))
      BY <2>2, Zenon DEF ApplyTomlFile
    <3> QED BY <3>1, <3>2, <3>3, DefaultTyped, LayerTyped, Zenon
  <2> QED BY <2>1, <2>2, Zenon
<1> HIDE DEF a
<1>6. IsConfig(b)
  BY <1>2, <1>5, LayerTyped, Zenon DEF IsLoadOptions
<1> HIDE DEF b
<1>7. IsConfig(c)
  BY <1>2, <1>6, LayerTyped, Zenon DEF IsLoadOptions
<1> HIDE DEF c
<1> QED BY <1>2, <1>3, <1>4, <1>7, Zenon

\* The file that ToToml writes applies over any configuration as the printed one.
LEMMA PrintedApplies ==
  ASSUME NEW c, IsConfig(c), c["server.max_message_bytes"] <= I64Max, NEW base
  PROVE  /\ ToToml(c).bad = FALSE
         /\ LayerReadable(FileLayer(ToToml(c)))
         /\ ApplyTomlFile(base, ToToml(c)) = c
<1> DEFINE file == ToToml(c)
           layer == FileLayer(file)
<1>1. file.bad = FALSE /\ DOMAIN file.nodes = Keys
  BY DEF ToToml
<1>2. \A k \in Keys : ReadsAs(k, file.nodes[k], c[k])
  BY PrintsValue, Zenon DEF IsConfig
<1> HIDE DEF file
<1>3. DOMAIN layer = Keys /\ \A k \in Keys : layer[k] = TomlNodeToString(file.nodes[k])
  <2>1. DOMAIN file.nodes \cap Keys = Keys
    BY <1>1, Zenon
  <2>2. layer = [k \in Keys |-> TomlNodeToString(file.nodes[k])]
    BY <2>1, Zenon DEF FileLayer
  <2> HIDE DEF layer
  <2> QED BY <2>2, Zenon
<1> HIDE DEF layer
<1>4. LayerReadable(layer)
  BY <1>2, <1>3, Zenon DEF LayerReadable, ReadsAs
<1>5. ApplyLayer(base, layer) = c
  <2>1. \A k \in Keys : k \in DOMAIN layer /\ ValueAt(k, layer[k]) = c[k]
    BY <1>2, <1>3, Zenon DEF ReadsAs
  <2>2. ApplyLayer(base, layer) = [k \in Keys |-> c[k]]
    BY <2>1, Zenon DEF ApplyLayer
  <2> QED BY <2>2, Zenon DEF IsConfig
<1>6. ApplyTomlFile(base, file) = c
  BY <1>1, <1>5, Zenon DEF ApplyTomlFile, layer
<1> QED BY <1>1, <1>4, <1>6, Zenon DEF file, layer

\* The options of a load from one file.
FileOnly(file) ==
  [file |-> file, optional |-> FALSE,
   env |-> [k \in {} |-> EmptyText], flags |-> [k \in {} |-> EmptyText]]

LEMMA FileOnlyIs ==
  ASSUME NEW file
  PROVE  /\ FileOnly(file).file = file /\ FileOnly(file).optional = FALSE
         /\ DOMAIN FileOnly(file) = {"file", "optional", "env", "flags"}
         /\ \A layer \in {FileOnly(file).env, FileOnly(file).flags} : DOMAIN layer = {}
BY DEF FileOnly

\* The printed file can be loaded, whatever its configuration is.
LEMMA PrintedOptions ==
  ASSUME NEW c, IsConfig(c)
  PROVE  IsLoadOptions(FileOnly(ToToml(c)))
<1>1. DOMAIN ToToml(c).nodes = Keys
  BY DEF ToToml
<1>2. \A k \in DOMAIN ToToml(c).nodes : ToToml(c).nodes[k] \in Seq(Text)
  BY <1>1, PrintsNode, Zenon DEF IsConfig
<1> QED BY <1>2, FileOnlyIs, Zenon DEF IsLoadOptions

\* A valid configuration that is printed loads back.
LEMMA PrintedIsLoaded ==
  ASSUME NEW c, IsConfig(c), Validate(c), c["server.max_message_bytes"] <= I64Max
  PROVE  /\ Load(FileOnly(ToToml(c))) = [ok |-> TRUE, config |-> c]
         /\ LoadFileOnly(ToToml(c)) = [ok |-> TRUE, config |-> c]
<1> DEFINE file == ToToml(c)
           o == FileOnly(file)
<1>1. file.bad = FALSE /\ LayerReadable(FileLayer(file)) /\ ApplyTomlFile(Default, file) = c
  BY PrintedApplies, Zenon
<1> HIDE DEF file
<1>2. FileApplies(file, FALSE)
  BY <1>1, Zenon DEF FileApplies
<1>3. LoadFileOnly(file) = [ok |-> TRUE, config |-> c]
  BY <1>1, <1>2, Zenon DEF LoadFileOnly
<1>4. ASSUME NEW layer, DOMAIN layer = {}
      PROVE  LayerReadable(layer) /\ ApplyLayer(c, layer) = c
  <2>1. ApplyLayer(c, layer) = [k \in Keys |-> c[k]]
    BY <1>4, Zenon DEF ApplyLayer
  <2> QED BY <1>4, <2>1, Zenon DEF LayerReadable, IsConfig
<1>5. o.file = file /\ o.optional = FALSE /\ DOMAIN o.env = {} /\ DOMAIN o.flags = {}
  BY FileOnlyIs, Zenon
<1> HIDE DEF o
<1>6. /\ LayerReadable(o.env) /\ LayerReadable(o.flags)
      /\ ApplyLayer(ApplyLayer(ApplyTomlFile(Default, o.file), o.env), o.flags) = c
  BY <1>1, <1>4, <1>5, Zenon
<1>7. FileApplies(o.file, o.optional) /\ DOMAIN o.flags \subseteq Keys
  BY <1>2, <1>5, Zenon
<1>8. Load(o) = [ok |-> TRUE, config |-> c]
  BY <1>6, <1>7, Zenon DEF Load
<1> QED BY <1>3, <1>8, Zenon DEF o, file

-----------------------------------------------------------------------------
(* `config print`.                                                         *)

SettingInv == input \in Input /\ IsLoadOptions(setting)

\* The options that `config print` loads, and what it makes of them.
LEMMA EffectiveIs ==
  ASSUME SettingInv, Effective.ok
  PROVE  /\ IsConfig(Effective.config) /\ Validate(Effective.config)
         /\ Effective = [ok |-> TRUE, config |-> Effective.config]
<1> DEFINE o == [setting EXCEPT !.optional = TRUE]
<1>1. DOMAIN setting = {"file", "optional", "env", "flags"}
  BY Zenon DEF SettingInv, IsLoadOptions
<1>2. /\ DOMAIN o = {"file", "optional", "env", "flags"}
      /\ o.file = setting.file /\ o.env = setting.env /\ o.flags = setting.flags
  BY <1>1
<1> HIDE DEF o
<1>3. IsLoadOptions(o)
  BY <1>2, Zenon DEF SettingInv, IsLoadOptions
<1>4. Effective = Load(o)
  BY Zenon DEF Effective, o
<1> QED BY <1>3, <1>4, LoadTyped, Zenon

\* What is printed, as the setting of the commands that follow.
LEMMA PrintSets ==
  ASSUME ConfigPrint
  PROVE  /\ setting' = FileOnly(ToToml(Effective.config)) /\ setting'.file = ToToml(Effective.config)
         /\ loaded' = Load(FileOnly(ToToml(Effective.config)))
         /\ UNCHANGED input /\ Effective.ok
<1>1. setting' = FileOnly(ToToml(Effective.config)) /\ loaded' = Load(setting')
      /\ UNCHANGED input /\ Effective.ok
  BY Zenon DEF ConfigPrint, FileOnly
<1> QED BY <1>1, FileOnlyIs, Zenon

LEMMA SettingInvariance == Spec => []SettingInv
<1>0. \A i \in Input : \A o \in i.settings : IsLoadOptions(o)
  BY InputAssumption, SMT
<1>1. Init => SettingInv
  BY <1>0, Zenon DEF Init, SettingInv
<1>2. SettingInv /\ [Next]_vars => SettingInv'
  <2> SUFFICES ASSUME SettingInv, [Next]_vars PROVE SettingInv'
    OBVIOUS
  <2>1. CASE UNCHANGED <<input, setting>>
    BY <2>1, Zenon DEF SettingInv, IsLoadOptions
  <2>2. CASE Reconfigure
    BY <1>0, <2>2, Zenon DEF Reconfigure, SettingInv
  <2>3. CASE ConfigPrint
    BY <2>3, PrintSets, EffectiveIs, PrintedOptions, Zenon DEF SettingInv
  <2>4. ASSUME NEW n, LoadCommand(n) \/ Insert(n) \/ Damage(n) PROVE UNCHANGED <<input, setting>>
    BY <2>4, Zenon DEF LoadCommand, PublishLines, Insert, Damage
  <2> QED BY <2>1, <2>2, <2>3, <2>4, Zenon DEF Next, vars
<1> QED BY <1>1, <1>2, PTL DEF Spec

\* Whatever file, environment and flags a configuration was loaded from, the file that
\* `config print` writes of it (ToToml) is valid and loads as the same configuration,
\* for texts, lists and numbers of any length and integers of any width.
THEOREM PrintedConfigLoads == Spec => PrintedLoads
<1> DEFINE Loads == ConfigPrint /\ Effective.config["server.max_message_bytes"] <= I64Max =>
                      loaded' = Effective /\ LoadFileOnly(setting'.file) = Effective
<1>1. ASSUME SettingInv, ConfigPrint, Effective.config["server.max_message_bytes"] <= I64Max
      PROVE  loaded' = Effective /\ LoadFileOnly(setting'.file) = Effective
  BY <1>1, PrintSets, EffectiveIs, PrintedIsLoaded, Zenon
<1>2. SettingInv /\ [Next]_vars => [Loads]_vars
  BY <1>1, Zenon
<1> QED BY <1>2, SettingInvariance, PTL DEF Spec, PrintedLoads

-----------------------------------------------------------------------------
(* The rows of loads and inserts.                                          *)

\* The rows of a load or of an insert have cells that their columns take.
LEMMA CsvCells ==
  ASSUME input \in Input, NEW columns \in Seq(Column), CsvParses(columns), NEW l \in DOMAIN input.lines
  PROVE  Takeable(columns, CellsOf(columns, input.lines[l]))
<1> DEFINE header == input.header
           line == input.lines[l]
           Leads(name, i) == header[i] = name /\ \A j \in 1 .. i - 1 : header[j] # name
           place(name) == CHOOSE i \in DOMAIN header : Leads(name, i)
<1>0. /\ header \in Seq(STRING) /\ DOMAIN line = 1 .. Len(line)
      /\ \A j \in DOMAIN line : IsCell(line[j])
  BY InputAssumption, Zenon
<1>1. /\ Names(columns) \subseteq Range(header) /\ Len(line) = Len(header)
      /\ \A i \in DOMAIN columns : Parses(columns[i].type, CellsOf(columns, line)[columns[i].name])
  BY Zenon DEF CsvParses
<1>2. /\ DOMAIN header = 1 .. Len(header) /\ Len(header) \in Nat
      /\ DOMAIN columns = 1 .. Len(columns)
  BY <1>0
<1>3. CellsOf(columns, line) = [name \in Names(columns) |-> line[place(name)]]
  BY Zenon DEF CellsOf
<1> HIDE DEF header, line
<1>4. ASSUME NEW name \in Names(columns) PROVE place(name) \in DOMAIN header
  <2> DEFINE S == {i \in DOMAIN header : header[i] = name}
  <2>1. S # {}
    BY <1>1, Zenon DEF Range
  <2>2. S \subseteq Nat
    BY <1>2
  <2>3. Least(S) \in S /\ \A q \in S : Least(S) <= q
    BY <2>1, <2>2, LeastIsLeast, Zenon
  <2> DEFINE i == Least(S)
  <2>4. i \in DOMAIN header /\ header[i] = name
    BY <2>3, Zenon
  <2>5. ASSUME NEW j \in 1 .. i - 1 PROVE header[j] # name
    <3>1. i \in Nat
      BY <2>2, <2>3, Zenon
    <3> HIDE DEF i
    <3>2. j \in DOMAIN header /\ ~ (i <= j)
      BY <1>2, <2>4, <3>1
    <3> QED BY <2>3, <3>2, Zenon DEF i
  <2> HIDE DEF i
  <2>6. Leads(name, i)
    BY <2>4, <2>5, Zenon
  <2> HIDE DEF Leads
  <2> QED BY <2>4, <2>6, Zenon
<1>5. ASSUME NEW i \in 1 .. Len(columns)
      PROVE  /\ IsCell(CellsOf(columns, line)[columns[i].name])
             /\ Parses(columns[i].type, CellsOf(columns, line)[columns[i].name])
  <2>1. columns[i].name \in Names(columns)
    BY <1>2, Zenon DEF Names
  <2> HIDE DEF place
  <2>2. CellsOf(columns, line)[columns[i].name] = line[place(columns[i].name)]
    BY <1>3, <2>1, Zenon
  <2>3. place(columns[i].name) \in DOMAIN line
    BY <1>0, <1>1, <1>2, <1>4, <2>1, Zenon
  <2> QED BY <1>0, <1>1, <1>2, <2>2, <2>3, Zenon
<1> QED BY <1>5, Zenon DEF Takeable, line

\* InsertRowAndPublish has the cell of each column under its name.
LEMMA InsertCells ==
  ASSUME input \in Input, NEW columns \in Seq(Column), Valid(columns),
         NEW line \in [DOMAIN columns -> input.cells],
         \A i \in DOMAIN line : Parses(columns[i].type, line[i]),
         NEW cells, cells = [name \in Names(columns) |->
                               line[CHOOSE i \in DOMAIN line : columns[i].name = name]]
  PROVE  Takeable(columns, cells)
<1>0. \A c \in input.cells : IsCell(c)
  BY InputAssumption, Zenon
<1>1. DOMAIN columns = 1 .. Len(columns) /\ DOMAIN line = DOMAIN columns
  OBVIOUS
<1>2. ASSUME NEW i \in 1 .. Len(columns)
      PROVE  IsCell(cells[columns[i].name]) /\ Parses(columns[i].type, cells[columns[i].name])
  <2> DEFINE j == CHOOSE j \in DOMAIN line : columns[j].name = columns[i].name
  <2>1. j \in DOMAIN columns /\ columns[j].name = columns[i].name
    BY <1>1, Zenon
  <2>2. columns[i].name \in Names(columns)
    BY <1>1, Zenon DEF Names
  <2>3. cells[columns[i].name] = line[j]
    BY <2>2, Zenon
  <2> HIDE DEF j
  <2>4. j = i
    BY <1>1, <2>1, Zenon DEF Valid
  <2>5. line[i] \in input.cells
    BY <1>1, Zenon
  <2> QED BY <1>0, <1>1, <2>3, <2>4, <2>5, Zenon
<1> QED BY <1>2, Zenon DEF Takeable

\* Publish of the lines that a node keeps.
LEMMA LinesStore ==
  ASSUME input \in Input, NEW config, NEW columns \in Seq(Column), CsvParses(columns),
         config["storage.record_bytes"] \in Nat, NEW n \in Node,
         epoch = [m \in Node |-> epoch[m]], written = [m \in Node |-> written[m]],
         NEW lines, NEW nodes, PublishLines(n, GeometryFrom(config, columns), lines, nodes)
  PROVE  /\ \A whole : Stored(epoch'[n], written'[n], columns, whole)
         /\ epoch' = [m \in Node |-> epoch'[m]] /\ written' = [m \in Node |-> written'[m]]
         /\ \A m \in Node : m # n => epoch'[m] = epoch[m] /\ written'[m] = written[m]
         /\ UNCHANGED <<input, setting, loaded, damaged>>
<1> DEFINE g == GeometryFrom(config, columns)
           order == Concat([l \in DOMAIN input.lines |-> IF l \in lines THEN <<l>> ELSE <<>>])
           cells == [i \in DOMAIN order |-> CellsOf(g.columns, input.lines[order[i]])]
           N == Len(input.lines)
           pieces == [l \in DOMAIN input.lines |-> IF l \in lines THEN <<l>> ELSE <<>>]
<1>1. /\ StagingValid(g) /\ \A i \in DOMAIN cells : RowFits(g, cells[i])
      /\ epoch' = [epoch EXCEPT ![n] = EpochOf(g, [i \in DOMAIN cells |-> RowOf(g, cells[i])])]
      /\ written' = [written EXCEPT ![n] = cells]
      /\ UNCHANGED <<input, setting, loaded, damaged>>
  BY Zenon DEF PublishLines
<1>2. N \in Nat /\ DOMAIN input.lines = 1 .. N
  BY InputAssumption, Zenon
<1>3. order \in Seq(1 .. N)
  <2> DEFINE S == 1 .. N
  <2>1. \A l \in S : <<l>> \in Seq(S) /\ <<>> \in Seq(S)
    OBVIOUS
  <2>2. pieces \in [1 .. N -> Seq(S)]
    BY <1>2, <2>1, Zenon
  <2> HIDE DEF pieces
  <2>3. pieces \in Seq(Seq(S))
    BY <1>2, <2>2, FunctionIsSeq, Zenon
  <2>4. Concat(pieces) \in Seq(S)
    BY <2>3, ConcatType, Zenon
  <2> QED BY <2>4, Zenon DEF pieces
<1> DEFINE L == Len(order)
<1> HIDE DEF order
<1>4. L \in Nat /\ DOMAIN order = 1 .. L /\ \A i \in 1 .. L : order[i] \in 1 .. N
  BY <1>3
<1>5. g.columns = columns /\ g.record_bytes = config["storage.record_bytes"]
  <2> DEFINE b == BytesPerSlot(config)
  <2>1. g = [columns |-> columns, key_bits |-> config["crypto.key_bits"],
             slot_count |-> config["crypto.poly_modulus_degree"],
             bytes_per_slot |-> b, record_bytes |-> config["storage.record_bytes"]]
    BY Zenon DEF GeometryFrom
  <2> HIDE DEF g, b
  <2> QED BY <2>1
<1>6. cells = [i \in 1 .. L |-> CellsOf(columns, input.lines[order[i]])]
  BY <1>4, <1>5, Zenon
<1>7. ASSUME NEW i \in 1 .. L PROVE Takeable(columns, cells[i])
  <2>1. order[i] \in DOMAIN input.lines
    BY <1>2, <1>4, Zenon
  <2>2. cells[i] = CellsOf(columns, input.lines[order[i]])
    BY <1>6, Zenon
  <2> HIDE DEF cells
  <2> QED BY <2>1, <2>2, CsvCells, Zenon
<1>8. DOMAIN cells = 1 .. L /\ Len(cells) = L /\ cells = [i \in 1 .. L |-> cells[i]]
  <2>1. cells \in [1 .. L -> {cells[i] : i \in 1 .. L}]
    BY <1>6, Zenon
  <2>2. DOMAIN cells = 1 .. L /\ cells = [i \in 1 .. L |-> cells[i]]
    BY <1>6, Zenon
  <2> HIDE DEF cells, L
  <2>3. Len(cells) = L
    BY <1>4, <2>1, FunctionIsSeq, Zenon
  <2> QED BY <2>2, <2>3, Zenon
<1> HIDE DEF cells, L
<1>9. Layout(g) /\ Rows(g, cells)
  BY <1>1, <1>4, <1>5, <1>7, <1>8, Zenon DEF Layout, Rows
<1>10. epoch'[n] = EpochOf(g, RowsFor(g, cells)) /\ written'[n] = cells
  <2>1. epoch'[n] = EpochOf(g, [i \in DOMAIN cells |-> RowOf(g, cells[i])]) /\ written'[n] = cells
    BY <1>1, Zenon
  <2> QED BY <2>1, Zenon DEF RowsFor
<1>11. \A whole : Stored(epoch'[n], written'[n], columns, whole)
  <2>1. g = [columns |-> columns, key_bits |-> config["crypto.key_bits"],
             slot_count |-> config["crypto.poly_modulus_degree"],
             bytes_per_slot |-> BytesPerSlot(config), record_bytes |-> config["storage.record_bytes"]]
    BY Zenon DEF GeometryFrom
  <2> HIDE DEF g
  <2> QED BY <1>9, <1>10, <2>1, PublishStores, Zenon
<1> HIDE DEF g
<1>12. /\ epoch' = [m \in Node |-> epoch'[m]] /\ written' = [m \in Node |-> written'[m]]
       /\ \A m \in Node : m # n => epoch'[m] = epoch[m] /\ written'[m] = written[m]
  BY <1>1, Zenon
<1> QED BY <1>1, <1>11, <1>12, Zenon

\* An insert into an epoch that opens.
LEMMA InsertStores ==
  ASSUME input \in Input, NEW columns \in Seq(Column), NEW n \in Node,
         epoch = [m \in Node |-> epoch[m]], written = [m \in Node |-> written[m]],
         NEW whole, Stored(epoch[n], written[n], columns, whole), Insert(n)
  PROVE  /\ \A any : Stored(epoch'[n], written'[n], columns, any)
         /\ epoch' = [m \in Node |-> epoch'[m]] /\ written' = [m \in Node |-> written'[m]]
         /\ \A m \in Node : m # n => epoch'[m] = epoch[m] /\ written'[m] = written[m]
         /\ UNCHANGED <<input, setting, loaded, damaged>>
<1> DEFINE e == epoch[n]
           g == GeometryOf(e.manifest)
           rows == RowsOf(e)
           Cells(line) == [name \in Names(g.columns) |->
                             line[CHOOSE i \in DOMAIN line : g.columns[i].name = name]]
<1>1. PICK line \in [DOMAIN g.columns -> input.cells] :
        /\ \A i \in DOMAIN line : Parses(g.columns[i].type, line[i])
        /\ StagingValid(g) /\ RowFits(g, Cells(line))
        /\ epoch' = [epoch EXCEPT ![n] = EpochOf(g, Append(rows, RowOf(g, Cells(line))))]
        /\ written' = [written EXCEPT ![n] = Append(written[n], Cells(line))]
  BY Zenon DEF Insert
<1>2. Opens(e) /\ UNCHANGED <<input, setting, loaded, damaged>>
  BY Zenon DEF Insert
<1>3. Layout(g) /\ g.columns = columns /\ Rows(g, written[n]) /\ Files(e, EpochOf(g, RowsFor(g, written[n])))
  BY Zenon DEF Stored
<1>4. /\ g = [columns |-> e.manifest.columns, key_bits |-> e.manifest.key_bits,
              slot_count |-> e.manifest.slot_count, bytes_per_slot |-> e.manifest.bytes_per_slot,
              record_bytes |-> e.manifest.record_bytes]
      /\ e.manifest.columns = columns
  <2>1. g = [columns |-> e.manifest.columns, key_bits |-> e.manifest.key_bits,
             slot_count |-> e.manifest.slot_count, bytes_per_slot |-> e.manifest.bytes_per_slot,
             record_bytes |-> e.manifest.record_bytes]
    BY Zenon DEF GeometryOf
  <2> HIDE DEF g, e
  <2>2. g.columns = e.manifest.columns
    BY <2>1
  <2> QED BY <1>3, <2>1, <2>2, Zenon
<1> DEFINE cells == Cells(line)
<1>5. Takeable(g.columns, cells)
  <2>1. Valid(g.columns) /\ g.columns \in Seq(Column)
    BY <1>3, Zenon DEF Layout, StagingValid
  <2> HIDE DEF g
  <2> QED BY <1>1, <2>1, InsertCells, Zenon
<1> HIDE DEF cells, g, e, rows
<1>6. rows = RowsFor(g, written[n])
  BY <1>2, <1>3, EpochReads, Zenon DEF rows
<1>7. RowFits(g, cells)
  BY <1>1, Zenon DEF cells
<1>8. /\ Rows(g, Append(written[n], cells))
      /\ RowsFor(g, Append(written[n], cells)) = Append(rows, RowOf(g, cells))
  BY <1>3, <1>5, <1>6, <1>7, RowsMore, Zenon
<1>9. /\ epoch' = [epoch EXCEPT ![n] = EpochOf(g, Append(rows, RowOf(g, cells)))]
      /\ written' = [written EXCEPT ![n] = Append(written[n], cells)]
  BY <1>1, Zenon DEF cells
<1> HIDE DEF Cells
<1>10. /\ epoch'[n] = EpochOf(g, RowsFor(g, written'[n])) /\ written'[n] = Append(written[n], cells)
  BY <1>8, <1>9, Zenon
<1>11. \A any : Stored(epoch'[n], written'[n], columns, any)
  <2> DEFINE m == e.manifest
             new == written'[n]
             to == epoch'[n]
  <2>1. g = [columns |-> columns, key_bits |-> m.key_bits, slot_count |-> m.slot_count,
             bytes_per_slot |-> m.bytes_per_slot, record_bytes |-> m.record_bytes]
    BY <1>4, Zenon
  <2>2. Rows(g, new) /\ to = EpochOf(g, RowsFor(g, new))
    BY <1>8, <1>10, Zenon
  <2> HIDE DEF m, new, to
  <2>3. \A any : Stored(to, new, columns, any)
    BY <1>3, <2>1, <2>2, PublishStores, Zenon
  <2> QED BY <2>3, Zenon DEF to, new
<1>12. /\ epoch' = [m \in Node |-> epoch'[m]] /\ written' = [m \in Node |-> written'[m]]
       /\ \A m \in Node : m # n => epoch'[m] = epoch[m] /\ written'[m] = written[m]
  BY <1>9, Zenon
<1> QED BY <1>2, <1>11, <1>12, Zenon

\* Damage to a file of an epoch that was whole.
LEMMA DamageStores ==
  ASSUME NEW columns, NEW n \in Node, epoch = [m \in Node |-> epoch[m]],
         NEW whole, whole, Stored(epoch[n], written[n], columns, whole), Damage(n)
  PROVE  /\ Stored(epoch'[n], written[n], columns, FALSE)
         /\ epoch' = [m \in Node |-> epoch'[m]]
         /\ \A m \in Node : m # n => epoch'[m] = epoch[m]
         /\ damaged' = TRUE /\ UNCHANGED <<input, setting, loaded, written>>
<1> DEFINE e == epoch[n]
           cells == written[n]
           g == GeometryOf(e.manifest)
           w == EpochOf(g, RowsFor(g, cells))
           new == epoch'[n]
<1>1. /\ damaged' = TRUE /\ UNCHANGED <<input, setting, loaded, written>>
      /\ \/ \E file \in Damages(e.match) : epoch' = [epoch EXCEPT ![n] = [e EXCEPT !.match = file]]
         \/ \E file \in Damages(e.payload) : epoch' = [epoch EXCEPT ![n] = [e EXCEPT !.payload = file]]
  BY Zenon DEF Damage
<1>2. /\ Layout(g) /\ g.columns = columns /\ Rows(g, cells)
      /\ DOMAIN e = {"match", "payload", "manifest"}
      /\ e.manifest = w.manifest /\ e.match = w.match /\ e.payload = w.payload
  BY Zenon DEF Stored, Files
<1>3. /\ epoch' = [m \in Node |-> epoch'[m]]
      /\ \A m \in Node : m # n => epoch'[m] = epoch[m]
      /\ \/ \E file \in Damages(e.match) : new = [e EXCEPT !.match = file]
         \/ \E file \in Damages(e.payload) : new = [e EXCEPT !.payload = file]
  <2> HIDE DEF e
  <2> QED BY <1>1, Zenon
<1>4. /\ DOMAIN new = {"match", "payload", "manifest"} /\ new.manifest = e.manifest
      /\ \/ new.match \in Damages(e.match) /\ new.payload = e.payload
         \/ new.match = e.match /\ new.payload \in Damages(e.payload)
  <2> HIDE DEF e, new
  <2>1. ASSUME NEW file \in Damages(e.match), new = [e EXCEPT !.match = file]
        PROVE  /\ DOMAIN new = {"match", "payload", "manifest"} /\ new.manifest = e.manifest
               /\ new.match = file /\ new.payload = e.payload
    BY <1>2, <2>1
  <2>2. ASSUME NEW file \in Damages(e.payload), new = [e EXCEPT !.payload = file]
        PROVE  /\ DOMAIN new = {"match", "payload", "manifest"} /\ new.manifest = e.manifest
               /\ new.match = e.match /\ new.payload = file
    BY <1>2, <2>2
  <2> QED BY <1>3, <2>1, <2>2, Zenon
<1>5. Files(new, w)
  <2> HIDE DEF new, e, w
  <2> QED BY <1>2, <1>4, Zenon DEF Files
<1>6. Stored(new, cells, columns, FALSE)
  <2>1. GeometryOf(new.manifest) = g
    BY <1>4, Zenon
  <2> HIDE DEF new, cells, g
  <2> QED BY <1>2, <1>4, <1>5, <2>1, Zenon DEF Stored, w
<1> HIDE DEF new, cells
<1> QED BY <1>1, <1>3, <1>6, Zenon DEF new, cells

-----------------------------------------------------------------------------
(* What is stored.                                                         *)

\* The inductive invariant: the configuration is the one that Load makes, and every epoch is
\* what was published for the cells of its rows under the columns of the statement, but
\* for damage.
RowsInv ==
  /\ loaded = Load(setting)
  /\ epoch = [n \in Node |-> epoch[n]] /\ written = [n \in Node |-> written[n]]
  /\ \A n \in Node : Loaded(n) =>
       /\ ParseCreateTable(input.ddl).ok
       /\ Stored(epoch[n], written[n], ParseCreateTable(input.ddl).columns, ~damaged)

\* A configuration that was loaded has a size of records.
LEMMA RecordBytesIs ==
  ASSUME IsLoadOptions(setting), loaded = Load(setting), loaded.ok
  PROVE  loaded.config["storage.record_bytes"] \in Nat
<1> DEFINE k == "storage.record_bytes"
<1>1. IsConfig(loaded.config)
  BY LoadTyped, Zenon
<1>2. k \in U32Keys /\ k \in Keys
  BY DEF U32Keys, Keys
<1>3. loaded.config[k] \in Integers32
  <2> HIDE DEF k
  <2> QED BY <1>1, <1>2, Zenon DEF IsConfig, Typed
<1>4. loaded.config[k] \in 0 .. U32Max
  BY <1>3, Zenon DEF Integers32
<1>5. \A x \in 0 .. U32Max : x \in Nat
  OBVIOUS
<1> QED BY <1>4, <1>5, Zenon

\* Loads, inserts, damage and reconfiguration keep RowsInv.
LEMMA RowsInvariance == Spec => []RowsInv
<1> DEFINE ddl == ParseCreateTable(input.ddl)
<1>1. Init => RowsInv
  <2> SUFFICES ASSUME Init PROVE RowsInv
    OBVIOUS
  <2>1. /\ loaded = Load(setting) /\ epoch = [n \in Node |-> NoEpoch] /\ written = [n \in Node |-> <<>>]
    BY Zenon DEF Init
  <2>2. \A n \in Node : ~ Loaded(n)
    BY <2>1, Zenon DEF Loaded
  <2>3. epoch = [n \in Node |-> epoch[n]] /\ written = [n \in Node |-> written[n]]
    BY <2>1, Zenon
  <2> QED BY <2>1, <2>2, <2>3, Zenon DEF RowsInv
<1>2. SettingInv /\ RowsInv /\ [Next]_vars => RowsInv'
  <2> SUFFICES ASSUME SettingInv, RowsInv, [Next]_vars PROVE RowsInv'
    OBVIOUS
  <2>0. /\ input \in Input /\ IsLoadOptions(setting) /\ loaded = Load(setting)
        /\ epoch = [n \in Node |-> epoch[n]] /\ written = [n \in Node |-> written[n]]
        /\ \A n \in Node : Loaded(n) => ddl.ok /\ Stored(epoch[n], written[n], ddl.columns, ~damaged)
    BY Zenon DEF SettingInv, RowsInv
  <2>1. ddl.ok => ddl.columns \in Seq(Column)
    <3>1. input.ddl \in Seq(STRING)
      BY <2>0, InputAssumption, Zenon
    <3> QED BY <3>1, Declares, Zenon
  \* A step that leaves the epochs as they are.
  <2>2. ASSUME UNCHANGED <<input, epoch, written, damaged>>, loaded' = Load(setting)'
        PROVE  RowsInv'
    BY <2>0, <2>2, Zenon DEF RowsInv, Loaded
  \* A step that changes the epoch of one node.
  <2>3. ASSUME NEW n \in Node, UNCHANGED <<input, setting, loaded>>, ddl.ok,
               Stored(epoch'[n], written'[n], ddl.columns, ~damaged'),
               epoch' = [m \in Node |-> epoch'[m]], written' = [m \in Node |-> written'[m]],
               \A m \in Node : m # n => epoch'[m] = epoch[m] /\ written'[m] = written[m],
               damaged' = damaged \/ damaged' = TRUE
        PROVE  RowsInv'
    <3>1. ASSUME NEW m \in Node, Loaded(m)', m # n
          PROVE  Stored(epoch'[m], written'[m], ddl.columns, ~damaged')
      <4>1. Stored(epoch[m], written[m], ddl.columns, ~damaged)
        BY <2>0, <2>3, <3>1, Zenon DEF Loaded
      <4>2. ~damaged' => ~damaged
        BY <2>3, Zenon
      <4>3. Stored(epoch[m], written[m], ddl.columns, ~damaged')
        BY <4>1, <4>2, StoredWhole, Zenon
      <4> QED BY <2>3, <3>1, <4>3, Zenon
    <3>2. ddl' = ddl /\ loaded' = Load(setting')
      BY <2>0, <2>3, Zenon
    <3>3. \A m \in Node : Loaded(m)' => Stored(epoch'[m], written'[m], ddl.columns, ~damaged')
      BY <2>3, <3>1, Zenon
    <3> QED BY <2>3, <3>2, <3>3, Zenon DEF RowsInv
  <2>4. CASE UNCHANGED vars
    <3>1. UNCHANGED <<input, epoch, written, damaged>> /\ loaded' = Load(setting)'
      BY <2>0, <2>4, Zenon DEF vars
    <3> QED BY <2>2, <3>1, Zenon
  <2>5. CASE Reconfigure \/ ConfigPrint
    <3>1. UNCHANGED <<input, epoch, written, damaged>> /\ loaded' = Load(setting)'
      BY <2>5, Zenon DEF Reconfigure, ConfigPrint
    <3> QED BY <2>2, <3>1, Zenon
  <2>6. \A n \in input.nodes : n \in Node
    BY <2>0, InputAssumption, Zenon
  <2>7. ASSUME NEW n \in Node, LoadCommand(n) PROVE RowsInv'
    <3>1. loaded.ok /\ ddl.ok /\ CsvParses(ddl.columns)
      BY <2>7, Zenon DEF LoadCommand
    <3>2. PICK lines, nodes : PublishLines(n, GeometryFrom(loaded.config, ddl.columns), lines, nodes)
      BY <2>7, Zenon DEF LoadCommand
    <3>3. loaded.config["storage.record_bytes"] \in Nat
      BY <2>0, <3>1, RecordBytesIs, Zenon
    <3>4. ddl.columns \in Seq(Column)
      BY <2>1, <3>1, Zenon
    <3> HIDE DEF ddl
    <3>5. /\ \A whole : Stored(epoch'[n], written'[n], ddl.columns, whole)
          /\ epoch' = [m \in Node |-> epoch'[m]] /\ written' = [m \in Node |-> written'[m]]
          /\ \A m \in Node : m # n => epoch'[m] = epoch[m] /\ written'[m] = written[m]
          /\ UNCHANGED <<input, setting, loaded, damaged>>
      BY <2>0, <3>1, <3>2, <3>3, <3>4, LinesStore, Zenon
    <3> QED BY <2>3, <3>1, <3>5, Zenon
  <2>8. ASSUME NEW n \in Node, Insert(n) PROVE RowsInv'
    <3>1. ddl.ok /\ Stored(epoch[n], written[n], ddl.columns, ~damaged)
      BY <2>0, <2>8, Zenon DEF Insert
    <3>2. ddl.columns \in Seq(Column)
      BY <2>1, <3>1, Zenon
    <3> HIDE DEF ddl
    <3>3. /\ \A any : Stored(epoch'[n], written'[n], ddl.columns, any)
          /\ epoch' = [m \in Node |-> epoch'[m]] /\ written' = [m \in Node |-> written'[m]]
          /\ \A m \in Node : m # n => epoch'[m] = epoch[m] /\ written'[m] = written[m]
          /\ UNCHANGED <<input, setting, loaded, damaged>>
      BY <2>0, <2>8, <3>1, <3>2, InsertStores, Zenon
    <3> QED BY <2>3, <3>1, <3>3, Zenon
  <2>9. ASSUME NEW n \in Node, Damage(n) PROVE RowsInv'
    <3>1. ddl.ok /\ Stored(epoch[n], written[n], ddl.columns, ~damaged) /\ ~damaged
      BY <2>0, <2>9, Zenon DEF Damage
    <3> HIDE DEF ddl
    <3>2. /\ Stored(epoch'[n], written[n], ddl.columns, FALSE)
          /\ epoch' = [m \in Node |-> epoch'[m]]
          /\ \A m \in Node : m # n => epoch'[m] = epoch[m]
          /\ damaged' = TRUE /\ UNCHANGED <<input, setting, loaded, written>>
      BY <2>0, <2>9, <3>1, DamageStores, Zenon
    <3>3. Stored(epoch'[n], written'[n], ddl.columns, ~damaged')
      BY <3>2, StoredWhole, Zenon
    <3>4. written' = [m \in Node |-> written'[m]] /\ \A m \in Node : written'[m] = written[m]
      BY <2>0, <3>2, Zenon
    <3> QED BY <2>3, <3>1, <3>2, <3>3, <3>4, Zenon
  <2> QED BY <2>4, <2>5, <2>6, <2>7, <2>8, <2>9, Zenon DEF Next
<1> QED BY <1>1, <1>2, SettingInvariance, PTL DEF Spec

\* What a reader of an epoch that opens sees of it.
Reads(n, columns) ==
  LET rows == RowsOf(epoch[n])
      g == GeometryOf(epoch[n].manifest)
  IN  /\ Len(rows) = Len(written[n]) /\ DOMAIN rows = 1 .. Len(written[n])
      /\ epoch[n].manifest.columns = columns /\ g.columns = columns
      /\ g.key_bits = epoch[n].manifest.key_bits
      /\ \A r \in DOMAIN rows : Takeable(columns, written[n][r]) /\ Holds(g, written[n][r], rows[r])

\* An epoch that opens shows the rows that were written.
LEMMA ReaderReads ==
  ASSUME RowsInv, NEW n \in Readers
  PROVE  ParseCreateTable(input.ddl).ok /\ Reads(n, ParseCreateTable(input.ddl).columns)
<1> DEFINE columns == ParseCreateTable(input.ddl).columns
           e == epoch[n]
           cells == written[n]
           g == GeometryOf(e.manifest)
           rows == RowsOf(e)
           L == Len(cells)
<1>1. ParseCreateTable(input.ddl).ok /\ Stored(e, cells, columns, ~damaged) /\ Opens(e)
  BY Zenon DEF RowsInv, Readers
<1>2. Layout(g) /\ g.columns = columns /\ Rows(g, cells) /\ Files(e, EpochOf(g, RowsFor(g, cells)))
  BY <1>1, Zenon DEF Stored
<1>3. e.manifest.columns = g.columns /\ g.key_bits = e.manifest.key_bits
  <2>1. g = [columns |-> e.manifest.columns, key_bits |-> e.manifest.key_bits,
             slot_count |-> e.manifest.slot_count, bytes_per_slot |-> e.manifest.bytes_per_slot,
             record_bytes |-> e.manifest.record_bytes]
    BY Zenon DEF GeometryOf
  <2> HIDE DEF g, e
  <2> QED BY <2>1
<1> HIDE DEF columns, e, cells, g
<1>4. rows = RowsFor(g, cells)
  BY <1>1, <1>2, EpochReads, Zenon
<1>5. L \in Nat /\ DOMAIN cells = 1 .. L
      /\ \A r \in 1 .. L : Takeable(g.columns, cells[r]) /\ RowFits(g, cells[r])
  BY <1>2, Zenon DEF Rows
<1>6. rows \in [1 .. L -> {RowOf(g, cells[r]) : r \in 1 .. L}] /\ DOMAIN rows = 1 .. L
      /\ \A r \in 1 .. L : rows[r] = RowOf(g, cells[r])
  BY <1>4, <1>5, Zenon DEF RowsFor
<1> HIDE DEF rows, L
<1>7. Len(rows) = L
  BY <1>5, <1>6, FunctionIsSeq, Zenon
<1>8. ASSUME NEW r \in 1 .. L PROVE Takeable(columns, cells[r]) /\ Holds(g, cells[r], rows[r])
  <2>1. Holds(g, cells[r], RowOf(g, cells[r]))
    BY <1>2, <1>5, RowIs, Zenon
  <2> QED BY <1>2, <1>5, <1>6, <2>1, Zenon
<1>9. Reads(n, columns)
  BY <1>2, <1>3, <1>6, <1>7, <1>8, Zenon DEF Reads, e, g, cells, rows, L
<1> QED BY <1>1, <1>9, Zenon DEF columns

\* For schemas, rows, layouts and files of any size: what the client decodes of an epoch
\* that opens is what was loaded or inserted, whatever was reconfigured in between and
\* whichever segment file was cut, lengthened or changed once.
THEOREM RecordsDecode == Spec => []DecodesToWritten
<1>1. RowsInv => DecodesToWritten
  <2> SUFFICES ASSUME RowsInv, NEW n \in Readers
               PROVE  /\ Len(RowsOf(epoch[n])) = Len(written[n])
                      /\ \A r \in DOMAIN RowsOf(epoch[n]) :
                           LET decoded == DecodeRecord(epoch[n].manifest.columns, RowsOf(epoch[n])[r].payload)
                           IN  /\ decoded.ok
                               /\ decoded.values = PayloadOf(epoch[n].manifest.columns, written[n][r])
    BY Zenon DEF DecodesToWritten
  <2> DEFINE columns == ParseCreateTable(input.ddl).columns
  <2>1. Reads(n, columns)
    BY ReaderReads, Zenon
  <2> HIDE DEF columns
  <2> QED BY <2>1, Zenon DEF Reads, Holds
<1> QED BY <1>1, RowsInvariance, PTL

\* For schemas, keys and records of any width: at the place of the column that a query
\* searches, the match record has the key of what was written in it.
THEOREM KeysAreFound == Spec => []SearchesWritten
<1>1. SettingInv /\ RowsInv => SearchesWritten
  <2> DEFINE Found(n, r, d, i) ==
               LET m == epoch[n].manifest
                   width == MatchRecordBytes(m.key_bits)
                   at == width * SearchableRank(m.columns, i)
               IN  /\ m.columns[i].name = input.ddl[d] /\ IsSearchable(m.columns[i])
                   /\ Number(SubSeq(RowsOf(epoch[n])[r].match, at + 1, at + width)) % Pow2[m.key_bits]
                        = KeyValue(ParseValue(m.columns[i].type, written[n][r][input.ddl[d]]), m.key_bits)
  <2>0. SearchesWritten <=> \A n \in Readers : \A r \in DOMAIN RowsOf(epoch[n]) : \A d \in Declared :
                              \E i \in DOMAIN epoch[n].manifest.columns : Found(n, r, d, i)
    BY Zenon DEF SearchesWritten
  <2> SUFFICES ASSUME SettingInv, RowsInv, NEW n \in Readers, NEW r \in DOMAIN RowsOf(epoch[n]),
                      NEW d \in Declared
               PROVE  \E i \in DOMAIN epoch[n].manifest.columns : Found(n, r, d, i)
    <3> HIDE DEF Found
    <3> QED BY <2>0, Zenon
  <2> DEFINE columns == ParseCreateTable(input.ddl).columns
             g == GeometryOf(epoch[n].manifest)
             cells == written[n][r]
             row == RowsOf(epoch[n])[r]
             bits == epoch[n].manifest.key_bits
             tokens == input.ddl
  <2>1. ParseCreateTable(input.ddl).ok /\ Reads(n, columns)
    BY ReaderReads, Zenon
  <2>2. tokens \in Seq(STRING)
    BY InputAssumption, Zenon DEF SettingInv
  <2>3. columns \in Seq(Column)
    BY <2>1, <2>2, Declares, Zenon
  <2>4. HasColumn(columns, tokens[d])
    <3>1. d \in 1 .. Len(tokens) - 2 /\ tokens[d + 2] \in {"KEY", "INDEX"}
      BY Zenon DEF Declared
    <3> HIDE DEF tokens
    <3>2. d \in Nat /\ d >= 1 /\ d + 2 <= Len(tokens)
      BY <2>2, <3>1
    <3> QED BY <2>1, <2>2, <3>1, <3>2, Declares, Zenon DEF tokens
  <2>5. /\ epoch[n].manifest.columns = columns /\ g.columns = columns /\ g.key_bits = bits
        /\ Takeable(columns, cells) /\ Holds(g, cells, row)
    BY <2>1, Zenon DEF Reads
  <2> HIDE DEF columns
  <2>6. PICK i \in 1 .. Len(columns) : columns[i].name = tokens[d] /\ IsSearchable(columns[i])
    BY <2>4, Zenon DEF HasColumn
  <2>7. DOMAIN columns = 1 .. Len(columns)
    BY <2>3
  <2>8. ValuesOf(columns, cells)[i] = ParseValue(columns[i].type, cells[tokens[d]])
    BY <2>3, <2>5, <2>6, ValuesTyped, Zenon
  <2>9. KeysAtRanks(columns, ValuesOf(columns, cells), bits, row.match)
    BY <2>5, Zenon DEF Holds
  <2> DEFINE width == MatchRecordBytes(bits)
             at == width * SearchableRank(columns, i)
  <2>10. Number(SubSeq(row.match, at + 1, at + width)) % Pow2[bits]
           = KeyValue(ParseValue(columns[i].type, cells[tokens[d]]), bits)
    BY <2>6, <2>8, <2>9, Zenon DEF KeysAtRanks
  <2>11. Found(n, r, d, i)
    BY <2>5, <2>6, <2>10, Zenon
  <2> HIDE DEF Found
  <2> QED BY <2>5, <2>6, <2>7, <2>11, Zenon
<1> QED BY <1>1, SettingInvariance, RowsInvariance, PTL
=============================================================================
