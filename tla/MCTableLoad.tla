---------------------------- MODULE MCTableLoad ----------------------------
(* Instances of TableLoad for TLC.                                         *)
EXTENDS TableLoad, TLC

PieceDef == STRING
NumeralDef ==
  "-1" :> -1 @@ "0" :> 0 @@ "1" :> 1 @@ "2" :> 2 @@ "4" :> 4 @@ "5" :> 5 @@ "7" :> 7
  @@ "16" :> 16 @@ "20" :> 20 @@ "49" :> 49 @@ "60" :> 60 @@ "61" :> 61 @@ "64" :> 64
  @@ "128" :> 128 @@ "1000" :> 1000 @@ "1024" :> 1024 @@ "2000" :> 2000 @@ "16384" :> 16384
  @@ "65536" :> 65536 @@ "67108864" :> 67108864
  @@ "u32max+1" :> 134217728 @@ "i64max+1" :> 268435456 @@ "i64min" :> -268435456

-----------------------------------------------------------------------------
(* Configurations.                                                         *)

Empty == [k \in {} |-> EmptyText]
File(nodes) == [bad |-> FALSE, nodes |-> nodes]
Options(file, env, flags) == [file |-> file, optional |-> FALSE, env |-> env, flags |-> flags]

\* Keys of the given width and records of the given size, in the file.
Sizes(bits, bytes) ==
  Options(File("crypto.key_bits" :> Scalar(<<bits>>) @@ "storage.record_bytes" :> Scalar(<<bytes>>)),
          Empty, Empty)

\* Texts of every form: absent, one piece, several, numbers at the limits, words.
Texts ==
  {EmptyText, <<"a">>, <<"a", "b">>, <<"", "a">>, <<"yes">>, <<"off">>, <<"mtls">>, <<"none">>,
   <<"text">>, <<"debug">>, <<"60", "60", "49">>, <<"60", "61">>}
  \cup {<<p>> : p \in DOMAIN NumeralDef}

\* One key in one layer; one of the keys is not known.
OneKey ==
  LET keys == Keys \cup {"server.bogus"} IN
  {Options(File(k :> Scalar(t)), Empty, Empty) : k \in keys, t \in Texts}
  \cup {Options(File(Empty), k :> t, Empty) : k \in keys, t \in Texts}
  \cup {Options(File(Empty), Empty, k :> t) : k \in keys, t \in Texts}

\* Arrays in the file, under the environment and flags; a file that is bad.
Arrays ==
  {Options(File(k :> node), env, flags) :
     k \in TextListKeys \cup {"node.id"},
     node \in {<<>>, <<EmptyText>>, <<<<"a">>, <<"b">>>>, <<<<"a", "b">>, EmptyText>>},
     env \in {Empty, "auth.admin_identities" :> <<"", "">>},
     flags \in {Empty, "auth.admin_identities" :> <<"c">>}}
  \cup {[Options([bad |-> TRUE, nodes |-> Empty], Empty, Empty) EXCEPT !.optional = o] : o \in BOOLEAN}

\* The switches of TLS and authentication together.
Switches ==
  {Options(File([k \in on |-> Scalar(IF k \in BoolKeys THEN <<"true">> ELSE <<"a">>)]),
           "auth.mode" :> mode, Empty) :
     on \in SUBSET {"cluster.enabled", "cluster.allow_insecure", "cluster.tls_cert",
                    "cluster.tls_key", "server.tls_cert", "server.tls_key", "auth.ca_cert"},
     mode \in {<<"token">>, <<"mtls">>}}

-----------------------------------------------------------------------------
(* Inputs.                                                                 *)

Cell(int, real, json, text) == [int |-> int, real |-> real, json |-> json, text |-> text]

\* Numbers at the ends of what an integer and a key hold, and texts that fill their
\* length field, or more.
Cells ==
  {Cell(0, 0, TRUE, <<>>), Cell(3, 3, TRUE, <<3>>), Cell(-1, 15, FALSE, <<0, 1>>),
   Cell(7, 7, TRUE, <<1, 3, 0>>), Cell(None, None, FALSE, <<1, 1, 1, 1>>)}

Inserted == {Cell(3, 3, TRUE, <<3>>), Cell(-1, 15, FALSE, <<0, 1>>), Cell(7, 7, TRUE, <<1, 3, 0>>)}

Ordinary(n) == Cell(n, n, TRUE, <<n>>)

Table(columns) == <<"CREATE", "TABLE", "t", "(">> \o columns \o <<")">>

\* The key first, in the middle or last, before and after index and plain columns;
\* then statements and schemas that are refused.
Good ==
  {Table(<<"k", "int", "KEY", ",", "a", "text", ",", "b", "int", "INDEX">>),
   Table(<<"a", "text", "INDEX", ",", "k", "text", "KEY", ",", "b", "real">>),
   Table(<<"a", "int", ",", "b", "json", ",", "k", "int", "KEY">>),
   Table(<<"b", "int", ",", "a", "int", "INDEX", ",", "k", "text", "KEY">>),
   Table(<<"k", "int", "KEY">>)}
Refused ==
  {Table(<<"k", "int", "KEY", "INDEX">>), Table(<<"k", "int", "KEY", ",">>),
   Table(<<"k", "int", "KEY", ",", "a", "int", "KEY">>), Table(<<"k", "json", "KEY">>),
   Table(<<"k", "int">>), Table(<<"k", "int", "KEY", ",", "k", "int">>),
   Table(<<"KEY", "int", "KEY">>), <<"CREATE", "TABLE">>}

Headers == {<<"k", "a", "b">>, <<"b", "k", "a">>}

OneRing == [p \in Node \X Virtual |-> p[1] - 1]

\* One line of every kind of cell; then rows are inserted under either of two sizes.
Codec ==
  {[nodes |-> {1}, ddl |-> ddl, header |-> header, lines |-> <<line>>, cells |-> Inserted, hash |-> OneRing,
    lists |-> {}, settings |-> {Sizes("2", "5"), Sizes("4", "7")}, prints |-> FALSE, faulty |-> FALSE] :
     ddl \in Good, header \in Headers, line \in [1 .. 3 -> Cells]}
  \cup
  {[nodes |-> {1}, ddl |-> ddl, header |-> <<"k", "a", "b">>,
    lines |-> <<<<Ordinary(0), Ordinary(1), Ordinary(2)>>>>, cells |-> {}, hash |-> OneRing,
    lists |-> {}, settings |-> {Sizes("2", "5")}, prints |-> FALSE, faulty |-> FALSE] : ddl \in Refused}

Three == [l \in 1 .. 3 |-> <<Ordinary(l - 1), Ordinary(3 - l), Ordinary(1)>>]

Simple == Table(<<"k", "int", "KEY", ",", "a", "text", ",", "b", "int", "INDEX">>)

\* Every ring of three nodes with two points each, collisions included (the virtual
\* nodes of a node are interchangeable); then a list without nodes.
Sharded ==
  {[nodes |-> Node, ddl |-> Simple, header |-> <<"k", "a", "b">>, lines |-> Three, cells |-> {}, hash |-> hash,
    lists |-> {<<1, 2, 3>>, <<3, 1, 2, 1>>, <<2, 1>>, <<1, 2>>},
    settings |-> {Sizes("2", "5")}, prints |-> FALSE, faulty |-> FALSE] :
     hash \in {h \in [Node \X Virtual -> 0 .. RingSize - 1] :
                 \A n \in Node : h[<<n, 0>>] <= h[<<n, 1>>]}}
  \cup
  {[nodes |-> Node, ddl |-> Simple, header |-> <<"k", "a", "b">>, lines |-> Three, cells |-> {},
    hash |-> OneRing, lists |-> {<<>>, <<2>>}, settings |-> {Sizes("2", "5")}, prints |-> FALSE,
    faulty |-> FALSE]}

\* Damaged files of no, one and three rows.
Damaged ==
  {[nodes |-> {1}, ddl |-> Simple, header |-> <<"k", "a", "b">>, lines |-> lines, cells |-> {Ordinary(1)},
    hash |-> OneRing, lists |-> {}, settings |-> {Sizes("2", "5")}, prints |-> FALSE, faulty |-> TRUE] :
     lines \in {<<>>, <<Three[1]>>, Three}}

Configured ==
  {[nodes |-> {}, ddl |-> <<>>, header |-> <<>>, lines |-> <<>>, cells |-> {}, hash |-> OneRing, lists |-> {},
    settings |-> {s}, prints |-> TRUE, faulty |-> FALSE] : s \in OneKey \cup Arrays \cup Switches}

Inputs == Codec \cup Sharded \cup Damaged \cup Configured
=============================================================================
