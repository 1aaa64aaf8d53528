------------------------------- MODULE MCSql -------------------------------
(* Texts and instances for SqlQuery.                                       *)
EXTENDS SqlQuery

L(type, x) == [type |-> type, text |-> x, glued |-> FALSE]
K(type) == L(type, type)
Id(x) == L("id", x)
Num(n) == L("number", n)
Str(x) == L("string", x)
Par(x) == L("param", <<x>>)

\* Terms on the INT key, a TEXT index and a payload column.
Atoms ==
  {<<Id("k"), K(op), v>> : op \in {"eq", "ne"}, v \in {Num(1), Num(2), Par("p")}}
  \cup {<<Id("j"), K("eq"), Str("a")>>, <<Id("j"), K("ne"), Str("b")>>,
        <<Id("j"), K("eq"), Num(1)>>, <<Id("a"), K("eq"), Num(1)>>,
        <<Id("k"), K("lt"), Num(1)>>, <<Id("j"), K("like"), Str("a")>>,
        <<Id("k"), K("eq"), Num(6)>>, <<Id("k"), K("eq"), Num(9)>>,
        <<Id("k"), K("in"), K("lparen"), Num(1), K("comma"), Num(3), K("rparen")>>,
        <<Id("j"), K("in"), K("lparen"), Str("a"), K("comma"), Str("b"), K("rparen")>>,
        <<Id("k"), K("in"), K("lparen"), Par("p"), K("comma"), Num(1), K("rparen")>>,
        <<Id("k"), K("in"), K("lparen"), Num(1), K("comma"), K("rparen")>>,
        <<Id("k"), K("between"), Num(1), K("and"), Num(2)>>,
        <<Id("k"), Num(1)>>, <<>>}

Head1 == <<K("select"), Id("a"), K("from"), Id("t")>>
Heads ==
  {Head1, <<K("select"), K("star"), K("from"), Id("t")>>,
   <<K("select"), K("distinct"), Id("a"), K("as"), Id("x"), K("comma"), Id("j"), K("from"), Id("t")>>,
   <<K("select"), K("count"), K("lparen"), K("star"), K("rparen"), K("from"), Id("t")>>,
   <<K("select"), K("distinct"), K("count"), K("lparen"), K("star"), K("rparen"), K("from"), Id("t")>>,
   <<K("select"), Id("a"), K("comma"), Id("a"), K("from"), Id("t")>>,
   <<K("select"), Id("k"), K("from"), Id("t")>>, <<K("select"), Id("a"), K("from"), Id("u")>>,
   <<K("select"), Id("a"), Id("t")>>, <<K("select"), Id("a"), K("from")>>}

Tails ==
  {<<>>, <<K("limit"), Num(2)>>, <<K("limit"), Num(9), K("offset"), Num(0)>>,
   <<K("limit"), Num(0)>>, <<K("offset"), Num(1), K("limit"), Num(2)>>,
   <<K("offset"), Num(16)>>, <<K("order"), K("by"), Id("a"), K("desc"), K("limit"), Num(2)>>,
   <<K("order"), Id("a")>>, <<K("limit"), Par("p")>>}

Where1 == {<<K("where")>> \o t : t \in Atoms}
Where2 == {w \o <<K(c)>> \o t : w \in Where1, c \in {"and", "or"}, t \in Atoms}
Where3 == {w \o <<K("or")>> \o t : w \in Where2, t \in Atoms}

\* The text with no blank behind a literal.
Glued(x) ==
  [i \in DOMAIN x |-> IF x[i].type \in {"number", "string"} THEN [x[i] EXCEPT !.glued = TRUE]
                      ELSE x[i]]

\* Every clause with every other, and one to three terms; blanks behind literals or none.
AllTexts ==
  {h \o w \o t : h \in Heads, w \in Where1 \cup {<<>>}, t \in Tails}
  \cup {Head1 \o w \o t : w \in Where2, t \in {<<>>, <<K("limit"), Num(2)>>}}
  \cup {Head1 \o w : w \in Where3}
  \cup {Glued(Head1 \o w \o t) : w \in Where1, t \in Tails}
  \cup {Glued(Head1 \o w \o t) : w \in Where2, t \in {<<>>, <<K("limit"), Num(2)>>}}

WeatherSchema ==
  [table |-> "t", columns |-> <<[name |-> "k", type |-> "int", encoding |-> "key"],
                                [name |-> "j", type |-> "text", encoding |-> "index"],
                                [name |-> "a", type |-> "int", encoding |-> "raw"]>>]

Registry == <<[name |-> "mock", ops |-> {"eq"}, private |-> FALSE],
              [name |-> "reference", ops |-> {"eq", "ne"}, private |-> TRUE]>>

HashApart == [x \in Strings |-> IF x = "a" THEN 4 ELSE 5]
HashMeets == [x \in Strings |-> 4]
=============================================================================
