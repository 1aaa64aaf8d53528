-------------------------------- MODULE Sql --------------------------------
(***************************************************************************)
(* The SQL subset as pure operators: tokens, the parser (sql/parser.cpp),  *)
(* the client's preparation of a statement (PrepareClientQuery), the       *)
(* logical plan (sql/logical_plan.cpp) and the planner                     *)
(* (planner/planner.cpp).                                                  *)
(*                                                                         *)
(* A text is a sequence of lexemes; a lexeme says whether a blank separates*)
(* it from the next one, all the layout that matters.  Names are model     *)
(* strings, and the name of a parameter is the sequence of words it is     *)
(* written with.  The bytes of a text are counted as if every word and     *)
(* sign were one byte; the length limit of names is left out.              *)
(***************************************************************************)
EXTENDS Integers, Sequences, FiniteSets, SequencesExt

CONSTANTS
  IntMax,       \* largest std::int64_t
  CountMax,     \* largest std::uint64_t
  MaxSqlLength, \* kMaxSqlLength
  MaxTokens,    \* kMaxTokens
  MaxOperands,  \* kMaxOperands
  Backends      \* the registry, in order: [name, ops, private]

ASSUME SqlAssumption ==
  /\ IntMax \in Nat /\ CountMax \in Nat /\ IntMax < CountMax
  /\ MaxSqlLength \in Nat /\ MaxTokens \in Nat /\ MaxOperands \in Nat \ {0}

Unset == -1  \* an optional count that is not given

CompareOp == {"eq", "ne", "lt", "le", "gt", "ge"}
Keyword == {"select", "distinct", "count", "from", "where", "and", "or", "in",
            "like", "between", "order", "by", "asc", "desc", "limit", "offset", "as"}
Word == Keyword \cup {"id", "number"}

-----------------------------------------------------------------------------
(* Tokens.                                                                 *)

\* A parameter's name runs on into a word that follows without a blank.
RECURSIVE Merged(_)
Merged(text) ==
  IF Len(text) < 2 THEN text
  ELSE IF text[1].type = "param" /\ text[1].glued /\ text[2].type \in Word
    THEN Merged(<<[type |-> "param", text |-> Append(text[1].text, text[2].text),
                   glued |-> text[2].glued]>> \o SubSeq(text, 3, Len(text)))
    ELSE <<text[1]>> \o Merged(Tail(text))

\* The bytes of a text: ':' and a name, digits, quotes around a text of one letter, and
\* the blanks.
Bytes(x) ==
  (CASE x.type = "param" -> 1 + Len(x.text)
     [] x.type = "number" -> IF x.text < 10 THEN 1 ELSE 2
     [] x.type = "string" -> 3
     [] OTHER -> 1) + (IF x.glued THEN 0 ELSE 1)
Length(text) == FoldLeft(LAMBDA sum, x : sum + Bytes(x), 0, text)

\* Tokenize: the tokens and a last one of type "end", or none.
Tokenize(text) ==
  LET tokens == Append(Merged(text), [type |-> "end", text |-> "", glued |-> FALSE])
  IN  IF Length(text) <= MaxSqlLength /\ Len(tokens) <= MaxTokens THEN tokens ELSE <<>>

-----------------------------------------------------------------------------
(* The parser: every operator returns where it stopped and what it read.   *)

Bad == [ok |-> FALSE]
Read(at, node) == [ok |-> TRUE, at |-> at, node |-> node]
Is(ts, p, type) == ts[p].type = type
Starts(ts, p, types) ==
  /\ p + Len(types) - 1 <= Len(ts)
  /\ \A i \in 1 .. Len(types) : Is(ts, p + i - 1, types[i])

\* item (sep item)*
RECURSIVE ParseList(_, _, _, _)
ParseList(Item(_, _), sep, ts, p) ==
  LET first == Item(ts, p)
      rest == ParseList(Item, sep, ts, first.at + 1)
  IN  IF ~first.ok THEN Bad
      ELSE IF ~Is(ts, first.at, sep) THEN Read(first.at, <<first.node>>)
      ELSE IF rest.ok THEN Read(rest.at, <<first.node>> \o rest.node) ELSE Bad

\* A bound parameter, or a literal: a number must fit in 64 bits, signed.
ParseParameter(ts, p) ==
  LET t == ts[p] IN
  IF \/ t.type \in {"param", "string"}
     \/ t.type = "number" /\ t.text <= IntMax
    THEN Read(p + 1, [kind |-> t.type, v |-> t.text])
    ELSE Bad

ParseIn(column, ts, p) ==
  LET list == ParseList(ParseParameter, "comma", ts, p + 1)
  IN  IF Is(ts, p, "lparen") /\ list.ok /\ Is(ts, list.at, "rparen")
        THEN Read(list.at + 1, [kind |-> "in", column |-> column, params |-> list.node])
        ELSE Bad

ParseBetween(column, ts, p) ==
  LET low == ParseParameter(ts, p)
      high == ParseParameter(ts, low.at + 1)
  IN  IF low.ok /\ Is(ts, low.at, "and") /\ high.ok
        THEN Read(high.at, [kind |-> "between", column |-> column,
                            params |-> <<low.node, high.node>>])
        ELSE Bad

\* column and an operator with its parameters.
ParseComparison(ts, p) ==
  IF ~Is(ts, p, "id") THEN Bad
  ELSE LET column == ts[p].text
           op == ts[p + 1].type
           param == ParseParameter(ts, p + 2)
       IN  CASE op = "in" -> ParseIn(column, ts, p + 2)
             [] op = "between" -> ParseBetween(column, ts, p + 2)
             [] op \in CompareOp \cup {"like"} ->
                  IF param.ok
                    THEN Read(param.at, [kind |-> op, column |-> column,
                                         params |-> <<param.node>>])
                    ELSE Bad
             [] OTHER -> Bad

\* A list of one term is the term itself.
Joined(kind, list) ==
  IF ~list.ok THEN Bad
  ELSE IF Len(list.node) = 1 THEN Read(list.at, list.node[1])
  ELSE Read(list.at, [kind |-> kind, terms |-> list.node])

ParseOrTerm(ts, p) == Joined("and", ParseList(ParseComparison, "and", ts, p))
ParsePredicate(ts, p) == Joined("or", ParseList(ParseOrTerm, "or", ts, p))

ParseColumn(ts, p) ==
  LET aliased == Is(ts, p, "id") /\ Is(ts, p + 1, "as")
  IN  IF ~Is(ts, p, "id") \/ (aliased /\ ~Is(ts, p + 2, "id")) THEN Bad
      ELSE Read(IF aliased THEN p + 3 ELSE p + 1,
                [name |-> ts[p].text, alias |-> ts[IF aliased THEN p + 2 ELSE p].text])

ParseOrderItem(ts, p) ==
  IF ~Is(ts, p, "id") THEN Bad
  ELSE LET way == ts[p + 1].type
       IN  Read(IF way \in {"asc", "desc"} THEN p + 2 ELSE p + 1,
                [column |-> ts[p].text, descending |-> way = "desc"])

\* The clauses of ParseStatement.
SelectClause(ts) ==
  LET distinct == Is(ts, 1, "select") /\ Is(ts, 2, "distinct") IN
  IF ~Is(ts, 1, "select") THEN Bad
  ELSE Read(IF distinct THEN 3 ELSE 2,
            [distinct |-> distinct, count |-> FALSE, all |-> FALSE, columns |-> <<>>,
             table |-> "", where |-> [kind |-> "none"], order |-> <<>>,
             limit |-> Unset, offset |-> Unset])

Projection(s, ts) ==
  LET columns == ParseList(ParseColumn, "comma", ts, s.at) IN
  CASE Is(ts, s.at, "count") ->
         IF ~s.node.distinct /\ Starts(ts, s.at + 1, <<"lparen", "star", "rparen">>)
           THEN Read(s.at + 4, [s.node EXCEPT !.count = TRUE])
           ELSE Bad
    [] Is(ts, s.at, "star") -> Read(s.at + 1, [s.node EXCEPT !.all = TRUE])
    [] OTHER -> IF columns.ok THEN Read(columns.at, [s.node EXCEPT !.columns = columns.node])
                ELSE Bad

FromClause(s, ts) ==
  IF Starts(ts, s.at, <<"from", "id">>)
    THEN Read(s.at + 2, [s.node EXCEPT !.table = ts[s.at + 1].text])
    ELSE Bad

WhereClause(s, ts) ==
  LET where == ParsePredicate(ts, s.at + 1)
  IN  IF where.ok THEN Read(where.at, [s.node EXCEPT !.where = where.node]) ELSE Bad

OrderClause(s, ts) ==
  LET items == ParseList(ParseOrderItem, "comma", ts, s.at + 2)
  IN  IF Is(ts, s.at + 1, "by") /\ items.ok
        THEN Read(items.at, [s.node EXCEPT !.order = items.node]) ELSE Bad

\* LIMIT n, n at least 1; OFFSET n.
CountClause(s, ts, what, least) ==
  IF Is(ts, s.at + 1, "number") /\ ts[s.at + 1].text \in least .. CountMax
    THEN Read(s.at + 2, [s.node EXCEPT ![what] = ts[s.at + 1].text]) ELSE Bad

\* A clause read behind s; all but the first two may be left out.
Clause(what, s, ts) ==
  CASE ~s.ok -> Bad
    [] s.ok /\ what = "columns" -> Projection(s, ts)
    [] s.ok /\ what = "from" -> FromClause(s, ts)
    [] s.ok /\ what \notin {"columns", "from"} ->
         CASE ~Is(ts, s.at, what) -> s
           [] Is(ts, s.at, what) /\ what = "where" -> WhereClause(s, ts)
           [] Is(ts, s.at, what) /\ what = "order" -> OrderClause(s, ts)
           [] Is(ts, s.at, what) /\ what = "limit" -> CountClause(s, ts, what, 1)
           [] Is(ts, s.at, what) /\ what = "offset" -> CountClause(s, ts, what, 0)

\* Parse: the clauses in their order, and the statement is all of the text.
Parse(text) ==
  LET ts == Tokenize(text)
      s == FoldLeft(LAMBDA read, what : Clause(what, read, ts), SelectClause(ts),
                    <<"columns", "from", "where", "order", "limit", "offset">>)
  IN  IF ts # <<>> /\ s.ok /\ Is(ts, s.at, "end") THEN s ELSE Bad

-----------------------------------------------------------------------------
(* PrepareClientQuery.                                                     *)

\* Mutant of Literals: a LIMIT or OFFSET number is taken for a value.
LiteralsOfAll(text) == {i \in DOMAIN text : text[i].type \in {"string", "number"}}

\* Every literal but the number after LIMIT or OFFSET.
Literals(text) ==
  {i \in DOMAIN text :
     /\ text[i].type \in {"string", "number"}
     /\ ~(i > 1 /\ text[i].type = "number" /\ text[i - 1].type \in {"limit", "offset"})}

\* The text with :v, or :v0, :v1, ..., over its literals.
Template(text) ==
  LET lits == Literals(text)
      name(i) == IF Cardinality(lits) = 1 THEN <<"v">>
                 ELSE <<"v", Cardinality({j \in lits : j < i})>>
  IN  [i \in DOMAIN text |->
         IF i \in lits THEN [type |-> "param", text |-> name(i), glued |-> text[i].glued]
         ELSE text[i]]

\* A parsed text becomes its template and its literals in source order.
PrepareClientQuery(text) ==
  LET inOrder == SetToSortSeq(Literals(text), <)
  IN  [template |-> Template(text),
       literals |-> [n \in DOMAIN inOrder |-> [kind |-> text[inOrder[n]].type,
                                               v |-> text[inOrder[n]].text]]]

-----------------------------------------------------------------------------
(* The logical plan.                                                       *)

Bound(params) == \A i \in DOMAIN params : params[i].kind = "param"
Match(column, op, operands) ==
  [ok |-> TRUE, column |-> column, op |-> op, operands |-> operands]

\* Mutant of OrEqualities: the terms may name different columns.
OrEqualitiesAnyColumn(terms) ==
  \A i \in DOMAIN terms : terms[i].kind = "eq" /\ Bound(terms[i].params)

\* OrEqualityCollector: equalities with bound parameters, all on one column.
OrEqualities(terms) ==
  \A i \in DOMAIN terms :
    /\ terms[i].kind = "eq" /\ Bound(terms[i].params)
    /\ terms[i].column = terms[1].column

\* PlanningVisitor: '=', '<>', IN and OR of equalities can be evaluated.
PlanningVisitor(where) ==
  CASE where.kind \in {"eq", "ne", "in"} ->
         IF Bound(where.params)
           THEN Match(where.column, IF where.kind = "in" THEN "eq" ELSE where.kind,
                      Len(where.params))
           ELSE Bad
    [] where.kind = "or" ->
         IF OrEqualities(where.terms)
           THEN Match(where.terms[1].column, "eq", Len(where.terms)) ELSE Bad
    [] OTHER -> Bad

\* BuildLogicalPlan: no column twice, and a match.
BuildLogicalPlan(stmt) ==
  LET match == PlanningVisitor(stmt.where) IN
  IF /\ \A i, j \in DOMAIN stmt.columns : stmt.columns[i].name = stmt.columns[j].name => i = j
     /\ match.ok
    THEN match @@ [table |-> stmt.table, columns |-> stmt.columns,
                   count |-> stmt.count, all |-> stmt.all]
    ELSE Bad

-----------------------------------------------------------------------------
(* The planner.                                                            *)

ColumnNames(schema) == {schema.columns[i].name : i \in DOMAIN schema.columns}
ColumnOf(schema, name) ==
  schema.columns[CHOOSE i \in DOMAIN schema.columns : schema.columns[i].name = name]

\* RouteOperator: a key or an index column is matched with '=' or '<>'.
RouteOperator(encoding, op) == encoding \in {"key", "index"} /\ op \in {"eq", "ne"}

\* SelectBackend: the named backend, or the first, that can do it.
SelectBackend(op, hint) ==
  LET able == SelectSeq(Backends, LAMBDA b : op \in b.ops /\ b.private
                                             /\ (hint = "" \/ b.name = hint))
  IN  IF able = <<>> THEN "" ELSE able[1].name

\* Planner::Plan and the engine's checks of the plan: the columns exist, the key
\* is not projected, the operator can be routed, and as many ciphertexts came as
\* the template has operands.
Plan(schema, logical, hint, ciphertexts) ==
  LET known == ColumnNames(schema)
      asked == {logical.columns[i].name : i \in DOMAIN logical.columns}
  IN  IF /\ logical.table = schema.table
         /\ logical.column \in known
         /\ RouteOperator(ColumnOf(schema, logical.column).encoding, logical.op)
         /\ asked \subseteq known
         /\ SelectBackend(logical.op, hint) # ""
         /\ \A c \in asked : ColumnOf(schema, c).encoding # "key"
         /\ logical.operands \in 1 .. MaxOperands
         /\ ciphertexts = logical.operands
        THEN [ok |-> TRUE, column |-> logical.column, op |-> logical.op,
              backend |-> SelectBackend(logical.op, hint),
              projection |-> IF logical.count THEN {} ELSE IF logical.all
                               THEN {c \in known : ColumnOf(schema, c).encoding # "key"}
                               ELSE asked]
        ELSE Bad
=============================================================================
