----------------------------- MODULE SqlQuery ------------------------------
(***************************************************************************)
(* One SELECT with a WHERE clause, from the text to the plan: a front end  *)
(* (cli/commands/query_command.cpp, cli/commands/repl_command.cpp) takes   *)
(* the text, the client lifts the literals out and encodes them            *)
(* (client/query_client.cpp, RunQuery), and the engine parses the template *)
(* again and plans it (server/engine.cpp, EvaluateShard).                  *)
(***************************************************************************)
EXTENDS Sql

CONSTANTS
  Texts,      \* the texts entered
  Fronts,     \* the front ends: a subset of {"query", "repl"}
  Hints,      \* the backends named, "" for none
  Schema,     \* the table: its name and columns [name, type, encoding]
  Ints,       \* values of INT columns
  Strings,    \* values of TEXT columns
  Hash,       \* the hash of a text, reduced to the key universe
  KeyMax,     \* KeyMask(key_bits)
  ParamValue  \* the value given with --param

VARIABLES text, front, hint, given, status, stmt, keys, sent, plan

vars == <<text, front, hint, given, status, stmt, keys, sent, plan>>

-----------------------------------------------------------------------------

\* EncodeKeyValue: a number is its own key and must fit, a text is hashed.
EncodeKeyValue(x) == IF x.kind = "number" THEN x.v ELSE Hash[x.v]

Encodable(x) == x.kind = "number" => x.v <= KeyMax

HasParameter == \E i \in DOMAIN text : text[i].type = "param"

\* The query command's check that a parameter has a value; the shell has none.
Unbound ==
  front = "query" /\ PrepareClientQuery(text).literals = <<>> /\ HasParameter /\ ~given

\* Mutant of OperandValues: a value the caller passed goes with the literals.
OperandValuesBoth ==
  Append(PrepareClientQuery(text).literals,
         [kind |-> "number", v |-> IF given THEN ParamValue ELSE 0])

\* The lifted literals or, without any, the one value the caller passed.
OperandValues ==
  LET literals == PrepareClientQuery(text).literals
  IN  IF literals # <<>> THEN literals
      ELSE <<[kind |-> "number", v |-> IF given THEN ParamValue ELSE 0]>>

Init ==
  /\ text \in Texts /\ front \in Fronts /\ hint \in Hints
  /\ given \in (IF front = "query" THEN BOOLEAN ELSE {FALSE})
  /\ status = "typed" /\ stmt = Bad /\ keys = {} /\ sent = <<>> /\ plan = Bad

\* The front end, RunSelect and RunQuery up to the call; a scan goes elsewhere.
Submit ==
  /\ status = "typed"
  /\ stmt' = Parse(text)
  /\ \/ ~stmt'.ok /\ status' = "error" /\ UNCHANGED <<keys, sent>>
     \/ stmt'.ok /\ Unbound /\ status' = "error" /\ UNCHANGED <<keys, sent>>
     \/ /\ stmt'.ok /\ ~Unbound /\ stmt'.node.where.kind = "none"
        /\ status' = "scan" /\ UNCHANGED <<keys, sent>>
     \/ /\ stmt'.ok /\ ~Unbound /\ stmt'.node.where.kind # "none"
        /\ IF \A i \in DOMAIN OperandValues : Encodable(OperandValues[i])
             THEN /\ status' = "sent"
                  /\ keys' = {EncodeKeyValue(OperandValues[i]) : i \in DOMAIN OperandValues}
                  /\ sent' = PrepareClientQuery(text).template
             ELSE status' = "error" /\ UNCHANGED <<keys, sent>>
  /\ UNCHANGED <<text, front, hint, given, plan>>

\* EvaluateShard up to the plan; the ciphertexts are one per distinct key.
EvaluateShard ==
  LET parsed == Parse(sent)
      logical == IF parsed.ok THEN BuildLogicalPlan(parsed.node) ELSE Bad
  IN
  /\ status = "sent"
  /\ plan' = IF logical.ok THEN Plan(Schema, logical, hint, Cardinality(keys)) ELSE Bad
  /\ status' = IF plan'.ok THEN "planned" ELSE "refused"
  /\ UNCHANGED <<text, front, hint, given, stmt, keys, sent>>

Next == Submit \/ EvaluateShard

Spec == Init /\ [][Next]_vars

-----------------------------------------------------------------------------
(* Properties.                                                             *)

\* A row of the table: a value of its type in every column.
ColumnsOfType(type) == {c \in ColumnNames(Schema) : ColumnOf(Schema, c).type = type}
Rows == [ints: [ColumnsOfType("int") -> Ints], strings: [ColumnsOfType("text") -> Strings]]
ValueIn(r, c) ==
  IF c \in ColumnsOfType("int") THEN [kind |-> "number", v |-> r.ints[c]]
  ELSE [kind |-> "string", v |-> r.strings[c]]
Same(x, y) == x.kind = y.kind /\ x.v = y.v

\* What a value written in the text stands for.
Meant(param) ==
  IF param.kind = "param" THEN [kind |-> "number", v |-> ParamValue] ELSE param

\* The WHERE clause, read as SQL reads it ('<' and LIKE are never planned).
RECURSIVE Holds(_, _)
Holds(where, r) ==
  CASE where.kind = "and" -> \A i \in DOMAIN where.terms : Holds(where.terms[i], r)
    [] where.kind = "or" -> \E i \in DOMAIN where.terms : Holds(where.terms[i], r)
    [] where.kind \in {"eq", "in"} ->
         \E i \in DOMAIN where.params : Same(ValueIn(r, where.column), Meant(where.params[i]))
    [] where.kind = "ne" -> ~Same(ValueIn(r, where.column), Meant(where.params[1]))
    [] OTHER -> FALSE

Where == stmt.node.where
Terms == IF Where.kind \in {"and", "or"} THEN Where.terms ELSE <<Where>>

\* Every value has the type of its column.  The code plans the others too: a text on
\* an INT column is matched by its hash, a number on a TEXT column as a key.
Typed ==
  \A n \in DOMAIN Terms : Terms[n].kind # "and" =>
    \A i \in DOMAIN Terms[n].params :
      (Meant(Terms[n].params[i]).kind = "number") = (Terms[n].column \in ColumnsOfType("int"))

\* The rows the matcher selects for the plan and the keys.
Selects(r) == (EncodeKeyValue(ValueIn(r, plan.column)) \in keys) = (plan.op = "eq")

\* The statement without the values of its WHERE clause.
Shape(s) ==
  LET bare(c) == [kind |-> c.kind, column |-> c.column, values |-> Len(c.params)]
      term(t) == IF t.kind = "and" THEN [i \in DOMAIN t.terms |-> bare(t.terms[i])] ELSE bare(t)
  IN  [s EXCEPT !.where =
         CASE @.kind = "none" -> @
           [] @.kind \in {"and", "or"} ->
                [kind |-> @.kind, terms |-> [i \in DOMAIN @.terms |-> term(@.terms[i])]]
           [] OTHER -> bare(@)]

\* The type invariant.
TypeOK ==
  /\ status \in {"typed", "error", "scan", "sent", "planned", "refused"}
  /\ keys \subseteq 0 .. KeyMax
  /\ status = "sent" => keys # {} /\ Len(sent) = Len(text)

\* A statement that is planned selects exactly the rows its WHERE clause holds
\* for: nothing the engine cannot evaluate (AND, OR across columns, ranges, a
\* value lost or moved between the text and the template) slips through
\* PrepareClientQuery, BuildLogicalPlan and Plan.  It says nothing of statements with a
\* value that has not the type of its column, which are planned all the same.
PlanMeansWhere ==
  status = "planned" /\ Typed => \A r \in Rows : Selects(r) = Holds(Where, r)

\* A word stands right behind a literal, where a parameter's name runs on into it.
Swallows == \E i \in Literals(text) : text[i].glued /\ i < Len(text) /\ text[i + 1].type \in Word

\* The template can be read as the text was: no parameter runs on into a word, and the
\* template, which may be longer than the text, is not too long.
Spliced == ~Swallows /\ Length(sent) <= MaxSqlLength

\* The statement is parsed twice, from the text on the client and from the template on the
\* server: the template, which holds no literal, either "parses back to the same IN / OR
\* shape" (sql/parser.cpp:389, PrepareClientQuery), which it does unless a parameter
\* swallows the word behind it or the template is too long, or is refused.  It never means
\* something else.
TemplateParsesBack ==
  status \in {"sent", "planned", "refused"} =>
    /\ Literals(sent) = {}
    /\ Spliced => Parse(sent).ok
    /\ Parse(sent).ok => Shape(Parse(sent).node) = Shape(stmt.node)

\* "so the server's template parses back to the same IN / OR shape" (sql/parser.cpp:389-390).
TemplateAlwaysParses ==
  status \in {"sent", "planned", "refused"} => Parse(sent).ok

\* "The evaluated query matches one searchable column, the primary KEY or any
\* INDEX, with =, <>, IN (...), or a same-column OR" (README.md:301-304): such a
\* statement, with its values written out once each and a blank behind them, is not
\* refused unless its template is too long.
SupportedPlanned ==
  LET asked == [i \in DOMAIN stmt.node.columns |-> stmt.node.columns[i].name]
      written == PrepareClientQuery(text).literals
      supported ==
        /\ \/ Where.kind \in {"eq", "ne", "in"}
           \/ /\ Where.kind = "or"
              /\ \A i \in DOMAIN Terms : Terms[i].kind = "eq" /\ Terms[i].column = Terms[1].column
        /\ ColumnOf(Schema, Terms[1].column).encoding \in {"key", "index"}
        /\ stmt.node.table = Schema.table /\ IsInjective(asked)
        /\ \A i \in DOMAIN asked : asked[i] \in ColumnNames(Schema)
                                   /\ ColumnOf(Schema, asked[i]).encoding # "key"
        /\ Len(written) <= MaxOperands
        /\ IsInjective([i \in DOMAIN written |-> EncodeKeyValue(written[i])])
  IN  status = "refused" /\ ~HasParameter /\ hint = "" /\ Spliced => ~supported

\* A bound parameter with no value given "would silently run for 0, returning
\* wrong results with no error" (cli/commands/query_command.cpp:51-53): such a
\* statement is not sent.
NoDefaultValue ==
  status \in {"sent", "planned", "refused"} /\ HasParameter => given \/ Literals(text) # {}
=============================================================================
