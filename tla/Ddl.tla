-------------------------------- MODULE Ddl --------------------------------
(* CREATE TABLE (sql/ddl.cpp) on the tokens of the SQL tokenizer: keywords *)
(* and punctuation as they are, any other token an identifier.             *)
EXTENDS Integers, Sequences, FiniteSets

Identifier(token) == token \notin {"CREATE", "TABLE", "(", ")", ",", "KEY", "INDEX"}

Types == {"int", "real", "text", "json"}

EncodingOf(token) == IF token = "KEY" THEN "eq" ELSE "index"

\* One token of Parse and ParseColumn: `at` is what is expected next.
DdlStep(s, token) ==
  LET last == s.columns[Len(s.columns)]
      SetLast(column) == [s.columns EXCEPT ![Len(s.columns)] = column]
  IN
  CASE s.at = "create" /\ token = "CREATE" -> [s EXCEPT !.at = "table"]
    [] s.at = "table" /\ token = "TABLE"   -> [s EXCEPT !.at = "title"]
    [] s.at = "title" /\ Identifier(token) -> [s EXCEPT !.at = "open"]
    [] s.at = "open" /\ token = "("        -> [s EXCEPT !.at = "name"]
    [] s.at = "name" /\ Identifier(token)  ->
         [at |-> "type",
          columns |-> Append(s.columns, [name |-> token, encoding |-> "raw", type |-> "text"])]
    [] s.at = "type" /\ token \in Types    ->
         [at |-> "encoding", columns |-> SetLast([last EXCEPT !.type = token])]
    [] s.at = "encoding" /\ token \in {"KEY", "INDEX"} ->
         [at |-> "separator", columns |-> SetLast([last EXCEPT !.encoding = EncodingOf(token)])]
    [] s.at \in {"encoding", "separator"} /\ token = "," -> [s EXCEPT !.at = "name"]
    [] s.at \in {"encoding", "separator"} /\ token = ")" -> [s EXCEPT !.at = "end"]
    [] OTHER -> [s EXCEPT !.at = "error"]

IsSearchable(column) == column.encoding \in {"eq", "index"}

\* Schema::Validate.
Valid(columns) ==
  /\ columns # <<>>
  /\ \A i, j \in DOMAIN columns : columns[i].name = columns[j].name => i = j
  /\ \A i \in DOMAIN columns : IsSearchable(columns[i]) => columns[i].type \notin {"real", "json"}
  /\ Cardinality({i \in DOMAIN columns : columns[i].encoding = "eq"}) = 1

\* ParseCreateTable.
ParseCreateTable(tokens) ==
  LET after[i \in 0 .. Len(tokens)] ==
        IF i = 0 THEN [at |-> "create", columns |-> <<>>] ELSE DdlStep(after[i - 1], tokens[i])
      end == after[Len(tokens)]
  IN  [ok |-> end.at = "end" /\ Valid(end.columns), columns |-> end.columns]
=============================================================================
