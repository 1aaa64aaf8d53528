---------------------------- MODULE ClientQuery ----------------------------
(***************************************************************************)
(* What a SELECT shows (cli/util.cpp, RunSelect and BuildResultTable;      *)
(* client/query_client.cpp, Scan, QueryClean; server/engine.cpp, Scan)     *)
(* while rows are inserted.  DISTINCT, ORDER BY, LIMIT and OFFSET are      *)
(* applied by the client to the records it fetched.  No code runs a        *)
(* statement again: the model's user does, with the next OFFSET, until a   *)
(* page is not full, so that what one run shows can be compared with what  *)
(* another shows.                                                          *)
(*                                                                         *)
(* A record is the sequence of its payload values; a column is its place   *)
(* in the payload.  The rows of a WHERE query are those that match, in the *)
(* order of their result buckets.                                          *)
(***************************************************************************)
EXTENDS Integers, Sequences, FiniteSets, FiniteSetsExt, SequencesExt

CONSTANTS
  Value,          \* payload values
  Columns,        \* number of payload columns
  Cap,            \* kScanRowCap
  ScanReorderFetch,  \* kScanReorderFetch
  DefaultLimit,   \* kDefaultSelectLimit
  CountMax,       \* largest std::uint64_t
  Buckets,        \* result_buckets
  Statement,      \* statements: [scan, columns, distinct, order]
  Limit,          \* LIMIT values, Unset for none
  Offset,         \* OFFSET of the first page
  MaxRows         \* bound on the rows of the table

Unset == -1

Record == [1 .. Columns -> Value]

ASSUME ClientQueryAssumption ==
  /\ Cap \in Nat /\ ScanReorderFetch \in Nat /\ DefaultLimit \in Nat \ {0}
  /\ CountMax \in Nat /\ MaxRows \in Nat
  /\ Limit \subseteq (1 .. CountMax) \cup {Unset} /\ Offset \subseteq 0 .. CountMax

VARIABLES
  table,   \* the current epoch, in storage order
  stmt,    \* the statement
  limit,   \* its LIMIT
  start,   \* the OFFSET of the first page
  offset,  \* the OFFSET of the next page
  before,  \* the rows there were at the first page
  shown,   \* the rows shown so far, page after page
  status   \* "reading" or "done"

vars == <<table, stmt, limit, start, offset, before, shown, status>>

-----------------------------------------------------------------------------

LimitOf == IF limit = Unset THEN DefaultLimit ELSE limit

\* Mutant of ScanFetchCount: only LIMIT rows are asked for.
ScanFetchCountShort == IF stmt.distinct \/ stmt.order # <<>> THEN ScanReorderFetch ELSE LimitOf

\* The rows a scan asks for: 64-bit arithmetic.
ScanFetchCount ==
  IF stmt.distinct \/ stmt.order # <<>> THEN ScanReorderFetch
  ELSE (offset + LimitOf) % (CountMax + 1)

\* Engine::Scan: a prefix of the table.
Scan(maxRows) == [at \in 1 .. Min({maxRows, Cap, Len(table)}) |-> at]

\* QueryClean: the rows of the buckets that hold one match, in bucket order.  The
\* i-th match is in the i-th bucket after the one its key starts at, here 1.
QueryClean ==
  LET matches == {at \in DOMAIN table : table[at][1] = stmt.key}
      bucket(at) == (1 + Cardinality({q \in matches : q < at})) % Buckets
      clean == {at \in matches : \A q \in matches : bucket(q) = bucket(at) => q = at}
  IN  SetToSortSeq(clean, LAMBDA p, q : bucket(p) < bucket(q))

\* The records one run fetches, by their place in the table.
Fetched == IF stmt.scan THEN Scan(ScanFetchCount) ELSE QueryClean

Cells(at) == [i \in DOMAIN stmt.columns |-> table[at][stmt.columns[i]]]

\* DISTINCT: the first of the rows that are displayed alike.
Unique(rows) ==
  LET first(i) == \A j \in 1 .. i - 1 : Cells(rows[j]) # Cells(rows[i])
      kept == {i \in DOMAIN rows : first(i)}
      places == SetToSortSeq(kept, <)
  IN  [n \in DOMAIN places |-> rows[places[n]]]

\* The comparison ORDER BY sorts with: the first column in which two rows differ.
Before(p, q) ==
  \E n \in DOMAIN stmt.order :
    LET x == table[p][stmt.order[n].column]
        y == table[q][stmt.order[n].column]
    IN  /\ \A k \in 1 .. n - 1 : table[p][stmt.order[k].column] = table[q][stmt.order[k].column]
        /\ IF stmt.order[n].descending THEN x > y ELSE x < y

\* ORDER BY: a stable sort.
Sorted(rows) ==
  LET sooner(i, j) == Before(rows[i], rows[j]) \/ (~Before(rows[j], rows[i]) /\ i < j)
      places == SetToSortSeq(DOMAIN rows, sooner)
  IN  [n \in DOMAIN places |-> rows[places[n]]]

\* Mutant of BuildResultTable: the window is cut before duplicates go.
BuildResultTableEarlyWindow(records) ==
  LET window == SubSeq(Sorted(records), offset + 1, Min({offset + LimitOf, Len(records)}))
  IN  IF stmt.distinct THEN Unique(window) ELSE window

\* BuildResultTable: DISTINCT, then ORDER BY, then the OFFSET and LIMIT window.
BuildResultTable(records) ==
  LET unique == IF stmt.distinct THEN Unique(records) ELSE records
      rows == Sorted(unique)
  IN  SubSeq(rows, offset + 1, Min({offset + LimitOf, Len(rows)}))

Init ==
  /\ table \in UNION {[1 .. n -> Record] : n \in 0 .. MaxRows}
  /\ stmt \in Statement
  /\ limit \in Limit
  /\ start \in Offset /\ offset = start
  /\ before = Len(table)
  /\ shown = <<>>
  /\ status = "reading"

\* RunSelect: one run of the statement, which shows a page.  The user then asks for the
\* next OFFSET, or for no more when the page was not full.
RunSelect ==
  LET page == BuildResultTable(Fetched) IN
  /\ status = "reading"
  /\ shown' = shown \o page
  /\ offset' = offset + LimitOf
  /\ status' = IF Len(page) < LimitOf THEN "done" ELSE "reading"
  /\ UNCHANGED <<table, stmt, limit, start, before>>

\* InsertRow: a new epoch with the row after the others.
InsertRow ==
  /\ Len(table) < MaxRows
  /\ status = "reading"
  /\ \E r \in Record : table' = Append(table, r)
  /\ UNCHANGED <<stmt, limit, start, offset, before, shown, status>>

Next == RunSelect \/ InsertRow

Spec == Init /\ [][Next]_vars

-----------------------------------------------------------------------------
(* Properties.                                                             *)

\* The type invariant.
TypeOK ==
  /\ table \in Seq(Record) /\ Len(table) \in before .. MaxRows
  /\ shown \in Seq(1 .. MaxRows)
  /\ offset >= start /\ status \in {"reading", "done"}

Quiet == Len(table) = before
Plain == stmt.scan /\ ~stmt.distinct /\ stmt.order = <<>>
Asked == IF stmt.scan THEN DOMAIN table ELSE {at \in DOMAIN table : table[at][1] = stmt.key}

\* A table that did not change while it was read, within the scan cap or the
\* buckets: the pages together are the answer.  Every row asked for is shown
\* once or, with DISTINCT, every display row is, in the order of ORDER BY
\* (cli/util.h: "column projection, DISTINCT, ORDER BY, then the OFFSET/LIMIT
\* window").
PagesAnswer ==
  /\ status = "done" /\ Quiet /\ start = 0
  /\ Len(table) <= Cap /\ (stmt.scan \/ Cardinality(Asked) <= Buckets)
  => LET rows == Range(shown) IN
     /\ Cardinality(rows) = Len(shown) /\ rows \subseteq Asked
     /\ IF stmt.distinct
          THEN /\ {Cells(at) : at \in rows} = {Cells(at) : at \in Asked}
               /\ \A p, q \in rows : Cells(p) = Cells(q) => p = q
          ELSE rows = Asked
     /\ \A i, j \in DOMAIN shown : i < j => ~Before(shown[j], shown[i])

\* A plain scan that is read page by page while rows are inserted shows every row
\* that was there at the first page, in storage order, and no row twice: an
\* insert appends (server/ingest.cpp, InsertRowAndPublish), so offsets stay put.
PagesSurviveInserts ==
  /\ status = "done" /\ Plain /\ Len(table) <= Cap
  => /\ start + 1 .. before \subseteq Range(shown)
     /\ \A i, j \in DOMAIN shown : i < j => shown[i] < shown[j]
=============================================================================
