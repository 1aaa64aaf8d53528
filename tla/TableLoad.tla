----------------------------- MODULE TableLoad -----------------------------
(***************************************************************************)
(* The rows of a table on the nodes of a cluster: `opaquedb load` on a     *)
(* node (cli data_commands.cpp, server/ingest.cpp) reads the configuration,*)
(* the schema and the CSV file, keeps the rows of its shard, and publishes *)
(* an epoch; an insert appends a row to the epoch of one node; the         *)
(* operator changes the configuration and the list of nodes, and a segment *)
(* file may be damaged.  Publish is one step here: its own steps are those *)
(* of EpochRepository.                                                     *)
(***************************************************************************)
EXTENDS Integers, Sequences, FiniteSets, Config, EpochFiles, ShardMap

CONSTANTS
  Input,      \* inputs: [nodes, ddl, header, lines, cells, hash, lists, settings, prints, faulty]
  RingSize,   \* bound on the hashes of keys
  MaxRows     \* bound on the rows of a node after an insert

ASSUME InputAssumption ==
  \A i \in Input : /\ i.nodes \subseteq Node /\ i.hash \in Hash
                   /\ \A list \in i.lists : Range(list) \subseteq Node
                   /\ \A o \in i.settings : IsLoadOptions(o)
                   /\ i.ddl \in Seq(STRING) /\ i.header \in Seq(STRING)
                   /\ \A c \in i.cells : IsCell(c)
                   /\ DOMAIN i.lines = 1 .. Len(i.lines) /\ Len(i.lines) \in Nat
                   /\ \A l \in DOMAIN i.lines :
                        /\ DOMAIN i.lines[l] = 1 .. Len(i.lines[l])
                        /\ \A j \in DOMAIN i.lines[l] : IsCell(i.lines[l][j])

VARIABLES
  input,     \* what the operator has: the nodes, the schema's tokens, the CSV file, the
             \* cells of inserts, the hash of the ring, the lists of nodes and
             \* the configurations tried, whether one is printed and whether a
             \* file is damaged
  setting,   \* the configuration file, environment and flags of the commands
  loaded,    \* what Load makes of them
  epoch,     \* per node: its current epoch, or NoEpoch
  shard,     \* per node: the nodes of the list it was last loaded with
  kept,      \* per node: the lines of the file it kept then
  written,   \* ghost, per node: the cells of its rows, by column name
  damaged    \* a file was damaged

vars == <<input, setting, loaded, epoch, shard, kept, written, damaged>>

NoEpoch == [none |-> TRUE]

Loaded(n) == epoch[n] # NoEpoch

Init ==
  /\ input \in Input
  /\ setting \in input.settings /\ loaded = Load(setting)
  /\ epoch = [n \in Node |-> NoEpoch]
  /\ shard = [n \in Node |-> {}]
  /\ kept = [n \in Node |-> {}]
  /\ written = [n \in Node |-> <<>>]
  /\ damaged = FALSE

-----------------------------------------------------------------------------
(* Ingest.                                                                 *)

\* ParseCsvRows: the cell of a line under each column's name in the header.
CellsOf(columns, line) ==
  [name \in Names(columns) |->
     line[CHOOSE i \in DOMAIN input.header :
            /\ input.header[i] = name
            /\ \A j \in 1 .. i - 1 : input.header[j] # name]]

CsvParses(columns) ==
  /\ Names(columns) \subseteq Range(input.header)
  /\ \A l \in DOMAIN input.lines :
       /\ Len(input.lines[l]) = Len(input.header)
       /\ \A i \in DOMAIN columns :
            Parses(columns[i].type, CellsOf(columns, input.lines[l])[columns[i].name])

\* GeometryFrom, with the schema and the width of keys.
GeometryFrom(config, columns) ==
  [columns |-> columns, key_bits |-> config["crypto.key_bits"],
   slot_count |-> config["crypto.poly_modulus_degree"],
   bytes_per_slot |-> BytesPerSlot(config), record_bytes |-> config["storage.record_bytes"]]

\* StableHash of a row's key, as text.
KeyHash(value) ==
  (IF "int" \in DOMAIN value THEN value.int ELSE TextHash(value.text)) % RingSize

\* The lines whose key the ring gives to node n.
Mine(n, columns, list) ==
  {l \in DOMAIN input.lines :
     OwnerOfHash(SetNodes(input.hash, list),
                 KeyHash(KeyOf(columns, CellsOf(columns, input.lines[l])))) = n}

-----------------------------------------------------------------------------

\* The operator edits the file, the environment or the flags.
Reconfigure ==
  /\ setting' \in input.settings \ {setting} /\ loaded' = Load(setting')
  /\ UNCHANGED <<input, epoch, shard, kept, written, damaged>>

\* The configuration that `config print` shows: without a file it shows the rest.
Effective == Load([setting EXCEPT !.optional = TRUE])

\* The operator saves what `config print` writes, to be the file from now on.
ConfigPrint ==
  /\ input.prints  \* bound
  /\ Effective.ok
  /\ setting' = [file |-> ToToml(Effective.config), optional |-> FALSE,
                 env |-> [k \in {} |-> EmptyText], flags |-> [k \in {} |-> EmptyText]]
  /\ loaded' = Load(setting')
  /\ UNCHANGED <<input, epoch, shard, kept, written, damaged>>

\* BuildStagingFromRows and Publish of the lines that node n keeps; a line that does
\* not fit fails the load.
PublishLines(n, g, lines, nodes) ==
  LET order == Concat([l \in DOMAIN input.lines |-> IF l \in lines THEN <<l>> ELSE <<>>])
      cells == [i \in DOMAIN order |-> CellsOf(g.columns, input.lines[order[i]])]
  IN  /\ StagingValid(g) /\ \A i \in DOMAIN cells : RowFits(g, cells[i])
      /\ epoch' = [epoch EXCEPT ![n] = EpochOf(g, [i \in DOMAIN cells |-> RowOf(g, cells[i])])]
      /\ shard' = [shard EXCEPT ![n] = nodes]
      /\ kept' = [kept EXCEPT ![n] = lines]
      /\ written' = [written EXCEPT ![n] = cells]
      /\ UNCHANGED <<input, setting, loaded, damaged>>

\* LoadCommand, with --shard-id and --shard-nodes or without.
LoadCommand(n) ==
  LET ddl == ParseCreateTable(input.ddl)
      g == GeometryFrom(loaded.config, ddl.columns)
  IN  /\ loaded.ok /\ ddl.ok /\ CsvParses(ddl.columns)
      /\ \/ \E list \in input.lists :
              PublishLines(n, g, Mine(n, ddl.columns, list), Range(list))
         \/ PublishLines(n, g, DOMAIN input.lines, {})

\* InsertRowAndPublish: the rows of the current epoch as they are, and one whose
\* cells are in schema order.
Insert(n) ==
  /\ Loaded(n) /\ Opens(epoch[n])
  /\ Len(written[n]) < MaxRows  \* bound
  /\ LET g == GeometryOf(epoch[n].manifest)
         rows == RowsOf(epoch[n])
     IN  \E line \in [DOMAIN g.columns -> input.cells] :
           LET cells == [name \in Names(g.columns) |->
                           line[CHOOSE i \in DOMAIN line : g.columns[i].name = name]]
           IN  /\ \A i \in DOMAIN line : Parses(g.columns[i].type, line[i])
               /\ StagingValid(g) /\ RowFits(g, cells)
               /\ \A i \in DOMAIN rows : Appendable(g, rows[i])
               /\ epoch' = [epoch EXCEPT ![n] = EpochOf(g, Append(rows, RowOf(g, cells)))]
               /\ written' = [written EXCEPT ![n] = Append(@, cells)]
  /\ UNCHANGED <<input, setting, loaded, shard, kept, damaged>>

-----------------------------------------------------------------------------
(* The disk.                                                               *)

Damage(n) ==
  /\ Loaded(n) /\ input.faulty /\ ~damaged  \* bound: one file
  /\ damaged' = TRUE
  /\ \/ \E file \in Damages(epoch[n].match) :
          epoch' = [epoch EXCEPT ![n] = [@ EXCEPT !.match = file]]
     \/ \E file \in Damages(epoch[n].payload) :
          epoch' = [epoch EXCEPT ![n] = [@ EXCEPT !.payload = file]]
  /\ UNCHANGED <<input, setting, loaded, shard, kept, written>>

Next ==
  \/ Reconfigure \/ ConfigPrint
  \/ \E n \in input.nodes : LoadCommand(n) \/ Insert(n) \/ Damage(n)

Spec == Init /\ [][Next]_vars

-----------------------------------------------------------------------------
(* Properties.                                                             *)

\* The type invariant: the rows of an epoch, before a file is damaged, are of one size.
TypeOK ==
  /\ kept \in [Node -> SUBSET DOMAIN input.lines] /\ shard \in [Node -> SUBSET Node]
  /\ \A n \in Node : Loaded(n) /\ ~damaged =>
       LET rows == RowsOf(epoch[n]) IN
       /\ Opens(epoch[n]) /\ Len(rows) = Len(written[n])
       /\ \A i \in DOMAIN rows : Appendable(GeometryOf(epoch[n].manifest), rows[i])

Readers == {n \in Node : Loaded(n) /\ Opens(epoch[n])}

\* What the client decodes of an epoch that opens is what was written under each
\* column's name, for loaded and for inserted rows ("Both are driven by the schema so
\* the two sides agree without a separate wire format", record_codec.h), however the
\* configuration has changed between load and insert ("so an insert never changes the
\* layout", ingest.cpp:180).  A segment file that was cut once, has one byte too many or
\* one byte changed does not open.
DecodesToWritten ==
  \A n \in Readers :
    LET rows == RowsOf(epoch[n])
        columns == epoch[n].manifest.columns
    IN  /\ Len(rows) = Len(written[n])
        /\ \A r \in DOMAIN rows :
             LET decoded == DecodeRecord(columns, rows[r].payload)
             IN  decoded.ok /\ decoded.values = PayloadOf(columns, written[n][r])

\* The columns that the statement declares as KEY or INDEX.
Declared == {i \in 1 .. Len(input.ddl) - 2 : input.ddl[i + 2] \in {"KEY", "INDEX"}}

\* The key a query finds at the place of the column it searches is the key of what
\* was written in that column, for every column declared KEY or INDEX ("The engine
\* slices one sub-key out of this record at query time by the column's
\* SearchableRank", record_codec.h).
SearchesWritten ==
  \A n \in Readers :
    LET rows == RowsOf(epoch[n])
        m == epoch[n].manifest
        width == MatchRecordBytes(m.key_bits)
    IN  \A r \in DOMAIN rows : \A d \in Declared : \E i \in DOMAIN m.columns :
          LET at == width * SearchableRank(m.columns, i) IN
          /\ m.columns[i].name = input.ddl[d] /\ IsSearchable(m.columns[i])
          /\ Number(SubSeq(rows[r].match, at + 1, at + width)) % Pow2[m.key_bits]
               = KeyValue(ParseValue(m.columns[i].type, written[n][r][input.ddl[d]]), m.key_bits)

\* "each node holds a disjoint shard" (data_commands.cpp:62-63), and together they
\* hold the file: once every node of a list has loaded with it, each in an order of
\* its own, every line is at exactly one of them.
RowOnOneShard ==
  \A nodes \in (SUBSET Node) \ {{}} :
    (\A n \in nodes : shard[n] = nodes) =>
      \A l \in DOMAIN input.lines : \E n \in nodes : \A m \in nodes : l \in kept[m] <=> m = n

\* "A membership change moves only the keys between the changed node and its ring
\* neighbours" (shard_map.h): a node that loads again after others have joined the
\* list keeps no line it did not have; after others have left, it keeps all it had.
MovesOnlyChanged ==
  [][\A n \in Node : n \in shard[n] /\ n \in shard'[n] =>
       /\ shard[n] \subseteq shard'[n] => kept'[n] \subseteq kept[n]
       /\ shard'[n] \subseteq shard[n] => kept[n] \subseteq kept'[n]]_vars

\* The file that `config print` writes is valid and loads as the configuration it was
\* printed from (ToTomlRoundTrips, tests/config_test.cpp:285), however its values were
\* given; except for a size that TOML's signed integers do not hold.
PrintedLoads ==
  [][ConfigPrint /\ Effective.config["server.max_message_bytes"] <= I64Max =>
       loaded' = Effective /\ LoadFileOnly(setting'.file) = Effective]_vars
=============================================================================
