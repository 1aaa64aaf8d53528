# A TLA+ model of OpaqueDB

OpaqueDB stores tables that a client queries without the server learning what it
looks for: the query value is encrypted, the server evaluates an equality match
homomorphically over every row, and the client decrypts the result. This
directory models the parts of it that hold state, run concurrently, survive
crashes, or compute something whose correctness is not evident, checks them with
TLC on small instances, and proves the central ones with TLAPS for all instances.

`PROJECT.json` lists every component, run, theorem and hazard, and maps every
definition to the source lines it models. Paths below are relative to the
repository's `src/`.

## 1. The system

| Part | Source | State and behaviour | Module |
|---|---|---|---|
| Epoch repository | `storage/local_repository`, `admin/service`, `server/ingest` | immutable epoch directories, a CURRENT pointer, publish, rollback, prune | `EpochRepository` |
| Epoch files | `storage/segment`, `epoch_manifest`, `staging` | a manifest and two checked binary files | `EpochFiles`; their presence on disk in `EpochRepository` |
| Write-ahead log | `storage/wal` | append, fsync, replay | `Wal` |
| Schema, records, ingest | `core/record_codec`, `schema`, `key_codec`, `server/ingest` | CSV and typed rows to bytes and back | `Records`, `TableLoad` |
| CREATE TABLE | `sql/ddl` | tokens to a validated schema | `Ddl` |
| Shard map, sharded load | `cluster/shard_map`, `cli/commands/data_commands` | consistent-hash ring, the rows a node keeps | `ShardMap`, `TableLoad` |
| SQL and planner | `sql/`, `planner/` | parse, lift literals, plan | `Sql`, `SqlQuery` |
| Matcher | `backend/reference`, `crypto/ops`, `core/slot_codec` | slot arithmetic, result buckets, decoding | `Matcher` |
| Client paging | `cli/util`, `client/query_client` | fetch window, DISTINCT, ORDER BY, LIMIT, OFFSET | `ClientQuery` |
| Client keys | `server/query_service`, `shard_service`, `engine`, `admin/file_keyring_store` | registration, distribution, caches | `ClientKeys` |
| Cluster manager | `cluster/manager`, etcd client | leases, membership, leader, shard map, epoch | `ClusterManager` |
| Cluster query | `server/query_service`, `query_coordinator`, `node_server` | cached view, fan-out, pinned epoch | `ClusterQuery` |
| Node lifecycle | `server/node_server`, `cli/commands/run_command` | start, listeners, signals, shutdown | `NodeServer` |
| Request gate | `server/request_gate`, `rate_limiter`, `auth/` | authentication, roles, token buckets, reload | `RequestGate` |
| Admin RPCs | `admin/service`, `server/admin_grpc_service` | publish and rollback (in `EpochRepository`), admission (in `RequestGate`) | partly |
| Configuration | `config/`, `cli/commands/config_command` | defaults, file, environment and flags; validation; printing | `Config`; what follows for listeners in `NodeServer` |
| Catalog, other CLI commands, SEAL wrapper, backend registry, logging | see section 7 | | not modelled |

How they meet: a node starts (`NodeServer`), joins through etcd
(`ClusterManager`), and admits calls (`RequestGate`). A client registers its
evaluation keys at any node, which hands them to the others (`ClientKeys`). A
statement is parsed on the client, its values are lifted out and encrypted, and
the template is parsed and planned again on the server (`SqlQuery`). The node
that received it consults its cached view of the cluster and asks every shard at
one epoch (`ClusterQuery`); each shard matches its rows, the partials are summed
and decoded (`Matcher`), and the client cuts the page (`ClientQuery`). The rows
were loaded on each node under its configuration (`Config`, `Ddl`), as far as the
ring gives them to it (`ShardMap`), encoded (`Records`), written as files
(`EpochFiles`) and published as an epoch (`EpochRepository`); `TableLoad` composes
these.

## 2. Modules

A component has one module. `MC<Module>` extends it with the values TLC needs,
and the `.cfg` of the same name gives the constants. Operators called "Mutant of
X" are X as a plausible error would have it. They are used by nothing else in the
module and only serve to show that a property notices the error. Variables
called ghost or history record what a property needs and guard no step.

**EpochRepository.** `root` is the directory tree as processes see it and
`survivors` the set of trees a loss of power may leave, so a rename that was not
yet synced is one of several outcomes. Each system call of Publish (`mkdir`, two
segments, manifest, sync, `rename`, directory sync), SetCurrent (`trunc`,
`write`, `swap`, sync), Rollback and Prune is an action. An insert copies the
current rows, publishes and prunes; a load publishes; both hold `write_mutex`,
which is one per process. Rollback takes no lock. Any write, and any read of
CURRENT or of an epoch, may fail ("misread" among the faults adds the one failing
read the code mistakes for an empty table). A crash drops the process's threads; a loss of power also picks a survivor. `EpochStore`
is the abstract specification: a pointer into immutable epochs, changed only by
adding an epoch, moving the pointer to an epoch that exists, deleting an epoch
that is not current, and losing what was not synchronised. `ImplementsStore` is
the refinement, mapping a directory to its rows when it opens and to nothing
otherwise. `EpochInvariant` holds the inductive invariant.

**Wal.** The file is a sequence of words (length, CRC, payload). Append writes
word by word and may stop anywhere; Open appends behind whatever is there; Replay
computes what `ReplayWal` returns: the entries before the first bad frame. A loss
of power keeps any prefix of the unsynced words or leaves zeros in their place.
`behind` remembers the appends that began on a torn log and `zeroed` whether
zeros were left, which is where the promises end.

**TableLoad, with Config, Ddl, Records, EpochFiles, ShardMap.** `TableLoad` has the
state: the configuration in force, and per node the epoch, the list of nodes it
was last loaded with and the lines it kept. Its actions are the commands that
change it: a load, whole or for one shard, an insert, a change of the
configuration, `config print` whose output becomes the file, and a fault of the
disk that damages one segment file. The other five modules are the functions
those commands compute, without state of their own.

- `Config`: every key of `kKeys` with its type, the four layers, `Validate`,
  `ToToml`. A text is the sequence of its pieces between commas, which tells a
  list from the text it was given as; integers keep (scaled) widths, so a 64-bit
  size printed as TOML's signed integer changes sign as in the code. `Piece` is
  the set of strings without a comma and `Numeral` what number a string is.
  Joining an array is `Concat`, the append loop that `Records` and `EpochFiles`
  use too.
- `Ddl`: the parser of CREATE TABLE as a step per token, and `Schema::Validate`.
- `Records`: bytes are digits of a small base, so the two's-complement integer,
  the length-prefixed text and the padding are real conversions. A load reorders
  columns by the CSV header, an insert takes schema order, and the match record
  holds one key for each searchable column.
- `EpochFiles`: a segment file is its header fields and its bytes; rows become
  match and payload records here, and `Damages` is what the disk may do to a file.
  `SegmentReader::Open` and `EpochManifest::Validate` are translated check by
  check, with the product of count and size that may overflow. The checksum is a
  small one that, like CRC-32, changes when one byte does.
- `ShardMap`: the ring as a function from points to nodes. The hash is any
  function, so that points of different nodes may collide.

**Sql, SqlQuery.** `Sql` is the grammar as operators on lexemes. A lexeme records
whether a blank follows it, so that `1OR` has two lexemes and the `:v0OR` that
replaces it has one, and the bytes are counted for the limit on a statement (a word
as one byte). `SqlQuery` runs one statement through a front end, the client's
preparation, and the server's second parse and plan.

**Matcher.** A ciphertext is the vector of slots it decrypts to. Placement of
rows in blocks, the bit-sliced indicator, the mask, inversion for `<>`, broadcast
and bucket sums are operators on those vectors; batches are added in any order.
The number of buckets is chosen with the table, so that one run has both a
single bucket and several.

**ClientQuery.** `RunSelect` is one run of a statement, with `ScanFetchCount` and
`BuildResultTable` translated literally and counts that wrap at `CountMax + 1`. Rows
may be inserted between two runs. No code of the repository reads page after page:
that the statement is run again at the next OFFSET until a page is not full is what
the model's user does, and the properties compare the pages such a user sees.

**ClientKeys.** Handler threads run Register, RegisterKeys and a query's
`EvalContextFor` on every node. A stream may break after any chunk, a file write
may fail, a node may crash. One client id stands for all, as every map is keyed
by it. The peers a Register sends the keys to are those of the view it reads, which
may be empty (no cluster yet, or a failed read) or old: any set of other nodes.
`overlap` marks the calls that ran beside another call of a client; only a
registration that did not is held to have reached the nodes of its view. Which
principal owns a client id is kept per node and lost with the process, so nothing is
stated of it.

**ClusterManager.** Each etcd call of `Tick` is a step, and `AdvanceEpoch` runs
beside it. Leases lapse with or without the holder noticing; calls fail before or
after taking effect, `KeepAlive` of a live lease among them, after which the node
takes a new lease while the keys of the old one are still there; nodes crash and
restart at any time. etcd itself follows the contract of `EtcdClient`, which the
in-repository `FakeEtcd` implements. `ground` is history: the lease of the leader key
on which a node took itself for the leader.

**ClusterQuery.** The cached view with its lifetime, the two separate
consultations of it (peers, then epoch), the shard calls, and the join.

**NodeServer.** The steps of Start with every failure exit, the signal flag and
its handlers, Shutdown, and calls that arrive in between. Credentials of
listeners and channels are derived from the configuration as in the code, and a
certificate or key file may be unreadable whenever it is read: a listener then fails
to start, a dialler goes on without the certificate. `signer` says whose authority
signed the server certificate. A query is its coordinator, the peers it has yet to
ask, those that are evaluating, and those that refused; the peers are any of the
nodes etcd has ever listed, so the view may be as old as it likes. A peer may take
for ever to evaluate, and StopServer and StopClusterServer wait for the calls the
node has taken.

**RequestGate.** Calls on several threads pass Check and Admit. Buckets are
refilled lazily, in units of which `One` are a request. WriteFile, Hangup and the
three steps of ReloadAuth run beside them.

## 3. What the runs check

Bounds are chosen so that the case a property is about occurs: each run names the
fewest threads, nodes, rows or versions with which the interleaving or boundary
exists. Every property of a passing run is violated under at least one plausible
error in the modelled code (the mutants in `PROJECT.json`), under the same
bounds. Symmetry is used only over model values that nothing orders, and never
with liveness. The run `epoch` has a VIEW, `LiveState`, which leaves out the contents of
a staging directory that no operation is filling and of a CURRENT.tmp that no operation
is writing. No step and no property reads them before `MakeStagingDir` or
`TruncateCurrentTmp` has replaced them, so states that differ only there behave alike;
a step that used what a crash left behind would need another view. The views of three
more runs do the same: `keys` leaves out arguments of a call that it has used for the
last time, `cluster` the cluster epoch, which no step of the manager reads, and `node`
keeps of a dialler's credentials whether they connect and are complete, which is all that
steps and properties ask of them. `TypeOK` of each
module documents its variables. For the epoch repository it is a conjunct of `IInv`
and proved; in the other modules it holds under the bounds of their `.cfg` when it is
added there as an invariant.

| Run | Instance | Shows |
|---|---|---|
| `epoch` | 2 threads, 2 rows, 3 versions, retention 2; failing reads and writes, crashes, power loss; rollback between writes | `CurrentReadable`: CURRENT always opens. `AckedIsCurrent`: a reported success survives power loss. `RollbackWindow`: the newest versions are kept. `NoLostUpdate`: an insert keeps the rows it replaces. `ImplementsStore`: refinement of `EpochStore`. `IInv`: the inductive invariant of the proofs |
| `wal` | 3 appends of up to 2 words, every cut, crash and power loss | `ReplayedWereAppended`: replay invents and reorders nothing, empty entries read from zeros apart. `SyncedStaysReplayed`: what it once returned from synced bytes it returns again. `AckedReplayed`: an acknowledged entry is replayed unless it was appended behind a torn frame |
| `load` | five schemas with the key first, in the middle and last and eight statements that are refused; cells at the ends of their range; two configurations between load and insert; all placements of two points of each of three nodes; every cut and one-field change of a segment file; every key in every layer with every form of text | `DecodesToWritten`, `SearchesWritten`: what opens is decoded and searched as it was written, and a damaged file does not open. `RowOnOneShard`: the shards partition the file, whatever order each node's list has. `MovesOnlyChanged`: a change of the list moves only rows of nodes that came or went. `PrintedLoads`: a printed configuration loads as itself |
| `sql` | all heads, WHERE clauses and tails, one to three terms, also malformed; literals with a blank behind them and without; a length limit that some texts keep and their templates do not | `PlanMeansWhere`: the plan selects what the WHERE clause means, if every value has the type of its column (others are planned too, and matched by hash or number). `TemplateParsesBack`: the server reads the template as the client read the text, or refuses it, which it does only when a parameter ran on into a word or the template is too long. `SupportedPlanned`: what the documentation promises is planned, those two cases apart |
| `matcher` | up to 4 rows on 2 shards, several batches, 1 and 2 buckets, 2 bytes a slot | `CountExact`, for fewer rows than the plaintext modulus (5 here), at which a bucket's count would wrap; `PointQueryComplete`: all rows of a value are returned while they fit the buckets. `CleanRowsMatch`: whatever reads as a row is a matching row, byte for byte |
| `client` | tables of up to 3 rows, scans and lookups, DISTINCT and ORDER BY | `PagesAnswer`: the pages together are the answer. `PagesSurviveInserts`: with rows appended meanwhile nothing is repeated or skipped |
| `keys` | 2 nodes, 2 handlers, 2 keysets, 2 principals, all faults | `CacheIsFile`: the key cache never differs from the file. `RegisteredReachesView`: a reported registration that ran alone is on every node of the view it read, and none of them computes with older keys, whatever went wrong before |
| `cluster` | 2 nodes, 3 leases, a failed call, and a lost answer, lapsed lease, failed keep-alive or quick restart | `OneLiveLeader`: of the nodes that take themselves for the leader, one at most does so on a key that still exists. `StaleLeaderStepsDown`: the others find out. `RegisteredStays`: a member stays one when the lease of its earlier life lapses. `LeaderElected`, `ShardMapFollows`, once nodes stop coming and going |
| `query` | 2 nodes, one of which comes and goes, 2 threads sharing the view, 2 versions, failing calls and reads | `AllShardsOrNone`: an answer combines every shard asked once, all at the pinned epoch. `MembersCovered`: a node that has been a member for the lifetime of a view is part of the answer |
| `node` | 2 nodes, 1 call, one of each class of accepted configurations that behave alike, unreadable files | `RegisteredServes`: a listed node serves. `RefusedOnlyByDeparted`: in a coherent configuration, and if the caller could read its certificates, a peer refuses only because it stopped or crashed. `StopEnds`: a stop signal ends the process while clients keep calling, if each call it has taken ends |
| `gate` | 2 principals, 2 threads, fractional buckets, token and mTLS mode, a rewrite of the file | `RateBound`: every window is bounded. `NotStarved`: the global bucket starves nobody. `AdmittedByList`; `ReloadTakesEffect`: no SIGHUP is lost |
| `epoch_rollback_race` | a server that inserts and a CLI that rolls back | fails `CurrentNeverDeleted`, see below |

Runs that say `CHECK_DEADLOCK FALSE` end by design: a statement is answered, a
bound is reached with all operations finished, or a process has exited.

### Where the documentation and the code disagree

`epoch_rollback_race` is a run of its own. `storage/repository.h:80` says "CURRENT
is never deleted", on the ground that CURRENT is the highest version after a
publish (`local_repository.cpp:258`). Prune does not read CURRENT, and Rollback
takes no lock: one that falls between an insert's publish and its prune points
CURRENT at an old version, which Prune then deletes.

The passing runs stay within the conditions under which the code does what is
said of it. TLC refutes the following outside them. Each row says how to see it:
a definition to add to the `.cfg`, or constants to change.

| Behaviour | Definition | Change to the `.cfg` |
|---|---|---|
| a load and a rollback share `CURRENT.tmp`, and CURRENT becomes an empty file | `CurrentReadable` | `QuiescentRollback = FALSE` |
| a CLI load beside a server insert: the mutex is per process and rows are lost | `NoLostUpdate` | two processes, `ProcOf <- ServerAndCli` |
| a CURRENT that cannot be read is taken for an empty table: version 1 is published again, and pruned as the oldest | `CurrentReadable` | `"misread"` among `Faults`, `MaxVersion = 4` |
| after a rollback the next version is taken, and inserts and loads are refused | `WriterFindsVersionFree` | |
| an entry behind a torn frame is not replayed; zeros are replayed as an entry | `AckedReplayed`, `ReplayedWereAppended` | drop `behind`, `zeroed` from the property |
| a query caches the context of keys that were replaced while it built it | `ContextsAreFresh` | |
| a broken upload overwrites working keys | `StoredKeysLoad` | |
| concurrent registrations leave different keysets on the nodes | `OneKeyset` | |
| a registration reaches only the nodes of the view it read, which may be empty | `ReachesEveryNode` | |
| a node that restarted, or whose keep-alive failed, adopts the leader key of its earlier lease and goes on leading beside the next winner until its next Tick | `OneLeaderWithLease` | |
| a leader that regains the key does not repair the map | `ShardMapFollows` | drop its condition on `faults` |
| a node whose lease lapsed advances the epoch | `OnlyLeaderAdvances` | |
| a failed membership read is taken for a cluster of one | `MembersCovered` | drop `missed` from the property |
| while the cluster epoch is unset an answer mixes epochs | `OneSnapshot` | |
| a query that arrives before the node has joined, or finds an old view, is answered from fewer shards | `AnswersAllShards` | |
| Shutdown waits without a deadline for calls that wait for a peer | `StopAlwaysEnds` | |
| rows of two shards, or of two values of a list, meet in a bucket and are dropped | `SameValueRowsReturned`, `EveryListedRowReturned` | |
| a value repeated in a list makes the server refuse | `RepeatedValueAnswered` | |
| a literal glued to the next word, or a template over the limit, is refused by the server | `TemplateAlwaysParses` | |
| texts with one hash select each other's rows | `PlanMeansWhere` | `Hash <- HashMeets` |
| the shell runs an unbound parameter as 0 | `NoDefaultValue` | `Fronts = {"repl"}` |
| a printed size above 2^63 comes back as a negative number and is refused | `PrintedLoads` | drop its condition on `I64Max` |
| OFFSET + LIMIT wraps at 2^64 and nothing is fetched | `PagesSurviveInserts` | `Limit <- HugeLimits`, `Offset = {0, 1}` |

## 4. Fairness

- `ClusterManager`: weak fairness of every node's `Tick`, which the worker loop
  repeats, and of the expiry of leases nobody renews, which etcd guarantees. No
  fairness is assumed of failures, restarts or publications.
- `NodeServer`: the steps of Shutdown, of which `StopCluster` calls etcd and is
  assumed to return. Calls are not fair, as they have no deadline: a call may stay with
  a peer for ever, and `StopEnds` names the calls it depends on. Neither is the signal.
- `RequestGate`: the three steps of the reload loop.

## 5. What is proved

`tlapm` checks every theorem to the last leaf. The theorems hold for all values
of the constants that satisfy the assumption named in the module: any number of
threads, rows, versions, nodes, leases, principals, keysets, rates and bursts.
The numeric bounds that keep TLC finite are arbitrary naturals there. The
assumptions on constants (`ConstantsAssumption`, `BoundsAssumption`,
`GateAssumption`, `PrincipalAssumption`, `RingAssumption`, `InputAssumption`,
`NumeralAssumption`, `WordAssumption`, `DefaultAssumption`, `WidthAssumption`,
`ConfigurationAssumption`) keep sentinel values apart from ordinary ones and give the
constants their types. Three say more. `PrincipalAssumption`: the token files and
certificates name finitely many principals. `NumeralAssumption` and
`DefaultAssumption`: the sizes that can be printed have numerals, a 32-bit width is
at most a signed 64-bit one, and the defaults fit their widths. TLC evaluates them
all in the runs.

The library's induction theorems take an operator, which the provers cannot
instantiate. Where a proof has to follow a loop over data, it uses `SetInduction`
instead: a set that holds 0 and the successor of each of its numbers holds all
numbers. It rests on the library's theorem on minimal elements of well-founded
orders, and is applied to a set that the proof defines for its own statement. A
recursive function is handled the same way: a function that satisfies the
recursion is shown to exist, and then the definition's CHOOSE satisfies it.

**EpochRepositoryProofs.** `TypeCorrect` needs nothing but the control
invariant. The others assume `Discipline`, the conditions under which the code
keeps its promises: all writers in one process, rollbacks between writes, and a
CURRENT that can be read when it is there. (Section 3 shows for each condition what
happens without it.) Write faults, all other read faults, crashes and power
losses are unrestricted.

- `Invariance`: `Spec => []IInv`.
- `CurrentAlwaysReadable`, `ReportsAreDurable`, `WindowIsKept`, `NoUpdateIsLost`:
  the safety properties of the run `epoch`.

`CurrentReadable` alone is not inductive. A swap makes it true only if the epoch
pointed at is whole, hence `Pointing`. That epoch is whole only if the staging
directory held all three files when it was renamed, hence `Publishing`. It stays
readable only if pruning stays below CURRENT, hence `Removing`; and a power loss
may bring back any survivor, hence `Files`: every survivor is a `GoodRoot`, whose
versions form an interval and whose readable directories are synced. `Locks`
makes at most one thread busy, so that no other thread disturbs these facts.
`Building` says that an insert's base is still the current epoch, which gives
`NoLostUpdate`. Each action's effect on a root is a lemma of its own
(`RenamedRoot`, `SwappedRoot`, `EmptiedRoot`, `DroppedRoot`,
`RootAfterPowerLoss`), and `ProgressStep` has one step per action.

`RepositoryImplementsStore`: under `Discipline`, the repository implements `EpochStore`. The lemmas `AbstractDir`, `AbstractCurrent`
and `AbstractPowerLoss` say how the refinement mapping sees each change of a
root; only the renaming of a complete directory, the swap, the first deletion in
a pruned directory, a directory sync and a power loss are visible, and the other
steps stutter.

**ClusterManagerProofs.** `OneLeader`: of the nodes that take themselves for the
leader, at most one does so on a key that still exists. Nothing is assumed of
failures, lapses or restarts. `OneLiveLeader` says nothing of the key, so the
invariant adds `LeaderKeyHeld`: the key is there only as long as its lease, and while
the key on which a node leads has not lapsed it names that node. `Local` says that a
process that is down holds nothing and that a node without a lease does not lead. A
node's own lease would not do in place of the key's (`OneLeaderWithLease`, section
3). `MembersStay` (`RegisteredStays`): the membership key is put again under every
new lease, and an id that somebody holds is not granted again.

**ClusterProofs.** `AllShardsAnswer` and `MembersAreCovered` of `ClusterQuery`. The
second is about queries that are over; `QueryInv` carries it from the read of the members
to the reply. `Knows` says that a view read after a time has every node that was
a member before it. A cache entry keeps that fact with the time at which it was
taken, whichever thread stored it. An entry is used for less than its lifetime,
so it knows every node that has been a member that long (`Reaches`); the fan-out
adds one partial per shard from the pinned epoch (`OneEach`), and succeeds with
all of them or fails.

The module extends `NodeServer` too, whose specification is `ServerSpec` over
variables of its own, and proves `ListedNodesServe` (`RegisteredServes`) and
`OnlyDepartedRefuse` (`RefusedOnlyByDeparted`) of it. `LifeInv` says where a process
is when etcd lists it: between the end of Start and the beginning of Shutdown, or dead
with its lease not yet lapsed; and that a node once listed serves or has departed.
`AskInv` says of a query that every node it still has to ask does. The lemma
`NodesConnect` adds that any two nodes accept each other's certificates under every
coherent configuration (`Coherent`), when the files could be read. `Validate` accepts
configurations that are not coherent, in which the nodes cannot connect, and the
theorem says nothing of their calls: cluster certificates without a node-to-node listener, or
a server certificate of another authority than the one the dialler trusts.

**TableLoadProofs.** `ShardsPartition` and `ChangesMoveFew`, for every hash and any
number of virtual nodes. `ShardInv` says that what a node kept is what the ring
of its list gives it. The rest is about rings. `OwnerIsGreatest` characterises the
owner of a hash without reference to the order of the list: the greatest id at
the first point. `OwnerOfFewer` says that who owns a hash among many nodes owns it
among fewer. That a set of points has a least element rests on the library's
theorem on well-founded orders.

`PrintedConfigLoads` (`PrintedLoads`): the file that `config print` writes loads as
the configuration it was printed from. `LoadTyped` says that every configuration
`Load` returns has a value of its kind at every key, whichever layer gave it. For
each kind of key (`PrintsSwitch`, `PrintsInteger`, `PrintsTexts`, ...) what is
printed is then read back as that value; the lists need `ConcatPieces`, an
induction over the array that is joined. The only state it needs is `SettingInv`:
the options stay those a process can be given.

`RecordsDecode` (`DecodesToWritten`) and `KeysAreFound` (`SearchesWritten`): whatever
opens is decoded to the cells that were written, and the bits of a search are the
bits of the written value's key. They hold for every number of bits in a byte and of
bytes in an integer, every schema that the parser accepts, every record size, any
cells, any hash, and any sequence of loads, inserts and changes of configuration with
at most one damaged file. `RowsInv` says that every epoch is what `Publish` stored for
the cells written under the columns of the statement, but for damage. Its steps need
that an insert reads back exactly the records it publishes again, so the lemmas on
reading come first, in a module of their own.

**RecordProofs.** The lemmas on records and files. `NumberOfDigits` says that the
bytes of a number are read back as the number; `ColumnDecodes` adds two's complement,
lengths and padding. `PiecesAt` says where a piece begins in what `Concat` joins, from
which `RecordDecodes` follows for payload records and `MatchRecordIs` for the keys.
`Declares` follows the parser of CREATE TABLE token by token: the columns it accepts
are valid, and each name declared KEY or INDEX is a column that can be searched.
`CrcDiffers` is an induction on the bytes behind the changed one; `SegmentSurvives`
uses it to show that a damaged file that still opens has the records that were
written. Damage is that of `Damages`: the file is shorter, or one byte longer, or one
byte differs, or one header field has another small value. Every induction is over `SetInduction`.

**WalProofs.** `ReplayedAreAppended`, `AckedAreReplayed` and `SyncedEntriesStay`,
for every set of values and all bounds. Replay is a loop over the words, so the
proof first gives it a form without recursion: a parse of the log is a sequence of
offsets where frames begin, and what `ReplayWal` returns is what any parse that
ends at a place without a frame holds (`ParseIsReplay`). `WalInv` then says of the
log that it has a parse, with an origin for each of its frames (`Traces`), that
every acknowledged call which found no torn frame is the origin of one in the
synced words, and which part of the frame at hand is written. The step that
matters is `WriteAllStep`: one more word leaves the parse as it is or completes the
frame of the entry being written, because the checksum names the payload it was
computed from. What is written behind a torn frame completes none (`BehindTorn`),
but for the zero of an empty entry that completes the torn frame of another empty
one. A power loss cuts the parse back, not into the synced words, and zeros add
empty frames only (`FoundZeros`).

**ClientKeysProofs.** `CacheMirrorsFile` and `RegistrationReaches`
(`RegisteredReachesView`). The latter speaks of a quiet system after the fact, so
`KeysInv` follows a registration that nothing overlaps (`Solo`): only it and the
handler it waits for are busy, and every node of its view that it need not call any
more holds its keys and no context of older ones (`Progress`). When it returns, all
nodes of the view are such, and until the next registration only queries run, which
read the same file (`Settled`). A crash on the way is covered: files stay, caches are
emptied, and a caller whose peer died fails.

**RequestGateProofs.** `RateBounded`: in every window of time the calls admitted
are at most burst plus refill, for each principal and for the node. The count
alone is not inductive; `RateInv` adds what is left in the bucket: units taken in
the window plus units available now never exceed burst plus rate times elapsed
time. Taking a token moves units from one term to the other, and a tick raises
both sides or only the right one, when the bucket is full. `AdmittedByOneList`: a
call that is handled was permitted by a list in force after it arrived. `ListInv`
adds that a call before its check has seen the list in force, which a swap of the
authenticator has to keep. `GateNotStarved` (`NotStarved`): among at most
`Multiple` principals the global bucket refuses nothing that a principal's own
bucket affords. `ShareInv` lists the principals and keeps the running sums of what
each can take now; the global bucket has at least the last of them. A call takes a
token from both, and a tick adds at most one rate per principal to the sum and
`Multiple` rates to the global bucket. `IdInv` says that whoever is charged is one of
the principals listed.

## 6. What is only model-checked

- Liveness (`StaleLeaderStepsDown`, `LeaderElected`, `ShardMapFollows`, `StopEnds`,
  `ReloadTakesEffect`): the prover has no rules for fairness or ENABLED.
- `CountExact`, `CleanRowsMatch`, `PointQueryComplete` (`Matcher`), `PlanMeansWhere`,
  `TemplateParsesBack`, `SupportedPlanned` (`SqlQuery`), `PagesAnswer` and
  `PagesSurviveInserts` (`ClientQuery`). They say what nested recursions and folds
  over sequences compute: a recursive-descent parser, sums over slots, a sort. Each would
  need an induction of its own for every one of its operators. They are checked
  exhaustively over the bounded inputs above.

## 7. What is not modelled, and why

- Encryption, noise and parameters (SEAL): numeric, and abstracted to the slots a
  ciphertext decrypts to.
- `SerializeRow` and `ParseRow` of `storage/staging`: only tests call them.
- The JSON of the manifest, memory mapping, the syntax of TOML, of numbers and of
  CSV quoting: text formats that libraries or single-pass scanners read. A cell, a
  value or a manifest is modelled by what is read from it.
- Catalog and repository manager: a directory listing and a map under one mutex.
- Command-line parsing, `config init`, token and insert commands, logging, the
  backend registry: no state that outlives a call, around calls that are modelled
  where they act.
- The admin Load stream (`AdminGrpcService::Load`). It gathers the rows that arrive
  and publishes them, also when the stream broke; the loop is the one of Register
  in `ClientKeys`, and Publish is a load in `EpochRepository`. GetStatus and
  ListEpochs report values that no other step uses.
- Readers of an epoch beside Prune: a reader that took a version from CURRENT and
  opens it after the retained number of publishes gets an error. `RollbackWindow`
  bounds from below how many publishes that takes.
- Calls of peers have no deadline. In `NodeServer` a call may stay with a peer for ever;
  in `ClusterQuery` and `ClientKeys` nothing is said to happen eventually.
- The length limit of names, and mistyped values in what `PlanMeansWhere` compares.
- Durability of the keyring's files and of the log's directory entry: neither is
  synced by the code, and nothing is promised of it.
