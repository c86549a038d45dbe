# Redbit: TLA+ models, checks and proofs

Redbit is an embedded store (many redb databases behind entities whose code is
generated by macros) and a chain indexer on top of it: it follows a blockchain
node, processes blocks in a pipeline of tasks and commits each block into one
database per column, from which a REST server answers. These modules model it
from the node's requests down to the tables and back up to the answers. File
names below are relative to the repository.

## Inventory

| Part | State | Operations | Interaction |
|---|---|---|---|
| Block providers `chains/*/src`, `chain/src/block_stream.rs`, `redbit/src/retry.rs` | requests under way, retries, open batch | tip, stream by height or by chain-sync, lookup by hash; from a raw block to rows; the hook that resolves inputs; address codecs | ask the node, feed the sync |
| Reorder buffer `chain/src/reorder_buffer.rs` | `next_height`, `pending`, `max_seen`, `dropped_too_low` | `insert`, `is_saturated`, `gap_span` | called by the sort task for each block |
| Batchers `chain/src/size_batcher.rs`, `weight_batcher.rs` | buffer, running byte or weight counter | `push`, `push_with`, `flush`, `take_all` | size batcher in the fetch task, weight batcher in the sort task |
| Sync pipeline `chain/src/syncer.rs`, `scheduler.rs`, `combine.rs` | fetch, process and sort tasks, persist thread, three bounded channels, shutdown flag | `sync`, task steps, abort, signal, ticks | node -> fetch -> process -> sort -> persist -> databases |
| Fork handling `chain/src/syncer.rs` (`chain_link`, `persist_or_link`), `macros/src/entity/chain.rs` | header table, hash index | link, store, update (delete then store), validate at launch | persist thread asks the node for parents |
| Launcher and storage initialisation `chain/src/launcher.rs`, `redbit/src/storage/init.rs`, `cache.rs` | directory, databases, cache shares, shutdown flag | create or open, sample block, validate, first sync, run, teardown | owns what the others use |
| Write transaction `redbit/src/storage/context.rs`, `table_writer*.rs`, `tx_fsm.rs` | per column a writer thread, a command channel, an open transaction, a database | begin, write, query and write, deferred flush, commit with the root last, shutdown | persist thread is the master of all writers; an index writer reports to the columns that depend on it |
| Sharded columns `redbit/src/storage/router.rs`, `partitioning.rs`, `table_*_read.rs` | a queue, a buffer and a table per shard | routed inserts, deletes, ranges, queries and their end; sharded reads | between a context and its writers |
| Sort buffer `redbit/src/storage/sort_buffer.rs` | at most one sorted run per level | append, merge, take | collects the rows of a transaction before the flush |
| Index tables `redbit/src/storage/table_index*.rs` | key -> value, value -> keys, LRU cache | `insert_kv`, `insert_many_sorted_by_key`, `delete_kv`, `get_any_for_index` | inside a writer's transaction |
| Dictionary tables `redbit/src/storage/table_dict*.rs` | four tables around a birth id per value, LRU cache | the same, and `dict_keys` | inside a writer's transaction |
| Entities `macros/src/{entity,pk,column,relationship}` | the tables of a tree of entities | `persist`, `store_many`, `remove`, filters, queries by key, value, range and parent | one write context per call; read contexts open while it commits |
| REST `macros/src/endpoint.rs`, `redbit/src/rest.rs` | none | choice of the handler, status and items of the answer | above the queries |
| Keys and columns `redbit/src/macro_rules.rs` | none | bytes, order, ranges of children, text | below everything that is ordered by key |
| `derive(Entity)` `macros/src/field_parser.rs`, `table.rs`, `storage.rs` | none at run time | from the fields of a struct to columns, order, tables, databases | decides the order the transactions rely on |
| Monitoring, settings, text codecs, samples and generated tests | none that others depend on | | not modelled, see the end |

Hard behaviours: out-of-order completion of parallel requests and of processing;
requests that fail, are answered with an error body or never; a node that
switches branches between two requests of one call; tasks that die with full or
empty channels; signals and aborts at any point; one commit spread over many
databases, with readers that open them one by one; the dependent columns'
handshake before a flush; answers of several shards in any order; the gap between
the two transactions of a fork update; crashes while a storage is created; caches
that outlive what they cache; keys and counters at the end of their range.
`PROJECT.json` lists the hazards at their lines with the properties aimed at them.

## Modules

| Module | Models | Composition |
|---|---|---|
| `ReorderBuffer` | the buffer, with a history of arrivals and releases | inside `SortTask`; proved in `SortTaskProofs` |
| `SizeBatcher`, `WeightBatcher` | the batchers as operators on their state | in `BlockFetch` and `SortTask` |
| `SortTask` | the sort task: reorder buffer, then weight batcher, then batches | extends `ReorderBuffer`; proved in `SortTaskProofs` |
| `BlockFetch` | a provider, its clients and the block stream of one sync against a node that grows, switches and fails, for five chains | extends `AddressCodec`, `BlockProcessing`; the stream proved in `BlockFetchProofs` |
| `BlockProcessing`, `AddressCodec` | from a raw block to rows and resolved inputs; scripts, indexed bytes and text of addresses, per chain | operators |
| `SyncPipeline` | one sync after another: four actors, channels, failures, abort, signal | own copies of the buffers' control, heights as blocks, a chain that only grows; proved in `SyncPipelineProofs` |
| `ForkSync` | reorganisations: linking, fork update, validation, over databases that commit one by one | the pipeline reduced to "fetch by height, persist in order" (what `SyncPipeline` establishes), the writer threads to "the columns commit in any order, the root last" (what `WriteTx` establishes); proved in `ForkSyncProofs` |
| `Launcher`, `CacheAllocation` | a process from launch to exit and the next ones; the split of the cache | a sync is one step that runs, ends, fails or is wedged; storage and cache proved in `LauncherProofs` |
| `WriteTx` | one context with its writers and databases | the commit that `SyncPipeline` takes as one step and `ForkSync` as one step a database; proved in `WriteTxProofs` |
| `Partitioning`, `ShardedColumn` | one column over several shards, from the caller's routing to the readers | the shards' queues and answers in any order; proved in `ShardedColumnProofs` |
| `SortBuffer`, `BufferedIndex` | the buffer of a writer; an index table behind it | `BufferedIndex` extends `IndexTable` and instantiates `SortBuffer` |
| `LruCache` | the crate lru as the tables use it (external) | extended by `CachedTable`; its lemmas are in `TableProofs` |
| `CachedTable`, `IndexTable`, `DictTable` | a column's tables inside a transaction; what the two kinds share is in `CachedTable` | both extend `CachedTable`; proved in `TableProofs` |
| `KeyCodec`, `Entity`, `EntityQuery`, `EntityRest`, `EntityStore` | keys; storing and deleting; queries and filters; handlers; the life of the tables with a reader | each extends the one before |
| `EntityMacro` | the schema `derive(Entity)` makes of structs | its result is the schema `MCEntityStore` runs |

`MC...` modules hold the instances; `MCTables` runs a column with an index or with a
dictionary. State and actions keep the names of the code.
Some correspondences that are not obvious:

* In `SyncPipeline` the actions `Fetch*`, `Proc*`, `Sort*` and `Persist*` are the
  steps between two await points (or blocking calls) of the task of that name; a
  channel is a sequence with its capacity in the sender's guard, and a dropped
  end is visible in the other side's task state. `SyncAbort` and `*Aborted` are
  the shutdown arm of the select; `SignalReceived` is `combine::futures` dropping
  the sync future while the spawned tasks go on.
* In `WriteTx` the master's `pc` is the position in
  `two_phase_commit_with` / `update_blocks`; each writer has a queue, a thread
  state ("outer" or in a transaction) and the rows of its transaction, its
  database (`db`) and the part of it a crash keeps (`safe`). The columns are one
  root key, one header column, one queried index, one column that depends on it
  and plain columns.
* In `ForkSync` a block is known by the chain that leads to it (`ChainOf`), so
  "the parent by hash" is an element of that chain. The databases are the key
  column of the header, its hash index (with the reverse table, `index`), its
  other columns and the key column of the block; `tx` and `pending` are the
  transaction and the databases that have not committed it. `cut` remembers that a
  fork was stored without its lower part or a transaction committed in some
  databases only, the two things after which the tables are not one chain.
* In `BlockFetch` a block is known by its height and branch; what the chains do
  differently (requests per call, attempts, timeouts, the byte order of hashes,
  chain-sync instead of requests by height) is a record per chain. A run starts
  from each chain in turn.
* In `ShardedColumn` the caller's calls and the steps of the shards' threads
  interleave; a ghost keeps what an unsharded column would hold and answer.
* In the table modules a batch insert runs pair by pair with every other
  operation disabled, so that the lag of the deferred rows is part of the state.
* In `Entity` a table is a function from keys to values and a key a sequence of
  indexes; the generated code of an entity is one recursive operator over the
  schema. A write commits table by table (`tx`), a reader opens table by table.

Operators whose comment starts with "Mutant:" are broken variants of the
definition they precede. They are not part of the specification; replacing the
definition by one shows that the property named for it in `PROJECT.json` notices
the bug. A property that is a conjunction has a mutant for each of its parts.

## Runs

All runs use `tlc -config <cfg> <module>`. Bounds are the constants named `Max...`
and the sizes of the sets in the cfg and the `MC` module.

| Run | Shows |
|---|---|
| `sort_task` | heights are released in order, once, first come first served, nothing is withheld, and everything released leaves in batches cut at the weight, the last one included. Six heights, two kinds of blocks, duplicates and heights below the start |
| `block_stream` | each height once and under its own height; batches within the byte limit; no retry given up early; a stream that ends by itself is complete; streams end. Rows of a block have keys of their own, inputs resolve, addresses are told apart and read back. Five chains, three heights, three faults, a branch switch between any two requests |
| `sync_pipeline` | the headers are a gapless prefix after every commit; within a sync fewer than `non_durable_batches` latest batches can be lost; every sync ends and a shutdown stops everything, a wedged writer apart. Several syncs over four heights, one failure anywhere (commits included), wrap-around of the u32 subtraction |
| `fork_sync` | as long as no write was cut short every database holds one linked chain, also between two commits, and between transactions they and the hash index agree; a fork update never deletes what its branch has, cut short or not. Three branches, switches at any time, a refused parent at any depth, one failing lookup or commit and one crash; no branch is deeper than `fork_detection_heights` |
| `launcher` | a storage in use has one file of its own for each shard, the same in each launch; the cache split keeps to its budget and to the weights; a shutdown exits, unless a persist thread is wedged. 48 column layouts, four cache sizes, two launches, signals, failing steps and kills, during a creation too |
| `write_tx` | a root key has all its columns, an acknowledged store all its rows, no command outside its transaction, no transaction gets stuck; failing steps and commits, an update, crashes, two contexts |
| `sharded_column` | rows are read back where they were written, deletes, and ranges of an unsharded plain column, answer as one table would, queries are answered by position and every shard reports. One and three shards, by key and by value, four calls over two transactions |
| `tables` | a writer's buffer drains sorted and complete, its galloping merge is the plain one; the directions of an index are inverse and a value resolves to one of its keys; in a dictionary keys read back, a birth id leads to exactly the keys that point to it and cached birth ids are current. Eight pairs in runs of up to four, four keys, batches with more values than the cache holds |
| `entity_store` | the tables hold what was stored and not removed, answers of writes are true; a reader that opens tables while they commit reads every instance committed before it whole; filters, tail, queries by value and their endpoints agree with the stored instances, those with an empty one-to-many relationship apart, which a filter may drop; keys keep their order and ranges their children; the macro derives the schema. Three heights in variants, three operations, five filters |

Runs that show a disagreement between the code and what the repository says of
it (details and quotes under `findings` in `PROJECT.json`):

| Run | The code |
|---|---|
| `fork_hang` | a fork update on a context that has stored before waits for ever: the deferred flag is never reset (`table_writer.rs:52`) |
| `fork_lookup` | looks a parent up by the stored byte order of its hash, which is not the one the node answers to: no fork is ever replaced (`rest_client.rs:100`) |
| `tip_lag` | what is left in `proc_buf` when the stream closes is never sent, in no sync: light blocks at the tip are not indexed (`syncer.rs:124`). No failure is needed |

Where a passing run has to leave out a case in which the code fails, its properties
say so themselves: `~cut` in `HeadersAreAChain` and `IndexExact`, `wedged` in
`TasksEnd` and `ShutdownExits`, `Childless` in `QueriesExact`. The following are not
runs of their own; adding the invariant to the cfg gives the counterexample:

| Invariant added | Fails because |
|---|---|
| `ForkSync.cfg`: `OneWinningFork` | when a parent below the direct one is refused, the callers of the refused lookup store their blocks all the same, on top of the superseded fork (`syncer.rs:302`). `chain/README.md:9` says "only one winning fork is kept in the DB at given moment" |
| `WriteTx.cfg`: `ResumesComplete` | after a crash between the databases' commits indexing resumes above a height whose columns were not committed (`table_writer.rs:129`); `chain/README.md:40` promises to "keep utxo state valid at any time regardless of crashes" |
| `Tables.cfg`: `Deduplicated` | a new value that occurs twice in a batch gets two birth ids when it was evicted in between, or always without a cache, the default of a dictionary (`table_dict_write.rs:122`); of single inserts the test at `table_dict_write.rs:348` says "table reverse index must dedup even without cache hit" |
| `Launcher.cfg`: `OpensWhatExists` | a launch killed before its last database is created leaves a directory no later launch can open (`init.rs:201`); the message at `init.rs:209` expects the previous process to have been killed |
| `Launcher.cfg`: `NoSampleIndexed` | a first launch killed between storing and removing the sample block leaves it; the next one syncs on top of it (`entity/init.rs:14`) |
| `Launcher.cfg`: `CacheAsConfigured` | cache shares in megabytes are set as bytes when a database is created (`init.rs:151`) and not at all when it is opened (`init.rs:174`); `README.md:39` says "`db_cache_size_gb` is split proportionally by weights" |
| `EntityStore.cfg`: `FiltersAreConjunctions` | a query drops what meets its constraints when a one-to-many relationship it says nothing about is empty (`relationship/init.rs:103`); `README.md:55` says "with logical `AND`" |
| `SyncPipeline.cfg`: `undurable <= NonDurableBatches` | `batch_counter` restarts with each sync (`syncer.rs:201`) |
| `Tables.cfg`: `AnyForIndex(v)` is the smallest key of `v` | the cache holds the key inserted last (`table_index_write.rs:67`) |
| `Tables.cfg`: pairs with equal keys drain in the order they arrived | the reduction merges the shortest run first, whichever came first; the test at `sort_buffer.rs:691` says "earlier run entries with equal keys must precede later ones" |

Other passing runs stay inside limits that the code needs:

| Change | Then |
|---|---|
| `SyncPipeline`: `SyncCompletes` or `ShutdownStops` without `wedged` | fails: after a failed commit an orphaned writer keeps its database's write lock, the next sync's persist thread waits for it and no shutdown ends it (`syncer.rs:229`) |
| `ForkSync.cfg`: `ForkDetectionHeights = 1`, without the assumption `TreeIsShallow` | `HeadersAreAChain` fails: blocks at or below the detection height are stored on a superseded tip (`syncer.rs:324`) |
| `EntityStore.cfg`: `IndexShards = 2` | `QueriesExact` fails: a range on an index in several databases panics (`table_index_read.rs:80`); no entity of the repository has one |
| `ShardedColumn.cfg`, `EntityStore.cfg`: `Overwrites = TRUE` | `RowsFound` and `ReadsAreWhole` fail: storing over a key that is present leaves rows of the old value behind (`table_index_write.rs:13`); the restart after an unlinked header does this (`launcher.rs:148`) |

Why the bounds are enough: the buffers and tables distinguish heights, keys and
values by order and equality only, and three or four of each make every
combination of branch, eviction and duplicate happen. A pipeline of four heights
with channels of capacity one reaches every combination of a full, an empty and
a closed channel with a task that has died; every other block fills a batch by
itself, the others wait for company. In `ForkSync` the trunk reaches up to
the fork detection height of the deepest tip, so that batch mode, linking and
storing unlinked all occur; `U32` is small so that the subtraction wraps. In
`BlockFetch` two requests run at a time over three heights, faults are as many as
the attempts of a height, and the index types are a few bits wide. Eight pairs
fill three levels of the sort buffer. Three shards, one of them without a value of
a query, and keys of two bytes make residues, hashes and positions differ. The
tree of entities has every kind of relationship, an absent and a present option,
an empty list and three levels of keys; a byte has four values, so that indexes
reach the end of their range.

`CHECK_DEADLOCK FALSE` is set where the system may stop for good: after a
shutdown, at the end of a stream, or when a bound on operations, launches or the
node's chain is reached.

## Fairness

Weak fairness of the steps of a running task or thread: tokio and the operating
system schedule a runnable task eventually. In `SyncPipeline`
requests to the node are answered or fail; in `BlockFetch` one may remain
unanswered, and only what a shutdown promises holds then. The scheduler's tick is
assumed to come, a commit to end, a select that sees the shutdown flag again and
again to take that arm (the one strong fairness, `SchedulerStops`). In `Launcher`
the steps of a launch are fair, and a sync ends once the shutdown is requested
(`TasksEnd` of `SyncPipeline`) unless its persist thread is wedged: in the delete of
a fork update (`fork_hang`) or on the lock of an orphaned writer. Such a process does
not exit by itself. Nothing is assumed about signals, failures, crashes or the
node's growth. `ForkSync` states safety only and assumes no fairness.

## Proofs

TLAPS checks the proof modules (`tlapm <module>`); the theorems hold for every
value of the constants that the named assumptions of the modules admit. Each
safety theorem rests on an invariant that is inductive: `IInv`, a conjunction of
named parts, with a lemma for the initial state and one for each action or branch
of an action. What is said of sequences, tables and caches again and again is
stated once in lemmas.

| Module | Theorems | Hypotheses | What makes the invariant inductive |
|---|---|---|---|
| `SortTaskProofs` | `TypeCorrect`, `GlobalOrder`, `NothingWithheld`, `GapSpanCorrect`; `TaskImplementsBuffer`, `BatchesCorrect` | none | that released blocks are first arrivals needs pending blocks to be; that nothing is withheld needs to know that what arrived and was not released is pending; that a batch is cut in time needs the open one to be below both limits (`OpenBatchSmall`) and its running weight to be its own |
| `BlockFetchProofs` | `StreamCorrect`, `CompletionCorrect` | none | what a call knows at each of its requests and how many attempts it has used (`TipCall`, `FlightCall`); every height asked for is in flight or was passed on, once, so that blocks passed on and calls in flight add up to the heights asked for (`ItemsInv`); for chain-sync, the branch the cursor is on was passed on up to the cursor, and a cursor on the new branch is on the main chain (`CursorInv`) |
| `SyncPipelineProofs` | `TypeCorrect`, `StoresAPrefix`, `BoundedLoss` | none | fetch and process tasks may hand over any heights, so it starts at the reorder buffer: while the persist thread listens, the queued batches continue the stored blocks (`QueueInv`), and the batch handed out, the open one and the released blocks continue the queue up to `next_height` (`SortInv`); the loss needs only the counters (`CountInv`) |
| `ForkSyncProofs` | `TypeCorrect`, `RollbackSound`; `OneChain`, `IndexCorrect` | `ShallowForks`, for the last two | the walk down a fork stops at the first indexed parent, so what it passed is in no row it deletes (`RollbackInv`), whatever state the tables are in; while no write was cut short, the databases that have committed hold the new tables and the others the old ones (`TxInv`), the header table is the chain of one block cut at some height (`ChainInv`), what was fetched up to the fork detection height is on the branch of the tip the sync found (`FetchInv`), the batch being linked ends below `next` and nothing is stored at its heights (`LinkInv`), and between the two transactions of an update the table ends where the fork begins (`UpdateInv`) |
| `WriteTxProofs` | `TypeCorrect`, `RootIsBacked`, `AcknowledgedIsStored`, `InScope` | none | for every position of the master, the commands a writer's queue can hold and how far its transaction is (`WriterOK`); how far the master has waited (`MasterInv`); the deferred flush, below |
| `TableProofs` (index) | `IndexTypeCorrect`, `DirectionsInverse`, `AnyCorrect` | none | inside a batch the reverse rows are those of the keys outside it, Run 1 has written exactly the keys it has passed, and a cached key has the value it is cached for |
| `TableProofs` (dictionary) | `TypeCorrect`, `ValuesReadBack`, `CacheAgrees`, `BirthsLeadToKeys` | none | every stored key has a birth id whose value is in the table (`BirthInv`); the keys of a birth id are in the table or deferred (`KeysInv`); what Run 2 defers is what is missing (`BatchInv`) |
| `ShardedColumnProofs` | `ColumnInvariant`, `RowsCorrect`, `AnswersCorrect`, `QueriesCorrect` | `Overwrites = FALSE` | where every row is, in a table or in a queue, and that it is there once (`PlaceInv`); where a delete that waits will find its key (`RemoveInv`); what a query in a queue will find (`QueryInv`), below |
| `LauncherProofs` | `TypeCorrect`, `ShardsKeepFiles`, `CacheSplit` | none | where a creation has come to, shard by shard (`CreateInv`), and that what is in use is the layout, on disk (`OpenedInv`), however many creations were interrupted before |

The two hypotheses are limits that the code needs; the table above names what
fails beyond each of them: branches that part above the fork detection height, and
callers that store no key which is there already. TLC evaluates
`ShallowForks` on the instance of `fork_sync` (`TreeIsShallow`). The assumptions
on constants are those of the modules (`...Assumption`): bounds are natural
numbers, `None` is no value, dictionaries and sharded columns have finitely many
keys, whose encodings are bytes, the columns of a
program have natural weights and shards, the writers a transaction waits for are
listed once each, a capacity is not zero and a limit in bytes or weights fits
`usize` (the batcher of raw blocks takes a number of kilobytes, never `usize::MAX`).

The deferred flush of `WriteTx` is the delicate case. A dependent may commit when
it has counted as many `Ready` messages as there are index shards. The invariant
names the set of shards whose rows it has buffered (`Collected`): the count is the
size of that set, less the one whose `Ready` is next in the queue; a shard in it
has no query left; a `Merge` in the queue is of a shard outside it. So the count
reaches the number of shards only when the set is all of them, and then nothing is
on its way. That rows and their `Ready` are sent as a pair and arrive as one
(`Paired`) is part of it.

In `ShardedColumn` the caller runs ahead of the shards, so the invariant counts the
commands in the queues as part of the column. A key is in one place: in the table
of the shard its row belongs to, or in one row of one command on its way there; and
the caller knows of it, unless it is deleting it. A delete of an indexed key asks
shard after shard, so what is known of it while it waits is that the key is in none
of the shards it has passed, and whether it is in one ahead. A query in a queue will
find what was stored when it was made: the keys its shard's table has for the value,
and those that the commands ahead of it bring; when such a command is taken, they
move from the queue to the table and the sum stays. That shards which write and read
by different functions agree is arithmetic: the fold of `partition_bytes_le`, which
keeps both the sum and the weight modulo the number of shards, is the rest of the
number the bytes encode, for keys of any length (`ChunkIsResidue`), and the rows of
the shards, which are disjoint, add up to those of the column (`RowsCounted`).

`CacheSplit` is arithmetic. The floors of the quotas lose as many megabytes in all
as the remainders add up to, divided by the sum of the weights; every remainder is
below that sum, so that fewer megabytes are left over than columns have a
weight. The columns are ranked by `Before`, a column is served when its rank is
below what is left over, and as the ranks of a finite list are 0, 1, 2 and so on,
exactly that many columns are: the shares add up to the total. A heavier column
has no smaller floor, and with an equal floor no smaller remainder.

Sums, batches, folds and lists of bytes are proved about by induction over the natural numbers in
the form "a set that contains 0 and every successor is `Nat`" (`NatInd`), which
follows from the least element of a set and needs no operator as a parameter.

`OneChain` and `IndexCorrect` are about all that happens before a write is cut short;
the counterexamples to `OneWinningFork` show that it cannot be claimed after.
`RollbackSound` needs no such condition: that an update deletes only what its branch
replaces follows from the walk itself, for any contents of the tables.

Only model-checked, and why:

* liveness (`TasksEnd`, `ShutdownExits`, `EndsInTime`) and `NeverStuck`, which is about `ENABLED`;
* what a `RECURSIVE` operator computes: the runs and merges of `SortBuffer`, and
  `Entity` with all that extends it, which walks a schema;
* `RowsSound`, whose parts are about given blocks and scripts (`TxsOf`, `Scripts`):
  TLC evaluates them on the blocks and scripts that are there.

## Not modelled

Logging, statistics and the reading of settings (no state that other parts depend
on; settings are constants); the text codecs around `serde_with` (hex, base64,
UTF-8) and sample values; the tests, benchmarks and OpenAPI descriptions the
macros generate; the parsing of scripts and of CBOR, base58, bech32, cashaddr and
bincode (libraries; their results are external inputs). In the models that are
there: a fork is absent from `SyncPipeline`; `ForkSync` leaves out what a crash takes back
of commits without durability; the write transaction, the shards of a column and the tables are
three models of one path rather than one (their product is out of reach), so that
columns have one shard in the table modules and a sharded table is a function in
`ShardedColumn`; a signal that is lost between the two calls of
`combine::futures` has no later effect in `Launcher`; entities are stored and
removed through the root, as the indexer does, although every child has endpoints
of its own; rows are inserted under free keys (`IndexTable`) or increasing keys
(`DictTable`, `Fresh`), a restriction of the callers that the tables do not check and
that the indexer keeps outside the restart after an unlinked header; ranges are asked
of columns with one shard, as the others panic.

## Plan

1. Core (done): reorder buffer, batchers, pipeline, fork handling, write
   transaction, index and dictionary tables; proofs for the buffer and the index.
2. Extend (done): sort task and sort buffer, providers and hooks, launcher and
   cache allocation, sharded columns, entities with their queries, endpoints, keys
   and macros.
3. Prove (done): the pipeline's prefix and its bounded loss; the chain, the index
   and the rollbacks of `ForkSync`; the commit over many databases; the
   dictionary; the storage of `Launcher` and the split of its cache; the batches of
   the sort task; the stream of `BlockFetch` and its completeness; the
   rows, answers and queries of a column over its shards.
