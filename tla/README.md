# A TLA+ verification of the database engine

The engine is a set of storage engines and services in C++20: a disk manager
and a buffer pool, a B+-tree on top of them, a write-ahead-logged B+-tree
engine, an LSM-tree engine, an in-memory MVCC store, a SQL layer and an HTTP
server. This directory models the parts in which order, interleaving, crashes
and the ends of number ranges matter, checks them with TLC on small instances,
and proves the central facts about most of them with TLAPS for all values of
their constants.

Run from this directory: `tlc -workers 2 -config M_y.cfg M` for a model (`M` is
`MC_MVCC`, `BPlusTree` and so on) and `tlapm P.tla` for the proofs of a module. `PROJECT.json` lists the runs, the mutants
that show what each property rejects, the source lines every definition stands
for, the hazards and the theorems.

## The system and its parts

| Part | Source (`src/src/`) | State it keeps | Modules |
|---|---|---|---|
| MVCC store | `mvcc/` | version chains, transactions in shards, one clock | `MVCCStore`, `SnapshotIsolation`, `MVCCSnapshot`, `MVCCProofs` |
| WAL B+-tree engine | `wal/wal_b_plus_tree_engine.*` | active transactions, undo logs, log, meta page | `WALEngine`, `WALProofs`, `WALData` |
| Log manager | `wal/log_manager.*` | current log page, next LSN | `LogManager`, `AppendOnlyLog`, `LogProofs` |
| LSM engine | `lsm/lsm_tree_engine.*` | memtables, WAL generations, tiers, manifest | `LSMEngine`, `LSMProofs`, `LSMViews` |
| Memtable, skip list, merge iterator | `lsm/memtable.h`, `skip_list.h`, `merge_iterator.*`, `lsm_cursor.h` | nodes and forward pointers, cursors | `MemTable` |
| SSTable, Bloom filter | `lsm/sstable.*`, `bloom_filter.*` | the pages of a table file | `SSTable` |
| Buffer pool | `buffer/buffer_pool_manager.*` | frames, page table, free list | `BufferPool`, `PoolProofs` |
| LRU-K replacer | `buffer/lru_k_replacer.*` | access histories, evictable flags | `LRUKPool`, `PoolProofs` |
| B+-tree and its engine | `index/` | pages, root, metadata page | `BPlusTree`, `KeyValueStore` |
| Disk manager | `storage/disk/` | the file | inside its users' modules |
| SQL catalog, planner, executor, database | `sql/` | tables, rows as key-value pairs | `SQLPlanner`, `SQLDatabase`, `SQLTables`, `Relations`, `HttpProofs` |
| HTTP server, its main, the shell | `http/`, `httpd_main.cpp`, `cli/` | accept loop, stop flag, the file's life | `HttpServer`, `HttpProofs` |
| SQL lexer and parser | `sql/` | | not modelled |
| LRU replacer | `buffer/lru_replacer.*` | | not modelled |

The WAL and B+-tree engines use the tree, the tree uses the buffer pool, the
pool uses the replacer and the disk manager. The WAL engine and the LSM engine
use the log manager. The MVCC store stands alone. The SQL database keeps all
its tables in one storage engine; the shell and the HTTP server each open it.

## Modules

**`MVCCStore`** has one process per transaction and one collector. A step is
what the code does between two synchronisation points. `Begin` draws the start
timestamp and `Register` enters the transaction in its shard, because other
threads run in between. `Write` and `Delete` are followed by
`GetOrCreateChain` and `Push`. `Commit` is followed by `FindChain` per key,
`LockChain` per key in key order, `Validate`, `Mark` and `Erase`; a commit
that loses goes through `Unlink`, as does `Abort`. The collector has
`GCCollect`, `GCLockTable` and `GCSweep`. A value is named by the sequence
number of its version. A chain is a set, since no operation reads its order.
`SnapshotIsolation` is the abstract promise: atomic commits over a snapshot
taken at begin, first committer wins. `MVCCSnapshot` holds the refinement
mapping. Its abstract commit is `Validate`.

**`WALEngine`** has one call at a time, as `mutex_` makes it, with a step for
each write to the log, the tree or a file. It has transactions, live `Abort`,
checkpoints page by page, eviction of dirty pages at any moment (`Evict`), and
recovery in the code's three passes: `RecoverOnStartup`, `Redo`, `Undo` and
`UndoLog`. `Crash` keeps what was written to the files. `LosePower` keeps at
least the fsynced part of the log and, of each page of the database file, which
is never fsynced, the last version or any earlier one: a write (`WritePage`)
may leave the version it replaces on the device (`stable`). The tree is a map
on fixed pages. LSN 0 stands for -1.

**`LogManager`** has pages of `PerPage` records, the buffer of the current
page, the two writes of an `Append` that turns the page with a crash between
them, and reopening. What `ReadRecord` finds for each LSN refines
`AppendOnlyLog`, the sequence `WALEngine` and `LSMEngine` use.

**`LSMEngine`** has clients, the compaction thread and the files. A flush is
`FlushSwap`, `FlushBuild`, `FlushHeader`, `FlushUnlink` and `FlushInstall`. A
compaction is `StartJob` (by `Compact` or by `Help`, the stalled writer), then
`CompactMerge`, `CompactHeader` and `CompactInstall`. `compaction_running_` is
held exactly while there is a job: taking it is one step with the choice of the
tier, releasing it one step with the installation. A file is opened
without truncation: a new table without its header reads as empty, one over an
older file keeps what that file held. The memtable's size is counted in
writes. `CrashPoints` names the situations a crash may come in: `built` (a
table file exists that the manifest does not name), `unlogged` (a flush has
removed its WAL and not persisted the manifest), `recovery`, `dead` (an
exception has ended the process) and `quiet` (all others).

**`MemTable`** composes the live memtable with its paged log (`LogManager`) and
with the tables (`SSTable`). `Put` and `Delete` append and flush the record and
then run `SkipList::Insert` one shared write at a time: `Overwrite`,
`AssignValue` and `AssignDeleted` for a key that is there (its string holds
`Garbage` in between), `NewNode` and a `Link` per level for a new one. `Crash`
and `Replay` rebuild the list from the log. A reader copies the pointers under
the lock and then reads pointer by pointer: `Compare` and `Walk` down the
levels, `CopyValue` and `CopyDeleted` or `AskTables` for `Get`, and
`OpenCursors`, `Advance` and `End` for `Scan`, whose heap of cursors is that of
`LSMMergeIterator`. A pointer that the code reads twice may have changed
between the reads, or not. `Locked` is the assumption of `memtable.h` that no
call reads the list while an insertion changes it.

**`SSTable`** is a pure module: `Build` makes the pages of a table file
(header, data, sparse index, Bloom filter), `Open` reads the table back from
them, `TableGet`, `NewIterator` and `IteratorNext` search it.

**`BufferPool`** has threads that fetch, write, unpin, flush and delete pages
under the pool's latch; the victim is any evictable frame. **`LRUKPool`** adds
the replacer and restricts the victim to what `LRUKReplacer::Evict` picks, in
any order the hash map may yield the frames.

**`BPlusTree`** works page by page, with one step for each level a call
reaches: `Insert`, `Split`, `GrowRoot`, `InsertIntoParent`, `RemoveKey`,
`HandleRootUnderflow`, the loans and the merges, and the engine's
`PersistRootPageIdIfChanged`. It refines `KeyValueStore`, the map of
`storage_engine.h`. Page ids are renamed (the smallest free one is taken). The
key of entry 0 of an internal node, which the code never reads, is left out.
`PoolSpec` adds the failure of `NewPage`.

**`SQLPlanner`** has the keys of `catalog.h` (a table id above a primary key,
with a sign), the encoding of rows, `PlanQuery` and what the executor visits
and fetches from the engine's map. Its integers have the width of a key, so
the ends of `int64_t` are in the model. **`SQLDatabase`** has the catalog and
the statements with each `SqlException` they throw, an `INSERT` whose `Put`
may throw with or without its change made, a `DELETE` that removes its keys one
by one and may fail at each in the same way, and `Restart`, which loses the
catalog and keeps the rows. `SchemaAssumption` is what the proofs use of the
tables; `SameTypesAssumption` restricts the instances to tables that agree on
the types of their common columns. **`HttpServer`** is the life of a database file: a shell,
the HTTP server with its schema file, a shell again. It has the clients, the
loop of `Run`, the blocking read, the responses, and `Stop`. **`SQLTables`**
says what the tables hold and maps the state to **`Relations`**, in which a
table is a set of rows that only its own statements change.

## Runs

Passing runs:

| Run | Instance | Properties |
|---|---|---|
| `mvcc_snapshot` | 2 SNAPSHOT transactions, 2 loaded keys, 2 writes each, 1 collection (never during a `Begin`), 2 shards | `ReadsSnapshot`, `WriteOrderIsCommitOrder`, `PendingHasOwner`, `LatestCommittedKept`, refinement of `SnapshotIsolation` |
| `mvcc_calls` | 2 SERIALIZABLE_SNAPSHOT transactions that read, delete and abort, one key with a version and one without, 1 shard | `FirstCommitterWins`, `SerializableReadsCurrent`, `CallsReturn` |
| `wal_recovery` | 2 transactions per start, 2 keys on 2 pages, clients stop at 6 records, 2 crashes | `CommittedSurvives`, `LosersUndone`, `CompensatedOnce`, `UndoLogIsChain` |
| `wal_synced` | 1 key, clients stop at 5 records, 2 power failures | `CheckpointComplete`, `AckedCommitKept`, `CallsReturn` |
| `lsm_keeps` | 1 client, 2 keys, 4 writes, thresholds 1/2/3, 1 restart | `WritesKept`, `GetIsCurrent`, `ManifestTablesExist`, `CompactionKeepsView` |
| `lsm_threads` | 2 clients, 1 key, 3 writes, tier threshold 2, stall at 3 | `ReadersKeepTables`, `CallsReturn`, `CompactionSettles` |
| `mem_table` | 3 keys, 4 records, 2 a page, heights to 2, 2 tables of 2 entries a page, 1 crash | `MemtableIsLog`, `ReadsShowHeld`, `TablesFindEntries`, `ReadsFindRecords`, refinement of `AppendOnlyLog` |
| `pool_lruk` | 2 threads, 2 frames, 3 pages, K = 2, 5 accesses | `PinnedPageStays`, `NoWriteLost`, `NullMeansAllPinned`, `VictimIsLRUK` |
| `tree_map` | keys 1 to 10, nodes of 3 entries | `LookupFindsContents`, `ScanIsOrdered`, `TreeWellFormed`, refinement of `KeyValueStore` |
| `sql_http` | keys of 2 + 2 bits, 3 tables, 2 clients, a schema file of 5 lines | `SelectIsFilter`, `ServesReadOnly`, `StopReturns`, `ClientsAnswered`, refinement of `Relations` |

Two runs state what the repository says and find that the code differs:

- `mvcc_write_skew` (`NoWriteSkew`): `Commit` skips a read key that has no
  chain when it looks it up, and a chain made after that is neither locked nor
  checked. Under SERIALIZABLE_SNAPSHOT two transactions each read the missing
  key the other inserts. The first looks up the other's key before it is
  written, the second validates while the first one's version is still
  pending, and both commit (`mvcc_store.cpp:184`, against `mvcc_store.h:22`).
- `lsm_unlogged` (`WritesKept`): a flush removes its WAL before the manifest
  names the table (`lsm_tree_engine.cpp:233`, against line 231).

More configurations, kept as documentation and not among the runs of
`PROJECT.json`, show further disagreements; run by hand, each ends in a
counterexample:

| Configuration | Property | What happens | Stated at |
|---|---|---|---|
| `MC_MVCC_gc_race` | `SnapshotStable` | the collector misses a `Begin` between its timestamp and its registration, and removes a version it needs | `mvcc_store.h:58` |
| `MC_WAL_shared` | `CommittedSurvives` | undoing a loser puts an old value over a committed write of the same key | `wal_b_plus_tree_engine.h:51` |
| `MC_WAL_losers` | `LosersUndone` | two losers wrote one key; undone one after the other they leave a loser's value | `wal_b_plus_tree_engine.cpp:445` |
| `MC_WAL_power` | `CommittedSurvives` | a checkpoint never fsyncs the database file; power loss keeps the meta page and loses the pages | `log_manager.h:20` |
| `MC_LSM_orphan` | `WritesKept` | the table id of an unfinished flush is used again over its file | `lsm_tree_engine.cpp:92` |
| `MC_LSM_recovery` | `WritesKept` | a crash in the middle of replay leaves part of the records in a newer WAL, which the next replay applies last: an old value wins | `lsm_tree_engine.cpp:92` |
| `MC_LSM_order` | `WritesKept` | two flushes install their tables in the wrong order | `merge_iterator.h:19` |
| `MC_LSM_window` | `GetIsCurrent` | during a flush the data is in neither place a `Get` looks at | `storage_engine.h:34` |
| `MC_LSM_capacity` | `ManifestFits` | with the code's own sizes tier 0 outgrows the manifest and a flush throws | `lsm_tree_engine.h:60` |
| `MC_Mem_race` | `ReadsShowHeld` | `Get` and `Scan` read the live memtable after `mutex_` is released, and see a value that is being overwritten | `memtable.h:13` |
| `BPlusTree_exhausted` | `LookupFindsContents` | `NewPage` fails after the leaf was split; the right half is unreachable | `b_plus_tree.h:26` |
| `MC_SQL_alias` | `SelectIsFilter` | a point lookup masks its literal to the bits of a primary key and shows another row under it | `planner.h:26` |
| `MC_SQL_reorder` | `SelectIsFilter` | the schema file creates the tables in another order, and a table shows the rows of another | `catalog.h:29` |
| `MC_SQL_silent` | `StopReturns` | a client that connects and sends nothing keeps the server in `read`, and `Stop` without effect | `http_server.h:34` |

The passing runs say what holds once these are set aside: transactions that
write different keys (`IsolatedSpec`), `Begin` and the collector kept apart
(the action constraint `NoBeginDuringGC`), one LSM client where `WritesKept`
and `GetIsCurrent` are checked, crashes of the LSM engine in `quiet` situations
only, readers kept out of a skip list that changes (`Locked`, but iterators
stay open), a pool that has a frame for each new tree page, point lookups of
literals that are primary keys, tables created in one order in every session
(`CreatedInOrder`), and clients that send something or hang up (`FairSpec`).
Those are assumptions on the environment, written in the specifications or the
configurations, not in the actions.

### Why the bounds are enough

Two transactions suffice for a conflict, a lock cycle and write skew, two keys
for a lock order and for a commit that is visible in part. Six log records
hold two transactions with an update each and a checkpoint bracket; recovery
writes its records past the bound. Two crashes put one inside the recovery
from the other. Four writes with a flush per write and a threshold of two
reach a compaction of tier 1 and a table flushed while tier 0 is compacted.
Three pages in two frames force an eviction, and five accesses give frames on
both sides of K = 2. Four records of three keys on pages of two turn a page,
insert a node between two others at both heights, overwrite and delete; the
two tables overlap each other and the memtable, one of them has two pages, and
`TablesFindEntries` builds a table of each subset of five keys, on up to three
pages. Keys of two and two bits give primary keys 0 to 3 and literals -8 to 7:
the statements name both ends of each, and the third table is the first with
negative keys. Two clients make one wait behind the other. Ten keys in nodes
of three build a third level, so internal nodes also split, lend and merge. In
`tree_map` all reachable trees are explored: the run has no other bound. Its
values are one model value, because nothing in the tree looks at a value; an
overwrite is then a step that leaves the contents alone.

The runs use SNAPSHOT and SERIALIZABLE_SNAPSHOT. The proofs cover all levels.

### Fairness

- `MVCCStore`: weak fairness for each transaction inside a call and for a
  running collector. Client calls have none: a client may stop. Weak fairness
  is enough as a thread never waits for a client. `mvcc_calls` runs without
  the collector.
- `WALEngine`: weak fairness for the running call or recovery. Crashes are
  bounded by `MaxCrashes`, so a call ends when they do.
- `LSMEngine`: weak fairness for clients inside a call, for the constructor,
  and for the compaction thread, which wakes at least every 100 ms
  (`CompactionLoop`).
- `HttpServer`: weak fairness for the thread in `Run`, whose `poll` returns
  within 100 ms. `FairSpec` adds that the client whose connection was accepted
  sends something or hangs up, because `read` has no timeout. Nothing makes a
  client connect, nor anyone call `Stop`.

## Proofs

Eight modules hold proofs, each from the named assumptions of its constants
and, where a theorem says so, a condition on the environment that the
corresponding run has too.

**`MVCCProofs`**, for every number of transactions, keys, shards, operations
and collections and all isolation levels: `TypeCorrect` (`Spec => []TypeOK`),
`NoLostUpdate` (`[]FirstCommitterWins`), `NewestSurvives`
(`LatestCommittedKept`). They are about `Spec`, in which the collector may run
at any time, also during a `Begin`: the race of `MC_MVCC_gc_race` harms reads,
not the conflict check.

`FirstCommitterWins` is not inductive. It depends on what `Validate` can see
in the chains, so `IInv` adds: a transaction has a commit timestamp exactly
from `Validate` on (`PcInv`); the clock is ahead of all numbers drawn
(`ClockInv`); a written key has a chain, and a commit that is marking holds the
mutexes of the keys it wrote (`ChainInv`); unmarked writes are still in their
chains (`PendingInv`); committed versions belong to commits past their marking
(`CommittedInv`); and, whatever was collected, the chain of a committed write
holds a committed version at least as new (`CoverInv`). The last needs
`KeptStep`, that the sweep keeps the newest committed version, and
`NewestExists`, that a finite range of timestamps has a largest. The main step
is `ValidateOrder`: when `Validate` accepts, every earlier commit of a key it
wrote has a timestamp below its start.

On `IInv` rest `WritesCommitInOrder` (`[]WriteOrderIsCommitOrder`),
`NoOrphanVersion` (`[]PendingHasOwner`) and `ReadsAreSnapshotReads`
(`[]ReadsSnapshot`). Sequence and commit numbers come from one clock, yet a
transaction may draw its sequence number before another commits, so the order
is not inductive either. `SeqInv` adds that a transaction has at most one
pending version of a key, drawn after its start, and that a committed version
was drawn before its commit timestamp. `MarkInv` adds that, while a commit
marks, everything committed on its keys is older than its start. So a version
drawn later is also committed later. Two commits that mark at once share no
key, since each holds the mutexes of its own. `SerializableReads`
(`[]SerializableReadsCurrent`) adds what `FindChain` does for the keys that
were read: one with an older committed version has a chain, and the commit
locks it (`ReadsInv`).

`StoreImplementsSI` is the refinement of `SnapshotIsolation`, and
`SnapshotsAreStable` (`SnapshotStable`) says that a running snapshot never
changes. Both assume `[]Quiet`: no `Begin` is half way while the collector
runs, the condition of `mvcc_snapshot`. The proof has one lemma per action.
Only `Begin`, `Push`, `Validate`, `Abort` and `Reject` change the abstract
state; `Mark`, `Unlink` and the sweep must be shown to change nothing. `GCInv`
says that every running transaction is registered and that its start timestamp
is among those the collector has gathered, and `SweepKeeps` that the sweep then
spares the newest version at every such timestamp.

**`WALProofs`**: `BracketsWhole` (`[]CheckpointComplete`) and `CommitsKept`
(`AckedCommitKept`), with crashes and power failures at any step. `SyncInv`
keeps the acknowledged part of the log inside the fsynced part. `BracketInv`
says that the meta page, the copy of it that would survive, and the pointer
about to be written name a whole bracket within the fsynced part, and that a
bracket being written has only its `ACTIVE_TXN` records behind it.

`UndoneOnce` (`[]CompensatedOnce`) and `UndoListIsChain` (`[]UndoLogIsChain`)
are about crashes of the process (`~PowerLoss`), any number of them, in
recovery too. An update is *live* when its transaction neither committed nor
compensated it. `UndoInv` says in terms of the log what every phase still has
to do: the links between records are sound and no update has two CLRs
(`LogOK`); the `undo_log` of an open transaction is its chain of live updates
(`OpenInv`), and what is left of it while it aborts (`AbortInv`); while the
engine runs a live update has a transaction that will end it (`LiveInv`); in
recovery it belongs to a loser, and the loser being undone has come as far as
its last CLR says (`LoserInv`); a live update from before a checkpoint is known
to the bracket (`CoverInv`). Without the last two a recovery could miss a
loser, or start over on one.

**`WALData`** builds on both: `CommitsSurvive` (`[]CommittedSurvives`) and
`LosersAreUndone` (`[]LosersUndone`), durability and atomicity of the engine,
for `IsolatedSpec` and crashes of the process. The updates that count for a key
are the live and the committed ones (`Effective`). `DataInv` has three parts.
`Stacked`: replaying all records of a key leaves what the updates that count
leave, and a live update saved what those below it leave. `TreeInv`: the tree
shows each key that way, but for one compensation whose CLR is not logged yet;
in recovery the keys that redo has still to reach are excepted. `DiskInv`: so
does the file, but for keys that redo will write again; this is what a
checkpoint has to establish before it moves the start of redo, and what
eviction at any moment must not spoil. TLC checked `IInv /\ UndoInv /\ DataInv`
on the instance of `wal_recovery` before it was proved.

**`LSMProofs`**, for any clients, keys, thresholds and restarts: `ReadersKept`
(`[]ReadersKeepTables`), with crashes anywhere, and `ManifestTablesComplete`
(`[]ManifestTablesExist`). The first needs that ids are handed out once: `IdInv`
says that no table is in the tiers twice or both there and obsolete
(`TiersInv`), that unfinished flushes have ids of their own (`FlushInv`), and
that the tables being compacted are still the oldest of their tier (`JobInv`).
The second adds what is in the files (`FileInv`) and that a flush still has
its memtable (`MemInv`). **`LSMViews`**: `CompactionKeeps`
(`CompactionKeepsView`), by `MergeInv`, that the output of a compaction stays
the merge of its inputs and the tiers below a bottommost one stay empty, and by
lemmas on `Merge`, `Flatten` and `Without`: merging a stretch of a list of
tables first, dropping its tombstones when nothing is below, changes no lookup.
`ManifestTablesComplete` and `CompactionKeeps` have two conditions, and without
either they are false: no crash while a table file exists that the manifest does
not name (`SafeCrashes`; `MC_LSM_orphan` and `lsm_unlogged` are the other
cases), and tiers that fit the manifest page (`[]ManifestFits`;
`MC_LSM_capacity`).

**`LogProofs`**, for pages of any size: `LogImplements`, that the paged log
refines `AppendOnlyLog`, and `ReadsAreFound` (`[]ReadsFindRecords`), that the
loops of `ReadFrom` return every record. `PagesInv` says where each LSN is: all
pages before the current one are full, and the file holds the current page as
the buffer does unless nothing was stored on it yet, which is the state a crash
at the page turn leaves.

**`PoolProofs`**, for any threads, frames, pages, numbers of pins and any
replacement policy: `PinnedStay`, `WritesStay`, `FullMeansPinned`
(`[]PinnedPageStays`, `[]NoWriteLost`, `[]NullMeansAllPinned`). A victim must
be unpinned, and that is known to the replacer only through its flags, so
`IInv` adds: the page table and the frames agree (`TableInv`); a frame is free
exactly when it has no page, and evictable exactly when it has one without
pins (`FrameInv`); the file has nothing where the next pages will be
(`UseInv`); and the pin count of a frame is the number of pins the threads hold
(`PinInv`, a cardinality). The pool with LRU-K implements the pool with some
policy, so the three carry over (`LRUKKeepsPages`). `LRUKVictim`
(`[]VictimIsLRUK`) proves that the loop of `Evict` finds the best frame for any
order of the hash map, and that `Size()` is the number of frames it may evict:
`HistoryInv` says that a tracked frame has been touched, and the loop is
followed by an induction on the number of frames it has seen.

**`HttpProofs`**, for keys of any width: table ids and primary keys come back
out of a key, the keys of a table lie together, and `PlanFetchesMatching`: the
access path that `PlanQuery` chooses, with its residual filter, fetches exactly
the rows of its table that satisfy the `WHERE` clause. Its one condition is
that a point lookup names a primary key (`PointsAreKeys`; `MC_SQL_alias` is the
other case). `FetchesMatching` carries it to every state that sessions and
requests reach, and `ReadOnlyServer` is `ServesReadOnly`. `IInv` there says
that ids and keys stay in range (`TablesInv`) and that no `DELETE` is
unfinished once the server listens (`DeleteInv`).

Every lemma on steps has one step per action. Where a definition is a recursive
function (`Flatten`, `Evict`, the loops of `ReadFrom`, the chain of undo
records), what it computes is proved for all arguments from the fact that a set
of naturals has a least element (`Least`, from `WFMin` of
`WellFoundedInduction`): the least index at which the claim fails cannot be.

Only model-checked:

- liveness: TLAPS has neither fairness nor ENABLED here;
- `WritesKept` and `GetIsCurrent` of `LSMEngine`. They hold for one client and
  `quiet` crashes and for no wider class the code would justify (`MC_LSM_order`,
  `MC_LSM_window`, `MC_LSM_recovery`); `CompactionKeeps` proves the part of
  them that does not depend on this;
- `MemTable` and `SSTable` (`MemtableIsLog`, `ReadsShowHeld`,
  `TablesFindEntries`): walks along the levels of a skip list that changes one
  pointer at a time, and `Build`, `Open` and `TablesFindEntries`, which are made
  of the library's folds and sorts;
- `BPlusTree` (`LookupFindsContents`, `ScanIsOrdered`, `TreeWellFormed`) and its
  refinement of `KeyValueStore`: what a descent or a scan finds depends on the
  whole shape of the tree, for which an inductive invariant over all depths and
  all half-done splits and merges would be needed;
- `SelectIsFilter` and the refinement of `Relations`, which depend on the order
  of the sessions' `CREATE`s. That a `SELECT` fetches the right rows is
  `FetchesMatching`; that they come out in order is the library's sort.

## Not modelled

- The lexer and the parser, JSON, URLs and terminal I/O: text to values and
  back, without a state to interleave. The shell's commands on raw pages and
  keys. Benchmarks. The LRU replacer, a policy that `PoolProofs` covers.
- The byte layout of pages and tables, short reads and I/O errors, torn writes
  of a page: the code takes a page write as atomic and has no checksums.
- A value over `MAX_VALUE_SIZE`, which `LeafPage::Insert` and the engines
  refuse; rows too large are refused by `EncodeRow`, in the model. An engine
  that throws out of a read.
- Part of a request followed by silence, which blocks `read` as silence does
  (`MC_SQL_silent`): a client of `HttpServer` sends its request whole.
- A connection reset while the response is written, which raises SIGPIPE. A
  shell or server killed in the middle of a statement: the plain B+-tree engine
  promises nothing after a crash.
- `wal_enabled_ = false`, the LSM engine with its WAL off, and power loss in
  the LSM engine.
- A tree page lost in the middle of a split under the WAL engine: `WALEngine`
  has fixed pages.
- In `MemTable`: flushes and compactions beside an open iterator (the tables
  are fixed; `LSMEngine` has them beside `Get`), a crash inside the replay
  (`LSMEngine` has it), the 8-frame pool of a table. Pointer writes are
  sequentially consistent, and an `Advance` of the merge is one step.
- Concurrent calls of `BPlusTreeEngine::PersistRootPageIdIfChanged`;
  `http_server.h:19` says the database is not made for concurrent access.

## Plan

1. Compose `BPlusTree` with the pages of `BufferPool` and the recovery of
   `WALEngine`: what redo does to a tree whose pages were written one by one.
2. Power loss in `LSMEngine`, and a `Scan` across a flush.
3. Proofs for `MemTable` and `BPlusTree`, with their walks as recursive functions.
