# A TLA+ development of USDB

USDB turns the Bitcoin chain into replayable state for a second chain: address balances per
height (`balance-history`) and, on top of them, miner passes and their energy
(`usdb-indexer`). Both services follow a chain that can be reorganised under them, keep
their state in stores that cannot be written together, answer queries from those stores
while they are written, and promise that what they answer for a height is a function of
the chain alone. This directory models the two follow loops and the state machines they
drive, the query services on top of them, the block sources below and the snapshot
transfer beside them; it checks them with TLC on small instances, and proves most of the safety
properties for all instances with TLAPS.

Paths below are relative to `src/src/btc/` of the repository unless they start with `src/`.

## 1. Inventory

```
 bitcoind ──blk files, RPC──▶ balance-history ──snapshot, commits, balances──▶ usdb-indexer ──▶ validators
                              RocksDB + 2 caches                               SQLite + RocksDB + tracker
                                   │  ▲
                            snapshot file (export, install)
```

| Component | State | Operations | Correct when |
|---|---|---|---|
| balance-history store (`balance-history/src/db/db.rs`) | UTXO set, balance rows per (script, height), block commits, undo bundles, `btc_block_height`, rollback markers, undo window | batch write, rollback of one block, rollback/resume, prune | nothing lies above the height; a started rollback can finish; a commit covers the rows of its height |
| balance-history sync loop (`index/indexer.rs`, `index/block.rs`) | target, batch, preload results | resume, tip check, ancestor search, rollback, batch, wait | the store equals a replay of the committed blocks; it converges to the stable tip |
| caches (`cache/*.rs`) | unspent outputs, last balances | put, spend, evict, clear | outside a rollback they agree with the store |
| balance-history service (`service/server.rs`, `service/state_ref.rs`, `status.rs`) | phase, counters, rollback and stop flags | readiness, snapshot and state references, balances, deltas, aggregates, batches | an answer is one state of the chain; refusals are true; never ready inside a rollback |
| block sources (`btc/*.rs`, `cache/block_file.rs`) | blk-file index in memory and in three column families, file cache, prefetch queue | build, restore, clear the index; fetch by height; fall back to RPC | the index is one chain, bitcoind's; a fetched block is the one asked for |
| snapshots (`index/snapshot.rs`, `db/snapshot.rs`) | snapshot file, manifest, signature, staging directory, backups | export, verify, stage, switch | an installed store is a state of the source; trust modes are honoured; the old store is kept |
| miner pass manager (`usdb-indexer/src/index/pass.rs`) | — | mint, invalid mint, transfer, burn | one active pass per owner; life cycles move forward |
| pass storage (`storage/pass.rs`) | current rows, history, block commits, balance snapshots, anchors, synced height, recovery marker | savepoint, rollback, consistency checks, paged queries | current rows are the history's last rows; nothing above the synced height |
| energy (`index/energy.rs`, `energy_formula.rs`, `storage/energy.rs`) | records per (pass, height), pending and synced heights | settle, freeze, consume, begin/finalize/abort, reconcile | agrees with the pass rows; no balance earns twice |
| transfer tracker (`index/transfer.rs`) | outpoint of every live pass, staged copy per block | stage, publish, discard, reload | knows where every live pass is |
| indexer loop and recovery (`index/indexer.rs`) | locals of `sync_once`; upstream snapshot polled by `status.rs` | detect drift, find ancestor, roll back, resume, sync blocks, wait | stores are those of a run that never failed; converges |
| usdb-indexer service (`service/server.rs`) | leaderboard cache, stop flag | readiness gate, state references, contexts, paged queries, leaderboard | an answer is the state of one chain at one height |
| inscription sources, control plane, CLIs, docker, web | — | discovery, aggregation | not modelled, see §8 |

Interaction. balance-history polls bitcoind (height, block hash, one block per RPC), or
reads the blk files bitcoind writes when it is far behind. usdb-indexer polls
balance-history once a second for a snapshot in one task; the sync task reads that snapshot
and calls balance-history for commits and balances and bitcoind for blocks. There is no
subscription and no lock across services: every answer may belong to a different chain.
Inside a process the RPC handlers read the stores of the sync task one statement at a time.

What is hard here:

- **reorgs between any two calls** of a pass: while a batch is loaded, between two blocks
  of a range, between reading a block and reading its commit;
- **several stores per block**: SQLite (savepoint), RocksDB (immediate), memory (swap) in
  usdb-indexer; markers, undo and height as separate writes in balance-history;
- **crashes and errors between these writes**, and recoveries that are interrupted themselves;
- **readers without a transaction**: an answer is put together from several reads while
  blocks are written and taken back;
- **bounded undo**, pruned while the chain moves;
- **caches** that feed the next write or answer a later query;
- **foreign files**: blk files hold stale branches and are appended to while read; a
  snapshot directory may hold artifacts of different exports;
- **state machines over arbitrary event orders**: remint with inheritance, transfers in the
  block of the mint, repeated and foreign `prev` entries.

`PROJECT.json` lists each hazard at its line with the properties that cover it.

## 2. Modules

| Module | Models |
|---|---|
| `BalanceHistoryDB` | the RocksDB store: one operator per write batch or meta write, reads, undo availability |
| `BalanceHistoryIndexer` | the sync loop with caches and readiness, the Bitcoin node, errors, crashes (EXTENDS the store) |
| `BalanceHistoryService` | the JSON-RPC handlers reading between the writes of the sync loop (EXTENDS `BalanceHistoryIndexer`) |
| `BlockSource` | blk files, block index, file cache and prefetch thread, RPC fallback, as the sync loop uses them |
| `Snapshot` | exporter and installer of snapshot files |
| `BalanceHistoryProofs` | theorems about `BalanceHistoryIndexer`: its journal and its commits; its caches and the state it holds |
| `BalanceHistoryServiceProofs` | theorems about the answers of `BalanceHistoryService`, on top of those about the loop |
| `BlockSourceProofs`, `SnapshotProofs` | theorems about `BlockSource` and about `Snapshot` |
| `PassEnergy` | energy formulas, records and block markers as operators |
| `MinerPass` | pass rows, history, rollback, the mint/transfer/burn operations, tracker reload (EXTENDS `PassEnergy`) |
| `InscriptionIndexer` | the sync loop over the pass store, energy store, tracker and upstream (EXTENDS `MinerPass`) |
| `PassStore` | abstract specification of the durable SQLite store: a log of blocks |
| `UsdbIndexerService` | the JSON-RPC handlers of usdb-indexer reading between the writes of the sync task (EXTENDS `InscriptionIndexer`) |
| `MinerPassProofs`, `InscriptionIndexerProofs` | lemmas about the operations on energy records and on pass rows, and the theorems about the loop that uses them |
| `UsdbIndexerServiceProofs` | theorems about the answers of `UsdbIndexerService`, on top of those about the loop |
| `SumProofs` | least and greatest elements, strong induction and the sums of the community modules, for all proofs |
| `MC*` | instances: two scripts and four outputs; two passes and two owners; six blocks in two branches; a source store of two heights; request lists; reference definitions |

The two services are separate models. For usdb-indexer the upstream is a chain whose commit
at height *h* is its prefix of length *h*: this is what `CommitsBindRows` establishes on the
balance-history side (each commit hashes the previous one and the rows of its block).

### How balance-history maps to the code

State: `utxo`, `rows`, `commits`, `undo`, `height`, `supportedFrom`, `retainedFrom` are the
column families and meta keys; `rbInProgress`, `rbTarget`, `rbNext` the rollback markers;
`utxoCache`, `balanceCache` the caches; `statusRollback`, `started`, `statCurrent`,
`statTotal` what the RPC server reads; `pc` and the locals the progress of `sync_once`.

A step is one RPC to the node or one atomic write: `NothingToResume` / `ResumeRollback` /
`ResumeRefused` (`resume_pending_rollback_if_needed`), `GetLatest`, `TipMatches` /
`TipMoved` / `ProbeLower` / `AncestorFound` / `ProbeFails`
(`find_reorg_common_ancestor_height`), `BeginRollback` and the five kinds of write of
`rollback_to_block_height` (`MarkInProgress`, `MarkTarget`, `MarkNext`, then `UndoBlock`
and `PutNext` per block, then `ClearInProgress`, `ClearTarget`, `FinishRollback` which also
clears the caches), `PlanSync`, `LoadBlock` per block of the batch, `FlushBatch` (the whole
of process + flush: one write batch, then the caches), `PruneUndo`, `KeepWaiting` /
`WakeUp`. `EvictUtxo` and `EvictBalance` may drop any cache entry at any time. A panic in
the batch processor (an underflow or a missing output) ends the process like a crash.

Abstractions: an outpoint has a fixed script and value; a block is the sets of outputs it
creates and spends; a block hash is the chain up to it; a commit is the sequence of
(block, root) links, the root being the rows of the block.

### How usdb-indexer maps to the code

`disk` is what SQLite holds durably, `conn` what the connection sees inside the savepoint
of a block; a write outside a block changes both (`WriteBoth`), an error or crash inside it
sets `conn` back to `disk` (the savepoint guard's `Drop`). `en` is the energy store, written
at once. `tracker` and `staged` are the published and staged maps of the transfer tracker.
`status` is the snapshot of the status task and `chain` the upstream itself.

`ReadSnapshot`, `ReadStableHeight` are the two reads at the top of `sync_once`;
`NothingPending`, `ResumePending`, `ResumeEnergy`, `ReloadTracker`, `ClearPending` are
`resume_pending_upstream_reorg_recovery`; `NoDrift`, `DriftFound` are
`detect_upstream_reorg_target`; `AncestorFound`, `ProbeLower`, `ProbeFails` are
`find_common_ancestor_height`; `RollbackPasses` is the one-transaction rollback;
`CheckStores` the three checks before the range. A block is `BeginBlock`, `CollectBlock`
(hint, mints, staged transfers, plan), `ExecuteEvent` per event, `RecordInvalidMints`,
`SettleBalances`, `FinalizeEnergy`, `PersistCommit`, `PublishTracker`, `PutSyncedHeight`,
`CommitSavepoint`. `PersistAnchor`, `Backfill`, `SyncDone`, `KeepWaiting`, `WakeUp` end the
pass. Failures have one action per recovery path of the code: `FailEarly` (a plain `?`
before staging), `FailStaged` and `FailFinalized` (the two branches of
`recover_failed_block_sync`), `FailLate` (the two error branches of `sync_blocks`),
`FailOutside`, `Crash`. Where the state itself makes a call fail (a duplicate primary key, a
missing upstream block, a refused balance change) the failure is forced and costs no fault.

Abstractions: a satpoint is the number of moves the inscription has made; a pass row keeps
state, owner, satpoint and mint height; several history rows of one pass in one block
collapse to the last one, which is the one every reader takes; balances belong to the
block. balance-history and bitcoind are taken to be on the same chain.

`PassStore` is what the rest of the system may rely on after a restart: `AppendBlock`,
`Rollback` (which leaves the recovery marker), `FinishRecovery`, `Adopt` and `Backfill` on a log
with one entry per height. `InscriptionIndexer` maps its `disk` onto it (`Store == INSTANCE
PassStore WITH ...`): the log entry of a height is the history rows, the commit and the
settlement of that height. Savepoint writes are invisible until `CommitSavepoint`.

### How the services map to the code

Both services put one request at a time (`q`) beside the sync task; requests do not change
what others read, except through the leaderboard cache. A step of a handler is one read of
a store: one SQL statement, one RocksDB get or iterator, one look at the in-memory status.

`BalanceHistoryService`: a request is a set of jobs, one per address or output of a batch,
each with its own program counter (the code runs them on a thread pool): `ReadStatus`,
`ReadFlags` and `AnswerReadiness` (`readiness_info`), `ReadStableHeight` and
`ResolveSnapshot` (`build_snapshot_info`, `resolve_queryable_snapshot`), `ReadStateRef`,
`ReadOnce`, `ReadRange`, `ReadStart`, `ReadEnd`. `floor` is the height the request met and
`lowest` the lowest height a rollback reached since; they are history variables and no
handler looks at them. Summaries, time series and flow buckets are the loops of the code as
folds, compared with a definition over blocks that uses neither rows nor folds.

`UsdbIndexerService`: the readiness gate, resolution of a height and of a
consensus context, state references, paged queries (count, then page), single rows, the
energy range and the leaderboard with its cache. The gate is `readiness_info` and
`current_state_for_error_payload` read by read (`ReadStatus`, `ReadRuntime`, `ReadGateHeight`,
`ReadGatePending`; the anchor as `ReadAnchor`, `ReadAnchorHash`, `ReadAnchorCommit`, `ReadAnchorRest`,
because `get_balance_history_snapshot_anchor` takes the lock anew for each of its keys; then
`ReadHeight`, `ReadCommit`, `ReadConsistent`, `ReadSettled`, and `Decide`). `AnchorIncomplete` is an
anchor with a missing row, and `Decide` has both values of `rpc_alive`: the listener answers
before `set_rpc_alive(true)`. Statements see `conn`, so the uncommitted
rows of an open savepoint are visible, as with one shared connection in the code. `moved`
records that blocks were taken back under the request, `stale` that a cached ranking is
older than the last rollback.

### How the block sources map to the code

`BlockSource` has four processes: bitcoind (external: `NodeStores`, `NodeStoresAgain`,
`NodeExtends`, `NodeReorgs`, `NodeResyncs`), the indexer thread, the prefetch thread
(`Prefetch*`) and the supervisor (`Restart`). `Start` chooses the client by the distance to
the tip; `BuildIndex`, `RestoreIndex`, `RejectIndex`, the four writes of `clear_blocks`
(`Clear*`), `ListFiles`, `IndexFile` per file in any order, `SortLoneChild` / `SortFork` /
`ForkUnresolved`, `SaveIndex` are `build_index`; `LoadBlock` is one worker of a batch, through
the LRU, the prefetch queue, the disk or RPC. `PassBegins` is the head of `sync_once` (target and
ancestor, read once), `NextBatch` and `CommitBatch` its batch loop up to the target read at the head (`latest`),
`SyncComplete` drops the local index, `WakeUp` ends `wait_for_new_blocks`. A block is its hash and `Parent` the header
chain; the ledger is reduced to the block stored per height.

### How snapshots map to the code

`Snapshot` has an exporter (`BeginExport`, one step per shard of a table, `NextTable`,
`update_meta`, `WriteManifest`, `WriteSignature`) and an installer (`BeginInstall`,
`AcceptSnapshot` / `RejectSnapshot` by trust mode, one step per page of a table,
`FinishStaging`, and the two renames `BackupLive` and `PromoteStaged`). Either may end
between any two steps and be run again; `DamageFile` changes a file in transit;
`ExportCutShort` is an iterator that fails in the middle of a shard of any of the three sharded
tables. The source has commits for some of its heights: the sync loop writes them from height 1
on and `clear_blocks` may have deleted them; `WriteManifest` fails on a height without one. Hashes are contents,
a signature is a pair of content and key.

## 3. Runs

`tlc -workers 2 -config X.cfg M` in this directory. Times are for two workers.

| Run | Property | States | Time |
|---|---|---|---|
| `bh_safety` | `TypeOK`, `NothingAboveTip`, `UndoCoversRollback`, `JournalTracksHeight`, `CommitsBindRows`, `QueryReadyMeansSettled`, `HeightMoves` | 248k | 31 s |
| `bh_replay` | `StateIsReplay`, `CacheCoherent`, `Converges` | 591k | 75 s |
| `bh_service` | `AnswersAreOneState`, `AggregatesAddUp`, `RefusalsAreTrue`, `ReadyNamesACommit` | 1,239k | 150 s |
| `bh_block_source` | `TypeOK`, `SortedIsAChain`, `IndexFollowsTheNode`, `FetchedIsAsked`, `CatchesUp` | 544k | 60 s |
| `bh_snapshot` | `TypeOK`, `InstalledIsASourceState`, `TrustHonoured`, `CountsMatchUnlessDamaged`, `OldStoreKept` | 683k | 44 s |
| `us_safety` | `TypeOK`, `OneActivePerOwner`, `StoreChecksNeverFail`, `PendingMatchesSynced`, `EnergyAgreesWithPasses`, `EnergyNeverBehind`, `DurableStoreIsALog` | 327k | 87 s |
| `us_replay` | `StoreIsFreshRun`, `TrackerMatchesStore`, `EnergyIsEarnedOnce`, `LifeOnlyMovesForward` | 219k | 32 s |
| `us_liveness` | `Converges` | 45k | 8 s |
| `us_query` | `ServiceTypeOK`, `AnswersAreOneState`, `NoBrokenInvariantReported`, `ShownStateIsOneChain` | 3,022k | 105 s |

`StoreIsFreshRun` compares the stores with `FreshRun`, which executes the committed blocks
one after another on empty stores; it shares the operations of `MinerPass` with the model
and nothing of the loop, so it is about staging, failure, rollback and recovery, while
`EnergyIsEarnedOnce`, `OneActivePerOwner` and `LifeOnlyMovesForward` are about the
operations themselves. `DurableStoreIsALog` is the refinement: every step of the loop, the
failures included, is a step of `PassStore` or leaves the durable store alone.

`StateIsReplay` rests on the undo bundle of a block holding every output it spends that an
earlier block created, also one of the same batch; the design document asks for the opposite,
and its rule is the mutant of this property (§6).

`ShownStateIsOneChain` is what is left of a state shown by `get_readiness` or
`get_system_state_info` that is put together from a dozen reads while blocks are committed: anchor height, anchor
hash, anchor commit and local height are in the order of their reads and on one chain, and the local state is
whole at its height. TLC shows that no more holds: an answer may join the height of one anchor with the
commit of the next, and be ready with the anchor of height *H* and the local state of *H*+1.

The two `AnswersAreOneState` compare an answer that a handler put together from several
reads with what a store at rest would say: for usdb-indexer the store of `FreshRun` on the
chain the answer names, for balance-history the blocks of the committed chain.

Runs that end in a violation, each a disagreement with a sentence of the repository
(quoted in `PROJECT.json`, "findings"):

| Run | What it shows |
|---|---|
| `bh_crash_in_rollback` | rollback markers are separate writes; a crash between two of them can never be resumed |
| `us_restart_tracker` | nothing loads the tracker after a restart |
| `us_leaderboard` | the leaderboard cache is keyed by height and outlives a reorganisation to the same height |

What the passing runs leave out, because the code does not promise it:

- `StateIsReplay`, `CacheCoherent`, both `Converges` and `StoreIsFreshRun` are checked with reorgs
  that happen between passes (`BeforeCheck`). A reorg while a batch or a range is loaded is
  indexed as a mixture of two chains, and the tip check cannot see it; one inside a block
  of usdb-indexer stores old content under the new commit (§6).
- `bh_replay` injects crashes and RPC errors but no RocksDB errors (a failed delete at the end of
  a rollback returns before the caches are cleared), and its `Converges` excepts two states in which every
  later pass fails the same way: a rollback whose resumption is refused (`bh_crash_in_rollback`)
  and a reorg deeper than the undo window (`ReorgBelowUndo`; `UndoRetention` = 2 reaches it with
  chains of three blocks), whose rollback is refused before its first write.
- `us_replay` and `us_liveness` leave out crashes (`us_restart_tracker`), failures after the
  tracker has been published, and chains on which a consumed pass moves (§6).
- The passing sync runs of usdb-indexer have `Genesis` = 1, where the energy marker 0 that a
  failure in the first block leaves is genesis - 1 and accepted (§6).
- `AnswersAreOneState` of `bh_service` excepts a request under which a rollback went below the
  heights it names, that of `us_query` one under which blocks were taken back, and one served
  from a ranking cached before a rollback (`us_leaderboard`). Nothing in the code rechecks the
  chain after the last read, so such an answer may mix two chains.
- A batch that balance-history does not validate against the stable height (latest balances, live
  outputs, and balance changes, with or without heights) is one state per address and not as a
  whole: TLC finds the addresses of one batch at different tips for each of the three.
- `ShownStateIsOneChain` claims nothing when blocks were taken back under the query: readiness may then say
  ready of parts of two chains.
- `us_query` leaves out the answers of `get_latest_active_balance_snapshot`, which shows the
  newest row even if its block is still to be committed, and starts every pass with a fresh
  poll (`PolledFirst`): with a stale one the adopted anchor and the anchors backfilled from a
  reorganised upstream can name another chain than the commits.
- `CatchesUp` excepts the three `Stuck` states: `CommitsLost`, the commit of a height that the ancestor search
  probes was deleted by `clear_blocks`, as happens when a store that has synced rejects a restored index;
  `BuildRefused`, a block that bitcoind wrote twice is in complete blk files and the node is too far behind
  for the RPC client, so that every start fails; `RecordMissing`, a restored index of other blk files points
  behind the end of one that the pass has to read. It claims the tip only: a reorg between two
  batches of a pass is not noticed in that pass, and blocks of two chains stay below the tip. `IndexFollowsTheNode` excepts a height whose block is still in the open
  blk file, where a stale block without a known sibling is taken as it is. It and `SortedIsAChain`
  except an index restored from rows of two builds (`layout.mem` = None, §6).
- `InstalledIsASourceState` excepts a shard that an iterator error cut short: nothing notices it. The source
  of the run has all commits from height 1; sources without some of them are covered by the theorem.

Everything in `bh_safety` and `us_safety` holds with reorgs at every step and every kind of
failure.

### Bounds

- `MaxLength` = 3 blocks, `BatchSize` = 2: a pass has a full and a partial batch, a rollback
  can cross a batch boundary and stop inside a batch. `UndoRetention` = 2 in `bh_safety` and `bh_replay`
  makes a reorg of depth 3 meet a pruned window. `StableLag` = 0: the lag only shifts the
  chain the indexer sees.
- Block bodies (balance-history): create an output; spend an output of an earlier block (of
  the same or another batch) and create one; create two and spend one within the block.
- Block bodies (usdb-indexer): mint, sell, remint with inheritance, sell-and-inherit in one
  block with a repeated `prev`, burn, invalid mint, move to the same owner, mint by another
  owner with a foreign `prev`. `us_safety` has chains of two blocks and reorgs and faults
  everywhere; `us_replay` has three, which a pass needs to be minted, sold and consumed or
  moved again.
- One reorg (two in `bh_replay`) and one fault: the recoveries are re-entered after the fault, and a
  second reorg reaches no new kind of state because recovery restarts from the durable
  stores. `MaxEvents` = 2 events per block.
- `PollBeforeRead` (an action constraint of the usdb-indexer runs that need it) lets the status
  task poll only when the sync task is about to read the result; other polls commute with the
  steps in between.
- Services: two branches that part above the first block, one reorg while the loop waits, one
  crash, and a request list with every method, with heights and ranges below, at and above
  the tip and contexts that match and do not. `ReaderWindow` names the points between the
  writes at which a handler may read: a read commutes with the loop's steps that change
  nothing a handler sees. `Relevant` drops combinations that cannot matter (the stop flag to
  anything but readiness, the cache to anything but the leaderboard, what happens after the
  answer was given).
- Blocks: six blocks, the branches `a1 a2` and `b1 b2 b3` above the genesis block, and files of two records in two
  orders of arrival, one with a child before its parent; one reorg, one fault, one requested stop; a
  file cache and a prefetch queue of one entry, so that both are always at their limit. `BatchSize` = 1
  gives a pass up to three batches with a reorg between them; the theorems are for any batch size. A fork that the
  node cannot resolve because its own block is still in the open file does not occur in this instance.
- Snapshots: a source at height 2 with an emptied script and tables that fill a page exactly and
  one and a half pages; two exports and two installations with one fault, so that artifacts
  of two exports meet and an installation follows an interrupted one.
- Energy constants are 1, 2 and 3 so that growth and penalty are visible; `U64Max` is out
  of reach in these runs.

### Fairness

The sync tasks loop for ever and their calls return (with an answer or an error), the
status task polls every second, a supervisor restarts a dead process: weak fairness of the
loop's own steps, of the poll and of restart. For usdb-indexer the weakly fair
action includes the failures forced by the state, which are steps of the task too. In
`BlockSource` bitcoind also connects the blocks it has stored. Nothing
is assumed about the chain, evictions, errors, crashes, requests or the prefetch thread.

## 4. Proofs

`tlapm M.tla` for each module below, from a few seconds to seven minutes. Everything is proved for every
value of the constants: sets of chains, blocks and passes, batch, cache and queue sizes,
lags, retention, genesis height, and any number of reorgs and faults.

| Module | Theorem | States |
|---|---|---|
| `BalanceHistoryProofs` | `TypeCorrect` | `Spec => []TypeOK` |
| | `NothingAboveTipAlways` | `Spec => []NothingAboveTip` |
| | `RollbackNeverStarves` | `Spec => []UndoCoversRollback` |
| | `JournalTracksHeightAlways` | `Spec => []JournalTracksHeight` |
| | `QueryReadyIsSafe` | `Spec => []QueryReadyMeansSettled` |
| | `HeightMovesAlways` | `Spec => HeightMoves` |
| | `CommitsBindRowsAlways` | `Spec => []CommitsBindRows` |
| | `CachesStayCoherent` | no RocksDB errors: `Spec => []CacheCoherent` |
| | `StoreIsReplay` | `ReplayConditions`: `Spec => []StateIsReplay` |
| | `NeverPanics` | `ReplayConditions`: `Spec => []NoPanic` |
| `BalanceHistoryServiceProofs` | `ServiceOnlyReads` | `ServiceSpec => Spec` |
| | `ServiceAnswersAreOneState` | `ReplayConditions`: `ServiceSpec => []AnswersAreOneState` |
| | `ServiceRefusalsAreTrue` | `ReplayConditions`: `ServiceSpec => []RefusalsAreTrue` |
| | `ServiceReadyNamesACommit` | `ReplayConditions`: `ServiceSpec => []ReadyNamesACommit` |
| `BlockSourceProofs` | `TypeCorrect` | `Spec => []TypeOK` |
| | `IndexIsAChain` | `Spec => []SortedIsAChain` |
| | `IndexFollows` | `Spec => []IndexFollowsTheNode` |
| | `FetchesRightBlock` | `Spec => []FetchedIsAsked` |
| `SnapshotProofs` | `TypeCorrect` | `Spec => []TypeOK` |
| | `InstalledIsASourceStateAlways` | `Spec => []InstalledIsASourceState` |
| | `TrustHonouredAlways` | `Spec => []TrustHonoured` |
| | `CountsMatch` | `Spec => []CountsMatchUnlessDamaged` |
| | `OldStoreIsKept` | `Spec => []OldStoreKept` |
| `InscriptionIndexerProofs` | `TypeCorrect` | `Spec => []TypeOK` |
| | `OneActive` | `Spec => []OneActivePerOwner` |
| | `ChecksNeverFail` | `Spec => []StoreChecksNeverFail` |
| | `PendingIsSynced` | `Spec => []PendingMatchesSynced` |
| | `EnergyAgrees` | `Spec => []EnergyAgreesWithPasses` |
| | `EnergyKeepsUp` | `Spec => []EnergyNeverBehind` |
| | `LifeMovesForward` | `Spec => [][RevivesNone]_vars`, the first half of `LifeOnlyMovesForward` |
| | `LifeMovesForwardAlways` | no late failures: `Spec => LifeOnlyMovesForward` |
| | `TrackerMatches` | no late failures, no crashes: `Spec => []TrackerMatchesStore` |
| | `EnergyEarnedOnce` | the chain stands still inside a pass: `Spec => []EnergyIsEarnedOnce` |
| | `StoreIsALog` | `Spec => DurableStoreIsALog`, the refinement of `PassStore` |
| `UsdbIndexerServiceProofs` | `ServiceOnlyReads` | `ServiceSpec => Spec` |
| | `NoneReportedBroken` | `ServiceSpec => []NoBrokenInvariantReported` |
| | `AnswersAreRead` | `ServiceSpec => []AnswersAreOneRead` |

`SumProofs` and `MinerPassProofs` hold lemmas only.

### Assumptions

- Those of the modules on their constants: chains are sequences of blocks (of at most `MaxHeight`
  blocks for usdb-indexer), the blocks, the passes and the outputs of a block are finite
  sets, configuration values are naturals, batch and capacity values are positive, the genesis
  block is the one block whose parent is the zero hash, the tables of the exporting store are finite
  and its commits are of heights up to its own. TLC evaluates them on every run.
- `CachesStayCoherent`: RocksDB calls do not fail (§3 has the failure that breaks it).
- `RequestAssumption`, for each service: a request has the shape the parameter types of rpc.rs give it (for
  balance-history, a state reference is asked for by height, an aggregate over a range, each selector of a consensus
  context occurs once; for usdb-indexer, heights are unsigned and the latest balance snapshot takes
  no parameters).
- `LifeMovesForwardAlways` and `TrackerMatches`: no failure between the swap of the tracker and the
  commit of the savepoint, after which the tracker is a block ahead of the store. `TrackerMatches`
  also has no crash: nothing loads the tracker at a start (`us_restart_tracker`).
- `EnergyEarnedOnce`: the upstream's chain does not change at the points of `Steady`, which are those from
  the end of the drift test, or of the ancestor search, to the end of the block loop of the same pass
  (`UpstreamWindow \cap Steady = {}`); it may change everywhere else, also during the search. A change inside
  a pass mixes two chains below a matching tip (§6), and then there is no chain whose balances could
  bound the energy. Every kind of failure, crashes included, and any number of reorgs are covered. The
  window of `us_replay` satisfies the condition.
- The theorems about the usdb-indexer service have no condition: handlers may read at any point of
  the sync task, under any faults and reorgs.
- `ReplayConditions`, for `StoreIsReplay`, `NeverPanics` and the answers of the service: every chain is valid (`ValidChain`: an output
  is created once, and spent only when it is there, which is what bitcoind checks), the node's
  chain is replaced at any point of a pass up to the end of the ancestor search, or while the loop
  waits, and not while a batch is loaded, and RocksDB calls do not fail. Crashes and RPC errors may happen at
  every step. These are the conditions of `bh_replay`.

### Arguments

None of the properties is inductive alone. Each module has one inductive invariant `IInv`,
proved once (`Inductive`), with one step per action; the theorems are read off from it.

`BalanceHistoryProofs`. Next to the properties themselves `IInv` has

- `LoadedOK`, `BatchOK`: a block loaded for height *h* is a chain of *h* bodies, and while a batch
  is loaded `cur` is the height plus one; without them a flush could leave a gap in the commits;
- `UndoCoversRows`: an undo bundle names every script that has a row at its height; without it
  undoing a block could lower the height and leave one of its rows above it;
- `MarkerOK`: which markers are set at which step of the rollback, and that none is set outside
  it unless an interrupted pass left it; resuming needs it to re-establish the loop's locals.

`LedgerOK` adds that a commit is a chain as long as its height, each link with the rows of that
height (`CommitsAreChains`, `CommitsBindRows`).

`CacheInv` says at which steps the caches agree with the store: at all
but those of a rollback, which clears them at its end. `ReplayInv` is the statement behind
`StoreIsReplay`: there is *some* valid chain that the store holds (rows, unspent outputs, undo
bundles and commits), and the node's chain agrees with it up to the height the pass has
established; during a rollback that is only the target. What a block writes is compared with the replay block by block:
a balance is a sum over a set of outputs, a flush adds the
outputs of the batch to the sum, an undo takes those of one block away (`SumProofs`). `NeverPanics` follows
because a loaded batch belongs to the chain the store holds.

`BalanceHistoryServiceProofs`. A handler changes `q` only, so the service implements the loop
(`ServiceOnlyReads`) and inherits `ReplayInv`: the store holds a chain. `ServiceInv` adds `RequestInv`, what
a request in progress knows: every step it took was true of the chain held then (`JobOK`), and while no rollback went
below the heights it names, that chain agrees with the one held now up to those heights, so that what was
read stays right (`Undisturbed`; a flush keeps every row at or below the old height, an undo every row below the
block it takes back). For a request that names heights and is validated
this is one chain for all its jobs; for any other, one for each job. Answers are compared with `Expected`, which is defined over the blocks of the chain: a row
is a difference of two sums, a range of rows is the ascending enumeration of the heights with
a difference (`AscendingExists`, by the least set without one). A request without heights is right for one
of the tips between its first and its last read, which `floor` and `lowest` delimit.

`MinerPassProofs`, `InscriptionIndexerProofs`. `IInv` is `TypeOK`, `ControlOK` (the locals of the loop at
each step), `DurableOK` of the durable store, `BlockOK` while a block is open, and `EnergyOK`:

- `DurableOK`: current rows are the last rows of the history, a pass is minted once, nothing lies
  above the synced height, every block has its balance snapshot, and at *every* height of the history an owner has
  one active pass, since a rollback may make any of them the current one;
- `BlockOK`: the connection differs from the durable store at the height of the open block only,
  so that dropping the savepoint restores `DurableOK` and committing it is one `AppendBlock` of `PassStore`;
- `EnergyOK`: the energy store is ahead of the durable pass store and never behind; its records up to the
  synced height agree with the pass rows there, also while its records above belong to a block
  whose savepoint was dropped, and those are gone before the next block starts.

The operations of a block (mint with inheritance, transfer, burn, in any number and order) are
lemmas of `MinerPassProofs`: each keeps `TablesOK`, one active pass per owner and the
agreement of records with rows. `EnergyNeverBehind` starts at a synced height of genesis - 1: below it
the marker of a failed first block is what §6 describes.

`TrackInv` says which tracker map agrees with which store at each step: the published map with the durable
store until the swap, with the connection after it; the staged map with what the connection will hold when the planned
events are done. The plan is a walk over the events of a block, so the last claim is about what is left
of it: for each pass, the row now, followed by the events still planned for it, ends where the map says
(`Follows`). The walk is a recursive function; what it does to one pass is proved
event by event (`WalkPass`). An event that the plan holds for a row that is not there makes its block fail
(`Doomed`), and a failed block never publishes its map. An invalid mint is not in the map, so no event is
ever planned for it: this is the second half of `LifeOnlyMovesForward`.

`EarnInv` is what `EnergyEarnedOnce` needs on top of `IInv`. The property is about the tip; the invariant states it
for *every* committed block, since a rollback may make any of them the tip: the commits below it are prefixes of
its chain, each active pass's last record holds the balance its owner has had on that chain ever since, and the energy
of the live passes is at most what was earned below (`EarnedAtCommit`). The middle part is what makes the bound hold for
the next block: growth is computed from the record's balance, and only if this is the owner's balance is it what the
block allows (`HeldGrows`). While a block is open the same is said of its rows and records (`EarnedInBlock`), where a
record may lag one block until the balances are settled. Each operation of a block creates no energy (`ExecuteCreatesNone`,
`SettleCreatesNone`): a mint moves the energy of the consumed passes to the new one, which takes a lemma about
moving a part of a sum (`SumMoves`), and the owners of a height can be counted instead of its active passes because no
owner has two (`OwnersEarn`, from `OneActivePerOwner`). `OnTheChain` says when the stores are known to be on the
upstream's chain, which the drift test establishes at the tip and the ancestor search at its target.
With a chain that stands still the records of committed blocks are never touched, not even by a failed block
(`RecordsSteps`): the gap filling of `update_pass_energy` has nothing to fill, because every committed block settled
the balances of the same chain.

`UsdbIndexerServiceProofs`. A handler changes `q` and the leaderboard cache only, so the service implements
the loop and inherits its `IInv`. `QueryOK` adds the query in progress: which steps a method takes, that a height it has resolved
is at most the synced one, and that what it has read is still what the store holds (`StillTrue`). The last holds because history rows,
commits and balance snapshots at or below the synced height of the connection change only in a step that lowers this height
(`SyncedBlocksStay`): an open block writes above it, and the height follows as the last write. A step that
lowers it marks the query as moved. `OneActivePerOwner` at every height then excludes a duplicate, and
`RowsHavePasses` (a pass with a history row has a current row) excludes an active pass without
its rows. Not covered by `AnswersAreOneRead` are the energy queries (after a reorg inside a pass `update_pass_energy` may fill in
records below the synced height), the pages that read the current table (recent and invalid passes), state references (anchors
are rewritten by a backfill) and the ranking.

`BlockSourceProofs`. `IInv` has a part per piece of state: `NodeOK` (bitcoind's chain is a chain),
`CacheOK` (what is cached or queued of a file is a prefix of it, because bitcoind only appends),
`LayoutOK` (entries of an index of the present files are right; appending keeps them right), `StoreOK` (a saved index of one
build is a chain), `IndexOK`, `FollowOK`, `LedgerOK` (the blocks of a batch are those right above
the ledger) and `FetchOK`. `IndexFollowsTheNode` needs a second half in `FollowOK`: above bitcoind's tip the index has no
siblings, for there bitcoind could not have been asked. For a restored index it follows from
the tip alone: two chains that meet at one block are equal below it (`ChainsMeet`).

`SnapshotProofs`. The invariant follows the rows. While a file is written, each of its tables is the source's
table restricted to the shards done so far, and the counts are the numbers of its rows; a shard that
was cut short leaves a key out for good, so the count of its table stays below the source's
(`ExportOK`). A file with metadata, and the content a manifest describes, is therefore *complete*: the counts
are those of the tables, and when no row was cut off the tables are the source's. Damage after the export
changes the rows of the file and neither its counts nor the hash in a manifest, which is why an installation
under a manifest works from a complete file, and one without may panic (`ArtifactsOK`). During an
installation the staged table holds the keys up to the last one read (`InstallOK`). That the pages
are exact is `ShortPageIsLast` (the least key a short page left out would have `PageSize` keys
before it) and `FullPage` (the keys up to the greatest key of a full page are those done before
and the page). A signature is over a manifest whose hash is of content its key has signed; this
survives every overwriting of files and manifests because signatures hold the manifest they
were made from. The directories need only one more fact: while the live directory is missing there is a
backup, and the node's own store is the live one or a backup (`TargetOK`).

`SumProofs` replaces induction over data: a statement about all finite sets or all lengths is proved by
taking the least size at which it fails (`LeastNat`, from the well-foundedness of the
naturals), since the provers cannot instantiate the induction theorems of the library.

### Only model-checked

- Liveness: both `Converges` and `CatchesUp` (fairness is out of the prover's reach).
- `StoreIsFreshRun`, and `AnswersAreOneState` and `ShownStateIsOneChain` of `us_query`: they compare with a recursive
  reference run; the refinement of `PassStore`, `EnergyAgrees` and `AnswersAreRead` are what is proved of the same hazards.
- `AggregatesAddUp`: what a fold over the rows computes is induction over data.
- `ServiceTypeOK`: the length of the cached ranking is that of a sorted sequence, and sorting is opaque to the provers.

## 5. Mutants

Every property of a passing run has a mutant: an operator next to the one it replaces that
changes it as a plausible bug would (`*_keeps_commit`, `*_off_by_one`, `*_skipped`, ...). TLC
finds the property violated when the mutant takes the place of the original.

## 6. Findings

With a run: the three of §3. In short: balance-history's rollback journal is not atomic,
usdb-indexer's in-memory tracker is not loaded at start, and its leaderboard cache does not
notice a reorganisation. The safety core (stores never above their height, undo always
sufficient, energy and pass stores in step, one active pass per owner, durable state a log
of whole blocks, answers of one state) holds under all modelled failures.

Seen while modelling, with the models of this directory or by reading, and without a run of
their own:

- Both loops trust that answers of different calls belong to one chain and compare only the
  tip. A reorg while a batch of balance-history is loaded, or between two blocks of one range of
  usdb-indexer, leaves commits of two chains below a matching tip. A reorg inside a block of
  usdb-indexer stores the old content under the new commit, and a later mint of the same
  inscription is then refused for ever.
- The rollback design document, `src/doc/balance-history/balance-history-rollback数据模型设计.md` lines 457-459, wants
  outputs created and spent in one batch left out of the spent journal
  ("同批次内创建又花掉的临时 UTXO 不应写入 spent undo journal，否则会在 rollback 时错误恢复出从未对外持久化过的中间态").
  `block.rs` leaves out only those of one *block*, and it is right: a rollback that undoes the spending block and keeps the
  creating one must bring the output back. The document's rule is `NeedFlush_other_batches_only`, which
  violates `StateIsReplay`.
- The mixed batch of the first point passes `CommitsBindRows`: each of its commits covers the rows it was written with.
- `get_readiness` and `get_system_state_info` of usdb-indexer read the anchor key by key and the height once more for the
  local state: the answer may be torn over two heights, and still say ready; over two chains when a recovery falls between
  the reads.
- A contextual query of usdb-indexer skips the readiness gate while `rpc_alive` is false (`server.rs` line 495, for the
  sake of unit tests), and the listener is already answering when it is set (line 156).
- A batch of balance changes, latest balances or live outputs of balance-history is not validated against
  the stable height and may show its addresses at two tips.
- `calc_incremental_growth` subtracts two totals that saturate at `u64::MAX`: at a multiplier of 10,000 a balance of 1000 BTC
  stops earning after about 18,400 blocks, some four months.
- balance-history reports consensus-ready between the end of a rollback and the next status
  update, from counters that still show the old height.
- With a genesis above 1 a failure in the first block sets the energy marker below
  genesis - 1, an error no retry repairs.
- A reload of the tracker forgets consumed passes that a running tracker follows, so their
  later moves are recorded or not depending on the restart.
- The tracker is published before the SQLite commit and not taken back when that fails
  (`FailLate`); below genesis the loop does not sleep between passes.
- `clear_blocks` deletes the block commits with the block index while the height stays, so the
  next ancestor search has nothing to compare with;
  `src/doc/btc-reorg风险现状与改造计划.md` line 153 says it touches block index metadata only.
- `put_blocks_sync` writes the new index over the old one and deletes nothing. A crash in
  `clear_blocks` after its first delete leaves the rows of the old index without the meta key
  that would have them validated; if the next build is shorter (bitcoind started over), the
  higher rows survive under a new meta key, and a later restart restores a mixture of two
  builds: `validate_loaded_block_index` compares contiguity, presence and one tip hash, which
  may be right for a chain that is broken in the middle.
  `src/doc/balance-history/balance-history-review-remediation-plan.md` line 225 says that running
  on a dirty index no longer happens ("不再出现“看上去恢复了，实际上带着脏索引运行”的情况").
  The attempt to prove `SortedIsAChain` without an exception led to it.
- The switch of an installed snapshot is two renames where the comment at `index/snapshot.rs` line 960 says
  "atomically"; after a
  crash between them the node starts with an empty store, the old one being in the backup.
- A failed delete in `clear_rollback_state` skips the clearing of the caches (`DbError` at
  `clear_target`, `clear_next`).
- A burned pass keeps its energy record, which the draft
  `src/doc/UIP/UIP-0002-pass-state-machine.md` words differently.

## 7. Plan

Done: both loops, both services, block sources, snapshots, the durable store as a refinement,
and the proofs about both loops, both services, the block sources and the snapshots. What is left to
TLC is listed at the end of §4, with the reasons.

## 8. Not modelled

- Inscription discovery (bitcoind and ord sources and their comparison) and satpoint
  arithmetic: pure parsing; the model starts from the events of a block.
- Of the services: the script registry and provenance record of balance-history,
  `get_rpc_info` and the sync status of usdb-indexer, the clients, and the diagnostic payload of
  errors.
- CLIs, `usdb-control-plane`, web and docker: they call the services above and merge or print
  the answers; the control plane keeps no state of its own.
- Verification and address tools: offline, no state shared with the loops.
- Of the block sources: parsing of blk records and the retry delays of the RPC client.
  Of snapshots: SQLite pragmas, key generation, file formats.
- `usdb-util`: types and hashing; a hash is modelled as its preimage.
- The memory monitor's arithmetic: evictions may happen at any time, whatever it computes.
- Graceful shutdown of the loops: it is looked at between passes and batches only; a crash
  covers it (the block index build, which can be stopped half way, has it as an action).
- Column-family options, key encodings, batching of the balance loader, progress output.
