---------------------------- MODULE BlockSource ----------------------------
(***************************************************************************)
(* Where the balance-history sync loop gets its blocks from: bitcoind's    *)
(* RPC, or, when the store is far behind, the blk files bitcoind writes    *)
(* (btc/local_loader.rs, btc/file_indexer.rs, cache/block_file.rs), read   *)
(* through a block index kept in three column families of the store.       *)
(*                                                                         *)
(* Processes: bitcoind (external: it appends records to the last blk file  *)
(* and moves its best chain), the indexer thread (start, build or restore  *)
(* the index, then fetch blocks in any order within a batch), the prefetch *)
(* thread of the file cache, and the supervisor that restarts a process.   *)
(*                                                                         *)
(* A block is its hash; Parent fixes the header chain.  What a pass does   *)
(* with a block is the business of BalanceHistoryIndexer: here the ledger  *)
(* is just the block stored at each height, with the set of heights that   *)
(* have a block commit.                                                    *)
(***************************************************************************)
EXTENDS Integers, Sequences, FiniteSets, SequencesExt

CONSTANTS
    Block,              \* block hashes
    Genesis,            \* the block of height 0
    Zero,               \* the all-zero hash: the genesis block's prev_blockhash
    Parent,             \* prev_blockhash of every block
    Arrivals,           \* bound: orders in which bitcoind may write the blocks
    RecordsPerFile,     \* bound: records bitcoind puts in one blk file
    RestoreWindow,      \* 10 blk files in should_try_restore_from_db
    LoaderThreshold,    \* sync.local_loader_threshold
    StableLag,          \* BALANCE_HISTORY_STABLE_LAG
    BatchSize,          \* sync.batch_size
    CacheCapacity,      \* BLOCK_FILE_CACHE_MAX_CAPACITY
    PrefetchCapacity,   \* BLOCK_FILE_PREFETCH_QUEUE_CAPACITY
    MaxRequests,        \* bound: waiting prefetch requests that are kept
    MaxStops,           \* bound on requested shutdowns
    MaxReorgs,          \* bound on best-chain replacements
    MaxFaults,          \* bound on the faults below
    Faults              \* subset of {"crash", "rpc", "duplicate", "resync"}

None == -1
NoBlock == "none"

ASSUME BlockAssumption ==
    /\ Genesis \in Block /\ IsFiniteSet(Block)
    /\ Parent \in [Block -> Block \cup {Zero}]
    /\ Zero \notin Block
    /\ Arrivals \subseteq Seq(Block)
    /\ \A b \in Block : Parent[b] = Zero <=> b = Genesis

ASSUME BoundAssumption ==
    /\ RecordsPerFile \in Nat \ {0} /\ BatchSize \in Nat \ {0}
    /\ CacheCapacity \in Nat \ {0} /\ PrefetchCapacity \in Nat \ {0}
    /\ RestoreWindow \in Nat /\ LoaderThreshold \in Nat /\ StableLag \in Nat
    /\ MaxRequests \in Nat /\ MaxStops \in Nat /\ MaxReorgs \in Nat /\ MaxFaults \in Nat

VARIABLES
    arrival,    \* the blocks bitcoind has still to write
    files,      \* blk files: a sequence of sequences of records; the last is open
    best,       \* bitcoind's best chain, genesis first
    dbBlocks,   \* BLOCKS_CF: hash -> <<file index, record index>>
    dbHeights,  \* BLOCK_HEIGHTS_CF: height -> hash
    dbLast,     \* META last_block_file_index, or None
    ledger,     \* the block indexed at heights 1, 2, ...
    commits,    \* heights with a row in BLOCK_COMMITS_CF
    pc,         \* the indexer thread
    client,     \* "rpc" or "local"
    idx,        \* block_hash_cache: hash -> <<file index, record index>>
    sorted,     \* sorted_blocks, by height
    pending,    \* blk files still to index, or heights of the batch still to load
    latest,     \* sync_once: latest_btc_height, read once for all batches of a pass
    batch,      \* the blocks of the current batch, by height
    fileCache,  \* LRU of <<file index, records>>, most recent first
    queue,      \* prefetched <<file index, records>>, oldest first
    fetched,    \* the last block read through the file cache: [asked, got]
    prefetch,   \* [latest, request, load, alive] of the prefetch thread
    channel,    \* prefetch requests not yet received
    moved,      \* the best chain was replaced since the index build began
    layout,     \* [now, db, mem]: the blk file layout of files and of the index in the
                \* store and in memory, None for one put together from two builds
    reorgs, faults, stops

nodeVars == <<arrival, files, best, reorgs>>
storeVars == <<dbBlocks, dbHeights, dbLast, ledger, commits>>
indexVars == <<idx, sorted>>
cacheVars == <<fileCache, queue, fetched, prefetch, channel>>
vars == <<nodeVars, storeVars, pc, client, indexVars, pending, latest, batch, cacheVars,
          moved, layout, faults, stops>>

Up == pc \notin {"down", "new"}
\* f with the entries of g written over it.
Put(f, g) == [x \in DOMAIN f \cup DOMAIN g |-> IF x \in DOMAIN g THEN g[x] ELSE f[x]]

Fault(f) == f \in Faults /\ faults < MaxFaults /\ faults' = faults + 1

(***************************************************************************)
(* bitcoind.                                                               *)
(***************************************************************************)
LatestFile == Len(files) - 1
Records(f) == files[f + 1]
Stored == UNION {Range(files[i]) : i \in DOMAIN files}
TipHeight == Len(best) - 1
RpcHash(h) == best[h + 1]

\* A record goes to the open file, or to a new one when that is full.
Append1(b) ==
    files' = IF Len(files[Len(files)]) < RecordsPerFile
             THEN [files EXCEPT ![Len(files)] = Append(@, b)]
             ELSE Append(files, <<b>>)

\* Blocks are written in the order they arrive, which may not be chain order.
NodeStores ==
    /\ arrival # << >>
    /\ Append1(Head(arrival))
    /\ arrival' = Tail(arrival)
    /\ UNCHANGED <<best, reorgs, storeVars, pc, client, indexVars, pending, latest, batch,
                   cacheVars, moved, layout, faults, stops>>

\* After an unclean stop bitcoind may download and write a block again.
NodeStoresAgain ==
    /\ Fault("duplicate")
    /\ \E b \in Stored : Append1(b)
    /\ UNCHANGED <<arrival, best, reorgs, storeVars, pc, client, indexVars, pending, latest, batch,
                   cacheVars, moved, layout, stops>>

\* The best chain grows by a stored block.
NodeExtends ==
    /\ \E b \in Stored : Parent[b] = best[Len(best)] /\ best' = Append(best, b)
    /\ UNCHANGED <<arrival, files, reorgs, storeVars, pc, client, indexVars, pending, latest, batch,
                   cacheVars, moved, layout, faults, stops>>

\* The best chain is replaced above height k by a longer stored branch.
NodeReorgs ==
    /\ reorgs < MaxReorgs
    /\ \E k \in 1..TipHeight :
         \E branch \in [1..(Len(best) - k + 1) -> Stored] :
            /\ branch[1] # best[k + 1]
            /\ Parent[branch[1]] = best[k]
            /\ \A i \in 2..Len(branch) : Parent[branch[i]] = branch[i - 1]
            /\ best' = SubSeq(best, 1, k) \o branch
    /\ reorgs' = reorgs + 1
    /\ moved' = TRUE
    /\ UNCHANGED <<arrival, files, storeVars, pc, client, indexVars, pending, latest, batch,
                   cacheVars, layout, faults, stops>>

(***************************************************************************)
(* Starting the indexer (index/indexer.rs, BalanceHistoryIndexer::new).    *)
(***************************************************************************)
StableTarget == IF TipHeight > StableLag THEN TipHeight - StableLag ELSE 0
BlocksBehind == IF StableTarget > Len(ledger) THEN StableTarget - Len(ledger) ELSE 0

EmptyIndex_keeps_sorted == idx' = << >> /\ UNCHANGED sorted

EmptyIndex == idx' = << >> /\ sorted' = << >>

\* A new file cache: its prefetch thread notes the latest blk file once.
NewFileCache ==
    /\ fileCache' = << >>
    /\ queue' = << >>
    /\ fetched' = [asked |-> NoBlock, got |-> NoBlock]
    /\ prefetch' = [latest |-> LatestFile, request |-> None, load |-> None, alive |-> TRUE]
    /\ channel' = << >>

Start ==
    /\ pc = "new"
    /\ IF BlocksBehind > LoaderThreshold
       THEN client' = "local" /\ pc' = "build_index"
       ELSE client' = "rpc" /\ pc' = "idle"
    /\ EmptyIndex
    /\ NewFileCache
    /\ pending' = {}
    /\ latest' = 0
    /\ batch' = << >>
    /\ UNCHANGED <<nodeVars, storeVars, moved, layout, faults, stops>>

\* The end of a process takes its memory with it.
ProcessEnds ==
    /\ pc' = "down"
    /\ client' = "rpc"
    /\ EmptyIndex
    /\ NewFileCache
    /\ pending' = {}
    /\ latest' = 0
    /\ batch' = << >>

\* The service is stopped and the node's data directory replaced by one that
\* starts to download again.
NodeResyncs ==
    /\ Fault("resync")
    /\ ProcessEnds
    /\ arrival' \in Arrivals
    /\ files' = <<<<Genesis>>>>
    /\ best' = <<Genesis>>
    /\ layout' = [layout EXCEPT !.now = @ + 1]
    /\ moved' = TRUE
    /\ UNCHANGED <<reorgs, storeVars, stops>>

Crash ==
    /\ Up
    /\ Fault("crash")
    /\ ProcessEnds
    /\ UNCHANGED <<nodeVars, storeVars, moved, layout, stops>>

\* btc_client.init() failed, so the indexer thread ended and the process with it.
InitFails == ProcessEnds /\ UNCHANGED <<nodeVars, storeVars, moved, layout, stops>>

\* A requested shutdown: the loop leaves between two batches or passes and while
\* it waits, and should_stop ends an index build between two files.
Shutdown ==
    /\ pc \in {"idle", "next", "complete", "wait", "index_files"}
    /\ stops < MaxStops
    /\ stops' = stops + 1
    /\ ProcessEnds
    /\ UNCHANGED <<nodeVars, storeVars, moved, layout, faults>>

Restart ==
    /\ pc = "down"
    /\ pc' = "new"
    /\ UNCHANGED <<nodeVars, storeVars, client, indexVars, pending, latest, batch, cacheVars,
                   moved, layout, faults, stops>>

(***************************************************************************)
(* build_index: restore the index of the store, or clear it and rebuild.   *)
(***************************************************************************)
should_try_restore_from_db == dbLast + RestoreWindow >= LatestFile

\* The heights of the store are 0, 1, ... without a gap and every hash has an
\* entry in a file the persisted index covers.
ContinuousIndex ==
    /\ dbHeights # << >>
    /\ DOMAIN dbHeights = 0..(Cardinality(DOMAIN dbHeights) - 1)
    /\ \A b \in DOMAIN dbBlocks : dbBlocks[b][1] <= dbLast
    /\ \A h \in DOMAIN dbHeights : dbHeights[h] \in DOMAIN dbBlocks

IndexTip == Cardinality(DOMAIN dbHeights) - 1

\* One RPC tip hash is the external anchor of the restored index.
validate_loaded_block_index_without_tip == ContinuousIndex

validate_loaded_block_index ==
    /\ ContinuousIndex
    /\ IndexTip <= TipHeight
    /\ RpcHash(IndexTip) = dbHeights[IndexTip]

BuildIndex ==
    /\ pc = "build_index"
    /\ pc' = CASE dbLast = None -> "list_files"
               [] dbLast # None /\ dbLast > LatestFile -> "clear_meta"
               [] dbLast # None /\ dbLast <= LatestFile ->
                    IF should_try_restore_from_db THEN "restore" ELSE "list_files"
    /\ UNCHANGED <<nodeVars, storeVars, client, indexVars, pending, latest, batch, cacheVars,
                   moved, layout, faults, stops>>

get_all_block_heights == [i \in 1..(IndexTip + 1) |-> dbHeights[i - 1]]
load_from_db == idx' = dbBlocks /\ sorted' = get_all_block_heights

RestoreIndex ==
    /\ pc = "restore"
    /\ validate_loaded_block_index
    /\ load_from_db
    /\ layout' = [layout EXCEPT !.mem = layout.db]
    /\ moved' = FALSE
    /\ pc' = "idle"
    /\ UNCHANGED <<nodeVars, storeVars, client, pending, latest, batch, cacheVars, faults, stops>>

\* A failed validation, an RPC error included, drops the index and clears it.
RejectIndex ==
    /\ pc = "restore"
    /\ \/ ~validate_loaded_block_index /\ UNCHANGED faults
       \/ Fault("rpc")
    /\ EmptyIndex
    /\ pc' = "clear_meta"
    /\ UNCHANGED <<nodeVars, storeVars, client, pending, latest, batch, cacheVars, moved,
                   layout, stops>>

\* clear_blocks: four writes, one after the other.
ClearMeta ==
    /\ pc = "clear_meta"
    /\ dbLast' = None
    /\ pc' = "clear_blocks"
    /\ UNCHANGED <<nodeVars, dbBlocks, dbHeights, ledger, commits, client, indexVars, pending,
                   latest, batch, cacheVars, moved, layout, faults, stops>>

ClearBlocks ==
    /\ pc = "clear_blocks"
    /\ dbBlocks' = << >>
    /\ pc' = "clear_heights"
    /\ UNCHANGED <<nodeVars, dbLast, dbHeights, ledger, commits, client, indexVars, pending,
                   latest, batch, cacheVars, moved, layout, faults, stops>>

ClearHeights ==
    /\ pc = "clear_heights"
    /\ dbHeights' = << >>
    /\ pc' = "clear_commits"
    /\ UNCHANGED <<nodeVars, dbLast, dbBlocks, ledger, commits, client, indexVars, pending,
                   latest, batch, cacheVars, moved, layout, faults, stops>>

\* The consensus commit chain goes with the block index.
ClearCommits ==
    /\ pc = "clear_commits"
    /\ commits' = {}
    /\ pc' = "list_files"
    /\ UNCHANGED <<nodeVars, dbLast, dbBlocks, dbHeights, ledger, client, indexVars, pending,
                   latest, batch, cacheVars, moved, layout, faults, stops>>

(***************************************************************************)
(* Rebuilding the index from the complete blk files.                       *)
(***************************************************************************)
last_complete_blk_file_index == LatestFile - 1

ListFiles ==
    /\ pc = "list_files"
    /\ pending' = 0..last_complete_blk_file_index
    /\ moved' = FALSE
    /\ layout' = [layout EXCEPT !.mem = layout.now]
    /\ pc' = "index_files"
    /\ UNCHANGED <<nodeVars, storeVars, client, indexVars, latest, batch, cacheVars, faults, stops>>

\* merge_build_result of one file, under the lock of the index cache.
FileEntries(f) ==
    [b \in Range(Records(f)) |-> <<f, CHOOSE r \in DOMAIN Records(f) : Records(f)[r] = b>>]

HasDuplicate(f) ==
    \/ Range(Records(f)) \cap DOMAIN idx # {}
    \/ Cardinality(Range(Records(f))) < Len(Records(f))

\* The files are indexed in parallel; the results are merged one by one.
IndexFile ==
    /\ pc = "index_files"
    /\ \E f \in pending :
        /\ ~HasDuplicate(f)
        /\ idx' = Put(idx, FileEntries(f))
        /\ pending' = pending \ {f}
    /\ UNCHANGED <<nodeVars, storeVars, pc, client, sorted, latest, batch, cacheVars, moved,
                   layout, faults, stops>>

DuplicateRefused ==
    /\ pc = "index_files"
    /\ \E f \in pending : HasDuplicate(f)
    /\ InitFails
    /\ UNCHANGED faults

FilesIndexed ==
    /\ pc = "index_files"
    /\ pending = {}
    /\ pc' = "sort"
    /\ UNCHANGED <<nodeVars, storeVars, client, indexVars, pending, latest, batch, cacheVars,
                   moved, layout, faults, stops>>

\* generate_sort_blocks walks from the all-zero hash; where several blocks have
\* the same parent bitcoind decides, a single child is taken as it is.
Walked == IF sorted = << >> THEN Zero ELSE sorted[Len(sorted)]
Children == {b \in DOMAIN idx : Parent[b] = Walked}

SortLoneChild ==
    /\ pc = "sort"
    /\ Cardinality(Children) = 1
    /\ sorted' = Append(sorted, CHOOSE b \in Children : TRUE)
    /\ UNCHANGED <<nodeVars, storeVars, pc, client, idx, pending, latest, batch, cacheVars,
                   moved, layout, faults, stops>>

RpcNamesChild == Len(sorted) <= TipHeight /\ RpcHash(Len(sorted)) \in Children

SortFork ==
    /\ pc = "sort"
    /\ Cardinality(Children) > 1
    /\ RpcNamesChild
    /\ sorted' = Append(sorted, RpcHash(Len(sorted)))
    /\ UNCHANGED <<nodeVars, storeVars, pc, client, idx, pending, latest, batch, cacheVars,
                   moved, layout, faults, stops>>

ForkUnresolved ==
    /\ pc = "sort"
    /\ Cardinality(Children) > 1
    /\ \/ ~RpcNamesChild /\ UNCHANGED faults
       \/ Fault("rpc")
    /\ InitFails

\* put_blocks_sync: one synced batch that overwrites what it names and leaves
\* every other row; an empty index is not saved.
calc_latest_block_file_index ==
    CHOOSE f \in {idx[b][1] : b \in DOMAIN idx} : \A b \in DOMAIN idx : idx[b][1] <= f

put_blocks_sync ==
    /\ dbBlocks' = Put(dbBlocks, idx)
    /\ dbHeights' = Put(dbHeights, [h \in 0..(Len(sorted) - 1) |-> sorted[h + 1]])
    /\ dbLast' = calc_latest_block_file_index

\* Rows of an older index that survive the save are harmless when they are
\* block entries of the same blk files; an older height row is not.
OneBuild ==
    /\ \A h \in DOMAIN dbHeights : h < Len(sorted)
    /\ DOMAIN dbBlocks \subseteq DOMAIN idx \/ layout.db = layout.mem

save_to_db ==
    /\ put_blocks_sync
    /\ layout' = [layout EXCEPT !.db = IF OneBuild THEN layout.mem ELSE None]

SaveIndex ==
    /\ pc = "sort"
    /\ Children = {}
    /\ IF idx = << >>
       THEN UNCHANGED <<dbBlocks, dbHeights, dbLast, layout>>
       ELSE save_to_db
    /\ pc' = "idle"
    /\ UNCHANGED <<nodeVars, ledger, commits, client, indexVars, pending, latest, batch, cacheVars,
                   moved, faults, stops>>

(***************************************************************************)
(* The file cache and its prefetch thread (cache/block_file.rs).           *)
(***************************************************************************)
\* What the queue holds once fetch_by_index(f) has popped it from the front: an
\* entry beyond f stays and ends the search, older entries are dropped.
Older(f) == {i \in DOMAIN queue : \A j \in 1..i : queue[j][1] < f}
AtLeast(f) == SubSeq(queue, Cardinality(Older(f)) + 1, Len(queue))
PrefetchHit_ignores_index(f) == AtLeast(f) # << >>

PrefetchHit(f) == AtLeast(f) # << >> /\ AtLeast(f)[1][1] = f
fetch_by_index(f) ==
    queue' = IF PrefetchHit(f) THEN Tail(AtLeast(f)) ELSE AtLeast(f)

CachedAt(f) == {i \in DOMAIN fileCache : fileCache[i][1] = f}
CachedElsewhere(f) ==
    IF CachedAt(f) = {} THEN fileCache ELSE RemoveAt(fileCache, CHOOSE i \in CachedAt(f) : TRUE)

LruPut_never_evicts(e) == <<e>> \o CachedElsewhere(e[1])

LruPut(e) ==
    LET rest == CachedElsewhere(e[1])
    IN  SubSeq(<<e>> \o rest, 1, IF Len(rest) < CacheCapacity THEN Len(rest) + 1 ELSE CacheCapacity)

notify_prefetch(f) ==
    channel' = IF Len(channel) < MaxRequests THEN Append(channel, f) ELSE channel

\* get_block_by_file_index: the records of a file come from the LRU, from the
\* prefetch queue or from disk; a miss notifies the prefetch thread.
FileContent(f) ==
    IF CachedAt(f) # {} THEN fileCache[CHOOSE i \in CachedAt(f) : TRUE][2]
    ELSE IF PrefetchHit(f) THEN AtLeast(f)[1][2]
    ELSE Records(f)

get_block_by_file_index(f) ==
    /\ fileCache' = LruPut(<<f, FileContent(f)>>)
    /\ IF CachedAt(f) # {}
       THEN UNCHANGED <<queue, channel>>
       ELSE fetch_by_index(f) /\ notify_prefetch(f + 1)

PrefetchReceives ==
    /\ prefetch.alive /\ prefetch.request = None
    /\ channel # << >>
    /\ prefetch' = [prefetch EXCEPT !.request = Head(channel)]
    /\ channel' = Tail(channel)
    /\ UNCHANGED <<nodeVars, storeVars, pc, client, indexVars, pending, latest, batch, fileCache,
                   queue, fetched, moved, layout, faults, stops>>

\* The next file: behind the last queued one, or the request's own when the
\* queue has run empty.  Beyond the latest file the thread ends for good.
NextPrefetch == IF queue = << >> THEN prefetch.request ELSE queue[Len(queue)][1] + 1

PrefetchChooses ==
    /\ prefetch.alive /\ prefetch.request # None /\ prefetch.load = None
    /\ Len(queue) < PrefetchCapacity
    /\ prefetch' = IF NextPrefetch > prefetch.latest
                   THEN [prefetch EXCEPT !.alive = FALSE]
                   ELSE [prefetch EXCEPT !.load = NextPrefetch]
    /\ UNCHANGED <<nodeVars, storeVars, pc, client, indexVars, pending, latest, batch, fileCache,
                   queue, channel, fetched, moved, layout, faults, stops>>

PrefetchLoads ==
    /\ prefetch.alive /\ prefetch.load # None
    /\ queue' = Append(queue, <<prefetch.load, Records(prefetch.load)>>)
    /\ prefetch' = [prefetch EXCEPT !.load = None]
    /\ UNCHANGED <<nodeVars, storeVars, pc, client, indexVars, pending, latest, batch, fileCache,
                   channel, fetched, moved, layout, faults, stops>>

\* The open file may end in preallocated zeroes, which fail the magic check.
PrefetchLoadFails ==
    /\ prefetch.alive /\ prefetch.load = LatestFile
    /\ prefetch' = [prefetch EXCEPT !.load = None, !.request = None]
    /\ UNCHANGED <<nodeVars, storeVars, pc, client, indexVars, pending, latest, batch, fileCache,
                   queue, channel, fetched, moved, layout, faults, stops>>

(***************************************************************************)
(* The sync loop as a consumer of blocks.                                  *)
(***************************************************************************)
\* get_block_hash and get_block_by_hash of the loader; an RPC client has no index.
get_block_hash(h) == IF h < Len(sorted) THEN sorted[h + 1] ELSE RpcHash(h)
KnownHeight_index_only(h) == IF sorted = << >> THEN h <= TipHeight ELSE h < Len(sorted)

KnownHeight(h) == h < Len(sorted) \/ h <= TipHeight

\* The heights whose commit agrees with the client, up to the lower of the synced
\* height and the target.
Searched == {h \in 1..Len(ledger) : h <= StableTarget}
Agreeing == {h \in Searched : ledger[h] = get_block_hash(h)}
CommonAncestor == IF Agreeing = {} THEN 0 ELSE CHOOSE h \in Agreeing : \A g \in Agreeing : g <= h

\* find_reorg_common_ancestor_height probes from the tip down and fails on a
\* height without a commit.
Probed == {h \in Searched : h >= CommonAncestor}

BatchAbove(h, target) == {x \in (h + 1)..target : x <= h + BatchSize}

\* The head of sync_once: the target and the common ancestor are read once for
\* all batches of the pass.  A probe that fails changes nothing and is retried.
PassBegins ==
    /\ pc = "idle"
    /\ Probed \subseteq commits
    /\ latest' = StableTarget
    /\ ledger' = SubSeq(ledger, 1, CommonAncestor)
    /\ commits' = {h \in commits : h <= CommonAncestor}
    /\ pending' = BatchAbove(CommonAncestor, StableTarget)
    /\ batch' = << >>
    /\ pc' = IF StableTarget <= CommonAncestor THEN "complete" ELSE "load"
    /\ UNCHANGED <<nodeVars, dbBlocks, dbHeights, dbLast, client, indexVars, cacheVars,
                   moved, layout, faults, stops>>

\* One worker of the batch: the hash first, then the block of that hash from
\* its blk file, or from RPC when the index does not know it.
LoadFromFile(h) ==
    LET hash == get_block_hash(h)
        entry == idx[hash]
    IN  /\ hash \in DOMAIN idx
        /\ entry[2] <= Len(FileContent(entry[1]))
        /\ get_block_by_file_index(entry[1])
        /\ batch' = Put(batch, [x \in {h} |-> FileContent(entry[1])[entry[2]]])
        /\ fetched' = [asked |-> hash, got |-> FileContent(entry[1])[entry[2]]]

LoadFromRpc(h) ==
    /\ get_block_hash(h) \notin DOMAIN idx
    /\ batch' = Put(batch, [x \in {h} |-> get_block_hash(h)])
    /\ UNCHANGED <<fileCache, queue, channel, fetched>>

LoadBlock ==
    /\ pc = "load"
    /\ \E h \in pending :
        /\ KnownHeight(h)
        /\ LoadFromFile(h) \/ LoadFromRpc(h)
        /\ pending' = pending \ {h}
    /\ UNCHANGED <<nodeVars, storeVars, pc, client, indexVars, latest, prefetch, moved,
                   layout, faults, stops>>

\* The entry of the block of height h points behind the end of its file.
PastFileEnd(h) ==
    LET hash == get_block_hash(h)
    IN  hash \in DOMAIN idx /\ idx[hash][2] > Len(FileContent(idx[hash][1]))

\* sync_once returns with an error, and run_loop calls it again.
PassFails ==
    /\ pc' = "idle"
    /\ pending' = {}
    /\ latest' = 0
    /\ batch' = << >>

\* A record index beyond the end of the file ends the pass with an error.
RecordOutOfBounds ==
    /\ pc = "load"
    /\ \E h \in pending :
        /\ KnownHeight(h)
        /\ PastFileEnd(h)
        /\ get_block_by_file_index(idx[get_block_hash(h)][1])
    /\ PassFails
    /\ UNCHANGED <<nodeVars, storeVars, client, indexVars, fetched, prefetch, moved, layout,
                   faults, stops>>

\* A height the node no longer has, or an RPC error, abandons the pass.
AbandonBatch ==
    /\ pc = "load"
    /\ \/ (\E h \in pending : ~KnownHeight(h)) /\ UNCHANGED faults
       \/ Fault("rpc")
    /\ PassFails
    /\ UNCHANGED <<nodeVars, storeVars, client, indexVars, cacheVars, moved, layout, stops>>

CommitBatch ==
    /\ pc = "load"
    /\ pending = {}
    /\ ledger' = ledger \o [i \in 1..Cardinality(DOMAIN batch) |-> batch[Len(ledger) + i]]
    /\ commits' = commits \cup DOMAIN batch
    /\ batch' = << >>
    /\ pc' = "next"
    /\ UNCHANGED <<nodeVars, dbBlocks, dbHeights, dbLast, client, indexVars, pending, latest,
                   cacheVars, moved, layout, faults, stops>>

\* The next batch of the pass, up to the target read when it began.
NextBatch ==
    /\ pc = "next"
    /\ pending' = BatchAbove(Len(ledger), latest)
    /\ pc' = IF Len(ledger) < latest THEN "load" ELSE "complete"
    /\ UNCHANGED <<nodeVars, storeVars, client, indexVars, latest, batch, cacheVars, moved,
                   layout, faults, stops>>

\* on_sync_complete drops the index and the file cache, not the prefetch queue.
SyncComplete ==
    /\ pc = "complete"
    /\ EmptyIndex
    /\ fileCache' = << >>
    /\ latest' = 0
    /\ pc' = "wait"
    /\ UNCHANGED <<nodeVars, storeVars, client, pending, batch, queue, fetched, prefetch,
                   channel, moved, layout, faults, stops>>

\* wait_for_new_blocks: a new stable height or another block at the tip; a tip
\* without a commit is an error, after which the loop runs the next pass as well.
should_wake_for_chain_update ==
    \/ StableTarget # Len(ledger)
    \/ ledger # << >> /\ (Len(ledger) \notin commits \/ Last(ledger) # get_block_hash(Len(ledger)))

WakeUp ==
    /\ pc = "wait"
    /\ should_wake_for_chain_update
    /\ pc' = "idle"
    /\ UNCHANGED <<nodeVars, storeVars, client, indexVars, pending, latest, batch, cacheVars,
                   moved, layout, faults, stops>>

Init ==
    /\ arrival \in Arrivals
    /\ files = <<<<Genesis>>>> /\ best = <<Genesis>>
    /\ dbBlocks = << >> /\ dbHeights = << >> /\ dbLast = None
    /\ ledger = << >> /\ commits = {}
    /\ pc = "new" /\ client = "rpc"
    /\ idx = << >> /\ sorted = << >>
    /\ pending = {} /\ latest = 0 /\ batch = << >>
    /\ fileCache = << >> /\ queue = << >> /\ channel = << >>
    /\ fetched = [asked |-> NoBlock, got |-> NoBlock]
    /\ prefetch = [latest |-> 0, request |-> None, load |-> None, alive |-> TRUE]
    /\ moved = FALSE
    /\ layout = [now |-> 0, db |-> 0, mem |-> 0]
    /\ reorgs = 0 /\ faults = 0 /\ stops = 0

Node == NodeStores \/ NodeStoresAgain \/ NodeExtends \/ NodeReorgs \/ NodeResyncs
Indexing == IndexFile \/ DuplicateRefused \/ FilesIndexed
Sorting == SortLoneChild \/ SortFork \/ ForkUnresolved \/ SaveIndex
Clearing == ClearMeta \/ ClearBlocks \/ ClearHeights \/ ClearCommits
Consumer == PassBegins \/ LoadBlock \/ RecordOutOfBounds \/ AbandonBatch \/ CommitBatch
            \/ NextBatch \/ SyncComplete \/ WakeUp
Prefetcher == Up /\ (PrefetchReceives \/ PrefetchChooses \/ PrefetchLoads \/ PrefetchLoadFails)
Process == Start \/ BuildIndex \/ RestoreIndex \/ RejectIndex \/ ListFiles

Next == Node \/ Process \/ Clearing \/ Indexing \/ Sorting \/ Consumer \/ Prefetcher
        \/ Crash \/ Shutdown \/ Restart

Spec == Init /\ [][Next]_vars

\* The supervisor restarts a dead process, a live thread keeps taking steps and
\* bitcoind connects the blocks it has; nothing makes a fault or a reorg happen.
FairSpec ==
    /\ Spec
    /\ WF_vars(NodeExtends)
    /\ WF_vars(Restart \/ Process \/ Clearing \/ Indexing \/ Sorting \/ Consumer)

(***************************************************************************)
(* Properties.                                                             *)
(***************************************************************************)
\* Every variable keeps its type; the queue and the file cache keep their bounds.
TypeOK ==
    /\ Range(best) \subseteq Block /\ Stored \subseteq Block
    /\ Range(dbBlocks) \cup Range(idx) \subseteq Nat \X (1..RecordsPerFile)
    /\ Range(dbHeights) \cup Range(ledger) \cup Range(sorted) \subseteq Block
    /\ dbLast \in Nat \cup {None}
    /\ commits \subseteq 1..Len(ledger)
    /\ Len(queue) <= PrefetchCapacity
    /\ Len(fileCache) <= CacheCapacity

IndexInUse == pc \in {"idle", "load", "next", "complete", "wait"}

\* The index the loader serves from is one chain of headers from the genesis
\* block, whatever an interrupted clear_blocks or index build left behind.  An
\* index saved over the higher rows of an older one is excepted:
\* validate_loaded_block_index looks at one hash of it only.
SortedIsAChain ==
    IndexInUse /\ layout.mem # None => \A i \in DOMAIN sorted :
        /\ sorted[i] \in DOMAIN idx
        /\ Parent[sorted[i]] = IF i = 1 THEN Zero ELSE sorted[i - 1]

\* While bitcoind has not replaced its chain since the index was built or
\* restored, the index leaves the best chain only where the block of the best
\* chain is not in it (it was in the open file): a fork inside the complete
\* files is always resolved bitcoind's way.
Leaves(i) == i <= Len(best) /\ sorted[i] # best[i] /\ \A j \in 1..(i - 1) : sorted[j] = best[j]
IndexFollowsTheNode ==
    (IndexInUse /\ layout.mem # None /\ ~moved) =>
        \A i \in DOMAIN sorted : Leaves(i) => best[i] \notin DOMAIN idx

\* A block read through the file cache and the prefetch queue is the block of
\* the hash that was asked for, in any order of requests and of the prefetch
\* thread, as long as the blk files are the ones the index was built from.
FetchedIsAsked ==
    (IndexInUse /\ layout.mem = layout.now) => fetched.asked = fetched.got

\* The commit of a height that the ancestor search has to probe is gone, which is what
\* clear_blocks does to a store that has synced: the search fails in every pass.
CommitsLost == ~(Probed \subseteq commits)

\* A block stored twice in the complete blk files: init refuses to index them, at
\* every start that is too far behind for the RPC client.
BuildRefused ==
    /\ ~IndexInUse
    /\ BlocksBehind > LoaderThreshold
    /\ \E i, j \in 1..LatestFile : \E r \in DOMAIN files[i], q \in DOMAIN files[j] :
          <<i, r>> # <<j, q>> /\ files[i][r] = files[j][q]

\* A restored index of other blk files points behind the end of one that a block of
\* the pass is read from; only a completed pass would drop that index.
RecordMissing ==
    IndexInUse /\ \E h \in (CommonAncestor + 1)..StableTarget : PastFileEnd(h)

\* The states the code has no way out of.
Stuck == CommitsLost \/ BuildRefused \/ RecordMissing

\* The sync loop ends up at bitcoind's stable tip through restarts, a rebuilt or
\* restored index and every fallback to RPC, except in the three states above.  Only
\* the tip is claimed: a chain replaced between two batches of one pass leaves blocks
\* of both chains below it, since the pass looks for an ancestor once.
CatchesUp ==
    <>[](\/ Stuck
         \/ /\ Len(ledger) = StableTarget
            /\ ledger = << >> \/ Last(ledger) = RpcHash(Len(ledger)))
=============================================================================
