------------------------ MODULE BalanceHistoryIndexer ------------------------
(***************************************************************************)
(* The sync loop of the balance-history service (index/indexer.rs,         *)
(* index/block.rs) over the store of BalanceHistoryDB: it follows the      *)
(* canonical chain of a Bitcoin node that may extend or replace the chain  *)
(* between any two RPC calls, rolls back to the common ancestor when the   *)
(* local tip is no longer canonical, and indexes the missing blocks in     *)
(* batches, each written in one WriteBatch.  Between rollback and sync it  *)
(* keeps two in-memory caches and the flags behind the readiness RPC.      *)
(*                                                                         *)
(* pc names the next call of the loop; a call that reads the node or       *)
(* writes the store is one step.                                           *)
(***************************************************************************)
EXTENDS BalanceHistoryDB

CONSTANTS
    Chains,            \* the chains that may become canonical (external: bitcoind)
    BatchSize,         \* config sync.batch_size
    MaxSyncHeight,     \* config sync.max_sync_block_height
    StableLag,         \* BALANCE_HISTORY_STABLE_LAG
    UndoRetention,     \* config sync.undo_retention_blocks
    CleanupInterval,   \* config sync.undo_cleanup_interval_blocks
    MaxReorgs,         \* bound: chain replacements in a behaviour
    MaxFaults,         \* bound: crashes and errors in a behaviour
    Faults,            \* which faults happen: subset of {"crash", "rpc", "db"}
    ReorgWindow        \* pcs at which the node may replace its chain

ASSUME ChainAssumption == Chains \subseteq Seq(Body) /\ << >> \in Chains

ASSUME ConfigAssumption ==
    /\ BatchSize \in Nat \ {0}
    /\ MaxSyncHeight \in Nat /\ StableLag \in Nat
    /\ UndoRetention \in Nat /\ CleanupInterval \in Nat
    /\ MaxReorgs \in Nat /\ MaxFaults \in Nat

VARIABLES
    chain,          \* the node's canonical chain; position h is the block at height h
    reorgs,         \* chain replacements so far
    faults,         \* faults so far
    utxoCache,      \* UTXOCache: outpoints known unspent
    balanceCache,   \* AddressBalanceCache: script -> [height, balance]
    statusRollback, \* RuntimeReadinessStatus.rollback_in_progress
    started,        \* SyncPhase is Indexing
    statCurrent,    \* SyncStatus.current
    statTotal,      \* SyncStatus.total
    pc,
    latest,         \* sync_once: latest_btc_height
    target,         \* rollback target; during the search, the height probed
    next,           \* rollback loop: next_height
    resuming,       \* the rollback loop runs inside resume_rollback_if_needed
    cur,            \* sync_once: current_height, the first height of the batch
    loaded          \* preload: height -> block hash

envVars == <<chain, reorgs, faults>>
cacheVars == <<utxoCache, balanceCache>>
statusVars == <<statusRollback, started, statCurrent, statTotal>>
loopVars == <<pc, latest, target, next, resuming, cur, loaded>>
vars == <<dbVars, envVars, cacheVars, statusVars, loopVars>>

MinOf(a, b) == IF a <= b THEN a ELSE b

PCs == {"sync_once", "latest", "check", "search", "mark", "mark_target",
        "mark_next", "undo", "put_next", "clear_target", "clear_next",
        "plan", "load", "prune", "wait", "panic"}

-----------------------------------------------------------------------------
(* Initial state: an empty store, a started process. *)

EmptyMemory ==
    /\ utxoCache = {}
    /\ balanceCache = << >>
    /\ statusRollback = FALSE
    /\ started = FALSE
    /\ statCurrent = 0
    /\ statTotal = 0

\* The locals of sync_once and of the rollback end with their function.
FreeLocals ==
    /\ latest' = 0
    /\ target' = 0
    /\ next' = 0
    /\ resuming' = FALSE
    /\ cur' = 0
    /\ loaded' = << >>

EmptyLoop ==
    /\ pc = "sync_once"
    /\ latest = 0
    /\ target = 0
    /\ next = 0
    /\ resuming = FALSE
    /\ cur = 0
    /\ loaded = << >>

Init ==
    /\ EmptyDB
    /\ EmptyMemory
    /\ EmptyLoop
    /\ chain \in Chains
    /\ reorgs = 0
    /\ faults = 0

-----------------------------------------------------------------------------
(* The Bitcoin node *)

\* What the node accepts: every output is created once and spent once, in the block that
\* creates it or a later one.
ValidChain(c) ==
    /\ \A i, j \in DOMAIN c : i # j => /\ c[i].created \intersect c[j].created = {}
                                       /\ c[i].spent \intersect c[j].spent = {}
    /\ \A j \in DOMAIN c : c[j].spent \subseteq UNION {c[i].created : i \in 1..j}

HasBlock(h) == h <= Len(chain)

\* getblockhash at height h.
CanonicalHash(h) == SubSeq(chain, 1, h)

\* compute_stable_sync_target_height of the current tip.
StableTarget == MinOf(MaxSyncHeight, SatSub(Len(chain), StableLag))

ExtendChain ==
    /\ \E c \in Chains : /\ Len(c) = Len(chain) + 1
                         /\ SubSeq(c, 1, Len(chain)) = chain
                         /\ chain' = c
    /\ UNCHANGED <<dbVars, reorgs, faults, cacheVars, statusVars, loopVars>>

\* The tip may also move down: the code treats that as a legal reorg.
ReplaceChain ==
    /\ reorgs < MaxReorgs
    /\ pc \in ReorgWindow
    /\ \E c \in Chains : /\ ~(Len(c) >= Len(chain) /\ SubSeq(c, 1, Len(chain)) = chain)
                         /\ chain' = c
    /\ reorgs' = reorgs + 1
    /\ UNCHANGED <<dbVars, faults, cacheVars, statusVars, loopVars>>

-----------------------------------------------------------------------------
(* resume_pending_rollback_if_needed *)

\* No marker: the runtime flag is lowered and the pass goes on.
NothingToResume ==
    /\ pc = "sync_once"
    /\ ~rbInProgress
    /\ statusRollback' = FALSE
    /\ pc' = "latest"
    /\ UNCHANGED <<dbVars, envVars, cacheVars, started, statCurrent, statTotal,
                   latest, target, next, resuming, cur, loaded>>

ResumeRollback ==
    /\ pc = "sync_once"
    /\ rbInProgress
    /\ ResumeReady
    /\ statusRollback' = TRUE
    /\ target' = rbTarget
    /\ next' = rbNext
    /\ resuming' = TRUE
    /\ pc' = "undo"
    /\ UNCHANGED <<dbVars, envVars, cacheVars, started, statCurrent, statTotal,
                   latest, cur, loaded>>

\* resume_rollback_if_needed returns Err; run_loop sleeps and calls sync_once again.
ResumeRefused ==
    /\ pc = "sync_once"
    /\ rbInProgress
    /\ ~ResumeReady
    /\ statusRollback' = TRUE
    /\ UNCHANGED <<dbVars, envVars, cacheVars, started, statCurrent, statTotal, loopVars>>

-----------------------------------------------------------------------------
(* find_reorg_common_ancestor_height, one RPC call per step *)

GetLatest ==
    /\ pc = "latest"
    /\ latest' = StableTarget
    /\ pc' = "check"
    /\ UNCHANGED <<dbVars, envVars, cacheVars, statusVars, target, next, resuming, cur, loaded>>

\* sync_once returns Err: nothing is undone, run_loop retries.
AbandonPass ==
    /\ pc' = "sync_once"
    /\ FreeLocals
    /\ UNCHANGED <<dbVars, cacheVars, statusVars>>

\* The local tip is canonical, or nothing is synced yet.
TipMatches ==
    /\ pc = "check"
    /\ \/ height = 0
       \/ /\ latest >= height
          /\ height \in DOMAIN commits
          /\ HasBlock(height)
          /\ CommitHash(height) = CanonicalHash(height)
    /\ pc' = "plan"
    /\ UNCHANGED <<dbVars, envVars, cacheVars, statusVars, latest, target, next,
                   resuming, cur, loaded>>

\* Mutant: the search starts one block too low.
TipMoved_off_by_one ==
    /\ pc = "check"
    /\ height > 0
    /\ latest < height
    /\ target' = MinOf(height, latest) - 1
    /\ pc' = "search"
    /\ UNCHANGED <<dbVars, envVars, cacheVars, statusVars, latest, next,
                   resuming, cur, loaded>>

TipMoved ==
    /\ pc = "check"
    /\ height > 0
    /\ \/ latest < height
       \/ /\ height \in DOMAIN commits
          /\ HasBlock(height)
          /\ CommitHash(height) # CanonicalHash(height)
    /\ target' = MinOf(height, latest)
    /\ pc' = "search"
    /\ UNCHANGED <<dbVars, envVars, cacheVars, statusVars, latest, next,
                   resuming, cur, loaded>>

\* The commit or the canonical block that the search needs is gone.
ProbeFails ==
    /\ \/ pc = "check" /\ height > 0 /\ latest >= height
                       /\ ~(height \in DOMAIN commits /\ HasBlock(height))
       \/ pc = "search" /\ target > 0
                        /\ ~(target \in DOMAIN commits /\ HasBlock(target))
    /\ AbandonPass
    /\ UNCHANGED envVars

ProbeLower ==
    /\ pc = "search"
    /\ target > 0
    /\ target \in DOMAIN commits
    /\ HasBlock(target)
    /\ CommitHash(target) # CanonicalHash(target)
    /\ target' = target - 1
    /\ UNCHANGED <<dbVars, envVars, cacheVars, statusVars, pc, latest, next,
                   resuming, cur, loaded>>

AncestorFound ==
    /\ pc = "search"
    /\ \/ target = 0
       \/ /\ target \in DOMAIN commits
          /\ HasBlock(target)
          /\ CommitHash(target) = CanonicalHash(target)

-----------------------------------------------------------------------------
(* reconcile_reorg_if_needed and rollback_to_block_height *)

ClearCaches == utxoCache' = {} /\ balanceCache' = << >>

\* target = height: rollback_to_block_height returns at once and the caches are cleared.
RollbackIsEmpty ==
    /\ AncestorFound
    /\ target = height
    /\ statusRollback' = FALSE
    /\ ClearCaches
    /\ pc' = "plan"
    /\ target' = 0
    /\ UNCHANGED <<dbVars, envVars, started, statCurrent, statTotal, latest,
                   next, resuming, cur, loaded>>

\* Err before any write; the runtime flag stays up until the next pass.
RollbackRefused ==
    /\ AncestorFound
    /\ target < height
    /\ ~ensure_rollback_undo_available(target, height)
    /\ statusRollback' = TRUE
    /\ pc' = "sync_once"
    /\ FreeLocals
    /\ UNCHANGED <<dbVars, envVars, cacheVars, started, statCurrent, statTotal>>

\* Mutant: the runtime flag is not raised.
BeginRollback_unannounced ==
    /\ AncestorFound
    /\ target < height
    /\ ensure_rollback_undo_available(target, height)
    /\ next' = height
    /\ resuming' = FALSE
    /\ pc' = "mark"
    /\ UNCHANGED <<dbVars, envVars, cacheVars, statusVars, latest, target, cur, loaded>>

BeginRollback ==
    /\ AncestorFound
    /\ target < height
    /\ ensure_rollback_undo_available(target, height)
    /\ statusRollback' = TRUE
    /\ next' = height
    /\ resuming' = FALSE
    /\ pc' = "mark"
    /\ UNCHANGED <<dbVars, envVars, cacheVars, started, statCurrent, statTotal, latest,
                   target, cur, loaded>>

MarkInProgress ==
    /\ pc = "mark"
    /\ put_rollback_in_progress
    /\ pc' = "mark_target"
    /\ UNCHANGED <<envVars, cacheVars, statusVars, latest, target, next, resuming, cur, loaded>>

MarkTarget ==
    /\ pc = "mark_target"
    /\ put_rollback_target_height(target)
    /\ pc' = "mark_next"
    /\ UNCHANGED <<envVars, cacheVars, statusVars, latest, target, next, resuming, cur, loaded>>

MarkNext ==
    /\ pc = "mark_next"
    /\ put_rollback_next_height(next)
    /\ pc' = "undo"
    /\ UNCHANGED <<envVars, cacheVars, statusVars, latest, target, next, resuming, cur, loaded>>

\* Mutant: the loop runs once more at the target.
UndoBlock_past_target ==
    /\ pc = "undo"
    /\ next >= target
    /\ rollback_one_block(next)
    /\ next' = next - 1
    /\ pc' = "put_next"
    /\ UNCHANGED <<envVars, cacheVars, statusVars, latest, target, resuming, cur, loaded>>

UndoBlock ==
    /\ pc = "undo"
    /\ next > target
    /\ rollback_one_block(next)
    /\ next' = next - 1
    /\ pc' = "put_next"
    /\ UNCHANGED <<envVars, cacheVars, statusVars, latest, target, resuming, cur, loaded>>

\* Mutant: the height before the decrement is written.
PutNext_stale ==
    /\ pc = "put_next"
    /\ put_rollback_next_height(next + 1)
    /\ pc' = "undo"
    /\ UNCHANGED <<envVars, cacheVars, statusVars, latest, target, next, resuming, cur, loaded>>

PutNext ==
    /\ pc = "put_next"
    /\ put_rollback_next_height(next)
    /\ pc' = "undo"
    /\ UNCHANGED <<envVars, cacheVars, statusVars, latest, target, next, resuming, cur, loaded>>

\* clear_rollback_state: three deletes; the first one ends the rollback for a restart.
ClearInProgress ==
    /\ pc = "undo"
    /\ next <= target
    /\ delete_rollback_in_progress
    /\ pc' = "clear_target"
    /\ UNCHANGED <<envVars, cacheVars, statusVars, latest, target, next, resuming, cur, loaded>>

ClearTarget ==
    /\ pc = "clear_target"
    /\ put_rollback_target_height(None)
    /\ pc' = "clear_next"
    /\ UNCHANGED <<envVars, cacheVars, statusVars, latest, target, next, resuming, cur, loaded>>

\* Mutant: the caches survive the rollback.
FinishRollback_keeps_caches ==
    /\ pc = "clear_next"
    /\ put_rollback_next_height(None)
    /\ statusRollback' = FALSE
    /\ pc' = IF resuming THEN "latest" ELSE "plan"
    /\ target' = 0
    /\ next' = 0
    /\ resuming' = FALSE
    /\ UNCHANGED <<envVars, cacheVars, started, statCurrent, statTotal, latest, cur, loaded>>

\* The last delete; the caller then lowers the runtime flag and clears the caches.
FinishRollback ==
    /\ pc = "clear_next"
    /\ put_rollback_next_height(None)
    /\ statusRollback' = FALSE
    /\ ClearCaches
    /\ pc' = IF resuming THEN "latest" ELSE "plan"
    /\ target' = 0
    /\ next' = 0
    /\ resuming' = FALSE
    /\ UNCHANGED <<envVars, started, statCurrent, statTotal, latest, cur, loaded>>

-----------------------------------------------------------------------------
(* sync_once after the reorg check *)

PlanSync ==
    /\ pc = "plan"
    /\ started' = TRUE
    /\ statTotal' = latest
    /\ statCurrent' = height
    /\ IF latest <= height
       THEN pc' = "wait" /\ FreeLocals
       ELSE /\ pc' = "load"
            /\ cur' = height + 1
            /\ UNCHANGED <<latest, target, next, resuming, loaded>>
    /\ UNCHANGED <<dbVars, envVars, cacheVars, statusRollback>>

BatchEnd == MinOf(cur + BatchSize - 1, latest)
BatchHeights == cur..BatchEnd

\* The blocks of a batch are fetched by height, in parallel: in any order.
LoadBlock(h) ==
    /\ pc = "load"
    /\ h \in BatchHeights \ DOMAIN loaded
    /\ HasBlock(h)
    /\ loaded' = Put(loaded, [g \in {h} |-> CanonicalHash(h)])
    /\ UNCHANGED <<dbVars, envVars, cacheVars, statusVars, pc, latest, target, next,
                   resuming, cur>>

LoadFails ==
    /\ pc = "load"
    /\ \E h \in BatchHeights \ DOMAIN loaded : ~HasBlock(h)
    /\ AbandonPass
    /\ UNCHANGED envVars

BodyAt(h) == loaded[h][h]

\* Heights of the batch that create (spend) output o.
CreatedAt(o) == {h \in BatchHeights : o \in BodyAt(h).created}
SpentAt(o) == {h \in BatchHeights : o \in BodyAt(h).spent}
BatchCreated == {o \in Outpoint : CreatedAt(o) # {}}
BatchSpent == {o \in Outpoint : SpentAt(o) # {}}

Touched(b) == {ScriptOf[o] : o \in b.created \union b.spent}
BatchTouched == UNION {Touched(BodyAt(h)) : h \in BatchHeights}

PaidTo(s, O) == SumFunctionOnSet(ValueOf, {o \in O : ScriptOf[o] = s})
Delta(b, s) == PaidTo(s, b.created) - PaidTo(s, b.spent)

\* preload_balances: the cache first, then the store at the height before the batch.
BaseBalance(s) ==
    IF s \in DOMAIN balanceCache THEN balanceCache[s].balance
    ELSE get_balance_at_block_height(s, cur - 1).balance

\* BatchBlockBalanceProcessor: the balance of s after block h of the batch.
BalanceAfter(s, h) ==
    BaseBalance(s) +
        SumFunctionOnSet([g \in BatchHeights |-> Delta(BodyAt(g), s)], cur..h)

BatchLoaded == pc = "load" /\ BatchHeights \subseteq DOMAIN loaded

(***************************************************************************)
(* The assertions of preload and process: an output created in the batch   *)
(* and spent twice in it, a cached balance newer than the batch, a         *)
(* negative balance.  The indexer thread panics and the process exits.     *)
(***************************************************************************)
BatchPanics ==
    \/ \E o \in BatchCreated : Cardinality(SpentAt(o)) > 1
    \/ \E s \in BatchTouched \intersect DOMAIN balanceCache : balanceCache[s].height > cur - 1
    \/ \E h \in BatchHeights : \E s \in Touched(BodyAt(h)) : BalanceAfter(s, h) < 0

Panic ==
    /\ BatchLoaded
    /\ BatchPanics
    /\ pc' = "panic"
    /\ UNCHANGED <<dbVars, envVars, cacheVars, statusVars, latest, target, next,
                   resuming, cur, loaded>>

\* Only a batch that starts at height 1 may lack a previous commit.
resolve_previous_commit == cur = 1 \/ cur - 1 \in DOMAIN commits

Entries ==
    [k \in UNION {Touched(BodyAt(h)) \X {h} : h \in BatchHeights} |->
        [delta |-> Delta(BodyAt(k[2]), k[1]), balance |-> BalanceAfter(k[1], k[2])]]

\* The root of a block: its balance entries.  A commit chains (hash, root) to its predecessor.
Link(h) == [hash |-> loaded[h],
            root |-> [s \in Touched(BodyAt(h)) |-> Entries[<<s, h>>]]]

\* Mutant: every batch starts a new chain.
build_block_commits_unlinked ==
    [h \in BatchHeights |-> [i \in 1..(h - cur + 1) |-> Link(cur + i - 1)]]

build_block_commits ==
    LET previous == IF cur - 1 \in DOMAIN commits THEN commits[cur - 1] ELSE << >>
    IN  [h \in BatchHeights |-> previous \o [i \in 1..(h - cur + 1) |-> Link(cur + i - 1)]]

should_persist_undo_for_block(h) ==
    /\ UndoRetention # 0
    /\ h <= latest
    /\ h >= SatSub(latest, UndoRetention - 1)

\* Mutant, and the rule of the rollback design document: a spend of any output of the
\* batch is not recorded.
NeedFlush_other_batches_only(o, h, at) == o \notin BatchCreated

\* need_flush: all spends but those of an output the same block creates.  at is the
\* height the shared vout map records for an output (two blocks may have inserted it).
NeedFlush(o, h, at) == o \in BatchCreated => at[o] < h

Bundles(at) ==
    [h \in {g \in BatchHeights : should_persist_undo_for_block(g)} |->
        [created |-> BodyAt(h).created,
         spent   |-> {o \in BodyAt(h).spent : NeedFlush(o, h, at)},
         touched |-> Touched(BodyAt(h))]]

\* The highest height of the batch that touches s.
LastTouch(s) ==
    CHOOSE h \in BatchHeights : /\ s \in Touched(BodyAt(h))
                                /\ \A g \in BatchHeights : s \in Touched(BodyAt(g)) => g <= h

\* apply_cache_updates; AddressBalanceCache drops a script whose balance is zero.
CachedBalances ==
    LET zero == {s \in BatchTouched : BalanceAfter(s, BatchEnd) = 0}
        new == [s \in BatchTouched \ zero |->
                   [height |-> LastTouch(s), balance |-> BalanceAfter(s, BatchEnd)]]
    IN  Delete(Put(balanceCache, new), zero)

FlushBatch ==
    /\ BatchLoaded
    /\ ~BatchPanics
    /\ resolve_previous_commit
    /\ \E at \in [BatchCreated -> BatchHeights] :
          /\ \A o \in BatchCreated : at[o] \in CreatedAt(o)
          /\ LET newUtxos == BatchCreated \ BatchSpent
                 removed == {o \in BatchSpent : \E h \in SpentAt(o) : NeedFlush(o, h, at)}
             IN  /\ update_block_state_batch_async(newUtxos, removed, Entries,
                                                   build_block_commits, Bundles(at), BatchEnd)
                 /\ utxoCache' = (utxoCache \union newUtxos) \ removed
    /\ balanceCache' = CachedBalances
    /\ pc' = "prune"
    /\ UNCHANGED <<envVars, statusVars, latest, target, next, resuming, cur, loaded>>

(***************************************************************************)
(* prune_undo_journal_if_needed, then the next batch or the end of the     *)
(* pass.  The prune is due when the batch crosses a cleanup bucket and     *)
(* reaches the hot window of a freshly read tip.                           *)
(***************************************************************************)
CrossesBucket ==
    /\ UndoRetention # 0
    /\ CleanupInterval # 0
    /\ (cur - 1) \div CleanupInterval # BatchEnd \div CleanupInterval

PruneDue ==
    /\ CrossesBucket
    /\ BatchEnd >= SatSub(StableTarget, UndoRetention - 1)

PruneUndo ==
    /\ pc = "prune"
    /\ IF PruneDue
       THEN prune_undo_before_height(SatSub(BatchEnd, UndoRetention - 1))
       ELSE UNCHANGED dbVars
    /\ statCurrent' = BatchEnd
    /\ IF BatchEnd < latest
       THEN /\ pc' = "load"
            /\ cur' = BatchEnd + 1
            /\ loaded' = << >>
            /\ UNCHANGED <<latest, target, next, resuming>>
       ELSE pc' = "wait" /\ FreeLocals
    /\ UNCHANGED <<envVars, cacheVars, statusRollback, started, statTotal>>

\* Mutant: only a new height wakes the loop.
should_wake_on_height_only == StableTarget # height

\* wait_for_new_blocks: should_wake_for_chain_update, polled every second.
should_wake_for_chain_update ==
    \/ StableTarget # height
    \/ /\ StableTarget = height
       /\ height > 0
       /\ CommitHash(height) # CanonicalHash(height)

KeepWaiting ==
    /\ pc = "wait"
    /\ ~should_wake_for_chain_update
    /\ UNCHANGED vars

WakeUp ==
    /\ pc = "wait"
    /\ should_wake_for_chain_update
    /\ pc' = "sync_once"
    /\ UNCHANGED <<dbVars, envVars, cacheVars, statusVars, latest, target, next,
                   resuming, cur, loaded>>

-----------------------------------------------------------------------------
(* Evictions and faults *)

\* LRU capacity and the memory monitor thread drop entries at any time.
EvictUtxo ==
    /\ \E o \in utxoCache : utxoCache' = utxoCache \ {o}
    /\ UNCHANGED <<dbVars, envVars, balanceCache, statusVars, loopVars>>

EvictBalance ==
    /\ \E s \in DOMAIN balanceCache : balanceCache' = Delete(balanceCache, {s})
    /\ UNCHANGED <<dbVars, envVars, utxoCache, statusVars, loopVars>>

Fault(kind) ==
    /\ kind \in Faults
    /\ faults < MaxFaults
    /\ faults' = faults + 1
    /\ UNCHANGED <<chain, reorgs>>

\* A call to the node fails.
RpcError ==
    /\ \/ pc \in {"latest", "check", "search", "load", "wait"}
       \/ pc = "prune" /\ CrossesBucket
    /\ Fault("rpc")
    /\ AbandonPass

\* A write to the store fails and leaves it as it was.
DbError ==
    /\ \/ pc \in {"mark", "mark_target", "mark_next", "undo", "put_next",
                  "clear_target", "clear_next"}
       \/ BatchLoaded /\ ~BatchPanics
       \/ pc = "prune" /\ PruneDue
    /\ Fault("db")
    /\ AbandonPass

LoseMemory ==
    /\ utxoCache' = {}
    /\ balanceCache' = << >>
    /\ statusRollback' = FALSE
    /\ started' = FALSE
    /\ statCurrent' = 0
    /\ statTotal' = 0
    /\ pc' = "sync_once"
    /\ FreeLocals

Crash ==
    /\ Fault("crash")
    /\ LoseMemory
    /\ UNCHANGED dbVars

\* The supervisor restarts a process that exited after a panic.
Restart ==
    /\ pc = "panic"
    /\ LoseMemory
    /\ UNCHANGED <<dbVars, envVars>>

-----------------------------------------------------------------------------
Rollback == \/ BeginRollback \/ MarkInProgress \/ MarkTarget \/ MarkNext \/ UndoBlock
            \/ PutNext \/ ClearInProgress \/ ClearTarget \/ FinishRollback

SyncStep ==
    \/ NothingToResume \/ ResumeRollback \/ ResumeRefused
    \/ GetLatest \/ TipMatches \/ TipMoved \/ ProbeFails \/ ProbeLower
    \/ RollbackIsEmpty \/ RollbackRefused \/ Rollback
    \/ PlanSync \/ (\E h \in BatchHeights : LoadBlock(h)) \/ LoadFails
    \/ Panic \/ FlushBatch \/ PruneUndo \/ KeepWaiting \/ WakeUp
    \/ Restart

Environment == ExtendChain \/ ReplaceChain \/ EvictUtxo \/ EvictBalance
               \/ RpcError \/ DbError \/ Crash

Next == SyncStep \/ Environment

Spec == Init /\ [][Next]_vars

\* run_loop runs in its own thread and never waits for anything but the node and the disk.
FairSpec == Spec /\ WF_vars(SyncStep)

-----------------------------------------------------------------------------
(* Properties *)

StoreTypeOK ==
    /\ utxo \subseteq Outpoint
    /\ DOMAIN rows \subseteq Script \X Nat
    /\ DOMAIN undo \subseteq Nat
    /\ \A h \in DOMAIN undo : undo[h] \in [created : SUBSET Outpoint,
                                          spent   : SUBSET Outpoint,
                                          touched : SUBSET Script]
    /\ height \in Nat
    /\ supportedFrom \in Nat \union {None}
    /\ retainedFrom \in Nat \union {None}

JournalTypeOK ==
    /\ rbInProgress \in BOOLEAN
    /\ rbTarget \in Nat \union {None}
    /\ rbNext \in Nat \union {None}

MemoryTypeOK ==
    /\ utxoCache \subseteq Outpoint
    /\ DOMAIN balanceCache \subseteq Script
    /\ statusRollback \in BOOLEAN
    /\ started \in BOOLEAN
    /\ statCurrent \in Nat
    /\ statTotal \in Nat

LoopTypeOK ==
    /\ pc \in PCs
    /\ latest \in Nat
    /\ target \in Nat
    /\ next \in Nat
    /\ resuming \in BOOLEAN
    /\ cur \in Nat

EnvTypeOK ==
    /\ chain \in Chains
    /\ reorgs \in 0..MaxReorgs
    /\ faults \in 0..MaxFaults

\* The variables of the store, the process and the node have their types.
TypeOK == StoreTypeOK /\ JournalTypeOK /\ MemoryTypeOK /\ LoopTypeOK /\ EnvTypeOK

(***************************************************************************)
(* The commit chain, the balance rows and the undo journal never hold      *)
(* anything above btc_block_height, and the commit chain has no gap below  *)
(* it: rollback_one_block removes exactly what the block had added, so the *)
(* next block at that height finds no leftover of an orphaned one.         *)
(***************************************************************************)
NothingAboveTip ==
    /\ DOMAIN commits = 1..height
    /\ DOMAIN undo \subseteq 1..height
    /\ \A k \in DOMAIN rows : k[2] \in 1..height

(***************************************************************************)
(* A rollback that started can finish: the bundles it needs are all there, *)
(* in whatever step the process is (or was when it died), so the early     *)
(* returns of rollback_one_block cannot leave a half-rolled-back store.    *)
(***************************************************************************)
RollbackPCs == {"mark", "mark_target", "mark_next", "undo", "put_next"}

UndoCoversRollback ==
    pc \in RollbackPCs =>
        /\ next = height
        /\ target <= height
        /\ target + 1 .. height \subseteq DOMAIN undo

(***************************************************************************)
(* While the rollback loop runs, the persisted target is the loop's and    *)
(* the persisted rollback_next_height is the height, or one above it       *)
(* between the two writes of an iteration: a restart can find the journal  *)
(* at most one block behind the store, never ahead of it.                  *)
(***************************************************************************)
JournalTracksHeight ==
    rbInProgress /\ pc \in {"undo", "put_next"} =>
        /\ rbTarget = target
        /\ rbNext = (IF pc = "undo" THEN height ELSE height + 1)

(***************************************************************************)
(* Every commit extends the commit of the block below by one link, and the *)
(* root in that link is the set of balance rows stored at its height: the  *)
(* commit that downstream services compare really covers the rows they     *)
(* query, also after rollbacks, re-syncs and batches.                      *)
(***************************************************************************)
CommitsBindRows ==
    \A h \in DOMAIN commits :
        /\ Len(commits[h]) = h
        /\ h > 1 => commits[h - 1] = SubSeq(commits[h], 1, h - 1)
        /\ LET root == commits[h][h].root
           IN  /\ DOMAIN root = {s \in Script : <<s, h>> \in DOMAIN rows}
               /\ \A s \in DOMAIN root : root[s] = rows[<<s, h>>]

CachesAgree ==
    /\ utxoCache \subseteq utxo
    /\ \A s \in DOMAIN balanceCache :
          /\ balanceCache[s].height <= height
          /\ <<s, balanceCache[s].height>> \in DOMAIN rows
          /\ balanceCache[s].balance = rows[<<s, balanceCache[s].height>>].balance
          /\ \A g \in balanceCache[s].height + 1 .. height : <<s, g>> \notin DOMAIN rows

(***************************************************************************)
(* Outside a rollback the caches agree with the store: a cached output is  *)
(* unspent and a cached balance is the script's latest row.  The next      *)
(* batch computes its balances from the cache, so a stale entry would be   *)
(* written into every later row of the script.                             *)
(***************************************************************************)
CacheCoherent ==
    pc \in {"latest", "check", "search", "plan", "load", "prune", "wait"} => CachesAgree

(***************************************************************************)
(* The store is a function of the blocks it has committed: the UTXO set    *)
(* and every balance row, at every height, are what replaying those blocks *)
(* from an empty store gives, whatever batches, rollbacks, crashes and     *)
(* retries led there.  It rests on need_flush as block.rs has it: a spend  *)
(* of an output that an earlier block of the SAME batch created is in the  *)
(* undo bundle.  The rollback design document (section 6.3) asks for the   *)
(* opposite, outputs created and spent in one batch left out of the        *)
(* journal; that rule is NeedFlush_other_batches_only, and it loses the    *)
(* output when only the spending block is rolled back.  A store write that *)
(* fails inside clear_rollback_state is not among the faults this is       *)
(* checked with: it leaves stale caches behind (DbError).                  *)
(***************************************************************************)
ReplayUtxo(c, h) ==
    (UNION {c[i].created : i \in 1..h}) \ (UNION {c[i].spent : i \in 1..h})

StateIsReplay ==
    LET c == IF height = 0 THEN << >> ELSE CommitHash(height)
    IN  /\ utxo = ReplayUtxo(c, height)
        /\ \A h \in 1..height : CommitHash(h) = SubSeq(c, 1, h)
        /\ \A h \in 1..height, s \in Script :
              /\ <<s, h>> \in DOMAIN rows <=> s \in Touched(c[h])
              /\ get_balance_at_block_height(s, h).balance = PaidTo(s, ReplayUtxo(c, h))

\* What get_readiness reports (rpc_alive and shutdown aside).
query_ready == started /\ ~statusRollback

(***************************************************************************)
(* get_readiness never reports query_ready while the durable state is in   *)
(* the middle of a rollback, in this process or left over from another.    *)
(***************************************************************************)
QueryReadyMeansSettled == query_ready => ~rbInProgress

HeightStep ==
    height' # height =>
        \/ height' > height /\ ~rbInProgress /\ pc = "load"
        \/ height' = height - 1 /\ rbInProgress /\ height' >= rbTarget

(***************************************************************************)
(* Rollback never goes below its target and never raises the height: the   *)
(* height only grows by a flushed batch and only falls by one block of a   *)
(* marked rollback.                                                        *)
(***************************************************************************)
HeightMoves == [][HeightStep]_vars

\* The highest block the store shares with the node, where the search of a pass ends.
CommonAncestor ==
    CHOOSE t \in 0..MinOf(height, StableTarget) :
        /\ t = 0 \/ CommitHash(t) = CanonicalHash(t)
        /\ \A g \in t + 1 .. MinOf(height, StableTarget) : CommitHash(g) # CanonicalHash(g)

\* The chain was replaced below the bundles that are kept: ensure_rollback_undo_available
\* fails in every pass.
ReorgBelowUndo ==
    /\ CommonAncestor < height
    /\ ~ensure_rollback_undo_available(CommonAncestor, height)

(***************************************************************************)
(* When the node's chain stops changing, the indexer ends up at its stable *)
(* height with the canonical block there, whatever it had synced before    *)
(* and whatever failed.  There are two exceptions, and in both every later *)
(* pass fails the same way: a process that died inside a rollback and      *)
(* whose journal resume_rollback_if_needed refuses                         *)
(* (InterruptedRollbackResumes), and a chain replaced deeper than the undo *)
(* window, whose rollback is refused before the first write.               *)
(***************************************************************************)
Converges ==
    <>[](\/ /\ height = StableTarget
            /\ height > 0 => CommitHash(height) = CanonicalHash(height)
         \/ rbInProgress /\ ~ResumeReady
         \/ ~rbInProgress /\ ReorgBelowUndo)

(***************************************************************************)
(* db.rs resumes a rollback "using persisted rollback meta state"; the     *)
(* rollback design says a process that dies in the middle continues after  *)
(* its restart: whenever a pass begins with the marker set, the checks of  *)
(* resume_rollback_if_needed pass.                                         *)
(***************************************************************************)
InterruptedRollbackResumes ==
    pc = "sync_once" /\ rbInProgress => ResumeReady
=============================================================================
