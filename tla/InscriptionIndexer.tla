-------------------------- MODULE InscriptionIndexer --------------------------
(***************************************************************************)
(* The sync loop of usdb-indexer (index/indexer.rs): it follows the chain  *)
(* that balance-history serves, turns each block into miner-pass and       *)
(* energy changes, and rolls back when the upstream's commits drift.       *)
(*                                                                         *)
(* Four stores must agree on a block: the SQLite database (one savepoint   *)
(* per block: `conn` is what the connection sees, `disk` what is durable), *)
(* the energy store in RocksDB (written at once, guarded by its pending    *)
(* marker), the transfer tracker in memory (staged per block, then         *)
(* swapped), and the upstream.  An action is one durable write or one RPC  *)
(* answer; between two of them the upstream may move, the call may fail    *)
(* or the process may die.                                                 *)
(*                                                                         *)
(* The upstream is one chain, a sequence of blocks; a block commit or a    *)
(* snapshot at height h is the chain's prefix of length h, since both hash *)
(* everything below them.  balance-history and bitcoind are taken to be on *)
(* the same chain (a lag between them ends in the same drift).             *)
(***************************************************************************)
EXTENDS MinerPass

CONSTANTS
    Chains,          \* the chains of the run, closed under prefixes
    Genesis,         \* usdb.genesis_block_height
    MaxEvents,       \* bound on the events of a block
    MaxReorgs,       \* bound on upstream reorganisations
    MaxFaults,       \* bound on failed calls and crashes
    FaultKinds,      \* which of {"early", "staged", "final", "late", "crash", "rpc"} occur
    UpstreamWindow   \* the pcs at which the upstream's chain may change

ASSUME IndexerAssumption ==
    /\ Genesis \in Nat \ {0}
    /\ Genesis <= MaxHeight + 1
    /\ MaxEvents \in Nat
    /\ MaxReorgs \in Nat
    /\ MaxFaults \in Nat

ASSUME ChainsAssumption == \A c \in Chains : c \in Seq(Blocks) /\ Len(c) <= MaxHeight

VARIABLES
    chain,           \* the upstream's chain
    status,          \* the snapshot StatusManager polled last
    disk, conn,      \* SQLite: durable, and as the connection sees it
    en,              \* the energy store
    tracker, staged, \* transfer tracker: published and staged maps
    flag,            \* RuntimeReadinessStatus.upstream_reorg_recovery_pending
    pc, loc,         \* program counter and locals of the sync task
    reorgs, faults

upVars  == <<chain, status, reorgs>>
dbVars  == <<disk, conn>>
memVars == <<tracker, staged, flag>>
vars    == <<chain, status, disk, conn, en, tracker, staged, flag, pc, loc, reorgs, faults>>

Floor == Genesis - 1

NoStage == [p \in Passes |-> [sat |-> NoHeight - 1, owner |-> Nobody]]

PCs == {"sync_once", "latest", "resume", "resume_energy", "reload", "clear", "detect",
        "ancestor", "rollback", "check", "plan", "begin", "collect", "exec", "settle",
        "finalize", "persist", "publish", "synced", "commit", "anchor", "backfill",
        "wait", "down"}

InBlock == {"collect", "exec", "settle", "finalize", "persist", "publish", "synced", "commit"}

NoLocals == [snap |-> <<>>, latest |-> 0, cur |-> 0, blk |-> 0, target |-> 0,
             todo |-> <<>>, bad |-> {}, done |-> <<>>, after |-> "detect"]

Init ==
    /\ chain \in Chains
    /\ status = chain
    /\ disk = EmptyStore
    /\ conn = EmptyStore
    /\ en = EmptyEnergy
    /\ tracker = NoTracking
    /\ staged = NoStage
    /\ flag = FALSE
    /\ pc = "sync_once"
    /\ loc = NoLocals
    /\ reorgs = 0
    /\ faults = 0

-----------------------------------------------------------------------------
(* The upstream *)

Prefix(c, h) == SubSeq(c, 1, h)

HasBlock(h) == h <= Len(chain)

ExtendChain ==
    /\ pc \in UpstreamWindow
    /\ \E c \in Chains : Len(c) = Len(chain) + 1 /\ Prefix(c, Len(chain)) = chain /\ chain' = c
    /\ UNCHANGED <<status, reorgs, dbVars, en, memVars, pc, loc, faults>>

ReplaceChain ==
    /\ reorgs < MaxReorgs
    /\ pc \in UpstreamWindow
    /\ \E c \in Chains : /\ ~(Len(c) >= Len(chain) /\ Prefix(c, Len(chain)) = chain)
                         /\ chain' = c
    /\ reorgs' = reorgs + 1
    /\ UNCHANGED <<status, dbVars, en, memVars, pc, loc, faults>>

\* update_status: the monitor task polls balance-history once a second.
PollStatus ==
    /\ status # chain
    /\ status' = chain
    /\ UNCHANGED <<chain, reorgs, dbVars, en, memVars, pc, loc, faults>>

\* The balance history of a chain: balances after each height.
BalancesOf(c) == [k \in 0..Len(c) |-> IF k = 0 THEN [o \in Owners |-> 0] ELSE c[k].bal]

Balances == BalancesOf(chain)

-----------------------------------------------------------------------------
(* sync_once: snapshot and height are read one after the other *)

MaxOf(a, b) == IF a >= b THEN a ELSE b
MinOf(a, b) == IF a <= b THEN a ELSE b

ReadSnapshot ==
    /\ pc = "sync_once"
    /\ loc' = [NoLocals EXCEPT !.snap = status]
    /\ pc' = "latest"
    /\ UNCHANGED <<upVars, dbVars, en, memVars, faults>>

ReadStableHeight ==
    /\ pc = "latest"
    /\ loc' = [loc EXCEPT !.latest = Len(status), !.after = "detect"]
    /\ pc' = "resume"
    /\ UNCHANGED <<upVars, dbVars, en, memVars, faults>>

\* Where sync_once continues after the recovery call: below genesis it returns.
AfterResume ==
    IF loc.after = "detect" /\ loc.latest < Genesis THEN "wait" ELSE loc.after

\* resume_pending_upstream_reorg_recovery: no marker.
NothingPending ==
    /\ pc = "resume"
    /\ conn.pending = NoHeight
    /\ flag' = FALSE
    /\ pc' = AfterResume
    /\ loc' = [loc EXCEPT !.cur = IF AfterResume = "wait" THEN loc.latest
                                  ELSE MaxOf(conn.synced, Floor)]
    /\ UNCHANGED <<upVars, dbVars, en, tracker, staged, faults>>

\* The sync task's error path: sync_once returns Err, run() sleeps and retries.
GiveUp ==
    /\ pc' = "sync_once"
    /\ loc' = NoLocals

\* A marker that disagrees with the synced height is an error on every retry.
ResumePending ==
    /\ pc = "resume"
    /\ conn.pending # NoHeight
    /\ flag' = TRUE
    /\ IF conn.synced # conn.pending THEN GiveUp
       ELSE pc' = "resume_energy" /\ UNCHANGED loc
    /\ UNCHANGED <<upVars, dbVars, en, tracker, staged, faults>>

ResumeEnergy ==
    /\ pc = "resume_energy"
    /\ en' = reconcile_with_pass_synced_height(en, conn.pending)
    /\ IF EnergyBehind(en, conn.pending) THEN GiveUp
       ELSE pc' = "reload" /\ UNCHANGED loc
    /\ UNCHANGED <<upVars, dbVars, memVars, faults>>

\* Mutant: recovery leaves the tracker on the old chain.
ReloadTracker_skipped ==
    /\ pc = "reload"
    /\ staged' = NoStage
    /\ pc' = "clear"
    /\ UNCHANGED <<upVars, dbVars, en, tracker, flag, loc, faults>>

ReloadTracker ==
    /\ pc = "reload"
    /\ tracker' = reload_from_storage(conn)
    /\ staged' = NoStage
    /\ pc' = "clear"
    /\ UNCHANGED <<upVars, dbVars, en, flag, loc, faults>>

\* A write outside a savepoint is durable at once.
WriteBoth(db) == disk' = db /\ conn' = db

\* The two consistency checks of the pass store.
StoreChecks(h) == NoDataAfter(conn, h) /\ SnapshotConsistent(conn, h, Genesis)

\* Mutant: only the readiness flag is cleared.
ClearPending_keeps_marker ==
    /\ pc = "clear"
    /\ flag' = FALSE
    /\ pc' = AfterResume
    /\ loc' = [loc EXCEPT !.cur = IF AfterResume = "wait" THEN loc.latest
                                  ELSE MaxOf(conn.synced, Floor)]
    /\ UNCHANGED <<upVars, dbVars, en, tracker, staged, faults>>

ClearPending ==
    /\ pc = "clear"
    /\ IF ~StoreChecks(conn.pending)
       THEN GiveUp /\ UNCHANGED <<dbVars, flag>>
       ELSE /\ WriteBoth(clear_recovery_pending(conn))
            /\ flag' = FALSE
            /\ pc' = AfterResume
            /\ loc' = [loc EXCEPT !.cur = IF AfterResume = "wait" THEN loc.latest
                                          ELSE MaxOf(conn.synced, Floor)]
    /\ UNCHANGED <<upVars, en, tracker, staged, faults>>

-----------------------------------------------------------------------------
(* detect_upstream_reorg_target and find_common_ancestor_height *)

CommitMatches(h) == HasBlock(h) /\ conn.commits[h].up = Prefix(chain, h)

\* Mutant: the snapshot's own height is the only drift signal.
Drifted_by_height_only(cur, latest, snap) == cur > latest

\* The drift test of a pass at height cur against the snapshot snap.
Drifted(cur, latest, snap) ==
    \/ cur > latest
    \/ cur = latest /\ conn.anchor # <<>> /\ conn.anchor # snap
    \/ cur >= Genesis /\ conn.commits[cur] # NoCommit /\ ~CommitMatches(cur)

NoDrift ==
    /\ pc = "detect"
    /\ ~Drifted(loc.cur, loc.latest, loc.snap)
    /\ pc' = "check"
    /\ UNCHANGED <<upVars, dbVars, en, memVars, loc, faults>>

DriftFound ==
    /\ pc = "detect"
    /\ Drifted(loc.cur, loc.latest, loc.snap)
    /\ loc' = [loc EXCEPT !.target = MinOf(loc.cur, loc.latest)]
    /\ pc' = "ancestor"
    /\ UNCHANGED <<upVars, dbVars, en, memVars, faults>>

\* One height of the search: both the stored commit and, when there is one, the
\* stored snapshot of the height must match the upstream.
AncestorMatches(h) ==
    /\ CommitMatches(h)
    /\ conn.anchors[h] = <<>> \/ conn.anchors[h] = Prefix(chain, h)

\* The search ends below genesis, at a height without a local commit (back to the
\* floor) or at a match.
AncestorFound ==
    /\ pc = "ancestor"
    /\ LET floor == loc.target < Genesis \/ conn.commits[loc.target] = NoCommit
       IN  /\ floor \/ AncestorMatches(loc.target)
           /\ loc' = [loc EXCEPT !.target = IF floor THEN Floor ELSE loc.target]
    /\ pc' = "rollback"
    /\ UNCHANGED <<upVars, dbVars, en, memVars, faults>>

ProbeLower ==
    /\ pc = "ancestor"
    /\ loc.target >= Genesis
    /\ conn.commits[loc.target] # NoCommit
    /\ HasBlock(loc.target)
    /\ ~AncestorMatches(loc.target)
    /\ loc' = [loc EXCEPT !.target = loc.target - 1]
    /\ UNCHANGED <<upVars, dbVars, en, memVars, pc, faults>>

\* The upstream has no commit at the probed height any more.
ProbeFails ==
    /\ pc = "ancestor"
    /\ loc.target >= Genesis
    /\ conn.commits[loc.target] # NoCommit
    /\ ~HasBlock(loc.target)
    /\ GiveUp
    /\ UNCHANGED <<upVars, dbVars, en, memVars, faults>>

\* reconcile_upstream_reorg: the flag, the one-transaction rollback, then the
\* recovery that the marker asks for.
RollbackPasses ==
    /\ pc = "rollback"
    /\ flag' = TRUE
    /\ WriteBoth(rollback_to_block_height(conn, loc.target))
    /\ loc' = [loc EXCEPT !.after = "check"]
    /\ pc' = "resume"
    /\ UNCHANGED <<upVars, en, tracker, staged, faults>>

\* The checks before the block loop; the energy store also repairs itself.
CheckStores ==
    /\ pc = "check"
    /\ en' = IF StoreChecks(loc.cur) THEN reconcile_with_pass_synced_height(en, loc.cur) ELSE en
    /\ IF ~StoreChecks(loc.cur) \/ EnergyBehind(en, loc.cur) THEN GiveUp
       ELSE pc' = "plan" /\ UNCHANGED loc
    /\ UNCHANGED <<upVars, dbVars, memVars, faults>>

PlanSync ==
    /\ pc = "plan"
    /\ IF loc.cur >= loc.latest
       THEN pc' = "anchor" /\ UNCHANGED loc
       ELSE pc' = "begin" /\ loc' = [loc EXCEPT !.blk = loc.cur + 1]
    /\ UNCHANGED <<upVars, dbVars, en, memVars, faults>>

-----------------------------------------------------------------------------
(* sync_block and its frame in sync_blocks *)

\* The savepoint opens and the energy store marks the block as pending; another
\* pending block is an error.
BeginBlock ==
    /\ pc = "begin"
    /\ IF en.pending # NoHeight THEN GiveUp /\ UNCHANGED en
       ELSE /\ en' = begin_block_sync(en, loc.blk)
            /\ pc' = "collect"
            /\ UNCHANGED loc
    /\ UNCHANGED <<upVars, dbVars, memVars, faults>>

Events(h) == chain[h].events

\* Where the inscription p is before event i of block h.
ChainSat(p, h, i) ==
    Cardinality({x \in (1..h) \X (1..MaxEvents) :
        /\ x[2] <= Len(Events(x[1]))
        /\ x[1] < h \/ x[2] < i
        /\ Events(x[1])[x[2]].op = "move"
        /\ Events(x[1])[x[2]].pass = p})

\* build_transfer_track_seeds: the block's valid mints join the working copy.
Seeded(h) ==
    [p \in Passes |->
        IF \E i \in DOMAIN Events(h) : Events(h)[i].op = "mint" /\ Events(h)[i].pass = p
        THEN LET i == CHOOSE j \in DOMAIN Events(h) :
                          Events(h)[j].op = "mint" /\ Events(h)[j].pass = p
             IN  [sat |-> 0, owner |-> Events(h)[i].owner]
        ELSE tracker[p]]

\* process_block_with_hint, event i: a move is seen only if the working copy holds
\* the output it spends; the copy follows the pass, or drops it when it is lost.
WalkStep(b, h, i) ==
    LET e   == Events(h)[i]
        sat == b.map[e.pass].sat
    IN  CASE e.op = "mint"    -> [map |-> b.map, items |-> Append(b.items, e)]
          [] e.op = "invalid" -> b
          [] e.op = "move" /\ sat # ChainSat(e.pass, h, i) -> b
          [] e.op = "move" /\ sat = ChainSat(e.pass, h, i) ->
               [map   |-> [b.map EXCEPT ![e.pass] =
                             IF e.to = Nobody THEN NotTracked
                             ELSE [sat |-> sat + 1, owner |-> e.to]],
                items |-> Append(b.items,
                             [op |-> "move", pass |-> e.pass, to |-> e.to, sat |-> sat + 1])]

Walk(h) ==
    LET w[i \in 0..Len(Events(h))] ==
          IF i = 0 THEN [map |-> Seeded(h), items |-> <<>>] ELSE WalkStep(w[i - 1], h, i)
    IN  w[Len(Events(h))]

\* The block hint, the mints, the transfers of the staged copy and the plan.  A
\* staged copy left over by another block is an error.
CanCollect == HasBlock(loc.blk) /\ staged = NoStage

CollectBlock ==
    /\ pc = "collect"
    /\ CanCollect
    /\ LET w == Walk(loc.blk)
       IN  /\ staged' = w.map
           /\ loc' = [loc EXCEPT
                        !.todo = w.items,
                        !.bad  = {e \in Range(Events(loc.blk)) : e.op = "invalid"}]
    /\ pc' = "exec"
    /\ UNCHANGED <<upVars, dbVars, en, tracker, flag, faults>>

ExecuteFails ==
    \/ RowRefused(conn, Head(loc.todo))
    \/ NeedsBalance(conn, en.rec, Head(loc.todo), loc.blk) /\ ~HasBlock(loc.blk)

ExecuteEvent ==
    /\ pc = "exec"
    /\ loc.todo # <<>>
    /\ ~ExecuteFails
    /\ LET r == execute(conn, en.rec, Balances, Head(loc.todo), loc.blk)
       IN  /\ conn' = r.db
           /\ en' = [en EXCEPT !.rec = r.rec]
    /\ loc' = [loc EXCEPT !.todo = Tail(loc.todo), !.done = Append(loc.done, Head(loc.todo))]
    /\ UNCHANGED <<upVars, disk, memVars, pc, faults>>

\* process_invalid_mints comes after every ordered event.
RecordInvalidMints ==
    /\ pc = "exec"
    /\ loc.todo = <<>>
    /\ ~\E e \in loc.bad : RowRefused(conn, e)
    /\ conn' = on_invalid_mint_pass(conn, loc.bad, loc.blk)
    /\ pc' = "settle"
    /\ UNCHANGED <<upVars, disk, en, memVars, loc, faults>>

\* settle_active_balance_with_details: the active passes of the history at the
\* block's height, with their owners' balances and deltas.
ActiveAt(h) == {p \in Passes : RowAt(conn.hist, p, h).state = "active"}

OwnerAt(p, h) == RowAt(conn.hist, p, h).owner

DuplicateOwner(h) == \E p, q \in ActiveAt(h) : p # q /\ OwnerAt(p, h) = OwnerAt(q, h)

SettleFails(h) ==
    \/ ~NoDataAfter(conn, h)
    \/ DuplicateOwner(h)
    \/ ActiveAt(h) # {} /\ ~HasBlock(h)
    \/ \E p \in ActiveAt(h) :
          /\ HasBlock(h)
          /\ DeltaAt(Balances, OwnerAt(p, h), h) # 0
          /\ ChangeRefused(en.rec, p, OwnerAt(p, h), h, Balances[h][OwnerAt(p, h)],
                           DeltaAt(Balances, OwnerAt(p, h), h))

SettleBalances ==
    /\ pc = "settle"
    /\ ~SettleFails(loc.blk)
    /\ LET h == loc.blk
           A == ActiveAt(h)
       IN  /\ conn' = upsert_active_balance_snapshot(conn, h,
                          [total |-> saturating_u128_to_u64(
                                        SumFunction([p \in A |-> Balances[h][OwnerAt(p, h)]])),
                           count |-> Cardinality(A)])
           /\ en' = [en EXCEPT !.rec = [p \in Passes |->
                        IF p \notin A THEN en.rec[p]
                        ELSE apply_active_balance_change(en.rec, p, h, Balances[h][OwnerAt(p, h)],
                                 DeltaAt(Balances, OwnerAt(p, h), h))[p]]]
    /\ pc' = "finalize"
    /\ UNCHANGED <<upVars, disk, memVars, loc, faults>>

FinalizeEnergy ==
    /\ pc = "finalize"
    /\ en' = finalize_block_sync(en, loc.blk)
    /\ pc' = "persist"
    /\ UNCHANGED <<upVars, dbVars, memVars, loc, faults>>

\* persist_pass_block_commit: the upstream's commit at the same height, as it is
\* now, and the mutations collected since the block began.
PersistCommit ==
    /\ pc = "persist"
    /\ HasBlock(loc.blk)
    /\ conn' = upsert_pass_block_commit(conn, loc.blk,
                    [up |-> Prefix(chain, loc.blk), muts |-> loc.done, invalid |-> loc.bad])
    /\ pc' = "publish"
    /\ UNCHANGED <<upVars, disk, en, memVars, loc, faults>>

\* commit_staged_block
PublishTracker ==
    /\ pc = "publish"
    /\ tracker' = staged
    /\ staged' = NoStage
    /\ pc' = "synced"
    /\ UNCHANGED <<upVars, dbVars, en, flag, loc, faults>>

\* Mutant: the height of the next block.
PutSyncedHeight_off_by_one ==
    /\ pc = "synced"
    /\ conn' = [conn EXCEPT !.synced = loc.blk + 1]
    /\ pc' = "commit"
    /\ UNCHANGED <<upVars, disk, en, memVars, loc, faults>>

PutSyncedHeight ==
    /\ pc = "synced"
    /\ conn' = update_synced_height(conn, loc.blk)
    /\ pc' = "commit"
    /\ UNCHANGED <<upVars, disk, en, memVars, loc, faults>>

CommitSavepoint ==
    /\ pc = "commit"
    /\ disk' = conn
    /\ IF loc.blk < loc.latest
       THEN /\ loc' = [loc EXCEPT !.cur = loc.blk, !.blk = loc.blk + 1,
                                  !.todo = <<>>, !.bad = {}, !.done = <<>>]
            /\ pc' = "begin"
       ELSE /\ loc' = [NoLocals EXCEPT !.cur = loc.blk, !.snap = loc.snap]
            /\ pc' = "anchor"
    /\ UNCHANGED <<upVars, conn, en, memVars, faults>>

-----------------------------------------------------------------------------
(* The end of sync_once *)

\* persist_balance_history_snapshot_anchor: only for the height it was read at.
PersistAnchor ==
    /\ pc = "anchor"
    /\ IF Len(loc.snap) # loc.cur
       THEN GiveUp /\ UNCHANGED dbVars
       ELSE /\ WriteBoth(upsert_snapshot_anchor(conn, loc.snap))
            /\ pc' = "backfill"
            /\ UNCHANGED loc
    /\ UNCHANGED <<upVars, en, memVars, faults>>

MissingAnchors == {h \in Genesis..loc.cur : conn.anchors[h] = <<>>}

Backfill ==
    /\ pc = "backfill"
    /\ MissingAnchors # {}
    /\ LET h == Min(MissingAnchors)
       IN  IF HasBlock(h)
           THEN /\ WriteBoth(upsert_snapshot_history_entry(conn, h, Prefix(chain, h)))
                /\ UNCHANGED <<pc, loc>>
           ELSE GiveUp /\ UNCHANGED dbVars
    /\ UNCHANGED <<upVars, en, memVars, faults>>

SyncDone ==
    /\ pc = "backfill"
    /\ MissingAnchors = {}
    /\ pc' = "wait"
    /\ loc' = [NoLocals EXCEPT !.cur = loc.cur]
    /\ UNCHANGED <<upVars, dbVars, en, memVars, faults>>

\* wait_for_new_blocks, polled every five seconds; run() then calls sync_once.
NewsArrived == Len(status) > loc.cur \/ Drifted(loc.cur, Len(status), status)

KeepWaiting ==
    /\ pc = "wait"
    /\ ~NewsArrived
    /\ UNCHANGED vars

WakeUp ==
    /\ pc = "wait"
    /\ NewsArrived
    /\ GiveUp
    /\ UNCHANGED <<upVars, dbVars, en, memVars, faults>>

-----------------------------------------------------------------------------
(* Failures.  A call may fail (a fault of the run), and some fail because  *)
(* of the state.  Dropping the savepoint guard rolls conn back.            *)

MayFail(kind) == kind \in FaultKinds /\ faults < MaxFaults

CountIf(forced) == faults' = IF forced THEN faults ELSE faults + 1

\* `?` before the transfers are staged: the energy marker stays behind.
FailEarly ==
    /\ pc = "collect"
    /\ ~CanCollect \/ MayFail("early")
    /\ CountIf(~CanCollect)
    /\ conn' = disk
    /\ GiveUp
    /\ UNCHANGED <<upVars, disk, en, memVars>>

\* recover_failed_block_sync before the energy is finalized.
MustFailStaged ==
    \/ pc = "exec" /\ loc.todo # <<>> /\ ExecuteFails
    \/ pc = "exec" /\ loc.todo = <<>> /\ \E e \in loc.bad : RowRefused(conn, e)
    \/ pc = "settle" /\ SettleFails(loc.blk)

\* Mutant: the failed block's staged transfers stay.
FailStaged_keeps_stage ==
    /\ pc \in {"exec", "settle", "finalize"}
    /\ MustFailStaged \/ MayFail("staged")
    /\ CountIf(MustFailStaged)
    /\ en' = abort_pending_block_sync(en, loc.blk)
    /\ conn' = disk
    /\ GiveUp
    /\ UNCHANGED <<upVars, disk, memVars>>

FailStaged ==
    /\ pc \in {"exec", "settle", "finalize"}
    /\ MustFailStaged \/ MayFail("staged")
    /\ CountIf(MustFailStaged)
    /\ en' = abort_pending_block_sync(en, loc.blk)
    /\ staged' = NoStage
    /\ conn' = disk
    /\ GiveUp
    /\ UNCHANGED <<upVars, disk, tracker, flag>>

\* recover_failed_block_sync after it: the energy goes back to the durable height.
FailFinalized ==
    /\ pc = "persist"
    /\ ~HasBlock(loc.blk) \/ MayFail("final")
    /\ CountIf(~HasBlock(loc.blk))
    /\ en' = reconcile_with_pass_synced_height(en, disk.synced)
    /\ staged' = NoStage
    /\ conn' = disk
    /\ GiveUp
    /\ UNCHANGED <<upVars, disk, tracker, flag>>

\* update_synced_btc_block_height or the savepoint's commit fails: only the
\* energy is rolled back.
FailLate ==
    /\ pc \in {"synced", "commit"}
    /\ MayFail("late")
    /\ faults' = faults + 1
    /\ en' = reconcile_with_pass_synced_height(en, disk.synced)
    /\ conn' = disk
    /\ GiveUp
    /\ UNCHANGED <<upVars, disk, memVars>>

\* A failed RPC, SQLite or RocksDB call outside a block (a failed poll, which drops
\* the snapshot, is one at "latest"); a rollback that fails takes the readiness
\* flag back, a reload that fails may leave the tracker empty.
FailOutside ==
    /\ pc \in {"latest", "resume", "resume_energy", "reload", "clear", "detect", "ancestor",
               "rollback", "check", "begin", "anchor", "backfill", "wait"}
    /\ MayFail("rpc")
    /\ faults' = faults + 1
    /\ flag' = (flag /\ pc # "rollback")
    /\ tracker' \in (IF pc = "reload" THEN {tracker, NoTracking} ELSE {tracker})
    /\ GiveUp
    /\ UNCHANGED <<upVars, dbVars, en, staged>>

Crash ==
    /\ pc # "down"
    /\ MayFail("crash")
    /\ faults' = faults + 1
    /\ conn' = disk
    /\ tracker' = NoTracking
    /\ staged' = NoStage
    /\ flag' = FALSE
    /\ pc' = "down"
    /\ loc' = NoLocals
    /\ UNCHANGED <<upVars, disk, en>>

\* main() builds the indexer and runs it; InscriptionIndexer::init is not called.
Restart ==
    /\ pc = "down"
    /\ pc' = "sync_once"
    /\ UNCHANGED <<upVars, dbVars, en, memVars, loc, faults>>

-----------------------------------------------------------------------------
Upstream == ExtendChain \/ ReplaceChain \/ PollStatus

Recovery == \/ NothingPending \/ ResumePending \/ ResumeEnergy \/ ReloadTracker \/ ClearPending
            \/ NoDrift \/ DriftFound \/ AncestorFound \/ ProbeLower \/ ProbeFails \/ RollbackPasses

SyncBlock == \/ BeginBlock \/ CollectBlock \/ ExecuteEvent \/ RecordInvalidMints
             \/ SettleBalances \/ FinalizeEnergy \/ PersistCommit \/ PublishTracker
             \/ PutSyncedHeight \/ CommitSavepoint

SyncOnce == \/ ReadSnapshot \/ ReadStableHeight \/ CheckStores \/ PlanSync
            \/ PersistAnchor \/ Backfill \/ SyncDone \/ KeepWaiting \/ WakeUp

Failures == FailEarly \/ FailStaged \/ FailFinalized \/ FailLate \/ FailOutside \/ Crash

Task == Recovery \/ SyncBlock \/ SyncOnce

Next == Upstream \/ Task \/ Failures \/ Restart

Spec == Init /\ [][Next]_vars

\* run() loops for ever and the status task polls for ever; a crashed process is
\* restarted by its supervisor.
FairSpec ==
    /\ Spec
    /\ WF_vars(Task \/ FailEarly \/ FailStaged \/ FailFinalized)
    /\ WF_vars(PollStatus)
    /\ WF_vars(Restart)

-----------------------------------------------------------------------------
(* Properties *)

Locals ==
    [snap : Seq(Blocks), latest : Heights, cur : Heights, blk : Heights, target : Heights,
     todo : Seq(ProcessEvents), bad : SUBSET InvalidEvents, done : Seq(ProcessEvents), after : {"detect", "check"}]

\* The variables of the stores, the tracker and the sync task have their types.
TypeOK ==
    /\ chain \in Chains
    /\ status \in Chains
    /\ disk \in Stores
    /\ conn \in Stores
    /\ en \in EnergyStores
    /\ tracker \in TrackMaps
    /\ staged \in TrackMaps \cup {NoStage}
    /\ flag \in BOOLEAN
    /\ pc \in PCs
    /\ loc \in Locals
    /\ reorgs \in 0..MaxReorgs
    /\ faults \in 0..MaxFaults

(***************************************************************************)
(* At every height of the history no owner holds two active passes, so     *)
(* neither the UNIQUE index of miner_passes, nor the assertion on prev     *)
(* passes in on_mint_pass, nor the duplicate-owner check of the balance    *)
(* monitor can ever fire.                                                  *)
(***************************************************************************)
OneActivePerOwner ==
    \A h \in Heights : ~DuplicateOwner(h)

(***************************************************************************)
(* The checks that tell the operator to "clean data directory and resync   *)
(* from genesis" never fail: after any crash, failed block, rollback or    *)
(* interrupted recovery the pass store holds nothing above its height and  *)
(* the last balance snapshot is that of its height.                        *)
(***************************************************************************)
StoreChecksNeverFail ==
    /\ pc = "check" => StoreChecks(loc.cur)
    /\ pc = "clear" => StoreChecks(conn.pending)

(***************************************************************************)
(* While a recovery is pending, durably, the pass store stays at the       *)
(* height the marker names: an interrupted recovery can always resume.     *)
(***************************************************************************)
PendingMatchesSynced ==
    disk.pending # NoHeight => disk.synced = disk.pending

(***************************************************************************)
(* Whenever an event is executed the two stores agree on every pass: an    *)
(* active pass has an active energy record of its owner, a dormant one a   *)
(* dormant record and a consumed one no energy left.  consume_pass asserts *)
(* the second and panics the sync task when it fails.                      *)
(***************************************************************************)
EnergyAgreesWithPasses ==
    pc = "exec" =>
        \A p \in Passes :
            LET row == conn.passes[p]
                r   == LastRecord(en.rec, p, loc.blk)
            IN  row.state \in {"active", "dormant", "consumed"} =>
                    /\ RecordHeights(en.rec, p, loc.blk) # {}
                    /\ r.state = row.state
                    /\ row.state = "active" => r.owner = row.owner
                    /\ row.state = "consumed" => r.energy = 0

(***************************************************************************)
(* "Energy storage must not run ahead/behind pass storage before new block *)
(* processing" (sync_once): once the pass store has reached genesis - 1    *)
(* the energy store's synced height is never below it, the error that      *)
(* no retry repairs.  (Before that the code reads the missing height as 0  *)
(* in one place and as genesis - 1 in another.)                            *)
(***************************************************************************)
EnergyNeverBehind ==
    conn.synced >= Floor =>
        /\ pc = "check" => ~EnergyBehind(en, loc.cur)
        /\ pc = "resume_energy" => ~EnergyBehind(en, conn.pending)

\* Where the process is between two blocks and no recovery is pending.
Settled == pc \notin InBlock \cup {"down"} /\ conn.pending = NoHeight

(***************************************************************************)
(* Between blocks the transfer tracker knows where every live pass is: the *)
(* satpoint and owner it holds are those of the pass store, so the next    *)
(* block's transfers are all seen.                                         *)
(***************************************************************************)
TrackerMatchesStore ==
    Settled => \A p \in Passes :
        conn.passes[p].state \in {"active", "dormant"} =>
            tracker[p] = [sat |-> conn.passes[p].sat, owner |-> conn.passes[p].owner]

(***************************************************************************)
(* No balance earns energy twice: the energy of all live passes together   *)
(* is at most what the balances of owners with an active pass earned since *)
(* genesis, each counted once per block, whatever mints, transfers and     *)
(* inheritances moved it around.                                           *)
(***************************************************************************)
LivePasses == {p \in Passes : conn.passes[p].state \in {"active", "dormant"}}

MiningOwners(k) == {OwnerAt(p, k) : p \in ActiveAt(k)}

EarnedUpTo(c, h) ==
    SumFunction([k \in Genesis..(h - 1) |->
        SumFunction([o \in MiningOwners(k) |-> calc_growth_delta(BalancesOf(c)[k][o], 1)])])

EnergyIsEarnedOnce ==
    Settled /\ conn.synced >= Genesis =>
        SumFunction([p \in LivePasses |-> get_pass_energy(en.rec, p, conn.synced)])
            <= EarnedUpTo(conn.commits[conn.synced].up, conn.synced)

InvalidStays(old, new) ==
    \A p \in Passes : old.passes[p].state = "invalid" => new.passes[p] = old.passes[p]

LifeStep == disk'.synced > disk.synced => NeverRevived(disk, disk') /\ InvalidStays(disk, disk')

(***************************************************************************)
(* A pass that stopped being active never is again, a consumed or burned   *)
(* one never comes back, and an invalid one never changes, except by a     *)
(* rollback of the blocks that did it.                                     *)
(***************************************************************************)
LifeOnlyMovesForward == [][LifeStep]_vars

(***************************************************************************)
(* Once the upstream stops changing, at genesis or above, the indexer ends *)
(* up idle at the upstream's height with commits that match the upstream's *)
(* at every height, whatever failed before.                                *)
(***************************************************************************)
Converges ==
    <>[](Len(chain) >= Genesis =>
            /\ pc = "wait"
            /\ conn.synced = Len(chain)
            /\ conn.anchor = chain
            /\ \A h \in Genesis..Len(chain) : CommitMatches(h))

\* The durable database as a log: an entry per committed height.
NoEntry == [rows |-> [p \in Passes |-> NoRow], commit |-> NoCommit, settled |-> NoSnapshot]

EntryOf(db, h) == [rows    |-> [p \in Passes |-> db.hist[p][h]],
                   commit  |-> db.commits[h],
                   settled |-> db.settled[h]]

Store == INSTANCE PassStore WITH
    synced  <- disk.synced,
    pending <- disk.pending,
    log     <- [h \in Heights |-> EntryOf(disk, h)],
    view    <- disk.passes,
    anchor  <- disk.anchor,
    anchors <- disk.anchors

(***************************************************************************)
(* What survives a restart is the store that PassStore specifies: blocks   *)
(* appear whole and in order, the pass table is the projection of the      *)
(* history after every commit and every rollback, nothing is appended      *)
(* while a recovery is pending, and the snapshot history is append-only    *)
(* below the tip, whatever fails in between.                               *)
(***************************************************************************)
DurableStoreIsALog == Store!Spec
=============================================================================
