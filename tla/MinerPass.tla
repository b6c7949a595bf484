------------------------------ MODULE MinerPass ------------------------------
(***************************************************************************)
(* The miner-pass state machine of usdb-indexer: MinerPassManager          *)
(* (index/pass.rs) on the SQLite tables of MinerPassStorage                *)
(* (storage/pass.rs) and on the energy records of PassEnergy.              *)
(*                                                                         *)
(* A database is a record                                                  *)
(*    passes    miner_passes: the current row of each pass                 *)
(*    hist      miner_pass_state_history                                   *)
(*    commits   pass_block_commits                                         *)
(*    settled   active_balance_snapshots, by height                        *)
(*    anchor    the adopted balance-history snapshot                       *)
(*    anchors   balance_history_snapshot_history                           *)
(*    synced    btc synced block height, 0 when absent (every reader of    *)
(*              the code maps None to 0 or raises it to genesis - 1)       *)
(*    pending   upstream_reorg_recovery_pending_height                     *)
(*                                                                         *)
(* Every reader of the history takes the row with the greatest id among    *)
(* those with block_height <= h, and heights grow with ids, so the rows of *)
(* one pass in one block collapse to the last: hist[p][h].                 *)
(*                                                                         *)
(* A satpoint is the number of moves the inscription has made on its chain;*)
(* a pass's content (eth addresses, numbers, txids) is left out.           *)
(***************************************************************************)
EXTENDS PassEnergy, Sequences, Functions

CONSTANT Nobody               \* the "owner" of an inscription lost to fees

ASSUME NobodyAssumption == Nobody \notin Owners

NoRow == [state |-> "none"]

Rows == [state : States, owner : Owners, sat : Nat, mint : Heights]

RowTables == [Passes -> Rows \cup {NoRow}]

Histories == [Passes -> [Heights -> Rows \cup {NoRow}]]

\* How far a pass is from the end of its life.
Rank(state) == CASE state = "active" -> 0 [] state = "dormant" -> 1
                 [] state = "consumed" -> 2 [] state = "invalid" -> 2 [] state = "burned" -> 3

\* A pass with a row keeps one, and its life only moves forward.
NeverRevived(old, new) ==
    \A p \in Passes : old.passes[p] # NoRow =>
        new.passes[p] # NoRow /\ Rank(new.passes[p].state) >= Rank(old.passes[p].state)

\* What the inscription sources report of a block, and a block of the upstream: its
\* events and the balances after it.
MintEvents == [op : {"mint"}, pass : Passes, owner : Owners, prev : Seq(Passes)]

InvalidEvents == [op : {"invalid"}, pass : Passes, owner : Owners]

MoveEvents == [op : {"move"}, pass : Passes, to : Owners \cup {Nobody}]

Blocks == [events : Seq(MintEvents \cup InvalidEvents \cup MoveEvents), bal : [Owners -> Nat]]

\* What is executed: a mint as reported, a move with the satpoint it leads to.
ProcessEvents == MintEvents \cup [op : {"move"}, pass : Passes, to : Owners \cup {Nobody}, sat : Nat]

Commits == [up : Seq(Blocks), muts : Seq(ProcessEvents), invalid : SUBSET InvalidEvents]

Stores ==
    [passes  : RowTables,
     hist    : Histories,
     commits : [Heights -> Commits],
     settled : [Heights -> [total : Nat, count : Nat \cup {NoHeight}]],
     anchor  : Seq(Blocks),
     anchors : [Heights -> Seq(Blocks)],
     synced  : Heights,
     pending : Heights \cup {NoHeight}]

NoCommit == [up |-> <<>>, muts |-> <<>>, invalid |-> {}]

NoSnapshot == [total |-> 0, count |-> NoHeight]

EmptyStore ==
    [passes  |-> [p \in Passes |-> NoRow],
     hist    |-> [p \in Passes |-> [h \in Heights |-> NoRow]],
     commits |-> [h \in Heights |-> NoCommit],
     settled |-> [h \in Heights |-> NoSnapshot],
     anchor  |-> <<>>,
     anchors |-> [h \in Heights |-> <<>>],
     synced  |-> 0,
     pending |-> NoHeight]

-----------------------------------------------------------------------------
(* MinerPassStorage *)

\* Replace the current rows of the passes in DOMAIN new and append their history
\* events at height h: every writer below writes this pair.
WriteRows(db, new, h) ==
    [db EXCEPT !.passes = [q \in Passes |-> IF q \in DOMAIN new THEN new[q] ELSE db.passes[q]],
               !.hist   = [q \in Passes |->
                             IF q \in DOMAIN new THEN [db.hist[q] EXCEPT ![h] = new[q]]
                             ELSE db.hist[q]]]

WriteRow(db, p, row, h) == WriteRows(db, [q \in {p} |-> row], h)

ActiveRow(o, h) == [state |-> "active", owner |-> o, sat |-> 0, mint |-> h]

InvalidRow(o, h) == [state |-> "invalid", owner |-> o, sat |-> 0, mint |-> h]

add_new_mint_pass_at_height(db, p, o, h) == WriteRow(db, p, ActiveRow(o, h), h)

\* One row per invalid mint of the block.
add_invalid_mint_pass_at_height(db, bad, h) ==
    WriteRows(db, [q \in {e.pass : e \in bad} |->
                     InvalidRow((CHOOSE e \in bad : e.pass = q).owner, h)], h)

\* The transition checks the state it starts from; the callers have just read it.
update_state_at_height(db, S, state, h) ==
    WriteRows(db, [q \in S |-> [db.passes[q] EXCEPT !.state = state]], h)

transfer_owner_at_height(db, p, o, sat, h) ==
    WriteRow(db, p, [db.passes[p] EXCEPT !.owner = o, !.sat = sat], h)

update_satpoint_at_height(db, p, sat, h) ==
    WriteRow(db, p, [db.passes[p] EXCEPT !.sat = sat], h)

\* The row of p as of height h, from the history.
HistHeights(hist, p, h) == {k \in Heights : k <= h /\ hist[p][k] # NoRow}

RowAt(hist, p, h) ==
    IF HistHeights(hist, p, h) = {} THEN NoRow
    ELSE hist[p][Max(HistHeights(hist, p, h))]

\* get_last_active_mint_pass_by_owner: LIMIT 1 of a set with at most one element.
LastActive(db, o) ==
    {q \in Passes : db.passes[q].state = "active" /\ db.passes[q].owner = o}

\* assert_no_data_after_block_height, table by table.
SyncedAtMost(db, h) == db.synced <= h

NoPassesAfter(db, h) == \A p \in Passes : db.passes[p] # NoRow => db.passes[p].mint <= h

NoSettledAfter(db, h) == \A k \in (h + 1)..MaxHeight : db.settled[k] = NoSnapshot

NoHistoryAfter(db, h) == \A k \in (h + 1)..MaxHeight, p \in Passes : db.hist[p][k] = NoRow

NoCommitsAfter(db, h) == \A k \in (h + 1)..MaxHeight : db.commits[k] = NoCommit

AnchorAtMost(db, h) == Len(db.anchor) <= h

NoAnchorsAfter(db, h) == \A k \in (h + 1)..MaxHeight : db.anchors[k] = <<>>

NoDataAfter(db, h) ==
    /\ SyncedAtMost(db, h)
    /\ NoPassesAfter(db, h)
    /\ NoSettledAfter(db, h)
    /\ NoHistoryAfter(db, h)
    /\ NoCommitsAfter(db, h)
    /\ AnchorAtMost(db, h)
    /\ NoAnchorsAfter(db, h)

\* assert_balance_snapshot_consistency: the last snapshot is that of height h,
\* and there is none before genesis.
SnapshotHeights(db) == {k \in Heights : db.settled[k] # NoSnapshot}

SnapshotConsistent(db, h, genesis) ==
    IF h < genesis THEN SnapshotHeights(db) = {}
    ELSE SnapshotHeights(db) # {} /\ Max(SnapshotHeights(db)) = h

\* The rows of balance_history_snapshot_history and the adopted anchor.
upsert_snapshot_history_entry(db, h, snap) == [db EXCEPT !.anchors[h] = snap]

\* The anchor, its row of the history and the synced height, in one transaction.
upsert_snapshot_anchor(db, snap) ==
    [upsert_snapshot_history_entry(db, Len(snap), snap) EXCEPT !.anchor = snap, !.synced = Len(snap)]

clear_snapshot_anchor(db) == [db EXCEPT !.anchor = <<>>]

mark_recovery_pending(db, t) == [db EXCEPT !.pending = t]

clear_recovery_pending(db) == [db EXCEPT !.pending = NoHeight]

upsert_pass_block_commit(db, h, commit) == [db EXCEPT !.commits[h] = commit]

upsert_active_balance_snapshot(db, h, snapshot) == [db EXCEPT !.settled[h] = snapshot]

update_synced_height(db, h) == [db EXCEPT !.synced = h]

\* f without its entries above t.
DropAbove(f, t, none) == [h \in Heights |-> IF h > t THEN none ELSE f[h]]

\* Mutant: surviving passes keep the state the dropped blocks gave them.
RestoredRows_from_current(db, t) ==
    [p \in Passes |-> IF db.passes[p] # NoRow /\ db.passes[p].mint <= t
                      THEN db.passes[p] ELSE NoRow]

\* The current table rebuilt from the history: the passes minted at or below t,
\* each with its last row at or below t.
RestoredRows(db, t) ==
    [p \in Passes |-> IF db.passes[p] # NoRow /\ db.passes[p].mint <= t
                      THEN RowAt(db.hist, p, t) ELSE NoRow]

\* Mutant: balance snapshots above the target survive.
DeleteAbove_keeps_settled(db, t) ==
    [db EXCEPT !.hist    = [p \in Passes |-> DropAbove(@[p], t, NoRow)],
               !.commits = DropAbove(@, t, NoCommit),
               !.anchors = DropAbove(@, t, <<>>)]

DeleteAbove(db, t) ==
    [db EXCEPT !.hist    = [p \in Passes |-> DropAbove(@[p], t, NoRow)],
               !.commits = DropAbove(@, t, NoCommit),
               !.settled = DropAbove(@, t, NoSnapshot),
               !.anchors = DropAbove(@, t, <<>>)]

\* rollback_to_block_height_internal: the surviving rows are rebuilt from the
\* history, everything above the target goes, the anchor is dropped, the synced
\* height and the recovery marker are set, in one transaction.
rollback_to_block_height(db, t) ==
    mark_recovery_pending(
        clear_snapshot_anchor(
            update_synced_height([DeleteAbove(db, t) EXCEPT !.passes = RestoredRows(db, t)], t)), t)

-----------------------------------------------------------------------------
(* MinerPassManager.  Each operation returns the database and the energy   *)
(* records; bal is the upstream balance history it reads.                  *)

\* dormant_last_pass: the owner's active pass, if any, goes dormant first.
dormant_last_pass(db, rec, bal, o, h) ==
    LET D == LastActive(db, o)
    IN  [db  |-> update_state_at_height(db, D, "dormant", h),
         rec |-> [q \in Passes |-> IF q \in D THEN on_pass_dormant(rec, bal, q, h)[q]
                                   ELSE rec[q]]]

\* The entries of prev that a mint by o consumes: known, of the same owner and
\* dormant.  The others are skipped with a warning; a repeated entry is consumed
\* once, since the second look finds it consumed.
Consumable(db, o, prev) ==
    {q \in Range(prev) : db.passes[q].state = "dormant" /\ db.passes[q].owner = o}

\* The u64 sum of the consumed energies (saturating_add of non-negative terms).
Inherited(rec, C, h) ==
    saturating_u128_to_u64(SumFunction([q \in C |-> get_pass_energy(rec, q, h)]))

\* Mutant: a mint leaves the owner's active pass alone.
on_mint_pass_keeps_active(db, rec, bal, e, h) ==
    [db  |-> add_new_mint_pass_at_height(db, e.pass, e.owner, h),
     rec |-> on_new_pass(rec, bal, e.pass, e.owner, h, 0)]

\* Mutant: a prev pass hands its energy over and stays dormant.
on_mint_pass_keeps_prev(db, rec, bal, e, h) ==
    LET s1  == dormant_last_pass(db, rec, bal, e.owner, h)
        db2 == add_new_mint_pass_at_height(s1.db, e.pass, e.owner, h)
        C   == Consumable(db2, e.owner, e.prev)
    IN  [db |-> db2, rec |-> on_new_pass(s1.rec, bal, e.pass, e.owner, h, Inherited(s1.rec, C, h))]

on_mint_pass(db, rec, bal, e, h) ==
    LET s1  == dormant_last_pass(db, rec, bal, e.owner, h)
        db2 == add_new_mint_pass_at_height(s1.db, e.pass, e.owner, h)
        C   == Consumable(db2, e.owner, e.prev)
    IN  [db  |-> update_state_at_height(db2, C, "consumed", h),
         rec |-> on_new_pass([q \in Passes |->
                                IF q \in C THEN on_pass_consumed(s1.rec, q, e.owner, h)[q]
                                ELSE s1.rec[q]],
                             bal, e.pass, e.owner, h, Inherited(s1.rec, C, h))]

\* The invalid mints of a block (process_invalid_mints), one row each.
on_invalid_mint_pass(db, bad, h) == add_invalid_mint_pass_at_height(db, bad, h)

\* Mutant: a move to the same owner activates the pass.
on_pass_transfer_revives(db, rec, bal, e, h) ==
    LET row   == db.passes[e.pass]
        state == IF row.owner # e.to THEN "dormant" ELSE "active"
    IN  [db  |-> WriteRow(db, e.pass, [row EXCEPT !.state = state, !.owner = e.to, !.sat = e.sat], h),
         rec |-> rec]

\* A pass moved to another owner freezes (if active) and changes hands; a move
\* to the same owner only follows the satpoint.
on_pass_transfer(db, rec, bal, e, h) ==
    LET p      == e.pass
        active == db.passes[p].state = "active"
        moved  == db.passes[p].owner # e.to
    IN  [db  |-> IF ~moved THEN update_satpoint_at_height(db, p, e.sat, h)
                 ELSE transfer_owner_at_height(
                          IF active THEN update_state_at_height(db, {p}, "dormant", h) ELSE db,
                          p, e.to, e.sat, h),
         rec |-> IF ~active THEN rec
                 ELSE IF moved THEN on_pass_dormant(rec, bal, p, h)
                 ELSE update_pass_energy(rec, bal, p, h)]

\* A burn closes the pass in any state and settles an active pass's energy.
on_pass_burned(db, rec, bal, e, h) ==
    [db  |-> update_state_at_height(db, {e.pass}, "burned", h),
     rec |-> IF db.passes[e.pass].state = "active" THEN update_pass_energy(rec, bal, e.pass, h)
             ELSE rec]

\* BlockEventExecutor::execute, one event.
execute(db, rec, bal, e, h) ==
    CASE e.op = "mint"                      -> on_mint_pass(db, rec, bal, e, h)
      [] e.op = "move" /\ e.to # Nobody     -> on_pass_transfer(db, rec, bal, e, h)
      [] e.op = "move" /\ e.to = Nobody     -> on_pass_burned(db, rec, bal, e, h)

\* get_pass_by_inscription_id must find the pass of a transfer or a burn, and the
\* INSERT of a mint, valid or not, must not find it (PRIMARY KEY).
RowRefused(db, e) == (e.op = "move") <=> (db.passes[e.pass] = NoRow)

\* Whether the event asks the upstream for balances of height h: a mint does, and
\* so does a move of an active pass that has no record at h yet.
NeedsBalance(db, rec, e, h) ==
    \/ e.op = "mint"
    \/ db.passes[e.pass].state = "active" /\ rec[e.pass][h] = NoRecord

-----------------------------------------------------------------------------
(* InscriptionTransferTracker: the satpoint and owner it holds per pass *)

NotTracked == [sat |-> NoHeight, owner |-> Nobody]

NoTracking == [p \in Passes |-> NotTracked]

TrackMaps == [Passes -> [sat : Nat \cup {NoHeight}, owner : Owners \cup {Nobody}]]

\* reload_from_storage: every pass whose state is neither consumed nor invalid.
reload_from_storage(db) ==
    [p \in Passes |->
        IF db.passes[p].state \in {"active", "dormant", "burned"}
        THEN [sat |-> db.passes[p].sat, owner |-> db.passes[p].owner]
        ELSE NotTracked]

=============================================================================
