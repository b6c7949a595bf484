-------------------------- MODULE BalanceHistoryDB --------------------------
(***************************************************************************)
(* The RocksDB store of the balance-history service (db/db.rs): the UTXO   *)
(* set, the per-block balance rows, the block commit chain, the undo       *)
(* journal of the hot reorg window and the meta keys that make a           *)
(* multi-block rollback resumable.  Every operator below that constrains   *)
(* primed variables stands for ONE RocksDB write (a put, a delete or a     *)
(* WriteBatch): a process may die between any two of them.                 *)
(*                                                                         *)
(* A transaction output is identified by its outpoint, which fixes its     *)
(* script and its value, so the UTXO column family is a set of outpoints.  *)
(* A block hash fixes the block and all its ancestors; it is modelled by   *)
(* the sequence of block bodies that leads to it.                          *)
(***************************************************************************)
EXTENDS Integers, Sequences, FiniteSets, Functions

CONSTANTS
    Outpoint,       \* transaction outputs
    Script,         \* script hashes (balance owners)
    ScriptOf,       \* the script an output pays to
    ValueOf,        \* the value of an output, in satoshi
    Body            \* block bodies: [created, spent : SUBSET Outpoint]

ASSUME OutputAssumption ==
    /\ ScriptOf \in [Outpoint -> Script]
    /\ ValueOf \in [Outpoint -> Nat]

ASSUME BodyAssumption ==
    /\ Body \subseteq [created : SUBSET Outpoint, spent : SUBSET Outpoint]
    /\ \A b \in Body : IsFiniteSet(b.created) /\ IsFiniteSet(b.spent)

VARIABLES
    utxo,           \* UTXO_CF
    rows,           \* BALANCE_HISTORY_CF: <<script, height>> -> [delta, balance]
    commits,        \* BLOCK_COMMITS_CF: height -> commit chain up to it
    undo,           \* BLOCK_UNDO_*_CF: height -> [created, spent, touched]
    height,         \* META btc_block_height
    supportedFrom,  \* META rollback_supported_from_height
    retainedFrom,   \* META undo_retained_from_height
    rbInProgress,   \* META rollback_in_progress
    rbTarget,       \* META rollback_target_height
    rbNext          \* META rollback_next_height

ledgerVars == <<utxo, rows, commits, undo, height>>
windowVars == <<supportedFrom, retainedFrom>>
rollbackVars == <<rbInProgress, rbTarget, rbNext>>
dbVars == <<ledgerVars, windowVars, rollbackVars>>

\* An absent meta key.
None == -1

EmptyDB ==
    /\ utxo = {}
    /\ rows = << >>
    /\ commits = << >>
    /\ undo = << >>
    /\ height = 0
    /\ supportedFrom = None
    /\ retainedFrom = None
    /\ rbInProgress = FALSE
    /\ rbTarget = None
    /\ rbNext = None

-----------------------------------------------------------------------------
(* Reads *)

\* u32::saturating_sub
SatSub(a, b) == IF a >= b THEN a - b ELSE 0

NoBalance == [delta |-> 0, balance |-> 0]

\* The row at or before h; rows are keyed by script and height.
RowHeights(s, h) == {g \in 0..h : <<s, g>> \in DOMAIN rows}

get_balance_at_block_height(s, h) ==
    LET before == RowHeights(s, h)
        latest == CHOOSE g \in before : \A k \in before : k <= g
    IN  IF before = {} THEN NoBalance ELSE rows[<<s, latest>>]

\* The block hash stored in a commit entry: the last link of the chain.
CommitHash(h) == commits[h][Len(commits[h])].hash

\* Mutant: trusts the window keys' presence and never looks at the bundles.
ensure_rollback_undo_available_unchecked(target, current) ==
    target < current => retainedFrom # None

(***************************************************************************)
(* ensure_rollback_undo_available: every precondition of rolling back the  *)
(* blocks target+1 .. current, checked before anything is written.         *)
(***************************************************************************)
ensure_rollback_undo_available(target, current) ==
    target < current =>
        /\ supportedFrom # None => target + 1 >= supportedFrom
        /\ retainedFrom # None
        /\ target + 1 >= retainedFrom
        /\ target + 1 .. current \subseteq DOMAIN undo

\* The checks of resume_rollback_if_needed before its loop.
ResumeReady ==
    /\ rbTarget # None
    /\ rbNext # None
    /\ rbNext = height
    /\ rbTarget <= rbNext
    /\ ensure_rollback_undo_available(rbTarget, rbNext)

-----------------------------------------------------------------------------
(* Writes *)

\* f extended (and overwritten) by g.
Put(f, g) == [x \in DOMAIN f \union DOMAIN g |-> IF x \in DOMAIN g THEN g[x] ELSE f[x]]

Delete(f, S) == Restrict(f, DOMAIN f \ S)

append_block_undo_bundles_to_batch(bundles) == Put(undo, bundles)

append_delete_block_undo_bundle_to_batch(h) == Delete(undo, {h})

(***************************************************************************)
(* update_block_state_batch_async: all column families in one WriteBatch,  *)
(* puts of outputs before deletes.  The two window keys are written only   *)
(* by the first batch that carries undo bundles.                           *)
(***************************************************************************)
update_block_state_batch_async(newUtxos, removeUtxos, entries, newCommits, bundles, last) ==
    LET first == IF DOMAIN bundles = {} THEN None
                 ELSE CHOOSE h \in DOMAIN bundles : \A g \in DOMAIN bundles : h <= g
    IN  /\ utxo' = (utxo \union newUtxos) \ removeUtxos
        /\ rows' = Put(rows, entries)
        /\ commits' = Put(commits, newCommits)
        /\ undo' = append_block_undo_bundles_to_batch(bundles)
        /\ height' = last
        /\ supportedFrom' = IF supportedFrom = None THEN first ELSE supportedFrom
        /\ retainedFrom' = IF retainedFrom = None THEN first ELSE retainedFrom
        /\ UNCHANGED rollbackVars

\* Mutant: the commit of the orphaned block stays.
rollback_one_block_keeps_commit(h) ==
    /\ height = h
    /\ h \in DOMAIN undo
    /\ utxo' = (utxo \ undo[h].created) \union undo[h].spent
    /\ rows' = Delete(rows, undo[h].touched \X {h})
    /\ undo' = append_delete_block_undo_bundle_to_batch(h)
    /\ height' = SatSub(h, 1)
    /\ UNCHANGED <<commits, windowVars, rollbackVars>>

(***************************************************************************)
(* rollback_one_block: replays the undo bundle of the tip block backwards, *)
(* deletes it and lowers the height, in one WriteBatch.  Its own guards    *)
(* are the two early returns of the code.                                  *)
(***************************************************************************)
rollback_one_block(h) ==
    /\ height = h
    /\ h \in DOMAIN undo
    /\ utxo' = (utxo \ undo[h].created) \union undo[h].spent
    /\ rows' = Delete(rows, undo[h].touched \X {h})
    /\ commits' = Delete(commits, {h})
    /\ undo' = append_delete_block_undo_bundle_to_batch(h)
    /\ height' = SatSub(h, 1)
    /\ UNCHANGED <<windowVars, rollbackVars>>

put_rollback_in_progress ==
    /\ rbInProgress' = TRUE
    /\ UNCHANGED <<ledgerVars, windowVars, rbTarget, rbNext>>

put_rollback_target_height(h) ==
    /\ rbTarget' = h
    /\ UNCHANGED <<ledgerVars, windowVars, rbInProgress, rbNext>>

put_rollback_next_height(h) ==
    /\ rbNext' = h
    /\ UNCHANGED <<ledgerVars, windowVars, rbInProgress, rbTarget>>

delete_rollback_in_progress ==
    /\ rbInProgress' = FALSE
    /\ UNCHANGED <<ledgerVars, windowVars, rbTarget, rbNext>>

(***************************************************************************)
(* prune_undo_before_height: drops the bundles below the retained window,  *)
(* never below the first height that supports rollback, never while a      *)
(* rollback is in progress.                                                *)
(***************************************************************************)
prune_undo_before_height(minRetained) ==
    LET effective == IF minRetained > supportedFrom THEN minRetained ELSE supportedFrom
    IN  IF \/ rbInProgress
           \/ supportedFrom = None
           \/ retainedFrom # None /\ retainedFrom >= effective
        THEN UNCHANGED dbVars
        ELSE /\ undo' = Delete(undo, {h \in DOMAIN undo : h < effective})
             /\ retainedFrom' = effective
             /\ UNCHANGED <<utxo, rows, commits, height, supportedFrom, rollbackVars>>
=============================================================================
