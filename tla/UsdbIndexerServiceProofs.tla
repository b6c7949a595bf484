----------------------- MODULE UsdbIndexerServiceProofs -----------------------
(***************************************************************************)
(* Theorems about the answers of the usdb-indexer service, for any passes, *)
(* owners, chains, requests, reorganisations and faults, whatever the      *)
(* points of the sync task at which the handlers read.                     *)
(***************************************************************************)
EXTENDS UsdbIndexerService, InscriptionIndexerProofs

\* The queries that are answered from the history of passes, the block commits and
\* the balance snapshots.
HistoryKinds == {"stats", "commit", "balance", "snapshot", "owner_active", "active",
                 "owner_passes", "history"}

\* What a query is answered when all its reads are of one moment.
OneRead(r, db, rec, h) ==
    CASE r.kind \in PagedKinds ->
           <<[total |-> Cardinality(Selected(r, db, rec, h)), items |-> Listed(r, db, rec, h)]>>
      [] r.kind \in SingleKinds -> Looked(r, db, rec, h)
      [] r.kind = "snapshot" ->
           IF RowAt(db.hist, r.pass, h) = NoRow THEN <<>> ELSE <<Item(db, r.pass, h)>>
      [] r.kind = "owner_active" ->
           LET S == OwnerActive(db, r.owner, h)
           IN  IF S = {} THEN <<>> ELSE <<Item(db, CHOOSE p \in S : TRUE, h)>>

(***************************************************************************)
(* Every answer about passes, block commits and balance snapshots is the   *)
(* one that a single read of the store would give, also after the query,   *)
(* until blocks are taken back: the total, the page and the rows of passes *)
(* that the handler read at different moments are of one state, although   *)
(* the sync task wrote blocks, or dropped them, in between.  A balance     *)
(* snapshot reported missing is missing.                                   *)
(***************************************************************************)
AnswersAreOneRead ==
    q.step = "done" /\ ~q.moved =>
        /\ q.err = "none" /\ q.req.kind \in HistoryKinds =>
              q.out = OneRead(q.req, conn, en.rec, q.h)
        /\ q.err = "NO_RECORD" => conn.settled[q.h] = NoSnapshot
-----------------------------------------------------------------------------
(* Blocks that are not taken back stay as they are *)

\* Up to height h the two stores hold the same rows, commits and balance snapshots.
SameUpTo(new, db, h) ==
    \A k \in Heights : k <= h =>
        /\ \A p \in Passes : new.hist[p][k] = db.hist[p][k]
        /\ new.commits[k] = db.commits[k]
        /\ new.settled[k] = db.settled[k]

\* The connection and the durable store agree below the open block.
LEMMA ConnBelow ==
    ASSUME IInv
    PROVE  /\ conn \in Stores /\ disk \in Stores /\ conn.synced \in Nat /\ disk.synced \in Nat
           /\ pc # "commit" => conn.synced = disk.synced
           /\ pc = "commit" => conn.synced > disk.synced
           /\ SameUpTo(conn, disk, disk.synced)
           /\ pc \in InBlock => loc.blk > disk.synced /\ loc.blk \in Nat
<1>1. /\ conn \in Stores /\ disk \in Stores /\ ControlOK /\ loc.blk \in Heights
      /\ (pc \in InBlock => BlockOK)
  BY DEF IInv, TypeOK, Locals
<1>2. /\ Tip(disk) \in Nat /\ disk.synced \in Nat /\ Tip(disk) >= disk.synced /\ loc.blk \in Nat
      /\ conn.synced \in Nat
  BY <1>1, TipFacts, HeightFacts
<1>3. pc \in InBlock => loc.blk > disk.synced
  BY <1>1, <1>2 DEF ControlOK
<1>4. CASE pc \notin InBlock
  BY <1>1, <1>2, <1>4 DEF ControlOK, SameUpTo, InBlock
<1>5. CASE pc \in InBlock
  <2>1. /\ conn.synced = IF pc = "commit" THEN loc.blk ELSE disk.synced
        /\ \A p \in Passes, k \in Heights : k # loc.blk => conn.hist[p][k] = disk.hist[p][k]
        /\ \A k \in Heights : k # loc.blk => /\ conn.commits[k] = disk.commits[k]
                                             /\ conn.settled[k] = disk.settled[k]
    BY <1>1, <1>5 DEF BlockOK
  <2>2. \A k \in Heights : k <= disk.synced => k # loc.blk
    BY <1>2, <1>3, <1>5, HeightFacts
  <2> QED
    BY <1>1, <1>2, <1>3, <1>5, <2>1, <2>2 DEF SameUpTo
<1> QED
  BY <1>4, <1>5

\* While the synced height does not go down, what a handler can read at or below it
\* does not change.
LEMMA SyncedBlocksStay ==
    ASSUME IInv, [Next]_vars, ~TakenBack
    PROVE  SameUpTo(conn', conn, conn.synced)
<1>1. /\ conn \in Stores /\ disk \in Stores /\ conn.synced \in Nat /\ disk.synced \in Nat
      /\ pc # "commit" => conn.synced = disk.synced
      /\ pc = "commit" => conn.synced > disk.synced
      /\ SameUpTo(conn, disk, disk.synced)
      /\ pc \in InBlock => loc.blk > disk.synced /\ loc.blk \in Nat
  BY ConnBelow
<1>2. /\ ControlOK /\ DurableOK(disk) /\ loc \in Locals /\ loc.target \in Heights /\ loc.cur \in Heights
      /\ loc.snap \in Seq(Blocks) /\ chain \in Chains /\ loc.blk \in Heights
  BY DEF IInv, TypeOK, Locals
<1>3. CASE /\ conn'.hist = conn.hist /\ conn'.commits = conn.commits /\ conn'.settled = conn.settled
  BY <1>3 DEF SameUpTo
<1>4. CASE conn' = disk
  <2>1. disk.synced >= conn.synced
    BY <1>1, <1>4 DEF TakenBack
  <2>2. conn.synced = disk.synced
    BY <1>1, <2>1
  <2> QED
    BY <1>1, <1>4, <2>2 DEF SameUpTo
<1>5. CASE RollbackPasses
  <2> DEFINE t == loc.target
  <2>1. pc = "rollback" /\ conn = disk /\ conn' = rollback_to_block_height(conn, t)
    BY <1>2, <1>5 DEF RollbackPasses, WriteBoth, ControlOK, InBlock
  <2>2. RowsAreTheHistory(conn) /\ MintsAreOnce(conn)
    BY <1>2, <2>1 DEF DurableOK, TablesOK
  <2>3. RolledBack(conn', conn, t)
    BY <1>1, <1>2, <2>1, <2>2, RollbackFields
  <2>4. conn'.synced = t /\ t \in Nat
    BY <1>2, <2>3, HeightFacts DEF RolledBack
  <2>5. t >= conn.synced
    BY <1>1, <2>4 DEF TakenBack
  <2> HIDE DEF t
  <2>6. \A k \in Heights : k <= conn.synced => ~(k > t)
    BY <1>1, <2>4, <2>5, HeightFacts
  <2> QED
    BY <2>3, <2>6 DEF RolledBack, DropAbove, SameUpTo
<1>6. CASE ExecuteEvent \/ RecordInvalidMints
  <2>1. pc = "exec" /\ TablesStep(conn', conn, loc.blk)
    BY <1>6, ExecuteWrites, InvalidWrites DEF ExecuteEvent, RecordInvalidMints
  <2>2. SameElsewhere(conn', conn, loc.blk)
    BY <2>1 DEF TablesStep
  <2>3. \A k \in Heights : k <= conn.synced => k # loc.blk
    BY <1>1, <2>1, HeightFacts DEF InBlock
  <2> QED
    BY <2>2, <2>3 DEF SameElsewhere, SameUpTo
<1>7. CASE SettleBalances
  <2>1. /\ pc = "settle"
        /\ \E x : conn' = upsert_active_balance_snapshot(conn, loc.blk, x)
    BY <1>7 DEF SettleBalances
  <2>2. PICK x : conn' = [conn EXCEPT !.settled[loc.blk] = x]
    BY <2>1 DEF upsert_active_balance_snapshot
  <2>3. /\ conn'.hist = conn.hist /\ conn'.commits = conn.commits
        /\ conn'.settled = [conn.settled EXCEPT ![loc.blk] = x]
        /\ conn.settled \in [Heights -> [total : Nat, count : Nat \cup {NoHeight}]]
    BY <1>1, <2>2 DEF Stores
  <2>4. \A k \in Heights : k <= conn.synced => k # loc.blk
    BY <1>1, <2>1, HeightFacts DEF InBlock
  <2> QED
    BY <1>2, <2>3, <2>4 DEF SameUpTo
<1>8. CASE PersistCommit
  <2>1. /\ pc = "persist"
        /\ \E x : conn' = upsert_pass_block_commit(conn, loc.blk, x)
    BY <1>8 DEF PersistCommit
  <2>2. PICK x : conn' = [conn EXCEPT !.commits[loc.blk] = x]
    BY <2>1 DEF upsert_pass_block_commit
  <2>3. /\ conn'.hist = conn.hist /\ conn'.settled = conn.settled
        /\ conn'.commits = [conn.commits EXCEPT ![loc.blk] = x]
        /\ conn.commits \in [Heights -> Commits]
    BY <1>1, <2>2 DEF Stores
  <2>4. \A k \in Heights : k <= conn.synced => k # loc.blk
    BY <1>1, <2>1, HeightFacts DEF InBlock
  <2> QED
    BY <1>2, <2>3, <2>4 DEF SameUpTo
<1>9. CASE PutSyncedHeight
  <2>1. conn' = [conn EXCEPT !.synced = loc.blk]
    BY <1>9 DEF PutSyncedHeight, update_synced_height
  <2> QED
    BY <1>1, <1>3, <2>1 DEF Stores
<1>10. CASE CommitSavepoint
  BY <1>3, <1>10 DEF CommitSavepoint
<1>11. CASE ClearPending \/ PersistAnchor \/ Backfill
  <2>0. pc \notin InBlock
    BY <1>11 DEF ClearPending, PersistAnchor, Backfill, InBlock
  <2>1. conn = disk
    BY <1>2, <2>0 DEF ControlOK
  <2>2. conn' = conn \/ conn' = disk'
    BY <1>11 DEF ClearPending, PersistAnchor, Backfill, WriteBoth, dbVars
  <2>3. CASE disk' = disk
    BY <1>3, <1>4, <2>1, <2>2, <2>3
  <2>4. CASE pc = "clear" /\ disk' = clear_recovery_pending(disk)
    <3>1. disk'.hist = disk.hist /\ disk'.commits = disk.commits /\ disk'.settled = disk.settled
      BY <1>1, <2>4, MarkerWrite
    <3> QED
      BY <1>3, <2>1, <2>2, <3>1
  <2>5. CASE pc = "anchor" /\ Len(loc.snap) = loc.cur /\ disk' = upsert_snapshot_anchor(disk, loc.snap)
    <3>1. disk'.hist = disk.hist /\ disk'.commits = disk.commits /\ disk'.settled = disk.settled
      BY <1>1, <1>2, <2>5, AnchorWrite
    <3> QED
      BY <1>3, <2>1, <2>2, <3>1
  <2>6. ASSUME NEW h \in MissingAnchors, h <= Len(chain), pc = "backfill",
               disk' = upsert_snapshot_history_entry(disk, h, Prefix(chain, h))
        PROVE  SameUpTo(conn', conn, conn.synced)
    <3>0. h \in Heights /\ Prefix(chain, h) \in Seq(Blocks)
      BY <1>2, <2>6, HeightFacts, PrefixFacts DEF MissingAnchors
    <3>1. disk'.hist = disk.hist /\ disk'.commits = disk.commits /\ disk'.settled = disk.settled
      BY <1>1, <2>6, <3>0, AnchorsWrite
    <3> QED
      BY <1>3, <2>1, <2>2, <3>1
  <2>7. pc \in {"clear", "anchor", "backfill"}
    BY <1>11 DEF ClearPending, PersistAnchor, Backfill
  <2> QED
    BY <2>3, <2>4, <2>5, <2>6, <2>7, DiskSteps DEF DiskStep
<1> QED
  BY <1>3, <1>4, <1>5, <1>6, <1>7, <1>8, <1>9, <1>10, <1>11, StoreWriters

\* A row at any height means that the pass has its static row.
LEMMA RowsHavePasses ==
    ASSUME IInv, NEW p \in Passes, NEW h \in Heights, RowAt(conn.hist, p, h) # NoRow
    PROVE  conn.passes[p] # NoRow
<1>1. MintsAreOnce(conn)
  BY DEF IInv, ControlOK, DurableOK, BlockOK, TablesOK
<1>2. PICK m \in Heights : conn.hist[p][m] # NoRow
  BY RowAtCases
<1> QED
  BY <1>1, <1>2 DEF MintsAreOnce

-----------------------------------------------------------------------------
(* An answer depends on nothing above its height *)

LEMMA SameRows ==
    ASSUME NEW new, NEW db, NEW h \in Heights, SameUpTo(new, db, h)
    PROVE  /\ \A p \in Passes : /\ HistHeights(new.hist, p, h) = HistHeights(db.hist, p, h)
                                /\ RowAt(new.hist, p, h) = RowAt(db.hist, p, h)
                                /\ Item(new, p, h) = Item(db, p, h)
           /\ \A S : Latest(new, h, S) = Latest(db, h, S)
           /\ EventKey(new, h) = EventKey(db, h)
           /\ \A ps : Items(new, ps, h) = Items(db, ps, h)
<1>1. ASSUME NEW p \in Passes
      PROVE  /\ HistHeights(new.hist, p, h) = HistHeights(db.hist, p, h)
             /\ RowAt(new.hist, p, h) = RowAt(db.hist, p, h)
  <2>1. \A k \in Heights : k <= h => new.hist[p][k] = db.hist[p][k]
    BY DEF SameUpTo
  <2>2. HistHeights(new.hist, p, h) = HistHeights(db.hist, p, h)
    BY <2>1 DEF HistHeights
  <2>3. RowAt(new.hist, p, h) = RowAt(db.hist, p, h)
    BY <2>1, RowAtLocal
  <2> QED
    BY <2>2, <2>3
<1>2. \A p \in Passes : LatestHeight(new, p, h) = LatestHeight(db, p, h)
  BY <1>1 DEF LatestHeight
<1>3. \A p \in Passes : Item(new, p, h) = Item(db, p, h)
  BY <1>1, <1>2 DEF Item
<1>4. ASSUME NEW S PROVE Latest(new, h, S) = Latest(db, h, S)
  BY <1>1 DEF Latest
<1>5. EventKey(new, h) = EventKey(db, h)
  BY <1>1, <1>2 DEF EventKey
<1>6. ASSUME NEW ps PROVE Items(new, ps, h) = Items(db, ps, h)
  <2>1. [p \in Passes |-> Item(new, p, h)] = [p \in Passes |-> Item(db, p, h)]
    BY <1>3
  <2> QED
    BY <2>1 DEF Items
<1> QED
  BY <1>1, <1>3, <1>4, <1>5, <1>6

LEMMA SameOwnerActive ==
    ASSUME NEW new, NEW db, NEW h \in Heights, SameUpTo(new, db, h), NEW o
    PROVE  OwnerActive(new, o, h) = OwnerActive(db, o, h)
<1>1. Latest(new, h, {"active"}) = Latest(db, h, {"active"})
  BY SameRows
<1>2. \A p \in Latest(db, h, {"active"}) : p \in Passes
  BY DEF Latest
<1>3. \A p \in Passes : RowAt(new.hist, p, h) = RowAt(db.hist, p, h)
  BY SameRows
<1> QED
  BY <1>1, <1>2, <1>3 DEF OwnerActive

\* The pages: what is counted and what is listed.
LEMMA SamePages ==
    ASSUME NEW new, NEW db, NEW h \in Heights, SameUpTo(new, db, h), NEW rec, NEW later,
           NEW r \in Requests, r.kind \in {"active", "owner_passes", "history"}
    PROVE  /\ Selected(r, new, later, h) = Selected(r, db, rec, h)
           /\ Listed(r, new, later, h) = Listed(r, db, rec, h)
<1>1. /\ \A S : Latest(new, h, S) = Latest(db, h, S)
      /\ EventKey(new, h) = EventKey(db, h)
      /\ \A ps : Items(new, ps, h) = Items(db, ps, h)
      /\ \A p \in Passes : RowAt(new.hist, p, h) = RowAt(db.hist, p, h)
  BY SameRows
<1>2. CASE r.kind = "active"
  <2>1. /\ Selected(r, new, later, h) = active_passes(new, r, h)
        /\ Selected(r, db, rec, h) = active_passes(db, r, h)
        /\ Listed(r, new, later, h) = active_passes_page(new, r, h)
        /\ Listed(r, db, rec, h) = active_passes_page(db, r, h)
    BY <1>2 DEF Selected, Listed
  <2>2. active_passes(new, r, h) = active_passes(db, r, h)
    BY <1>1 DEF active_passes
  <2>3. active_passes_page(new, r, h) = active_passes_page(db, r, h)
    BY <1>1, <2>2 DEF active_passes_page
  <2> QED
    BY <2>1, <2>2, <2>3
<1>3. CASE r.kind = "owner_passes"
  <2>1. /\ Selected(r, new, later, h) = owner_passes(new, r, h)
        /\ Selected(r, db, rec, h) = owner_passes(db, r, h)
        /\ Listed(r, new, later, h) = owner_passes_page(new, r, h)
        /\ Listed(r, db, rec, h) = owner_passes_page(db, r, h)
    BY <1>3 DEF Selected, Listed
  <2>2. owner_passes(new, r, h) = owner_passes(db, r, h)
    <3>1. \A p \in Latest(db, h, r.states) : p \in Passes
      BY DEF Latest
    <3> QED
      BY <1>1, <3>1 DEF owner_passes
  <2>3. owner_passes_page(new, r, h) = owner_passes_page(db, r, h)
    BY <1>1, <2>2 DEF owner_passes_page
  <2> QED
    BY <2>1, <2>2, <2>3
<1>4. CASE r.kind = "history"
  <2>1. /\ Selected(r, new, later, h) = pass_history(new, r, h)
        /\ Selected(r, db, rec, h) = pass_history(db, r, h)
        /\ Listed(r, new, later, h) = pass_history_page(new, r, h)
        /\ Listed(r, db, rec, h) = pass_history_page(db, r, h)
    BY <1>4 DEF Selected, Listed
  <2>2. \A k \in r.from..h : new.hist[r.pass][k] = db.hist[r.pass][k]
    <3>1. \A k \in r.from..h : k \in Heights /\ k <= h
      BY RequestAssumption, HeightFacts
    <3> QED
      BY <3>1, RequestAssumption DEF SameUpTo
  <2>3. pass_history(new, r, h) = pass_history(db, r, h)
    BY <2>2 DEF pass_history
  <2>4. [k \in r.from..h |-> new.hist[r.pass][k]] = [k \in r.from..h |-> db.hist[r.pass][k]]
    BY <2>2
  <2>5. pass_history_page(new, r, h) = pass_history_page(db, r, h)
    BY <2>3, <2>4 DEF pass_history_page
  <2> QED
    BY <2>1, <2>3, <2>5
<1> QED
  BY <1>2, <1>3, <1>4

LEMMA SameLooked ==
    ASSUME NEW new, NEW db, NEW h \in Heights, SameUpTo(new, db, h), NEW rec, NEW later,
           NEW r \in Requests, r.kind \in {"stats", "commit", "balance"}
    PROVE  Looked(r, new, later, h) = Looked(r, db, rec, h)
<1>1. new.commits[h] = db.commits[h] /\ new.settled[h] = db.settled[h]
  BY HeightFacts DEF SameUpTo
<1>2. get_pass_stats(new, h) = get_pass_stats(db, h)
  BY SameRows DEF get_pass_stats
<1>3. CASE r.kind = "stats"
  BY <1>2, <1>3 DEF Looked
<1>4. CASE r.kind = "commit"
  BY <1>1, <1>4 DEF Looked
<1>5. CASE r.kind = "balance"
  BY <1>1, <1>5 DEF Looked
<1> QED
  BY <1>3, <1>4, <1>5

LEMMA SameAnswer ==
    ASSUME NEW new, NEW db, NEW h \in Heights, SameUpTo(new, db, h), NEW rec, NEW later,
           NEW r \in Requests, r.kind \in HistoryKinds
    PROVE  OneRead(r, new, later, h) = OneRead(r, db, rec, h)
<1>1. CASE r.kind \in {"active", "owner_passes", "history"}
  <2>1. /\ Selected(r, new, later, h) = Selected(r, db, rec, h)
        /\ Listed(r, new, later, h) = Listed(r, db, rec, h)
    BY <1>1, SamePages
  <2> QED
    BY <1>1, <2>1 DEF OneRead, PagedKinds
<1>2. CASE r.kind \in {"stats", "commit", "balance"}
  <2>1. Looked(r, new, later, h) = Looked(r, db, rec, h)
    BY <1>2, SameLooked
  <2> QED
    BY <1>2, <2>1 DEF OneRead, PagedKinds, SingleKinds
<1>3. CASE r.kind = "snapshot"
  <2>1. r.pass \in Passes
    BY RequestAssumption
  <2>2. RowAt(new.hist, r.pass, h) = RowAt(db.hist, r.pass, h) /\ Item(new, r.pass, h) = Item(db, r.pass, h)
    BY <2>1, SameRows
  <2> QED
    BY <1>3, <2>2 DEF OneRead, PagedKinds, SingleKinds
<1>4. CASE r.kind = "owner_active"
  <2> DEFINE S == OwnerActive(db, r.owner, h)
             p == CHOOSE x \in S : TRUE
  <2>1. OwnerActive(new, r.owner, h) = S
    BY SameOwnerActive
  <2>2. S \subseteq Passes
    BY DEF OwnerActive, Latest
  <2>3. S # {} => Item(new, p, h) = Item(db, p, h)
    BY <2>2, SameRows
  <2>4. /\ OneRead(r, new, later, h) = IF S = {} THEN <<>> ELSE <<Item(new, p, h)>>
        /\ OneRead(r, db, rec, h) = IF S = {} THEN <<>> ELSE <<Item(db, p, h)>>
    BY <1>4, <2>1 DEF OneRead, PagedKinds, SingleKinds
  <2> HIDE DEF S, p
  <2> QED
    BY <2>3, <2>4
<1> QED
  BY <1>1, <1>2, <1>3, <1>4 DEF HistoryKinds

-----------------------------------------------------------------------------
(* The query in progress *)

QueryFields == {"req", "step", "gate", "ref", "h", "total", "loaded", "got", "err", "out", "moved", "stale"}

DataKinds  == PagedKinds \cup SingleKinds \cup {"snapshot", "owner_active", "leaderboard"}
GateSteps  == {"gate_status", "gate_runtime", "gate_height", "gate_pending", "anchor", "anchor_hash",
               "anchor_commit", "anchor_rest", "height", "commit", "consistent", "settled"}
RefSteps   == {"ref_anchor", "ref_commit", "ref_settled"}
PageSteps  == {"count", "page"}
RowSteps   == {"row", "row_history"}
BoardSteps == {"cached", "board_count", "board_rows", "board_energy"}

\* The steps at which the height of the query is known.
HeightSteps == RefSteps \cup PageSteps \cup {"single", "owner"} \cup RowSteps \cup BoardSteps

\* Which queries take a step.
StepOf(step, kind) ==
    /\ step \in GateSteps => kind \in RequestKinds \ {"latest_balance"}
    /\ step \in {"resolve"} \cup RefSteps => kind \in DataKinds \cup {"state_ref"}
    /\ step \in PageSteps => kind \in PagedKinds
    /\ step = "single" => kind \in SingleKinds
    /\ step = "owner" => kind = "owner_active"
    /\ step \in RowSteps => kind \in {"snapshot", "owner_active"}
    /\ step \in BoardSteps => kind = "leaderboard"
    /\ step = "latest_balance" => kind = "latest_balance"

\* What the query x has read so far is still what the store holds.
StillTrue(x, db, rec) ==
    /\ x.step = "page" /\ x.req.kind \in HistoryKinds =>
          x.total = Cardinality(Selected(x.req, db, rec, x.h))
    /\ x.step \in RowSteps /\ x.req.kind = "owner_active" =>
          OwnerActive(db, x.req.owner, x.h) = {x.got[1]}
    /\ x.step = "done" =>
          /\ x.err \notin {"INTERNAL_INVARIANT_BROKEN", "DUPLICATE_ACTIVE_OWNER"}
          /\ x.err = "none" /\ x.req.kind \in HistoryKinds =>
                x.h \in Heights /\ x.out = OneRead(x.req, db, rec, x.h)
          /\ x.err = "NO_RECORD" => x.h \in Heights /\ db.settled[x.h] = NoSnapshot

QueryOK(x, db, rec) ==
    /\ DOMAIN x = QueryFields
    /\ x.h \in Heights \cup {NoHeight}
    /\ x.step # "idle" => x.req \in Requests
    /\ StepOf(x.step, x.req.kind)
    /\ x.step \in HeightSteps => x.h \in Heights
    /\ ~x.moved /\ x.step # "idle" => x.h <= db.synced /\ StillTrue(x, db, rec)

LEMMA IdleFacts ==
    /\ DOMAIN Idle = QueryFields /\ Idle.step = "idle" /\ Idle.h = NoHeight /\ Idle.err = "none"
    /\ Idle.moved = FALSE /\ Idle.out = <<>> /\ Idle.req = [kind |-> "none"]
BY DEF Idle, QueryFields

LEMMA IdleOK ==
    ASSUME NEW db \in Stores, NEW rec
    PROVE  QueryOK(Idle, db, rec)
<1>1. NoHeight <= db.synced
  BY TipFacts, HeightFacts DEF NoHeight
<1>2. Idle.step \notin GateSteps \cup {"resolve", "single", "owner", "latest_balance", "page", "done"}
                       \cup HeightSteps
  BY IdleFacts DEF GateSteps, RefSteps, PageSteps, RowSteps, BoardSteps, HeightSteps
<1>3. StepOf(Idle.step, Idle.req.kind)
  BY <1>2 DEF StepOf, HeightSteps
<1>4. StillTrue(Idle, db, rec)
  BY <1>2 DEF StillTrue, HeightSteps
<1> QED
  BY <1>1, <1>2, <1>3, <1>4, IdleFacts DEF QueryOK

LEMMA FailFields ==
    ASSUME NEW code, Fail(code)
    PROVE  /\ DOMAIN q' = QueryFields /\ q'.req = q.req /\ q'.step = "done" /\ q'.h = q.h
           /\ q'.err = code /\ q'.moved = q.moved
BY DEF Fail, Idle, QueryFields

LEMMA AnswerFields ==
    ASSUME NEW x, Answer(x)
    PROVE  /\ DOMAIN q' = QueryFields /\ q'.req = q.req /\ q'.step = "done" /\ q'.h = q.h
           /\ q'.err = "none" /\ q'.moved = q.moved /\ q'.out = x
BY DEF Answer, Idle, QueryFields

\* A step of the query in progress.
LEMMA QueryStep ==
    ASSUME QueryOK(q, conn, en.rec), q.step # "idle", DOMAIN q' = QueryFields, q'.req = q.req,
           q'.moved = q.moved, q'.h \in Heights \cup {NoHeight}, StepOf(q'.step, q.req.kind),
           q'.step \in HeightSteps => q'.h \in Heights,
           ~q.moved => q'.h <= conn.synced /\ StillTrue(q', conn, en.rec)
    PROVE  QueryOK(q', conn, en.rec)
BY DEF QueryOK

LEMMA DoneIsAnyKind == \A kind : StepOf("done", kind) /\ "done" \notin HeightSteps
BY DEF StepOf, GateSteps, RefSteps, PageSteps, RowSteps, BoardSteps, HeightSteps

LEMMA NothingHeld ==
    ASSUME NEW x, x.step \notin {"page", "done"} \cup RowSteps, NEW db, NEW rec
    PROVE  StillTrue(x, db, rec)
BY DEF StillTrue

LEMMA FailOK ==
    ASSUME QueryOK(q, conn, en.rec), q.step # "idle", NEW code, Fail(code), code # "none",
           ~q.moved => code \notin {"INTERNAL_INVARIANT_BROKEN", "DUPLICATE_ACTIVE_OWNER"},
           ~q.moved /\ code = "NO_RECORD" => q.h \in Heights /\ conn.settled[q.h] = NoSnapshot
    PROVE  QueryOK(q', conn, en.rec)
<1>1. /\ DOMAIN q' = QueryFields /\ q'.req = q.req /\ q'.step = "done" /\ q'.h = q.h
      /\ q'.err = code /\ q'.moved = q.moved
  BY FailFields
<1>2. q.h \in Heights \cup {NoHeight} /\ (~q.moved => q.h <= conn.synced)
  BY DEF QueryOK
<1>3. ~q.moved => StillTrue(q', conn, en.rec)
  BY <1>1 DEF StillTrue, RowSteps
<1> QED
  BY <1>1, <1>2, <1>3, DoneIsAnyKind, QueryStep

LEMMA AnswerOK ==
    ASSUME QueryOK(q, conn, en.rec), q.step # "idle", NEW x, Answer(x),
           ~q.moved /\ q.req.kind \in HistoryKinds =>
              q.h \in Heights /\ x = OneRead(q.req, conn, en.rec, q.h)
    PROVE  QueryOK(q', conn, en.rec)
<1>1. /\ DOMAIN q' = QueryFields /\ q'.req = q.req /\ q'.step = "done" /\ q'.h = q.h
      /\ q'.err = "none" /\ q'.moved = q.moved /\ q'.out = x
  BY AnswerFields
<1>2. q.h \in Heights \cup {NoHeight} /\ (~q.moved => q.h <= conn.synced)
  BY DEF QueryOK
<1>3. ~q.moved => StillTrue(q', conn, en.rec)
  BY <1>1 DEF StillTrue, RowSteps
<1> QED
  BY <1>1, <1>2, <1>3, DoneIsAnyKind, QueryStep

\* A step to a read that keeps nothing yet.
LEMMA GotoOK ==
    ASSUME QueryOK(q, conn, en.rec), q.step # "idle", DOMAIN q' = QueryFields, q'.req = q.req,
           q'.moved = q.moved, q'.step \notin {"page", "done"} \cup RowSteps,
           StepOf(q'.step, q.req.kind), q'.h = q.h,
           q'.step \in HeightSteps => q.step \in HeightSteps
    PROVE  QueryOK(q', conn, en.rec)
<1>1. /\ q.h \in Heights \cup {NoHeight} /\ (~q.moved => q.h <= conn.synced)
      /\ q.step \in HeightSteps => q.h \in Heights
  BY DEF QueryOK
<1>2. StillTrue(q', conn, en.rec)
  BY NothingHeld
<1> QED
  BY <1>1, <1>2, QueryStep

-----------------------------------------------------------------------------
(* The handlers *)

LEMMA AcceptOK ==
    ASSUME conn \in Stores, NEW kind, Accept(kind)
    PROVE  QueryOK(q', conn, en.rec)
<1>1. PICK r \in Requests :
        q' = IF BadParams(r) # "none" THEN [Idle EXCEPT !.req = r, !.step = "done", !.err = BadParams(r)]
             ELSE [Idle EXCEPT !.req = r, !.step = FirstStep(r)]
  BY DEF Accept
<1>2. /\ r.kind \in RequestKinds /\ r.ctx \in BOOLEAN /\ (r.kind = "latest_balance" => ~r.ctx)
  BY RequestAssumption
<1>3. NoHeight <= conn.synced
  BY TipFacts, HeightFacts DEF NoHeight
<1>4. CASE BadParams(r) # "none"
  <2>1. q' = [Idle EXCEPT !.req = r, !.step = "done", !.err = BadParams(r)]
    BY <1>1, <1>4
  <2>2. /\ DOMAIN q' = QueryFields /\ q'.req = r /\ q'.step = "done" /\ q'.h = NoHeight
        /\ q'.err = BadParams(r) /\ q'.moved = FALSE
    BY <2>1 DEF Idle, QueryFields
  <2>3. BadParams(r) \in {"none", "INVALID_PAGINATION", "INVALID_PARAMS"}
    BY DEF BadParams
  <2>4. StillTrue(q', conn, en.rec)
    BY <1>4, <2>2, <2>3 DEF StillTrue, RowSteps
  <2> QED
    BY <1>3, <2>2, <2>4, DoneIsAnyKind DEF QueryOK
<1>5. CASE BadParams(r) = "none"
  <2>1. q' = [Idle EXCEPT !.req = r, !.step = FirstStep(r)]
    BY <1>1, <1>5
  <2>2. /\ DOMAIN q' = QueryFields /\ q'.req = r /\ q'.step = FirstStep(r) /\ q'.h = NoHeight
        /\ q'.moved = FALSE
    BY <2>1 DEF Idle, QueryFields
  <2>3. FirstStep(r) \in {"gate_status", "anchor", "latest_balance", "resolve"}
    BY DEF FirstStep
  <2>4. StepOf(FirstStep(r), r.kind)
    <3>1. CASE FirstStep(r) \in {"gate_status", "anchor"}
      <4>1. r.kind # "latest_balance"
        BY <1>2, <3>1 DEF FirstStep, GatedKinds
      <4> QED
        BY <1>2, <3>1, <4>1 DEF StepOf, RefSteps, PageSteps, RowSteps, BoardSteps
    <3>2. CASE FirstStep(r) = "latest_balance"
      <4>1. r.kind = "latest_balance"
        BY <3>2 DEF FirstStep
      <4> QED
        BY <3>2, <4>1 DEF StepOf, GateSteps, RefSteps, PageSteps, RowSteps, BoardSteps
    <3>3. CASE FirstStep(r) = "resolve"
      <4>1. r.kind \notin {"readiness", "state_ref", "current", "latest_balance"}
        BY <3>3 DEF FirstStep, GatedKinds
      <4>2. r.kind \in DataKinds
        BY <1>2, <4>1 DEF RequestKinds, DataKinds, PagedKinds, SingleKinds
      <4> QED
        BY <3>3, <4>2 DEF StepOf, GateSteps, RefSteps, PageSteps, RowSteps, BoardSteps
    <3> QED
      BY <2>3, <3>1, <3>2, <3>3
  <2>5. FirstStep(r) \notin {"page", "done"} \cup RowSteps \cup HeightSteps
    BY <2>3 DEF RefSteps, PageSteps, RowSteps, BoardSteps, HeightSteps
  <2>6. StillTrue(q', conn, en.rec)
    BY <2>2, <2>5, NothingHeld
  <2> QED
    BY <1>3, <2>2, <2>4, <2>5, <2>6 DEF QueryOK
<1> QED
  BY <1>4, <1>5

\* The steps of the gate, and what follows them.
LEMMA DecideOK ==
    ASSUME QueryOK(q, conn, en.rec), q.step \in GateSteps, NEW ref, Decide(ref)
    PROVE  QueryOK(q', conn, en.rec)
<1>0. /\ q.step # "idle" /\ q.req.kind \in RequestKinds \ {"latest_balance"} /\ DOMAIN q = QueryFields
      /\ q.step \notin HeightSteps
  BY DEF QueryOK, StepOf, GateSteps, RefSteps, PageSteps, RowSteps, BoardSteps, HeightSteps
<1>1. CASE q.req.kind = "readiness"
  <2>1. PICK x : Answer(x)
    BY <1>1 DEF Decide
  <2> QED
    BY <1>0, <1>1, <2>1, AnswerOK DEF HistoryKinds
<1>2. CASE q.req.kind = "current"
  <2>1. Fail("SNAPSHOT_NOT_READY") \/ Fail("INTERNAL_ERROR") \/ \E x : Answer(x)
    BY <1>2 DEF Decide, require_system_state_info
  <2> QED
    BY <1>0, <1>2, <2>1, AnswerOK, FailOK DEF HistoryKinds
<1>3. CASE q.req.kind \notin {"readiness", "current"}
  <2>1. CASE Fail("SNAPSHOT_NOT_READY")
    BY <1>0, <2>1, FailOK
  <2>2. CASE q' = [q EXCEPT !.step = "resolve", !.gate = NoGate, !.ref = NoRef]
    <3>1. /\ DOMAIN q' = QueryFields /\ q'.req = q.req /\ q'.step = "resolve" /\ q'.h = q.h
          /\ q'.moved = q.moved
      BY <1>0, <2>2 DEF QueryFields
    <3>2. q.req.kind \in DataKinds \cup {"state_ref"}
      BY <1>0, <1>3 DEF RequestKinds, DataKinds, PagedKinds, SingleKinds
    <3>3. StepOf("resolve", q.req.kind) /\ "resolve" \notin {"page", "done"} \cup RowSteps \cup HeightSteps
      BY <3>2 DEF StepOf, GateSteps, RefSteps, PageSteps, RowSteps, BoardSteps, HeightSteps
    <3> QED
      BY <1>0, <3>1, <3>3, GotoOK
  <2> QED
    BY <1>3, <2>1, <2>2 DEF Decide
<1> QED
  BY <1>1, <1>2, <1>3

LEMMA GateSame ==
    ASSUME QueryOK(q, conn, en.rec), q.step \in GateSteps, q'.step \in GateSteps,
           DOMAIN q' = QueryFields, q'.req = q.req, q'.h = q.h, q'.moved = q.moved
    PROVE  QueryOK(q', conn, en.rec)
<1>1. q.step # "idle" /\ StepOf(q.step, q.req.kind)
  BY DEF QueryOK, GateSteps
<1>2. StepOf(q'.step, q.req.kind) /\ q'.step \notin {"page", "done"} \cup RowSteps \cup HeightSteps
  BY <1>1 DEF StepOf, GateSteps, RefSteps, PageSteps, RowSteps, BoardSteps, HeightSteps
<1> QED
  BY <1>1, <1>2, GotoOK

\* A read of the gate changes the step and the locals of the gate only.
LEMMA GateFrame ==
    ASSUME QueryOK(q, conn, en.rec), q.step \in GateSteps, NEW s \in GateSteps, NEW x, NEW y,
           \/ q' = [q EXCEPT !.step = s]
           \/ q' = [q EXCEPT !.step = s, !.gate.up = x]
           \/ q' = [q EXCEPT !.step = s, !.gate.flag = x, !.gate.shutdown = y]
           \/ q' = [q EXCEPT !.step = s, !.gate.synced = x]
           \/ q' = [q EXCEPT !.step = s, !.gate.pending = x]
           \/ q' = [q EXCEPT !.step = s, !.ref.snap.height = x]
           \/ q' = [q EXCEPT !.step = s, !.ref.snap.hash = x]
           \/ q' = [q EXCEPT !.step = s, !.ref.snap.commit = x]
           \/ q' = [q EXCEPT !.step = s, !.ref.h = x]
           \/ q' = [q EXCEPT !.step = s, !.ref.commit = x]
    PROVE  QueryOK(q', conn, en.rec)
<1>1. DOMAIN q = QueryFields
  BY DEF QueryOK
<1>2. /\ DOMAIN q' = QueryFields /\ q'.req = q.req /\ q'.h = q.h /\ q'.moved = q.moved
      /\ q'.step = s
  BY <1>1 DEF QueryFields
<1> QED
  BY <1>2, GateSame

LEMMA AnchorIncompleteOK ==
    ASSUME QueryOK(q, conn, en.rec), q.step \in GateSteps, AnchorIncomplete
    PROVE  QueryOK(q', conn, en.rec)
<1>1. CASE q.req.kind = "current"
  <2>1. Fail("INTERNAL_ERROR") /\ q.step # "idle"
    BY <1>1 DEF AnchorIncomplete, GateSteps
  <2> QED
    BY <2>1, FailOK
<1>2. CASE q.req.kind # "current"
  BY <1>2, DecideOK DEF AnchorIncomplete
<1> QED
  BY <1>1, <1>2

LEMMA GateOK ==
    ASSUME QueryOK(q, conn, en.rec), Gate
    PROVE  QueryOK(q', conn, en.rec)
<1>0. q.step \in GateSteps
  BY DEF Gate, ReadStatus, ReadRuntime, ReadGateHeight, ReadGatePending, ReadAnchor, ReadAnchorHash,
         ReadAnchorCommit, ReadAnchorRest, ReadHeight, ReadCommit, ReadConsistent, ReadSettled,
         Reading, GateSteps
<1>1. CASE ReadStatus
  <2>1. PICK x : q' = [q EXCEPT !.step = "gate_runtime", !.gate.up = x]
    BY <1>1 DEF ReadStatus
  <2> QED
    BY <1>0, <2>1, GateFrame DEF GateSteps
<1>2. CASE ReadRuntime
  <2>1. PICK x, y : q' = [q EXCEPT !.step = "gate_height", !.gate.flag = x, !.gate.shutdown = y]
    BY <1>2 DEF ReadRuntime
  <2> QED
    BY <1>0, <2>1, GateFrame DEF GateSteps
<1>3. CASE ReadGateHeight
  <2>1. PICK x : q' = [q EXCEPT !.step = "gate_pending", !.gate.synced = x]
    BY <1>3 DEF ReadGateHeight
  <2> QED
    BY <1>0, <2>1, GateFrame DEF GateSteps
<1>4. CASE ReadGatePending
  <2>1. PICK x : q' = [q EXCEPT !.step = "anchor", !.gate.pending = x]
    BY <1>4 DEF ReadGatePending
  <2> QED
    BY <1>0, <2>1, GateFrame DEF GateSteps
<1>5. CASE ReadAnchor
  <2>1. CASE Decide(NoRef)
    BY <1>0, <2>1, DecideOK
  <2>2. CASE \E x : q' = [q EXCEPT !.step = "anchor_hash", !.ref.snap.height = x]
    BY <1>0, <2>2, GateFrame DEF GateSteps
  <2> QED
    BY <1>5, <2>1, <2>2 DEF ReadAnchor
<1>6. CASE ReadAnchorHash
  <2>1. CASE AnchorIncomplete
    BY <1>0, <2>1, AnchorIncompleteOK
  <2>2. CASE \E x : q' = [q EXCEPT !.step = "anchor_commit", !.ref.snap.hash = x]
    BY <1>0, <2>2, GateFrame DEF GateSteps
  <2> QED
    BY <1>6, <2>1, <2>2 DEF ReadAnchorHash
<1>7. CASE ReadAnchorCommit
  <2>1. CASE AnchorIncomplete
    BY <1>0, <2>1, AnchorIncompleteOK
  <2>2. CASE \E x : q' = [q EXCEPT !.step = "anchor_rest", !.ref.snap.commit = x]
    BY <1>0, <2>2, GateFrame DEF GateSteps
  <2> QED
    BY <1>7, <2>1, <2>2 DEF ReadAnchorCommit
<1>8. CASE ReadAnchorRest
  <2>1. CASE AnchorIncomplete
    BY <1>0, <2>1, AnchorIncompleteOK
  <2>2. CASE q' = [q EXCEPT !.step = "height"]
    BY <1>0, <2>2, GateFrame DEF GateSteps
  <2> QED
    BY <1>8, <2>1, <2>2 DEF ReadAnchorRest, Goto
<1>9. CASE ReadHeight
  <2>1. PICK x : q' = [q EXCEPT !.step = "commit", !.ref.h = x]
    BY <1>9 DEF ReadHeight
  <2> QED
    BY <1>0, <2>1, GateFrame DEF GateSteps
<1>10. CASE ReadCommit
  <2>1. PICK x : q' = [q EXCEPT !.step = "consistent", !.ref.commit = x]
    BY <1>10 DEF ReadCommit
  <2> QED
    BY <1>0, <2>1, GateFrame DEF GateSteps
<1>11. CASE ReadConsistent
  <2>1. CASE \E ref : Decide(ref)
    BY <1>0, <2>1, DecideOK
  <2>2. CASE q' = [q EXCEPT !.step = "settled"]
    BY <1>0, <2>2, GateFrame DEF GateSteps
  <2> QED
    BY <1>11, <2>1, <2>2 DEF ReadConsistent, Goto
<1>12. CASE ReadSettled
  <2>1. \E ref : Decide(ref)
    BY <1>12 DEF ReadSettled
  <2> QED
    BY <1>0, <2>1, DecideOK
<1> QED
  BY <1>1, <1>2, <1>3, <1>4, <1>5, <1>6, <1>7, <1>8, <1>9, <1>10, <1>11, <1>12 DEF Gate

LEMMA DataSteps ==
    ASSUME NEW kind \in DataKinds
    PROVE  /\ DataStep(kind) \in HeightSteps \ {"page", "row_history"}
           /\ StepOf(DataStep(kind), kind)
           /\ DataStep(kind) = "row" => kind = "snapshot"
<1>1. CASE kind \in PagedKinds
  <2>1. DataStep(kind) = "count"
    BY <1>1 DEF DataStep, PagedKinds, SingleKinds
  <2> QED
    BY <1>1, <2>1 DEF StepOf, GateSteps, RefSteps, PageSteps, RowSteps, BoardSteps, HeightSteps
<1>2. CASE kind \in SingleKinds
  <2>1. DataStep(kind) = "single"
    BY <1>2 DEF DataStep, PagedKinds, SingleKinds
  <2> QED
    BY <1>2, <2>1 DEF StepOf, GateSteps, RefSteps, PageSteps, RowSteps, BoardSteps, HeightSteps
<1>3. CASE kind = "snapshot"
  <2>1. DataStep(kind) = "row"
    BY <1>3 DEF DataStep, PagedKinds, SingleKinds
  <2> QED
    BY <1>3, <2>1 DEF StepOf, GateSteps, RefSteps, PageSteps, RowSteps, BoardSteps, HeightSteps
<1>4. CASE kind = "owner_active"
  <2>1. DataStep(kind) = "owner"
    BY <1>4 DEF DataStep, PagedKinds, SingleKinds
  <2> QED
    BY <1>4, <2>1 DEF StepOf, GateSteps, RefSteps, PageSteps, RowSteps, BoardSteps, HeightSteps
<1>5. CASE kind = "leaderboard"
  <2>1. DataStep(kind) = "cached"
    BY <1>5 DEF DataStep, PagedKinds, SingleKinds
  <2> QED
    BY <1>5, <2>1 DEF StepOf, GateSteps, RefSteps, PageSteps, RowSteps, BoardSteps, HeightSteps
<1> QED
  BY <1>1, <1>2, <1>3, <1>4, <1>5 DEF DataKinds

\* The first read of the answer itself, at a height that is known by now.
LEMMA DataStepOK ==
    ASSUME QueryOK(q, conn, en.rec), q.step # "idle", q.req.kind \in DataKinds,
           DOMAIN q' = QueryFields, q'.req = q.req, q'.moved = q.moved, q'.h \in Heights,
           ~q.moved => q'.h <= conn.synced, q'.step = DataStep(q.req.kind)
    PROVE  QueryOK(q', conn, en.rec)
<1>1. /\ q'.step \in HeightSteps \ {"page", "row_history"} /\ StepOf(q'.step, q.req.kind)
      /\ q'.step = "row" => q.req.kind = "snapshot"
  BY DataSteps
<1>2. q'.step # "done"
  BY <1>1, DoneIsAnyKind
<1>3. StillTrue(q', conn, en.rec)
  BY <1>1, <1>2 DEF StillTrue, RowSteps
<1> QED
  BY <1>1, <1>3, QueryStep

LEMMA MismatchCodes ==
    ASSUME NEW want, NEW ref, Mismatches(want, ref) # {}
    PROVE  MismatchCode(Selectors[Min(Mismatches(want, ref))]) \notin
              {"none", "INTERNAL_INVARIANT_BROKEN", "DUPLICATE_ACTIVE_OWNER", "NO_RECORD"}
<1> DEFINE bad == Mismatches(want, ref)
<1>1. bad \subseteq 1..6
  BY DEF Mismatches, Selectors
<1>2. PICK m \in bad : \A n \in bad : m <= n
  <2>1. bad \subseteq Nat
    BY <1>1
  <2> HIDE DEF bad
  <2> QED
    BY <2>1, LeastElement DEF bad
<1> HIDE DEF bad
<1>3. Min(bad) \in bad
  BY <1>2 DEF Min
<1>4. PICK i : i \in 1..6 /\ i = Min(bad)
  BY <1>1, <1>3
<1>5. Selectors[i] \in {"snapshot_id", "stable_height", "stable_block_hash", "version",
                        "local_state_commit", "system_state_id"}
  <2>1. i = 1 \/ i = 2 \/ i = 3 \/ i = 4 \/ i = 5 \/ i = 6
    BY <1>4
  <2> QED
    BY <2>1 DEF Selectors
<1>6. MismatchCode(Selectors[i]) \notin
         {"none", "INTERNAL_INVARIANT_BROKEN", "DUPLICATE_ACTIVE_OWNER", "NO_RECORD"}
  BY <1>5 DEF MismatchCode
<1> QED
  BY <1>4, <1>6 DEF bad

LEMMA ResolveOK ==
    ASSUME conn \in Stores, QueryOK(q, conn, en.rec), Resolve
    PROVE  QueryOK(q', conn, en.rec)
<1> DEFINE r == q.req
           h == IF RequestedHeight(r) # 0 THEN RequestedHeight(r) ELSE conn.synced
<1>0. /\ q.step = "resolve" /\ DOMAIN q = QueryFields /\ r \in Requests
      /\ r.kind \in DataKinds \cup {"state_ref"}
  BY DEF Resolve, Reading, QueryOK, StepOf
<1>1. RequestedHeight(r) \in Nat
  BY <1>0, RequestAssumption DEF RequestedHeight
<1>2. conn.synced \in Heights /\ conn.synced \in Nat /\ MaxHeight \in Nat /\ Heights = 0..MaxHeight
  BY TipFacts, HeightFacts
<1>3. h \in Nat
  BY <1>1, <1>2
<1>4. CASE conn.synced = 0 \/ h > conn.synced
  <2>1. Fail("HEIGHT_NOT_SYNCED")
    BY <1>4 DEF Resolve
  <2> QED
    BY <1>0, <2>1, FailOK
<1>5. CASE ~(conn.synced = 0 \/ h > conn.synced)
  <2>0. h <= conn.synced /\ h \in Heights
    BY <1>2, <1>3, <1>5
  <2>1. CASE Fail("INVALID_HEIGHT_RANGE") \/ Fail("STATE_NOT_RETAINED")
    BY <1>0, <2>1, FailOK
  <2>2. CASE q' = [q EXCEPT !.h = h, !.step = "ref_anchor"]
    <3>1. /\ DOMAIN q' = QueryFields /\ q'.req = q.req /\ q'.h = h /\ q'.moved = q.moved
          /\ q'.step = "ref_anchor"
      BY <1>0, <2>2 DEF QueryFields
    <3>2. StepOf("ref_anchor", q.req.kind) /\ "ref_anchor" \notin {"page", "done"} \cup RowSteps
      BY <1>0 DEF StepOf, GateSteps, RefSteps, PageSteps, RowSteps, BoardSteps
    <3>3. StillTrue(q', conn, en.rec)
      BY <3>1, <3>2, NothingHeld
    <3> QED
      BY <1>0, <2>0, <3>1, <3>2, <3>3, QueryStep
  <2>3. CASE q' = [q EXCEPT !.h = h, !.step = DataStep(r.kind)] /\ r.kind # "state_ref"
    <3>1. /\ DOMAIN q' = QueryFields /\ q'.req = q.req /\ q'.h = h /\ q'.moved = q.moved
          /\ q'.step = DataStep(q.req.kind)
      BY <1>0, <2>3 DEF QueryFields
    <3> HIDE DEF h
    <3> QED
      BY <1>0, <2>0, <2>3, <3>1, DataStepOK
  <2> QED
    BY <1>5, <2>1, <2>2, <2>3 DEF Resolve
<1> QED
  BY <1>4, <1>5

LEMMA StateRefOK ==
    ASSUME conn \in Stores, QueryOK(q, conn, en.rec), StateRef
    PROVE  QueryOK(q', conn, en.rec)
<1>0. DOMAIN q = QueryFields /\ StepOf(q.step, q.req.kind)
  BY DEF QueryOK
<1>1. CASE Resolve
  BY <1>1, ResolveOK
<1>2. CASE ReadRefAnchor
  <2>0. q.step = "ref_anchor"
    BY <1>2 DEF ReadRefAnchor, Reading
  <2>1. CASE Fail("STATE_NOT_RETAINED") \/ Fail("HISTORY_NOT_AVAILABLE")
    BY <2>0, <2>1, FailOK
  <2>2. CASE \E x : q' = [q EXCEPT !.step = "ref_commit", !.ref = x]
    <3>1. /\ DOMAIN q' = QueryFields /\ q'.req = q.req /\ q'.h = q.h /\ q'.moved = q.moved
          /\ q'.step = "ref_commit"
      BY <1>0, <2>2 DEF QueryFields
    <3>2. StepOf("ref_commit", q.req.kind) /\ "ref_commit" \notin {"page", "done"} \cup RowSteps
          /\ q.step \in HeightSteps
      BY <1>0, <2>0 DEF StepOf, GateSteps, RefSteps, PageSteps, RowSteps, BoardSteps, HeightSteps
    <3> QED
      BY <2>0, <3>1, <3>2, GotoOK
  <2> QED
    BY <1>2, <2>1, <2>2 DEF ReadRefAnchor
<1>3. CASE ReadRefCommit
  <2>0. q.step = "ref_commit"
    BY <1>3 DEF ReadRefCommit, Reading
  <2>1. PICK x : q' = [q EXCEPT !.step = "ref_settled", !.ref.commit = x]
    BY <1>3 DEF ReadRefCommit
  <2>2. /\ DOMAIN q' = QueryFields /\ q'.req = q.req /\ q'.h = q.h /\ q'.moved = q.moved
        /\ q'.step = "ref_settled"
    BY <1>0, <2>1 DEF QueryFields
  <2>3. StepOf("ref_settled", q.req.kind) /\ "ref_settled" \notin {"page", "done"} \cup RowSteps
        /\ q.step \in HeightSteps
    BY <1>0, <2>0 DEF StepOf, GateSteps, RefSteps, PageSteps, RowSteps, BoardSteps, HeightSteps
  <2> QED
    BY <2>0, <2>2, <2>3, GotoOK
<1>4. CASE ReadRefSettled
  <2>0. q.step = "ref_settled"
    BY <1>4 DEF ReadRefSettled, Reading
  <2>a. q.h \in Heights /\ (~q.moved => q.h <= conn.synced)
    BY <2>0 DEF QueryOK, HeightSteps, RefSteps
  <2>b. q.req.kind \in DataKinds \cup {"state_ref"}
    BY <1>0, <2>0 DEF StepOf, RefSteps
  <2>1. CASE Fail("HISTORY_NOT_AVAILABLE")
    BY <2>0, <2>1, FailOK
  <2>2. CASE \E ref : LET bad == Mismatches(q.req.want, ref)
                      IN  bad # {} /\ Fail(MismatchCode(Selectors[Min(bad)]))
    <3>1. PICK ref : /\ Mismatches(q.req.want, ref) # {}
                     /\ Fail(MismatchCode(Selectors[Min(Mismatches(q.req.want, ref))]))
      BY <2>2
    <3> DEFINE code == MismatchCode(Selectors[Min(Mismatches(q.req.want, ref))])
    <3>2. code \notin {"none", "INTERNAL_INVARIANT_BROKEN", "DUPLICATE_ACTIVE_OWNER", "NO_RECORD"}
      BY <3>1, MismatchCodes
    <3>3. Fail(code)
      BY <3>1
    <3> HIDE DEF code
    <3> QED
      BY <2>0, <3>2, <3>3, FailOK
  <2>3. CASE q.req.kind = "state_ref" /\ \E x : Answer(x)
    BY <2>0, <2>3, AnswerOK DEF HistoryKinds
  <2>4. CASE q.req.kind # "state_ref" /\ q' = [q EXCEPT !.step = DataStep(q.req.kind), !.ref = NoRef]
    <3>1. /\ DOMAIN q' = QueryFields /\ q'.req = q.req /\ q'.h = q.h /\ q'.moved = q.moved
          /\ q'.step = DataStep(q.req.kind)
      BY <1>0, <2>4 DEF QueryFields
    <3> QED
      BY <2>0, <2>a, <2>b, <2>4, <3>1, DataStepOK
  <2> QED
    BY <1>4, <2>1, <2>2, <2>3, <2>4 DEF ReadRefSettled
<1> QED
  BY <1>1, <1>2, <1>3, <1>4 DEF StateRef

\* No owner is found with two active passes, at any height.
LEMMA OwnerHasOne ==
    ASSUME IInv, NEW h \in Heights, NEW o
    PROVE  LET S == OwnerActive(conn, o, h)
           IN  /\ S \subseteq Passes
               /\ S # {} => \E p \in Passes : S = {p} /\ RowAt(conn.hist, p, h) # NoRow
<1> DEFINE S == OwnerActive(conn, o, h)
<1>1. \A p \in S : p \in Passes /\ RowAt(conn.hist, p, h).state = "active" /\ RowAt(conn.hist, p, h).owner = o
  BY DEF OwnerActive, Latest
<1>2. ~DuplicateOwner(h)
  BY NoDuplicates DEF OneActivePerOwner
<1>3. \A p, x \in S : p = x
  BY <1>1, <1>2 DEF DuplicateOwner, ActiveAt, OwnerAt
<1>4. \A p \in S : RowAt(conn.hist, p, h) # NoRow
  BY <1>1 DEF NoRow
<1> HIDE DEF S
<1>5. S # {} => \E p \in Passes : S = {p} /\ RowAt(conn.hist, p, h) # NoRow
  BY <1>1, <1>3, <1>4
<1>6. S \subseteq Passes
  BY <1>1
<1> QED
  BY <1>5, <1>6 DEF S

LEMMA OneInSequence ==
    ASSUME NEW p
    PROVE  Cardinality({p}) = 1 /\ SetToSeq({p})[1] = p
<1>1. Cardinality({p}) = 1
  BY FS_Singleton
<1> DEFINE f == [i \in 1..1 |-> p]
<1>2. f \in [1..1 -> {p}] /\ IsInjective(f)
  BY DEF IsInjective
<1>3. SetToSeq({p}) \in [1..1 -> {p}]
  BY <1>1, <1>2 DEF SetToSeq
<1> QED
  BY <1>1, <1>3

LEMMA OwnerActiveOK ==
    ASSUME IInv, QueryOK(q, conn, en.rec), ReadOwnerActive
    PROVE  QueryOK(q', conn, en.rec)
<1> DEFINE S == OwnerActive(conn, q.req.owner, q.h)
<1>0. q.step = "owner" /\ DOMAIN q = QueryFields
  BY DEF ReadOwnerActive, Reading, QueryOK
<1>1. q.h \in Heights /\ q.req.kind = "owner_active" /\ (~q.moved => q.h <= conn.synced)
  BY <1>0 DEF QueryOK, HeightSteps, StepOf
<1>2. S # {} => \E p \in Passes : S = {p}
  BY <1>1, OwnerHasOne
<1>3. /\ ~(Cardinality(S) > 1)
      /\ S # {} => S = {SetToSeq(S)[1]}
  <2>1. CASE S = {}
    <3>1. Cardinality({}) = 0
      BY FS_EmptySet
    <3> HIDE DEF S
    <3> QED
      BY <2>1, <3>1
  <2>2. CASE S # {}
    <3>1. PICK p \in Passes : S = {p}
      BY <1>2, <2>2
    <3>2. Cardinality({p}) = 1 /\ SetToSeq({p})[1] = p
      BY OneInSequence
    <3> HIDE DEF S
    <3> QED
      BY <3>1, <3>2
  <2> QED
    BY <2>1, <2>2
<1>4. CASE S = {}
  <2>1. Answer(<<>>)
    BY <1>3, <1>4 DEF ReadOwnerActive
  <2>2. OneRead(q.req, conn, en.rec, q.h) = <<>>
    BY <1>1, <1>4 DEF OneRead, PagedKinds, SingleKinds
  <2> QED
    BY <1>0, <1>1, <2>1, <2>2, AnswerOK
<1>5. CASE S # {}
  <2>1. q' = [q EXCEPT !.step = "row", !.got = SetToSeq(S)]
    BY <1>3, <1>5 DEF ReadOwnerActive
  <2> HIDE DEF S
  <2>2. /\ DOMAIN q' = QueryFields /\ q'.req = q.req /\ q'.h = q.h /\ q'.moved = q.moved
        /\ q'.step = "row" /\ q'.got = SetToSeq(S)
    BY <1>0, <2>1 DEF QueryFields
  <2>3. StepOf("row", q.req.kind) /\ "row" \notin {"page", "done"}
    BY <1>1 DEF StepOf, GateSteps, RefSteps, PageSteps, RowSteps, BoardSteps
  <2>4. OwnerActive(conn, q'.req.owner, q'.h) = {q'.got[1]}
    BY <1>3, <1>5, <2>2 DEF S
  <2>5. StillTrue(q', conn, en.rec)
    BY <2>2, <2>4 DEF StillTrue
  <2> QED
    BY <1>0, <1>1, <2>2, <2>3, <2>5, QueryStep
<1> QED
  BY <1>4, <1>5

\* What the two reads of a pass know.
LEMMA WantedFacts ==
    ASSUME IInv, QueryOK(q, conn, en.rec), q.step \in RowSteps
    PROVE  /\ q.h \in Heights /\ q.req.kind \in {"snapshot", "owner_active"}
           /\ q.req.kind = "snapshot" => Wanted = q.req.pass /\ Wanted \in Passes
           /\ q.req.kind = "owner_active" /\ ~q.moved =>
                 /\ Wanted \in Passes /\ RowAt(conn.hist, Wanted, q.h) # NoRow
                 /\ OwnerActive(conn, q.req.owner, q.h) = {Wanted}
<1>1. q.h \in Heights /\ q.req.kind \in {"snapshot", "owner_active"} /\ q.req \in Requests
  BY DEF QueryOK, HeightSteps, StepOf, RowSteps
<1>2. CASE q.req.kind = "snapshot"
  BY <1>1, <1>2, RequestAssumption DEF Wanted
<1>3. ASSUME q.req.kind = "owner_active", ~q.moved
      PROVE  /\ Wanted \in Passes /\ RowAt(conn.hist, Wanted, q.h) # NoRow
             /\ OwnerActive(conn, q.req.owner, q.h) = {Wanted}
  <2> DEFINE S == OwnerActive(conn, q.req.owner, q.h)
  <2>0. q.step # "idle"
    BY DEF RowSteps
  <2>1. S = {q.got[1]}
    BY <1>3, <2>0 DEF QueryOK, StillTrue
  <2>2. S # {} => \E p \in Passes : S = {p} /\ RowAt(conn.hist, p, q.h) # NoRow
    BY <1>1, OwnerHasOne
  <2> HIDE DEF S
  <2>3. PICK p \in Passes : S = {p} /\ RowAt(conn.hist, p, q.h) # NoRow
    BY <2>1, <2>2
  <2>4. q.got[1] = p
    BY <2>1, <2>3
  <2>5. Wanted = p
    BY <1>3, <2>4 DEF Wanted
  <2> QED
    BY <2>3, <2>5 DEF S
<1> QED
  BY <1>1, <1>2, <1>3

LEMMA NoPassOK ==
    ASSUME IInv, QueryOK(q, conn, en.rec), q.step \in RowSteps, NoPass,
           Wanted \in Passes => RowAt(conn.hist, Wanted, q.h) = NoRow
    PROVE  QueryOK(q', conn, en.rec)
<1>0. q.step # "idle"
  BY DEF RowSteps
<1>1. CASE q.req.kind = "owner_active"
  <2>1. Fail("INTERNAL_INVARIANT_BROKEN")
    BY <1>1 DEF NoPass
  <2>2. q.moved
    BY <1>1, WantedFacts
  <2> QED
    BY <1>0, <2>1, <2>2, FailOK
<1>2. CASE q.req.kind = "snapshot"
  <2>1. Answer(<<>>)
    BY <1>2 DEF NoPass
  <2>2. q.h \in Heights /\ RowAt(conn.hist, q.req.pass, q.h) = NoRow
    BY <1>2, WantedFacts
  <2>3. OneRead(q.req, conn, en.rec, q.h) = <<>>
    BY <1>2, <2>2 DEF OneRead, PagedKinds, SingleKinds
  <2> QED
    BY <1>0, <2>1, <2>2, <2>3, AnswerOK
<1> QED
  BY <1>1, <1>2, WantedFacts

LEMMA PassRowsOK ==
    ASSUME IInv, QueryOK(q, conn, en.rec), ReadPassRow \/ ReadPassHistory
    PROVE  QueryOK(q', conn, en.rec)
<1>0. q.step \in RowSteps /\ DOMAIN q = QueryFields /\ q.step # "idle"
  BY DEF ReadPassRow, ReadPassHistory, Reading, RowSteps, QueryOK
<1>1. /\ q.h \in Heights /\ q.req.kind \in {"snapshot", "owner_active"}
      /\ q.req.kind = "snapshot" => Wanted = q.req.pass /\ Wanted \in Passes
      /\ q.req.kind = "owner_active" /\ ~q.moved =>
            /\ Wanted \in Passes /\ RowAt(conn.hist, Wanted, q.h) # NoRow
            /\ OwnerActive(conn, q.req.owner, q.h) = {Wanted}
  BY <1>0, WantedFacts
<1>2. CASE ReadPassRow
  <2>1. CASE conn.passes[Wanted] = NoRow
    <3>1. Wanted \in Passes => RowAt(conn.hist, Wanted, q.h) = NoRow
      BY <1>1, <2>1, RowsHavePasses
    <3>2. NoPass
      BY <1>2, <2>1 DEF ReadPassRow
    <3> QED
      BY <1>0, <3>1, <3>2, NoPassOK
  <2>2. CASE conn.passes[Wanted] # NoRow
    <3>0. q.step = "row"
      BY <1>2 DEF ReadPassRow, Reading
    <3>1. q' = [q EXCEPT !.step = "row_history"]
      BY <1>2, <2>2 DEF ReadPassRow, Goto
    <3>2. /\ DOMAIN q' = QueryFields /\ q'.req = q.req /\ q'.h = q.h /\ q'.moved = q.moved
          /\ q'.step = "row_history" /\ q'.got = q.got
      BY <1>0, <3>1 DEF QueryFields
    <3>3. StepOf("row_history", q.req.kind)
      BY <1>1 DEF StepOf, GateSteps, RefSteps, PageSteps, RowSteps, BoardSteps
    <3>4. ~q.moved => q.h <= conn.synced /\ StillTrue(q, conn, en.rec)
      BY <1>0 DEF QueryOK
    <3>5. ~q.moved => StillTrue(q', conn, en.rec)
      BY <1>0, <3>2, <3>4 DEF StillTrue
    <3> QED
      BY <1>0, <1>1, <3>2, <3>3, <3>4, <3>5, QueryStep
  <2> QED
    BY <2>1, <2>2
<1>3. CASE ReadPassHistory
  <2>1. CASE RowAt(conn.hist, Wanted, q.h) = NoRow
    <3>1. NoPass
      BY <1>3, <2>1 DEF ReadPassHistory
    <3> QED
      BY <1>0, <2>1, <3>1, NoPassOK
  <2>2. CASE RowAt(conn.hist, Wanted, q.h) # NoRow
    <3>1. Answer(<<Item(conn, Wanted, q.h)>>)
      BY <1>3, <2>2 DEF ReadPassHistory
    <3>2. CASE q.req.kind = "snapshot"
      <4>1. OneRead(q.req, conn, en.rec, q.h) = <<Item(conn, Wanted, q.h)>>
        BY <1>1, <2>2, <3>2 DEF OneRead, PagedKinds, SingleKinds
      <4> QED
        BY <1>0, <1>1, <3>1, <4>1, AnswerOK
    <3>3. CASE q.req.kind = "owner_active"
      <4>1. ASSUME ~q.moved PROVE OneRead(q.req, conn, en.rec, q.h) = <<Item(conn, Wanted, q.h)>>
        <5> DEFINE S == OwnerActive(conn, q.req.owner, q.h)
        <5>1. S = {Wanted}
          BY <1>1, <3>3, <4>1
        <5>2. OneRead(q.req, conn, en.rec, q.h)
                = IF S = {} THEN <<>> ELSE <<Item(conn, CHOOSE p \in S : TRUE, q.h)>>
          BY <3>3 DEF OneRead, PagedKinds, SingleKinds
        <5> HIDE DEF S
        <5>3. (CHOOSE p \in S : TRUE) = Wanted /\ S # {}
          BY <5>1
        <5> QED
          BY <5>2, <5>3
      <4> QED
        BY <1>0, <1>1, <3>1, <4>1, AnswerOK
    <3> QED
      BY <1>1, <3>2, <3>3
  <2> QED
    BY <2>1, <2>2
<1> QED
  BY <1>2, <1>3

LEMMA PagesOK ==
    ASSUME QueryOK(q, conn, en.rec), CountRows \/ ReadPage
    PROVE  QueryOK(q', conn, en.rec)
<1>0. q.step \in PageSteps /\ DOMAIN q = QueryFields /\ q.step # "idle"
  BY DEF CountRows, ReadPage, Reading, PageSteps, QueryOK
<1>1. /\ q.h \in Heights /\ q.req.kind \in PagedKinds
      /\ ~q.moved => q.h <= conn.synced /\ StillTrue(q, conn, en.rec)
  BY <1>0 DEF QueryOK, HeightSteps, StepOf
<1>2. CASE CountRows
  <2> DEFINE n == Cardinality(Selected(q.req, conn, en.rec, q.h))
  <2>1. q' = [q EXCEPT !.step = "page", !.total = n]
    BY <1>2 DEF CountRows
  <2> HIDE DEF n
  <2>2. /\ DOMAIN q' = QueryFields /\ q'.req = q.req /\ q'.h = q.h /\ q'.moved = q.moved
        /\ q'.step = "page" /\ q'.total = n
    BY <1>0, <2>1 DEF QueryFields
  <2>3. StepOf("page", q.req.kind)
    BY <1>1 DEF StepOf, GateSteps, RefSteps, PageSteps, RowSteps, BoardSteps
  <2>4. StillTrue(q', conn, en.rec)
    BY <2>2 DEF StillTrue, RowSteps, n
  <2> QED
    BY <1>0, <1>1, <2>2, <2>3, <2>4, QueryStep
<1>3. CASE ReadPage
  <2>0. q.step = "page"
    BY <1>3 DEF ReadPage, Reading
  <2>1. Answer(<<[total |-> q.total, items |-> Listed(q.req, conn, en.rec, q.h)]>>)
    BY <1>3 DEF ReadPage
  <2>2. ASSUME ~q.moved, q.req.kind \in HistoryKinds
        PROVE  OneRead(q.req, conn, en.rec, q.h)
                 = <<[total |-> q.total, items |-> Listed(q.req, conn, en.rec, q.h)]>>
    <3>1. q.total = Cardinality(Selected(q.req, conn, en.rec, q.h))
      BY <1>1, <2>0, <2>2 DEF StillTrue
    <3> QED
      BY <1>1, <3>1 DEF OneRead, PagedKinds, SingleKinds
  <2> QED
    BY <1>0, <1>1, <2>1, <2>2, AnswerOK
<1> QED
  BY <1>2, <1>3

LEMMA SingleOK ==
    ASSUME QueryOK(q, conn, en.rec), ReadSingle
    PROVE  QueryOK(q', conn, en.rec)
<1> DEFINE x == Looked(q.req, conn, en.rec, q.h)
<1>0. q.step = "single"
  BY DEF ReadSingle, Reading
<1>1. q.h \in Heights /\ q.req.kind \in SingleKinds
  BY <1>0 DEF QueryOK, HeightSteps, StepOf
<1>2. CASE x = <<>> /\ EmptyCode(q.req.kind) # "none"
  <2>1. Fail(EmptyCode(q.req.kind))
    BY <1>2 DEF ReadSingle
  <2>2. q.req.kind \in {"energy", "balance"}
    BY <1>1, <1>2 DEF EmptyCode, SingleKinds
  <2>3. CASE q.req.kind = "energy"
    <3>1. Fail("ENERGY_NOT_FOUND")
      BY <2>1, <2>3 DEF EmptyCode
    <3> QED
      BY <1>0, <3>1, FailOK
  <2>4. CASE q.req.kind = "balance"
    <3>1. Fail("NO_RECORD")
      BY <2>1, <2>4 DEF EmptyCode
    <3>2. x = IF conn.settled[q.h] = NoSnapshot THEN <<>> ELSE <<conn.settled[q.h]>>
      BY <2>4 DEF Looked
    <3> HIDE DEF x
    <3>3. PICK s : s = conn.settled[q.h]
      OBVIOUS
    <3>4. <<s>> # <<>>
      OBVIOUS
    <3>5. conn.settled[q.h] = NoSnapshot
      BY <1>2, <3>2, <3>3, <3>4
    <3> QED
      BY <1>0, <1>1, <3>1, <3>5, FailOK
  <2> QED
    BY <2>2, <2>3, <2>4
<1>3. CASE ~(x = <<>> /\ EmptyCode(q.req.kind) # "none")
  <2>1. Answer(x)
    BY <1>3 DEF ReadSingle
  <2>2. OneRead(q.req, conn, en.rec, q.h) = x
    BY <1>1 DEF OneRead, PagedKinds, SingleKinds
  <2> HIDE DEF x
  <2> QED
    BY <1>0, <1>1, <2>1, <2>2, AnswerOK
<1> QED
  BY <1>2, <1>3

LEMMA DataOK ==
    ASSUME IInv, QueryOK(q, conn, en.rec), Data
    PROVE  QueryOK(q', conn, en.rec)
<1>1. CASE CountRows \/ ReadPage
  BY <1>1, PagesOK
<1>2. CASE ReadSingle
  BY <1>2, SingleOK
<1>3. CASE ReadLatestBalance
  <2>1. q.step = "latest_balance" /\ \E x : Answer(x)
    BY <1>3 DEF ReadLatestBalance, Reading
  <2>2. q.req.kind = "latest_balance"
    BY <2>1 DEF QueryOK, StepOf
  <2> QED
    BY <2>1, <2>2, AnswerOK DEF HistoryKinds
<1>4. CASE ReadOwnerActive
  BY <1>4, OwnerActiveOK
<1>5. CASE ReadPassRow \/ ReadPassHistory
  BY <1>5, PassRowsOK
<1> QED
  BY <1>1, <1>2, <1>3, <1>4, <1>5 DEF Data

LEMMA BoardSame ==
    ASSUME QueryOK(q, conn, en.rec), q.step \in BoardSteps, q'.step \in BoardSteps,
           DOMAIN q' = QueryFields, q'.req = q.req, q'.h = q.h, q'.moved = q.moved
    PROVE  QueryOK(q', conn, en.rec)
<1>1. q.step # "idle" /\ q.req.kind = "leaderboard" /\ q.step \in HeightSteps
  BY DEF QueryOK, StepOf, BoardSteps, HeightSteps
<1>2. StepOf(q'.step, q.req.kind) /\ q'.step \notin {"page", "done"} \cup RowSteps
  BY <1>1 DEF StepOf, GateSteps, RefSteps, PageSteps, RowSteps, BoardSteps
<1> QED
  BY <1>1, <1>2, GotoOK

LEMMA LeaderboardOK ==
    ASSUME QueryOK(q, conn, en.rec), Leaderboard
    PROVE  QueryOK(q', conn, en.rec)
<1>0. q.step \in BoardSteps /\ q.step # "idle" /\ DOMAIN q = QueryFields
  BY DEF Leaderboard, ReadCache, CountBoard, ReadBoardRows, ReadBoardEnergy, RankBoard, Reading,
         BoardSteps, QueryOK
<1>1. q.req.kind = "leaderboard" /\ q.req.kind \notin HistoryKinds
  BY <1>0 DEF QueryOK, StepOf, HistoryKinds
<1>2. CASE \E x : Answer(x)
  BY <1>0, <1>1, <1>2, AnswerOK
<1>3. CASE ReadCache
  <2>1. CASE \E x, stale : q' = [Idle EXCEPT !.req = q.req, !.step = "done", !.h = q.h,
                                              !.moved = q.moved, !.stale = stale, !.out = x]
    <3>1. /\ DOMAIN q' = QueryFields /\ q'.req = q.req /\ q'.h = q.h /\ q'.moved = q.moved
          /\ q'.step = "done" /\ q'.err = "none"
      BY <2>1 DEF Idle, QueryFields
    <3>2. StillTrue(q', conn, en.rec)
      BY <1>1, <3>1 DEF StillTrue, RowSteps
    <3>3. q.h \in Heights \cup {NoHeight} /\ (~q.moved => q.h <= conn.synced)
      BY <1>0 DEF QueryOK
    <3> QED
      BY <1>0, <3>1, <3>2, <3>3, DoneIsAnyKind, QueryStep
  <2>2. CASE q' = [q EXCEPT !.step = "board_count"]
    <3>1. /\ DOMAIN q' = QueryFields /\ q'.req = q.req /\ q'.h = q.h /\ q'.moved = q.moved
          /\ q'.step = "board_count"
      BY <1>0, <2>2 DEF QueryFields
    <3> QED
      BY <1>0, <3>1, BoardSame DEF BoardSteps
  <2> QED
    BY <1>2, <1>3, <2>1, <2>2 DEF ReadCache, Goto
<1>4. CASE CountBoard
  <2>1. PICK n : q' = [q EXCEPT !.total = n, !.step = "board_rows"]
    BY <1>4 DEF CountBoard
  <2>2. /\ DOMAIN q' = QueryFields /\ q'.req = q.req /\ q'.h = q.h /\ q'.moved = q.moved
        /\ q'.step = "board_rows"
    BY <1>0, <2>1 DEF QueryFields
  <2> QED
    BY <1>0, <2>2, BoardSame DEF BoardSteps
<1>5. CASE ReadBoardRows
  <2>1. CASE \E x : q' = [q EXCEPT !.step = "board_energy", !.total = 0, !.loaded = 0, !.got = x]
    <3>1. /\ DOMAIN q' = QueryFields /\ q'.req = q.req /\ q'.h = q.h /\ q'.moved = q.moved
          /\ q'.step = "board_energy"
      BY <1>0, <2>1 DEF QueryFields
    <3> QED
      BY <1>0, <3>1, BoardSame DEF BoardSteps
  <2>2. CASE \E x, n : q' = [q EXCEPT !.got = x, !.loaded = n]
    <3>1. /\ DOMAIN q' = QueryFields /\ q'.req = q.req /\ q'.h = q.h /\ q'.moved = q.moved
          /\ q'.step = q.step
      BY <1>0, <2>2 DEF QueryFields
    <3> QED
      BY <1>0, <3>1, BoardSame
  <2> QED
    BY <1>5, <2>1, <2>2 DEF ReadBoardRows
<1>6. CASE ReadBoardEnergy
  <2>1. PICK n, i, x : q' = [q EXCEPT !.loaded = n, !.got[i].rec = x]
    BY <1>6 DEF ReadBoardEnergy
  <2>2. /\ DOMAIN q' = QueryFields /\ q'.req = q.req /\ q'.h = q.h /\ q'.moved = q.moved
        /\ q'.step = q.step
    BY <1>0, <2>1 DEF QueryFields
  <2> QED
    BY <1>0, <2>2, BoardSame
<1>7. CASE RankBoard
  BY <1>2, <1>7 DEF RankBoard
<1> QED
  BY <1>3, <1>4, <1>5, <1>6, <1>7 DEF Leaderboard

-----------------------------------------------------------------------------
(* The composition *)

\* A step of the sync task leaves what the query has read true, or marks the query.
LEMMA OvertakenOK ==
    ASSUME IInv, IInv', QueryOK(q, conn, en.rec), [Next]_vars, Overtaken
    PROVE  QueryOK(q', conn', en'.rec)
<1>0. conn' \in Stores /\ conn.synced \in Nat /\ conn'.synced \in Nat
  BY TipFacts, HeightFacts DEF IInv, TypeOK
<1>1. CASE q' = Idle
  BY <1>0, <1>1, IdleOK
<1>2. CASE q' = [q EXCEPT !.moved = TRUE]
  <2>1. /\ DOMAIN q' = QueryFields /\ q'.req = q.req /\ q'.h = q.h /\ q'.moved = TRUE
        /\ q'.step = q.step
    BY <1>2 DEF QueryOK, QueryFields
  <2> QED
    BY <2>1 DEF QueryOK
<1>3. CASE q' = q /\ (TakenBack => q.step = "idle")
  <2>0. /\ DOMAIN q = QueryFields /\ q.h \in Heights \cup {NoHeight}
        /\ (q.step # "idle" => q.req \in Requests) /\ StepOf(q.step, q.req.kind)
        /\ (q.step \in HeightSteps => q.h \in Heights)
        /\ (~q.moved /\ q.step # "idle" => q.h <= conn.synced /\ StillTrue(q, conn, en.rec))
    BY DEF QueryOK
  <2>1. SUFFICES ASSUME ~q.moved, q.step # "idle"
                 PROVE  q.h <= conn'.synced /\ StillTrue(q, conn', en'.rec)
    BY <1>3, <2>0 DEF QueryOK
  <2>2. ~TakenBack
    BY <1>3, <2>1
  <2>3. SameUpTo(conn', conn, conn.synced)
    BY <2>2, SyncedBlocksStay
  <2>4. q.h <= conn'.synced
    BY <1>0, <2>0, <2>1, <2>2, HeightFacts DEF TakenBack
  <2>5. ASSUME q.h \in Heights PROVE SameUpTo(conn', conn, q.h)
    <3>1. \A k \in Heights : k <= q.h => k <= conn.synced
      BY <1>0, <2>0, <2>1, <2>5, HeightFacts
    <3> QED
      BY <2>3, <3>1 DEF SameUpTo
  <2>6. StillTrue(q, conn, en.rec)
    BY <2>0, <2>1
  <2>7. ASSUME q.step = "page", q.req.kind \in HistoryKinds
        PROVE  q.total = Cardinality(Selected(q.req, conn', en'.rec, q.h))
    <3>1. q.h \in Heights /\ q.req \in Requests /\ q.req.kind \in PagedKinds
      BY <2>0, <2>7 DEF HeightSteps, PageSteps, StepOf
    <3>2. q.req.kind \in {"active", "owner_passes", "history"}
      BY <2>7, <3>1 DEF HistoryKinds, PagedKinds
    <3>3. Selected(q.req, conn', en'.rec, q.h) = Selected(q.req, conn, en.rec, q.h)
      BY <2>5, <3>1, <3>2, SamePages
    <3> QED
      BY <2>6, <2>7, <3>3 DEF StillTrue
  <2>8. ASSUME q.step \in RowSteps, q.req.kind = "owner_active"
        PROVE  OwnerActive(conn', q.req.owner, q.h) = {q.got[1]}
    <3>1. q.h \in Heights
      BY <2>0, <2>8 DEF HeightSteps
    <3>2. OwnerActive(conn', q.req.owner, q.h) = OwnerActive(conn, q.req.owner, q.h)
      BY <2>5, <3>1, SameOwnerActive
    <3> QED
      BY <2>6, <2>8, <3>2 DEF StillTrue
  <2>9. ASSUME q.step = "done", q.err = "none", q.req.kind \in HistoryKinds
        PROVE  q.h \in Heights /\ q.out = OneRead(q.req, conn', en'.rec, q.h)
    <3>1. q.h \in Heights /\ q.req \in Requests /\ q.out = OneRead(q.req, conn, en.rec, q.h)
      BY <2>0, <2>6, <2>9 DEF StillTrue
    <3>2. OneRead(q.req, conn', en'.rec, q.h) = OneRead(q.req, conn, en.rec, q.h)
      BY <2>5, <2>9, <3>1, SameAnswer
    <3> QED
      BY <3>1, <3>2
  <2>10. ASSUME q.step = "done", q.err = "NO_RECORD"
        PROVE  q.h \in Heights /\ conn'.settled[q.h] = NoSnapshot
    <3>1. q.h \in Heights /\ conn.settled[q.h] = NoSnapshot
      BY <2>6, <2>10 DEF StillTrue
    <3>2. conn'.settled[q.h] = conn.settled[q.h]
      BY <2>5, <3>1, HeightFacts DEF SameUpTo
    <3> QED
      BY <3>1, <3>2
  <2>11. q.step = "done" => q.err \notin {"INTERNAL_INVARIANT_BROKEN", "DUPLICATE_ACTIVE_OWNER"}
    BY <2>6 DEF StillTrue
  <2>12. StillTrue(q, conn', en'.rec)
    BY <2>7, <2>8, <2>9, <2>10, <2>11 DEF StillTrue
  <2> QED
    BY <2>4, <2>12
<1> QED
  BY <1>1, <1>2, <1>3 DEF Overtaken

\* The handlers write nothing that the sync task reads.
LEMMA HandlersRead ==
    ASSUME ServiceStep
    PROVE  UNCHANGED vars
<1>1. CASE StartQuery
  BY <1>1 DEF StartQuery, Accept, get_readiness, get_system_state_info, get_state_ref_at_height,
      get_pass_block_commit, get_pass_snapshot, get_pass_history, get_pass_stats_at_height,
      get_active_passes_at_height, get_owner_active_pass_at_height, get_owner_passes_at_height,
      get_recent_passes, get_invalid_passes, get_energy_snapshot, get_pass_energy_range,
      get_pass_energy_leaderboard, get_active_balance_snapshot, get_latest_active_balance_snapshot
<1>2. CASE Gate
  BY <1>2 DEF Gate, ReadStatus, ReadRuntime, ReadGateHeight, ReadGatePending, ReadAnchor, ReadAnchorHash,
              ReadAnchorCommit, ReadAnchorRest, ReadHeight, ReadCommit, ReadConsistent, ReadSettled
<1>3. CASE StateRef
  BY <1>3 DEF StateRef, Resolve, ReadRefAnchor, ReadRefCommit, ReadRefSettled
<1>4. CASE Data
  BY <1>4 DEF Data, CountRows, ReadPage, ReadSingle, ReadLatestBalance, ReadOwnerActive, ReadPassRow,
              ReadPassHistory
<1>5. CASE Leaderboard
  BY <1>5 DEF Leaderboard, ReadCache, CountBoard, ReadBoardRows, ReadBoardEnergy, RankBoard
<1>6. CASE FinishQuery \/ Stop
  BY <1>6 DEF FinishQuery, Stop
<1> QED
  BY <1>1, <1>2, <1>3, <1>4, <1>5, <1>6 DEF ServiceStep

LEMMA HandlersOK ==
    ASSUME IInv, QueryOK(q, conn, en.rec), ServiceStep
    PROVE  QueryOK(q', conn', en'.rec)
<1>0. conn' = conn /\ en' = en /\ conn \in Stores
  BY HandlersRead DEF vars, IInv, TypeOK
<1>1. QueryOK(q', conn, en.rec)
  <2>1. CASE StartQuery
    <3>1. PICK kind : Accept(kind)
      BY <2>1 DEF StartQuery, get_readiness, get_system_state_info, get_state_ref_at_height,
          get_pass_block_commit, get_pass_snapshot, get_pass_history, get_pass_stats_at_height,
          get_active_passes_at_height, get_owner_active_pass_at_height, get_owner_passes_at_height,
          get_recent_passes, get_invalid_passes, get_energy_snapshot, get_pass_energy_range,
          get_pass_energy_leaderboard, get_active_balance_snapshot, get_latest_active_balance_snapshot
    <3> QED
      BY <1>0, <3>1, AcceptOK
  <2>2. CASE Gate
    BY <2>2, GateOK
  <2>3. CASE StateRef
    BY <1>0, <2>3, StateRefOK
  <2>4. CASE Data
    BY <2>4, DataOK
  <2>5. CASE Leaderboard
    BY <2>5, LeaderboardOK
  <2>6. CASE FinishQuery
    BY <1>0, <2>6, IdleOK DEF FinishQuery
  <2>7. CASE Stop
    BY <2>7 DEF Stop
  <2> QED
    BY <2>1, <2>2, <2>3, <2>4, <2>5, <2>6, <2>7 DEF ServiceStep
<1> QED
  BY <1>0, <1>1

-----------------------------------------------------------------------------
(* The theorems *)

(***************************************************************************)
(* The service only reads: whatever the handlers do, and whenever, the     *)
(* sync task behaves as it does alone, so every theorem about it holds of  *)
(* the process in which the RPC server runs on the same stores.            *)
(***************************************************************************)
THEOREM ServiceOnlyReads == ServiceSpec => Spec
<1>1. ServiceInit => Init
  BY DEF ServiceInit
<1>2. [ServiceNext]_allVars => [Next]_vars
  <2>1. CASE IndexerStep
    BY <2>1 DEF IndexerStep
  <2>2. CASE ServiceStep
    BY <2>2, HandlersRead
  <2>3. CASE UNCHANGED allVars
    BY <2>3 DEF allVars
  <2> QED
    BY <2>1, <2>2, <2>3 DEF ServiceNext
<1> QED
  BY <1>1, <1>2, PTL DEF ServiceSpec, Spec

\* The inductive invariant: that of the sync task, and the query in progress.
ServiceInv == IInv /\ QueryOK(q, conn, en.rec)

LEMMA ServiceInvHolds == ServiceSpec => []ServiceInv
<1>1. ServiceInit /\ IInv => ServiceInv
  <2> SUFFICES ASSUME ServiceInit, IInv PROVE ServiceInv
    OBVIOUS
  <2>1. conn \in Stores
    BY DEF IInv, TypeOK
  <2> QED
    BY <2>1, IdleOK DEF ServiceInit, ServiceInv
<1>2. IInv' /\ ServiceInv /\ [ServiceNext]_allVars => ServiceInv'
  <2> SUFFICES ASSUME IInv, IInv', QueryOK(q, conn, en.rec), [ServiceNext]_allVars
               PROVE  QueryOK(q', conn', en'.rec)
    BY DEF ServiceInv
  <2>1. CASE IndexerStep
    BY <2>1, OvertakenOK DEF IndexerStep
  <2>2. CASE ServiceStep
    BY <2>2, HandlersOK
  <2>3. CASE UNCHANGED allVars
    BY <2>3 DEF allVars, vars, serviceVars
  <2> QED
    BY <2>1, <2>2, <2>3 DEF ServiceNext
<1> QED
  BY <1>1, <1>2, Inductive, ServiceOnlyReads, PTL DEF ServiceSpec

(***************************************************************************)
(* No answer reports a broken store: get_owner_active_pass_at_height never *)
(* meets two active passes of an owner, and never an active pass whose     *)
(* static or history row is missing, even in the middle of a block, unless *)
(* blocks were taken back while it read.                                   *)
(***************************************************************************)
THEOREM NoneReportedBroken == ServiceSpec => []NoBrokenInvariantReported
<1>1. ServiceInv => NoBrokenInvariantReported
  BY DEF ServiceInv, QueryOK, StillTrue, NoBrokenInvariantReported
<1> QED
  BY <1>1, ServiceInvHolds, PTL

(***************************************************************************)
(* Every answer of the history queries is the answer of one state of the   *)
(* store, although the handler counts, pages and looks rows up in separate *)
(* statements with the sync task writing between them.                     *)
(***************************************************************************)
THEOREM AnswersAreRead == ServiceSpec => []AnswersAreOneRead
<1>1. ServiceInv => AnswersAreOneRead
  BY DEF ServiceInv, QueryOK, StillTrue, AnswersAreOneRead
<1> QED
  BY <1>1, ServiceInvHolds, PTL

=============================================================================
