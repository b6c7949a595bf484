-------------------------- MODULE UsdbIndexerService --------------------------
(***************************************************************************)
(* The JSON-RPC service of usdb-indexer (service/server.rs) composed with  *)
(* the sync task of InscriptionIndexer.  The handlers run on threads of    *)
(* their own and read the same SQLite connection, the same RocksDB and the *)
(* same in-memory status as the task, one statement at a time: the         *)
(* connection's mutex is released between two reads, there is no read      *)
(* transaction, and what an open savepoint has written is visible.         *)
(*                                                                         *)
(* One query is in progress at a time (queries do not change what other    *)
(* queries read, except through the leaderboard cache); q is its program   *)
(* counter and locals.  A step is one read of a store.                     *)
(*                                                                         *)
(* Parsing of ids, addresses and orders and the diagnostic payload of      *)
(* errors are left out.  Ids of history rows grow with height and, within  *)
(* a block, follow PassOrder, which is also the order of inscription       *)
(* numbers.                                                                *)
(***************************************************************************)
EXTENDS InscriptionIndexer, SequencesExt

CONSTANTS
    Requests,        \* the queries of the run
    PassOrder,       \* the passes in the order of their inscription numbers
    MaxPageSize,     \* MAX_RPC_PAGE_SIZE
    TopK,            \* usdb.pass_energy_leaderboard_cache_top_k
    LoadPageSize,    \* usdb.active_address_page_size
    Version,         \* the protocol versions this build reports
    ReaderWindow     \* the pcs of the sync task at which a handler may read

\* Genesis lies above height 1, so that a synced height of 0 means there is none.
ASSUME ServiceAssumption ==
    /\ Genesis > 1
    /\ Range(PassOrder) = Passes
    /\ TopK \in Nat \ {0}
    /\ LoadPageSize \in Nat \ {0}

RequestKinds == {"readiness", "current", "state_ref", "commit", "snapshot", "history", "stats",
                 "active", "owner_active", "owner_passes", "recent", "invalid", "energy",
                 "energy_range", "leaderboard", "balance", "latest_balance"}

\* What the parameter types of the methods allow: heights are unsigned (0 where none
\* is given), and get_latest_active_balance_snapshot takes no parameters.
ASSUME RequestAssumption ==
    \A r \in Requests : /\ r.kind \in RequestKinds
                        /\ r.pass \in Passes
                        /\ r.at \in Nat /\ r.from \in Nat /\ r.ctxAt \in Nat /\ r.ctx \in BOOLEAN
                        /\ r.kind = "latest_balance" => ~r.ctx

VARIABLES
    q,               \* the query in progress
    cache,           \* PassEnergyLeaderboardCache.latest, as a sequence of at most one entry
    shutdown         \* RuntimeReadinessStatus.shutdown_requested

serviceVars == <<q, cache, shutdown>>
allVars     == <<vars, serviceVars>>

NoGate == [up |-> 0, flag |-> FALSE, shutdown |-> FALSE, synced |-> 0, pending |-> FALSE]

\* The rows of the balance-history anchor of chain c: its height, block hash and block
\* commit (the stable lag, commit version and hash algorithm are the same for every
\* anchor of a build).  The empty chain stands for no rows.
AnchorOf(c) == [height |-> Len(c), hash |-> c, commit |-> c]

NoAnchor == AnchorOf(<<>>)

NoRef == [h |-> NoHeight, snap |-> NoAnchor, commit |-> NoCommit, settled |-> NoSnapshot]

Idle == [req |-> [kind |-> "none"], step |-> "idle", gate |-> NoGate, ref |-> NoRef,
         h |-> NoHeight, total |-> 0, loaded |-> 0, got |-> <<>>, err |-> "none", out |-> <<>>,
         moved |-> FALSE, stale |-> FALSE]

ServiceInit == Init /\ q = Idle /\ cache = <<>> /\ shutdown = FALSE

-----------------------------------------------------------------------------
(* What the statements return, from the tables and the energy records *)

Number(p) == CHOOSE i \in DOMAIN PassOrder : PassOrder[i] = p

LatestHeight(db, p, h) == Max(HistHeights(db.hist, p, h))

\* Mutant: the newest row of each pass, whatever its height.
Latest_unbounded(db, h, states) ==
    {p \in Passes : /\ HistHeights(db.hist, p, MaxHeight) # {}
                    /\ states = {} \/ RowAt(db.hist, p, MaxHeight).state \in states}

\* The passes with a row at or below h, whose latest row satisfies the filter.
\* An empty set of states means no filter.
Latest(db, h, states) ==
    {p \in Passes : /\ HistHeights(db.hist, p, h) # {}
                    /\ states = {} \/ RowAt(db.hist, p, h).state \in states}

\* The two orders of the pages of passes: by the height and id of the latest row,
\* and by mint height and inscription number.
EventKey(db, h) == [p \in Passes |->
    IF HistHeights(db.hist, p, h) = {} THEN 0
    ELSE LatestHeight(db, p, h) * Cardinality(Passes) + Number(p)]

MintKey(db) == [p \in Passes |->
    IF db.passes[p] = NoRow THEN 0 ELSE db.passes[p].mint * Cardinality(Passes) + Number(p)]

Descending(S, key) == SetToSortSeq(S, LAMBDA x, y : key[x] > key[y])

\* LIMIT size OFFSET page * size
PageOf(s, page, size) == SubSeq(s, page * size + 1, MinOf((page + 1) * size, Len(s)))

\* One page of S, as the request orders and cuts it.
PageBy(S, key, r) ==
    PageOf(IF r.desc THEN Descending(S, key) ELSE Reverse(Descending(S, key)), r.page, r.size)

\* The columns a pass is shown with.
Item(db, p, h) == [pass |-> p, row |-> RowAt(db.hist, p, h), at |-> LatestHeight(db, p, h)]

Items(db, ps, h) ==
    LET shown == [p \in Passes |-> Item(db, p, h)] IN [i \in DOMAIN ps |-> shown[ps[i]]]

\* What the statements of a paged query count, and the page they return: passes,
\* or the heights of rows.
active_passes(db, r, h) == Latest(db, h, {"active"})

active_passes_page(db, r, h) ==
    Items(db, PageBy(active_passes(db, r, h), EventKey(db, h), [r EXCEPT !.desc = TRUE]), h)

owner_passes(db, r, h) == {p \in Latest(db, h, r.states) : RowAt(db.hist, p, h).owner = r.owner}

owner_passes_page(db, r, h) == Items(db, PageBy(owner_passes(db, r, h), EventKey(db, h), r), h)

\* The pages of recent passes join miner_passes, so a pass needs both rows.
recent_passes(db, r, h) == {p \in Latest(db, h, r.states) : db.passes[p] # NoRow}

recent_passes_page(db, r, h) == Items(db, PageBy(recent_passes(db, r, h), MintKey(db), r), h)

\* Invalid passes come from the current table, by mint height.
invalid_passes(db, r, h) ==
    {p \in Passes : db.passes[p].state = "invalid" /\ db.passes[p].mint \in r.from..h}

invalid_passes_page(db, r, h) ==
    PageBy(invalid_passes(db, r, h), MintKey(db), [r EXCEPT !.desc = TRUE])

pass_history(db, r, h) == {k \in r.from..h : db.hist[r.pass][k] # NoRow}

pass_history_page(db, r, h) ==
    LET ks   == PageBy(pass_history(db, r, h), [k \in Heights |-> k], r)
        rows == [k \in r.from..h |-> db.hist[r.pass][k]]
    IN  [i \in DOMAIN ks |-> rows[ks[i]]]

energy_range(rec, r, h) == {k \in r.from..h : rec[r.pass][k] # NoRecord}

energy_range_page(rec, r, h) ==
    LET ks == PageBy(energy_range(rec, r, h), [k \in Heights |-> k], r)
    IN  [i \in DOMAIN ks |-> rec[r.pass][ks[i]]]

Selected(r, db, rec, h) ==
    CASE r.kind = "active"       -> active_passes(db, r, h)
      [] r.kind = "owner_passes" -> owner_passes(db, r, h)
      [] r.kind = "recent"       -> recent_passes(db, r, h)
      [] r.kind = "invalid"      -> invalid_passes(db, r, h)
      [] r.kind = "history"      -> pass_history(db, r, h)
      [] r.kind = "energy_range" -> energy_range(rec, r, h)

Listed(r, db, rec, h) ==
    CASE r.kind = "active"       -> active_passes_page(db, r, h)
      [] r.kind = "owner_passes" -> owner_passes_page(db, r, h)
      [] r.kind = "recent"       -> recent_passes_page(db, r, h)
      [] r.kind = "invalid"      -> invalid_passes_page(db, r, h)
      [] r.kind = "history"      -> pass_history_page(db, r, h)
      [] r.kind = "energy_range" -> energy_range_page(rec, r, h)

get_pass_stats(db, h) == [s \in States |-> Cardinality(Latest(db, h, {s}))]

\* The record at or before h, projected to h without a balance change; or the
\* exact record.
get_energy_at(rec, p, h) ==
    IF RecordHeights(rec, p, h) = {} THEN <<>>
    ELSE <<[at |-> Max(RecordHeights(rec, p, h)), state |-> LastRecord(rec, p, h).state,
            energy |-> get_pass_energy(rec, p, h)]>>

get_energy_exact(rec, p, h) == IF rec[p][h] = NoRecord THEN <<>> ELSE <<rec[p][h]>>

\* Mutant: the commit of the height itself is not considered.
CommitHeights_before(db, h) == {k \in Heights : k < h /\ db.commits[k] # NoCommit}

\* The latest block commit at or before h.
CommitHeights(db, h) == {k \in Heights : k <= h /\ db.commits[k] # NoCommit}

get_latest_commit(db, h) ==
    IF CommitHeights(db, h) = {} THEN NoCommit ELSE db.commits[Max(CommitHeights(db, h))]

\* The rows of meta state: the synced height, the adopted anchor and its history.
get_synced_btc_block_height(db) == db.synced

get_balance_history_snapshot_anchor(db) == AnchorOf(db.anchor)

get_balance_history_snapshot_anchor_at_height(db, h) == AnchorOf(db.anchors[h])

\* A single-statement query; an empty answer is <<>>.
Looked(r, db, rec, h) ==
    CASE r.kind = "stats"   -> <<get_pass_stats(db, h)>>
      [] r.kind = "energy"  -> IF r.exact THEN get_energy_exact(rec, r.pass, h)
                               ELSE get_energy_at(rec, r.pass, h)
      [] r.kind = "commit"  -> IF db.commits[h] = NoCommit THEN <<>> ELSE <<db.commits[h]>>
      [] r.kind = "balance" -> IF db.settled[h] = NoSnapshot THEN <<>> ELSE <<db.settled[h]>>

PagedKinds    == {"active", "owner_passes", "recent", "invalid", "history", "energy_range"}
RangeKinds    == {"invalid", "history", "energy_range"}
SingleKinds   == {"stats", "energy", "commit", "balance"}
RetainedKinds == {"energy", "snapshot"}
GatedKinds    == {"readiness", "state_ref"}

\* What an empty single answer is reported as.
EmptyCode(kind) == CASE kind = "energy"  -> "ENERGY_NOT_FOUND"
                     [] kind = "balance" -> "NO_RECORD"
                     [] kind \in {"stats", "commit"} -> "none"

-----------------------------------------------------------------------------
(* Queries begin and end *)

Fail(code) == q' = [Idle EXCEPT !.req = q.req, !.step = "done", !.h = q.h, !.err = code,
                                !.moved = q.moved]

Answer(x) == q' = [Idle EXCEPT !.req = q.req, !.step = "done", !.h = q.h, !.out = x,
                               !.moved = q.moved]

Goto(step) == q' = [q EXCEPT !.step = step]

Reading(step) == q.step = step /\ pc \in ReaderWindow

\* validate_pagination, and the height a context names against that of the query.
BadParams(r) ==
    IF r.kind \in PagedKinds \cup {"leaderboard"} /\ r.size \notin 1..MaxPageSize
    THEN "INVALID_PAGINATION"
    ELSE IF r.ctx /\ r.ctxAt \notin {r.at, 0} /\ r.at # 0 THEN "INVALID_PARAMS" ELSE "none"

\* Contextual queries pass the readiness gate first.
FirstStep(r) == IF r.kind \in GatedKinds \/ r.ctx THEN "gate_status"
                ELSE IF r.kind = "current" THEN "anchor"
                ELSE IF r.kind = "latest_balance" THEN "latest_balance" ELSE "resolve"

Accept(kind) ==
    /\ q.step = "idle"
    /\ pc \in ReaderWindow
    /\ \E r \in {x \in Requests : x.kind = kind} :
          q' = IF BadParams(r) # "none" THEN [Idle EXCEPT !.req = r, !.step = "done", !.err = BadParams(r)]
               ELSE [Idle EXCEPT !.req = r, !.step = FirstStep(r)]
    /\ UNCHANGED <<vars, cache, shutdown>>

\* The methods of the service.
get_readiness                      == Accept("readiness")
get_system_state_info              == Accept("current")
get_state_ref_at_height            == Accept("state_ref")
get_pass_block_commit              == Accept("commit")
get_pass_snapshot                  == Accept("snapshot")
get_pass_history                   == Accept("history")
get_pass_stats_at_height           == Accept("stats")
get_active_passes_at_height        == Accept("active")
get_owner_active_pass_at_height    == Accept("owner_active")
get_owner_passes_at_height         == Accept("owner_passes")
get_recent_passes                  == Accept("recent")
get_invalid_passes                 == Accept("invalid")
get_energy_snapshot                == Accept("energy")
get_pass_energy_range              == Accept("energy_range")
get_pass_energy_leaderboard        == Accept("leaderboard")
get_active_balance_snapshot        == Accept("balance")
get_latest_active_balance_snapshot == Accept("latest_balance")

StartQuery ==
    \/ get_readiness \/ get_system_state_info \/ get_state_ref_at_height \/ get_pass_block_commit
    \/ get_pass_snapshot \/ get_pass_history \/ get_pass_stats_at_height
    \/ get_active_passes_at_height \/ get_owner_active_pass_at_height
    \/ get_owner_passes_at_height \/ get_recent_passes \/ get_invalid_passes
    \/ get_energy_snapshot \/ get_pass_energy_range \/ get_pass_energy_leaderboard
    \/ get_active_balance_snapshot \/ get_latest_active_balance_snapshot

FinishQuery ==
    /\ q.step = "done"
    /\ q' = Idle
    /\ UNCHANGED <<vars, cache, shutdown>>

\* The stop RPC; the listener closes half a second later.
Stop ==
    /\ ~shutdown
    /\ pc \in ReaderWindow
    /\ shutdown' = TRUE
    /\ UNCHANGED <<vars, q, cache>>

-----------------------------------------------------------------------------
(* readiness_info, also the gate of contextual queries *)

\* The status snapshot, the runtime flags, the synced height, the durable marker.
ReadStatus ==
    /\ Reading("gate_status")
    /\ q' = [q EXCEPT !.step = "gate_runtime", !.gate.up = Len(status)]
    /\ UNCHANGED <<vars, cache, shutdown>>

ReadRuntime ==
    /\ Reading("gate_runtime")
    /\ q' = [q EXCEPT !.step = "gate_height", !.gate.flag = flag, !.gate.shutdown = shutdown]
    /\ UNCHANGED <<vars, cache, shutdown>>

ReadGateHeight ==
    /\ Reading("gate_height")
    /\ q' = [q EXCEPT !.step = "gate_pending", !.gate.synced = get_synced_btc_block_height(conn)]
    /\ UNCHANGED <<vars, cache, shutdown>>

ReadGatePending ==
    /\ Reading("gate_pending")
    /\ q' = [q EXCEPT !.step = "anchor", !.gate.pending = (conn.pending # NoHeight)]
    /\ UNCHANGED <<vars, cache, shutdown>>

QueryReady(g, alive) == alive /\ ~g.shutdown /\ ~g.flag /\ ~g.pending /\ g.synced # 0

\* consensus_ready is the absence of blockers: rpc_alive (alive), the upstream's own
\* readiness (upReady) and what was read of the node.
ConsensusReady(g, alive, upReady, ref) ==
    /\ QueryReady(g, alive)
    /\ g.synced >= g.up
    /\ upReady
    /\ ref.snap # NoAnchor
    /\ ref.snap.height = g.synced
    /\ ref.h # NoHeight

require_system_state_info(ref) ==
    IF ref.snap = NoAnchor THEN Fail("SNAPSHOT_NOT_READY")
    ELSE IF ref.h = NoHeight THEN Fail("INTERNAL_ERROR")
    ELSE Answer(<<ref>>)

\* With the state read (ref.h = NoHeight when it could not be built): a current-state
\* query needs the state, a readiness query answers, a contextual one needs the node to
\* be ready, or rpc_alive not to be set yet.  The listener answers before it sets
\* rpc_alive, and the upstream's readiness is the last answer of the poller: the two
\* may have any value when they are read, and nothing depends on it before this point.
Decide(ref) ==
    IF q.req.kind = "current" THEN require_system_state_info(ref)
    ELSE \E alive, upReady \in BOOLEAN :
            LET ready == ConsensusReady(q.gate, alive, upReady, ref)
            IN  IF q.req.kind = "readiness"
                THEN Answer(<<[ready |-> ready, query |-> QueryReady(q.gate, alive),
                               synced |-> q.gate.synced, ref |-> ref]>>)
                ELSE IF ~alive \/ ready
                THEN q' = [q EXCEPT !.step = "resolve", !.gate = NoGate, !.ref = NoRef]
                ELSE Fail("SNAPSHOT_NOT_READY")

\* The rows of an anchor are written in one transaction and read one at a time: when
\* some are gone by then, a current-state query fails, and readiness counts no snapshot.
AnchorIncomplete == IF q.req.kind = "current" THEN Fail("INTERNAL_ERROR") ELSE Decide(NoRef)

\* get_balance_history_snapshot_anchor: the height, and no snapshot without one; then the
\* hash, the commit and the rest.
ReadAnchor ==
    /\ Reading("anchor")
    /\ LET anchor == get_balance_history_snapshot_anchor(conn)
       IN  IF anchor = NoAnchor THEN Decide(NoRef)
           ELSE q' = [q EXCEPT !.step = "anchor_hash", !.ref.snap.height = anchor.height]
    /\ UNCHANGED <<vars, cache, shutdown>>

ReadAnchorHash ==
    /\ Reading("anchor_hash")
    /\ LET anchor == get_balance_history_snapshot_anchor(conn)
       IN  IF anchor = NoAnchor THEN AnchorIncomplete
           ELSE q' = [q EXCEPT !.step = "anchor_commit", !.ref.snap.hash = anchor.hash]
    /\ UNCHANGED <<vars, cache, shutdown>>

ReadAnchorCommit ==
    /\ Reading("anchor_commit")
    /\ LET anchor == get_balance_history_snapshot_anchor(conn)
       IN  IF anchor = NoAnchor THEN AnchorIncomplete
           ELSE q' = [q EXCEPT !.step = "anchor_rest", !.ref.snap.commit = anchor.commit]
    /\ UNCHANGED <<vars, cache, shutdown>>

\* The lag, the version and the algorithm; they only have to be there.
ReadAnchorRest ==
    /\ Reading("anchor_rest")
    /\ IF get_balance_history_snapshot_anchor(conn) = NoAnchor THEN AnchorIncomplete
       ELSE Goto("height")
    /\ UNCHANGED <<vars, cache, shutdown>>

\* upstream_snapshot_info: the synced height again.
ReadHeight ==
    /\ Reading("height")
    /\ LET synced == get_synced_btc_block_height(conn)
       IN  q' = [q EXCEPT !.step = "commit",
                          !.ref.h = IF synced # 0 THEN synced ELSE q.ref.snap.height]
    /\ UNCHANGED <<vars, cache, shutdown>>

\* build_local_state_commit_info_from_snapshot: the latest commit, the consistency
\* of the balance snapshots, the snapshot of the height.
ReadCommit ==
    /\ Reading("commit")
    /\ q' = [q EXCEPT !.step = "consistent", !.ref.commit = get_latest_commit(conn, q.ref.h)]
    /\ UNCHANGED <<vars, cache, shutdown>>

ReadConsistent ==
    /\ Reading("consistent")
    /\ IF q.ref.h < Genesis THEN Decide(q.ref)
       ELSE IF ~SnapshotConsistent(conn, q.ref.h, Genesis) THEN Decide([q.ref EXCEPT !.h = NoHeight])
       ELSE Goto("settled")
    /\ UNCHANGED <<vars, cache, shutdown>>

ReadSettled ==
    /\ Reading("settled")
    /\ LET settled == conn.settled[q.ref.h]
       IN  IF settled = NoSnapshot THEN Decide([q.ref EXCEPT !.h = NoHeight])
           ELSE Decide([q.ref EXCEPT !.settled = settled])
    /\ UNCHANGED <<vars, cache, shutdown>>

-----------------------------------------------------------------------------
(* The height of the query, and the historical state it was asked for *)

RequestedHeight(r) == IF r.at # 0 THEN r.at ELSE IF r.ctx THEN r.ctxAt ELSE 0

\* The first read of the answer itself.
DataStep(kind) == CASE kind \in PagedKinds  -> "count"
                    [] kind \in SingleKinds -> "single"
                    [] kind = "snapshot"     -> "row"
                    [] kind = "owner_active" -> "owner"
                    [] kind = "leaderboard"  -> "cached"

\* resolve_height and its consensus twin: a height above the synced one is refused.
\* A range then needs its lower end below, pass and energy queries a retained height.
Resolve ==
    /\ Reading("resolve")
    /\ LET r == q.req
           h == IF RequestedHeight(r) # 0 THEN RequestedHeight(r) ELSE conn.synced
       IN  IF conn.synced = 0 \/ h > conn.synced THEN Fail("HEIGHT_NOT_SYNCED")
           ELSE IF r.kind \in RangeKinds /\ r.from > h THEN Fail("INVALID_HEIGHT_RANGE")
           ELSE IF r.kind = "state_ref" \/ r.want # {}
           THEN q' = [q EXCEPT !.h = h, !.step = "ref_anchor"]
           ELSE IF r.kind \in RetainedKinds /\ h < Genesis THEN Fail("STATE_NOT_RETAINED")
           ELSE q' = [q EXCEPT !.h = h, !.step = DataStep(r.kind)]
    /\ UNCHANGED <<vars, cache, shutdown>>

\* build_historical_state_ref_info: the snapshot history at the height.
ReadRefAnchor ==
    /\ Reading("ref_anchor")
    /\ IF q.h < Genesis THEN Fail("STATE_NOT_RETAINED")
       ELSE LET anchor == get_balance_history_snapshot_anchor_at_height(conn, q.h)
            IN  IF anchor = NoAnchor THEN Fail("HISTORY_NOT_AVAILABLE")
                ELSE q' = [q EXCEPT !.step = "ref_commit",
                                    !.ref = [NoRef EXCEPT !.h = q.h, !.snap = anchor]]
    /\ UNCHANGED <<vars, cache, shutdown>>

ReadRefCommit ==
    /\ Reading("ref_commit")
    /\ q' = [q EXCEPT !.step = "ref_settled", !.ref.commit = get_latest_commit(conn, q.h)]
    /\ UNCHANGED <<vars, cache, shutdown>>

\* The identities derived from a state: the snapshot id hashes the upstream
\* anchor, the local state commit everything read, the system state id that.
Identity(ref) ==
    [snapshot_id |-> ref.snap, stable_height |-> ref.snap.height, stable_block_hash |-> ref.snap.hash,
     version |-> Version, local_state_commit |-> ref, system_state_id |-> ref]

Selectors == <<"snapshot_id", "stable_height", "stable_block_hash", "version",
               "local_state_commit", "system_state_id">>

MismatchCode(s) ==
    CASE s \in {"snapshot_id", "stable_height"} -> "SNAPSHOT_ID_MISMATCH"
      [] s = "stable_block_hash"  -> "BLOCK_HASH_MISMATCH"
      [] s = "version"            -> "VERSION_MISMATCH"
      [] s = "local_state_commit" -> "LOCAL_STATE_COMMIT_MISMATCH"
      [] s = "system_state_id"    -> "SYSTEM_STATE_ID_MISMATCH"

\* validate_historical_state_ref_expected_state: the selectors that are given and
\* differ, in the order they are compared.
Mismatches(want, ref) ==
    {i \in DOMAIN Selectors :
        \E w \in want : w.selector = Selectors[i] /\ w.value # Identity(ref)[Selectors[i]]}

ReadRefSettled ==
    /\ Reading("ref_settled")
    /\ LET ref == [q.ref EXCEPT !.settled = conn.settled[q.h]]
           bad == Mismatches(q.req.want, ref)
       IN  IF ref.settled = NoSnapshot THEN Fail("HISTORY_NOT_AVAILABLE")
           ELSE IF bad # {} THEN Fail(MismatchCode(Selectors[Min(bad)]))
           ELSE IF q.req.kind = "state_ref" THEN Answer(<<ref>>)
           ELSE q' = [q EXCEPT !.step = DataStep(q.req.kind), !.ref = NoRef]
    /\ UNCHANGED <<vars, cache, shutdown>>

-----------------------------------------------------------------------------
(* The reads of the answer *)

CountRows ==
    /\ Reading("count")
    /\ q' = [q EXCEPT !.step = "page", !.total = Cardinality(Selected(q.req, conn, en.rec, q.h))]
    /\ UNCHANGED <<vars, cache, shutdown>>

ReadPage ==
    /\ Reading("page")
    /\ Answer(<<[total |-> q.total, items |-> Listed(q.req, conn, en.rec, q.h)]>>)
    /\ UNCHANGED <<vars, cache, shutdown>>

ReadSingle ==
    /\ Reading("single")
    /\ LET x == Looked(q.req, conn, en.rec, q.h)
       IN  IF x = <<>> /\ EmptyCode(q.req.kind) # "none" THEN Fail(EmptyCode(q.req.kind))
           ELSE Answer(x)
    /\ UNCHANGED <<vars, cache, shutdown>>

\* get_latest_active_balance_snapshot: the newest row, at no particular height.
ReadLatestBalance ==
    /\ Reading("latest_balance")
    /\ LET S == SnapshotHeights(conn)
       IN  Answer(IF S = {} THEN <<>> ELSE <<[h |-> Max(S), settled |-> conn.settled[Max(S)]]>>)
    /\ UNCHANGED <<vars, cache, shutdown>>

\* Mutant: the state of the latest row is not compared.
OwnerActive_any_state(db, o, h) == {p \in Latest(db, h, {}) : RowAt(db.hist, p, h).owner = o}

\* get_owner_active_pass_from_history_at_height: at most one, or an error.
OwnerActive(db, o, h) == {p \in Latest(db, h, {"active"}) : RowAt(db.hist, p, h).owner = o}

ReadOwnerActive ==
    /\ Reading("owner")
    /\ LET S == OwnerActive(conn, q.req.owner, q.h)
       IN  IF Cardinality(S) > 1 THEN Fail("DUPLICATE_ACTIVE_OWNER")
           ELSE IF S = {} THEN Answer(<<>>)
           ELSE q' = [q EXCEPT !.step = "row", !.got = SetToSeq(S)]
    /\ UNCHANGED <<vars, cache, shutdown>>

\* build_pass_snapshot: the static row, then the history row.  A pass found active
\* that has neither is reported as a broken invariant.
Wanted == IF q.req.kind = "owner_active" THEN q.got[1] ELSE q.req.pass

NoPass == IF q.req.kind = "owner_active" THEN Fail("INTERNAL_INVARIANT_BROKEN") ELSE Answer(<<>>)

ReadPassRow ==
    /\ Reading("row")
    /\ IF conn.passes[Wanted] = NoRow THEN NoPass ELSE Goto("row_history")
    /\ UNCHANGED <<vars, cache, shutdown>>

ReadPassHistory ==
    /\ Reading("row_history")
    /\ IF RowAt(conn.hist, Wanted, q.h) = NoRow THEN NoPass
       ELSE Answer(<<Item(conn, Wanted, q.h)>>)
    /\ UNCHANGED <<vars, cache, shutdown>>

-----------------------------------------------------------------------------
(* get_pass_energy_leaderboard *)

Offset(r) == r.page * r.size

\* The entry is used for its exact height, scope and top_k (a constant here).
CacheHit(r, h) == cache # <<>> /\ cache[1].h = h /\ cache[1].scope = r.states

\* The cache serves only queries without a height; a page past top_k is empty.
ReadCache ==
    /\ Reading("cached")
    /\ LET r == q.req
       IN  IF r.at = 0 /\ CacheHit(r, q.h)
           THEN q' = [Idle EXCEPT !.req = r, !.step = "done", !.h = q.h,
                        !.moved = q.moved, !.stale = ~cache[1].clean,
                        !.out = <<[total |-> cache[1].total,
                                   items |-> PageOf(cache[1].items, r.page, r.size)]>>]
           ELSE IF Offset(r) >= TopK THEN Answer(<<[total |-> TopK, items |-> <<>>]>>)
           ELSE Goto("board_count")
    /\ UNCHANGED <<vars, cache, shutdown>>

CountBoard ==
    /\ Reading("board_count")
    /\ q' = [q EXCEPT !.total = Cardinality(Latest(conn, q.h, q.req.states)),
                      !.step = "board_rows"]
    /\ UNCHANGED <<vars, cache, shutdown>>

\* The rows are loaded page by page; an empty page ends the loop early.
BoardPages == (q.total + LoadPageSize - 1) \div LoadPageSize

ReadBoardRows ==
    /\ Reading("board_rows")
    /\ LET all  == Descending(Latest(conn, q.h, q.req.states), EventKey(conn, q.h))
           page == PageOf(all, q.loaded, LoadPageSize)
       IN  IF q.loaded = BoardPages \/ page = <<>>
           THEN q' = [q EXCEPT !.step = "board_energy", !.total = 0, !.loaded = 0,
                               !.got = [i \in DOMAIN q.got |-> [pass |-> q.got[i], rec |-> <<>>]]]
           ELSE q' = [q EXCEPT !.got = q.got \o page, !.loaded = q.loaded + 1]
    /\ UNCHANGED <<vars, cache, shutdown>>

\* One energy record per row, from the other store.
ReadBoardEnergy ==
    /\ Reading("board_energy")
    /\ q.loaded < Len(q.got)
    /\ q' = [q EXCEPT !.loaded = q.loaded + 1,
                      !.got[q.loaded + 1].rec = get_energy_at(en.rec, q.got[q.loaded + 1].pass, q.h)]
    /\ UNCHANGED <<vars, cache, shutdown>>

\* Rows without a record are left out; the rest are ranked by energy, then by the
\* height of the record, then by id, and cut to top_k.
Ranked(rows) ==
    LET before(a, b) ==
          \/ a.energy > b.energy
          \/ a.energy = b.energy /\ a.at > b.at
          \/ a.energy = b.energy /\ a.at = b.at /\ a.number < b.number
        found == {x \in Range(rows) : x.rec # <<>>}
    IN  SetToSortSeq({[pass |-> x.pass, number |-> Number(x.pass), at |-> x.rec[1].at,
                       energy |-> x.rec[1].energy, state |-> x.rec[1].state] : x \in found}, before)

\* Mutant: the ranking is not cut to top_k.
Board_uncut(rows) == Ranked(rows)

Board(rows) == PageOf(Ranked(rows), 0, TopK)

RankBoard ==
    /\ Reading("board_energy")
    /\ q.loaded = Len(q.got)
    /\ LET board == Board(q.got)
           r     == q.req
       IN  /\ Answer(<<[total |-> Len(board), items |-> PageOf(board, r.page, r.size)]>>)
           /\ cache' = IF r.at = 0
                       THEN <<[h |-> q.h, scope |-> r.states, total |-> Len(board), items |-> board,
                               clean |-> ~q.moved]>>
                       ELSE cache
    /\ UNCHANGED <<vars, shutdown>>

-----------------------------------------------------------------------------
(* The composition.  A step of the sync task that takes synced blocks back *)
(* (a rollback, or a savepoint dropped after the height was written) is    *)
(* remembered in the query and in the cache entry it overtakes; a crash    *)
(* ends the query and loses the cache.                                     *)

TakenBack == conn'.synced < conn.synced

Overtaken ==
    IF pc' = "down" THEN q' = Idle /\ cache' = <<>> /\ shutdown' = FALSE
    ELSE /\ q' = IF TakenBack /\ q.step # "idle" THEN [q EXCEPT !.moved = TRUE] ELSE q
         /\ cache' = IF TakenBack /\ cache # <<>> THEN [cache EXCEPT ![1].clean = FALSE] ELSE cache
         /\ UNCHANGED shutdown

IndexerStep == Next /\ Overtaken

Gate == \/ ReadStatus \/ ReadRuntime \/ ReadGateHeight \/ ReadGatePending
        \/ ReadAnchor \/ ReadAnchorHash \/ ReadAnchorCommit \/ ReadAnchorRest
        \/ ReadHeight \/ ReadCommit \/ ReadConsistent \/ ReadSettled

StateRef == Resolve \/ ReadRefAnchor \/ ReadRefCommit \/ ReadRefSettled

Data == \/ CountRows \/ ReadPage \/ ReadSingle \/ ReadLatestBalance \/ ReadOwnerActive
        \/ ReadPassRow \/ ReadPassHistory

Leaderboard == ReadCache \/ CountBoard \/ ReadBoardRows \/ ReadBoardEnergy \/ RankBoard

ServiceStep == StartQuery \/ Gate \/ StateRef \/ Data \/ Leaderboard \/ FinishQuery \/ Stop

ServiceNext == IndexerStep \/ ServiceStep

ServiceSpec == ServiceInit /\ [][ServiceNext]_allVars

-----------------------------------------------------------------------------
(* Properties *)

(***************************************************************************)
(* No error says that the store is broken: a handler never meets two       *)
(* active passes of an owner, or an active pass without its rows, unless   *)
(* blocks were taken back under it.                                        *)
(***************************************************************************)
NoBrokenInvariantReported ==
    q.step = "done" /\ ~q.moved =>
        q.err \notin {"INTERNAL_INVARIANT_BROKEN", "DUPLICATE_ACTIVE_OWNER"}
=============================================================================
