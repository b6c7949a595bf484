------------------------- MODULE MCUsdbIndexerService -------------------------
(***************************************************************************)
(* Small instances of UsdbIndexerService: two passes, two owners, chains   *)
(* of a block below genesis and up to two blocks above it, and a list of   *)
(* requests that has every RPC, with and without a consensus context.      *)
(***************************************************************************)
EXTENDS UsdbIndexerService, MCInscriptionIndexer

\* Two branches: one mints a pass for each owner, one has an invalid mint first.
ServiceBodies == {Empty, MintP1, Other, BadMint}

Branches == {<<Empty, MintP1, Other>>, <<Empty, BadMint, MintP1>>}

ServiceChains == {Prefix(b, n) : b \in Branches, n \in 1..3}

NumberOrder == <<p1, p2>>

-----------------------------------------------------------------------------
(* The reference: what a run of chain c and nothing else would answer *)

SettledOf(rows, bal) ==
    LET active == {p \in Passes : rows[p].state = "active"}
    IN  [total |-> MapThenSumSet(LAMBDA p : bal[rows[p].owner], active),
         count |-> Cardinality(active)]

\* The run of c with the block commits and balance snapshots it leaves.
Completed(runs, c) ==
    [runs[c] EXCEPT
        !.db.commits = [h \in Heights |->
            IF h \in Genesis..Len(c)
            THEN [up |-> Prefix(c, h), muts |-> runs[Prefix(c, h)].muts,
                  invalid |-> {e \in Range(c[h].events) : e.op = "invalid"}]
            ELSE NoCommit],
        !.db.settled = [h \in Heights |->
            IF h \in Genesis..Len(c) THEN SettledOf(runs[Prefix(c, h)].db.passes, c[h].bal)
            ELSE NoSnapshot]]

Reference == [c \in MCChains |-> Completed(FreshRuns, c)]

\* The state of chain c at its own height.
StateOf(db, c) == [h |-> Len(c), snap |-> AnchorOf(c), commit |-> db.commits[Len(c)],
                   settled |-> db.settled[Len(c)]]

BoardAt(db, rec, r, h) ==
    Board(SetToSeq({[pass |-> p, rec |-> get_energy_at(rec, p, h)] : p \in Latest(db, h, r.states)}))

ItemsAt(db, S, h) == IF S = {} THEN <<>> ELSE <<Item(db, CHOOSE p \in S : TRUE, h)>>

\* The answer to r at height h from a state at rest.
Expected(r, db, rec, c, h) ==
    CASE r.kind \in PagedKinds ->
           <<[total |-> Cardinality(Selected(r, db, rec, h)), items |-> Listed(r, db, rec, h)]>>
      [] r.kind \in SingleKinds   -> Looked(r, db, rec, h)
      [] r.kind = "snapshot"      -> ItemsAt(db, Latest(db, h, {}) \cap {r.pass}, h)
      [] r.kind = "owner_active"  -> ItemsAt(db, OwnerActive(db, r.owner, h), h)
      [] r.kind = "leaderboard"   ->
           <<[total |-> Len(BoardAt(db, rec, r, h)),
              items |-> PageOf(BoardAt(db, rec, r, h), r.page, r.size)]>>
      [] r.kind = "state_ref"     -> <<StateOf(db, c)>>

ExpectedOn(r, run, c, h) == Expected(r, run.db, run.rec, c, h)

-----------------------------------------------------------------------------
(* Requests *)

Ask(kind) == [kind |-> kind, pass |-> p1, owner |-> o1, at |-> 0, from |-> 1, page |-> 0,
              size |-> 1, desc |-> FALSE, states |-> {}, exact |-> FALSE, ctx |-> FALSE, ctxAt |-> 0, want |-> {}]

Want(selector, value) == [selector |-> selector, value |-> value]

InContext(r, want) == [r EXCEPT !.ctx = TRUE, !.ctxAt = Genesis, !.want = want]

\* The state a caller may hold on to: that of the first branch at genesis.
MintState ==
    LET c == <<Empty, MintP1>>
    IN  [h |-> Genesis, snap |-> AnchorOf(c), settled |-> [total |-> 2, count |-> 1],
         commit |-> [up |-> c, muts |-> MintP1.events, invalid |-> {}]]

ContextRequests ==
    LET c == <<Empty, MintP1>>
    IN  {InContext([Ask("state_ref") EXCEPT !.at = Genesis], {}),
         InContext([Ask("state_ref") EXCEPT !.at = Genesis], {Want("stable_block_hash", c)}),
         InContext([Ask("state_ref") EXCEPT !.at = Genesis + 1], {}),
         InContext(Ask("energy"), {Want("snapshot_id", AnchorOf(c)), Want("stable_height", Genesis),
                                   Want("version", Version)}),
         InContext(Ask("energy"), {Want("version", "other")}),
         InContext(Ask("snapshot"), {Want("system_state_id", MintState)}),
         InContext(Ask("snapshot"), {Want("local_state_commit", MintState)})}

PlainRequests ==
    {Ask("snapshot"), [Ask("snapshot") EXCEPT !.at = Floor],
     Ask("energy"), [Ask("energy") EXCEPT !.exact = TRUE, !.pass = p2],
     Ask("stats"), Ask("commit"), [Ask("balance") EXCEPT !.at = Genesis],
     [Ask("balance") EXCEPT !.at = Floor],
     [Ask("active") EXCEPT !.size = 0], [Ask("active") EXCEPT !.size = 2],
     [Ask("owner_passes") EXCEPT !.page = 1], [Ask("owner_passes") EXCEPT !.states = {"invalid"}],
     [Ask("recent") EXCEPT !.page = 1, !.at = Genesis],
     [Ask("recent") EXCEPT !.desc = TRUE],
     Ask("owner_active"), [Ask("invalid") EXCEPT !.at = Genesis],
     [Ask("invalid") EXCEPT !.from = Genesis + 1, !.at = Genesis],
     [Ask("history") EXCEPT !.at = Genesis + 1, !.page = 1],
     [Ask("energy_range") EXCEPT !.at = Genesis + 1, !.page = 1],
     [Ask("energy_range") EXCEPT !.at = Genesis + 1, !.desc = TRUE]}

BoardRequests ==
    {[Ask("leaderboard") EXCEPT !.states = {"active"}],
     [Ask("leaderboard") EXCEPT !.states = {"active", "dormant"}, !.page = 1],
     [Ask("leaderboard") EXCEPT !.states = {"active"}, !.at = Genesis]}

StateRequests == {Ask("readiness"), Ask("current"), Ask("latest_balance")}

AllRequests == ContextRequests \cup PlainRequests \cup BoardRequests \cup StateRequests

\* The reorganisation comes while the task waits, so that the stored snapshots and
\* commits of a pass are of one chain.
WhileWaiting == {"wait"}

\* A handler's reads commute with the steps of the task that write nothing a handler
\* sees, so it is enough to let it read at these points between the writes.
Writes == {"exec", "persist", "commit", "backfill", "rollback", "resume_energy", "wait"}

\* The cache matters to leaderboard queries only, and the stop flag to readiness.
Relevant ==
    /\ q.step = "idle" /\ q'.step # "idle" /\ cache # <<>> => q'.req.kind = "leaderboard"
    /\ shutdown' # shutdown => pc = "wait" /\ q = Idle /\ cache = <<>>
    /\ shutdown /\ q.step = "idle" /\ q'.step # "idle" => q'.req.kind = "readiness"
    /\ shutdown => UNCHANGED vars

\* The poller (every second) is ahead of the wait loop (every five), so a pass starts
\* with the snapshot of the chain it reads.
PolledFirst == pc = "wait" /\ pc' # "wait" => status = chain

-----------------------------------------------------------------------------
(* Properties *)

\* The chain whose state an answer must be: the one a context names, else the one
\* the store has committed.
NamedChains(r) ==
    {w.value : w \in {x \in r.want : x.selector = "stable_block_hash"}}
    \cup {w.value.hash : w \in {x \in r.want : x.selector = "snapshot_id"}}
    \cup {w.value.snap.hash : w \in {x \in r.want :
              x.selector \in {"local_state_commit", "system_state_id"}}}

AnswerChain(r, h) ==
    IF NamedChains(r) # {} THEN CHOOSE c \in NamedChains(r) : TRUE
    ELSE IF h < Genesis THEN <<>> ELSE conn.commits[h].up

\* The variables of the query have their types.
ServiceTypeOK ==
    /\ q.step \in {"idle", "done", "gate_status", "gate_runtime", "gate_height", "gate_pending",
                   "anchor", "anchor_hash", "anchor_commit", "anchor_rest", "height", "commit",
                   "consistent", "settled", "resolve", "ref_anchor", "ref_commit", "ref_settled", "count", "page",
                   "single", "latest_balance", "owner", "row", "row_history", "cached",
                   "board_count", "board_rows", "board_energy"}
    /\ q.h \in Heights \cup {NoHeight}
    /\ Len(cache) <= 1
    /\ cache # <<>> => cache[1].h \in Genesis - 1..MaxHeight /\ Len(cache[1].items) <= TopK
    /\ shutdown \in BOOLEAN

\* The answer of q, put together by the reads of its handler, is that of one state.
OneState ==
    IF q.req.kind = "leaderboard" /\ Offset(q.req) >= TopK THEN q.out[1].items = <<>>
    ELSE q.out = ExpectedOn(q.req, Reference[AnswerChain(q.req, q.h)], AnswerChain(q.req, q.h), q.h)

Answered == q.step = "done" /\ q.err = "none" /\ ~q.moved

(***************************************************************************)
(* An answer is the state of one chain at one height: unless blocks were   *)
(* taken back while it was being put together (or since the ranking it was *)
(* served from was cached), every row, count, page, energy and ranking is  *)
(* what an indexer that ran exactly the chain's blocks up to the resolved  *)
(* height would return, although the handler reads between the writes of   *)
(* the next block and of a recovery.  A query with a context is answered   *)
(* only from the chain its context names.                                  *)
(***************************************************************************)
AnswersAreOneState ==
    Answered /\ ~q.stale /\ q.req.kind \notin {"readiness", "current", "latest_balance"} => OneState

\* The states shown by get_system_state_info and by readiness when it says ready.
ShownStates ==
    IF ~Answered THEN {}
    ELSE IF q.req.kind = "current" THEN {q.out[1]}
    ELSE IF q.req.kind = "readiness" /\ q.out[1].ready THEN {q.out[1].ref}
    ELSE {}

(***************************************************************************)
(* The state shown by readiness or get_system_state_info is put together   *)
(* from a dozen reads, and blocks may be committed and anchors adopted     *)
(* between any two of them, so it need not be the state of one height: the *)
(* anchor's height, hash and commit may be of different anchors, and the   *)
(* local state of a later height still.  What is left, unless blocks were  *)
(* taken back meanwhile: these parts are in the order of their reads and   *)
(* all of the one chain the store has; the pass commit and the balance     *)
(* snapshot are those of the same height of it; so when the height moved   *)
(* on nowhere, the state is the whole state of that chain at that height.  *)
(* And ready is said only of an anchor of the synced height, with no       *)
(* recovery unfinished.                                                    *)
(***************************************************************************)
ShownStateIsOneChain ==
    \A ref \in ShownStates :
        LET c == conn.commits[ref.h].up
        IN  /\ ref.snap.height <= Len(ref.snap.hash)
            /\ Len(ref.snap.hash) <= Len(ref.snap.commit)
            /\ Len(ref.snap.commit) <= ref.h
            /\ IsPrefix(ref.snap.hash, c) /\ IsPrefix(ref.snap.commit, c)
            /\ [ref EXCEPT !.snap = AnchorOf(c)] = StateOf(Reference[c].db, c)
            /\ q.req.kind = "readiness" =>
                  ref.snap.height = q.out[1].synced /\ conn.pending = NoHeight

(***************************************************************************)
(* After a reorganisation the ranking of the latest state is the           *)
(* replacement chain's, as the live reorg test expects of                  *)
(* get_pass_energy_leaderboard: a query that no rollback overtakes never   *)
(* shows the ranking of the chain that was left.                           *)
(***************************************************************************)
LeaderboardFollowsReorg == Answered /\ q.req.kind = "leaderboard" => OneState
=============================================================================
