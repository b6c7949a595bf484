------------------------ MODULE BalanceHistoryService ------------------------
(***************************************************************************)
(* The JSON-RPC service of balance-history (service/server.rs,             *)
(* service/state_ref.rs) composed with the sync loop of                    *)
(* BalanceHistoryIndexer.  The handlers run on threads of their own and    *)
(* read the store the loop writes: each RocksDB get and each iterator sees *)
(* one state of the store, but a handler makes several of them, without a  *)
(* snapshot, and the loop may flush a batch or undo a block in between.    *)
(*                                                                         *)
(* One request is in progress at a time; a batch request runs the handler  *)
(* of a single address for every address in parallel, so a request is a    *)
(* set of jobs, one per subject (an address, an output, or the node), each *)
(* with a program counter and locals of its own.  A step is one read.      *)
(*                                                                         *)
(* The script registry (resolve_script_hashes) and the provenance record   *)
(* are read only and left out, as is the diagnostic payload of errors.     *)
(***************************************************************************)
EXTENDS BalanceHistoryIndexer, SequencesExt

CONSTANTS
    Requests,       \* the requests of the run
    Version,        \* the protocol versions this build reports
    MaxBuckets,     \* MAX_ADDRESS_AGGREGATE_BUCKETS
    ReaderWindow    \* the pcs of the sync loop at which a handler may read

ASSUME ServiceAssumption == MaxBuckets \in Nat /\ ReaderWindow \subseteq PCs

VARIABLES
    q,              \* the request in progress
    shutdown        \* RuntimeReadinessStatus.shutdown_requested

allVars == <<vars, q, shutdown>>

\* Above every height.
NoRollback == MaxSyncHeight + 1

\* floor is the height the request met, lowest the height a rollback reached since.
Idle == [req |-> [kind |-> "none"], jobs |-> << >>, floor |-> 0, lowest |-> NoRollback]

ServiceInit == Init /\ q = Idle /\ shutdown = FALSE

-----------------------------------------------------------------------------
(* The reads of the store; a row is shown with its height *)

Row(s, h) == [height |-> h, delta |-> rows[<<s, h>>].delta, balance |-> rows[<<s, h>>].balance]

ZeroRow == [height |-> 0, delta |-> 0, balance |-> 0]

RowAtOrBefore(s, h) == IF RowHeights(s, h) = {} THEN ZeroRow ELSE Row(s, Max(RowHeights(s, h)))

get_latest_balance(s) == RowAtOrBefore(s, MaxSyncHeight)

\* The heights of S in the order of the keys.
Ascending(S) ==
    CHOOSE hs \in [1..Cardinality(S) -> S] : \A i, j \in DOMAIN hs : i < j => hs[i] < hs[j]

\* The rows of [from, to), by height.
get_balance_in_range(s, from, to) ==
    LET hs == Ascending({h \in from..to - 1 : <<s, h>> \in DOMAIN rows})
    IN  [i \in DOMAIN hs |-> Row(s, hs[i])]

get_balance_delta_at_block_height(s, h) ==
    IF <<s, h>> \in DOMAIN rows THEN <<Row(s, h)>> ELSE << >>

get_block_commit_entry(h) == IF h \in DOMAIN commits THEN <<commits[h]>> ELSE << >>

-----------------------------------------------------------------------------
(* Aggregates over the rows of a range *)

Inflow(d)  == IF d >= 0 THEN d ELSE 0
Outflow(d) == IF d >= 0 THEN 0 ELSE -d

\* The loop body of build_address_balance_summary.
SummaryStep(sum, row) ==
    [sum EXCEPT !.changes = @ + 1,
                !.net     = @ + row.delta,
                !.inflow  = @ + Inflow(row.delta),
                !.outflow = @ + Outflow(row.delta),
                !.first   = IF @ = None THEN row.height ELSE @,
                !.last    = row.height,
                !.peak    = IF row.balance > @.balance
                            THEN [balance |-> row.balance, height |-> row.height] ELSE @,
                !.low     = IF row.balance < @.balance
                            THEN [balance |-> row.balance, height |-> row.height] ELSE @]

build_address_balance_summary(r, range, start, end) ==
    FoldLeft(SummaryStep,
             [start |-> start, end |-> end, changes |-> 0, net |-> 0, inflow |-> 0, outflow |-> 0,
              first |-> None, last |-> None,
              peak |-> [balance |-> start, height |-> r.from],
              low |-> [balance |-> start, height |-> r.from]],
             range)

\* Mutant: a bucket also takes the row at its exclusive end.
BucketRows_inclusive(rest, bucketEnd) == SelectSeq(rest, LAMBDA row : row.height <= bucketEnd)

\* The inner loop consumes the rows below the end of the bucket; rows are sorted.
BucketRows(rest, bucketEnd) == SelectSeq(rest, LAMBDA row : row.height < bucketEnd)

\* The running totals of the inner loop over the rows of a bucket.
Totals(taken) ==
    FoldLeft(LAMBDA sum, row : [net     |-> sum.net + row.delta,
                                inflow  |-> sum.inflow + Inflow(row.delta),
                                outflow |-> sum.outflow + Outflow(row.delta)],
             [net |-> 0, inflow |-> 0, outflow |-> 0], taken)

\* One turn of the outer loop: acc holds the start of the bucket, the rows left,
\* the balance carried over and the buckets so far.
BucketStep(r, acc) ==
    LET bucketEnd == MinOf(acc.at + r.bucket, r.to)
        taken     == BucketRows(acc.rest, bucketEnd)
        balance   == IF taken = << >> THEN acc.balance ELSE taken[Len(taken)].balance
    IN  [at      |-> bucketEnd,
         rest    |-> SubSeq(acc.rest, Len(taken) + 1, Len(acc.rest)),
         balance |-> balance,
         buckets |-> Append(acc.buckets,
             [start |-> acc.at, end |-> bucketEnd, balance |-> balance, net |-> Totals(taken).net,
              inflow |-> Totals(taken).inflow, outflow |-> Totals(taken).outflow,
              changes |-> Len(taken),
              last |-> IF taken = << >> THEN None ELSE taken[Len(taken)].height])]

BucketCount(r) == (r.to - r.from + r.bucket - 1) \div r.bucket

Buckets(r, range, start) ==
    FoldLeft(LAMBDA acc, i : BucketStep(r, acc),
             [at |-> r.from, rest |-> range, balance |-> start, buckets |-> << >>],
             [i \in 1..BucketCount(r) |-> i]).buckets

\* Flow buckets are the same partition without the balance columns.
FlowBuckets(r, range) ==
    LET full == Buckets(r, range, 0)
    IN  [i \in DOMAIN full |->
            [x \in {"start", "end", "inflow", "outflow", "net", "changes"} |-> full[i][x]]]

-----------------------------------------------------------------------------
(* Requests *)

EmptyRange(r) == r.by = "range" /\ r.from >= r.to

AggregateKinds == {"summary", "timeseries", "flow"}

\* The kinds that resolve the stable snapshot before they read.
SnapshotKinds == {"snapshot_info", "state_ref", "balance"} \union AggregateKinds

\* What the methods and their parameter types (rpc.rs) enforce: a state reference and a
\* commit are asked for by height, an aggregate over a range, and every selector of a
\* consensus context is there at most once.
ASSUME RequestAssumption ==
    \A r \in Requests :
        /\ r.kind \in SnapshotKinds \union
                      {"height", "sync_status", "readiness", "commit", "delta", "utxo"}
        /\ r.at \in Nat /\ r.from \in Nat /\ r.to \in Nat /\ r.bucket \in Nat
        /\ r.by \in {"latest", "height", "range"}
        /\ r.kind \in {"state_ref", "commit"} => r.by = "height"
        /\ r.kind \in AggregateKinds => r.by = "range"
        /\ r.kind \in {"height", "sync_status", "snapshot_info", "readiness", "utxo"} =>
               r.by = "latest"
        /\ \A v, w \in r.want : v.selector = w.selector => v = w

\* The highest height a request names.
Named(r) == CASE r.by = "height" -> r.at
              [] r.by = "range"  -> IF EmptyRange(r) THEN 0 ELSE r.to - 1
              [] r.by = "latest" -> 0

\* Mutant: the stable height itself counts as not synced.
HeightNotSynced_at_tip(r, stable) == r.by # "latest" /\ Named(r) >= stable

\* validate_requested_height and validate_requested_range.
HeightNotSynced(r, stable) == r.by # "latest" /\ Named(r) > stable

\* The checks before any read: an aggregate needs a range, a delta a height or a
\* range, a consensus context the height of the request.
BadParams(r) ==
    \/ r.kind \in AggregateKinds /\ EmptyRange(r)
    \/ r.kind = "delta" /\ r.by = "latest"
    \/ r.kind = "state_ref" /\ r.contextAt \notin {None, r.at}

\* validate_bucket_params, after the range was validated.
BadBuckets(r) ==
    r.kind \in {"timeseries", "flow"} /\ (r.bucket = 0 \/ BucketCount(r) > MaxBuckets)

Finished == [step |-> "done", stable |-> None, range |-> << >>, start |-> None,
             err |-> "none", out |-> << >>]

Refused(code) == [Finished EXCEPT !.err = code]

Answered(x) == [Finished EXCEPT !.out = x]

At(step) == [Finished EXCEPT !.step = step]

\* The first read of a job, if it has any.
FirstRead(r) ==
    CASE BadParams(r)                                        -> Refused("INVALID_PARAMS")
      [] ~BadParams(r) /\ r.kind \in {"balance", "delta"} /\ EmptyRange(r) -> Answered(<< >>)
      [] r.kind = "readiness"                                -> At("status")
      [] OTHER -> IF r.kind \in SnapshotKinds THEN At("height") ELSE At("data")

Accept(kind) ==
    /\ q.jobs = << >>
    /\ pc \in ReaderWindow
    /\ \E r \in {x \in Requests : x.kind = kind} :
          q' = [req |-> r, jobs |-> [s \in r.subjects |-> FirstRead(r)], floor |-> height,
                lowest |-> NoRollback]
    /\ UNCHANGED <<vars, shutdown>>

\* The methods of the service; the batch variants have several subjects.
get_block_height               == Accept("height")
get_sync_status                == Accept("sync_status")
get_snapshot_info              == Accept("snapshot_info")
get_readiness                  == Accept("readiness")
get_state_ref_at_height        == Accept("state_ref")
get_block_commit               == Accept("commit")
get_address_balance            == Accept("balance")
get_address_balance_delta      == Accept("delta")
get_address_balance_summary    == Accept("summary")
get_address_balance_timeseries == Accept("timeseries")
get_address_flow_buckets       == Accept("flow")
get_live_utxo                  == Accept("utxo")

StartRequest ==
    \/ get_block_height \/ get_sync_status \/ get_snapshot_info \/ get_readiness
    \/ get_state_ref_at_height \/ get_block_commit \/ get_address_balance
    \/ get_address_balance_delta \/ get_address_balance_summary
    \/ get_address_balance_timeseries \/ get_address_flow_buckets \/ get_live_utxo

Done == q.jobs # << >> /\ \A s \in DOMAIN q.jobs : q.jobs[s].step = "done"

FinishRequest ==
    /\ Done
    /\ q' = Idle
    /\ UNCHANGED <<vars, shutdown>>

\* The stop RPC; the listener closes half a second later.
Stop ==
    /\ ~shutdown
    /\ pc \in ReaderWindow
    /\ shutdown' = TRUE
    /\ UNCHANGED <<vars, q>>

-----------------------------------------------------------------------------
(* The reads of a job *)

Reading(s, step) == s \in DOMAIN q.jobs /\ q.jobs[s].step = step /\ pc \in ReaderWindow

Becomes(s, job) == q' = [q EXCEPT !.jobs[s] = job] /\ UNCHANGED <<vars, shutdown>>

\* readiness_info: the sync status, then the runtime flags.
ReadStatus(s) ==
    /\ Reading(s, "status")
    /\ Becomes(s, [At("flags") EXCEPT !.start = [started |-> started, current |-> statCurrent,
                                                 total |-> statTotal]])

ReadFlags(s) ==
    /\ Reading(s, "flags")
    /\ Becomes(s, [q.jobs[s] EXCEPT !.step = "height",
                                    !.start.started = @ /\ ~statusRollback /\ ~shutdown])

\* build_snapshot_info: the height, then the commit of that height.
ReadStableHeight(s) ==
    /\ Reading(s, "height")
    /\ Becomes(s, [q.jobs[s] EXCEPT !.step = "commit", !.stable = height])

Stable(s) == q.jobs[s].stable

\* Mutant: the commit of the block below.
Snapshot_below(s) == [height |-> Stable(s), commit |-> get_block_commit_entry(Stable(s) - 1)]

Snapshot(s) == [height |-> Stable(s), commit |-> get_block_commit_entry(Stable(s))]

\* Mutant: a missing commit is no blocker.
AnswerReadiness_any_commit(s) ==
    /\ Reading(s, "commit")
    /\ q.req.kind = "readiness"
    /\ \E unverified \in BOOLEAN :
          LET st == q.jobs[s].start
          IN  Becomes(s, Answered([query_ready |-> st.started,
                                   consensus_ready |-> /\ st.started
                                                       /\ st.current >= st.total
                                                       /\ ~unverified,
                                   snapshot |-> Snapshot(s)]))

\* The blockers; the provenance of an installed store may be unverified.
AnswerReadiness(s) ==
    /\ Reading(s, "commit")
    /\ q.req.kind = "readiness"
    /\ \E unverified \in BOOLEAN :
          LET st == q.jobs[s].start
          IN  Becomes(s, Answered([query_ready |-> st.started,
                                   consensus_ready |-> /\ st.started
                                                       /\ st.current >= st.total
                                                       /\ Stable(s) \in DOMAIN commits
                                                       /\ ~unverified,
                                   snapshot |-> Snapshot(s)]))

\* resolve_queryable_snapshot and the checks of the request against it.
ResolveSnapshot(s) ==
    /\ Reading(s, "commit")
    /\ q.req.kind # "readiness"
    /\ Becomes(s, CASE Stable(s) \notin DOMAIN commits -> Refused("SNAPSHOT_NOT_READY")
                    [] Stable(s) \in DOMAIN commits /\ HeightNotSynced(q.req, Stable(s)) ->
                           Refused("HEIGHT_NOT_SYNCED")
                    [] OTHER -> IF BadBuckets(q.req) THEN Refused("INVALID_PARAMS")
                                ELSE IF q.req.kind = "snapshot_info" THEN Answered(Snapshot(s))
                                ELSE At("data"))

\* validate_historical_state_ref_expected_state: the selectors in the order they
\* are compared.  The snapshot id hashes the height, the block hash and versions.
Selectors == <<"snapshot_id", "stable_height", "stable_block_hash", "version">>

Identity(h) == [snapshot_id |-> CommitHash(h), stable_height |-> h,
                stable_block_hash |-> CommitHash(h), version |-> Version]

Mismatches(want, h) ==
    {i \in DOMAIN Selectors :
        \E w \in want : w.selector = Selectors[i] /\ w.value # Identity(h)[Selectors[i]]}

MismatchCode(i) == <<"SNAPSHOT_ID_MISMATCH", "SNAPSHOT_ID_MISMATCH", "BLOCK_HASH_MISMATCH",
                     "VERSION_MISMATCH">>[i]

ReadStateRef(s) ==
    /\ Reading(s, "data")
    /\ q.req.kind = "state_ref"
    /\ LET h == q.req.at
       IN  Becomes(s, IF h \notin DOMAIN commits THEN Refused("HISTORY_NOT_AVAILABLE")
                      ELSE IF Mismatches(q.req.want, h) # {}
                      THEN Refused(MismatchCode(Min(Mismatches(q.req.want, h))))
                      ELSE Answered([height |-> h, commit |-> get_block_commit_entry(h)]))

\* The answers made by one read.
OneRead(r, s) ==
    CASE r.kind = "height"      -> height
      [] r.kind = "sync_status" -> [current |-> statCurrent, total |-> statTotal]
      [] r.kind = "commit"      -> get_block_commit_entry(r.at)
      [] r.kind = "utxo"        -> s \in utxo
      [] r.kind = "balance"     ->
           IF r.by = "height" THEN <<RowAtOrBefore(s, r.at)>>
           ELSE IF r.by = "range" THEN get_balance_in_range(s, r.from, r.to)
           ELSE <<get_latest_balance(s)>>
      [] r.kind = "delta"       ->
           IF r.by = "height" THEN get_balance_delta_at_block_height(s, r.at)
           ELSE get_balance_in_range(s, r.from, r.to)

ReadOnce(s) ==
    /\ Reading(s, "data")
    /\ q.req.kind \in {"height", "sync_status", "commit", "utxo", "balance", "delta"}
    /\ Becomes(s, Answered(OneRead(q.req, s)))

\* get_range_balance_rows; flow buckets need nothing else.
ReadRange(s) ==
    /\ Reading(s, "data")
    /\ q.req.kind \in AggregateKinds
    /\ LET range == get_balance_in_range(s, q.req.from, q.req.to)
       IN  Becomes(s, IF q.req.kind = "flow" THEN Answered(FlowBuckets(q.req, range))
                      ELSE [At("start") EXCEPT !.range = range])

\* get_balance_before_range; no read for a range from height 0.
get_balance_before_range(s, from) == IF from = 0 THEN ZeroRow ELSE RowAtOrBefore(s, from - 1)

ReadStart(s) ==
    /\ Reading(s, "start")
    /\ LET start == get_balance_before_range(s, q.req.from).balance
       IN  Becomes(s, IF q.req.kind = "timeseries"
                      THEN Answered(Buckets(q.req, q.jobs[s].range, start))
                      ELSE [q.jobs[s] EXCEPT !.step = "end", !.start = start])

\* get_balance_at_range_end, the last read of a summary.
ReadEnd(s) ==
    /\ Reading(s, "end")
    /\ LET end == RowAtOrBefore(s, q.req.to - 1).balance
       IN  Becomes(s, Answered(build_address_balance_summary(q.req, q.jobs[s].range,
                                                             q.jobs[s].start, end)))

JobStep(s) ==
    \/ ReadStatus(s) \/ ReadFlags(s) \/ ReadStableHeight(s) \/ AnswerReadiness(s)
    \/ ResolveSnapshot(s) \/ ReadStateRef(s) \/ ReadOnce(s) \/ ReadRange(s)
    \/ ReadStart(s) \/ ReadEnd(s)

-----------------------------------------------------------------------------
(* The composition.  A request remembers the lowest height a rollback      *)
(* reached while it ran; a crash or a panic ends it with the process.      *)

Overtaken ==
    IF Crash \/ Restart THEN q' = Idle /\ shutdown' = FALSE
    ELSE /\ q' = IF height' < height /\ q.jobs # << >>
                 THEN [q EXCEPT !.lowest = MinOf(@, height')] ELSE q
         /\ UNCHANGED shutdown

IndexerStep == Next /\ Overtaken

ServiceStep == StartRequest \/ (\E s \in DOMAIN q.jobs : JobStep(s)) \/ FinishRequest \/ Stop

ServiceNext == IndexerStep \/ ServiceStep

ServiceSpec == ServiceInit /\ [][ServiceNext]_allVars

-----------------------------------------------------------------------------
(* The reference: what the blocks of chain c say, without rows, batches or folds *)

Committed == IF height = 0 THEN << >> ELSE CommitHash(height)

BalanceOf(c, s, h) == PaidTo(s, ReplayUtxo(c, h))

MovesOf(c, s, from, to) == {h \in from..to - 1 : h \in DOMAIN c /\ s \in Touched(c[h])}

RefRow(c, s, h) == [height |-> h, delta |-> Delta(c[h], s), balance |-> BalanceOf(c, s, h)]

RefRows(c, s, S) == LET hs == Ascending(S) IN [i \in DOMAIN hs |-> RefRow(c, s, hs[i])]

RefAt(c, s, h) ==
    LET S == MovesOf(c, s, 1, h + 1) IN IF S = {} THEN ZeroRow ELSE RefRow(c, s, Max(S))

RefLink(c, i) ==
    [hash |-> SubSeq(c, 1, i),
     root |-> [s \in Touched(c[i]) |-> [delta |-> Delta(c[i], s), balance |-> BalanceOf(c, s, i)]]]

RefCommit(c, h) == IF h \in DOMAIN c THEN <<[i \in 1..h |-> RefLink(c, i)]>> ELSE << >>

SumOver(c, s, S, f(_)) == MapThenSumSet(LAMBDA h : f(Delta(c[h], s)), S)

\* The best of the balances at the heights S and before them; the earliest height
\* that has it, or the start of the range.
Extreme(c, s, S, from, start, best(_)) ==
    LET v == best({start} \union {BalanceOf(c, s, h) : h \in S})
    IN  [balance |-> v,
         height |-> IF v = start THEN from ELSE Min({h \in S : BalanceOf(c, s, h) = v})]

RefSummary(c, s, r) ==
    LET S     == MovesOf(c, s, r.from, r.to)
        start == IF r.from = 0 THEN 0 ELSE BalanceOf(c, s, r.from - 1)
    IN  [start |-> start, end |-> BalanceOf(c, s, r.to - 1), changes |-> Cardinality(S),
         net |-> BalanceOf(c, s, r.to - 1) - start,
         inflow |-> SumOver(c, s, S, Inflow), outflow |-> SumOver(c, s, S, Outflow),
         first |-> IF S = {} THEN None ELSE Min(S), last |-> IF S = {} THEN None ELSE Max(S),
         peak |-> Extreme(c, s, S, r.from, start, Max), low |-> Extreme(c, s, S, r.from, start, Min)]

\* The i-th bucket of the range.
RefBucket(c, s, r, i) ==
    LET from == r.from + (i - 1) * r.bucket
        to   == MinOf(from + r.bucket, r.to)
        S    == MovesOf(c, s, from, to)
    IN  [start |-> from, end |-> to, balance |-> BalanceOf(c, s, to - 1),
         net |-> SumOver(c, s, S, Inflow) - SumOver(c, s, S, Outflow),
         inflow |-> SumOver(c, s, S, Inflow),
         outflow |-> SumOver(c, s, S, Outflow), changes |-> Cardinality(S),
         last |-> IF S = {} THEN None ELSE Max(S)]

RefBuckets(c, s, r) ==
    [i \in 1..Cardinality({k \in 0..r.to : r.from + k * r.bucket < r.to}) |-> RefBucket(c, s, r, i)]

Columns(bs, names) == [i \in DOMAIN bs |-> [x \in names |-> bs[i][x]]]

\* What a store that holds exactly the blocks of c answers.
Expected(r, s, c) ==
    CASE r.kind = "height"        -> Len(c)
      [] r.kind = "snapshot_info" -> [height |-> Len(c), commit |-> RefCommit(c, Len(c))]
      [] r.kind = "state_ref"     -> [height |-> r.at, commit |-> RefCommit(c, r.at)]
      [] r.kind = "commit"        -> RefCommit(c, r.at)
      [] r.kind = "utxo"          -> s \in ReplayUtxo(c, Len(c))
      [] r.kind = "balance"       ->
           IF r.by = "height" THEN <<RefAt(c, s, r.at)>>
           ELSE IF r.by = "range" THEN RefRows(c, s, MovesOf(c, s, r.from, r.to))
           ELSE <<RefAt(c, s, Len(c))>>
      [] r.kind = "delta"         ->
           IF r.by = "height" THEN RefRows(c, s, MovesOf(c, s, r.at, r.at + 1))
           ELSE RefRows(c, s, MovesOf(c, s, r.from, r.to))
      [] r.kind = "summary"       -> RefSummary(c, s, r)
      [] r.kind = "timeseries"    -> RefBuckets(c, s, r)
      [] r.kind = "flow"          ->
           Columns(RefBuckets(c, s, r), {"start", "end", "inflow", "outflow", "net", "changes"})

-----------------------------------------------------------------------------
(* Properties *)

\* A request that names a height or a range is checked against the stable height
\* before it reads; the others show whatever is there.
Validated(r) == r.kind \in SnapshotKinds /\ r.by # "latest"

\* No rollback went below the heights of the request while it ran.
Undisturbed == q.lowest >= (IF Validated(q.req) THEN Named(q.req) ELSE NoRollback)

Succeeded == {s \in DOMAIN q.jobs : q.jobs[s].step = "done" /\ q.jobs[s].err = "none"}

\* The states of the store that the answer may be of: for a validated request the one
\* its heights belong to, else any the request lived through.
Possible == IF Validated(q.req) THEN {Committed}
            ELSE {SubSeq(Committed, 1, k) : k \in q.floor..height}

\* One state explains the answers for the subjects S.
OneStateFor(S) == \E c \in Possible : \A s \in S : q.jobs[s].out = Expected(q.req, s, c)

(***************************************************************************)
(* The answer to a request that is validated against the stable height (a  *)
(* state reference, balances at a height or over a range) is one state of  *)
(* the chain for all addresses of a batch: the blocks committed at the     *)
(* heights asked for, although they are read one by one between flushed    *)
(* batches and undone blocks.  A request that is not validated (latest     *)
(* balances, live outputs, a commit, and balance changes, which            *)
(* get_address_balance_delta reads without looking at the stable height)   *)
(* promises less: the answer for each subject is a state the request lived *)
(* through, but a batch overtaken by a flush may show two addresses at     *)
(* different tips.  Only a rollback, below the named heights or any for a  *)
(* request that is not validated, may mix two chains.                      *)
(***************************************************************************)
AnswersAreOneState ==
    Undisturbed /\ q.req.kind \notin AggregateKinds \union {"none", "readiness", "sync_status"} =>
        IF Validated(q.req) THEN OneStateFor(Succeeded)
        ELSE \A s \in Succeeded : OneStateFor({s})

(***************************************************************************)
(* The aggregates agree with the blocks: a summary and every bucket of a   *)
(* time series or of flows is what the range's blocks did to the address,  *)
(* the buckets tile the range, inflow minus outflow is the net change, and *)
(* start plus net change is the end balance, although rows, start and end  *)
(* come from three reads.                                                  *)
(***************************************************************************)
AggregatesAddUp ==
    Undisturbed /\ q.req.kind \in AggregateKinds =>
        \A s \in Succeeded : q.jobs[s].out = Expected(q.req, s, Committed)

\* A selector of a consensus context and the value the client expects.
Want(selector, value) == [selector |-> selector, value |-> value]

Refusals == {q.jobs[s].err : s \in DOMAIN q.jobs}

(***************************************************************************)
(* A refusal is true: a height is called unsynced, a snapshot not ready, a *)
(* history unavailable or a block hash different only when that was so, or *)
(* when a rollback took blocks away under the request.  In particular the  *)
(* two reads of build_snapshot_info miss each other only under a rollback. *)
(***************************************************************************)
RefusalsAreTrue ==
    /\ "HEIGHT_NOT_SYNCED" \in Refusals => Named(q.req) > MinOf(q.floor, q.lowest)
    /\ "SNAPSHOT_NOT_READY" \in Refusals => q.floor = 0 \/ q.lowest < NoRollback
    /\ "HISTORY_NOT_AVAILABLE" \in Refusals => q.req.at = 0 \/ ~Undisturbed
    /\ "BLOCK_HASH_MISMATCH" \in Refusals /\ Undisturbed =>
           Want("stable_block_hash", SubSeq(Committed, 1, q.req.at)) \notin q.req.want

(***************************************************************************)
(* A node that calls itself ready for consensus names a snapshot with its  *)
(* commit, and when no rollback came between its reads, the commit is that *)
(* of the chain at the height it names.                                    *)
(***************************************************************************)
ReadyNamesACommit ==
    q.req.kind = "readiness" =>
        \A s \in Succeeded :
            q.jobs[s].out.consensus_ready =>
                LET snap == q.jobs[s].out.snapshot
                IN  /\ snap.commit # << >>
                    /\ q.lowest = NoRollback =>
                           /\ snap.height \in q.floor..height
                           /\ snap.commit = RefCommit(Committed, snap.height)
=============================================================================
