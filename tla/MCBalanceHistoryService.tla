----------------------- MODULE MCBalanceHistoryService -----------------------
(***************************************************************************)
(* A small instance of BalanceHistoryService: the chains of                *)
(* MCBalanceHistory and a list of requests that has every RPC, with        *)
(* heights and ranges below, at and above the tip.                         *)
(***************************************************************************)
EXTENDS BalanceHistoryService, MCBalanceHistory

-----------------------------------------------------------------------------
(* Requests *)

Ask(kind, subjects) ==
    [kind |-> kind, subjects |-> subjects, by |-> "latest", at |-> 0, from |-> 0, to |-> 0,
     bucket |-> 1, contextAt |-> None, want |-> {}]

AtHeight(r, h) == [r EXCEPT !.by = "height", !.at = h]

Over(r, from, to) == [r EXCEPT !.by = "range", !.from = from, !.to = to]

First == [created |-> {o1}, spent |-> {}]
Second == [created |-> {o2}, spent |-> {o1}]
Other == [created |-> {o3, o4}, spent |-> {o4}]

\* Two branches that part above height 1, and their prefixes.
ServiceChains == {c \in MCChains : \E d \in {<<First, Second, Other>>, <<First, Other, Second>>} :
                                      c = SubSeq(d, 1, Len(c))}

StateRequests ==
    LET ref(h, w) == [AtHeight(Ask("state_ref", {None}), h) EXCEPT !.contextAt = h, !.want = w]
    IN  {Ask("height", {None}), Ask("sync_status", {None}), Ask("snapshot_info", {None}),
         Ask("readiness", {None}),
         ref(0, {}), ref(2, {Want("stable_block_hash", <<First, Second>>)}),
         ref(2, {Want("snapshot_id", <<First, Second>>), Want("stable_height", 2)}),
         ref(1, {Want("version", "other")}), [ref(1, {}) EXCEPT !.contextAt = 2],
         AtHeight(Ask("commit", {None}), 2), Ask("utxo", {o1, o3})}

BalanceRequests ==
    {AtHeight(Ask("balance", {a, b}), 2), Over(Ask("balance", {b}), 1, 4),
     Over(Ask("balance", {a, b}), 2, 2), Ask("balance", {a, b}),
     AtHeight(Ask("delta", {a, b}), 2), Over(Ask("delta", {a}), 2, 4), Over(Ask("delta", {a}), 3, 2),
     Ask("delta", {a})}

AggregateRequests ==
    {Over(Ask("summary", {a}), 0, 3), Over(Ask("summary", {b}), 2, 4),
     Over(Ask("summary", {b}), 2, 2),
     [Over(Ask("timeseries", {a}), 1, 4) EXCEPT !.bucket = 2],
     [Over(Ask("timeseries", {b}), 2, 3) EXCEPT !.bucket = 0],
     Over(Ask("timeseries", {b}), 2, 4),
     [Over(Ask("flow", {a}), 0, 4) EXCEPT !.bucket = 3],
     Over(Ask("flow", {b}), 1, 3), Over(Ask("flow", {b}), 0, 3)}

AllRequests == StateRequests \union BalanceRequests \union AggregateRequests

WhileWaiting == {"wait"}

\* A handler's reads commute with the steps of the loop that change nothing it reads,
\* so it is enough to let it read at these points: before and after every flush and
\* every undone block, and around the flags of a rollback.
BetweenWrites == {"sync_once", "mark", "put_next", "plan", "prune", "wait"}

\* An answer is looked at when it is given; handlers do not read the caches, a crash
\* ends a request unanswered, and the stop flag matters to readiness only.
Relevant ==
    /\ Done => q' = Idle
    /\ faults' # faults => q.jobs = << >> \/ \E s \in DOMAIN q.jobs : q.jobs[s].step = "flags"
    /\ cacheVars' # cacheVars => pc' # pc
    /\ chain' # chain => pc = "wait"
    /\ shutdown' # shutdown => pc = "wait" /\ q = Idle
    /\ shutdown /\ q = Idle /\ q' # q => q'.req.kind = "readiness"
    /\ shutdown => UNCHANGED vars

=============================================================================
