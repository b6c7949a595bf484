------------------------ MODULE MCInscriptionIndexer ------------------------
(***************************************************************************)
(* Small instances of InscriptionIndexer: two passes, two owners, blocks   *)
(* that mint, remint with inheritance, transfer, burn, move a pass to its  *)
(* own owner and carry an invalid mint, and every valid chain of up to     *)
(* MaxHeight of them (a pass is inscribed once and moves only while it     *)
(* exists).  Balances are part of the block.                               *)
(***************************************************************************)
EXTENDS InscriptionIndexer, SequencesExt, TLC

CONSTANTS p1, p2, o1, o2, Bodies, MovesOfConsumed

Mint(p, o, prev) == [op |-> "mint", pass |-> p, owner |-> o, prev |-> prev]
Invalid(p, o)    == [op |-> "invalid", pass |-> p, owner |-> o]
Move(p, o)       == [op |-> "move", pass |-> p, to |-> o]

Block(events, x, y) == [events |-> events, bal |-> (o1 :> x) @@ (o2 :> y)]

MintP1    == Block(<<Mint(p1, o1, <<>>)>>, 2, 1)
Sell      == Block(<<Move(p1, o2)>>, 1, 2)
Remint    == Block(<<Mint(p2, o1, <<p1>>)>>, 3, 1)
Inherit   == Block(<<Move(p1, o2), Mint(p2, o2, <<p1, p1>>)>>, 1, 2)
BurnP1    == Block(<<Move(p1, Nobody)>>, 1, 1)
SelfMove  == Block(<<Move(p1, o1)>>, 3, 1)
BadMint   == Block(<<Invalid(p2, o1)>>, 2, 2)
Other     == Block(<<Mint(p2, o2, <<p1>>)>>, 2, 2)
Empty     == Block(<<>>, 1, 1)

SafetyBodies   == {MintP1, Sell, Remint, Inherit, BurnP1, BadMint}
ReplayBodies   == {MintP1, Sell, Other, Remint}
LiveBodies     == {MintP1, SelfMove, Other}
FewBodies      == {MintP1, Sell, BadMint}

EventsOf(c) == [x \in {y \in (DOMAIN c) \X (1..MaxEvents) : y[2] <= Len(c[y[1]].events)} |->
                    c[x[1]].events[x[2]]]

Before(x, y) == x[1] < y[1] \/ (x[1] = y[1] /\ x[2] < y[2])

\* A pass is inscribed once, before it moves; a burned one moves no more.
ValidChain(c) ==
    LET E == EventsOf(c)
    IN  \A x \in DOMAIN E :
          /\ E[x].op # "move" =>
                \A y \in DOMAIN E : y # x /\ E[y].pass = E[x].pass => E[y].op = "move"
          /\ E[x].op = "move" =>
                /\ \E y \in DOMAIN E : Before(y, x) /\ E[y].pass = E[x].pass /\ E[y].op # "move"
                /\ ~\E y \in DOMAIN E : Before(y, x) /\ E[y] = Move(E[x].pass, Nobody)
                /\ MovesOfConsumed \/
                   ~\E y \in DOMAIN E : Before(y, x) /\ E[y].op = "mint" /\ E[x].pass \in Range(E[y].prev)

MCChains == {c \in UNION {[1..n -> Bodies] : n \in 0..MaxHeight} : ValidChain(c)}

AnyPC == PCs

\* The pcs between the last block of a pass and the drift check of the next.
BeforeCheck == {"sync_once", "latest", "detect", "anchor", "backfill", "wait", "down"}

\* Only sync_once and wait_for_new_blocks read the polled snapshot; a poll in
\* between commutes with the steps up to the next read.
PollBeforeRead == status' # status => pc \in {"sync_once", "latest", "wait", "down"}

-----------------------------------------------------------------------------
(* The reference: the committed blocks executed one after another, from    *)
(* empty stores, by an indexer that never fails.                           *)

\* The events of the last block of c that a tracker without gaps reports.
TrackedEvents(c) ==
    LET E == EventsOf(c)
        h == Len(c)
        sat(i) == Cardinality({x \in DOMAIN E : ~Before(<<h, i>>, x) /\ E[x].op = "move"
                                                /\ E[x].pass = E[<<h, i>>].pass})
        seen == [i \in DOMAIN c[h].events |->
                    LET e == c[h].events[i]
                    IN  IF e.op = "move"
                        THEN [op |-> "move", pass |-> e.pass, to |-> e.to, sat |-> sat(i)]
                        ELSE e]
    IN  SelectSeq(seen, LAMBDA e : e.op # "invalid")

\* One event, then one block, of a run: st holds the stores before it.
RunEvent(st, c, e) == execute(st.db, st.rec, BalancesOf(c), e, Len(c))

RunEvents(st, c, evs) ==
    LET run[i \in 0..Len(evs)] == IF i = 0 THEN st ELSE RunEvent(run[i - 1], c, evs[i])
    IN  run[Len(evs)]

RunInvalid(st, c) ==
    [st EXCEPT !.db = on_invalid_mint_pass(@, {e \in Range(Last(c).events) : e.op = "invalid"}, Len(c))]

RunSettle(st, c) ==
    [st EXCEPT !.rec = [p \in Passes |->
        LET o == st.db.passes[p].owner
        IN  IF st.db.passes[p].state # "active" THEN @[p]
            ELSE apply_active_balance_change(@, p, Len(c), Last(c).bal[o],
                                             DeltaAt(BalancesOf(c), o, Len(c)))[p]]]

\* The stores of a run that has executed the blocks of c and nothing else.
FreshRun[c \in MCChains] ==
    IF Len(c) < Genesis THEN [db |-> EmptyStore, rec |-> EmptyEnergy.rec]
    ELSE RunSettle(RunInvalid(RunEvents(FreshRun[Front(c)], c, TrackedEvents(c)), c), c)

\* For every chain of the instance, the stores of its run and what its last block reports.
FreshRuns ==
    [c \in MCChains |->
        FreshRun[c] @@ [muts |-> IF c = <<>> THEN <<>> ELSE TrackedEvents(c)]]

(***************************************************************************)
(* The stores are a function of the blocks they have committed: rows,      *)
(* history, energy records and mutation lists are what a run that never    *)
(* failed, restarted or saw another chain would hold at the same height.   *)
(***************************************************************************)
StoreIsFreshRun ==
    Settled /\ pc \in {"begin", "anchor", "backfill", "wait"} /\ conn.synced >= Genesis =>
        LET h == conn.synced
            c == conn.commits[h].up
            r == FreshRuns[c]
        IN  /\ conn.passes = r.db.passes
            /\ conn.hist = r.db.hist
            /\ en.rec = r.rec
            /\ \A k \in Genesis..h : /\ conn.commits[k].up = Prefix(c, k)
                                     /\ conn.commits[k].muts = FreshRuns[Prefix(c, k)].muts
=============================================================================
