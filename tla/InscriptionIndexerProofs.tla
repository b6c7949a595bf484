----------------------- MODULE InscriptionIndexerProofs -----------------------
(***************************************************************************)
(* Theorems about InscriptionIndexer, for any passes, owners, chains,      *)
(* genesis height and number of reorganisations and faults of any kind, at *)
(* any point of the sync task.                                             *)
(***************************************************************************)
EXTENDS InscriptionIndexer, MinerPassProofs

\* The height of the last block, genesis - 1 when there is none.
Tip(db) == MaxOf(db.synced, Floor)

\* At every height an owner has one active pass at most.
OneActiveAt(db, h) ==
    \A p, q \in Passes :
        /\ RowAt(db.hist, p, h).state = "active" /\ RowAt(db.hist, q, h).state = "active"
        /\ RowAt(db.hist, p, h).owner = RowAt(db.hist, q, h).owner
        => p = q

\* Balance snapshots exist for the blocks of the store and for no other height.
SettledUpTo(db, t) == \A k \in Heights : db.settled[k] # NoSnapshot <=> k \in Genesis..t

\* What the durable store satisfies after every commit, rollback and recovery.
DurableOK(db) ==
    /\ db.synced = 0 \/ db.synced >= Floor
    /\ db.pending # NoHeight => db.pending = db.synced /\ db.synced >= Floor
    /\ TablesOK(db, Tip(db))
    /\ NoDataAfter(db, Tip(db))
    /\ \A p \in Passes, k \in Heights : k < Genesis => db.hist[p][k] = NoRow
    /\ SettledUpTo(db, Tip(db))
    /\ \A h \in Heights : OneActiveAt(db, h)

\* What the connection holds beyond it while a block is open.
BlockOK ==
    /\ pc = "collect" => conn = disk
    /\ TablesOK(conn, loc.blk)
    /\ OneActiveNow(conn)
    /\ NeverRevived(disk, conn)
    /\ \A p \in Passes, k \in Heights : k # loc.blk => conn.hist[p][k] = disk.hist[p][k]
    /\ \A k \in Heights : k # loc.blk => /\ conn.commits[k] = disk.commits[k]
                                         /\ conn.settled[k] = disk.settled[k]
    /\ conn.anchor = disk.anchor /\ conn.anchors = disk.anchors /\ conn.pending = disk.pending
    /\ conn.synced = IF pc = "commit" THEN loc.blk ELSE disk.synced
    /\ pc \notin {"collect", "exec", "settle"} => conn.settled[loc.blk] # NoSnapshot

\* The pcs at which the events of the open block are being, or have been, executed.
Written == {"exec", "settle", "finalize", "persist", "publish", "synced", "commit"}

\* Where the sync task is relative to the durable store.
ControlOK ==
    /\ pc \notin InBlock => conn = disk
    /\ pc \in {"detect", "ancestor", "rollback", "check", "plan", "begin", "anchor", "backfill"}
              \cup InBlock => disk.pending = NoHeight
    /\ pc \in {"resume_energy", "reload", "clear"} => disk.pending # NoHeight
    /\ pc \in {"detect", "ancestor", "rollback", "check", "plan"} =>
          loc.cur = Tip(disk) /\ loc.latest >= Genesis
    /\ pc \in {"resume", "resume_energy", "reload", "clear"} /\ loc.after = "check" =>
          loc.latest >= Genesis
    /\ pc \in {"ancestor", "rollback"} => loc.target \in Floor..Tip(disk) /\ Tip(disk) >= Genesis
    /\ pc \in InBlock \cup {"begin"} => loc.blk = Tip(disk) + 1 /\ loc.blk <= loc.latest
    /\ pc \in {"anchor", "backfill"} => loc.cur = disk.synced /\ disk.synced >= Genesis
    /\ pc \in Written \ {"synced", "commit"} => staged \in TrackMaps

NoRecordsAfter(rec, h) == \A p \in Passes, k \in Heights : k > h => rec[p][k] = NoRecord

\* The two stores agree at every height the pass store has committed.
DurableAgrees == \A k \in Genesis..disk.synced, p \in Passes : Agrees(RowAt(disk.hist, p, k), en.rec, p, k)

\* The energy store runs ahead of the pass store only by the block its marker names
\* or by the open block.
EnergyOK ==
    /\ RecordsOK(en.rec)
    /\ en.pending # NoHeight => en.pending > Tip(disk)
    /\ DurableAgrees
    /\ pc \in {"plan", "begin", "collect"} => NoRecordsAfter(en.rec, Tip(disk))
    /\ pc \in Written => NoRecordsAfter(en.rec, loc.blk) /\ AllAgree(conn, en.rec, loc.blk)
    /\ disk.synced >= Floor /\ en.synced # NoHeight => en.synced >= disk.synced
    /\ pc \in {"persist", "publish", "synced", "commit"} => en.synced = loc.blk /\ en.pending = NoHeight

IInv ==
    /\ TypeOK
    /\ ControlOK
    /\ DurableOK(disk)
    /\ pc \in InBlock => BlockOK
    /\ EnergyOK

-----------------------------------------------------------------------------
(* The upstream's chain and the walk over a block *)

LEMMA HeightFacts ==
    /\ Genesis \in Nat /\ Genesis >= 1 /\ Floor \in Heights /\ Floor = Genesis - 1
    /\ MaxHeight \in Nat /\ NoHeight \notin Heights /\ NoHeight = -1
    /\ Heights \subseteq Nat /\ Heights = 0..MaxHeight
BY IndexerAssumption, PassEnergyAssumption DEF Floor, Heights, NoHeight

LEMMA TipFacts ==
    ASSUME NEW db \in Stores
    PROVE  /\ Tip(db) \in Heights /\ Tip(db) >= Floor /\ Tip(db) >= db.synced
           /\ db.synced \in Heights
           /\ db.synced >= Floor => Tip(db) = db.synced
           /\ Tip(db) = db.synced \/ Tip(db) = Floor
<1>1. db.synced \in Heights
  BY DEF Stores
<1> QED
  BY <1>1, HeightFacts DEF Tip, MaxOf

LEMMA ChainFacts ==
    ASSUME NEW c \in Chains
    PROVE  /\ c \in Seq(Blocks) /\ Len(c) \in Heights /\ Len(c) \in Nat
           /\ \A k \in 1..Len(c) : c[k] \in Blocks
           /\ BalancesOf(c) \in BalanceTables(Len(c))
<1>1. c \in Seq(Blocks) /\ Len(c) <= MaxHeight
  BY ChainsAssumption
<1>2. Len(c) \in Nat /\ Len(c) \in Heights /\ \A k \in 1..Len(c) : c[k] \in Blocks
  BY <1>1, HeightFacts
<1>3. \A k \in 0..Len(c) : (IF k = 0 THEN [o \in Owners |-> 0] ELSE c[k].bal) \in [Owners -> Nat]
  <2>1. \A k \in 1..Len(c) : c[k].bal \in [Owners -> Nat]
    BY <1>2 DEF Blocks
  <2>2. [o \in Owners |-> 0] \in [Owners -> Nat]
    OBVIOUS
  <2> QED
    BY <1>2, <2>1, <2>2
<1> QED
  BY <1>1, <1>2, <1>3 DEF BalancesOf, BalanceTables

AllEvents == MintEvents \cup InvalidEvents \cup MoveEvents

LEMMA EventFacts ==
    ASSUME chain \in Chains, NEW h \in 1..Len(chain)
    PROVE  /\ Events(h) \in Seq(AllEvents) /\ Len(Events(h)) \in Nat
           /\ DOMAIN Events(h) = 1..Len(Events(h))
           /\ \A i \in 1..Len(Events(h)) : Events(h)[i] \in AllEvents
<1>1. chain[h] \in Blocks
  BY ChainFacts
<1>2. Events(h) \in Seq(AllEvents)
  BY <1>1 DEF Events, Blocks, AllEvents
<1> QED
  BY <1>2

LEMMA EventKinds ==
    ASSUME NEW e \in AllEvents
    PROVE  /\ e.pass \in Passes
           /\ e.op = "mint" => e \in MintEvents /\ e.owner \in Owners
           /\ e.op = "invalid" => e \in InvalidEvents
           /\ e.op = "move" => e \in MoveEvents /\ e.to \in Owners \cup {Nobody}
           /\ e.op = "mint" \/ e.op = "invalid" \/ e.op = "move"
BY DEF AllEvents, MintEvents, InvalidEvents, MoveEvents

LEMMA ChainSatNat ==
    ASSUME NEW p, NEW h \in Nat, NEW i
    PROVE  ChainSat(p, h, i) \in Nat
<1> DEFINE T == (1..h) \X (1..MaxEvents)
           S == {x \in T : /\ x[2] <= Len(Events(x[1]))
                           /\ x[1] < h \/ x[2] < i
                           /\ Events(x[1])[x[2]].op = "move"
                           /\ Events(x[1])[x[2]].pass = p}
<1>1. IsFiniteSet(1..h) /\ IsFiniteSet(1..MaxEvents)
  BY IndexerAssumption, FS_Interval
<1>2. IsFiniteSet(T)
  BY <1>1, FS_Product
<1>3. S \subseteq T
  OBVIOUS
<1>4. IsFiniteSet(S)
  BY <1>2, <1>3, FS_Subset
<1>5. Cardinality(S) \in Nat
  BY <1>4, FS_CardinalityType
<1> QED
  BY <1>5 DEF ChainSat

\* What a walk carries from event to event.
Walks == [map : TrackMaps, items : Seq(ProcessEvents)]

LEMMA SeededType ==
    ASSUME chain \in Chains, tracker \in TrackMaps, NEW h \in 1..Len(chain)
    PROVE  Seeded(h) \in TrackMaps
<1> DEFINE Cell == [sat : Nat \cup {NoHeight}, owner : Owners \cup {Nobody}]
           M(p, i) == Events(h)[i].op = "mint" /\ Events(h)[i].pass = p
           I(p) == CHOOSE j \in DOMAIN Events(h) : M(p, j)
<1>1. ASSUME NEW p \in Passes, \E i \in DOMAIN Events(h) : M(p, i)
      PROVE  [sat |-> 0, owner |-> Events(h)[I(p)].owner] \in Cell
  <2>1. I(p) \in DOMAIN Events(h) /\ Events(h)[I(p)].op = "mint"
    BY <1>1
  <2> HIDE DEF I
  <2>2. Events(h)[I(p)] \in AllEvents
    BY <2>1, EventFacts
  <2>3. Events(h)[I(p)].owner \in Owners
    BY <2>1, <2>2, EventKinds
  <2> QED
    BY <2>3
<1>2. \A p \in Passes : tracker[p] \in Cell
  BY DEF TrackMaps
<1>3. \A p \in Passes : Seeded(h)[p] \in Cell
  BY <1>1, <1>2 DEF Seeded
<1>4. Seeded(h) = [p \in Passes |-> Seeded(h)[p]]
  BY DEF Seeded
<1> HIDE DEF Cell
<1>5. Seeded(h) \in [Passes -> Cell]
  BY <1>3, <1>4
<1> QED
  BY <1>5 DEF TrackMaps, Cell

LEMMA WalkStepType ==
    ASSUME chain \in Chains, NEW h \in 1..Len(chain), NEW i \in 1..Len(Events(h)), NEW b \in Walks
    PROVE  WalkStep(b, h, i) \in Walks
<1> DEFINE e   == Events(h)[i]
           sat == b.map[e.pass].sat
           c   == ChainSat(e.pass, h, i)
<1>0. b.map \in TrackMaps /\ b.items \in Seq(ProcessEvents)
  BY DEF Walks
<1>1. e \in AllEvents
  BY EventFacts
<1>2. c \in Nat
  BY ChainFacts, ChainSatNat
<1>3. CASE e.op = "mint"
  <2>1. WalkStep(b, h, i) = [map |-> b.map, items |-> Append(b.items, e)]
    BY <1>3 DEF WalkStep
  <2>2. e \in ProcessEvents
    BY <1>1, <1>3, EventKinds DEF ProcessEvents
  <2> HIDE DEF e
  <2>3. Append(b.items, e) \in Seq(ProcessEvents)
    BY <1>0, <2>2
  <2> QED
    BY <1>0, <2>1, <2>3 DEF Walks
<1>4. CASE e.op = "invalid"
  BY <1>4 DEF WalkStep
<1>5. CASE e.op = "move" /\ sat # c
  BY <1>5 DEF WalkStep
<1>6. CASE e.op = "move" /\ sat = c
  <2> DEFINE cell == IF e.to = Nobody THEN NotTracked ELSE [sat |-> sat + 1, owner |-> e.to]
             item == [op |-> "move", pass |-> e.pass, to |-> e.to, sat |-> sat + 1]
             map2 == [b.map EXCEPT ![e.pass] = cell]
  <2>1. WalkStep(b, h, i) = [map |-> map2, items |-> Append(b.items, item)]
    BY <1>6 DEF WalkStep
  <2>2. e.pass \in Passes /\ e.to \in Owners \cup {Nobody} /\ sat + 1 \in Nat
    BY <1>1, <1>2, <1>6, EventKinds
  <2> HIDE DEF e, sat, c
  <2>3. cell \in [sat : Nat \cup {NoHeight}, owner : Owners \cup {Nobody}]
    BY <2>2 DEF NotTracked
  <2>4. item \in ProcessEvents
    BY <2>2 DEF ProcessEvents
  <2> HIDE DEF cell, item
  <2>5. map2 \in TrackMaps
    BY <1>0, <2>2, <2>3 DEF TrackMaps
  <2>6. Append(b.items, item) \in Seq(ProcessEvents)
    BY <1>0, <2>4
  <2> QED
    BY <2>1, <2>5, <2>6 DEF Walks
<1> QED
  BY <1>1, <1>3, <1>4, <1>5, <1>6, EventKinds

\* The recursion of Walk, as an equation; it has a solution of the right type.
WalkFrom(w, h, n) ==
    w = [i \in 0..n |-> IF i = 0 THEN [map |-> Seeded(h), items |-> <<>>] ELSE WalkStep(w[i - 1], h, i)]

LEMMA WalkExists ==
    ASSUME NEW h, NEW n \in Nat
    PROVE  \E w : WalkFrom(w, h, n)
<1> DEFINE z == [map |-> Seeded(h), items |-> <<>>]
           Solves(w, m) == \A i \in 0..m : w[i] = IF i = 0 THEN z ELSE WalkStep(w[i - 1], h, i)
           E(m) == \E w : Solves(w, m)
           T == {m \in Nat : ~E(m)}
<1> HIDE DEF z
<1>1. T = {}
  <2> SUFFICES ASSUME T # {} PROVE FALSE
    OBVIOUS
  <2>1. PICK m \in T : \A k \in T : m <= k
    BY LeastElement
  <2>2. CASE m = 0
    <3> DEFINE g == [i \in {0} |-> z]
    <3>1. Solves(g, m)
      BY <2>2
    <3> QED
      BY <3>1, <2>1
  <2>3. CASE m # 0
    <3>a. m \in Nat
      BY <2>1
    <3>b. m - 1 \in Nat /\ ~(m <= m - 1)
      BY <2>3, <3>a
    <3>1. m - 1 \in Nat /\ m - 1 \notin T
      <4> HIDE DEF T
      <4> QED
        BY <2>1, <3>b
    <3>2. PICK g : Solves(g, m - 1)
      BY <3>1
    <3> DEFINE w == [i \in 0..m |-> IF i = m THEN WalkStep(g[m - 1], h, m) ELSE g[i]]
    <3>3. \A i \in 0..(m - 1) : w[i] = g[i]
      BY <3>b
    <3>4. ASSUME NEW i \in 0..m PROVE w[i] = IF i = 0 THEN z ELSE WalkStep(w[i - 1], h, i)
      <4>1. CASE i = m
        <5>1. w[m] = WalkStep(g[m - 1], h, m) /\ w[m - 1] = g[m - 1]
          BY <3>a, <3>b, <3>3
        <5> QED
          BY <4>1, <5>1, <2>3
      <4>2. CASE i < m /\ i > 0
        <5>1. w[i] = g[i] /\ w[i - 1] = g[i - 1] /\ i \in 0..(m - 1)
          BY <4>2, <3>3, <3>a
        <5> QED
          BY <5>1, <4>2, <3>2
      <4>3. CASE i = 0
        <5>1. w[0] = g[0] /\ 0 \in 0..(m - 1)
          BY <3>b, <3>3
        <5> QED
          BY <5>1, <4>3, <3>2
      <4> QED
        BY <3>a, <4>1, <4>2, <4>3
    <3>5. E(m)
      BY <3>4
    <3> QED
      BY <3>5, <2>1
  <2> QED
    BY <2>2, <2>3
<1>2. E(n)
  BY <1>1
<1>3. PICK g : Solves(g, n)
  BY <1>2
<1> DEFINE w == [i \in 0..n |-> g[i]]
<1>4. \A i \in 0..n : w[i] = IF i = 0 THEN z ELSE WalkStep(w[i - 1], h, i)
  <2> SUFFICES ASSUME NEW i \in 0..n PROVE w[i] = IF i = 0 THEN z ELSE WalkStep(w[i - 1], h, i)
    OBVIOUS
  <2>1. w[i] = g[i] /\ (i # 0 => w[i - 1] = g[i - 1])
    OBVIOUS
  <2> QED
    BY <2>1, <1>3
<1>5. WalkFrom(w, h, n)
  BY <1>4 DEF WalkFrom, z
<1> QED
  BY <1>5

LEMMA WalkType ==
    ASSUME chain \in Chains, tracker \in TrackMaps, NEW h \in 1..Len(chain)
    PROVE  Walk(h) \in Walks
<1> DEFINE n == Len(Events(h))
           w == CHOOSE v : WalkFrom(v, h, n)
           T == {i \in 0..n : w[i] \notin Walks}
<1>0. n \in Nat
  BY EventFacts
<1>1. Walk(h) = w[n]
  BY DEF Walk, WalkFrom
<1>2. WalkFrom(w, h, n)
  BY <1>0, WalkExists
<1> HIDE DEF w
<1>3. /\ w[0] = [map |-> Seeded(h), items |-> <<>>]
      /\ \A i \in 1..n : w[i] = WalkStep(w[i - 1], h, i)
  BY <1>0, <1>2 DEF WalkFrom
<1>4. w[0] \in Walks
  <2>1. Seeded(h) \in TrackMaps
    BY SeededType
  <2> QED
    BY <1>3, <2>1 DEF Walks
<1>5. T = {}
  <2> SUFFICES ASSUME T # {} PROVE FALSE
    OBVIOUS
  <2>0. T \subseteq Nat
    BY <1>0
  <2>1. PICK m \in T : \A k \in T : m <= k
    BY <2>0, LeastElement
  <2>2. m \in 1..n /\ w[m] \notin Walks
    BY <1>0, <1>4, <2>1
  <2>3. m - 1 \in 0..n /\ ~(m <= m - 1)
    BY <1>0, <2>2
  <2>4. m - 1 \notin T
    <3> HIDE DEF T
    <3> QED
      BY <2>1, <2>3
  <2>5. w[m - 1] \in Walks
    BY <2>3, <2>4
  <2>6. WalkStep(w[m - 1], h, m) \in Walks
    BY <2>2, <2>5, WalkStepType
  <2> QED
    BY <1>3, <2>2, <2>6
<1> QED
  BY <1>0, <1>1, <1>5

-----------------------------------------------------------------------------
(* The writes of a block, action by action *)

LEMMA ExecuteWrites ==
    ASSUME IInv, ExecuteEvent
    PROVE  /\ TablesStep(conn', conn, loc.blk)
           /\ EnergyStep(en'.rec, en.rec, loc.blk)
           /\ AllAgree(conn', en'.rec, loc.blk)
           /\ en' \in EnergyStores /\ en'.pending = en.pending /\ en'.synced = en.synced
           /\ Head(loc.todo) \in ProcessEvents /\ Tail(loc.todo) \in Seq(ProcessEvents)
<1> DEFINE e == Head(loc.todo)
           r == execute(conn, en.rec, Balances, e, loc.blk)
           n == Len(chain)
<1>1. /\ pc = "exec" /\ loc.todo # <<>> /\ ~ExecuteFails
      /\ conn' = r.db /\ en' = [en EXCEPT !.rec = r.rec]
  BY DEF ExecuteEvent
<1>2. loc.todo \in Seq(ProcessEvents) /\ loc.blk \in Heights /\ en \in EnergyStores /\ chain \in Chains
  BY DEF IInv, TypeOK, Locals
<1>3. e \in ProcessEvents /\ Tail(loc.todo) \in Seq(ProcessEvents)
  BY <1>1, <1>2
<1>4. TablesOK(conn, loc.blk) /\ OneActiveNow(conn)
  BY <1>1 DEF IInv, InBlock, BlockOK
<1>5. RecordsOK(en.rec) /\ AllAgree(conn, en.rec, loc.blk)
  BY <1>1 DEF IInv, EnergyOK, Written
<1>6. ~RowRefused(conn, e) /\ (NeedsBalance(conn, en.rec, e, loc.blk) => loc.blk <= n)
  BY <1>1 DEF ExecuteFails, HasBlock
<1>7. n \in Nat /\ Balances \in BalanceTables(n)
  BY <1>2, ChainFacts DEF Balances
<1> HIDE DEF e, n
<1>8. TablesStep(r.db, conn, loc.blk)
  BY <1>2, <1>3, <1>4, <1>6, ExecuteOK
<1>9. EnergyStep(r.rec, en.rec, loc.blk) /\ AllAgree(r.db, r.rec, loc.blk)
  BY <1>2, <1>3, <1>4, <1>5, <1>6, <1>7, ExecuteEnergy
<1> HIDE DEF r
<1>10. r.rec \in RecordTables
  BY <1>9 DEF EnergyStep, RecordsOK
<1>11. /\ en' \in EnergyStores /\ en'.rec = r.rec
       /\ en'.pending = en.pending /\ en'.synced = en.synced
  BY <1>1, <1>2, <1>10 DEF EnergyStores
<1> QED
  BY <1>1, <1>3, <1>8, <1>9, <1>11 DEF e

LEMMA InvalidWrites ==
    ASSUME IInv, RecordInvalidMints
    PROVE  TablesStep(conn', conn, loc.blk) /\ AllAgree(conn', en.rec, loc.blk)
<1>1. /\ pc = "exec" /\ ~\E e \in loc.bad : RowRefused(conn, e)
      /\ conn' = on_invalid_mint_pass(conn, loc.bad, loc.blk)
  BY DEF RecordInvalidMints
<1>2. loc.bad \in SUBSET InvalidEvents /\ loc.blk \in Heights
  BY DEF IInv, TypeOK, Locals
<1>3. TablesOK(conn, loc.blk) /\ OneActiveNow(conn) /\ AllAgree(conn, en.rec, loc.blk)
  BY <1>1 DEF IInv, InBlock, BlockOK, EnergyOK, Written
<1>4. \A e \in loc.bad : conn.passes[e.pass] = NoRow
  <2>1. \A e \in loc.bad : e.op = "invalid"
    BY <1>2 DEF InvalidEvents
  <2> QED
    BY <1>1, <2>1 DEF RowRefused
<1>5. /\ TablesStep(conn', conn, loc.blk)
      /\ \A q \in Passes : conn'.passes[q] = conn.passes[q] \/ conn'.passes[q].state = "invalid"
  BY <1>1, <1>2, <1>3, <1>4, InvalidOK
<1>6. AllAgree(conn', en.rec, loc.blk)
  BY <1>3, <1>5 DEF AllAgree, Agrees
<1> QED
  BY <1>5, <1>6

LEMMA CollectTypes ==
    ASSUME IInv, CollectBlock
    PROVE  /\ staged' \in TrackMaps
           /\ loc' \in Locals /\ loc'.blk = loc.blk /\ loc'.latest = loc.latest
<1> DEFINE w == Walk(loc.blk)
           B == {e \in Range(Events(loc.blk)) : e.op = "invalid"}
<1>1. /\ pc = "collect" /\ loc.blk <= Len(chain)
      /\ staged' = w.map /\ loc' = [loc EXCEPT !.todo = w.items, !.bad = B]
  BY DEF CollectBlock, CanCollect, HasBlock
<1>2. chain \in Chains /\ tracker \in TrackMaps /\ loc \in Locals /\ disk \in Stores
  BY DEF IInv, TypeOK
<1>3. loc.blk \in Heights /\ loc.blk = Tip(disk) + 1
  BY <1>1, <1>2 DEF IInv, ControlOK, InBlock, Locals
<1>4. loc.blk \in 1..Len(chain)
  BY <1>1, <1>2, <1>3, TipFacts, ChainFacts, HeightFacts
<1>5. w \in Walks
  BY <1>2, <1>4, WalkType
<1>6. B \in SUBSET InvalidEvents
  <2>1. \A i \in DOMAIN Events(loc.blk) : Events(loc.blk)[i] \in AllEvents
    BY <1>2, <1>4, EventFacts
  <2>2. \A e \in B : e \in AllEvents /\ e.op = "invalid"
    BY <2>1 DEF Range
  <2> QED
    BY <2>2, EventKinds
<1> HIDE DEF w, B
<1>7. w.map \in TrackMaps /\ w.items \in Seq(ProcessEvents)
  BY <1>5 DEF Walks
<1> QED
  BY <1>1, <1>2, <1>6, <1>7 DEF Locals

\* A write that leaves the pass tables alone.
LEMMA SameTables ==
    ASSUME NEW db, NEW new \in Stores, NEW b, new.passes = db.passes, new.hist = db.hist
    PROVE  /\ TablesOK(db, b) => TablesOK(new, b)
           /\ OneActiveNow(db) => OneActiveNow(new)
           /\ \A old : NeverRevived(old, db) => NeverRevived(old, new)
           /\ \A rec, h : AllAgree(db, rec, h) => AllAgree(new, rec, h)
<1>1. TablesOK(db, b) => TablesOK(new, b)
  BY DEF TablesOK, NoHistoryAfter, NoPassesAfter, RowsAreTheHistory, MintsAreOnce
<1>2. OneActiveNow(db) => OneActiveNow(new)
  BY DEF OneActiveNow
<1>3. \A old : NeverRevived(old, db) => NeverRevived(old, new)
  BY DEF NeverRevived
<1>4. \A rec, h : AllAgree(db, rec, h) => AllAgree(new, rec, h)
  BY DEF AllAgree
<1> QED
  BY <1>1, <1>2, <1>3, <1>4

Snapshots == [total : Nat, count : Nat \cup {NoHeight}]

LEMMA SnapshotWrite ==
    ASSUME NEW db \in Stores, NEW b \in Heights, NEW x \in Snapshots
    PROVE  LET new == upsert_active_balance_snapshot(db, b, x)
           IN  /\ new \in Stores
               /\ new.passes = db.passes /\ new.hist = db.hist /\ new.commits = db.commits
               /\ new.anchor = db.anchor /\ new.anchors = db.anchors
               /\ new.synced = db.synced /\ new.pending = db.pending
               /\ new.settled[b] = x
               /\ \A k \in Heights : k # b => new.settled[k] = db.settled[k]
<1> DEFINE S == [db.settled EXCEPT ![b] = x]
<1>1. upsert_active_balance_snapshot(db, b, x) = [db EXCEPT !.settled = S]
  BY DEF upsert_active_balance_snapshot
<1>2. db.settled \in [Heights -> Snapshots]
  BY DEF Stores, Snapshots
<1>3. S \in [Heights -> Snapshots] /\ S[b] = x /\ \A k \in Heights : k # b => S[k] = db.settled[k]
  BY <1>2
<1> HIDE DEF S
<1>4. [db EXCEPT !.settled = S] \in Stores
  BY <1>3 DEF Stores, Snapshots
<1>5. LET new == [db EXCEPT !.settled = S]
      IN  /\ new.settled = S
          /\ new.passes = db.passes /\ new.hist = db.hist /\ new.commits = db.commits
          /\ new.anchor = db.anchor /\ new.anchors = db.anchors
          /\ new.synced = db.synced /\ new.pending = db.pending
  BY DEF Stores
<1> QED
  BY <1>1, <1>3, <1>4, <1>5

LEMMA ActiveFacts ==
    ASSUME NEW b \in Heights, TablesOK(conn, b)
    PROVE  /\ ActiveAt(b) \in SUBSET Passes
           /\ \A p \in Passes : RowAt(conn.hist, p, b) = conn.passes[p]
           /\ \A p \in ActiveAt(b) : /\ conn.passes[p].state = "active"
                                     /\ OwnerAt(p, b) = conn.passes[p].owner
                                     /\ OwnerAt(p, b) \in Owners
           /\ \A p \in Passes \ ActiveAt(b) : conn.passes[p].state # "active"
<1>1. \A p \in Passes : RowAt(conn.hist, p, b) = conn.passes[p]
  <2>1. b >= b
    BY HeightFacts
  <2> QED
    BY <2>1, CurrentRow DEF TablesOK
<1>2. conn \in Stores
  BY DEF TablesOK
<1>3. \A p \in Passes : conn.passes[p].state = "active" => conn.passes[p].owner \in Owners
  BY <1>2, RowFields
<1> QED
  BY <1>1, <1>3 DEF ActiveAt, OwnerAt

LEMMA SettleWrites ==
    ASSUME IInv, SettleBalances
    PROVE  /\ \E x \in Snapshots : /\ x # NoSnapshot
                                   /\ conn' = upsert_active_balance_snapshot(conn, loc.blk, x)
           /\ EnergyStep(en'.rec, en.rec, loc.blk)
           /\ AllAgree(conn, en'.rec, loc.blk)
           /\ en' \in EnergyStores /\ en'.pending = en.pending /\ en'.synced = en.synced
<1> DEFINE h == loc.blk
           A == ActiveAt(h)
           bals == [p \in A |-> Balances[h][OwnerAt(p, h)]]
           x == [total |-> saturating_u128_to_u64(SumFunction(bals)), count |-> Cardinality(A)]
           one(p) == apply_active_balance_change(en.rec, p, h, Balances[h][OwnerAt(p, h)],
                                                 DeltaAt(Balances, OwnerAt(p, h), h))
           rec2 == [p \in Passes |-> IF p \notin A THEN en.rec[p] ELSE one(p)[p]]
<1>1. /\ pc = "settle" /\ ~SettleFails(h)
      /\ conn' = upsert_active_balance_snapshot(conn, h, x)
      /\ en' = [en EXCEPT !.rec = rec2]
  BY DEF SettleBalances
<1>2. h \in Heights /\ en \in EnergyStores /\ chain \in Chains /\ disk \in Stores
  BY DEF IInv, TypeOK, Locals
<1>3. TablesOK(conn, h) /\ RecordsOK(en.rec) /\ AllAgree(conn, en.rec, h)
  BY <1>1 DEF IInv, InBlock, BlockOK, EnergyOK, Written
<1>4. /\ A \in SUBSET Passes
      /\ \A p \in A : /\ conn.passes[p].state = "active"
                      /\ OwnerAt(p, h) = conn.passes[p].owner
                      /\ OwnerAt(p, h) \in Owners
      /\ \A p \in Passes \ A : conn.passes[p].state # "active"
  BY <1>2, <1>3, ActiveFacts
<1>5. A # {} => h \in 1..Len(chain)
  <2>1. A # {} => h <= Len(chain)
    BY <1>1 DEF SettleFails, HasBlock
  <2>2. h = Tip(disk) + 1
    BY <1>1 DEF IInv, ControlOK, InBlock
  <2> QED
    BY <1>2, <2>1, <2>2, ChainFacts, HeightFacts, TipFacts
<1>6. Len(chain) \in Nat /\ Balances \in BalanceTables(Len(chain))
  BY <1>2, ChainFacts DEF Balances
<1>7. \A p \in A : /\ Balances[h][OwnerAt(p, h)] \in Nat
                   /\ DeltaAt(Balances, OwnerAt(p, h), h) \in Int
  BY <1>4, <1>5, <1>6, DeltaInt
<1>8. x \in Snapshots /\ x # NoSnapshot
  <2>1. IsFiniteSet(A) /\ Cardinality(A) \in Nat
    BY <1>4, PassEnergyAssumption, FS_Subset, FS_CardinalityType
  <2>2. bals \in [A -> Nat]
    BY <1>7
  <2> HIDE DEF bals, A
  <2>3. SumFunction(bals) \in Nat
    BY <2>1, <2>2, SumNat
  <2>4. saturating_u128_to_u64(SumFunction(bals)) \in Nat
    BY <2>3, SaturatingNat
  <2>5. Cardinality(A) # NoHeight
    BY <2>1 DEF NoHeight
  <2> QED
    BY <2>1, <2>4, <2>5 DEF Snapshots, NoSnapshot
<1> HIDE DEF x, A, bals
<1>9. /\ rec2 = [p \in Passes |-> rec2[p]]
      /\ \A p \in Passes : p \notin A => rec2[p] = en.rec[p]
      /\ \A p \in A : rec2[p] = one(p)[p]
  BY <1>4
<1> HIDE DEF rec2
<1>10. ASSUME NEW p \in A
       PROVE  PassStep(rec2, en.rec, p, h) /\ Agrees(conn.passes[p], rec2, p, h)
  <2> DEFINE bb == Balances[h][OwnerAt(p, h)]
             dd == DeltaAt(Balances, OwnerAt(p, h), h)
             o  == apply_active_balance_change(en.rec, p, h, bb, dd)
  <2>0. p \in Passes /\ bb \in Nat /\ dd \in Int /\ conn.passes[p].state = "active"
    BY <1>4, <1>7
  <2>1. RecordHeights(en.rec, p, h) # {} /\ Agrees(conn.passes[p], en.rec, p, h)
    BY <1>3, <2>0 DEF AllAgree, Agrees
  <2>2. rec2[p] = o[p]
    BY <1>9
  <2> HIDE DEF bb, dd
  <2>3. /\ PassStep(o, en.rec, p, h) /\ RecordHeights(o, p, h) # {}
        /\ LastRecord(o, p, h).state = LastRecord(en.rec, p, h).state
        /\ LastRecord(o, p, h).owner = LastRecord(en.rec, p, h).owner
    BY <1>2, <1>3, <2>0, <2>1, SettleStep
  <2> HIDE DEF o
  <2>4. Agrees(conn.passes[p], o, p, h)
    BY <2>0, <2>1, <2>3 DEF Agrees
  <2> QED
    BY <2>2, <2>3, <2>4, SameRecords, AgreesCopy
<1>11. ASSUME NEW p \in Passes, p \notin A
       PROVE  PassStep(rec2, en.rec, p, h) /\ Agrees(conn.passes[p], rec2, p, h)
  <2>1. rec2[p] = en.rec[p] /\ Agrees(conn.passes[p], en.rec, p, h)
    BY <1>3, <1>9, <1>11 DEF AllAgree
  <2> QED
    BY <1>3, <2>1, NoStep, RecordsByPass, AgreesCopy
<1>12. \A p \in Passes : PassStep(rec2, en.rec, p, h) /\ Agrees(conn.passes[p], rec2, p, h)
  BY <1>10, <1>11
<1>13. RecordsOK(rec2)
  BY <1>9, <1>12, RecordsByPass DEF PassStep
<1>14. EnergyStep(rec2, en.rec, h) /\ AllAgree(conn, rec2, h)
  BY <1>12, <1>13 DEF EnergyStep, AllAgree
<1>15. /\ en' \in EnergyStores /\ en'.rec = rec2
       /\ en'.pending = en.pending /\ en'.synced = en.synced
  BY <1>1, <1>2, <1>13 DEF EnergyStores, RecordsOK
<1> QED
  BY <1>1, <1>8, <1>14, <1>15

-----------------------------------------------------------------------------
(* The other writes of the pass store *)

LEMMA CommitWrite ==
    ASSUME NEW db \in Stores, NEW b \in Heights, NEW x \in Commits
    PROVE  LET new == upsert_pass_block_commit(db, b, x)
           IN  /\ new \in Stores
               /\ new.passes = db.passes /\ new.hist = db.hist /\ new.settled = db.settled
               /\ new.anchor = db.anchor /\ new.anchors = db.anchors
               /\ new.synced = db.synced /\ new.pending = db.pending
               /\ \A k \in Heights : k # b => new.commits[k] = db.commits[k]
<1> DEFINE S == [db.commits EXCEPT ![b] = x]
<1>1. upsert_pass_block_commit(db, b, x) = [db EXCEPT !.commits = S]
  BY DEF upsert_pass_block_commit
<1>2. db.commits \in [Heights -> Commits]
  BY DEF Stores
<1>3. S \in [Heights -> Commits] /\ \A k \in Heights : k # b => S[k] = db.commits[k]
  BY <1>2
<1> HIDE DEF S
<1>4. [db EXCEPT !.commits = S] \in Stores
  BY <1>3 DEF Stores
<1>5. LET new == [db EXCEPT !.commits = S]
      IN  /\ new.commits = S
          /\ new.passes = db.passes /\ new.hist = db.hist /\ new.settled = db.settled
          /\ new.anchor = db.anchor /\ new.anchors = db.anchors
          /\ new.synced = db.synced /\ new.pending = db.pending
  BY DEF Stores
<1> QED
  BY <1>1, <1>3, <1>4, <1>5

LEMMA SyncedWrite ==
    ASSUME NEW db \in Stores, NEW b \in Heights
    PROVE  LET new == update_synced_height(db, b)
           IN  /\ new \in Stores /\ new.synced = b
               /\ new.passes = db.passes /\ new.hist = db.hist /\ new.settled = db.settled
               /\ new.commits = db.commits
               /\ new.anchor = db.anchor /\ new.anchors = db.anchors /\ new.pending = db.pending
BY DEF update_synced_height, Stores

LEMMA MarkerWrite ==
    ASSUME NEW db \in Stores
    PROVE  LET new == clear_recovery_pending(db)
           IN  /\ new \in Stores /\ new.pending = NoHeight
               /\ new.passes = db.passes /\ new.hist = db.hist /\ new.settled = db.settled
               /\ new.commits = db.commits
               /\ new.anchor = db.anchor /\ new.anchors = db.anchors /\ new.synced = db.synced
BY DEF clear_recovery_pending, Stores

LEMMA AnchorsWrite ==
    ASSUME NEW db \in Stores, NEW b \in Heights, NEW x \in Seq(Blocks)
    PROVE  LET new == upsert_snapshot_history_entry(db, b, x)
           IN  /\ new \in Stores
               /\ new.anchors = [db.anchors EXCEPT ![b] = x]
               /\ new.passes = db.passes /\ new.hist = db.hist /\ new.settled = db.settled
               /\ new.commits = db.commits
               /\ new.anchor = db.anchor /\ new.synced = db.synced /\ new.pending = db.pending
<1> DEFINE S == [db.anchors EXCEPT ![b] = x]
<1>1. upsert_snapshot_history_entry(db, b, x) = [db EXCEPT !.anchors = S]
  BY DEF upsert_snapshot_history_entry
<1>2. db.anchors \in [Heights -> Seq(Blocks)]
  BY DEF Stores
<1>3. S \in [Heights -> Seq(Blocks)]
  BY <1>2
<1> HIDE DEF S
<1>4. [db EXCEPT !.anchors = S] \in Stores
  BY <1>3 DEF Stores
<1>5. LET new == [db EXCEPT !.anchors = S]
      IN  /\ new.anchors = S
          /\ new.passes = db.passes /\ new.hist = db.hist /\ new.settled = db.settled
          /\ new.commits = db.commits
          /\ new.anchor = db.anchor /\ new.synced = db.synced /\ new.pending = db.pending
  BY DEF Stores
<1> QED
  BY <1>1, <1>4, <1>5 DEF S

LEMMA AnchorWrite ==
    ASSUME NEW db \in Stores, NEW x \in Seq(Blocks), Len(x) \in Heights
    PROVE  LET new == upsert_snapshot_anchor(db, x)
           IN  /\ new \in Stores
               /\ new.anchors = [db.anchors EXCEPT ![Len(x)] = x]
               /\ new.anchor = x /\ new.synced = Len(x)
               /\ new.passes = db.passes /\ new.hist = db.hist /\ new.settled = db.settled
               /\ new.commits = db.commits /\ new.pending = db.pending
<1> DEFINE mid == upsert_snapshot_history_entry(db, Len(x), x)
           new == [mid EXCEPT !.anchor = x, !.synced = Len(x)]
<1>1. upsert_snapshot_anchor(db, x) = new
  BY DEF upsert_snapshot_anchor
<1>2. /\ mid \in Stores
      /\ mid.anchors = [db.anchors EXCEPT ![Len(x)] = x]
      /\ mid.passes = db.passes /\ mid.hist = db.hist /\ mid.settled = db.settled
      /\ mid.commits = db.commits /\ mid.pending = db.pending
  BY AnchorsWrite
<1> HIDE DEF mid
<1>3. /\ new \in Stores /\ new.anchor = x /\ new.synced = Len(x)
      /\ new.anchors = mid.anchors
      /\ new.passes = mid.passes /\ new.hist = mid.hist /\ new.settled = mid.settled
      /\ new.commits = mid.commits /\ new.pending = mid.pending
  BY <1>2 DEF Stores
<1> QED
  BY <1>1, <1>2, <1>3

LEMMA PrefixFacts ==
    ASSUME NEW c \in Chains, NEW h \in Nat, h <= Len(c)
    PROVE  Prefix(c, h) \in Seq(Blocks) /\ Len(Prefix(c, h)) = h
<1>1. c \in Seq(Blocks) /\ Len(c) \in Nat
  BY ChainFacts
<1> QED
  BY <1>1 DEF Prefix

-----------------------------------------------------------------------------
(* Types *)

LEMMA NoLocalsType == NoLocals \in Locals
BY HeightFacts DEF NoLocals, Locals, Heights

LEMMA NoTrackingType == NoTracking \in TrackMaps
BY DEF NoTracking, TrackMaps, NotTracked

LEMMA EmptyTypes == EmptyStore \in Stores /\ EmptyEnergy \in EnergyStores /\ RecordsOK(EmptyEnergy.rec)
<1>1. /\ EmptyStore.passes \in RowTables /\ EmptyStore.hist \in Histories
      /\ EmptyStore.commits \in [Heights -> Commits]
      /\ EmptyStore.settled \in [Heights -> [total : Nat, count : Nat \cup {NoHeight}]]
      /\ EmptyStore.anchors \in [Heights -> Seq(Blocks)]
      /\ EmptyStore.anchor \in Seq(Blocks)
      /\ EmptyStore.synced \in Heights
      /\ EmptyStore.pending \in Heights \cup {NoHeight}
  BY NoneTypes, HeightFacts DEF EmptyStore, RowTables, Histories
<1>2. EmptyStore \in Stores
  BY <1>1 DEF EmptyStore, Stores
<1>3. EmptyEnergy \in EnergyStores
  BY DEF EmptyEnergy, EnergyStores, RecordTables
<1>4. RecordsOK(EmptyEnergy.rec)
  BY <1>3 DEF EmptyEnergy, EnergyStores, RecordsOK
<1> QED
  BY <1>2, <1>3, <1>4

LEMMA ReloadType ==
    ASSUME NEW db \in Stores
    PROVE  reload_from_storage(db) \in TrackMaps
<1> DEFINE Cell == [sat : Nat \cup {NoHeight}, owner : Owners \cup {Nobody}]
<1>1. ASSUME NEW p \in Passes PROVE reload_from_storage(db)[p] \in Cell
  <2>1. CASE db.passes[p].state \in {"active", "dormant", "burned"}
    <3>1. db.passes[p] # NoRow
      BY <2>1, RowFields
    <3>2. db.passes[p].owner \in Owners /\ db.passes[p].sat \in Nat
      BY <3>1, RowFields
    <3>3. reload_from_storage(db)[p] = [sat |-> db.passes[p].sat, owner |-> db.passes[p].owner]
      BY <2>1 DEF reload_from_storage
    <3> QED
      BY <3>2, <3>3
  <2>2. CASE ~(db.passes[p].state \in {"active", "dormant", "burned"})
    BY <2>2 DEF reload_from_storage, NotTracked
  <2> QED
    BY <2>1, <2>2
<1>2. reload_from_storage(db) = [p \in Passes |-> reload_from_storage(db)[p]]
  BY DEF reload_from_storage
<1> HIDE DEF Cell
<1>3. reload_from_storage(db) \in [Passes -> Cell]
  BY <1>1, <1>2
<1> QED
  BY <1>3 DEF TrackMaps, Cell

\* abort_pending_block_sync
LEMMA AbortOK ==
    ASSUME NEW old \in EnergyStores, RecordsOK(old.rec), NEW h
    PROVE  LET new == abort_pending_block_sync(old, h)
           IN  /\ new \in EnergyStores /\ Cleared(new.rec, old.rec, h)
               /\ new.pending = NoHeight /\ new.synced = old.synced
<1> DEFINE rec == clear_records_from_height(old.rec, h)
<1>1. Cleared(rec, old.rec, h)
  BY ClearOK
<1>2. abort_pending_block_sync(old, h) = [old EXCEPT !.rec = rec, !.pending = NoHeight]
  BY DEF abort_pending_block_sync
<1> HIDE DEF rec
<1>3. rec \in RecordTables
  BY <1>1 DEF Cleared, RecordsOK
<1> QED
  BY <1>1, <1>2, <1>3 DEF EnergyStores

-----------------------------------------------------------------------------
(* Which actions write what *)

\* Every step but these leaves the durable store alone and at most drops the
\* savepoint.
LEMMA StoreWriters ==
    ASSUME [Next]_vars
    PROVE  \/ disk' = disk /\ (conn' = conn \/ conn' = disk)
           \/ ClearPending \/ RollbackPasses \/ ExecuteEvent \/ RecordInvalidMints \/ SettleBalances
           \/ PersistCommit \/ PutSyncedHeight \/ CommitSavepoint \/ PersistAnchor \/ Backfill
<1>1. CASE Upstream
  BY <1>1 DEF Upstream, ExtendChain, ReplaceChain, PollStatus, dbVars
<1>2. CASE Recovery
  BY <1>2 DEF Recovery, NothingPending, ResumePending, ResumeEnergy, ReloadTracker, NoDrift,
              DriftFound, AncestorFound, ProbeLower, ProbeFails, dbVars
<1>3. CASE SyncBlock
  BY <1>3 DEF SyncBlock, BeginBlock, CollectBlock, FinalizeEnergy, PublishTracker, dbVars
<1>4. CASE SyncOnce
  BY <1>4 DEF SyncOnce, ReadSnapshot, ReadStableHeight, CheckStores, PlanSync, SyncDone,
              KeepWaiting, WakeUp, dbVars, vars
<1>5. CASE Failures
  BY <1>5 DEF Failures, FailEarly, FailStaged, FailFinalized, FailLate, FailOutside, Crash, dbVars
<1>6. CASE Restart
  BY <1>6 DEF Restart, dbVars
<1>7. CASE UNCHANGED vars
  BY <1>7 DEF vars
<1> QED
  BY <1>1, <1>2, <1>3, <1>4, <1>5, <1>6, <1>7 DEF Next, Task

LEMMA EnergyWriters ==
    ASSUME [Next]_vars
    PROVE  \/ en' = en
           \/ ResumeEnergy \/ CheckStores \/ BeginBlock \/ ExecuteEvent \/ SettleBalances
           \/ FinalizeEnergy \/ FailStaged \/ FailFinalized \/ FailLate
<1>1. CASE Upstream
  BY <1>1 DEF Upstream, ExtendChain, ReplaceChain, PollStatus
<1>2. CASE Recovery
  BY <1>2 DEF Recovery, NothingPending, ResumePending, ReloadTracker, NoDrift, ClearPending,
              DriftFound, AncestorFound, ProbeLower, ProbeFails, RollbackPasses
<1>3. CASE SyncBlock
  BY <1>3 DEF SyncBlock, CollectBlock, PublishTracker, RecordInvalidMints, PersistCommit,
              PutSyncedHeight, CommitSavepoint
<1>4. CASE SyncOnce
  BY <1>4 DEF SyncOnce, ReadSnapshot, ReadStableHeight, PlanSync, SyncDone,
              KeepWaiting, WakeUp, PersistAnchor, Backfill, vars
<1>5. CASE Failures
  BY <1>5 DEF Failures, FailEarly, FailOutside, Crash
<1>6. CASE Restart
  BY <1>6 DEF Restart
<1>7. CASE UNCHANGED vars
  BY <1>7 DEF vars
<1> QED
  BY <1>1, <1>2, <1>3, <1>4, <1>5, <1>6, <1>7 DEF Next, Task

LEMMA InitOK == Init => IInv
<1> SUFFICES ASSUME Init PROVE IInv
  OBVIOUS
<1> USE DEF Init
<1>1. TypeOK
  <2>1. staged \in TrackMaps \cup {NoStage} /\ reorgs \in 0..MaxReorgs /\ faults \in 0..MaxFaults
    BY IndexerAssumption
  <2> QED
    BY <2>1, NoLocalsType, NoTrackingType, EmptyTypes DEF TypeOK, PCs
<1>2. /\ disk.synced = 0 /\ disk.pending = NoHeight /\ disk.anchor = <<>>
      /\ \A p \in Passes : disk.passes[p] = NoRow
      /\ \A p \in Passes, k \in Heights : disk.hist[p][k] = NoRow
      /\ \A k \in Heights : /\ disk.commits[k] = NoCommit /\ disk.settled[k] = NoSnapshot
                            /\ disk.anchors[k] = <<>>
  BY DEF EmptyStore
<1>3. Tip(disk) = Floor /\ Floor \in Heights
  BY <1>2, HeightFacts DEF Tip, MaxOf
<1>4. ControlOK
  BY DEF ControlOK, InBlock, Written
<1>5. DurableOK(disk)
  <2>0. disk \in Stores
    BY <1>1 DEF TypeOK
  <2> HIDE DEF Init
  <2>1. \A p \in Passes, h \in Heights : RowAt(disk.hist, p, h) = NoRow
    <3> SUFFICES ASSUME NEW p \in Passes, NEW h \in Heights PROVE RowAt(disk.hist, p, h) = NoRow
      OBVIOUS
    <3>1. HistHeights(disk.hist, p, h) = {}
      BY <1>2 DEF HistHeights
    <3> QED
      BY <3>1 DEF RowAt
  <2>2. \A k \in (Floor + 1)..MaxHeight : k \in Heights
    BY HeightFacts
  <2>3. NoDataAfter(disk, Floor)
    BY <1>2, <2>2, HeightFacts DEF NoDataAfter, SyncedAtMost, NoPassesAfter, NoSettledAfter,
       NoHistoryAfter, NoCommitsAfter, AnchorAtMost, NoAnchorsAfter
  <2>4. TablesOK(disk, Floor)
    <3>1. MaxHeight \in Heights
      BY HeightFacts
    <3> QED
      BY <1>2, <2>0, <2>1, <2>3, <3>1 DEF TablesOK, NoDataAfter, RowsAreTheHistory, MintsAreOnce
  <2>5. \A h \in Heights : OneActiveAt(disk, h)
    BY <2>1 DEF OneActiveAt, NoRow
  <2>6. SettledUpTo(disk, Floor)
    BY <1>2, HeightFacts DEF SettledUpTo
  <2> QED
    BY <1>2, <1>3, <2>3, <2>4, <2>5, <2>6 DEF DurableOK
<1>6. EnergyOK
  <2>1. Genesis..disk.synced = {}
    BY <1>2, HeightFacts
  <2>2. en.synced = NoHeight /\ en.pending = NoHeight
    BY DEF EmptyEnergy
  <2> QED
    BY <2>1, <2>2, EmptyTypes DEF EnergyOK, DurableAgrees, Written
<1> QED
  BY <1>1, <1>4, <1>5, <1>6 DEF IInv, InBlock

-----------------------------------------------------------------------------
(* The types are preserved *)

LEMMA StoreTypes ==
    ASSUME IInv, [Next]_vars
    PROVE  disk' \in Stores /\ conn' \in Stores
<1>0. /\ disk \in Stores /\ conn \in Stores /\ loc \in Locals /\ chain \in Chains
      /\ loc.blk \in Heights /\ loc.target \in Heights /\ loc.cur \in Heights
      /\ loc.snap \in Seq(Blocks) /\ loc.done \in Seq(ProcessEvents) /\ loc.bad \in SUBSET InvalidEvents
  BY DEF IInv, TypeOK, Locals
<1>1. CASE disk' = disk /\ (conn' = conn \/ conn' = disk)
  BY <1>0, <1>1
<1>2. CASE ClearPending
  <2>1. \/ disk' = disk /\ conn' = conn
        \/ disk' = clear_recovery_pending(conn) /\ conn' = clear_recovery_pending(conn)
    BY <1>2 DEF ClearPending, WriteBoth, dbVars
  <2> QED
    BY <1>0, <2>1, MarkerWrite
<1>3. CASE RollbackPasses
  <2>1. /\ conn = disk /\ disk' = rollback_to_block_height(conn, loc.target)
        /\ conn' = rollback_to_block_height(conn, loc.target)
    BY <1>3 DEF RollbackPasses, WriteBoth, IInv, ControlOK, InBlock
  <2>2. RowsAreTheHistory(disk) /\ MintsAreOnce(disk)
    BY DEF IInv, DurableOK, TablesOK
  <2>3. RolledBack(rollback_to_block_height(conn, loc.target), conn, loc.target)
    BY <1>0, <2>1, <2>2, RollbackFields
  <2> QED
    BY <2>1, <2>3 DEF RolledBack
<1>4. CASE ExecuteEvent
  <2>1. disk' = disk
    BY <1>4 DEF ExecuteEvent
  <2> QED
    BY <1>0, <1>4, <2>1, ExecuteWrites DEF TablesStep, TablesOK
<1>5. CASE RecordInvalidMints
  <2>1. disk' = disk
    BY <1>5 DEF RecordInvalidMints
  <2> QED
    BY <1>0, <1>5, <2>1, InvalidWrites DEF TablesStep, TablesOK
<1>6. CASE SettleBalances
  <2>1. disk' = disk
    BY <1>6 DEF SettleBalances
  <2>2. PICK x \in Snapshots : conn' = upsert_active_balance_snapshot(conn, loc.blk, x)
    BY <1>6, SettleWrites
  <2> QED
    BY <1>0, <2>1, <2>2, SnapshotWrite
<1>7. CASE PersistCommit
  <2> DEFINE x == [up |-> Prefix(chain, loc.blk), muts |-> loc.done, invalid |-> loc.bad]
  <2>1. disk' = disk /\ conn' = upsert_pass_block_commit(conn, loc.blk, x) /\ loc.blk <= Len(chain)
    BY <1>7 DEF PersistCommit, HasBlock
  <2>2. Prefix(chain, loc.blk) \in Seq(Blocks)
    BY <1>0, <2>1, PrefixFacts, HeightFacts
  <2>3. x \in Commits
    BY <1>0, <2>2 DEF Commits
  <2> HIDE DEF x
  <2> QED
    BY <1>0, <2>1, <2>3, CommitWrite
<1>8. CASE PutSyncedHeight
  <2>1. disk' = disk /\ conn' = update_synced_height(conn, loc.blk)
    BY <1>8 DEF PutSyncedHeight
  <2> QED
    BY <1>0, <2>1, SyncedWrite
<1>9. CASE CommitSavepoint
  BY <1>0, <1>9 DEF CommitSavepoint
<1>10. CASE PersistAnchor
  <2>1. \/ disk' = disk /\ conn' = conn
        \/ /\ Len(loc.snap) = loc.cur
           /\ disk' = upsert_snapshot_anchor(conn, loc.snap) /\ conn' = upsert_snapshot_anchor(conn, loc.snap)
    BY <1>10 DEF PersistAnchor, WriteBoth, dbVars
  <2>2. Len(loc.snap) = loc.cur => upsert_snapshot_anchor(conn, loc.snap) \in Stores
    BY <1>0, AnchorWrite
  <2> QED
    BY <1>0, <2>1, <2>2
<1>11. CASE Backfill
  <2> DEFINE h == Min(MissingAnchors)
  <2>1. \/ disk' = disk /\ conn' = conn
        \/ /\ h <= Len(chain) /\ MissingAnchors # {}
           /\ disk' = upsert_snapshot_history_entry(conn, h, Prefix(chain, h))
           /\ conn' = upsert_snapshot_history_entry(conn, h, Prefix(chain, h))
    BY <1>11 DEF Backfill, WriteBoth, dbVars, HasBlock
  <2>2. MissingAnchors # {} => h \in Heights
    <3>1. MissingAnchors \subseteq Heights
      BY <1>0, HeightFacts DEF MissingAnchors
    <3> QED
      BY <3>1, LeastHeight
  <2> HIDE DEF h
  <2>3. h \in Heights /\ h <= Len(chain) => Prefix(chain, h) \in Seq(Blocks)
    BY <1>0, PrefixFacts, HeightFacts
  <2> DEFINE x == Prefix(chain, h)
  <2> HIDE DEF x
  <2>4. h \in Heights /\ x \in Seq(Blocks) => upsert_snapshot_history_entry(conn, h, x) \in Stores
    BY <1>0, AnchorsWrite
  <2> QED
    BY <1>0, <2>1, <2>2, <2>3, <2>4 DEF x
<1> QED
  BY <1>1, <1>2, <1>3, <1>4, <1>5, <1>6, <1>7, <1>8, <1>9, <1>10, <1>11, StoreWriters

LEMMA EnergyTypes ==
    ASSUME IInv, [Next]_vars
    PROVE  en' \in EnergyStores /\ RecordsOK(en'.rec)
<1>0. /\ en \in EnergyStores /\ RecordsOK(en.rec) /\ disk \in Stores /\ conn \in Stores
      /\ loc.blk \in Heights /\ loc.cur \in Heights /\ disk.synced \in Heights
  BY DEF IInv, TypeOK, Locals, EnergyOK, Stores
<1>a. \A h \in Heights : /\ reconcile_with_pass_synced_height(en, h) \in EnergyStores
                         /\ RecordsOK(reconcile_with_pass_synced_height(en, h).rec)
  BY <1>0, ReconcileOK DEF Reconciled
<1>1. CASE en' = en
  BY <1>0, <1>1
<1>2. CASE ResumeEnergy
  <2>1. conn.pending \in Heights
    BY <1>0, <1>2 DEF ResumeEnergy, IInv, ControlOK, InBlock, Stores
  <2> QED
    BY <1>2, <1>a, <2>1 DEF ResumeEnergy
<1>3. CASE CheckStores
  BY <1>0, <1>3, <1>a DEF CheckStores
<1>4. CASE BeginBlock
  <2>1. en' = en \/ en' = [en EXCEPT !.pending = loc.blk]
    BY <1>4 DEF BeginBlock, begin_block_sync
  <2>2. [en EXCEPT !.pending = loc.blk] \in EnergyStores /\ [en EXCEPT !.pending = loc.blk].rec = en.rec
    BY <1>0 DEF EnergyStores
  <2> QED
    BY <1>0, <2>1, <2>2
<1>5. CASE ExecuteEvent
  BY <1>5, ExecuteWrites DEF EnergyStep
<1>6. CASE SettleBalances
  BY <1>6, SettleWrites DEF EnergyStep
<1>7. CASE FinalizeEnergy
  <2>1. en' = [en EXCEPT !.synced = loc.blk, !.pending = NoHeight]
    BY <1>7 DEF FinalizeEnergy, finalize_block_sync
  <2>2. en' \in EnergyStores /\ en'.rec = en.rec
    BY <1>0, <2>1 DEF EnergyStores
  <2> QED
    BY <1>0, <2>2
<1>8. CASE FailStaged
  <2>1. en' = abort_pending_block_sync(en, loc.blk)
    BY <1>8 DEF FailStaged
  <2> QED
    BY <1>0, <2>1, AbortOK DEF Cleared
<1>9. CASE FailFinalized \/ FailLate
  BY <1>0, <1>9, <1>a DEF FailFinalized, FailLate
<1> QED
  BY <1>1, <1>2, <1>3, <1>4, <1>5, <1>6, <1>7, <1>8, <1>9, EnergyWriters

LEMMA UpstreamTypes ==
    ASSUME IInv, [Next]_vars
    PROVE  chain' \in Chains /\ status' \in Chains /\ reorgs' \in 0..MaxReorgs
<1>0. chain \in Chains /\ status \in Chains /\ reorgs \in 0..MaxReorgs
  BY DEF IInv, TypeOK
<1>1. CASE Upstream
  BY <1>0, <1>1, IndexerAssumption DEF Upstream, ExtendChain, ReplaceChain, PollStatus
<1>2. CASE Recovery
  BY <1>0, <1>2 DEF Recovery, NothingPending, ResumePending, ResumeEnergy, ReloadTracker, ClearPending,
     NoDrift, DriftFound, AncestorFound, ProbeLower, ProbeFails, RollbackPasses, upVars
<1>3. CASE SyncBlock
  BY <1>0, <1>3 DEF SyncBlock, BeginBlock, CollectBlock, ExecuteEvent, RecordInvalidMints, SettleBalances,
     FinalizeEnergy, PersistCommit, PublishTracker, PutSyncedHeight, CommitSavepoint, upVars
<1>4. CASE SyncOnce
  BY <1>0, <1>4 DEF SyncOnce, ReadSnapshot, ReadStableHeight, CheckStores, PlanSync, PersistAnchor,
     Backfill, SyncDone, KeepWaiting, WakeUp, upVars, vars
<1>5. CASE Failures
  BY <1>0, <1>5 DEF Failures, FailEarly, FailStaged, FailFinalized, FailLate, FailOutside, Crash, upVars
<1>6. CASE Restart
  BY <1>0, <1>6 DEF Restart, upVars
<1>7. CASE UNCHANGED vars
  BY <1>0, <1>7 DEF vars
<1> QED
  BY <1>1, <1>2, <1>3, <1>4, <1>5, <1>6, <1>7 DEF Next, Task

LEMMA MemoryTypes ==
    ASSUME IInv, [Next]_vars
    PROVE  tracker' \in TrackMaps /\ staged' \in TrackMaps \cup {NoStage} /\ flag' \in BOOLEAN
<1>0. tracker \in TrackMaps /\ staged \in TrackMaps \cup {NoStage} /\ flag \in BOOLEAN /\ conn \in Stores
  BY DEF IInv, TypeOK
<1>1. CASE Upstream
  BY <1>0, <1>1 DEF Upstream, ExtendChain, ReplaceChain, PollStatus, memVars
<1>2. CASE Recovery
  BY <1>0, <1>2, ReloadType DEF Recovery, NothingPending, ResumePending, ResumeEnergy, ReloadTracker,
     ClearPending, NoDrift, DriftFound, AncestorFound, ProbeLower, ProbeFails, RollbackPasses, memVars
<1>3. CASE SyncBlock
  <2>1. CASE CollectBlock
    <3>1. tracker' = tracker /\ flag' = flag
      BY <2>1 DEF CollectBlock
    <3> QED
      BY <1>0, <2>1, <3>1, CollectTypes
  <2>2. CASE PublishTracker
    BY <1>0, <2>2 DEF PublishTracker, IInv, ControlOK, Written
  <2> QED
    BY <1>0, <1>3, <2>1, <2>2 DEF SyncBlock, BeginBlock, ExecuteEvent, RecordInvalidMints,
       SettleBalances, FinalizeEnergy, PersistCommit, PutSyncedHeight, CommitSavepoint, memVars
<1>4. CASE SyncOnce
  BY <1>0, <1>4 DEF SyncOnce, ReadSnapshot, ReadStableHeight, CheckStores, PlanSync, PersistAnchor,
     Backfill, SyncDone, KeepWaiting, WakeUp, memVars, vars
<1>5. CASE Failures
  BY <1>0, <1>5, NoTrackingType DEF Failures, FailEarly, FailStaged, FailFinalized, FailLate, FailOutside,
     Crash, memVars
<1>6. CASE Restart
  BY <1>0, <1>6 DEF Restart, memVars
<1>7. CASE UNCHANGED vars
  BY <1>0, <1>7 DEF vars
<1> QED
  BY <1>1, <1>2, <1>3, <1>4, <1>5, <1>6, <1>7 DEF Next, Task

\* What the control state of a step depends on.
LocFields(l) ==
    /\ l.snap \in Seq(Blocks) /\ l.latest \in Heights /\ l.cur \in Heights /\ l.blk \in Heights
    /\ l.target \in Heights /\ l.todo \in Seq(ProcessEvents) /\ l.bad \in SUBSET InvalidEvents
    /\ l.done \in Seq(ProcessEvents) /\ l.after \in {"detect", "check"}

LEMMA LocFacts ==
    ASSUME NEW l \in Locals
    PROVE  LocFields(l)
BY DEF Locals, LocFields

LEMMA FaultsType ==
    ASSUME IInv, [Next]_vars
    PROVE  faults' \in 0..MaxFaults
<1>0. faults \in 0..MaxFaults /\ MaxFaults \in Nat
  BY IndexerAssumption DEF IInv, TypeOK
<1>1. CASE faults' = faults
  BY <1>0, <1>1
<1>2. CASE Failures
  <2>1. faults' = faults \/ (faults < MaxFaults /\ faults' = faults + 1)
    <3>1. CASE FailEarly
      BY <3>1 DEF FailEarly, CountIf, MayFail
    <3>2. CASE FailStaged
      BY <3>2 DEF FailStaged, CountIf, MayFail
    <3>3. CASE FailFinalized
      BY <3>3 DEF FailFinalized, CountIf, MayFail
    <3>4. CASE FailLate
      BY <3>4 DEF FailLate, MayFail
    <3>5. CASE FailOutside
      BY <3>5 DEF FailOutside, MayFail
    <3>6. CASE Crash
      BY <3>6 DEF Crash, MayFail
    <3> QED
      BY <1>2, <3>1, <3>2, <3>3, <3>4, <3>5, <3>6 DEF Failures
  <2> QED
    BY <1>0, <2>1
<1>3. CASE Upstream
  BY <1>1, <1>3 DEF Upstream, ExtendChain, ReplaceChain, PollStatus
<1>4. CASE Recovery
  BY <1>1, <1>4 DEF Recovery, NothingPending, ResumePending, ResumeEnergy, ReloadTracker, ClearPending,
     NoDrift, DriftFound, AncestorFound, ProbeLower, ProbeFails, RollbackPasses
<1>5. CASE SyncBlock
  BY <1>1, <1>5 DEF SyncBlock, BeginBlock, CollectBlock, ExecuteEvent, RecordInvalidMints, SettleBalances,
     FinalizeEnergy, PersistCommit, PublishTracker, PutSyncedHeight, CommitSavepoint
<1>6. CASE SyncOnce
  BY <1>1, <1>6 DEF SyncOnce, ReadSnapshot, ReadStableHeight, CheckStores, PlanSync, PersistAnchor,
     Backfill, SyncDone, KeepWaiting, WakeUp, vars
<1>7. CASE Restart
  BY <1>1, <1>7 DEF Restart
<1>8. CASE UNCHANGED vars
  BY <1>1, <1>8 DEF vars
<1> QED
  BY <1>2, <1>3, <1>4, <1>5, <1>6, <1>7, <1>8 DEF Next, Task

LEMMA ControlTypes ==
    ASSUME IInv, [Next]_vars
    PROVE  pc' \in PCs /\ loc' \in Locals
<1>0. /\ pc \in PCs /\ loc \in Locals /\ chain \in Chains /\ status \in Chains
      /\ conn \in Stores /\ disk \in Stores /\ LocFields(loc)
  BY LocFacts DEF IInv, TypeOK
<1>a. /\ status \in Seq(Blocks) /\ Len(status) \in Heights
      /\ MaxOf(conn.synced, Floor) \in Heights
  BY <1>0, ChainFacts, TipFacts DEF Tip
<1>g. CASE GiveUp
  BY <1>g, NoLocalsType DEF GiveUp, PCs
<1>s. CASE pc' = pc /\ loc' = loc
  BY <1>0, <1>s
<1>r. AfterResume \in PCs /\ AfterResume \in {"wait", "detect", "check"}
  BY <1>0 DEF AfterResume, PCs, LocFields
<1>c. [loc EXCEPT !.cur = IF AfterResume = "wait" THEN loc.latest ELSE MaxOf(conn.synced, Floor)] \in Locals
  BY <1>0, <1>a DEF Locals, LocFields
<1>1. CASE Upstream
  BY <1>s, <1>1 DEF Upstream, ExtendChain, ReplaceChain, PollStatus
<1>2. CASE NothingPending
  BY <1>2, <1>r, <1>c DEF NothingPending
<1>3. CASE ResumePending
  BY <1>0, <1>g, <1>3 DEF ResumePending, PCs
<1>4. CASE ResumeEnergy
  BY <1>0, <1>g, <1>4 DEF ResumeEnergy, PCs
<1>5. CASE ReloadTracker \/ NoDrift
  BY <1>0, <1>5 DEF ReloadTracker, NoDrift, PCs
<1>6. CASE ClearPending
  BY <1>6, <1>g, <1>r, <1>c DEF ClearPending
<1>7. CASE DriftFound
  <2>1. MinOf(loc.cur, loc.latest) \in Heights
    BY <1>0 DEF MinOf, LocFields
  <2> QED
    BY <1>0, <1>7, <2>1 DEF DriftFound, PCs, Locals
<1>8. CASE AncestorFound
  <2> DEFINE t == IF loc.target < Genesis \/ conn.commits[loc.target] = NoCommit THEN Floor ELSE loc.target
  <2>1. t \in Heights
    BY <1>0, HeightFacts DEF LocFields
  <2>2. loc' = [loc EXCEPT !.target = t] /\ pc' = "rollback"
    BY <1>8 DEF AncestorFound
  <2> HIDE DEF t
  <2> QED
    BY <1>0, <2>1, <2>2 DEF PCs, Locals
<1>9. CASE ProbeLower
  <2>1. loc.target - 1 \in Heights
    BY <1>0, <1>9, HeightFacts DEF ProbeLower, LocFields
  <2> QED
    BY <1>0, <1>9, <2>1 DEF ProbeLower, Locals
<1>10. CASE ProbeFails \/ WakeUp
  BY <1>g, <1>10 DEF ProbeFails, WakeUp
<1>11. CASE RollbackPasses
  BY <1>0, <1>11 DEF RollbackPasses, PCs, Locals
<1>12. CASE BeginBlock
  BY <1>0, <1>g, <1>12 DEF BeginBlock, PCs
<1>13. CASE CollectBlock
  <2>1. pc' = "exec"
    BY <1>13 DEF CollectBlock
  <2> QED
    BY <1>13, <2>1, CollectTypes DEF PCs
<1>14. CASE ExecuteEvent
  <2> DEFINE T == Tail(loc.todo)
             D == Append(loc.done, Head(loc.todo))
  <2>1. T \in Seq(ProcessEvents) /\ Head(loc.todo) \in ProcessEvents
    BY <1>14, ExecuteWrites
  <2>2. D \in Seq(ProcessEvents)
    BY <1>0, <2>1 DEF LocFields
  <2>3. pc' = pc /\ loc' = [loc EXCEPT !.todo = T, !.done = D]
    BY <1>14 DEF ExecuteEvent
  <2> HIDE DEF T, D
  <2> QED
    BY <1>0, <2>1, <2>2, <2>3 DEF Locals
<1>15. CASE RecordInvalidMints \/ SettleBalances \/ FinalizeEnergy \/ PersistCommit \/ PublishTracker \/ PutSyncedHeight
  <2>1. loc' = loc /\ pc' \in {"settle", "finalize", "persist", "publish", "synced", "commit"}
    BY <1>15 DEF RecordInvalidMints, SettleBalances, FinalizeEnergy, PersistCommit, PublishTracker, PutSyncedHeight
  <2> QED
    BY <1>0, <2>1 DEF PCs
<1>16. CASE CommitSavepoint
  <2>1. loc.blk < loc.latest => loc.blk + 1 \in Heights
    BY <1>0, HeightFacts DEF LocFields
  <2>2. CASE loc.blk < loc.latest
    <3>1. /\ loc' = [loc EXCEPT !.cur = loc.blk, !.blk = loc.blk + 1,
                                !.todo = <<>>, !.bad = {}, !.done = <<>>]
          /\ pc' = "begin"
      BY <1>16, <2>2 DEF CommitSavepoint
    <3> DEFINE none == <<>>
               next == loc.blk + 1
    <3>2. none \in Seq(ProcessEvents) /\ next \in Heights /\ loc.blk \in Heights
      BY <1>0, <2>1, <2>2 DEF LocFields
    <3>3. loc' = [loc EXCEPT !.cur = loc.blk, !.blk = next, !.todo = none, !.bad = {}, !.done = none]
      BY <3>1
    <3> HIDE DEF none, next
    <3>4. loc' \in Locals
      BY <1>0, <3>2, <3>3 DEF Locals
    <3> QED
      BY <3>1, <3>4 DEF PCs
  <2>3. CASE ~(loc.blk < loc.latest)
    <3>1. loc' = [NoLocals EXCEPT !.cur = loc.blk, !.snap = loc.snap] /\ pc' = "anchor"
      BY <1>16, <2>3 DEF CommitSavepoint
    <3> QED
      BY <1>0, <3>1, NoLocalsType DEF Locals, LocFields, PCs
  <2> QED
    BY <2>2, <2>3
<1>17. CASE ReadSnapshot
  <2>1. loc' = [NoLocals EXCEPT !.snap = status] /\ pc' = "latest"
    BY <1>17 DEF ReadSnapshot
  <2> QED
    BY <1>a, <2>1, NoLocalsType DEF Locals, PCs
<1>18. CASE ReadStableHeight
  <2>1. loc' = [loc EXCEPT !.latest = Len(status), !.after = "detect"] /\ pc' = "resume"
    BY <1>18 DEF ReadStableHeight
  <2> QED
    BY <1>0, <1>a, <2>1 DEF Locals, PCs
<1>19. CASE CheckStores
  BY <1>0, <1>g, <1>19 DEF CheckStores, PCs
<1>20. CASE PlanSync
  <2>1. \/ loc' = loc /\ pc' = "anchor"
        \/ loc.cur < loc.latest /\ loc' = [loc EXCEPT !.blk = loc.cur + 1] /\ pc' = "begin"
    BY <1>0, <1>20, HeightFacts DEF PlanSync, LocFields
  <2>2. loc.cur < loc.latest => loc.cur + 1 \in Heights
    BY <1>0, HeightFacts DEF LocFields
  <2> QED
    BY <1>0, <2>1, <2>2 DEF Locals, PCs
<1>21. CASE PersistAnchor
  BY <1>0, <1>g, <1>21 DEF PersistAnchor, PCs
<1>22. CASE Backfill
  BY <1>0, <1>g, <1>22 DEF Backfill
<1>23. CASE SyncDone
  <2>1. loc' = [NoLocals EXCEPT !.cur = loc.cur] /\ pc' = "wait"
    BY <1>23 DEF SyncDone
  <2> QED
    BY <1>0, <2>1, NoLocalsType DEF Locals, LocFields, PCs
<1>24. CASE KeepWaiting \/ UNCHANGED vars
  BY <1>s, <1>24 DEF KeepWaiting, vars
<1>25. CASE FailEarly \/ FailStaged \/ FailFinalized \/ FailLate \/ FailOutside
  BY <1>g, <1>25 DEF FailEarly, FailStaged, FailFinalized, FailLate, FailOutside
<1>26. CASE Crash
  BY <1>26, NoLocalsType DEF Crash, PCs
<1>27. CASE Restart
  BY <1>0, <1>27 DEF Restart, PCs
<1> QED
  BY <1>1, <1>2, <1>3, <1>4, <1>5, <1>6, <1>7, <1>8, <1>9, <1>10, <1>11, <1>12, <1>13, <1>14, <1>15, <1>16,
     <1>17, <1>18, <1>19, <1>20, <1>21, <1>22, <1>23, <1>24, <1>25, <1>26, <1>27
     DEF Next, Task, Recovery, SyncBlock, SyncOnce, Failures

LEMMA TypesPreserved ==
    ASSUME IInv, [Next]_vars
    PROVE  TypeOK'
BY StoreTypes, EnergyTypes, UpstreamTypes, MemoryTypes, FaultsType, ControlTypes DEF TypeOK

-----------------------------------------------------------------------------
(* The control state is preserved *)

\* The steps that end a pass of sync_once leave the connection on the durable store.
LEMMA GiveUpControl ==
    ASSUME conn' = disk', pc' \in {"sync_once", "latest", "wait", "down"}
    PROVE  ControlOK'
BY DEF ControlOK, InBlock, Written

LEMMA SameControl ==
    ASSUME ControlOK, UNCHANGED <<disk, conn, pc, loc, staged>>
    PROVE  ControlOK'
<1>1. Tip(disk)' = Tip(disk)
  BY DEF Tip
<1> QED
  BY <1>1 DEF ControlOK

LEMMA ControlRecovery ==
    ASSUME IInv, Recovery, TypeOK'
    PROVE  ControlOK'
<1>0. /\ loc \in Locals /\ LocFields(loc) /\ disk \in Stores /\ ControlOK /\ conn \in Stores
  BY LocFacts DEF IInv, TypeOK
<1>a. /\ Tip(disk) \in Heights /\ Tip(disk) >= Floor
      /\ Floor \in Nat /\ Floor = Genesis - 1 /\ Genesis \in Nat
      /\ MaxOf(disk.synced, Floor) = Tip(disk)
  BY <1>0, TipFacts, HeightFacts DEF Tip
<1>b. disk' = disk => Tip(disk)' = Tip(disk)
  BY DEF Tip
<1>r. /\ AfterResume \in {"wait", "detect", "check"}
      /\ AfterResume = "detect" => loc.latest >= Genesis
      /\ AfterResume = "check" => loc.after = "check"
  BY <1>0, HeightFacts DEF AfterResume, LocFields, Heights
<1>2. CASE NothingPending
  <2>1. /\ pc = "resume" /\ conn = disk /\ disk' = disk /\ conn' = conn /\ disk.pending = NoHeight
        /\ pc' = AfterResume
        /\ loc' = [loc EXCEPT !.cur = IF AfterResume = "wait" THEN loc.latest ELSE MaxOf(conn.synced, Floor)]
    BY <1>0, <1>2 DEF NothingPending, ControlOK, InBlock, dbVars
  <2>2. loc'.latest = loc.latest /\ (AfterResume # "wait" => loc'.cur = Tip(disk))
    BY <1>0, <1>a, <2>1 DEF Locals
  <2>3. AfterResume = "check" => loc.latest >= Genesis
    BY <1>0, <1>r, <2>1 DEF ControlOK
  <2> QED
    BY <1>b, <1>r, <2>1, <2>2, <2>3 DEF ControlOK, InBlock, Written
<1>3. CASE ResumePending
  <2>1. /\ pc = "resume" /\ conn = disk /\ disk' = disk /\ conn' = conn /\ disk.pending # NoHeight
        /\ pc' = "sync_once" \/ (pc' = "resume_energy" /\ loc' = loc)
    BY <1>0, <1>3 DEF ResumePending, ControlOK, InBlock, GiveUp, dbVars
  <2>2. CASE pc' = "sync_once"
    BY <2>1, <2>2, GiveUpControl
  <2>3. CASE pc' = "resume_energy" /\ loc' = loc
    BY <1>0, <2>1, <2>3 DEF ControlOK, InBlock, Written
  <2> QED
    BY <2>1, <2>2, <2>3
<1>4. CASE ResumeEnergy
  <2>1. /\ pc = "resume_energy" /\ conn = disk /\ disk' = disk /\ conn' = conn
        /\ pc' = "sync_once" \/ (pc' = "reload" /\ loc' = loc)
    BY <1>0, <1>4 DEF ResumeEnergy, ControlOK, InBlock, GiveUp, dbVars
  <2>2. CASE pc' = "sync_once"
    BY <2>1, <2>2, GiveUpControl
  <2>3. CASE pc' = "reload" /\ loc' = loc
    BY <1>0, <2>1, <2>3 DEF ControlOK, InBlock, Written
  <2> QED
    BY <2>1, <2>2, <2>3
<1>5. CASE ReloadTracker
  <2>1. pc = "reload" /\ conn = disk /\ disk' = disk /\ conn' = conn /\ pc' = "clear" /\ loc' = loc
    BY <1>0, <1>5 DEF ReloadTracker, ControlOK, InBlock, dbVars
  <2> QED
    BY <1>0, <2>1 DEF ControlOK, InBlock, Written
<1>6. CASE ClearPending
  <2>0. pc = "clear" /\ conn = disk
    BY <1>0, <1>6 DEF ClearPending, ControlOK, InBlock
  <2>1. CASE GiveUp /\ UNCHANGED dbVars
    BY <2>0, <2>1, GiveUpControl DEF GiveUp, dbVars
  <2>2. CASE /\ WriteBoth(clear_recovery_pending(conn))
             /\ pc' = AfterResume
             /\ loc' = [loc EXCEPT !.cur = IF AfterResume = "wait" THEN loc.latest
                                           ELSE MaxOf(conn.synced, Floor)]
    <3>1. disk' = clear_recovery_pending(disk) /\ conn' = disk'
      BY <2>0, <2>2 DEF WriteBoth
    <3>2. disk'.pending = NoHeight /\ disk'.synced = disk.synced
      BY <1>0, <3>1, MarkerWrite
    <3>3. Tip(disk)' = Tip(disk)
      BY <3>2 DEF Tip
    <3>4. loc'.latest = loc.latest /\ (AfterResume # "wait" => loc'.cur = Tip(disk))
      BY <1>0, <1>a, <2>0, <2>2 DEF Locals
    <3>5. AfterResume = "check" => loc.latest >= Genesis
      BY <1>0, <1>r, <2>0 DEF ControlOK
    <3> QED
      BY <1>r, <2>2, <3>1, <3>2, <3>3, <3>4, <3>5 DEF ControlOK, InBlock, Written
  <2> QED
    BY <1>6, <2>1, <2>2 DEF ClearPending
<1>7. CASE NoDrift
  <2>1. pc = "detect" /\ conn = disk /\ disk' = disk /\ conn' = conn /\ pc' = "check" /\ loc' = loc
    BY <1>0, <1>7 DEF NoDrift, ControlOK, InBlock, dbVars
  <2> QED
    BY <1>0, <1>b, <2>1 DEF ControlOK, InBlock, Written
<1>8. CASE DriftFound
  <2>1. /\ pc = "detect" /\ conn = disk /\ disk' = disk /\ conn' = conn /\ pc' = "ancestor"
        /\ loc' = [loc EXCEPT !.target = MinOf(loc.cur, loc.latest)]
        /\ loc.cur > loc.latest \/ loc.cur = loc.latest \/ loc.cur >= Genesis
    BY <1>0, <1>8 DEF DriftFound, Drifted, ControlOK, InBlock, dbVars
  <2>2. loc.cur = Tip(disk) /\ loc.latest >= Genesis /\ disk.pending = NoHeight
    BY <1>0, <2>1 DEF ControlOK
  <2>3. loc'.cur = loc.cur /\ loc'.latest = loc.latest /\ loc'.target = MinOf(loc.cur, loc.latest)
    BY <1>0, <2>1 DEF Locals
  <2>4. MinOf(loc.cur, loc.latest) \in Floor..Tip(disk) /\ Tip(disk) >= Genesis
    BY <1>0, <1>a, <2>1, <2>2 DEF MinOf, LocFields, Heights
  <2> QED
    BY <1>b, <2>1, <2>2, <2>3, <2>4 DEF ControlOK, InBlock, Written
<1>9. CASE AncestorFound
  <2> DEFINE t == IF loc.target < Genesis \/ conn.commits[loc.target] = NoCommit THEN Floor ELSE loc.target
  <2>1. /\ pc = "ancestor" /\ conn = disk /\ disk' = disk /\ conn' = conn /\ pc' = "rollback"
        /\ loc' = [loc EXCEPT !.target = t]
    BY <1>0, <1>9 DEF AncestorFound, ControlOK, InBlock, dbVars
  <2>2. /\ loc.cur = Tip(disk) /\ loc.latest >= Genesis /\ disk.pending = NoHeight
        /\ loc.target \in Floor..Tip(disk) /\ Tip(disk) >= Genesis
    BY <1>0, <2>1 DEF ControlOK
  <2>3. t \in Floor..Tip(disk)
    BY <1>0, <1>a, <2>2 DEF LocFields, Heights
  <2> HIDE DEF t
  <2>4. loc'.cur = loc.cur /\ loc'.latest = loc.latest /\ loc'.target = t
    BY <1>0, <2>1 DEF Locals
  <2> QED
    BY <1>b, <2>1, <2>2, <2>3, <2>4 DEF ControlOK, InBlock, Written
<1>10. CASE ProbeLower
  <2>1. /\ pc = "ancestor" /\ conn = disk /\ disk' = disk /\ conn' = conn /\ pc' = pc
        /\ loc' = [loc EXCEPT !.target = loc.target - 1] /\ loc.target >= Genesis
    BY <1>0, <1>10 DEF ProbeLower, ControlOK, InBlock, dbVars
  <2>2. /\ loc.cur = Tip(disk) /\ loc.latest >= Genesis /\ disk.pending = NoHeight
        /\ loc.target \in Floor..Tip(disk) /\ Tip(disk) >= Genesis
    BY <1>0, <2>1 DEF ControlOK
  <2>3. loc.target - 1 \in Floor..Tip(disk)
    BY <1>0, <1>a, <2>1, <2>2 DEF LocFields, Heights
  <2>4. loc'.cur = loc.cur /\ loc'.latest = loc.latest /\ loc'.target = loc.target - 1
    BY <1>0, <2>1 DEF Locals
  <2> QED
    BY <1>b, <2>1, <2>2, <2>3, <2>4 DEF ControlOK, InBlock, Written
<1>11. CASE ProbeFails
  <2>1. conn' = disk' /\ pc' = "sync_once"
    BY <1>0, <1>11 DEF ProbeFails, ControlOK, InBlock, GiveUp, dbVars
  <2> QED
    BY <2>1, GiveUpControl
<1>12. CASE RollbackPasses
  <2>1. /\ pc = "rollback" /\ conn' = disk' /\ pc' = "resume"
        /\ loc' = [loc EXCEPT !.after = "check"]
    BY <1>12 DEF RollbackPasses, WriteBoth
  <2>2. loc'.latest = loc.latest /\ loc.latest >= Genesis
    BY <1>0, <2>1 DEF Locals, ControlOK
  <2> QED
    BY <2>1, <2>2 DEF ControlOK, InBlock, Written
<1> QED
  BY <1>2, <1>3, <1>4, <1>5, <1>6, <1>7, <1>8, <1>9, <1>10, <1>11, <1>12 DEF Recovery

LEMMA ControlBlock ==
    ASSUME IInv, SyncBlock, TypeOK'
    PROVE  ControlOK'
<1>0. /\ loc \in Locals /\ LocFields(loc) /\ disk \in Stores /\ ControlOK /\ conn \in Stores
      /\ staged' \in TrackMaps \cup {NoStage}
  BY LocFacts DEF IInv, TypeOK
<1>a. /\ Tip(disk) \in Heights /\ Tip(disk) >= Floor /\ Heights \subseteq Nat
      /\ Floor \in Nat /\ Floor = Genesis - 1 /\ Genesis \in Nat
  BY <1>0, TipFacts, HeightFacts
<1>n. /\ loc.cur \in Nat /\ loc.blk \in Nat /\ loc.latest \in Nat
      /\ Tip(disk) \in Nat /\ disk.synced \in Nat
  BY <1>0, <1>a, TipFacts DEF LocFields, Heights
<1>b. disk' = disk => Tip(disk)' = Tip(disk)
  BY DEF Tip
<1>1. CASE BeginBlock
  <2>1. /\ pc = "begin" /\ conn = disk /\ disk' = disk /\ conn' = conn
        /\ pc' = "sync_once" \/ (pc' = "collect" /\ loc' = loc)
    BY <1>0, <1>1 DEF BeginBlock, ControlOK, InBlock, GiveUp, dbVars
  <2>2. CASE pc' = "sync_once"
    BY <2>1, <2>2, GiveUpControl
  <2>3. CASE pc' = "collect" /\ loc' = loc
    BY <1>0, <1>b, <2>1, <2>3 DEF ControlOK, InBlock, Written
  <2> QED
    BY <2>1, <2>2, <2>3
<1>2. CASE CollectBlock
  <2>1. pc = "collect" /\ disk' = disk /\ pc' = "exec"
    BY <1>2 DEF CollectBlock, dbVars
  <2>2. staged' \in TrackMaps /\ loc'.blk = loc.blk /\ loc'.latest = loc.latest
    BY <1>2, CollectTypes
  <2> QED
    BY <1>0, <1>b, <2>1, <2>2 DEF ControlOK, InBlock, Written
<1>3. CASE ExecuteEvent
  <2>1. /\ pc = "exec" /\ disk' = disk /\ pc' = pc /\ staged' = staged
        /\ loc' = [loc EXCEPT !.todo = Tail(loc.todo), !.done = Append(loc.done, Head(loc.todo))]
    BY <1>3 DEF ExecuteEvent, memVars
  <2>2. loc'.blk = loc.blk /\ loc'.latest = loc.latest
    BY <1>0, <2>1 DEF Locals
  <2> QED
    BY <1>0, <1>b, <2>1, <2>2 DEF ControlOK, InBlock, Written
<1>4. CASE RecordInvalidMints \/ SettleBalances \/ FinalizeEnergy \/ PersistCommit
  <2>1. /\ pc \in {"exec", "settle", "finalize", "persist"} /\ disk' = disk /\ loc' = loc
        /\ pc' \in {"settle", "finalize", "persist", "publish"} /\ staged' = staged
    BY <1>4 DEF RecordInvalidMints, SettleBalances, FinalizeEnergy, PersistCommit, dbVars, memVars
  <2> QED
    BY <1>0, <1>b, <2>1 DEF ControlOK, InBlock, Written
<1>5. CASE PublishTracker \/ PutSyncedHeight
  <2>1. pc \in {"publish", "synced"} /\ disk' = disk /\ loc' = loc /\ pc' \in {"synced", "commit"}
    BY <1>5 DEF PublishTracker, PutSyncedHeight, dbVars
  <2> QED
    BY <1>0, <1>b, <2>1 DEF ControlOK, InBlock, Written
<1>6. CASE CommitSavepoint
  <2>1. pc = "commit" /\ disk' = conn /\ conn' = conn
    BY <1>6 DEF CommitSavepoint
  <2>2. /\ loc.blk = Tip(disk) + 1 /\ loc.blk <= loc.latest /\ disk.pending = NoHeight
        /\ conn.synced = loc.blk /\ conn.pending = NoHeight
    BY <1>0, <2>1 DEF ControlOK, InBlock, IInv, BlockOK
  <2>3. Tip(disk)' = loc.blk /\ disk'.synced = loc.blk /\ disk'.pending = NoHeight /\ loc.blk >= Genesis
    BY <1>n, <1>a, <2>1, <2>2 DEF Tip, MaxOf
  <2>4. CASE loc.blk < loc.latest
    <3>1. /\ pc' = "begin"
          /\ loc' = [loc EXCEPT !.cur = loc.blk, !.blk = loc.blk + 1,
                                !.todo = <<>>, !.bad = {}, !.done = <<>>]
      BY <1>6, <2>4 DEF CommitSavepoint
    <3>2. loc'.blk = loc.blk + 1 /\ loc'.latest = loc.latest
      BY <1>0, <3>1 DEF Locals
    <3>3. loc.blk + 1 <= loc.latest
      BY <1>n, <2>4
    <3> QED
      BY <2>1, <2>3, <3>1, <3>2, <3>3 DEF ControlOK, InBlock, Written
  <2>5. CASE ~(loc.blk < loc.latest)
    <3>1. loc' = [NoLocals EXCEPT !.cur = loc.blk, !.snap = loc.snap] /\ pc' = "anchor"
      BY <1>6, <2>5 DEF CommitSavepoint
    <3>2. loc'.cur = loc.blk
      BY <3>1, NoLocalsType DEF Locals
    <3> QED
      BY <2>1, <2>3, <3>1, <3>2 DEF ControlOK, InBlock, Written
  <2> QED
    BY <2>4, <2>5
<1> QED
  BY <1>1, <1>2, <1>3, <1>4, <1>5, <1>6 DEF SyncBlock

LEMMA ControlOnce ==
    ASSUME IInv, SyncOnce, TypeOK'
    PROVE  ControlOK'
<1>0. /\ loc \in Locals /\ LocFields(loc) /\ disk \in Stores /\ ControlOK /\ conn \in Stores
      /\ status \in Chains /\ chain \in Chains
  BY LocFacts DEF IInv, TypeOK
<1>a. /\ Tip(disk) \in Heights /\ Tip(disk) >= Floor /\ Heights \subseteq Nat
      /\ Floor \in Nat /\ Floor = Genesis - 1 /\ Genesis \in Nat
      /\ Tip(disk) = disk.synced \/ Tip(disk) = Floor
  BY <1>0, TipFacts, HeightFacts
<1>n. /\ loc.cur \in Nat /\ loc.blk \in Nat /\ loc.latest \in Nat
      /\ Tip(disk) \in Nat /\ disk.synced \in Nat
  BY <1>0, <1>a, TipFacts DEF LocFields, Heights
<1>b. disk' = disk => Tip(disk)' = Tip(disk)
  BY DEF Tip
<1>1. CASE ReadSnapshot \/ WakeUp \/ SyncDone
  <2>1. conn' = disk' /\ pc' \in {"latest", "sync_once", "wait"}
    BY <1>0, <1>1 DEF ReadSnapshot, WakeUp, SyncDone, GiveUp, ControlOK, InBlock, dbVars
  <2> QED
    BY <2>1, GiveUpControl
<1>2. CASE ReadStableHeight
  <2>1. /\ pc = "latest" /\ conn' = disk' /\ pc' = "resume"
        /\ loc' = [loc EXCEPT !.latest = Len(status), !.after = "detect"]
    BY <1>0, <1>2 DEF ReadStableHeight, ControlOK, InBlock, dbVars
  <2>2. loc'.after = "detect"
    BY <1>0, <2>1 DEF Locals
  <2> QED
    BY <2>1, <2>2 DEF ControlOK, InBlock, Written
<1>3. CASE CheckStores
  <2>1. /\ pc = "check" /\ conn = disk /\ disk' = disk /\ conn' = conn
        /\ pc' = "sync_once" \/ (pc' = "plan" /\ loc' = loc)
    BY <1>0, <1>3 DEF CheckStores, ControlOK, InBlock, GiveUp, dbVars
  <2>2. CASE pc' = "sync_once"
    BY <2>1, <2>2, GiveUpControl
  <2>3. CASE pc' = "plan" /\ loc' = loc
    BY <1>0, <1>b, <2>1, <2>3 DEF ControlOK, InBlock, Written
  <2> QED
    BY <2>1, <2>2, <2>3
<1>4. CASE PlanSync
  <2>1. pc = "plan" /\ conn = disk /\ disk' = disk /\ conn' = conn
    BY <1>0, <1>4 DEF PlanSync, ControlOK, InBlock, dbVars
  <2>2. loc.cur = Tip(disk) /\ loc.latest >= Genesis /\ disk.pending = NoHeight
    BY <1>0, <2>1 DEF ControlOK
  <2>3. CASE loc.cur >= loc.latest
    <3>1. pc' = "anchor" /\ loc' = loc
      BY <1>4, <2>3 DEF PlanSync
    <3>2. loc.cur = disk.synced /\ disk.synced >= Genesis
      BY <1>n, <1>a, <2>2, <2>3
    <3> QED
      BY <2>1, <2>2, <3>1, <3>2 DEF ControlOK, InBlock, Written
  <2>4. CASE ~(loc.cur >= loc.latest)
    <3>1. pc' = "begin" /\ loc' = [loc EXCEPT !.blk = loc.cur + 1]
      BY <1>4, <2>4 DEF PlanSync
    <3>2. loc'.blk = loc.cur + 1 /\ loc'.latest = loc.latest
      BY <1>0, <3>1 DEF Locals
    <3>3. loc.cur + 1 <= loc.latest
      BY <1>n, <2>4
    <3> QED
      BY <1>b, <2>1, <2>2, <3>1, <3>2, <3>3 DEF ControlOK, InBlock, Written
  <2> QED
    BY <2>3, <2>4
<1>5. CASE PersistAnchor
  <2>1. pc = "anchor" /\ conn = disk /\ disk.pending = NoHeight /\ loc.cur = disk.synced /\ disk.synced >= Genesis
    BY <1>0, <1>5 DEF PersistAnchor, ControlOK, InBlock
  <2>2. CASE Len(loc.snap) # loc.cur
    BY <1>5, <2>1, <2>2, GiveUpControl DEF PersistAnchor, GiveUp, dbVars
  <2>3. CASE Len(loc.snap) = loc.cur
    <3>1. disk' = upsert_snapshot_anchor(disk, loc.snap) /\ conn' = disk' /\ pc' = "backfill" /\ loc' = loc
      BY <1>5, <2>1, <2>3 DEF PersistAnchor, WriteBoth
    <3>2. disk'.synced = Len(loc.snap) /\ disk'.pending = disk.pending
      BY <1>0, <2>3, <3>1, AnchorWrite DEF LocFields
    <3> QED
      BY <2>1, <2>3, <3>1, <3>2 DEF ControlOK, InBlock, Written
  <2> QED
    BY <2>2, <2>3
<1>6. CASE Backfill
  <2> DEFINE h == Min(MissingAnchors)
             x == Prefix(chain, h)
  <2>1. /\ pc = "backfill" /\ conn = disk /\ disk.pending = NoHeight
        /\ loc.cur = disk.synced /\ disk.synced >= Genesis /\ MissingAnchors # {}
    BY <1>0, <1>6 DEF Backfill, ControlOK, InBlock
  <2>2. CASE ~HasBlock(h)
    BY <1>6, <2>1, <2>2, GiveUpControl DEF Backfill, GiveUp, dbVars
  <2>3. CASE HasBlock(h)
    <3>1. disk' = upsert_snapshot_history_entry(disk, h, x) /\ conn' = disk' /\ pc' = pc /\ loc' = loc
      BY <1>6, <2>1, <2>3 DEF Backfill, WriteBoth
    <3>2. MissingAnchors \subseteq Heights
      BY <1>0, HeightFacts DEF MissingAnchors, LocFields
    <3>3. h \in Heights /\ h <= Len(chain)
      BY <2>1, <2>3, <3>2, LeastHeight DEF HasBlock
    <3> HIDE DEF h
    <3>4. x \in Seq(Blocks)
      BY <1>0, <1>a, <3>3, PrefixFacts
    <3> HIDE DEF x
    <3>5. disk'.synced = disk.synced /\ disk'.pending = disk.pending
      BY <1>0, <3>1, <3>3, <3>4, AnchorsWrite
    <3> QED
      BY <2>1, <3>1, <3>5 DEF ControlOK, InBlock, Written
  <2> QED
    BY <2>2, <2>3
<1>7. CASE KeepWaiting
  BY <1>0, <1>7, SameControl DEF KeepWaiting, vars
<1> QED
  BY <1>1, <1>2, <1>3, <1>4, <1>5, <1>6, <1>7 DEF SyncOnce

LEMMA ControlPreserved ==
    ASSUME IInv, [Next]_vars, TypeOK'
    PROVE  ControlOK'
<1>0. ControlOK
  BY DEF IInv
<1>1. CASE Upstream
  BY <1>0, <1>1, SameControl DEF Upstream, ExtendChain, ReplaceChain, PollStatus, dbVars, memVars
<1>2. CASE FailEarly \/ FailStaged \/ FailFinalized \/ FailLate
  <2>1. conn' = disk' /\ pc' = "sync_once"
    BY <1>2 DEF FailEarly, FailStaged, FailFinalized, FailLate, GiveUp
  <2> QED
    BY <2>1, GiveUpControl
<1>3. CASE FailOutside
  <2>1. conn' = disk' /\ pc' = "sync_once"
    BY <1>0, <1>3 DEF FailOutside, GiveUp, dbVars, ControlOK, InBlock
  <2> QED
    BY <2>1, GiveUpControl
<1>4. CASE Crash
  <2>1. conn' = disk' /\ pc' = "down"
    BY <1>4 DEF Crash
  <2> QED
    BY <2>1, GiveUpControl
<1>5. CASE Restart
  <2>1. conn' = disk' /\ pc' = "sync_once"
    BY <1>0, <1>5 DEF Restart, dbVars, ControlOK, InBlock
  <2> QED
    BY <2>1, GiveUpControl
<1>6. CASE UNCHANGED vars
  BY <1>0, <1>6, SameControl DEF vars
<1> QED
  BY <1>1, <1>2, <1>3, <1>4, <1>5, <1>6, ControlRecovery, ControlBlock, ControlOnce DEF Next, Task, Failures

-----------------------------------------------------------------------------
(* The durable store is preserved *)

LEMMA SameDurable ==
    ASSUME NEW db \in Stores, NEW new \in Stores, DurableOK(db),
           new.passes = db.passes, new.hist = db.hist, new.settled = db.settled,
           new.commits = db.commits, new.synced = db.synced,
           new.pending = db.pending \/ new.pending = NoHeight,
           AnchorAtMost(new, Tip(db)), NoAnchorsAfter(new, Tip(db))
    PROVE  DurableOK(new)
<1>1. Tip(new) = Tip(db)
  BY DEF Tip
<1>2. TablesOK(new, Tip(db))
  BY SameTables DEF DurableOK
<1>3. NoDataAfter(new, Tip(db))
  BY DEF DurableOK, NoDataAfter, SyncedAtMost, NoPassesAfter, NoSettledAfter, NoHistoryAfter, NoCommitsAfter
<1>4. SettledUpTo(new, Tip(db))
  BY DEF DurableOK, SettledUpTo
<1>5. \A h \in Heights : OneActiveAt(new, h)
  BY DEF DurableOK, OneActiveAt
<1> QED
  BY <1>1, <1>2, <1>3, <1>4, <1>5 DEF DurableOK

\* The block that is about to be committed.
LEMMA CommitDurable ==
    ASSUME IInv, pc = "commit"
    PROVE  DurableOK(conn) /\ Tip(conn) = loc.blk
<1> DEFINE b == loc.blk
           t == Tip(disk)
<1>0. /\ disk \in Stores /\ conn \in Stores /\ b \in Heights /\ BlockOK /\ DurableOK(disk)
      /\ b = t + 1 /\ disk.pending = NoHeight
  BY DEF IInv, TypeOK, Locals, InBlock, ControlOK
<1>a. /\ t \in Nat /\ b \in Nat /\ t >= Floor /\ Floor = Genesis - 1 /\ Genesis \in Nat /\ Floor \in Nat
      /\ b >= Genesis /\ b > t /\ MaxHeight \in Nat /\ Heights = 0..MaxHeight /\ b <= MaxHeight
  BY <1>0, TipFacts, HeightFacts
<1>1. /\ TablesOK(conn, b) /\ OneActiveNow(conn)
      /\ \A p \in Passes, k \in Heights : k # b => conn.hist[p][k] = disk.hist[p][k]
      /\ \A k \in Heights : k # b => /\ conn.commits[k] = disk.commits[k]
                                     /\ conn.settled[k] = disk.settled[k]
      /\ conn.anchor = disk.anchor /\ conn.anchors = disk.anchors /\ conn.pending = disk.pending
      /\ conn.synced = b /\ conn.settled[b] # NoSnapshot
  BY <1>0 DEF BlockOK
<1>2. Tip(conn) = b
  BY <1>1, <1>a DEF Tip, MaxOf
<1>3. /\ NoDataAfter(disk, t) /\ SettledUpTo(disk, t)
      /\ \A p \in Passes, k \in Heights : k < Genesis => disk.hist[p][k] = NoRow
      /\ \A h \in Heights : OneActiveAt(disk, h)
  BY <1>0 DEF DurableOK
<1> HIDE DEF b, t
<1>4. \A k \in (b + 1)..MaxHeight : k \in (t + 1)..MaxHeight /\ k \in Heights /\ k # b
  BY <1>a
<1>5. NoDataAfter(conn, b)
  <2>1. SyncedAtMost(conn, b) /\ NoPassesAfter(conn, b) /\ NoHistoryAfter(conn, b)
    BY <1>1, <1>a DEF SyncedAtMost, TablesOK
  <2>2. NoSettledAfter(conn, b) /\ NoCommitsAfter(conn, b)
    BY <1>1, <1>3, <1>4 DEF NoDataAfter, NoSettledAfter, NoCommitsAfter
  <2>3. AnchorAtMost(conn, b)
    <3>1. conn.anchor \in Seq(Blocks) /\ Len(conn.anchor) <= t
      BY <1>0, <1>1, <1>3 DEF NoDataAfter, AnchorAtMost, Stores
    <3> QED
      BY <3>1, <1>a DEF AnchorAtMost
  <2>4. NoAnchorsAfter(conn, b)
    BY <1>1, <1>3, <1>4 DEF NoDataAfter, NoAnchorsAfter
  <2> QED
    BY <2>1, <2>2, <2>3, <2>4 DEF NoDataAfter
<1>6. \A p \in Passes, k \in Heights : k < Genesis => conn.hist[p][k] = NoRow
  BY <1>1, <1>3, <1>a
<1>7. SettledUpTo(conn, b)
  <2> SUFFICES ASSUME NEW k \in Heights PROVE conn.settled[k] # NoSnapshot <=> k \in Genesis..b
    BY DEF SettledUpTo
  <2>1. CASE k = b
    BY <1>1, <1>a, <2>1
  <2>2. CASE k # b
    <3>1. k \in Genesis..b <=> k \in Genesis..t
      BY <1>0, <1>a, <2>2
    <3> QED
      BY <1>1, <1>3, <2>2, <3>1 DEF SettledUpTo
  <2> QED
    BY <2>1, <2>2
<1>8. ASSUME NEW h \in Heights PROVE OneActiveAt(conn, h)
  <2>1. CASE h < b
    <3>1. \A k \in Heights : k <= h => k # b
      BY <1>a, <2>1
    <3>2. \A p \in Passes : RowAt(conn.hist, p, h) = RowAt(disk.hist, p, h)
      <4> SUFFICES ASSUME NEW p \in Passes PROVE RowAt(conn.hist, p, h) = RowAt(disk.hist, p, h)
        OBVIOUS
      <4>1. \A k \in Heights : k <= h => conn.hist[p][k] = disk.hist[p][k]
        BY <1>1, <3>1
      <4> QED
        BY <4>1, RowAtLocal
    <3> QED
      BY <1>3, <3>2 DEF OneActiveAt
  <2>2. CASE h >= b
    <3>1. \A p \in Passes : RowAt(conn.hist, p, h) = conn.passes[p]
      BY <1>0, <1>1, <2>2, CurrentRow DEF TablesOK, b
    <3> QED
      BY <1>1, <3>1 DEF OneActiveAt, OneActiveNow
  <2> QED
    BY <1>a, <2>1, <2>2
<1>9. conn.synced >= Floor
  BY <1>1, <1>a
<1> QED
  BY <1>0, <1>1, <1>2, <1>5, <1>6, <1>7, <1>8, <1>9 DEF DurableOK, b

LEMMA RollbackDurable ==
    ASSUME NEW db, DurableOK(db), NEW new, NEW t \in Heights, t >= Floor, t <= Tip(db), RolledBack(new, db, t)
    PROVE  DurableOK(new) /\ Tip(new) = t
<1>0. /\ db \in Stores /\ TablesOK(db, Tip(db)) /\ MintsAreOnce(db)
  BY DEF DurableOK, TablesOK
<1>a. /\ Tip(db) \in Nat /\ t \in Nat /\ Floor = Genesis - 1 /\ Genesis \in Nat
      /\ MaxHeight \in Nat /\ Heights = 0..MaxHeight /\ t <= MaxHeight
  BY <1>0, TipFacts, HeightFacts
<1>1. /\ new \in Stores /\ new.synced = t /\ new.pending = t /\ new.anchor = <<>>
      /\ \A p \in Passes, k \in Heights : new.hist[p][k] = IF k > t THEN NoRow ELSE db.hist[p][k]
      /\ \A k \in Heights : /\ new.commits[k] = IF k > t THEN NoCommit ELSE db.commits[k]
                            /\ new.settled[k] = IF k > t THEN NoSnapshot ELSE db.settled[k]
                            /\ new.anchors[k] = IF k > t THEN <<>> ELSE db.anchors[k]
  BY DEF RolledBack, DropAbove
<1>2. /\ TablesOK(new, t)
      /\ \A p \in Passes, h \in Heights :
            RowAt(new.hist, p, h) = IF h > t THEN RowAt(db.hist, p, t) ELSE RowAt(db.hist, p, h)
  BY <1>0, RollbackTables
<1>3. Tip(new) = t
  BY <1>1, <1>a DEF Tip, MaxOf
<1>4. \A k \in (t + 1)..MaxHeight : k \in Heights /\ k > t
  BY <1>a
<1>5. NoDataAfter(new, t)
  <2>1. SyncedAtMost(new, t) /\ AnchorAtMost(new, t)
    BY <1>1, <1>a DEF SyncedAtMost, AnchorAtMost
  <2>2. NoSettledAfter(new, t) /\ NoCommitsAfter(new, t) /\ NoAnchorsAfter(new, t)
    BY <1>1, <1>4 DEF NoSettledAfter, NoCommitsAfter, NoAnchorsAfter
  <2> QED
    BY <1>2, <2>1, <2>2 DEF NoDataAfter, TablesOK
<1>6. \A p \in Passes, k \in Heights : k < Genesis => new.hist[p][k] = NoRow
  BY <1>1 DEF DurableOK
<1>7. SettledUpTo(new, t)
  <2> SUFFICES ASSUME NEW k \in Heights PROVE new.settled[k] # NoSnapshot <=> k \in Genesis..t
    BY DEF SettledUpTo
  <2>1. CASE k > t
    BY <1>1, <1>a, <2>1
  <2>2. CASE ~(k > t)
    <3>1. k \in Genesis..t <=> k \in Genesis..Tip(db)
      BY <1>a, <2>2
    <3>2. db.settled[k] # NoSnapshot <=> k \in Genesis..Tip(db)
      BY DEF DurableOK, SettledUpTo
    <3> QED
      BY <1>1, <2>2, <3>1, <3>2
  <2> QED
    BY <2>1, <2>2
<1>8. \A h \in Heights : OneActiveAt(new, h)
  <2> SUFFICES ASSUME NEW h \in Heights PROVE OneActiveAt(new, h)
    OBVIOUS
  <2> DEFINE g == IF h > t THEN t ELSE h
  <2>1. g \in Heights /\ \A p \in Passes : RowAt(new.hist, p, h) = RowAt(db.hist, p, g)
    BY <1>2
  <2> HIDE DEF g
  <2>2. OneActiveAt(db, g)
    BY <2>1 DEF DurableOK
  <2> QED
    BY <2>1, <2>2 DEF OneActiveAt
<1> QED
  BY <1>1, <1>2, <1>3, <1>5, <1>6, <1>7, <1>8 DEF DurableOK

\* The six ways in which a step changes the durable store.
DiskStep ==
    \/ disk' = disk
    \/ pc = "clear" /\ disk' = clear_recovery_pending(disk)
    \/ pc = "rollback" /\ disk' = rollback_to_block_height(disk, loc.target)
    \/ pc = "commit" /\ disk' = conn /\ en' = en
    \/ pc = "anchor" /\ Len(loc.snap) = loc.cur /\ disk' = upsert_snapshot_anchor(disk, loc.snap)
    \/ /\ pc = "backfill"
       /\ \E h \in MissingAnchors :
             h <= Len(chain) /\ disk' = upsert_snapshot_history_entry(disk, h, Prefix(chain, h))

LEMMA DiskSteps ==
    ASSUME IInv, [Next]_vars
    PROVE  DiskStep
<1>0. (pc \notin InBlock => conn = disk) /\ loc \in Locals
  BY DEF IInv, ControlOK, TypeOK
<1>1. CASE disk' = disk
  BY <1>1 DEF DiskStep
<1>2. CASE ClearPending
  <2>1. pc = "clear" /\ (disk' = disk \/ disk' = clear_recovery_pending(conn))
    BY <1>2 DEF ClearPending, WriteBoth, dbVars
  <2> QED
    BY <1>0, <2>1 DEF DiskStep, InBlock
<1>3. CASE RollbackPasses
  <2>1. pc = "rollback" /\ disk' = rollback_to_block_height(conn, loc.target)
    BY <1>3 DEF RollbackPasses, WriteBoth
  <2> QED
    BY <1>0, <2>1 DEF DiskStep, InBlock
<1>4. CASE CommitSavepoint
  BY <1>4 DEF CommitSavepoint, DiskStep
<1>5. CASE PersistAnchor
  <2>1. /\ pc = "anchor"
        /\ \/ disk' = disk
           \/ Len(loc.snap) = loc.cur /\ disk' = upsert_snapshot_anchor(conn, loc.snap)
    BY <1>5 DEF PersistAnchor, WriteBoth, dbVars
  <2> QED
    BY <1>0, <2>1 DEF DiskStep, InBlock
<1>6. CASE Backfill
  <2> DEFINE h == Min(MissingAnchors)
  <2>1. /\ pc = "backfill" /\ MissingAnchors # {}
        /\ \/ disk' = disk
           \/ h <= Len(chain) /\ disk' = upsert_snapshot_history_entry(conn, h, Prefix(chain, h))
    BY <1>6 DEF Backfill, WriteBoth, HasBlock, dbVars
  <2>2. MissingAnchors \subseteq Heights
    BY <1>0, HeightFacts DEF MissingAnchors, Locals
  <2>3. h \in MissingAnchors
    BY <2>1, <2>2, LeastHeight
  <2> HIDE DEF h
  <2> QED
    BY <1>0, <2>1, <2>3 DEF DiskStep, InBlock
<1>7. CASE ExecuteEvent \/ RecordInvalidMints \/ SettleBalances \/ PersistCommit \/ PutSyncedHeight
  BY <1>7 DEF ExecuteEvent, RecordInvalidMints, SettleBalances, PersistCommit, PutSyncedHeight, DiskStep
<1> QED
  BY <1>1, <1>2, <1>3, <1>4, <1>5, <1>6, <1>7, StoreWriters

\* What an adoption or a backfill at height h leaves alone.
LEMMA AnchorDurable ==
    ASSUME NEW db \in Stores, DurableOK(db), NEW new \in Stores, NEW h \in Heights, h <= Tip(db), NEW x,
           new.anchors = [db.anchors EXCEPT ![h] = x],
           new.anchor = db.anchor \/ (new.anchor = x /\ Len(x) <= Tip(db)),
           new.passes = db.passes, new.hist = db.hist, new.settled = db.settled,
           new.commits = db.commits, new.synced = db.synced, new.pending = db.pending
    PROVE  DurableOK(new)
<1>1. Tip(db) \in Nat /\ h \in Nat /\ MaxHeight \in Nat /\ Heights = 0..MaxHeight
  BY TipFacts, HeightFacts
<1>2. AnchorAtMost(new, Tip(db))
  BY DEF DurableOK, NoDataAfter, AnchorAtMost
<1>3. NoAnchorsAfter(new, Tip(db))
  <2> SUFFICES ASSUME NEW k \in (Tip(db) + 1)..MaxHeight PROVE new.anchors[k] = <<>>
    BY DEF NoAnchorsAfter
  <2>1. k # h /\ k \in Heights
    BY <1>1
  <2>2. db.anchors[k] = <<>>
    BY DEF DurableOK, NoDataAfter, NoAnchorsAfter
  <2>3. db.anchors \in [Heights -> Seq(Blocks)]
    BY DEF Stores
  <2> QED
    BY <2>1, <2>2, <2>3
<1> QED
  BY <1>2, <1>3, SameDurable

LEMMA DurablePreserved ==
    ASSUME IInv, [Next]_vars
    PROVE  DurableOK(disk')
<1>0. /\ disk \in Stores /\ loc \in Locals /\ chain \in Chains /\ DurableOK(disk) /\ ControlOK
      /\ loc.target \in Heights /\ loc.cur \in Heights /\ loc.snap \in Seq(Blocks)
  BY DEF IInv, TypeOK, Locals
<1>1. CASE disk' = disk
  BY <1>0, <1>1
<1>2. CASE pc = "clear" /\ disk' = clear_recovery_pending(disk)
  <2>1. /\ disk' \in Stores /\ disk'.pending = NoHeight
        /\ disk'.passes = disk.passes /\ disk'.hist = disk.hist /\ disk'.settled = disk.settled
        /\ disk'.commits = disk.commits
        /\ disk'.anchor = disk.anchor /\ disk'.anchors = disk.anchors /\ disk'.synced = disk.synced
    BY <1>0, <1>2, MarkerWrite
  <2>2. AnchorAtMost(disk', Tip(disk)) /\ NoAnchorsAfter(disk', Tip(disk))
    BY <1>0, <2>1 DEF DurableOK, NoDataAfter, AnchorAtMost, NoAnchorsAfter
  <2> QED
    BY <1>0, <2>1, <2>2, SameDurable
<1>3. CASE pc = "rollback" /\ disk' = rollback_to_block_height(disk, loc.target)
  <2>1. loc.target >= Floor /\ loc.target <= Tip(disk)
    BY <1>0, <1>3, HeightFacts, TipFacts DEF ControlOK
  <2>2. RowsAreTheHistory(disk) /\ MintsAreOnce(disk)
    BY <1>0 DEF DurableOK, TablesOK
  <2>3. RolledBack(disk', disk, loc.target)
    BY <1>0, <1>3, <2>2, RollbackFields
  <2> QED
    BY <1>0, <2>1, <2>3, RollbackDurable
<1>4. CASE pc = "commit" /\ disk' = conn /\ en' = en
  BY <1>4, CommitDurable
<1>5. CASE pc = "anchor" /\ Len(loc.snap) = loc.cur /\ disk' = upsert_snapshot_anchor(disk, loc.snap)
  <2> DEFINE h == Len(loc.snap)
             x == loc.snap
  <2>1. h = loc.cur /\ loc.cur = disk.synced /\ h \in Heights
    BY <1>0, <1>5 DEF ControlOK
  <2>2. /\ disk' \in Stores
        /\ disk'.anchors = [disk.anchors EXCEPT ![h] = x]
        /\ disk'.anchor = x /\ disk'.synced = h
        /\ disk'.passes = disk.passes /\ disk'.hist = disk.hist /\ disk'.settled = disk.settled
        /\ disk'.commits = disk.commits /\ disk'.pending = disk.pending
    BY <1>0, <1>5, <2>1, AnchorWrite
  <2>3. h <= Tip(disk)
    BY <1>0, <2>1, TipFacts, HeightFacts
  <2> QED
    BY <1>0, <2>1, <2>2, <2>3, AnchorDurable
<1>6. ASSUME pc = "backfill", NEW h \in MissingAnchors, h <= Len(chain),
             disk' = upsert_snapshot_history_entry(disk, h, Prefix(chain, h))
      PROVE  DurableOK(disk')
  <2> DEFINE x == Prefix(chain, h)
  <2>1. h \in Heights /\ h \in Nat /\ h <= loc.cur /\ loc.cur = disk.synced
    BY <1>0, <1>6, HeightFacts DEF MissingAnchors, ControlOK
  <2>2. x \in Seq(Blocks)
    BY <1>0, <1>6, <2>1, PrefixFacts
  <2> HIDE DEF x
  <2>3. /\ disk' \in Stores
        /\ disk'.anchors = [disk.anchors EXCEPT ![h] = x]
        /\ disk'.passes = disk.passes /\ disk'.hist = disk.hist /\ disk'.settled = disk.settled
        /\ disk'.commits = disk.commits
        /\ disk'.anchor = disk.anchor /\ disk'.synced = disk.synced /\ disk'.pending = disk.pending
    BY <1>0, <1>6, <2>1, <2>2, AnchorsWrite DEF x
  <2>4. h <= Tip(disk)
    BY <1>0, <2>1, TipFacts, HeightFacts
  <2>5. disk'.anchor = disk.anchor \/ (disk'.anchor = x /\ Len(x) <= Tip(disk))
    BY <2>3
  <2> QED
    BY <1>0, <2>1, <2>3, <2>4, <2>5, AnchorDurable
<1> QED
  BY <1>1, <1>2, <1>3, <1>4, <1>5, <1>6, DiskSteps DEF DiskStep

-----------------------------------------------------------------------------
(* The open block is preserved *)

\* The steps that open a block or leave it open.
LEMMA BlockSteps ==
    ASSUME IInv, [Next]_vars, pc' \in InBlock
    PROVE  \/ UNCHANGED <<disk, conn, en, staged, pc, loc>>
           \/ BeginBlock \/ CollectBlock \/ ExecuteEvent \/ RecordInvalidMints \/ SettleBalances
           \/ FinalizeEnergy \/ PersistCommit \/ PublishTracker \/ PutSyncedHeight
<1> USE DEF InBlock
<1>0. loc.after \in {"detect", "check"}
  BY DEF IInv, TypeOK, Locals
<1>1. CASE Upstream
  BY <1>1 DEF Upstream, ExtendChain, ReplaceChain, PollStatus, dbVars, memVars
<1>2. CASE Recovery
  BY <1>0, <1>2 DEF Recovery, NothingPending, ResumePending, ResumeEnergy, ReloadTracker, ClearPending,
              NoDrift, DriftFound, AncestorFound, ProbeLower, ProbeFails, RollbackPasses, GiveUp, AfterResume
<1>3. CASE SyncBlock
  BY <1>3 DEF SyncBlock, CommitSavepoint
<1>4. CASE SyncOnce
  BY <1>4 DEF SyncOnce, ReadSnapshot, ReadStableHeight, CheckStores, PlanSync, PersistAnchor, Backfill,
              SyncDone, KeepWaiting, WakeUp, GiveUp, vars
<1>5. CASE Failures
  BY <1>5 DEF Failures, FailEarly, FailStaged, FailFinalized, FailLate, FailOutside, Crash, GiveUp
<1>6. CASE Restart
  BY <1>6 DEF Restart
<1>7. CASE UNCHANGED vars
  BY <1>7 DEF vars
<1> QED
  BY <1>1, <1>2, <1>3, <1>4, <1>5, <1>6, <1>7 DEF Next, Task

LEMMA SameBlock ==
    ASSUME BlockOK, conn' = conn, disk' = disk, loc'.blk = loc.blk,
           pc' = "commit" <=> pc = "commit", pc' = "collect" => pc = "collect",
           pc' \in {"collect", "exec", "settle"} \/ pc \notin {"collect", "exec", "settle"}
    PROVE  BlockOK'
BY DEF BlockOK

LEMMA NeverRevivedTransitive ==
    ASSUME NEW a \in Stores, NEW b \in Stores, NEW c \in Stores, NeverRevived(a, b), NeverRevived(b, c)
    PROVE  NeverRevived(a, c)
<1> SUFFICES ASSUME NEW p \in Passes, a.passes[p] # NoRow
             PROVE  c.passes[p] # NoRow /\ Rank(c.passes[p].state) >= Rank(a.passes[p].state)
  BY DEF NeverRevived
<1>1. b.passes[p] # NoRow /\ Rank(b.passes[p].state) >= Rank(a.passes[p].state)
  BY DEF NeverRevived
<1>2. c.passes[p] # NoRow /\ Rank(c.passes[p].state) >= Rank(b.passes[p].state)
  BY <1>1 DEF NeverRevived
<1>3. /\ Rank(a.passes[p].state) \in 0..3 /\ Rank(b.passes[p].state) \in 0..3
      /\ Rank(c.passes[p].state) \in 0..3
  BY <1>1, <1>2, RowFields, RankValues
<1> QED
  BY <1>1, <1>2, <1>3

LEMMA StepInBlock ==
    ASSUME IInv, pc = "exec", pc' \in {"exec", "settle"}, disk' = disk, loc'.blk = loc.blk,
           TablesStep(conn', conn, loc.blk)
    PROVE  BlockOK'
<1>1. BlockOK /\ disk \in Stores /\ conn \in Stores
  BY DEF IInv, InBlock, TypeOK
<1>2. conn' \in Stores /\ NeverRevived(conn, conn') /\ SameElsewhere(conn', conn, loc.blk)
  BY DEF TablesStep, TablesOK
<1>3. NeverRevived(disk, conn')
  BY <1>1, <1>2, NeverRevivedTransitive DEF BlockOK
<1>4. TablesOK(conn', loc.blk) /\ OneActiveNow(conn')
  BY DEF TablesStep
<1>5. /\ \A p \in Passes, k \in Heights : k # loc.blk => conn'.hist[p][k] = disk.hist[p][k]
      /\ \A k \in Heights : k # loc.blk => /\ conn'.commits[k] = disk.commits[k]
                                           /\ conn'.settled[k] = disk.settled[k]
      /\ conn'.anchor = disk.anchor /\ conn'.anchors = disk.anchors /\ conn'.pending = disk.pending
      /\ conn'.synced = disk.synced
  BY <1>1, <1>2 DEF BlockOK, SameElsewhere
<1> QED
  BY <1>3, <1>4, <1>5 DEF BlockOK

\* The savepoint opens on the durable store.
LEMMA OpenBlock ==
    ASSUME IInv, pc = "begin", pc' = "collect", disk' = disk, conn' = conn, loc' = loc
    PROVE  BlockOK'
<1> DEFINE b == loc.blk
           t == Tip(disk)
<1>1. /\ disk \in Stores /\ conn = disk /\ b \in Heights /\ b = t + 1 /\ DurableOK(disk)
  BY DEF IInv, TypeOK, Locals, InBlock, ControlOK
<1>2. t \in Heights /\ t \in Nat /\ b \in Nat /\ b > t /\ MaxHeight \in Nat /\ MaxHeight \in Heights /\ t <= MaxHeight
  BY <1>1, TipFacts, HeightFacts
<1> HIDE DEF b, t
<1>3. TablesOK(disk, t)
  BY <1>1 DEF DurableOK, t
<1>4. \A k \in (b + 1)..MaxHeight : k \in (t + 1)..MaxHeight
  BY <1>1, <1>2
<1>5. NoHistoryAfter(disk, b)
  BY <1>3, <1>4 DEF TablesOK, NoHistoryAfter
<1>6. NoPassesAfter(disk, b)
  <2> SUFFICES ASSUME NEW p \in Passes, disk.passes[p] # NoRow PROVE disk.passes[p].mint <= b
    BY DEF NoPassesAfter
  <2>1. disk.passes[p].mint \in Heights
    BY <1>1, RowFields
  <2>2. disk.passes[p].mint <= t
    BY <1>3 DEF TablesOK, NoPassesAfter
  <2> QED
    BY <1>2, <2>1, <2>2, HeightFacts
<1>7. TablesOK(disk, b)
  BY <1>3, <1>5, <1>6 DEF TablesOK
<1>8. OneActiveNow(disk)
  <2>1. \A p \in Passes : RowAt(disk.hist, p, MaxHeight) = disk.passes[p]
    BY <1>3 DEF TablesOK, RowsAreTheHistory
  <2>2. OneActiveAt(disk, MaxHeight)
    BY <1>1, <1>2 DEF DurableOK
  <2> QED
    BY <2>1, <2>2 DEF OneActiveAt, OneActiveNow
<1>9. NeverRevived(disk, disk)
  <2> SUFFICES ASSUME NEW p \in Passes, disk.passes[p] # NoRow
               PROVE  Rank(disk.passes[p].state) >= Rank(disk.passes[p].state)
    BY DEF NeverRevived
  <2>1. Rank(disk.passes[p].state) \in 0..3
    BY <1>1, RowFields, RankValues
  <2> QED
    BY <2>1
<1> QED
  BY <1>1, <1>7, <1>8, <1>9 DEF BlockOK, b

LEMMA BlockPreserved ==
    ASSUME IInv, [Next]_vars, pc' \in InBlock
    PROVE  BlockOK'
<1>0. pc \in InBlock => BlockOK
  BY DEF IInv
<1>a. disk \in Stores /\ conn \in Stores /\ loc.blk \in Heights /\ chain \in Chains /\ loc \in Locals
  BY DEF IInv, TypeOK, Locals
<1>1. CASE UNCHANGED <<disk, conn, en, staged, pc, loc>>
  BY <1>0, <1>1, SameBlock
<1>2. CASE BeginBlock
  <2>1. pc = "begin" /\ pc' = "collect" /\ disk' = disk /\ conn' = conn /\ loc' = loc
    BY <1>2 DEF BeginBlock, GiveUp, dbVars, InBlock
  <2> QED
    BY <2>1, OpenBlock
<1>3. CASE CollectBlock
  <2>1. pc = "collect" /\ pc' = "exec" /\ disk' = disk /\ conn' = conn /\ loc'.blk = loc.blk
    BY <1>3, CollectTypes DEF CollectBlock, dbVars
  <2> QED
    BY <1>0, <2>1, SameBlock DEF InBlock
<1>4. CASE ExecuteEvent
  <2>1. pc = "exec" /\ pc' = "exec" /\ disk' = disk /\ loc'.blk = loc.blk
    BY <1>4, <1>a DEF ExecuteEvent, Locals
  <2> QED
    BY <1>4, <2>1, ExecuteWrites, StepInBlock
<1>5. CASE RecordInvalidMints
  <2>1. pc = "exec" /\ pc' = "settle" /\ disk' = disk /\ loc'.blk = loc.blk
    BY <1>5 DEF RecordInvalidMints
  <2> QED
    BY <1>5, <2>1, InvalidWrites, StepInBlock
<1>6. CASE SettleBalances
  <2>1. pc = "settle" /\ pc' = "finalize" /\ disk' = disk /\ loc' = loc
    BY <1>6 DEF SettleBalances
  <2>2. PICK x \in Snapshots : x # NoSnapshot /\ conn' = upsert_active_balance_snapshot(conn, loc.blk, x)
    BY <1>6, SettleWrites
  <2>3. /\ conn' \in Stores
        /\ conn'.passes = conn.passes /\ conn'.hist = conn.hist /\ conn'.commits = conn.commits
        /\ conn'.anchor = conn.anchor /\ conn'.anchors = conn.anchors
        /\ conn'.synced = conn.synced /\ conn'.pending = conn.pending
        /\ conn'.settled[loc.blk] # NoSnapshot
        /\ \A k \in Heights : k # loc.blk => conn'.settled[k] = conn.settled[k]
    BY <1>a, <2>2, SnapshotWrite
  <2>4. BlockOK
    BY <1>0, <2>1 DEF InBlock
  <2>5. TablesOK(conn', loc.blk) /\ OneActiveNow(conn') /\ NeverRevived(disk, conn')
    BY <2>3, <2>4, SameTables DEF BlockOK
  <2> QED
    BY <2>1, <2>3, <2>4, <2>5 DEF BlockOK
<1>7. CASE FinalizeEnergy
  <2>1. pc = "finalize" /\ pc' = "persist" /\ disk' = disk /\ conn' = conn /\ loc' = loc
    BY <1>7 DEF FinalizeEnergy, dbVars
  <2> QED
    BY <1>0, <2>1, SameBlock DEF InBlock
<1>8. CASE PersistCommit
  <2> DEFINE x == [up |-> Prefix(chain, loc.blk), muts |-> loc.done, invalid |-> loc.bad]
  <2>1. /\ pc = "persist" /\ pc' = "publish" /\ disk' = disk /\ loc' = loc
        /\ conn' = upsert_pass_block_commit(conn, loc.blk, x) /\ loc.blk <= Len(chain)
    BY <1>8 DEF PersistCommit, HasBlock
  <2>2. Prefix(chain, loc.blk) \in Seq(Blocks)
    BY <1>a, <2>1, PrefixFacts, HeightFacts
  <2>3. x \in Commits
    BY <1>a, <2>2 DEF Commits, Locals
  <2> HIDE DEF x
  <2>4. /\ conn' \in Stores
        /\ conn'.passes = conn.passes /\ conn'.hist = conn.hist /\ conn'.settled = conn.settled
        /\ conn'.anchor = conn.anchor /\ conn'.anchors = conn.anchors
        /\ conn'.synced = conn.synced /\ conn'.pending = conn.pending
        /\ \A k \in Heights : k # loc.blk => conn'.commits[k] = conn.commits[k]
    BY <1>a, <2>1, <2>3, CommitWrite
  <2>5. BlockOK
    BY <1>0, <2>1 DEF InBlock
  <2>6. TablesOK(conn', loc.blk) /\ OneActiveNow(conn') /\ NeverRevived(disk, conn')
    BY <2>4, <2>5, SameTables DEF BlockOK
  <2> QED
    BY <2>1, <2>4, <2>5, <2>6 DEF BlockOK
<1>9. CASE PublishTracker
  <2>1. pc = "publish" /\ pc' = "synced" /\ disk' = disk /\ conn' = conn /\ loc' = loc
    BY <1>9 DEF PublishTracker, dbVars
  <2> QED
    BY <1>0, <2>1, SameBlock DEF InBlock
<1>10. CASE PutSyncedHeight
  <2>1. /\ pc = "synced" /\ pc' = "commit" /\ disk' = disk /\ loc' = loc
        /\ conn' = update_synced_height(conn, loc.blk)
    BY <1>10 DEF PutSyncedHeight
  <2>2. /\ conn' \in Stores /\ conn'.synced = loc.blk
        /\ conn'.passes = conn.passes /\ conn'.hist = conn.hist /\ conn'.settled = conn.settled
        /\ conn'.commits = conn.commits
        /\ conn'.anchor = conn.anchor /\ conn'.anchors = conn.anchors /\ conn'.pending = conn.pending
    BY <1>a, <2>1, SyncedWrite
  <2>3. BlockOK
    BY <1>0, <2>1 DEF InBlock
  <2>4. TablesOK(conn', loc.blk) /\ OneActiveNow(conn') /\ NeverRevived(disk, conn')
    BY <2>2, <2>3, SameTables DEF BlockOK
  <2> QED
    BY <2>1, <2>2, <2>3, <2>4 DEF BlockOK
<1> QED
  BY <1>1, <1>2, <1>3, <1>4, <1>5, <1>6, <1>7, <1>8, <1>9, <1>10, BlockSteps

-----------------------------------------------------------------------------
(* The energy store is preserved *)

\* What a step does to the energy store, against the durable store it started from.
EnergyKept ==
    /\ RecordsOK(en'.rec)
    /\ en'.pending # NoHeight => en'.pending > Tip(disk)
    /\ \A p \in Passes, k \in Heights : k <= disk.synced => SameKind(en'.rec, en.rec, p, k)
    /\ disk.synced >= Floor /\ en'.synced # NoHeight => en'.synced >= disk.synced

LEMMA SameKindReflexive ==
    ASSUME NEW rec, NEW p, NEW j
    PROVE  SameKind(rec, rec, p, j)
BY SameKindIfSame

LEMMA ReconcileKept ==
    ASSUME IInv, NEW h \in Heights, h >= disk.synced, disk.synced >= Floor => h = disk.synced,
           en' = reconcile_with_pass_synced_height(en, h)
    PROVE  EnergyKept /\ NoRecordsAfter(en'.rec, h) /\ en'.pending = NoHeight
<1>1. en \in EnergyStores /\ disk \in Stores /\ RecordsOK(en.rec) /\ EnergyOK
  BY DEF IInv, TypeOK, EnergyOK
<1>2. Reconciled(en', en, h)
  BY <1>1, ReconcileOK
<1>3. /\ Tip(disk) \in Heights /\ Tip(disk) >= disk.synced /\ disk.synced \in Heights /\ h \in Nat
      /\ Tip(disk) \in Nat /\ disk.synced \in Nat
  BY <1>1, TipFacts, HeightFacts
<1>4. /\ en.pending = NoHeight \/ (en.pending \in Nat /\ en.pending > Tip(disk))
      /\ en.synced = NoHeight \/ en.synced \in Nat
  BY <1>1, HeightFacts DEF EnergyStores, EnergyOK
<1>5. ASSUME NEW p \in Passes, NEW k \in Heights, k <= disk.synced PROVE SameKind(en'.rec, en.rec, p, k)
  <2>1. \A j \in Heights : j <= k => en'.rec[p][j] = en.rec[p][j]
    <3> SUFFICES ASSUME NEW j \in Heights, j <= k PROVE en'.rec[p][j] = en.rec[p][j]
      OBVIOUS
    <3>1. j <= h /\ (en.pending = NoHeight \/ j < en.pending)
      BY <1>3, <1>4, <1>5 DEF Heights
    <3> QED
      BY <1>2, <3>1 DEF Reconciled
  <2> QED
    BY <2>1, SameKindIfSame
<1>6. ASSUME disk.synced >= Floor PROVE en'.synced >= disk.synced
  <2>1. en.synced # NoHeight => en.synced >= disk.synced
    BY <1>1, <1>6 DEF EnergyOK
  <2>2. en'.synced = IF en.synced = NoHeight \/ en.synced > h THEN h ELSE en.synced
    BY <1>2 DEF Reconciled
  <2> QED
    BY <1>3, <1>6, <2>1, <2>2
<1>7. RecordsOK(en'.rec) /\ en'.pending = NoHeight /\ NoRecordsAfter(en'.rec, h)
  BY <1>2 DEF Reconciled, NoRecordsAfter
<1> QED
  BY <1>5, <1>6, <1>7 DEF EnergyKept

LEMMA StepKept ==
    ASSUME IInv, pc \in InBlock, EnergyStep(en'.rec, en.rec, loc.blk),
           en'.pending = en.pending, en'.synced = en.synced
    PROVE  EnergyKept
<1>1. disk \in Stores /\ loc.blk = Tip(disk) + 1 /\ EnergyOK
  BY DEF IInv, TypeOK, ControlOK
<1>2. Tip(disk) >= disk.synced /\ disk.synced \in Nat /\ Tip(disk) \in Nat
  BY <1>1, TipFacts, HeightFacts
<1>3. ASSUME NEW p \in Passes, NEW k \in Heights, k <= disk.synced PROVE SameKind(en'.rec, en.rec, p, k)
  <2>1. k < loc.blk
    BY <1>1, <1>2, <1>3 DEF Heights
  <2> QED
    BY <2>1 DEF EnergyStep, PassStep
<1> QED
  BY <1>1, <1>3 DEF EnergyKept, EnergyOK, EnergyStep

LEMMA EnergySteps ==
    ASSUME IInv, [Next]_vars
    PROVE  EnergyKept
<1>0. /\ en \in EnergyStores /\ disk \in Stores /\ RecordsOK(en.rec) /\ EnergyOK /\ ControlOK
      /\ DurableOK(disk) /\ loc \in Locals
  BY DEF IInv, TypeOK, EnergyOK
<1>a. /\ Tip(disk) \in Heights /\ Tip(disk) >= disk.synced /\ disk.synced \in Heights
      /\ Tip(disk) \in Nat /\ disk.synced \in Nat
      /\ disk.synced >= Floor => Tip(disk) = disk.synced
  BY <1>0, TipFacts, HeightFacts
<1>1. CASE en'.rec = en.rec /\ en'.pending = en.pending /\ en'.synced = en.synced
  BY <1>0, <1>1, SameKindReflexive DEF EnergyKept, EnergyOK
<1>2. CASE ResumeEnergy
  <2>1. pc = "resume_energy" /\ conn = disk /\ en' = reconcile_with_pass_synced_height(en, disk.pending)
    BY <1>0, <1>2 DEF ResumeEnergy, ControlOK, InBlock
  <2>2. disk.pending = disk.synced
    BY <1>0, <2>1 DEF ControlOK, DurableOK
  <2> QED
    BY <1>a, <2>1, <2>2, ReconcileKept
<1>3. CASE CheckStores
  <2>1. pc = "check" /\ (en' = en \/ en' = reconcile_with_pass_synced_height(en, loc.cur))
    BY <1>3 DEF CheckStores
  <2>2. loc.cur = Tip(disk)
    BY <1>0, <2>1 DEF ControlOK
  <2> QED
    BY <1>1, <1>a, <2>1, <2>2, ReconcileKept
<1>4. CASE BeginBlock
  <2>1. pc = "begin" /\ (en' = en \/ en' = [en EXCEPT !.pending = loc.blk])
    BY <1>4 DEF BeginBlock, begin_block_sync
  <2>2. en' = en \/ (en'.rec = en.rec /\ en'.pending = loc.blk /\ en'.synced = en.synced)
    BY <1>0, <2>1 DEF EnergyStores
  <2>3. loc.blk = Tip(disk) + 1
    BY <1>0, <2>1 DEF ControlOK
  <2>4. loc.blk > Tip(disk)
    BY <1>a, <2>3
  <2>5. CASE en'.rec = en.rec /\ en'.pending = loc.blk /\ en'.synced = en.synced
    BY <1>0, <2>4, <2>5, SameKindReflexive DEF EnergyKept, EnergyOK
  <2> QED
    BY <1>1, <2>2, <2>5
<1>5. CASE ExecuteEvent
  <2>1. pc \in InBlock
    BY <1>5 DEF ExecuteEvent, InBlock
  <2> QED
    BY <1>5, <2>1, ExecuteWrites, StepKept
<1>6. CASE SettleBalances
  <2>1. pc \in InBlock
    BY <1>6 DEF SettleBalances, InBlock
  <2> QED
    BY <1>6, <2>1, SettleWrites, StepKept
<1>7. CASE FinalizeEnergy
  <2>1. pc = "finalize" /\ en' = [en EXCEPT !.synced = loc.blk, !.pending = NoHeight]
    BY <1>7 DEF FinalizeEnergy, finalize_block_sync
  <2>2. en'.rec = en.rec /\ en'.pending = NoHeight /\ en'.synced = loc.blk
    BY <1>0, <2>1 DEF EnergyStores
  <2>3. loc.blk = Tip(disk) + 1
    BY <1>0, <2>1 DEF ControlOK, InBlock
  <2>4. loc.blk >= disk.synced
    BY <1>a, <2>3
  <2> QED
    BY <1>0, <2>2, <2>4, SameKindReflexive DEF EnergyKept
<1>8. CASE FailStaged
  <2>1. pc \in {"exec", "settle", "finalize"} /\ en' = abort_pending_block_sync(en, loc.blk)
    BY <1>8 DEF FailStaged
  <2>2. loc.blk = Tip(disk) + 1
    BY <1>0, <2>1 DEF ControlOK, InBlock
  <2>3. Cleared(en'.rec, en.rec, loc.blk) /\ en'.pending = NoHeight /\ en'.synced = en.synced
    BY <1>0, <2>1, AbortOK
  <2>4. ASSUME NEW p \in Passes, NEW k \in Heights, k <= disk.synced PROVE SameKind(en'.rec, en.rec, p, k)
    <3>1. \A j \in Heights : j <= k => ~(j >= loc.blk)
      BY <1>a, <2>2, <2>4 DEF Heights
    <3>2. \A j \in Heights : j <= k => en'.rec[p][j] = en.rec[p][j]
      BY <2>3, <3>1 DEF Cleared
    <3> QED
      BY <3>2, SameKindIfSame
  <2> QED
    BY <1>0, <2>3, <2>4 DEF EnergyKept, EnergyOK, Cleared
<1>9. CASE FailFinalized \/ FailLate
  <2>1. en' = reconcile_with_pass_synced_height(en, disk.synced)
    BY <1>9 DEF FailFinalized, FailLate
  <2> QED
    BY <1>a, <2>1, ReconcileKept
<1> QED
  BY <1>1, <1>2, <1>3, <1>4, <1>5, <1>6, <1>7, <1>8, <1>9, EnergyWriters

\* The heights of the committed blocks.
LEMMA CommittedHeights ==
    ASSUME NEW db \in Stores, NEW k, k \in Genesis..Tip(db)
    PROVE  k \in Heights /\ k \in Genesis..db.synced /\ Tip(db) = db.synced
<1>1. /\ Tip(db) \in Heights /\ db.synced \in Heights
      /\ (Tip(db) = db.synced \/ Tip(db) = Floor)
      /\ Genesis \in Nat /\ Floor = Genesis - 1 /\ MaxHeight \in Nat /\ Heights = 0..MaxHeight
  BY TipFacts, HeightFacts
<1> QED
  BY <1>1

LEMMA AgreesPreserved ==
    ASSUME IInv, [Next]_vars
    PROVE  /\ DurableAgrees'
           /\ en'.pending # NoHeight => en'.pending > Tip(disk')
           /\ disk'.synced >= Floor /\ en'.synced # NoHeight => en'.synced >= disk'.synced
<1>0. /\ en \in EnergyStores /\ disk \in Stores /\ conn \in Stores /\ EnergyOK /\ ControlOK
      /\ DurableOK(disk) /\ loc \in Locals /\ loc.target \in Heights
  BY DEF IInv, TypeOK, Locals
<1>a. /\ Tip(disk) \in Heights /\ Tip(disk) >= disk.synced /\ disk.synced \in Heights
      /\ Tip(disk) \in Nat /\ disk.synced \in Nat
      /\ disk.synced >= Floor => Tip(disk) = disk.synced
      /\ Genesis \in Nat /\ Floor = Genesis - 1 /\ MaxHeight \in Nat
      /\ disk.synced <= MaxHeight
  BY <1>0, TipFacts, HeightFacts
<1>b. EnergyKept
  BY EnergySteps
<1>c. en'.synced = NoHeight \/ en'.synced \in Nat
  BY EnergyTypes, HeightFacts DEF EnergyStores
<1>d. en'.pending = NoHeight \/ en'.pending \in Nat
  BY EnergyTypes, HeightFacts DEF EnergyStores
\* A height that was committed before: the records keep their kind.
<1>e. ASSUME NEW p \in Passes, NEW k \in Genesis..disk.synced, NEW row, row = RowAt(disk.hist, p, k)
      PROVE  Agrees(row, en'.rec, p, k)
  <2>1. k \in Heights /\ k <= disk.synced
    BY <1>a, <1>e DEF Heights
  <2>2. Agrees(row, en.rec, p, k)
    BY <1>0, <1>e DEF EnergyOK, DurableAgrees
  <2>3. SameKind(en'.rec, en.rec, p, k)
    BY <1>b, <2>1 DEF EnergyKept
  <2> QED
    BY <2>2, <2>3, AgreesKind
<1>1. ASSUME disk'.synced = disk.synced, disk'.hist = disk.hist
      PROVE  /\ DurableAgrees'
             /\ en'.pending # NoHeight => en'.pending > Tip(disk')
             /\ disk'.synced >= Floor /\ en'.synced # NoHeight => en'.synced >= disk'.synced
  <2>1. Tip(disk') = Tip(disk)
    BY <1>1 DEF Tip
  <2>2. DurableAgrees'
    BY <1>1, <1>e DEF DurableAgrees
  <2> QED
    BY <1>1, <1>b, <2>1, <2>2 DEF EnergyKept
<1>2. CASE pc = "clear" /\ disk' = clear_recovery_pending(disk)
  BY <1>0, <1>1, <1>2, MarkerWrite
<1>3. CASE pc = "rollback" /\ disk' = rollback_to_block_height(disk, loc.target)
  <2> DEFINE t == loc.target
  <2>1. t >= Floor /\ t <= Tip(disk) /\ Tip(disk) >= Genesis /\ t \in Nat
    BY <1>0, <1>3, HeightFacts, TipFacts DEF ControlOK
  <2>2. RowsAreTheHistory(disk) /\ MintsAreOnce(disk)
    BY <1>0 DEF DurableOK, TablesOK
  <2>3. RolledBack(disk', disk, t)
    BY <1>0, <1>3, <2>2, RollbackFields
  <2>4. disk'.synced = t /\ Tip(disk') = t
    BY <1>0, <2>1, <2>3, RollbackDurable DEF RolledBack
  <2>5. \A p \in Passes, h \in Heights : h <= t => RowAt(disk'.hist, p, h) = RowAt(disk.hist, p, h)
    <3>1. \A p \in Passes, h \in Heights :
            RowAt(disk'.hist, p, h) = IF h > t THEN RowAt(disk.hist, p, t) ELSE RowAt(disk.hist, p, h)
      BY <1>0, <2>2, <2>3, RollbackTables
    <3>2. \A h \in Heights : h <= t => ~(h > t)
      BY <2>1 DEF Heights
    <3> QED
      BY <3>1, <3>2
  <2> HIDE DEF t
  <2>6. disk.synced = Tip(disk)
    <3>1. Genesis \in Genesis..Tip(disk)
      BY <1>a, <2>1
    <3> QED
      BY <1>0, <3>1, CommittedHeights
  <2>7. ASSUME NEW k \in Genesis..t, NEW p \in Passes PROVE Agrees(RowAt(disk'.hist, p, k), en'.rec, p, k)
    <3>1. k \in Genesis..disk.synced /\ k \in Heights /\ k <= t
      BY <1>a, <2>1, <2>6 DEF Heights
    <3>2. RowAt(disk'.hist, p, k) = RowAt(disk.hist, p, k)
      BY <2>5, <3>1
    <3> QED
      BY <1>e, <3>1, <3>2
  <2>8. DurableAgrees'
    BY <2>4, <2>7 DEF DurableAgrees
  <2>9. en'.pending # NoHeight => en'.pending > t
    BY <1>a, <1>b, <1>d, <2>1 DEF EnergyKept
  <2>10. en'.synced # NoHeight => en'.synced >= t
    BY <1>a, <1>b, <1>c, <2>1, <2>6 DEF EnergyKept
  <2> QED
    BY <2>4, <2>8, <2>9, <2>10
<1>4. CASE pc = "commit" /\ disk' = conn /\ en' = en
  <2> DEFINE b == loc.blk
  <2>1. /\ b = Tip(disk) + 1 /\ en.synced = b /\ en.pending = NoHeight /\ b \in Heights
        /\ AllAgree(conn, en.rec, b) /\ TablesOK(conn, b) /\ conn.synced = b
        /\ \A p \in Passes, k \in Heights : k # b => conn.hist[p][k] = disk.hist[p][k]
    BY <1>0, <1>4 DEF ControlOK, EnergyOK, InBlock, Written, IInv, BlockOK, Locals
  <2> HIDE DEF b
  <2>2. ASSUME NEW k \in Genesis..b, NEW p \in Passes PROVE Agrees(RowAt(conn.hist, p, k), en.rec, p, k)
    <3>1. CASE k = b
      <4>1. RowAt(conn.hist, p, b) = conn.passes[p]
        <5>1. b >= b
          BY <1>a, <2>1
        <5> QED
          BY <2>1, <5>1, CurrentRow DEF TablesOK
      <4> QED
        BY <2>1, <3>1, <4>1 DEF AllAgree
    <3>2. CASE k # b
      <4>1. k \in Genesis..Tip(disk)
        BY <1>a, <2>1, <3>2
      <4>2. k \in Heights /\ k \in Genesis..disk.synced
        BY <1>0, <4>1, CommittedHeights
      <4>3. \A j \in Heights : j <= k => j # b
        BY <1>a, <2>1, <4>1 DEF Heights
      <4>4. RowAt(conn.hist, p, k) = RowAt(disk.hist, p, k)
        <5>1. \A j \in Heights : j <= k => conn.hist[p][j] = disk.hist[p][j]
          BY <2>1, <4>3
        <5> QED
          BY <4>2, <5>1, RowAtLocal
      <4> QED
        BY <1>4, <1>e, <4>2, <4>4
    <3> QED
      BY <3>1, <3>2
  <2>3. DurableAgrees'
    BY <1>4, <2>1, <2>2 DEF DurableAgrees
  <2>4. b >= b
    BY <1>a, <2>1
  <2> QED
    BY <1>4, <2>1, <2>3, <2>4
<1>5. CASE pc = "anchor" /\ Len(loc.snap) = loc.cur /\ disk' = upsert_snapshot_anchor(disk, loc.snap)
  <2>1. Len(loc.snap) = disk.synced /\ loc.snap \in Seq(Blocks) /\ Len(loc.snap) \in Heights
    BY <1>0, <1>5, <1>a DEF ControlOK, Locals
  <2>2. /\ upsert_snapshot_anchor(disk, loc.snap).synced = Len(loc.snap)
        /\ upsert_snapshot_anchor(disk, loc.snap).hist = disk.hist
    BY <1>0, <2>1, AnchorWrite
  <2>3. disk'.synced = disk.synced /\ disk'.hist = disk.hist
    BY <1>5, <2>1, <2>2
  <2> QED
    BY <1>1, <2>3
<1>6. ASSUME pc = "backfill", NEW h \in MissingAnchors, h <= Len(chain),
             disk' = upsert_snapshot_history_entry(disk, h, Prefix(chain, h))
      PROVE  disk'.synced = disk.synced /\ disk'.hist = disk.hist
  <2> DEFINE x == Prefix(chain, h)
  <2>1. h \in Heights /\ h \in Nat /\ chain \in Chains
    BY <1>0, <1>6, HeightFacts DEF MissingAnchors, Locals, IInv, TypeOK
  <2>2. x \in Seq(Blocks)
    BY <1>0, <1>6, <2>1, PrefixFacts
  <2> HIDE DEF x
  <2> QED
    BY <1>0, <1>6, <2>1, <2>2, AnchorsWrite DEF x
<1>7. CASE pc = "backfill" /\ \E h \in MissingAnchors :
             h <= Len(chain) /\ disk' = upsert_snapshot_history_entry(disk, h, Prefix(chain, h))
  BY <1>1, <1>6, <1>7
<1>8. CASE disk' = disk
  BY <1>1, <1>8
<1> QED
  BY <1>2, <1>3, <1>4, <1>5, <1>7, <1>8, DiskSteps DEF DiskStep

\* The steps that lead to the next block.
LEMMA PlanSteps ==
    ASSUME IInv, [Next]_vars, pc' \in {"plan", "begin"}
    PROVE  UNCHANGED <<disk, conn, en, staged, pc, loc>> \/ CheckStores \/ PlanSync \/ CommitSavepoint
<1>0. loc.after \in {"detect", "check"}
  BY DEF IInv, TypeOK, Locals
<1>1. CASE Upstream
  BY <1>1 DEF Upstream, ExtendChain, ReplaceChain, PollStatus, dbVars, memVars
<1>2. CASE Recovery
  BY <1>0, <1>2 DEF Recovery, NothingPending, ResumePending, ResumeEnergy, ReloadTracker, ClearPending,
              NoDrift, DriftFound, AncestorFound, ProbeLower, ProbeFails, RollbackPasses, GiveUp, AfterResume
<1>3. CASE SyncBlock
  BY <1>3 DEF SyncBlock, BeginBlock, CollectBlock, ExecuteEvent, RecordInvalidMints, SettleBalances,
              FinalizeEnergy, PersistCommit, PublishTracker, PutSyncedHeight, GiveUp
<1>4. CASE SyncOnce
  BY <1>4 DEF SyncOnce, ReadSnapshot, ReadStableHeight, PersistAnchor, Backfill,
              SyncDone, KeepWaiting, WakeUp, GiveUp, vars
<1>5. CASE Failures
  BY <1>5 DEF Failures, FailEarly, FailStaged, FailFinalized, FailLate, FailOutside, Crash, GiveUp
<1>6. CASE Restart
  BY <1>6 DEF Restart
<1>7. CASE UNCHANGED vars
  BY <1>7 DEF vars
<1> QED
  BY <1>1, <1>2, <1>3, <1>4, <1>5, <1>6, <1>7 DEF Next, Task

LEMMA NoRecordsYet ==
    ASSUME IInv, [Next]_vars, pc' \in {"plan", "begin", "collect"}
    PROVE  NoRecordsAfter(en'.rec, Tip(disk'))
<1>0. /\ en \in EnergyStores /\ disk \in Stores /\ EnergyOK /\ ControlOK /\ loc \in Locals
  BY DEF IInv, TypeOK
<1>a. /\ Tip(disk) \in Heights /\ Tip(disk) >= disk.synced
      /\ disk.synced >= Floor => Tip(disk) = disk.synced
      /\ disk' = disk => Tip(disk') = Tip(disk)
  BY <1>0, TipFacts
<1>1. CASE UNCHANGED <<disk, conn, en, staged, pc, loc>>
  BY <1>0, <1>1, <1>a DEF EnergyOK
<1>2. CASE CheckStores
  <2>1. /\ pc = "check" /\ pc' = "plan" /\ disk' = disk
        /\ en' = reconcile_with_pass_synced_height(en, loc.cur)
    BY <1>2 DEF CheckStores, GiveUp, dbVars
  <2>2. loc.cur = Tip(disk)
    BY <1>0, <2>1 DEF ControlOK
  <2>3. NoRecordsAfter(en'.rec, Tip(disk))
    BY <1>a, <2>1, <2>2, ReconcileKept
  <2> QED
    BY <1>a, <2>1, <2>3
<1>3. CASE PlanSync
  <2>1. pc = "plan" /\ disk' = disk /\ en' = en
    BY <1>3 DEF PlanSync, dbVars
  <2> QED
    BY <1>0, <1>a, <2>1 DEF EnergyOK
<1>4. CASE CommitSavepoint
  <2>1. pc = "commit" /\ disk' = conn /\ en' = en
    BY <1>4 DEF CommitSavepoint
  <2>2. Tip(conn) = loc.blk
    BY <2>1, CommitDurable
  <2> QED
    BY <1>0, <2>1, <2>2 DEF EnergyOK, Written
<1>5. CASE BeginBlock
  <2>1. pc = "begin" /\ disk' = disk /\ (en' = en \/ en' = [en EXCEPT !.pending = loc.blk])
    BY <1>5 DEF BeginBlock, begin_block_sync, dbVars
  <2>2. en'.rec = en.rec
    BY <1>0, <2>1 DEF EnergyStores
  <2> QED
    BY <1>0, <1>a, <2>1, <2>2 DEF EnergyOK
<1>6. pc' = "collect" => UNCHANGED <<disk, conn, en, staged, pc, loc>> \/ BeginBlock
  BY BlockSteps DEF InBlock, CollectBlock, ExecuteEvent, RecordInvalidMints, SettleBalances,
     FinalizeEnergy, PersistCommit, PublishTracker, PutSyncedHeight
<1> QED
  BY <1>1, <1>2, <1>3, <1>4, <1>5, <1>6, PlanSteps

\* The passes of the block before agree with their records when the block begins.
LEMMA CollectAgrees ==
    ASSUME IInv, pc = "collect"
    PROVE  NoRecordsAfter(en.rec, loc.blk) /\ AllAgree(conn, en.rec, loc.blk)
<1> DEFINE b == loc.blk
           t == Tip(disk)
<1>0. /\ disk \in Stores /\ EnergyOK /\ DurableOK(disk) /\ b \in Heights /\ b = t + 1 /\ conn = disk
  BY DEF IInv, TypeOK, Locals, ControlOK, InBlock, BlockOK
<1>a. /\ t \in Heights /\ t \in Nat /\ b \in Nat /\ t <= b /\ t >= t /\ MaxHeight \in Nat /\ Heights = 0..MaxHeight
      /\ t = disk.synced \/ t = Floor
      /\ Genesis \in Nat /\ Floor = Genesis - 1
      /\ NoRecordsAfter(en.rec, t)
  BY <1>0, TipFacts, HeightFacts DEF EnergyOK
<1>1. TablesOK(disk, t)
  BY <1>0 DEF DurableOK
<1>2. \A p \in Passes : RowAt(disk.hist, p, t) = disk.passes[p]
  BY <1>a, <1>1, CurrentRow DEF TablesOK
<1> HIDE DEF b, t
<1>3. NoRecordsAfter(en.rec, b)
  <2>1. \A k \in Heights : k > b => k > t
    BY <1>a
  <2> QED
    BY <1>a, <2>1 DEF NoRecordsAfter
<1>4. ASSUME NEW p \in Passes PROVE Agrees(disk.passes[p], en.rec, p, b)
  <2>1. CASE t < Genesis
    <3>1. \A k \in Heights : k <= t => k < Genesis
      BY <1>a, <2>1
    <3>2. \A k \in Heights : k <= t => disk.hist[p][k] = NoRow
      BY <1>0, <3>1 DEF DurableOK
    <3>3. RowAt(disk.hist, p, t) = NoRow
      <4>1. HistHeights(disk.hist, p, t) = {}
        BY <3>2 DEF HistHeights
      <4> QED
        BY <4>1 DEF RowAt
    <3> QED
      BY <1>2, <3>3 DEF Agrees, NoRow
  <2>2. CASE t >= Genesis
    <3>1. t \in Genesis..disk.synced
      BY <1>a, <2>2
    <3>2. Agrees(disk.passes[p], en.rec, p, t)
      BY <1>0, <1>2, <3>1 DEF EnergyOK, DurableAgrees
    <3>3. \A k \in (t + 1)..b : en.rec[p][k] = NoRecord
      <4>1. \A k \in (t + 1)..b : k \in Heights /\ k > t
        BY <1>0, <1>a
      <4> QED
        BY <1>a, <4>1 DEF NoRecordsAfter
    <3>4. /\ RecordHeights(en.rec, p, b) = RecordHeights(en.rec, p, t)
          /\ LastRecord(en.rec, p, b) = LastRecord(en.rec, p, t)
      BY <1>0, <1>a, <3>3, LastRecordFlat
    <3> QED
      BY <3>2, <3>4 DEF Agrees
  <2> QED
    BY <1>a, <2>1, <2>2
<1>5. AllAgree(conn, en.rec, b)
  BY <1>0, <1>4 DEF AllAgree
<1> QED
  BY <1>3, <1>5 DEF b

LEMMA BlockAgrees ==
    ASSUME IInv, [Next]_vars, pc' \in Written
    PROVE  NoRecordsAfter(en'.rec, loc'.blk) /\ AllAgree(conn', en'.rec, loc'.blk)
<1>0. /\ EnergyOK /\ loc \in Locals /\ en \in EnergyStores
      /\ conn \in Stores /\ loc.blk \in Heights /\ chain \in Chains
  BY DEF IInv, TypeOK, Locals
<1>a. pc \in Written => NoRecordsAfter(en.rec, loc.blk) /\ AllAgree(conn, en.rec, loc.blk)
  BY <1>0 DEF EnergyOK
\* A step of the block leaves the heights above it alone.
<1>b. ASSUME EnergyStep(en'.rec, en.rec, loc.blk), NoRecordsAfter(en.rec, loc.blk)
      PROVE  NoRecordsAfter(en'.rec, loc.blk)
  BY <1>b DEF EnergyStep, PassStep, NoRecordsAfter
<1>1. CASE UNCHANGED <<disk, conn, en, staged, pc, loc>>
  BY <1>1, <1>a
<1>2. CASE CollectBlock
  <2>1. pc = "collect" /\ conn' = conn /\ en' = en /\ loc'.blk = loc.blk
    BY <1>2, CollectTypes DEF CollectBlock, dbVars
  <2> QED
    BY <2>1, CollectAgrees
<1>3. CASE ExecuteEvent
  <2>1. pc = "exec" /\ loc'.blk = loc.blk
    BY <1>0, <1>3 DEF ExecuteEvent, Locals
  <2> QED
    BY <1>3, <1>a, <1>b, <2>1, ExecuteWrites DEF Written
<1>4. CASE RecordInvalidMints
  <2>1. pc = "exec" /\ en' = en /\ loc' = loc
    BY <1>4 DEF RecordInvalidMints
  <2> QED
    BY <1>4, <1>a, <2>1, InvalidWrites DEF Written
<1>5. CASE SettleBalances
  <2>1. pc = "settle" /\ loc' = loc
    BY <1>5 DEF SettleBalances
  <2>2. /\ EnergyStep(en'.rec, en.rec, loc.blk) /\ AllAgree(conn, en'.rec, loc.blk)
        /\ \E x \in Snapshots : conn' = upsert_active_balance_snapshot(conn, loc.blk, x)
    BY <1>5, SettleWrites
  <2>3. conn' \in Stores /\ conn'.passes = conn.passes /\ conn'.hist = conn.hist
    BY <1>0, <2>2, SnapshotWrite
  <2>4. AllAgree(conn', en'.rec, loc.blk)
    BY <2>2, <2>3 DEF AllAgree
  <2> QED
    BY <1>a, <1>b, <2>1, <2>2, <2>4 DEF Written
<1>6. CASE FinalizeEnergy
  <2>1. pc = "finalize" /\ loc' = loc /\ conn' = conn /\ en' = [en EXCEPT !.synced = loc.blk, !.pending = NoHeight]
    BY <1>6 DEF FinalizeEnergy, finalize_block_sync, dbVars
  <2>2. en'.rec = en.rec
    BY <1>0, <2>1 DEF EnergyStores
  <2> QED
    BY <1>a, <2>1, <2>2 DEF Written
<1>7. CASE PersistCommit
  <2> DEFINE x == [up |-> Prefix(chain, loc.blk), muts |-> loc.done, invalid |-> loc.bad]
  <2>1. /\ pc = "persist" /\ en' = en /\ loc' = loc
        /\ conn' = upsert_pass_block_commit(conn, loc.blk, x)
    BY <1>7 DEF PersistCommit
  <2> HIDE DEF x
  <2>2. conn'.passes = conn.passes
    BY <1>0, <2>1 DEF upsert_pass_block_commit, Stores
  <2>3. AllAgree(conn', en.rec, loc.blk)
    BY <1>a, <2>1, <2>2 DEF Written, AllAgree
  <2> QED
    BY <1>a, <2>1, <2>3 DEF Written
<1>8. CASE PublishTracker
  <2>1. pc = "publish" /\ en' = en /\ loc' = loc /\ conn' = conn
    BY <1>8 DEF PublishTracker, dbVars
  <2> QED
    BY <1>a, <2>1 DEF Written
<1>9. CASE PutSyncedHeight
  <2>1. pc = "synced" /\ en' = en /\ loc' = loc /\ conn' = update_synced_height(conn, loc.blk)
    BY <1>9 DEF PutSyncedHeight
  <2>2. conn'.passes = conn.passes
    BY <1>0, <2>1, SyncedWrite
  <2>3. AllAgree(conn', en.rec, loc.blk)
    BY <1>a, <2>1, <2>2 DEF Written, AllAgree
  <2> QED
    BY <1>a, <2>1, <2>3 DEF Written
<1>10. ~BeginBlock
  BY DEF BeginBlock, GiveUp, Written
<1> QED
  BY <1>1, <1>2, <1>3, <1>4, <1>5, <1>6, <1>7, <1>8, <1>9, <1>10, BlockSteps DEF Written, InBlock

\* From finalize_block_sync to the commit the energy store names the open block.
LEMMA FinalizedKept ==
    ASSUME IInv, [Next]_vars, pc' \in {"persist", "publish", "synced", "commit"}
    PROVE  en'.synced = loc'.blk /\ en'.pending = NoHeight
<1>0. EnergyOK /\ en \in EnergyStores
  BY DEF IInv, TypeOK
<1>1. CASE FinalizeEnergy
  <2>1. loc' = loc /\ en' = [en EXCEPT !.synced = loc.blk, !.pending = NoHeight]
    BY <1>1 DEF FinalizeEnergy, finalize_block_sync
  <2> QED
    BY <1>0, <2>1 DEF EnergyStores
<1>2. CASE ~FinalizeEnergy
  <2>1. en' = en /\ loc' = loc /\ pc \in {"persist", "publish", "synced", "commit"}
    BY <1>2, BlockSteps DEF InBlock, BeginBlock, CollectBlock, ExecuteEvent, RecordInvalidMints,
       SettleBalances, PersistCommit, PublishTracker, PutSyncedHeight, GiveUp
  <2> QED
    BY <1>0, <2>1 DEF EnergyOK
<1> QED
  BY <1>1, <1>2

LEMMA EnergyPreserved ==
    ASSUME IInv, [Next]_vars
    PROVE  EnergyOK'
<1>1. RecordsOK(en'.rec)
  BY EnergySteps DEF EnergyKept
<1> QED
  BY <1>1, AgreesPreserved, NoRecordsYet, BlockAgrees, FinalizedKept DEF EnergyOK

-----------------------------------------------------------------------------
(* The invariant *)

\* The inductive invariant holds in every state of every behaviour.
THEOREM Inductive == Spec => []IInv
<1>1. IInv /\ [Next]_vars => IInv'
  <2> SUFFICES ASSUME IInv, [Next]_vars PROVE IInv'
    OBVIOUS
  <2>1. TypeOK'
    BY TypesPreserved
  <2>2. ControlOK'
    BY <2>1, ControlPreserved
  <2>3. DurableOK(disk)'
    BY DurablePreserved
  <2>4. (pc \in InBlock => BlockOK)'
    BY BlockPreserved DEF InBlock
  <2>5. EnergyOK'
    BY EnergyPreserved
  <2> QED
    BY <2>1, <2>2, <2>3, <2>4, <2>5 DEF IInv
<1> QED
  BY InitOK, <1>1, PTL DEF Spec

(***************************************************************************)
(* Every variable keeps its type: heights stay within the bound, tables    *)
(* keep a row or none per pass, and the markers name a height or none.     *)
(***************************************************************************)
THEOREM TypeCorrect == Spec => []TypeOK
<1>1. IInv => TypeOK
  BY DEF IInv
<1> QED
  BY <1>1, Inductive, PTL

LEMMA NoDuplicates ==
    ASSUME IInv
    PROVE  OneActivePerOwner
<1> SUFFICES ASSUME NEW h \in Heights PROVE ~DuplicateOwner(h)
  BY DEF OneActivePerOwner
<1>0. /\ disk \in Stores /\ conn \in Stores /\ loc.blk \in Heights /\ OneActiveAt(disk, h)
  BY DEF IInv, TypeOK, Locals, DurableOK
<1>1. OneActiveAt(conn, h)
  <2>1. CASE pc \notin InBlock
    BY <1>0, <2>1 DEF IInv, ControlOK
  <2>2. CASE pc \in InBlock
    <3>1. /\ TablesOK(conn, loc.blk) /\ OneActiveNow(conn)
          /\ \A p \in Passes, k \in Heights : k # loc.blk => conn.hist[p][k] = disk.hist[p][k]
      BY <2>2 DEF IInv, BlockOK
    <3>2. CASE h < loc.blk
      <4>1. \A k \in Heights : k <= h => k # loc.blk
        BY <1>0, <3>2, HeightFacts DEF Heights
      <4>2. ASSUME NEW p \in Passes PROVE RowAt(conn.hist, p, h) = RowAt(disk.hist, p, h)
        <5>1. \A k \in Heights : k <= h => conn.hist[p][k] = disk.hist[p][k]
          BY <3>1, <4>1
        <5> QED
          BY <5>1, RowAtLocal
      <4> QED
        BY <1>0, <4>2 DEF OneActiveAt
    <3>3. CASE h >= loc.blk
      <4>1. \A p \in Passes : RowAt(conn.hist, p, h) = conn.passes[p]
        BY <1>0, <3>1, <3>3, CurrentRow DEF TablesOK
      <4> QED
        BY <3>1, <4>1 DEF OneActiveAt, OneActiveNow
    <3> QED
      BY <1>0, <3>2, <3>3, HeightFacts DEF Heights
  <2> QED
    BY <2>1, <2>2
<1> QED
  BY <1>1 DEF OneActiveAt, DuplicateOwner, ActiveAt, OwnerAt

(***************************************************************************)
(* No owner ever holds two active passes, at any height of the history and *)
(* in the middle of a block as well.                                       *)
(***************************************************************************)
THEOREM OneActive == Spec => []OneActivePerOwner
<1>1. IInv => OneActivePerOwner
  BY NoDuplicates
<1> QED
  BY <1>1, Inductive, PTL

LEMMA ChecksHold ==
    ASSUME NEW db \in Stores, DurableOK(db)
    PROVE  NoDataAfter(db, Tip(db)) /\ SnapshotConsistent(db, Tip(db), Genesis)
<1> DEFINE t == Tip(db)
           S == SnapshotHeights(db)
<1>1. /\ NoDataAfter(db, t) /\ t \in Heights
      /\ \A k \in Heights : db.settled[k] # NoSnapshot <=> k \in Genesis..t
  BY TipFacts DEF DurableOK, SettledUpTo
<1>a. t \in Nat /\ Genesis \in Nat /\ MaxHeight \in Nat /\ Heights = 0..MaxHeight
  BY <1>1, HeightFacts
<1> HIDE DEF t
<1>2. S \subseteq Heights /\ \A k \in Heights : k \in S <=> k \in Genesis..t
  BY <1>1 DEF SnapshotHeights
<1> HIDE DEF S
<1>3. CASE t < Genesis
  <2>1. S = {}
    BY <1>a, <1>2, <1>3
  <2> QED
    BY <1>1, <1>3, <2>1 DEF SnapshotConsistent, S, t
<1>4. CASE t >= Genesis
  <2>1. t \in S
    BY <1>1, <1>a, <1>2, <1>4
  <2>2. Max(S) \in S /\ \A k \in S : k <= Max(S)
    BY <1>2, <2>1, GreatestHeight
  <2>3. Max(S) = t
    <3>1. Max(S) \in Heights /\ Max(S) \in Genesis..t /\ t <= Max(S)
      BY <1>2, <2>1, <2>2
    <3> HIDE DEF Max
    <3> QED
      BY <1>a, <3>1
  <2>4. ~(t < Genesis)
    BY <1>a, <1>4
  <2> QED
    BY <1>1, <2>1, <2>3, <2>4 DEF SnapshotConsistent, S, t
<1> QED
  BY <1>a, <1>3, <1>4

(***************************************************************************)
(* The consistency checks that send the operator back to genesis never     *)
(* fail, whatever crash, failed block or interrupted recovery came before. *)
(***************************************************************************)
THEOREM ChecksNeverFail == Spec => []StoreChecksNeverFail
<1>1. IInv => StoreChecksNeverFail
  <2> SUFFICES ASSUME IInv PROVE StoreChecksNeverFail
    OBVIOUS
  <2>0. disk \in Stores /\ DurableOK(disk)
    BY DEF IInv, TypeOK
  <2>1. pc = "check" => conn = disk /\ loc.cur = Tip(disk)
    BY DEF IInv, ControlOK, InBlock
  <2>2. pc = "clear" => conn = disk /\ conn.pending = Tip(disk)
    <3>1. pc = "clear" => conn = disk /\ disk.pending # NoHeight
      BY DEF IInv, ControlOK, InBlock
    <3>2. disk.pending # NoHeight => disk.pending = disk.synced /\ disk.synced >= Floor
      BY <2>0 DEF DurableOK
    <3> QED
      BY <2>0, <3>1, <3>2, TipFacts
  <2> QED
    BY <2>0, <2>1, <2>2, ChecksHold DEF StoreChecksNeverFail, StoreChecks
<1> QED
  BY <1>1, Inductive, PTL

(***************************************************************************)
(* The recovery marker and the synced height move together: a recovery     *)
(* that was interrupted resumes at the height it rolled back to.           *)
(***************************************************************************)
THEOREM PendingIsSynced == Spec => []PendingMatchesSynced
<1>1. IInv => PendingMatchesSynced
  BY DEF IInv, DurableOK, PendingMatchesSynced
<1> QED
  BY <1>1, Inductive, PTL

(***************************************************************************)
(* Whenever an event is executed every active, dormant or consumed pass    *)
(* has the energy record its state asks for: consume_pass never panics.    *)
(***************************************************************************)
THEOREM EnergyAgrees == Spec => []EnergyAgreesWithPasses
<1>1. IInv => EnergyAgreesWithPasses
  <2> SUFFICES ASSUME IInv, pc = "exec", NEW p \in Passes,
                      conn.passes[p].state \in {"active", "dormant", "consumed"}
               PROVE  /\ RecordHeights(en.rec, p, loc.blk) # {}
                      /\ LastRecord(en.rec, p, loc.blk).state = conn.passes[p].state
                      /\ conn.passes[p].state = "active" =>
                            LastRecord(en.rec, p, loc.blk).owner = conn.passes[p].owner
                      /\ conn.passes[p].state = "consumed" => LastRecord(en.rec, p, loc.blk).energy = 0
    BY DEF EnergyAgreesWithPasses
  <2>1. Agrees(conn.passes[p], en.rec, p, loc.blk)
    BY DEF IInv, EnergyOK, Written, AllAgree
  <2> QED
    BY <2>1 DEF Agrees
<1> QED
  BY <1>1, Inductive, PTL

(***************************************************************************)
(* The energy store is never behind the pass store when the two are        *)
(* compared, the error that no retry repairs.                              *)
(***************************************************************************)
THEOREM EnergyKeepsUp == Spec => []EnergyNeverBehind
<1>1. IInv => EnergyNeverBehind
  <2> SUFFICES ASSUME IInv, conn.synced >= Floor
               PROVE  /\ pc = "check" => ~EnergyBehind(en, loc.cur)
                      /\ pc = "resume_energy" => ~EnergyBehind(en, conn.pending)
    BY DEF EnergyNeverBehind
  <2>0. disk \in Stores /\ DurableOK(disk) /\ en \in EnergyStores /\ EnergyOK
    BY DEF IInv, TypeOK
  <2>1. pc = "check" => conn = disk /\ loc.cur = Tip(disk)
    BY DEF IInv, ControlOK, InBlock
  <2>2. pc = "resume_energy" => conn = disk /\ disk.pending = disk.synced
    BY <2>0 DEF IInv, ControlOK, InBlock, DurableOK
  <2>3. disk.synced >= Floor => Tip(disk) = disk.synced
    BY <2>0, TipFacts
  <2>4. ASSUME disk.synced >= Floor PROVE ~EnergyBehind(en, disk.synced)
    <3>1. en.synced # NoHeight => en.synced >= disk.synced /\ en.synced \in Nat
      BY <2>0, <2>4, HeightFacts DEF EnergyOK, EnergyStores
    <3>2. disk.synced \in Nat
      BY <2>0, TipFacts, HeightFacts
    <3> QED
      BY <3>1, <3>2 DEF EnergyBehind
  <2> QED
    BY <2>1, <2>2, <2>3, <2>4
<1> QED
  BY <1>1, Inductive, PTL

\* A rollback ends at or below the synced height.
LEMMA RollbackLowers ==
    ASSUME IInv, pc = "rollback", disk' = rollback_to_block_height(disk, loc.target)
    PROVE  disk'.synced <= disk.synced /\ disk.synced \in Nat /\ disk'.synced \in Nat
<1>0. /\ disk \in Stores /\ loc \in Locals /\ ControlOK /\ loc.target \in Heights
      /\ DurableOK(disk) /\ disk.synced \in Nat /\ disk.synced \in Heights
  BY HeightFacts, TipFacts DEF IInv, TypeOK, Locals
<1>1. RowsAreTheHistory(disk) /\ MintsAreOnce(disk)
  BY <1>0 DEF DurableOK, TablesOK
<1>2. disk'.synced = loc.target
  BY <1>0, <1>1, RollbackFields DEF RolledBack
<1>3. loc.target \in Floor..Tip(disk) /\ Tip(disk) >= Genesis
  BY <1>0 DEF ControlOK
<1>4. Tip(disk) = disk.synced
  <2>1. Genesis \in Genesis..Tip(disk)
    BY <1>0, <1>3, TipFacts, HeightFacts
  <2> QED
    BY <1>0, <2>1, CommittedHeights
<1> QED
  BY <1>0, <1>2, <1>3, <1>4, HeightFacts

\* A step that commits a block revives no pass.
RevivesNone == disk'.synced > disk.synced => NeverRevived(disk, disk')

(***************************************************************************)
(* From one durable state to the next a committed block only moves passes  *)
(* forward in their lives: none disappears, none becomes active again, and *)
(* a burned one stays burned.  Only a rollback undoes it.                  *)
(***************************************************************************)
THEOREM LifeMovesForward == Spec => [][RevivesNone]_vars
<1>1. IInv /\ [Next]_vars => [RevivesNone]_vars
  <2> SUFFICES ASSUME IInv, [Next]_vars, disk'.synced > disk.synced PROVE NeverRevived(disk, disk')
    BY DEF RevivesNone
  <2>0. /\ disk \in Stores /\ loc \in Locals /\ chain \in Chains /\ ControlOK /\ loc.target \in Heights
        /\ loc.snap \in Seq(Blocks) /\ DurableOK(disk) /\ disk.synced \in Nat /\ disk.synced \in Heights
    BY HeightFacts, TipFacts DEF IInv, TypeOK, Locals
  <2>1. CASE pc = "commit" /\ disk' = conn /\ en' = en
    BY <2>1 DEF IInv, InBlock, BlockOK
  <2>2. ~(disk'.synced = disk.synced)
    BY <2>0
  <2>3. CASE pc = "clear" /\ disk' = clear_recovery_pending(disk)
    BY <2>0, <2>2, <2>3, MarkerWrite
  <2>4. CASE pc = "rollback" /\ disk' = rollback_to_block_height(disk, loc.target)
    BY <2>4, RollbackLowers
  <2>5. CASE pc = "anchor" /\ Len(loc.snap) = loc.cur /\ disk' = upsert_snapshot_anchor(disk, loc.snap)
    <3>1. Len(loc.snap) = disk.synced
      BY <2>0, <2>5 DEF ControlOK
    <3>2. upsert_snapshot_anchor(disk, loc.snap).synced = Len(loc.snap)
      BY <2>0, <3>1, AnchorWrite
    <3> QED
      BY <2>2, <2>5, <3>1, <3>2
  <2>6. ASSUME NEW h \in MissingAnchors, h <= Len(chain),
               disk' = upsert_snapshot_history_entry(disk, h, Prefix(chain, h))
        PROVE  FALSE
    <3> DEFINE x == Prefix(chain, h)
    <3>1. h \in Heights /\ h \in Nat
      BY <2>0, <2>6, HeightFacts DEF MissingAnchors, Locals
    <3>2. x \in Seq(Blocks)
      BY <2>0, <2>6, <3>1, PrefixFacts
    <3> HIDE DEF x
    <3>3. disk'.synced = disk.synced
      BY <2>0, <2>6, <3>1, <3>2, AnchorsWrite DEF x
    <3> QED
      BY <2>2, <3>3
  <2> QED
    BY <2>1, <2>2, <2>3, <2>4, <2>5, <2>6, DiskSteps DEF DiskStep
<1> QED
  BY <1>1, Inductive, PTL DEF Spec

-----------------------------------------------------------------------------
(* The transfer tracker *)

\* Where the store says a pass is.
Where(row) == [sat |-> row.sat, owner |-> row.owner]

\* The tracker's entry t against the row of the pass: nothing is tracked for a pass
\* that was never validly minted, and every live pass is followed, unless the process
\* may have crashed: a restart does not reload the tracker.
Tracks(row, t) ==
    /\ row.state \in {"none", "invalid"} => t = NotTracked
    /\ "crash" \notin FaultKinds /\ Live(row) => t = Where(row)

\* Where a pass is after an event of the block.
After(e) == IF e.op = "mint" THEN [sat |-> 0, owner |-> e.owner]
            ELSE IF e.to = Nobody THEN NotTracked ELSE [sat |-> e.sat, owner |-> e.to]

NoItem(items, p) == \A k \in DOMAIN items : items[k].pass # p

LastItem(items, p, k) ==
    /\ k \in DOMAIN items /\ items[k].pass = p
    /\ \A j \in DOMAIN items : items[j].pass = p => j <= k

OnlyItem(items, p, k) == \A j \in DOMAIN items : items[j].pass = p => j = k

\* The block cannot be executed: it mints p although p is known by then.
Doomed(items, p, row) ==
    \E k \in DOMAIN items :
        /\ items[k].op = "mint" /\ items[k].pass = p
        /\ row # NoRow \/ \E j \in DOMAIN items : j < k /\ items[j].pass = p

\* The staged entry s is where the items still to be executed leave p.
Follows(items, p, row, s) ==
    /\ \A k \in DOMAIN items : LastItem(items, p, k) => s = After(items[k]) /\ row.state # "invalid"
    /\ NoItem(items, p) => Tracks(row, s)

KeepsInvalid(old, row) == old.state = "invalid" => row = old

TracksAll(db, map) == \A p \in Passes : Tracks(db.passes[p], map[p])

BlockTracks(db, old, map) ==
    \A p \in Passes : Tracks(db.passes[p], map[p]) /\ KeepsInvalid(old.passes[p], db.passes[p])

\* While events are executed; a block that is not doomed leaves invalid passes alone.
ExecTracks(items, db, old, map) ==
    \A p \in Passes :
        \/ Doomed(items, p, db.passes[p])
        \/ Follows(items, p, db.passes[p], map[p]) /\ KeepsInvalid(old.passes[p], db.passes[p])

\* Which map agrees with which store at each step of the loop.
TrackInv ==
    /\ pc = "exec" => ExecTracks(loc.todo, conn, disk, staged)
    /\ pc \in {"settle", "finalize", "persist", "publish"} => BlockTracks(conn, disk, staged)
    /\ pc \in {"synced", "commit"} => BlockTracks(conn, disk, tracker)
    /\ pc \notin {"synced", "commit"} /\ disk.pending = NoHeight => TracksAll(disk, tracker)
    /\ pc = "clear" => TracksAll(disk, tracker)

\* What the walk knows of one pass: its entry is the seed, or where the last item left it.
WalkPass(items, p, at, seed) ==
    /\ NoItem(items, p) => at = seed
    /\ \A k \in DOMAIN items : LastItem(items, p, k) =>
          IF items[k].op = "move" THEN at = After(items[k])
          ELSE OnlyItem(items, p, k) => at = seed
    /\ seed = NotTracked => NoItem(items, p)

LEMMA AppendItems ==
    ASSUME NEW items \in Seq(ProcessEvents), NEW e \in ProcessEvents
    PROVE  /\ Len(items) \in Nat /\ DOMAIN items = 1..Len(items)
           /\ DOMAIN Append(items, e) = 1..(Len(items) + 1)
           /\ \A k \in 1..Len(items) : Append(items, e)[k] = items[k]
           /\ Append(items, e)[Len(items) + 1] = e
OBVIOUS

LEMMA WalkOther ==
    ASSUME NEW items \in Seq(ProcessEvents), NEW e \in ProcessEvents, NEW p, NEW at, NEW seed,
           e.pass # p, WalkPass(items, p, at, seed)
    PROVE  WalkPass(Append(items, e), p, at, seed)
<1> DEFINE more == Append(items, e)
           n == Len(items)
<1>1. /\ n \in Nat /\ DOMAIN items = 1..n /\ DOMAIN more = 1..(n + 1)
      /\ (\A k \in 1..n : more[k] = items[k]) /\ more[n + 1] = e
  BY AppendItems
<1> HIDE DEF more, n
<1>2. NoItem(more, p) <=> NoItem(items, p)
  BY <1>1 DEF NoItem
<1>3. \A k \in DOMAIN more : LastItem(more, p, k) =>
         /\ k \in DOMAIN items /\ LastItem(items, p, k) /\ more[k] = items[k]
         /\ OnlyItem(more, p, k) => OnlyItem(items, p, k)
  BY <1>1 DEF LastItem, OnlyItem
<1>4. WalkPass(more, p, at, seed)
  BY <1>2, <1>3 DEF WalkPass
<1> QED
  BY <1>4 DEF more

LEMMA WalkMint ==
    ASSUME NEW items \in Seq(ProcessEvents), NEW e \in ProcessEvents, NEW p, NEW at, NEW seed,
           e.pass = p, e.op = "mint", seed # NotTracked, WalkPass(items, p, at, seed)
    PROVE  WalkPass(Append(items, e), p, at, seed)
<1> DEFINE more == Append(items, e)
           n == Len(items)
<1>1. /\ n \in Nat /\ DOMAIN items = 1..n /\ DOMAIN more = 1..(n + 1)
      /\ (\A k \in 1..n : more[k] = items[k]) /\ more[n + 1] = e
  BY AppendItems
<1> HIDE DEF more, n
<1>2. ~NoItem(more, p)
  BY <1>1 DEF NoItem
<1>3. \A k \in DOMAIN more : LastItem(more, p, k) =>
         k = n + 1 /\ more[k].op = "mint" /\ (OnlyItem(more, p, k) => NoItem(items, p))
  BY <1>1 DEF LastItem, OnlyItem, NoItem
<1>4. WalkPass(more, p, at, seed)
  BY <1>2, <1>3 DEF WalkPass
<1> QED
  BY <1>4 DEF more

LEMMA WalkMove ==
    ASSUME NEW items \in Seq(ProcessEvents), NEW e \in ProcessEvents, NEW p, NEW at, NEW seed,
           e.pass = p, e.op = "move", at # NotTracked, WalkPass(items, p, at, seed)
    PROVE  WalkPass(Append(items, e), p, After(e), seed)
<1> DEFINE more == Append(items, e)
           n == Len(items)
<1>1. /\ n \in Nat /\ DOMAIN items = 1..n /\ DOMAIN more = 1..(n + 1)
      /\ (\A k \in 1..n : more[k] = items[k]) /\ more[n + 1] = e
  BY AppendItems
<1> HIDE DEF more, n
<1>2. ~NoItem(more, p)
  BY <1>1 DEF NoItem
<1>3. \A k \in DOMAIN more : LastItem(more, p, k) => more[k] = e
  BY <1>1 DEF LastItem
<1>4. seed # NotTracked
  BY DEF WalkPass
<1>5. WalkPass(more, p, After(e), seed)
  BY <1>2, <1>3, <1>4 DEF WalkPass
<1> QED
  BY <1>5 DEF more

\* The seed of a pass is its mint in the block, or what the tracker holds.
LEMMA SeededCases ==
    ASSUME NEW h, NEW p \in Passes
    PROVE  \/ /\ \A j \in DOMAIN Events(h) : ~(Events(h)[j].op = "mint" /\ Events(h)[j].pass = p)
              /\ Seeded(h)[p] = tracker[p]
           \/ \E j \in DOMAIN Events(h) :
                 /\ Events(h)[j].op = "mint" /\ Events(h)[j].pass = p
                 /\ Seeded(h)[p] = [sat |-> 0, owner |-> Events(h)[j].owner]
<1> DEFINE M(j) == Events(h)[j].op = "mint" /\ Events(h)[j].pass = p
           I == CHOOSE j \in DOMAIN Events(h) : M(j)
<1>1. CASE \E j \in DOMAIN Events(h) : M(j)
  <2>1. I \in DOMAIN Events(h) /\ M(I)
    BY <1>1
  <2>2. Seeded(h)[p] = [sat |-> 0, owner |-> Events(h)[I].owner]
    BY <1>1 DEF Seeded
  <2> HIDE DEF I
  <2> QED
    BY <2>1, <2>2
<1>2. CASE ~\E j \in DOMAIN Events(h) : M(j)
  BY <1>2 DEF Seeded
<1> QED
  BY <1>1, <1>2

LEMMA SeededMint ==
    ASSUME NEW h, NEW p \in Passes, NEW j \in DOMAIN Events(h),
           Events(h)[j].op = "mint", Events(h)[j].pass = p
    PROVE  Seeded(h)[p] # NotTracked
<1>1. PICK i \in DOMAIN Events(h) : Seeded(h)[p] = [sat |-> 0, owner |-> Events(h)[i].owner]
  BY SeededCases
<1>2. Seeded(h)[p].sat = 0 /\ NotTracked.sat = -1
  BY <1>1 DEF NotTracked, NoHeight
<1> QED
  BY <1>2

WalkMints(items, h, i) ==
    \A j \in 1..i : Events(h)[j].op = "mint" => \E k \in DOMAIN items : items[k] = Events(h)[j]

WalkFacts(b, h, i) ==
    /\ WalkMints(b.items, h, i)
    /\ \A p \in Passes : WalkPass(b.items, p, b.map[p], Seeded(h)[p])

LEMMA WalkMintsStep ==
    ASSUME NEW items \in Seq(ProcessEvents), NEW e \in ProcessEvents, NEW h, NEW i \in Nat, i >= 1,
           WalkMints(items, h, i - 1), Events(h)[i].op = "mint" => e = Events(h)[i]
    PROVE  WalkMints(Append(items, e), h, i)
<1> DEFINE more == Append(items, e)
           n == Len(items)
<1>1. /\ n \in Nat /\ DOMAIN items = 1..n /\ DOMAIN more = 1..(n + 1)
      /\ (\A k \in 1..n : more[k] = items[k]) /\ more[n + 1] = e
  BY AppendItems
<1> HIDE DEF more, n
<1>2. ASSUME NEW j \in 1..i, Events(h)[j].op = "mint"
      PROVE  \E k \in DOMAIN more : more[k] = Events(h)[j]
  <2>1. CASE j = i
    BY <1>1, <1>2, <2>1
  <2>2. CASE j # i
    <3>1. j \in 1..(i - 1)
      BY <2>2
    <3>2. PICK k \in DOMAIN items : items[k] = Events(h)[j]
      BY <1>2, <3>1 DEF WalkMints
    <3> QED
      BY <1>1, <3>2
  <2> QED
    BY <2>1, <2>2
<1> QED
  BY <1>2 DEF WalkMints, more

LEMMA WalkStepFacts ==
    ASSUME chain \in Chains, NEW h \in 1..Len(chain), NEW i \in 1..Len(Events(h)), NEW b \in Walks,
           WalkFacts(b, h, i - 1)
    PROVE  WalkFacts(WalkStep(b, h, i), h, i)
<1> DEFINE e   == Events(h)[i]
           sat == b.map[e.pass].sat
           c   == ChainSat(e.pass, h, i)
           new == WalkStep(b, h, i)
<1>0. b.map \in TrackMaps /\ b.items \in Seq(ProcessEvents) /\ i \in Nat /\ i >= 1
  BY EventFacts DEF Walks
<1>1. e \in AllEvents /\ i \in DOMAIN Events(h)
  BY EventFacts
<1>2. c \in Nat
  BY ChainFacts, ChainSatNat
<1>3. /\ WalkMints(b.items, h, i - 1)
      /\ \A p \in Passes : WalkPass(b.items, p, b.map[p], Seeded(h)[p])
  BY DEF WalkFacts
<1>4. CASE e.op = "mint"
  <2>1. new.map = b.map /\ new.items = Append(b.items, e)
    BY <1>4 DEF WalkStep
  <2>2. e \in ProcessEvents /\ e.pass \in Passes
    BY <1>1, <1>4, EventKinds DEF ProcessEvents
  <2>3. Seeded(h)[e.pass] # NotTracked
    BY <1>1, <1>4, <2>2, SeededMint
  <2> HIDE DEF new
  <2>4. WalkMints(new.items, h, i)
    BY <1>0, <1>3, <2>1, <2>2, WalkMintsStep
  <2> HIDE DEF e
  <2>5. ASSUME NEW p \in Passes PROVE WalkPass(new.items, p, new.map[p], Seeded(h)[p])
    <3>1. CASE e.pass = p
      BY <1>0, <1>3, <1>4, <2>1, <2>2, <2>3, <3>1, WalkMint
    <3>2. CASE e.pass # p
      BY <1>0, <1>3, <2>1, <2>2, <3>2, WalkOther
    <3> QED
      BY <3>1, <3>2
  <2> QED
    BY <2>4, <2>5 DEF WalkFacts, new
<1>5. CASE new = b /\ e.op # "mint"
  <2>1. WalkMints(b.items, h, i)
    <3>1. \A j \in 1..i : j = i \/ j \in 1..(i - 1)
      BY <1>0
    <3> QED
      BY <1>3, <1>5, <3>1 DEF WalkMints
  <2> QED
    BY <1>3, <1>5, <2>1 DEF WalkFacts
<1>6. CASE e.op = "invalid"
  BY <1>5, <1>6 DEF WalkStep
<1>7. CASE e.op = "move" /\ sat # c
  BY <1>5, <1>7 DEF WalkStep
<1>8. CASE e.op = "move" /\ sat = c
  <2> DEFINE item == [op |-> "move", pass |-> e.pass, to |-> e.to, sat |-> sat + 1]
             cell == IF e.to = Nobody THEN NotTracked ELSE [sat |-> sat + 1, owner |-> e.to]
  <2>1. new.map = [b.map EXCEPT ![e.pass] = cell] /\ new.items = Append(b.items, item)
    BY <1>8 DEF WalkStep
  <2>2. e.pass \in Passes /\ e.to \in Owners \cup {Nobody} /\ sat + 1 \in Nat /\ sat \in Nat
    BY <1>1, <1>2, <1>8, EventKinds
  <2>3. item \in ProcessEvents /\ item.op = "move" /\ item.pass = e.pass
    <3> HIDE DEF e, sat
    <3> QED
      BY <2>2 DEF ProcessEvents
  <2>4. After(item) = cell
    BY DEF After
  <2>5. b.map[e.pass] # NotTracked
    BY <2>2 DEF NotTracked, NoHeight
  <2>6. e.op # "mint"
    BY <1>8
  <2> HIDE DEF new, item, cell
  <2>7. WalkMints(new.items, h, i)
    BY <1>0, <1>3, <2>1, <2>3, <2>6, WalkMintsStep
  <2> HIDE DEF e
  <2>8. ASSUME NEW p \in Passes PROVE WalkPass(new.items, p, new.map[p], Seeded(h)[p])
    <3>0. WalkPass(b.items, p, b.map[p], Seeded(h)[p])
      BY <1>3
    <3>1. CASE e.pass = p
      <4>1. new.map[p] = After(item)
        BY <1>0, <2>1, <2>2, <2>4, <3>1 DEF TrackMaps
      <4>2. item.pass = p /\ b.map[p] # NotTracked
        BY <2>3, <2>5, <3>1
      <4>3. WalkPass(Append(b.items, item), p, After(item), Seeded(h)[p])
        BY <1>0, <2>3, <3>0, <4>2, WalkMove
      <4> QED
        BY <2>1, <4>1, <4>3
    <3>2. CASE e.pass # p
      <4>1. new.map[p] = b.map[p]
        BY <1>0, <2>1, <2>2, <3>2 DEF TrackMaps
      <4> QED
        BY <1>0, <2>1, <2>3, <3>0, <3>2, <4>1, WalkOther
    <3> QED
      BY <3>1, <3>2
  <2> QED
    BY <2>7, <2>8 DEF WalkFacts, new
<1> QED
  BY <1>1, <1>4, <1>6, <1>7, <1>8, EventKinds

LEMMA WalkHolds ==
    ASSUME chain \in Chains, tracker \in TrackMaps, NEW h \in 1..Len(chain)
    PROVE  Walk(h) \in Walks /\ WalkFacts(Walk(h), h, Len(Events(h)))
<1> DEFINE n == Len(Events(h))
           w == CHOOSE v : WalkFrom(v, h, n)
           Good(i) == w[i] \in Walks /\ WalkFacts(w[i], h, i)
           T == {i \in 0..n : ~Good(i)}
<1>0. n \in Nat
  BY EventFacts
<1>1. Walk(h) = w[n]
  BY DEF Walk, WalkFrom
<1>2. WalkFrom(w, h, n)
  BY <1>0, WalkExists
<1> HIDE DEF w
<1>3. /\ w[0] = [map |-> Seeded(h), items |-> <<>>]
      /\ \A i \in 1..n : w[i] = WalkStep(w[i - 1], h, i)
  BY <1>0, <1>2 DEF WalkFrom
<1>4. Good(0)
  <2>1. Seeded(h) \in TrackMaps
    BY SeededType
  <2>2. w[0] \in Walks
    BY <1>3, <2>1 DEF Walks
  <2>3. w[0].items = <<>> /\ w[0].map = Seeded(h)
    BY <1>3
  <2>4. \A p \in Passes : WalkPass(<<>>, p, Seeded(h)[p], Seeded(h)[p])
    BY DEF WalkPass, NoItem, LastItem
  <2> QED
    BY <2>2, <2>3, <2>4 DEF WalkFacts, WalkMints
<1>5. ASSUME NEW m \in 1..n, Good(m - 1) PROVE Good(m)
  <2>1. w[m] = WalkStep(w[m - 1], h, m)
    BY <1>3
  <2> QED
    BY <1>5, <2>1, WalkStepType, WalkStepFacts
<1>6. T = {}
  <2> SUFFICES ASSUME T # {} PROVE FALSE
    OBVIOUS
  <2>0. T \subseteq Nat
    BY <1>0
  <2>1. PICK m \in T : \A k \in T : m <= k
    BY <2>0, LeastElement
  <2>2. m \in 0..n /\ ~Good(m)
    BY <2>1
  <2> HIDE DEF Good
  <2>3. m \in 1..n /\ m - 1 \in 0..n /\ ~(m <= m - 1)
    <3>1. m # 0
      BY <1>4, <2>2
    <3> QED
      BY <1>0, <2>2, <3>1
  <2>4. m - 1 \notin T
    <3> HIDE DEF T
    <3> QED
      BY <2>1, <2>3
  <2>5. Good(m - 1)
    BY <2>3, <2>4
  <2> QED
    BY <1>5, <2>2, <2>3, <2>5
<1> QED
  BY <1>0, <1>1, <1>6

\* Before the first event the staged map is where the items of the block lead.
LEMMA CollectFollows ==
    ASSUME chain \in Chains, NEW h \in 1..Len(chain), NEW b \in Walks, WalkFacts(b, h, Len(Events(h))),
           NEW p \in Passes, NEW row, Tracks(row, tracker[p])
    PROVE  Doomed(b.items, p, row) \/ Follows(b.items, p, row, b.map[p])
<1> DEFINE items == b.items
           seed  == Seeded(h)[p]
           M(j)  == Events(h)[j].op = "mint" /\ Events(h)[j].pass = p
<1>0. /\ DOMAIN Events(h) = 1..Len(Events(h)) /\ items \in Seq(ProcessEvents)
      /\ \A k \in DOMAIN items : k \in Nat /\ items[k] \in ProcessEvents
  BY EventFacts DEF Walks
<1>1. WalkPass(items, p, b.map[p], seed) /\ WalkMints(items, h, Len(Events(h)))
  BY DEF WalkFacts
<1>2. NoRow.state = "none"
  BY DEF NoRow
<1> SUFFICES ASSUME ~Doomed(items, p, row) PROVE Follows(items, p, row, b.map[p])
  OBVIOUS
<1>3. \A j \in DOMAIN Events(h) : M(j) => \E k \in DOMAIN items : items[k] = Events(h)[j]
  BY <1>0, <1>1 DEF WalkMints
<1>s. \/ (\A j \in DOMAIN Events(h) : ~M(j)) /\ seed = tracker[p]
      \/ \E j \in DOMAIN Events(h) : M(j) /\ seed = [sat |-> 0, owner |-> Events(h)[j].owner]
  BY SeededCases
<1> HIDE DEF items, seed
<1>4. CASE \A j \in DOMAIN Events(h) : ~M(j)
  <2>1. seed = tracker[p]
    BY <1>4, <1>s
  <2>2. NoItem(items, p) => Tracks(row, b.map[p])
    BY <1>1, <2>1 DEF WalkPass
  <2>3. ASSUME NEW k \in DOMAIN items, LastItem(items, p, k)
        PROVE  b.map[p] = After(items[k]) /\ row.state # "invalid"
    <3>1. ~NoItem(items, p)
      BY <2>3 DEF NoItem, LastItem
    <3>2. row.state # "invalid"
      BY <1>1, <2>1, <3>1 DEF WalkPass, Tracks
    <3>3. items[k].op = "move" \/ items[k].op = "mint"
      BY <1>0 DEF ProcessEvents, MintEvents
    <3>4. CASE items[k].op = "move"
      BY <1>1, <2>3, <3>2, <3>4 DEF WalkPass
    <3>5. CASE items[k].op = "mint"
      <4>1. row = NoRow /\ \A j \in DOMAIN items : j < k => items[j].pass # p
        BY <2>3, <3>5 DEF Doomed, LastItem
      <4>2. seed = NotTracked
        BY <1>2, <2>1, <4>1 DEF Tracks
      <4> QED
        BY <1>1, <3>1, <4>2 DEF WalkPass
    <3> QED
      BY <3>3, <3>4, <3>5
  <2> QED
    BY <2>2, <2>3 DEF Follows
<1>5. CASE \E j \in DOMAIN Events(h) : M(j)
  <2>1. PICK j \in DOMAIN Events(h) : M(j) /\ seed = [sat |-> 0, owner |-> Events(h)[j].owner]
    BY <1>5, <1>s
  <2>2. PICK m \in DOMAIN items : items[m] = Events(h)[j]
    BY <1>3, <2>1
  <2>3. items[m].op = "mint" /\ items[m].pass = p
    BY <2>1, <2>2
  <2>4. row = NoRow /\ \A k \in DOMAIN items : k < m => items[k].pass # p
    BY <2>3 DEF Doomed
  <2>5. ASSUME NEW k \in DOMAIN items, LastItem(items, p, k)
        PROVE  b.map[p] = After(items[k])
    <3>0. m <= k /\ m \in Nat /\ k \in Nat
      BY <1>0, <2>3, <2>5 DEF LastItem
    <3>1. items[k].op = "move" \/ items[k].op = "mint"
      BY <1>0 DEF ProcessEvents, MintEvents
    <3>2. CASE items[k].op = "move"
      BY <1>1, <2>5, <3>2 DEF WalkPass
    <3>3. CASE items[k].op = "mint"
      <4>1. ~(m < k)
        BY <2>3, <2>5, <3>3 DEF Doomed, LastItem
      <4>2. m = k
        BY <3>0, <4>1
      <4>3. OnlyItem(items, p, k)
        BY <1>0, <2>4, <2>5, <4>2 DEF OnlyItem, LastItem
      <4>4. b.map[p] = seed
        BY <1>1, <2>5, <3>3, <4>3 DEF WalkPass
      <4> QED
        BY <2>1, <2>2, <3>3, <4>2, <4>4 DEF After
    <3> QED
      BY <3>1, <3>2, <3>3
  <2>6. ~NoItem(items, p)
    BY <2>3 DEF NoItem
  <2> QED
    BY <1>2, <2>4, <2>5, <2>6 DEF Follows
<1> QED
  BY <1>4, <1>5

\* What an event does to the row of a pass, as far as the tracker can tell.
ItemEffect(e, p, row, new) ==
    IF e.pass = p
    THEN /\ e.op = "mint" => row = NoRow
         /\ new # NoRow /\ new.state # "none"
         /\ new.state = "invalid" => row.state = "invalid"
         /\ Live(new) => Where(new) = After(e)
    ELSE /\ row # NoRow => new # NoRow
         /\ new.state = "none" => row.state = "none"
         /\ new.state = "invalid" => row.state = "invalid"
         /\ row.state = "invalid" => new = row
         /\ Live(new) => Live(row) /\ Where(new) = Where(row)

LEMMA SameRowEffect ==
    ASSUME NEW e, NEW p, NEW row, e.pass # p
    PROVE  ItemEffect(e, p, row, row)
BY DEF ItemEffect

\* A live pass that is put to another state keeps its place.
LEMMA StateEffect ==
    ASSUME NEW e, NEW p, NEW row \in Rows, NEW st \in {"dormant", "consumed"}, Live(row), e.pass # p
    PROVE  ItemEffect(e, p, row, SetState(row, st))
<1>1. /\ SetState(row, st) \in Rows /\ SetState(row, st).state = st
      /\ SetState(row, st).owner = row.owner /\ SetState(row, st).sat = row.sat
  BY SetStateRow DEF States
<1>2. SetState(row, st) # NoRow
  BY <1>1, NoRowIsNotARow
<1> HIDE DEF SetState
<1> QED
  BY <1>1, <1>2 DEF ItemEffect, Live, Where

LEMMA MintItem ==
    ASSUME NEW db, NEW rec, NEW bal, NEW b \in Heights, TablesOK(db, b), NEW e \in MintEvents,
           db.passes[e.pass] = NoRow, NEW p \in Passes
    PROVE  ItemEffect(e, p, db.passes[p], on_mint_pass(db, rec, bal, e, b).db.passes[p])
<1> DEFINE D   == LastActive(db, e.owner)
           C   == Consumed(db, rec, bal, e, b)
           new == on_mint_pass(db, rec, bal, e, b).db
<1>0. MintEffect(new, db, C, e, b)
  BY MintRows
<1> SUFFICES ItemEffect(e, p, db.passes[p], new.passes[p])
  OBVIOUS
<1> HIDE DEF C, new
<1>1. /\ D \subseteq Passes /\ C \subseteq Passes /\ e.pass \notin D /\ e.pass \notin C
      /\ \A q \in C : q \in D \/ db.passes[q].state = "dormant"
      /\ new.passes[e.pass] = ActiveRow(e.owner, b)
      /\ \A q \in C : new.passes[q] = SetState(db.passes[q], "consumed")
      /\ \A q \in D \ C : new.passes[q] = SetState(db.passes[q], "dormant")
      /\ \A q \in Passes \ (C \cup D \cup {e.pass}) : new.passes[q] = db.passes[q]
  BY <1>0 DEF MintEffect
<1>2. \A q \in D : db.passes[q].state = "active"
  BY DEF LastActive
<1> HIDE DEF D
<1>3. db \in Stores /\ e.op = "mint"
  BY DEF TablesOK, MintEvents
<1>4. CASE p = e.pass
  <2>1. /\ ActiveRow(e.owner, b) # NoRow /\ ActiveRow(e.owner, b).state = "active"
        /\ Where(ActiveRow(e.owner, b)) = After(e)
    BY <1>3 DEF ActiveRow, NoRow, Where, After
  <2> QED
    BY <1>1, <1>4, <2>1 DEF ItemEffect
<1>5. CASE p \in C \cup D
  <2>1. e.pass # p /\ Live(db.passes[p])
    BY <1>1, <1>2, <1>5 DEF Live
  <2>2. db.passes[p] \in Rows
    BY <1>3, <2>1, RowFields DEF Live
  <2>3. PICK st \in {"dormant", "consumed"} : new.passes[p] = SetState(db.passes[p], st)
    BY <1>1, <1>5
  <2> QED
    BY <2>1, <2>2, <2>3, StateEffect
<1>6. CASE p \notin C \cup D \cup {e.pass}
  BY <1>1, <1>6, SameRowEffect
<1> QED
  BY <1>4, <1>5, <1>6

LEMMA TransferItem ==
    ASSUME NEW db \in Stores, NEW new, NEW e, e.op = "move", e.pass \in Passes, e.to # Nobody,
           db.passes[e.pass] # NoRow, MoveEffect(new, db, e), NEW p \in Passes
    PROVE  ItemEffect(e, p, db.passes[p], new.passes[p])
<1>1. CASE p = e.pass
  <2>1. /\ new.passes[p] \in Rows /\ new.passes[p].owner = e.to /\ new.passes[p].sat = e.sat
        /\ new.passes[p].state \in {"dormant", db.passes[p].state}
    BY <1>1 DEF MoveEffect
  <2>2. new.passes[p] # NoRow /\ new.passes[p].state \in States
    BY <2>1, NoRowIsNotARow DEF Rows
  <2>3. Where(new.passes[p]) = After(e)
    BY <2>1 DEF Where, After
  <2> QED
    BY <1>1, <2>1, <2>2, <2>3 DEF ItemEffect, States
<1>2. CASE p # e.pass
  BY <1>2, SameRowEffect DEF MoveEffect
<1> QED
  BY <1>1, <1>2

LEMMA BurnItem ==
    ASSUME NEW db \in Stores, NEW new, NEW e, e.op = "move", e.pass \in Passes,
           BurnEffect(new, db, e), NEW p \in Passes
    PROVE  ItemEffect(e, p, db.passes[p], new.passes[p])
<1>1. CASE p = e.pass
  <2>1. new.passes[p].state = "burned"
    BY <1>1 DEF BurnEffect
  <2> QED
    BY <1>1, <2>1 DEF ItemEffect, Live, NoRow
<1>2. CASE p # e.pass
  BY <1>2, SameRowEffect DEF BurnEffect
<1> QED
  BY <1>1, <1>2

LEMMA ExecuteItem ==
    ASSUME NEW db, NEW rec, NEW bal, NEW b \in Heights, TablesOK(db, b), OneActiveNow(db),
           NEW e \in ProcessEvents, ~RowRefused(db, e), NEW p \in Passes
    PROVE  ItemEffect(e, p, db.passes[p], execute(db, rec, bal, e, b).db.passes[p])
<1>0. db \in Stores
  BY DEF TablesOK
<1>1. CASE e \in MintEvents
  <2>1. e.op = "mint" /\ db.passes[e.pass] = NoRow
    BY <1>1 DEF MintEvents, RowRefused
  <2>2. execute(db, rec, bal, e, b) = on_mint_pass(db, rec, bal, e, b)
    BY <2>1 DEF execute
  <2> QED
    BY <1>1, <2>1, <2>2, MintItem
<1>2. CASE e \in MoveItems
  <2>1. e.op = "move" /\ e.pass \in Passes /\ e.to \in Owners \cup {Nobody} /\ e.sat \in Nat
    BY <1>2 DEF MoveItems
  <2>2. db.passes[e.pass] # NoRow
    BY <2>1 DEF RowRefused
  <2>3. CASE e.to = Nobody
    <3>1. execute(db, rec, bal, e, b) = on_pass_burned(db, rec, bal, e, b)
      BY <2>1, <2>3 DEF execute
    <3>2. BurnEffect(on_pass_burned(db, rec, bal, e, b).db, db, e)
      BY <2>1, <2>2, BurnOK
    <3> QED
      BY <1>0, <2>1, <3>1, <3>2, BurnItem
  <2>4. CASE e.to # Nobody
    <3>1. execute(db, rec, bal, e, b) = on_pass_transfer(db, rec, bal, e, b)
      BY <2>1, <2>4 DEF execute
    <3>2. MoveEffect(on_pass_transfer(db, rec, bal, e, b).db, db, e)
      BY <2>1, <2>2, <2>4, TransferOK
    <3> QED
      BY <1>0, <2>1, <2>2, <2>4, <3>1, <3>2, TransferItem
  <2> QED
    BY <2>3, <2>4
<1> QED
  BY <1>1, <1>2 DEF ProcessEvents, MoveItems

\* Executing the first item leaves the rest leading to the same entry.
LEMMA ItemsFollow ==
    ASSUME NEW items \in Seq(ProcessEvents), items # <<>>, NEW p, NEW row, NEW new, NEW s, NEW old,
           ItemEffect(Head(items), p, row, new),
           Doomed(items, p, row) \/ (Follows(items, p, row, s) /\ KeepsInvalid(old, row))
    PROVE  Doomed(Tail(items), p, new) \/ (Follows(Tail(items), p, new, s) /\ KeepsInvalid(old, new))
<1> DEFINE e == Head(items)
           rest == Tail(items)
           n == Len(items)
<1>1. /\ n \in Nat /\ n >= 1 /\ DOMAIN items = 1..n /\ e = items[1]
      /\ DOMAIN rest = 1..(n - 1) /\ \A k \in 1..(n - 1) : rest[k] = items[k + 1]
  OBVIOUS
<1> HIDE DEF e, rest, n
<1>0. ItemEffect(e, p, row, new)
  BY DEF e
<1>2. CASE Doomed(items, p, row)
  <2>1. PICK k \in DOMAIN items :
            /\ items[k].op = "mint" /\ items[k].pass = p
            /\ row # NoRow \/ \E j \in DOMAIN items : j < k /\ items[j].pass = p
    BY <1>2 DEF Doomed
  <2>2. k # 1
    BY <1>0, <1>1, <2>1 DEF ItemEffect
  <2>3. k - 1 \in DOMAIN rest /\ rest[k - 1] = items[k]
    BY <1>1, <2>2
  <2>4. CASE row # NoRow
    <3>1. new # NoRow
      BY <1>0, <2>4 DEF ItemEffect
    <3> QED
      BY <2>1, <2>3, <3>1 DEF Doomed, rest
  <2>5. ASSUME NEW j \in DOMAIN items, j < k, items[j].pass = p
        PROVE  Doomed(rest, p, new)
    <3>1. CASE j = 1
      <4>1. new # NoRow
        BY <1>0, <1>1, <2>5, <3>1 DEF ItemEffect
      <4> QED
        BY <2>1, <2>3, <4>1 DEF Doomed
    <3>2. CASE j # 1
      <4>1. j - 1 \in DOMAIN rest /\ rest[j - 1] = items[j] /\ j - 1 < k - 1
        BY <1>1, <2>5, <3>2
      <4> QED
        BY <2>1, <2>3, <2>5, <4>1 DEF Doomed
    <3> QED
      BY <3>1, <3>2
  <2> QED
    BY <2>1, <2>4, <2>5 DEF rest
<1>3. CASE Follows(items, p, row, s) /\ KeepsInvalid(old, row)
  <2>1. ASSUME NEW k \in DOMAIN rest, LastItem(rest, p, k)
        PROVE  s = After(rest[k]) /\ new.state # "invalid"
    <3>1. k + 1 \in DOMAIN items /\ items[k + 1] = rest[k] /\ items[k + 1].pass = p /\ k \in Nat
      BY <1>1, <2>1 DEF LastItem
    <3>2. ASSUME NEW j \in DOMAIN items, items[j].pass = p PROVE j <= k + 1
      <4>1. CASE j = 1
        BY <3>1, <4>1
      <4>2. CASE j # 1
        <5>1. j - 1 \in DOMAIN rest /\ rest[j - 1] = items[j]
          BY <1>1, <4>2
        <5>2. j - 1 <= k
          BY <2>1, <3>2, <5>1 DEF LastItem
        <5> QED
          BY <1>1, <3>1, <5>2
      <4> QED
        BY <4>1, <4>2
    <3>3. LastItem(items, p, k + 1)
      BY <3>1, <3>2 DEF LastItem
    <3>4. s = After(rest[k]) /\ row.state # "invalid"
      BY <1>3, <3>1, <3>3 DEF Follows
    <3> QED
      BY <1>0, <3>4 DEF ItemEffect
  <2>2. CASE e.pass = p
    <3>0. ~NoItem(items, p)
      BY <1>1, <2>2 DEF NoItem
    <3>1. \E k \in DOMAIN items : LastItem(items, p, k)
      <4> DEFINE K == {k \in DOMAIN items : items[k].pass = p}
                 U == {u \in Nat : \A k \in K : k <= u}
      <4>1. n \in U
        BY <1>1
      <4>2. PICK u \in U : \A v \in U : u <= v
        BY <4>1, LeastElement
      <4>3. u \in Nat /\ \A k \in K : k <= u
        BY <4>2
      <4>4. 1 \in K
        BY <1>1, <2>2
      <4>5. u \in K
        <5> SUFFICES ASSUME u \notin K PROVE FALSE
          OBVIOUS
        <5>1. u >= 1 /\ u - 1 \in Nat /\ ~(u <= u - 1)
          BY <4>3, <4>4
        <5>2. \A k \in K : k <= u - 1
          BY <1>1, <4>3, <5>1
        <5>3. u - 1 \in U
          BY <5>1, <5>2
        <5> HIDE DEF U
        <5> QED
          BY <4>2, <5>1, <5>3
      <4> QED
        BY <4>3, <4>5 DEF LastItem
    <3>2. row.state # "invalid"
      BY <1>3, <3>1 DEF Follows
    <3>3. KeepsInvalid(old, new)
      BY <1>3, <3>2 DEF KeepsInvalid
    <3>4. ASSUME NoItem(rest, p) PROVE Tracks(new, s)
      <4>1. LastItem(items, p, 1)
        <5>1. \A j \in DOMAIN items : j # 1 => items[j].pass # p
          <6> SUFFICES ASSUME NEW j \in DOMAIN items, j # 1 PROVE items[j].pass # p
            OBVIOUS
          <6>1. j - 1 \in DOMAIN rest /\ rest[j - 1] = items[j]
            BY <1>1
          <6> QED
            BY <3>4, <6>1 DEF NoItem
        <5> QED
          BY <1>1, <2>2, <5>1 DEF LastItem
      <4>2. s = After(e)
        BY <1>1, <1>3, <4>1 DEF Follows
      <4> QED
        BY <1>0, <2>2, <3>2, <4>2 DEF ItemEffect, Tracks
    <3>5. Follows(rest, p, new, s)
      BY <2>1, <3>4 DEF Follows
    <3> QED
      BY <3>3, <3>5 DEF rest
  <2>3. CASE e.pass # p
    <3>1. KeepsInvalid(old, new)
      BY <1>0, <1>3, <2>3 DEF KeepsInvalid, ItemEffect
    <3>2. ASSUME NoItem(rest, p) PROVE Tracks(new, s)
      <4>1. NoItem(items, p)
        <5> SUFFICES ASSUME NEW j \in DOMAIN items PROVE items[j].pass # p
          BY DEF NoItem
        <5>1. CASE j = 1
          BY <1>1, <2>3, <5>1
        <5>2. CASE j # 1
          <6>1. j - 1 \in DOMAIN rest /\ rest[j - 1] = items[j]
            BY <1>1, <5>2
          <6> QED
            BY <3>2, <6>1 DEF NoItem
        <5> QED
          BY <5>1, <5>2
      <4>2. Tracks(row, s)
        BY <1>3, <4>1 DEF Follows
      <4> QED
        BY <1>0, <2>3, <4>2 DEF ItemEffect, Tracks
    <3>3. Follows(rest, p, new, s)
      BY <2>1, <3>2 DEF Follows
    <3> QED
      BY <3>1, <3>3 DEF rest
  <2> QED
    BY <2>2, <2>3
<1> QED
  BY <1>2, <1>3

LEMMA TracksNone ==
    ASSUME NEW db, "crash" \in FaultKinds
    PROVE  TracksAll(db, NoTracking)
BY DEF TracksAll, Tracks, NoTracking

LEMMA TracksReload ==
    ASSUME NEW db \in Stores
    PROVE  TracksAll(db, reload_from_storage(db))
BY DEF TracksAll, Tracks, Live, Where, reload_from_storage

LEMMA SamePassesTracks ==
    ASSUME NEW db, NEW new, NEW map, new.passes = db.passes, TracksAll(db, map)
    PROVE  TracksAll(new, map)
BY DEF TracksAll

LEMMA SamePassesBlock ==
    ASSUME NEW db, NEW new, NEW old, NEW map, new.passes = db.passes, BlockTracks(db, old, map)
    PROVE  BlockTracks(new, old, map)
BY DEF BlockTracks

\* Only these steps touch the tracker.
LEMMA TrackerSteps ==
    ASSUME [Next]_vars
    PROVE  \/ tracker' = tracker
           \/ ReloadTracker
           \/ PublishTracker
           \/ pc = "reload" /\ disk' = disk /\ pc' = "sync_once"
           \/ "crash" \in FaultKinds /\ tracker' = NoTracking /\ disk' = disk /\ pc' = "down"
<1>1. CASE Upstream
  BY <1>1 DEF Upstream, ExtendChain, ReplaceChain, PollStatus, memVars
<1>2. CASE Recovery
  BY <1>2 DEF Recovery, NothingPending, ResumePending, ResumeEnergy, ClearPending,
              NoDrift, DriftFound, AncestorFound, ProbeLower, ProbeFails, RollbackPasses, memVars
<1>3. CASE SyncBlock
  BY <1>3 DEF SyncBlock, BeginBlock, CollectBlock, ExecuteEvent, RecordInvalidMints, SettleBalances,
              FinalizeEnergy, PersistCommit, PutSyncedHeight, CommitSavepoint, memVars
<1>4. CASE SyncOnce
  BY <1>4 DEF SyncOnce, ReadSnapshot, ReadStableHeight, CheckStores, PlanSync, PersistAnchor, Backfill,
              SyncDone, KeepWaiting, WakeUp, memVars, vars
<1>5. CASE FailEarly \/ FailStaged \/ FailFinalized \/ FailLate
  BY <1>5 DEF FailEarly, FailStaged, FailFinalized, FailLate, memVars
<1>6. CASE FailOutside
  <2>1. tracker' \in (IF pc = "reload" THEN {tracker, NoTracking} ELSE {tracker})
        /\ pc' = "sync_once" /\ disk' = disk
    BY <1>6 DEF FailOutside, GiveUp, dbVars
  <2> QED
    BY <2>1
<1>7. CASE Crash
  BY <1>7 DEF Crash, MayFail
<1>8. CASE Restart
  BY <1>8 DEF Restart, memVars
<1>9. CASE UNCHANGED vars
  BY <1>9 DEF vars
<1> QED
  BY <1>1, <1>2, <1>3, <1>4, <1>5, <1>6, <1>7, <1>8, <1>9 DEF Next, Task, Failures

\* Without a failing commit the steps after the swap of the maps end in the commit.
LEMMA AfterPublish ==
    ASSUME [Next]_vars, "late" \notin FaultKinds, pc \in {"synced", "commit"}
    PROVE  \/ pc' \in {"synced", "commit"}
           \/ disk' = conn /\ tracker' = tracker
           \/ "crash" \in FaultKinds /\ tracker' = NoTracking /\ disk' = disk /\ pc' = "down"
<1>1. CASE Upstream
  BY <1>1 DEF Upstream, ExtendChain, ReplaceChain, PollStatus
<1>2. CASE Recovery
  BY <1>2 DEF Recovery, NothingPending, ResumePending, ResumeEnergy, ReloadTracker, ClearPending,
              NoDrift, DriftFound, AncestorFound, ProbeLower, ProbeFails, RollbackPasses
<1>3. CASE SyncBlock
  BY <1>3 DEF SyncBlock, BeginBlock, CollectBlock, ExecuteEvent, RecordInvalidMints, SettleBalances,
              FinalizeEnergy, PersistCommit, PublishTracker, PutSyncedHeight, CommitSavepoint, memVars
<1>4. CASE SyncOnce
  BY <1>4 DEF SyncOnce, ReadSnapshot, ReadStableHeight, CheckStores, PlanSync, PersistAnchor, Backfill,
              SyncDone, KeepWaiting, WakeUp
<1>5. CASE FailEarly \/ FailStaged \/ FailFinalized \/ FailLate \/ FailOutside
  BY <1>5 DEF FailEarly, FailStaged, FailFinalized, FailLate, FailOutside, MayFail
<1>6. CASE Crash
  BY <1>6 DEF Crash, MayFail
<1>7. CASE Restart
  BY <1>7 DEF Restart
<1>8. CASE UNCHANGED vars
  BY <1>8 DEF vars
<1> QED
  BY <1>1, <1>2, <1>3, <1>4, <1>5, <1>6, <1>7, <1>8 DEF Next, Task, Failures

\* The recovery comes to its end only from the reload.
LEMMA ClearSteps ==
    ASSUME IInv, [Next]_vars, pc' = "clear"
    PROVE  (pc = "clear" /\ disk' = disk /\ tracker' = tracker) \/ ReloadTracker
<1>0. loc.after \in {"detect", "check"}
  BY DEF IInv, TypeOK, Locals
<1>1. CASE Upstream
  BY <1>1 DEF Upstream, ExtendChain, ReplaceChain, PollStatus, dbVars, memVars
<1>2. CASE Recovery
  BY <1>0, <1>2 DEF Recovery, NothingPending, ResumePending, ResumeEnergy, ClearPending,
              NoDrift, DriftFound, AncestorFound, ProbeLower, ProbeFails, RollbackPasses, GiveUp, AfterResume
<1>3. CASE SyncBlock
  BY <1>3 DEF SyncBlock, BeginBlock, CollectBlock, ExecuteEvent, RecordInvalidMints, SettleBalances,
              FinalizeEnergy, PersistCommit, PublishTracker, PutSyncedHeight, CommitSavepoint, GiveUp
<1>4. CASE SyncOnce
  BY <1>4 DEF SyncOnce, ReadSnapshot, ReadStableHeight, CheckStores, PlanSync, PersistAnchor, Backfill,
              SyncDone, KeepWaiting, WakeUp, GiveUp, vars
<1>5. CASE Failures
  BY <1>5 DEF Failures, FailEarly, FailStaged, FailFinalized, FailLate, FailOutside, Crash, GiveUp
<1>6. CASE Restart
  BY <1>6 DEF Restart
<1>7. CASE UNCHANGED vars
  BY <1>7 DEF vars
<1> QED
  BY <1>1, <1>2, <1>3, <1>4, <1>5, <1>6, <1>7 DEF Next, Task

\* Of the steps of a block only the events and the invalid mints write pass rows.
LEMMA SamePassesInBlock ==
    ASSUME IInv, SettleBalances \/ PersistCommit \/ PutSyncedHeight
    PROVE  conn'.passes = conn.passes
<1>1. conn \in Stores
  BY DEF IInv, TypeOK
<1>2. CASE SettleBalances
  <2>1. PICK h, x : conn' = upsert_active_balance_snapshot(conn, h, x)
    BY <1>2 DEF SettleBalances
  <2> QED
    BY <1>1, <2>1 DEF upsert_active_balance_snapshot, Stores
<1>3. CASE PersistCommit
  <2>1. PICK h, x : conn' = upsert_pass_block_commit(conn, h, x)
    BY <1>3 DEF PersistCommit
  <2> QED
    BY <1>1, <2>1 DEF upsert_pass_block_commit, Stores
<1>4. CASE PutSyncedHeight
  BY <1>1, <1>4 DEF PutSyncedHeight, update_synced_height, Stores
<1> QED
  BY <1>2, <1>3, <1>4

LEMMA CollectTracks ==
    ASSUME IInv, TrackInv, CollectBlock
    PROVE  ExecTracks(loc'.todo, conn', disk', staged')
<1> DEFINE w == Walk(loc.blk)
           B == {e \in Range(Events(loc.blk)) : e.op = "invalid"}
<1>1. /\ pc = "collect" /\ loc.blk <= Len(chain) /\ conn' = conn /\ disk' = disk
      /\ staged' = w.map /\ loc' = [loc EXCEPT !.todo = w.items, !.bad = B]
  BY DEF CollectBlock, CanCollect, HasBlock, dbVars
<1>2. chain \in Chains /\ tracker \in TrackMaps /\ loc \in Locals /\ disk \in Stores
  BY DEF IInv, TypeOK
<1>3. /\ loc.blk \in Heights /\ loc.blk = Tip(disk) + 1 /\ disk.pending = NoHeight
      /\ conn = disk
  BY <1>1, <1>2 DEF IInv, ControlOK, InBlock, Locals, BlockOK
<1>4. loc.blk \in 1..Len(chain)
  BY <1>1, <1>2, <1>3, TipFacts, ChainFacts, HeightFacts
<1>5. w \in Walks /\ WalkFacts(w, loc.blk, Len(Events(loc.blk)))
  BY <1>2, <1>4, WalkHolds
<1>6. TracksAll(disk, tracker)
  BY <1>1, <1>3 DEF TrackInv
<1> HIDE DEF w, B
<1>7. loc'.todo = w.items
  BY <1>1, <1>2 DEF Locals
<1>8. ASSUME NEW p \in Passes
      PROVE  \/ Doomed(w.items, p, conn.passes[p])
             \/ Follows(w.items, p, conn.passes[p], w.map[p]) /\ KeepsInvalid(disk.passes[p], conn.passes[p])
  <2>1. Tracks(conn.passes[p], tracker[p])
    BY <1>3, <1>6 DEF TracksAll
  <2>2. Doomed(w.items, p, conn.passes[p]) \/ Follows(w.items, p, conn.passes[p], w.map[p])
    BY <1>2, <1>4, <1>5, <2>1, CollectFollows
  <2> QED
    BY <1>3, <2>2 DEF KeepsInvalid
<1> QED
  BY <1>1, <1>7, <1>8 DEF ExecTracks

LEMMA ExecuteTracks ==
    ASSUME IInv, TrackInv, ExecuteEvent
    PROVE  ExecTracks(loc'.todo, conn', disk', staged')
<1> DEFINE e == Head(loc.todo)
           r == execute(conn, en.rec, Balances, e, loc.blk)
<1>1. /\ pc = "exec" /\ loc.todo # <<>> /\ ~ExecuteFails
      /\ conn' = r.db /\ disk' = disk /\ staged' = staged
      /\ loc' = [loc EXCEPT !.todo = Tail(loc.todo), !.done = Append(loc.done, e)]
  BY DEF ExecuteEvent, memVars
<1>2. loc.todo \in Seq(ProcessEvents) /\ loc.blk \in Heights /\ loc \in Locals
  BY DEF IInv, TypeOK, Locals
<1>3. e \in ProcessEvents /\ loc'.todo = Tail(loc.todo)
  BY <1>1, <1>2 DEF Locals
<1>4. TablesOK(conn, loc.blk) /\ OneActiveNow(conn) /\ ~RowRefused(conn, e)
  BY <1>1 DEF IInv, InBlock, BlockOK, ExecuteFails
<1>5. ExecTracks(loc.todo, conn, disk, staged)
  BY <1>1 DEF TrackInv
<1> HIDE DEF e
<1>6. ASSUME NEW p \in Passes
      PROVE  \/ Doomed(loc'.todo, p, conn'.passes[p])
             \/ /\ Follows(loc'.todo, p, conn'.passes[p], staged'[p])
                /\ KeepsInvalid(disk'.passes[p], conn'.passes[p])
  <2>1. ItemEffect(e, p, conn.passes[p], conn'.passes[p])
    BY <1>1, <1>2, <1>3, <1>4, ExecuteItem
  <2>2. \/ Doomed(loc.todo, p, conn.passes[p])
        \/ Follows(loc.todo, p, conn.passes[p], staged[p]) /\ KeepsInvalid(disk.passes[p], conn.passes[p])
    BY <1>5 DEF ExecTracks
  <2>3. \/ Doomed(Tail(loc.todo), p, conn'.passes[p])
        \/ /\ Follows(Tail(loc.todo), p, conn'.passes[p], staged[p])
           /\ KeepsInvalid(disk.passes[p], conn'.passes[p])
    <3> HIDE DEF r
    <3> QED
      BY <1>1, <1>2, <2>1, <2>2, ItemsFollow DEF e
  <2> QED
    BY <1>1, <1>3, <2>3
<1> QED
  BY <1>6 DEF ExecTracks

LEMMA InvalidTracks ==
    ASSUME IInv, TrackInv, RecordInvalidMints
    PROVE  BlockTracks(conn', disk', staged')
<1>1. /\ pc = "exec" /\ loc.todo = <<>> /\ ~\E e \in loc.bad : RowRefused(conn, e)
      /\ conn' = on_invalid_mint_pass(conn, loc.bad, loc.blk) /\ disk' = disk /\ staged' = staged
  BY DEF RecordInvalidMints, memVars
<1>2. loc.bad \in SUBSET InvalidEvents /\ loc.blk \in Heights
  BY DEF IInv, TypeOK, Locals
<1>3. TablesOK(conn, loc.blk) /\ OneActiveNow(conn) /\ ExecTracks(loc.todo, conn, disk, staged)
  BY <1>1 DEF IInv, InBlock, BlockOK, TrackInv
<1>4. \A e \in loc.bad : conn.passes[e.pass] = NoRow
  <2>1. \A e \in loc.bad : e.op = "invalid"
    BY <1>2 DEF InvalidEvents
  <2> QED
    BY <1>1, <2>1 DEF RowRefused
<1>5. \A q \in Passes : \/ conn'.passes[q] = conn.passes[q]
                        \/ conn.passes[q] = NoRow /\ conn'.passes[q].state = "invalid"
  BY <1>1, <1>2, <1>3, <1>4, InvalidOK
<1>6. ASSUME NEW p \in Passes
      PROVE  Tracks(conn'.passes[p], staged[p]) /\ KeepsInvalid(disk.passes[p], conn'.passes[p])
  <2>1. Tracks(conn.passes[p], staged[p]) /\ KeepsInvalid(disk.passes[p], conn.passes[p])
    <3>1. ~Doomed(<<>>, p, conn.passes[p]) /\ NoItem(<<>>, p)
      BY DEF Doomed, NoItem
    <3> QED
      BY <1>1, <1>3, <3>1 DEF ExecTracks, Follows
  <2>2. CASE conn'.passes[p] = conn.passes[p]
    BY <2>1, <2>2
  <2>3. CASE conn.passes[p] = NoRow /\ conn'.passes[p].state = "invalid"
    BY <2>1, <2>3 DEF Tracks, KeepsInvalid, Live, NoRow
  <2> QED
    BY <1>5, <2>2, <2>3
<1> QED
  BY <1>1, <1>6 DEF BlockTracks

LEMMA ExecPreserved ==
    ASSUME IInv, TrackInv, [Next]_vars, pc' = "exec"
    PROVE  ExecTracks(loc'.todo, conn', disk', staged')
<1>1. CASE UNCHANGED <<disk, conn, en, staged, pc, loc>>
  BY <1>1 DEF TrackInv
<1>2. CASE BeginBlock \/ RecordInvalidMints \/ SettleBalances \/ FinalizeEnergy \/ PersistCommit
           \/ PublishTracker \/ PutSyncedHeight
  BY <1>2 DEF BeginBlock, RecordInvalidMints, SettleBalances, FinalizeEnergy, PersistCommit,
              PublishTracker, PutSyncedHeight, GiveUp
<1> QED
  BY <1>1, <1>2, CollectTracks, ExecuteTracks, BlockSteps DEF InBlock

LEMMA StagedPreserved ==
    ASSUME IInv, TrackInv, [Next]_vars, pc' \in {"settle", "finalize", "persist", "publish"}
    PROVE  BlockTracks(conn', disk', staged')
<1>1. CASE UNCHANGED <<disk, conn, en, staged, pc, loc>>
  BY <1>1 DEF TrackInv
<1>2. CASE SettleBalances \/ PersistCommit
  <2>1. /\ pc \in {"settle", "persist"} /\ disk' = disk /\ staged' = staged
    BY <1>2 DEF SettleBalances, PersistCommit, memVars
  <2>2. conn'.passes = conn.passes
    BY <1>2, SamePassesInBlock
  <2>3. BlockTracks(conn, disk, staged)
    BY <2>1 DEF TrackInv
  <2> QED
    BY <2>1, <2>2, <2>3, SamePassesBlock
<1>3. CASE FinalizeEnergy
  BY <1>3 DEF FinalizeEnergy, dbVars, memVars, TrackInv
<1>4. CASE BeginBlock \/ CollectBlock \/ ExecuteEvent \/ PublishTracker \/ PutSyncedHeight
  BY <1>4 DEF BeginBlock, CollectBlock, ExecuteEvent, PublishTracker, PutSyncedHeight, GiveUp
<1> QED
  BY <1>1, <1>2, <1>3, <1>4, InvalidTracks, BlockSteps DEF InBlock

LEMMA PublishedPreserved ==
    ASSUME IInv, TrackInv, [Next]_vars, pc' \in {"synced", "commit"}
    PROVE  BlockTracks(conn', disk', tracker')
<1>1. CASE UNCHANGED <<disk, conn, en, staged, pc, loc>>
  <2>1. tracker' = tracker
    BY <1>1, TrackerSteps DEF ReloadTracker, PublishTracker
  <2> QED
    BY <1>1, <2>1 DEF TrackInv
<1>2. CASE PublishTracker
  BY <1>2 DEF PublishTracker, dbVars, TrackInv
<1>3. CASE PutSyncedHeight
  <2>1. /\ pc = "synced" /\ disk' = disk /\ tracker' = tracker
    BY <1>3 DEF PutSyncedHeight, memVars
  <2>2. conn'.passes = conn.passes
    BY <1>3, SamePassesInBlock
  <2>3. BlockTracks(conn, disk, tracker)
    BY <2>1 DEF TrackInv
  <2> QED
    BY <2>1, <2>2, <2>3, SamePassesBlock
<1>4. CASE BeginBlock \/ CollectBlock \/ ExecuteEvent \/ RecordInvalidMints \/ SettleBalances
           \/ FinalizeEnergy \/ PersistCommit
  BY <1>4 DEF BeginBlock, CollectBlock, ExecuteEvent, RecordInvalidMints, SettleBalances, FinalizeEnergy,
              PersistCommit, GiveUp
<1> QED
  BY <1>1, <1>2, <1>3, <1>4, BlockSteps DEF InBlock

\* The writes to the durable store other than commit and rollback.
LEMMA SamePassesOnDisk ==
    ASSUME IInv, DiskStep, pc \notin {"rollback", "commit"}
    PROVE  disk'.passes = disk.passes /\ (pc # "clear" => disk'.pending = disk.pending)
<1>1. disk \in Stores
  BY DEF IInv, TypeOK
<1>2. CASE disk' = disk
  BY <1>2
<1>3. CASE pc = "clear" /\ disk' = clear_recovery_pending(disk)
  BY <1>1, <1>3 DEF clear_recovery_pending, Stores
<1>4. CASE pc = "anchor" /\ disk' = upsert_snapshot_anchor(disk, loc.snap)
  BY <1>1, <1>4 DEF upsert_snapshot_anchor, upsert_snapshot_history_entry, Stores
<1>5. ASSUME NEW h, disk' = upsert_snapshot_history_entry(disk, h, Prefix(chain, h))
      PROVE  disk'.passes = disk.passes /\ disk'.pending = disk.pending
  BY <1>1, <1>5 DEF upsert_snapshot_history_entry, Stores
<1> QED
  BY <1>2, <1>3, <1>4, <1>5 DEF DiskStep

LEMMA DurableTracked ==
    ASSUME IInv, TrackInv, [Next]_vars, "late" \notin FaultKinds,
           pc' \notin {"synced", "commit"}, disk'.pending = NoHeight
    PROVE  TracksAll(disk', tracker')
<1>0. DiskStep /\ disk \in Stores
  BY DiskSteps DEF IInv, TypeOK
<1>1. CASE pc \in {"synced", "commit"}
  <2>1. BlockTracks(conn, disk, tracker)
    BY <1>1 DEF TrackInv
  <2>2. TracksAll(conn, tracker)
    BY <2>1 DEF BlockTracks, TracksAll
  <2> QED
    BY <1>1, <2>2, AfterPublish, TracksNone
<1>2. CASE pc \notin {"synced", "commit"}
  <2>1. CASE "crash" \in FaultKinds /\ tracker' = NoTracking
    BY <2>1, TracksNone
  <2>2. CASE pc = "rollback" /\ disk' # disk
    <3>1. disk' = rollback_to_block_height(disk, loc.target)
      BY <1>0, <2>2 DEF DiskStep
    <3>2. disk'.pending = loc.target
      BY <1>0, <3>1 DEF rollback_to_block_height, mark_recovery_pending, clear_snapshot_anchor,
                        update_synced_height, DeleteAbove, Stores
    <3>3. loc.target \in Heights
      BY DEF IInv, TypeOK, Locals
    <3> QED
      BY <3>2, <3>3, HeightFacts DEF NoHeight
  <2>3. CASE tracker' = tracker /\ pc # "rollback"
    <3>1. disk'.passes = disk.passes /\ (pc # "clear" => disk.pending = NoHeight)
      BY <1>0, <1>2, <2>3, SamePassesOnDisk
    <3>2. TracksAll(disk, tracker)
      BY <1>2, <3>1 DEF TrackInv
    <3> QED
      BY <2>3, <3>1, <3>2, SamePassesTracks
  <2>4. CASE tracker' = tracker /\ disk' = disk
    BY <1>2, <2>4 DEF TrackInv
  <2>5. CASE ReloadTracker \/ PublishTracker \/ (pc = "reload" /\ disk' = disk)
    <3>1. pc = "reload" /\ disk' = disk
      BY <1>2, <2>5 DEF ReloadTracker, PublishTracker, dbVars
    <3> QED
      BY <3>1 DEF IInv, ControlOK
  <2> QED
    BY <2>1, <2>2, <2>3, <2>4, <2>5, TrackerSteps
<1> QED
  BY <1>1, <1>2

LEMMA ReloadedTracked ==
    ASSUME IInv, TrackInv, [Next]_vars, pc' = "clear"
    PROVE  TracksAll(disk', tracker')
<1>1. CASE ReloadTracker
  <2>1. tracker' = reload_from_storage(conn) /\ disk' = disk /\ pc = "reload"
    BY <1>1 DEF ReloadTracker, dbVars
  <2>2. conn = disk /\ disk \in Stores
    BY <2>1 DEF IInv, ControlOK, InBlock, TypeOK
  <2> QED
    BY <2>1, <2>2, TracksReload
<1>2. CASE pc = "clear" /\ disk' = disk /\ tracker' = tracker
  BY <1>2 DEF TrackInv
<1> QED
  BY <1>1, <1>2, ClearSteps

TrackedInv == IInv /\ TrackInv

LEMMA TrackInductive ==
    ASSUME "late" \notin FaultKinds
    PROVE  Spec => []TrackedInv
<1>1. Init => TrackInv
  <2> SUFFICES ASSUME Init PROVE TrackInv
    OBVIOUS
  <2>1. pc = "sync_once" /\ disk = EmptyStore /\ tracker = NoTracking
    BY DEF Init
  <2>2. \A p \in Passes : disk.passes[p] = NoRow /\ tracker[p] = NotTracked
    BY <2>1 DEF EmptyStore, NoTracking
  <2>3. TracksAll(disk, tracker)
    BY <2>2 DEF TracksAll, Tracks, Live, NoRow
  <2> QED
    BY <2>1, <2>3 DEF TrackInv
<1>2. TrackInv /\ IInv /\ [Next]_vars => TrackInv'
  <2> SUFFICES ASSUME TrackInv, IInv, [Next]_vars PROVE TrackInv'
    OBVIOUS
  <2>1. pc' = "exec" => ExecTracks(loc'.todo, conn', disk', staged')
    BY ExecPreserved
  <2>2. pc' \in {"settle", "finalize", "persist", "publish"} => BlockTracks(conn', disk', staged')
    BY StagedPreserved
  <2>3. pc' \in {"synced", "commit"} => BlockTracks(conn', disk', tracker')
    BY PublishedPreserved
  <2>4. pc' \notin {"synced", "commit"} /\ disk'.pending = NoHeight => TracksAll(disk', tracker')
    BY DurableTracked
  <2>5. pc' = "clear" => TracksAll(disk', tracker')
    BY ReloadedTracked
  <2> QED
    BY <2>1, <2>2, <2>3, <2>4, <2>5 DEF TrackInv
<1> QED
  BY <1>1, <1>2, Inductive, PTL DEF Spec, TrackedInv

(***************************************************************************)
(* If the process does not crash and the synced height and the savepoint's *)
(* commit do not fail after the maps are swapped, the tracker knows where  *)
(* every live pass is between blocks: for any blocks, also those that mint *)
(* and move a pass several times or are refused half way, any failures     *)
(* before commit_staged_block, rollbacks, and reloads that fail.           *)
(***************************************************************************)
THEOREM TrackerMatches ==
    ASSUME "late" \notin FaultKinds, "crash" \notin FaultKinds
    PROVE  Spec => []TrackerMatchesStore
<1>1. TrackedInv => TrackerMatchesStore
  <2> SUFFICES ASSUME TrackedInv, Settled, NEW p \in Passes, Live(conn.passes[p])
               PROVE  tracker[p] = Where(conn.passes[p])
    BY DEF TrackerMatchesStore, Live, Where
  <2>1. conn = disk /\ pc \notin {"synced", "commit"} /\ disk.pending = NoHeight
    BY DEF Settled, InBlock, TrackedInv, IInv, ControlOK
  <2>2. TracksAll(disk, tracker)
    BY <2>1 DEF TrackedInv, TrackInv
  <2> QED
    BY <2>1, <2>2 DEF TracksAll, Tracks
<1> QED
  BY <1>1, TrackInductive, PTL

(***************************************************************************)
(* Every committed block moves each pass forward in its life and leaves an *)
(* invalid mint as it was recorded: no transfer is ever seen of a pass     *)
(* that was not validly minted, across crashes, failed blocks and          *)
(* rollbacks, unless the commit fails after the maps are swapped.          *)
(***************************************************************************)
THEOREM LifeMovesForwardAlways ==
    ASSUME "late" \notin FaultKinds
    PROVE  Spec => LifeOnlyMovesForward
<1>1. TrackedInv /\ [RevivesNone]_vars /\ [Next]_vars => [LifeStep]_vars
  <2> SUFFICES ASSUME TrackedInv, RevivesNone, [Next]_vars, disk'.synced > disk.synced
               PROVE  NeverRevived(disk, disk') /\ InvalidStays(disk, disk')
    <3>1. CASE vars' = vars
      BY <3>1
    <3>2. CASE vars' # vars
      BY <3>2 DEF LifeStep
    <3> QED
      BY <3>1, <3>2
  <2>1. NeverRevived(disk, disk')
    BY DEF RevivesNone
  <2>2. IInv /\ TrackInv /\ DiskStep
    BY DiskSteps DEF TrackedInv
  <2>3. CASE pc = "commit"
    <3>1. BlockTracks(conn, disk, tracker)
      BY <2>2, <2>3 DEF TrackInv
    <3>2. disk' = conn \/ disk' = disk
      BY <2>2, <2>3 DEF DiskStep
    <3> QED
      BY <2>1, <3>1, <3>2 DEF BlockTracks, KeepsInvalid, InvalidStays
  <2>4. CASE pc \notin {"commit", "rollback"}
    <3>1. disk'.passes = disk.passes
      BY <2>2, <2>4, SamePassesOnDisk
    <3> QED
      BY <2>1, <3>1 DEF InvalidStays
  <2>5. CASE pc = "rollback"
    <3>1. disk' = disk \/ disk' = rollback_to_block_height(disk, loc.target)
      BY <2>2, <2>5 DEF DiskStep
    <3> QED
      BY <2>1, <2>2, <2>5, <3>1, RollbackLowers DEF InvalidStays
  <2> QED
    BY <2>3, <2>4, <2>5
<1> QED
  BY <1>1, TrackInductive, LifeMovesForward, PTL DEF Spec, LifeOnlyMovesForward

-----------------------------------------------------------------------------
(* The durable store implements PassStore *)

LEMMA SameEntry ==
    ASSUME NEW a, NEW b, NEW k, \A p \in Passes : a.hist[p][k] = b.hist[p][k],
           a.commits[k] = b.commits[k], a.settled[k] = b.settled[k]
    PROVE  EntryOf(a, k) = EntryOf(b, k)
<1>1. [p \in Passes |-> a.hist[p][k]] = [p \in Passes |-> b.hist[p][k]]
  OBVIOUS
<1> QED
  BY <1>1 DEF EntryOf

LEMMA EmptyEntry ==
    ASSUME NEW a, NEW k, \A p \in Passes : a.hist[p][k] = NoRow,
           a.commits[k] = NoCommit, a.settled[k] = NoSnapshot
    PROVE  EntryOf(a, k) = NoEntry
<1>1. [p \in Passes |-> a.hist[p][k]] = [p \in Passes |-> NoRow]
  OBVIOUS
<1> QED
  BY <1>1 DEF EntryOf, NoEntry

\* The log that the store holds.
LogOf(db) == [h \in Heights |-> EntryOf(db, h)]

\* The pass table is the projection of the log.
LEMMA ViewIsCurrent ==
    ASSUME NEW db \in Stores, RowsAreTheHistory(db)
    PROVE  db.passes = Store!Current(LogOf(db))
<1>0. Store!Heights = Heights /\ MaxHeight \in Heights
  BY HeightFacts DEF Store!Heights, Heights
<1>1. \A p \in Passes, h \in Heights :
        /\ LogOf(db)[h].rows[p] = db.hist[p][h]
        /\ db.hist[p][h] # NoRow => LogOf(db)[h] # NoEntry
  <2> SUFFICES ASSUME NEW p \in Passes, NEW h \in Heights
               PROVE  /\ LogOf(db)[h].rows[p] = db.hist[p][h]
                      /\ db.hist[p][h] # NoRow => LogOf(db)[h] # NoEntry
    OBVIOUS
  <2>1. LogOf(db)[h].rows = [q \in Passes |-> db.hist[q][h]]
    BY DEF LogOf, EntryOf
  <2>2. NoEntry.rows = [q \in Passes |-> NoRow]
    BY DEF NoEntry
  <2>3. [q \in Passes |-> db.hist[q][h]][p] = db.hist[p][h] /\ [q \in Passes |-> NoRow][p] = NoRow
    OBVIOUS
  <2> QED
    BY <2>1, <2>2, <2>3
<1>2. ASSUME NEW p \in Passes
      PROVE  db.passes[p] = IF Store!Written(LogOf(db), p) = {} THEN NoRow
                            ELSE LogOf(db)[Store!Max(Store!Written(LogOf(db), p))].rows[p]
  <2> DEFINE S == HistHeights(db.hist, p, MaxHeight)
  <2>1. Store!Written(LogOf(db), p) = S
    <3>1. \A h \in Heights : h <= MaxHeight
      BY HeightFacts
    <3> QED
      BY <1>0, <1>1, <3>1 DEF Store!Written, HistHeights
  <2>2. Store!Max(S) = Max(S)
    BY DEF Store!Max, Max
  <2>3. db.passes[p] = IF S = {} THEN NoRow ELSE db.hist[p][Max(S)]
    BY DEF RowsAreTheHistory, RowAt
  <2>4. S # {} => Max(S) \in Heights
    <3>1. S \subseteq Heights
      BY DEF HistHeights
    <3> HIDE DEF S
    <3> QED
      BY <3>1, GreatestHeight
  <2> HIDE DEF S
  <2> QED
    BY <1>1, <2>1, <2>2, <2>3, <2>4
<1>3. db.passes = [p \in Passes |-> db.passes[p]]
  BY DEF Stores, RowTables
<1> QED
  BY <1>2, <1>3 DEF Store!Current

LEMMA StoreInit == Init => Store!Init
<1> SUFFICES ASSUME Init PROVE Store!Init
  OBVIOUS
<1>1. disk = EmptyStore /\ Store!Heights = Heights
  BY DEF Init, Store!Heights, Heights
<1>2. \A h \in Heights : EntryOf(disk, h) = NoEntry
  <2> SUFFICES ASSUME NEW h \in Heights PROVE EntryOf(disk, h) = NoEntry
    OBVIOUS
  <2>1. /\ \A p \in Passes : disk.hist[p][h] = NoRow
        /\ disk.commits[h] = NoCommit /\ disk.settled[h] = NoSnapshot
    BY <1>1 DEF EmptyStore
  <2> QED
    BY <2>1, EmptyEntry
<1> QED
  BY <1>1, <1>2 DEF Store!Init, EmptyStore

LEMMA StoreStep ==
    ASSUME IInv, [Next]_vars
    PROVE  [Store!Next]_(Store!vars)
<1>0. /\ disk \in Stores /\ conn \in Stores /\ loc \in Locals /\ chain \in Chains /\ ControlOK
      /\ DurableOK(disk) /\ loc.target \in Heights /\ loc.snap \in Seq(Blocks) /\ loc.blk \in Heights
  BY DEF IInv, TypeOK, Locals
<1>a. /\ Tip(disk) \in Heights /\ disk.synced \in Heights /\ Tip(disk) \in Nat /\ disk.synced \in Nat
      /\ Genesis \in Nat /\ Floor = Genesis - 1 /\ MaxHeight \in Nat /\ Heights = 0..MaxHeight
      /\ Store!Heights = Heights
  BY <1>0, TipFacts, HeightFacts DEF Store!Heights
<1>b. Store!Tip = Tip(disk)
  BY <1>a DEF Store!Tip, Tip, MaxOf
<1>c. disk' \in Stores /\ DurableOK(disk')
  BY StoreTypes, DurablePreserved
<1>d. disk'.passes = Store!Current(LogOf(disk'))
  BY <1>c, ViewIsCurrent DEF DurableOK, TablesOK
\* Steps that leave the tables alone leave the log alone.
<1>e. ASSUME disk'.hist = disk.hist, disk'.commits = disk.commits, disk'.settled = disk.settled
      PROVE  LogOf(disk') = LogOf(disk)
  <2>1. \A h \in Heights : EntryOf(disk', h) = EntryOf(disk, h)
    BY <1>e, SameEntry
  <2> QED
    BY <2>1 DEF LogOf
<1>1. CASE disk' = disk
  BY <1>1 DEF Store!vars
<1>2. CASE pc = "clear" /\ disk' = clear_recovery_pending(disk)
  <2>1. /\ disk'.pending = NoHeight
        /\ disk'.passes = disk.passes /\ disk'.hist = disk.hist /\ disk'.settled = disk.settled
        /\ disk'.commits = disk.commits
        /\ disk'.anchor = disk.anchor /\ disk'.anchors = disk.anchors /\ disk'.synced = disk.synced
    BY <1>0, <1>2, MarkerWrite
  <2>2. disk.pending = disk.synced
    BY <1>0, <1>2 DEF ControlOK, DurableOK
  <2>3. LogOf(disk') = LogOf(disk)
    BY <1>e, <2>1
  <2> QED
    BY <2>1, <2>2, <2>3 DEF Store!Next, Store!FinishRecovery, LogOf
<1>3. CASE pc = "rollback" /\ disk' = rollback_to_block_height(disk, loc.target)
  <2> DEFINE t == loc.target
  <2>1. t \in Floor..Tip(disk) /\ disk.pending = NoHeight
    BY <1>0, <1>3 DEF ControlOK
  <2>2. RowsAreTheHistory(disk) /\ MintsAreOnce(disk)
    BY <1>0 DEF DurableOK, TablesOK
  <2>3. RolledBack(disk', disk, t)
    BY <1>0, <1>3, <2>2, RollbackFields
  <2> HIDE DEF t
  <2>4. /\ disk'.synced = t /\ disk'.pending = t /\ disk'.anchor = <<>>
        /\ disk'.anchors = Store!Cut(disk.anchors, t, <<>>)
        /\ \A p \in Passes, k \in Heights : disk'.hist[p][k] = IF k > t THEN NoRow ELSE disk.hist[p][k]
        /\ \A k \in Heights : /\ disk'.commits[k] = IF k > t THEN NoCommit ELSE disk.commits[k]
                              /\ disk'.settled[k] = IF k > t THEN NoSnapshot ELSE disk.settled[k]
    BY <1>a, <2>3 DEF RolledBack, DropAbove, Store!Cut
  <2>5. \A h \in Heights : EntryOf(disk', h) = IF h > t THEN NoEntry ELSE LogOf(disk)[h]
    <3> SUFFICES ASSUME NEW h \in Heights
                 PROVE  EntryOf(disk', h) = IF h > t THEN NoEntry ELSE EntryOf(disk, h)
      BY DEF LogOf
    <3>1. CASE h > t
      BY <2>4, <3>1, EmptyEntry
    <3>2. CASE ~(h > t)
      BY <2>4, <3>2, SameEntry
    <3> QED
      BY <3>1, <3>2
  <2>6. LogOf(disk') = Store!Cut(LogOf(disk), t, NoEntry)
    BY <1>a, <2>5 DEF LogOf, Store!Cut
  <2> QED
    BY <1>a, <1>b, <1>d, <2>1, <2>4, <2>6 DEF Store!Next, Store!Rollback, LogOf
<1>4. CASE pc = "commit" /\ disk' = conn /\ en' = en
  <2> DEFINE b == loc.blk
  <2>1. /\ b = Tip(disk) + 1 /\ b \in Heights /\ disk.pending = NoHeight
    BY <1>0, <1>4 DEF ControlOK, InBlock
  <2>2. /\ disk'.synced = b /\ disk'.settled[b] # NoSnapshot
        /\ \A p \in Passes, k \in Heights : k # b => disk'.hist[p][k] = disk.hist[p][k]
        /\ \A k \in Heights : k # b => /\ disk'.commits[k] = disk.commits[k]
                                       /\ disk'.settled[k] = disk.settled[k]
        /\ disk'.anchor = disk.anchor /\ disk'.anchors = disk.anchors /\ disk'.pending = disk.pending
    BY <1>4 DEF IInv, BlockOK, InBlock
  <2> HIDE DEF b
  <2>3. b \in (Tip(disk) + 1)..MaxHeight
    BY <1>a, <2>1
  <2>4. LogOf(disk)[b] = NoEntry
    <3>1. /\ \A p \in Passes : disk.hist[p][b] = NoRow
          /\ disk.commits[b] = NoCommit /\ disk.settled[b] = NoSnapshot
      BY <1>0, <2>3 DEF DurableOK, NoDataAfter, NoHistoryAfter, NoCommitsAfter, NoSettledAfter
    <3>2. EntryOf(disk, b) = NoEntry
      BY <3>1, EmptyEntry
    <3> QED
      BY <2>1, <3>2 DEF LogOf
  <2>5. LogOf(disk')[b] # NoEntry
    <3>1. EntryOf(disk', b).settled # NoEntry.settled
      BY <2>2 DEF EntryOf, NoEntry
    <3> QED
      BY <2>1, <3>1 DEF LogOf
  <2>6. LogOf(disk') = [LogOf(disk) EXCEPT ![b] = LogOf(disk')[b]]
    <3>1. \A h \in Heights : h # b => EntryOf(disk', h) = EntryOf(disk, h)
      BY <2>2, SameEntry
    <3> QED
      BY <3>1 DEF LogOf
  <2> QED
    BY <1>b, <1>d, <2>1, <2>2, <2>4, <2>5, <2>6 DEF Store!Next, Store!AppendBlock, LogOf
<1>5. CASE pc = "anchor" /\ Len(loc.snap) = loc.cur /\ disk' = upsert_snapshot_anchor(disk, loc.snap)
  <2> DEFINE x == loc.snap
  <2>1. Len(x) = disk.synced /\ Len(x) \in Heights /\ disk.pending = NoHeight
    BY <1>0, <1>5, <1>a DEF ControlOK
  <2>2. /\ disk'.anchors = [disk.anchors EXCEPT ![disk.synced] = x]
        /\ disk'.anchor = x /\ disk'.synced = disk.synced
        /\ disk'.passes = disk.passes /\ disk'.hist = disk.hist /\ disk'.settled = disk.settled
        /\ disk'.commits = disk.commits /\ disk'.pending = disk.pending
    <3>1. /\ upsert_snapshot_anchor(disk, x).anchors = [disk.anchors EXCEPT ![Len(x)] = x]
          /\ upsert_snapshot_anchor(disk, x).anchor = x
          /\ upsert_snapshot_anchor(disk, x).synced = Len(x)
          /\ upsert_snapshot_anchor(disk, x).passes = disk.passes
          /\ upsert_snapshot_anchor(disk, x).hist = disk.hist
          /\ upsert_snapshot_anchor(disk, x).settled = disk.settled
          /\ upsert_snapshot_anchor(disk, x).commits = disk.commits
          /\ upsert_snapshot_anchor(disk, x).pending = disk.pending
      BY <1>0, <2>1, AnchorWrite
    <3> QED
      BY <1>5, <2>1, <3>1
  <2> HIDE DEF x
  <2>3. LogOf(disk') = LogOf(disk)
    BY <1>e, <2>2
  <2> QED
    BY <2>1, <2>2, <2>3 DEF Store!Next, Store!Adopt, LogOf
<1>6. ASSUME pc = "backfill", NEW h \in MissingAnchors, h <= Len(chain),
             disk' = upsert_snapshot_history_entry(disk, h, Prefix(chain, h))
      PROVE  Store!Next
  <2> DEFINE x == Prefix(chain, h)
  <2>1. /\ conn = disk /\ loc.cur = disk.synced /\ disk.synced >= Genesis /\ disk.pending = NoHeight
    BY <1>0, <1>6 DEF ControlOK, InBlock
  <2>2. h \in Genesis..disk.synced /\ h \in Heights /\ h \in Nat /\ disk.anchors[h] = <<>>
    BY <1>a, <1>6, <2>1 DEF MissingAnchors
  <2>3. x \in Seq(Blocks) /\ Len(x) = h
    BY <1>0, <1>6, <2>2, PrefixFacts
  <2> HIDE DEF x
  <2>4. /\ disk'.anchors = [disk.anchors EXCEPT ![h] = x]
        /\ disk'.passes = disk.passes /\ disk'.hist = disk.hist /\ disk'.settled = disk.settled
        /\ disk'.commits = disk.commits
        /\ disk'.anchor = disk.anchor /\ disk'.synced = disk.synced /\ disk'.pending = disk.pending
    BY <1>0, <1>6, <2>2, <2>3, AnchorsWrite DEF x
  <2>5. disk.anchors \in [Heights -> Seq(Blocks)]
    BY <1>0 DEF Stores
  <2>6. disk'.anchors[h] = x
    BY <2>2, <2>4, <2>5
  <2>7. h \in Genesis..Tip(disk)
    BY <1>a, <2>1, <2>2 DEF Tip, MaxOf
  <2>8. LogOf(disk') = LogOf(disk)
    BY <1>e, <2>4
  <2>9. Store!Backfill
    BY <1>b, <2>1, <2>2, <2>3, <2>4, <2>6, <2>7, <2>8 DEF Store!Backfill, LogOf
  <2> QED
    BY <2>9 DEF Store!Next
<1> QED
  BY <1>1, <1>2, <1>3, <1>4, <1>5, <1>6, DiskSteps DEF DiskStep

(***************************************************************************)
(* What survives a restart is the log that PassStore specifies: blocks     *)
(* appear whole and in order, a rollback cuts the log at once, nothing is  *)
(* appended while a recovery is pending.  CommitSavepoint is AppendBlock,  *)
(* RollbackPasses is Rollback, ClearPending is FinishRecovery, and every   *)
(* other step of the sync task leaves the log as it is.                    *)
(***************************************************************************)
THEOREM StoreIsALog == Spec => DurableStoreIsALog
<1>1. IInv /\ [Next]_vars => [Store!Next]_(Store!vars)
  BY StoreStep
<1> QED
  BY StoreInit, <1>1, Inductive, PTL DEF Spec, Store!Spec, DurableStoreIsALog

-----------------------------------------------------------------------------
(* Energy is earned once *)

\* The rows of height t.
RowsAt(hist, t) == [p \in Passes |-> RowAt(hist, p, t)]

\* The records of height t hold the balances of the chain c, and the live passes no more
\* energy than its balances earned.
EarnedOn(hist, rec, c, t) ==
    /\ AllHeld(RowsAt(hist, t), rec, BalancesOf(c), t)
    /\ Held(RowsAt(hist, t), rec, t) <= EarnedFrom(hist, BalancesOf(c), Genesis, t)

\* The commits up to t are those of one chain, and the energy of t is earned on it.
EarnedAtCommit(db, rec, t) ==
    /\ Len(db.commits[t].up) = t
    /\ \A k \in Genesis..t : db.commits[k].up = Prefix(db.commits[t].up, k)
    /\ EarnedOn(db.hist, rec, db.commits[t].up, t)

\* The commit of height t is that of the chain c.
OnChain(db, c, t) == t >= Genesis => t <= Len(c) /\ db.commits[t].up = Prefix(c, t)

\* The pcs at which the upstream's chain must not change.
Steady == {"rollback", "resume", "resume_energy", "reload", "clear", "check", "plan", "begin"} \cup InBlock

\* Inside a block: the rows and records of the open block against the chain it is read
\* from.  Until the balances are settled a record may lag one block behind them.
EarnedInBlock ==
    /\ loc.blk <= Len(chain)
    /\ Held(conn.passes, en.rec, loc.blk) <= EarnedFrom(disk.hist, Balances, Genesis, loc.blk)
    /\ pc \in {"exec", "settle"} => AllHeldSoFar(conn.passes, en.rec, Balances, loc.blk)
    /\ pc \notin {"exec", "settle"} => AllHeld(conn.passes, en.rec, Balances, loc.blk)
    /\ pc \in {"publish", "synced", "commit"} => conn.commits[loc.blk].up = Prefix(chain, loc.blk)

\* Every committed block, not only the last: a rollback may land on any of them.
CommitsEarned == \A t \in Genesis..disk.synced : EarnedAtCommit(disk, en.rec, t)

\* Once a pass has compared the stores with the upstream they are on its chain: after
\* the drift test at the tip, after the ancestor search at the target.
OnTheChain ==
    /\ pc = "rollback" => OnChain(disk, chain, loc.target)
    /\ pc \in {"resume", "resume_energy", "reload", "clear"} /\ loc.after = "check" =>
          OnChain(disk, chain, Tip(disk))
    /\ pc \in {"check", "plan", "begin"} \cup InBlock => OnChain(disk, chain, Tip(disk))

EarnInv ==
    /\ CommitsEarned
    /\ OnTheChain
    /\ pc \in Written => EarnedInBlock

LEMMA BalancesType ==
    ASSUME NEW c \in Seq(Blocks)
    PROVE  Len(c) \in Nat /\ BalancesOf(c) \in BalanceTables(Len(c))
<1>1. Len(c) \in Nat /\ \A k \in 1..Len(c) : c[k] \in Blocks
  OBVIOUS
<1>2. \A k \in 1..Len(c) : c[k].bal \in [Owners -> Nat]
  BY <1>1 DEF Blocks
<1>3. [o \in Owners |-> 0] \in [Owners -> Nat]
  OBVIOUS
<1>4. \A k \in 0..Len(c) : (IF k = 0 THEN [o \in Owners |-> 0] ELSE c[k].bal) \in [Owners -> Nat]
  BY <1>1, <1>2, <1>3
<1> QED
  BY <1>1, <1>4 DEF BalanceTables, BalancesOf

LEMMA PrefixBalances ==
    ASSUME NEW c \in Seq(Blocks), NEW t \in Nat, t <= Len(c)
    PROVE  /\ Prefix(c, t) \in Seq(Blocks) /\ Len(Prefix(c, t)) = t
           /\ \A k \in 0..t : BalancesOf(Prefix(c, t))[k] = BalancesOf(c)[k]
           /\ \A k \in 1..t : Prefix(Prefix(c, t), k) = Prefix(c, k)
<1>1. Prefix(c, t) \in Seq(Blocks) /\ Len(Prefix(c, t)) = t /\ \A k \in 1..t : Prefix(c, t)[k] = c[k]
  BY DEF Prefix
<1>2. \A k \in 0..t : BalancesOf(Prefix(c, t))[k] = BalancesOf(c)[k]
  BY <1>1 DEF BalancesOf
<1>3. ASSUME NEW k \in 1..t
      PROVE  Prefix(Prefix(c, t), k) = Prefix(c, k)
  <2>1. PICK s \in Seq(Blocks) : s = Prefix(c, t)
    BY <1>1
  <2>2. \A j \in 1..k : s[j] = c[j]
    BY <2>1, <1>1
  <2>3. Prefix(s, k) = [j \in 1..k |-> s[j]] /\ Prefix(c, k) = [j \in 1..k |-> c[j]]
    BY <2>1, <1>1 DEF Prefix
  <2> QED
    BY <2>1, <2>2, <2>3
<1> QED
  BY <1>1, <1>2, <1>3

\* The energy at t and the balances held at t depend on what lies at or below t only.
LEMMA WorthLocal ==
    ASSUME NEW rec, RecordsOK(rec), NEW rec2, NEW p \in Passes, NEW t \in Heights, NEW bal, NEW bal2,
           RecordHeights(rec, p, t) # {},
           \A k \in Heights : k <= t => rec[p][k] = rec2[p][k],
           \A k \in 0..t : bal2[k] = bal[k]
    PROVE  /\ get_pass_energy(rec2, p, t) = get_pass_energy(rec, p, t)
           /\ BalanceHeld(rec, bal, p, t) => BalanceHeld(rec2, bal2, p, t)
<1>1. LastRecord(rec2, p, t) = LastRecord(rec, p, t)
  BY LastRecordLocal
<1>2. get_pass_energy(rec2, p, t) = get_pass_energy(rec, p, t)
  BY <1>1 DEF get_pass_energy
<1>3. LastRecord(rec, p, t) \in EnergyRecords
  BY LastRecordType
<1>4. LastRecord(rec, p, t).height \in Heights
  BY <1>3 DEF EnergyRecords
<1>5. \A k \in LastRecord(rec, p, t).height..t : k \in 0..t
  BY <1>4, HeightFacts
<1>6. BalanceHeld(rec, bal, p, t) => BalanceHeld(rec2, bal2, p, t)
  BY <1>1, <1>5 DEF BalanceHeld
<1> QED
  BY <1>2, <1>6

LEMMA EarnedOnLocal ==
    ASSUME NEW hist \in Histories, NEW other, NEW rec, RecordsOK(rec), NEW rec2,
           NEW c \in Seq(Blocks), NEW c2, NEW t \in Heights, t <= Len(c),
           \A p \in Passes, k \in Heights : k <= t => hist[p][k] = other[p][k],
           \A p \in Passes, k \in Heights : k <= t => rec[p][k] = rec2[p][k],
           \A k \in 0..t : BalancesOf(c2)[k] = BalancesOf(c)[k],
           \A p \in Passes : Agrees(RowAt(hist, p, t), rec, p, t),
           EarnedOn(hist, rec, c, t)
    PROVE  EarnedOn(other, rec2, c2, t)
<1>1. \A p \in Passes : RowAt(hist, p, t) = RowAt(other, p, t)
  BY RowAtLocal
<1>2. RowsAt(other, t) = RowsAt(hist, t)
  BY <1>1 DEF RowsAt
<1>3. ASSUME NEW p \in Passes, Live(RowsAt(hist, t)[p])
      PROVE  /\ get_pass_energy(rec2, p, t) = get_pass_energy(rec, p, t)
             /\ BalanceHeld(rec, BalancesOf(c), p, t) => BalanceHeld(rec2, BalancesOf(c2), p, t)
  <2>1. RecordHeights(rec, p, t) # {}
    BY <1>3 DEF Live, RowsAt, Agrees
  <2>2. \A k \in Heights : k <= t => rec[p][k] = rec2[p][k]
    OBVIOUS
  <2> QED
    BY <2>1, <2>2, WorthLocal
<1>4. AllHeld(RowsAt(other, t), rec2, BalancesOf(c2), t)
  BY <1>2, <1>3 DEF AllHeld, EarnedOn, Live
<1>5. Shares(RowsAt(other, t), rec2, t) = Shares(RowsAt(hist, t), rec, t)
  BY <1>2, <1>3 DEF Shares
<1>6. Held(RowsAt(other, t), rec2, t) = Held(RowsAt(hist, t), rec, t)
  BY <1>5 DEF Held
<1>7. Len(c) \in Nat /\ BalancesOf(c) \in BalanceTables(Len(c)) /\ Genesis \in Nat /\ t <= Len(c) + 1
  BY BalancesType, HeightFacts
<1>8. \A p \in Passes, k \in Heights : k < t => hist[p][k] = other[p][k]
  BY HeightFacts
<1>9. \A k \in Heights : k < t => BalancesOf(c)[k] = BalancesOf(c2)[k]
  BY HeightFacts
<1>10. EarnedFrom(other, BalancesOf(c2), Genesis, t) = EarnedFrom(hist, BalancesOf(c), Genesis, t)
  BY <1>7, <1>8, <1>9, EarnedLocal
<1> QED
  BY <1>4, <1>6, <1>10 DEF EarnedOn

LEMMA EarnedAtCommitLocal ==
    ASSUME NEW db \in Stores, NEW new, NEW rec, RecordsOK(rec), NEW rec2, NEW t \in Heights, t >= Genesis,
           \A p \in Passes, k \in Heights : k <= t => db.hist[p][k] = new.hist[p][k],
           \A k \in Heights : k <= t => new.commits[k] = db.commits[k],
           \A p \in Passes, k \in Heights : k <= t => rec[p][k] = rec2[p][k],
           \A p \in Passes : Agrees(RowAt(db.hist, p, t), rec, p, t),
           EarnedAtCommit(db, rec, t)
    PROVE  EarnedAtCommit(new, rec2, t)
<1>1. \A k \in Genesis..t : k \in Heights /\ new.commits[k] = db.commits[k]
  BY HeightFacts
<1>2. t \in Genesis..t
  BY HeightFacts
<1>3. db.commits[t].up \in Seq(Blocks) /\ db.hist \in Histories
  BY DEF Stores, Commits
<1>4. PICK c \in Seq(Blocks) : c = db.commits[t].up
  BY <1>3
<1>5. t <= Len(c) /\ EarnedOn(db.hist, rec, c, t)
  BY <1>4, HeightFacts DEF EarnedAtCommit
<1>6. EarnedOn(new.hist, rec2, c, t)
  BY <1>3, <1>5, EarnedOnLocal
<1> QED
  BY <1>1, <1>2, <1>4, <1>6 DEF EarnedAtCommit

LEMMA InBlockFacts ==
    ASSUME IInv, EarnInv, pc \in Written
    PROVE  /\ EarnedInBlock
           /\ loc.blk \in Heights /\ loc.blk >= 1 /\ loc.blk = Tip(disk) + 1 /\ loc.blk <= Len(chain)
           /\ Len(chain) \in Nat /\ Balances \in BalanceTables(Len(chain))
           /\ TablesOK(conn, loc.blk) /\ OneActiveNow(conn) /\ conn \in Stores
           /\ RecordsOK(en.rec) /\ AllAgree(conn, en.rec, loc.blk) /\ en \in EnergyStores
<1>1. pc \in InBlock
  BY DEF Written, InBlock
<1>2. EarnedInBlock /\ loc.blk <= Len(chain)
  BY DEF EarnInv, EarnedInBlock
<1>3. loc.blk \in Heights /\ chain \in Chains /\ disk \in Stores /\ en \in EnergyStores
  BY DEF IInv, TypeOK, Locals
<1>4. loc.blk = Tip(disk) + 1
  BY <1>1 DEF IInv, ControlOK
<1>5. loc.blk >= 1
  BY <1>3, <1>4, TipFacts, HeightFacts
<1>6. Len(chain) \in Nat /\ Balances \in BalanceTables(Len(chain))
  BY <1>3, ChainFacts DEF Balances
<1>7. TablesOK(conn, loc.blk) /\ OneActiveNow(conn) /\ conn \in Stores
  BY <1>1 DEF IInv, BlockOK, TablesOK
<1>8. RecordsOK(en.rec) /\ AllAgree(conn, en.rec, loc.blk)
  BY DEF IInv, EnergyOK
<1> QED
  BY <1>2, <1>3, <1>4, <1>5, <1>6, <1>7, <1>8

LEMMA ExecuteEarns ==
    ASSUME IInv, EarnInv, ExecuteEvent
    PROVE  CreatesNone(conn'.passes, en'.rec, conn.passes, en.rec, Balances, loc.blk)
<1> DEFINE e == Head(loc.todo)
           r == execute(conn, en.rec, Balances, e, loc.blk)
<1>1. /\ pc = "exec" /\ loc.todo # <<>> /\ ~ExecuteFails
      /\ conn' = r.db /\ en' = [en EXCEPT !.rec = r.rec]
  BY DEF ExecuteEvent
<1>2. pc \in Written
  BY <1>1 DEF Written
<1>3. /\ EarnedInBlock /\ loc.blk \in Heights /\ loc.blk <= Len(chain)
      /\ Len(chain) \in Nat /\ Balances \in BalanceTables(Len(chain))
      /\ TablesOK(conn, loc.blk) /\ OneActiveNow(conn)
      /\ RecordsOK(en.rec) /\ AllAgree(conn, en.rec, loc.blk) /\ en \in EnergyStores
  BY <1>2, InBlockFacts
<1>4. AllHeldSoFar(conn.passes, en.rec, Balances, loc.blk)
  BY <1>1, <1>3 DEF EarnedInBlock
<1>5. loc.todo \in Seq(ProcessEvents)
  BY DEF IInv, TypeOK, Locals
<1>6. e \in ProcessEvents
  BY <1>1, <1>5
<1>7. ~RowRefused(conn, e)
  BY <1>1 DEF ExecuteFails
<1>8. en'.rec = r.rec
  BY <1>1, <1>3 DEF EnergyStores
<1> HIDE DEF e
<1>9. CreatesNone(r.db.passes, r.rec, conn.passes, en.rec, Balances, loc.blk)
  BY <1>3, <1>4, <1>6, <1>7, ExecuteCreatesNone
<1> HIDE DEF r
<1> QED
  BY <1>1, <1>8, <1>9

LEMMA InvalidEarns ==
    ASSUME IInv, EarnInv, RecordInvalidMints
    PROVE  /\ AllHeldSoFar(conn'.passes, en.rec, Balances, loc.blk)
           /\ Held(conn'.passes, en.rec, loc.blk) = Held(conn.passes, en.rec, loc.blk)
<1>1. /\ pc = "exec" /\ ~\E e \in loc.bad : RowRefused(conn, e)
      /\ conn' = on_invalid_mint_pass(conn, loc.bad, loc.blk)
  BY DEF RecordInvalidMints
<1>2. loc.bad \in SUBSET InvalidEvents /\ conn \in Stores
  BY DEF IInv, TypeOK, Locals
<1>3. \A e \in loc.bad : conn.passes[e.pass] = NoRow
  <2>1. \A e \in loc.bad : e.op = "invalid"
    BY <1>2 DEF InvalidEvents
  <2> QED
    BY <1>1, <2>1 DEF RowRefused
<1>4. AllHeldSoFar(conn.passes, en.rec, Balances, loc.blk)
  BY <1>1 DEF EarnInv, EarnedInBlock, Written
<1>5. ASSUME NEW q \in Passes
      PROVE  conn'.passes[q] = conn.passes[q] \/ (conn.passes[q] = NoRow /\ conn'.passes[q].state = "invalid")
  <2> DEFINE B == {e.pass : e \in loc.bad}
             new == [p \in B |-> InvalidRow((CHOOSE e \in loc.bad : e.pass = p).owner, loc.blk)]
  <2>1. conn'.passes = [p \in Passes |-> IF p \in DOMAIN new THEN new[p] ELSE conn.passes[p]]
    <3>1. conn' = WriteRows(conn, new, loc.blk)
      BY <1>1 DEF on_invalid_mint_pass, add_invalid_mint_pass_at_height
    <3> HIDE DEF new
    <3> QED
      BY <1>2, <3>1 DEF WriteRows, Stores
  <2>2. CASE q \in B
    <3>1. conn.passes[q] = NoRow
      BY <1>3, <2>2
    <3>2. conn'.passes[q] = InvalidRow((CHOOSE e \in loc.bad : e.pass = q).owner, loc.blk)
      BY <2>1, <2>2
    <3>3. conn'.passes[q].state = "invalid"
      BY <3>2 DEF InvalidRow
    <3> QED
      BY <3>1, <3>3
  <2>3. CASE q \notin B
    BY <2>1, <2>3
  <2> QED
    BY <2>2, <2>3
<1> QED
  BY <1>4, <1>5, InvalidCreatesNone

LEMMA SettleEarns ==
    ASSUME IInv, EarnInv, SettleBalances
    PROVE  /\ OnlyAt(en'.rec, en.rec, loc.blk)
           /\ AllHeld(conn.passes, en'.rec, Balances, loc.blk)
           /\ Held(conn.passes, en'.rec, loc.blk) <= Held(conn.passes, en.rec, loc.blk)
<1> DEFINE h == loc.blk
           A == ActiveAt(h)
           one(p) == apply_active_balance_change(en.rec, p, h, Balances[h][OwnerAt(p, h)],
                                                 DeltaAt(Balances, OwnerAt(p, h), h))
           rec2 == [p \in Passes |-> IF p \notin A THEN en.rec[p] ELSE one(p)[p]]
<1>1. pc = "settle" /\ en' = [en EXCEPT !.rec = rec2]
  BY DEF SettleBalances
<1>2. pc \in Written
  BY <1>1 DEF Written
<1>3. /\ EarnedInBlock /\ loc.blk \in Heights /\ loc.blk <= Len(chain) /\ loc.blk >= 1
      /\ Len(chain) \in Nat /\ Balances \in BalanceTables(Len(chain))
      /\ TablesOK(conn, loc.blk) /\ conn \in Stores
      /\ RecordsOK(en.rec) /\ AllAgree(conn, en.rec, loc.blk) /\ en \in EnergyStores
  BY <1>2, InBlockFacts
<1>4. AllHeldSoFar(conn.passes, en.rec, Balances, loc.blk)
  BY <1>1, <1>3 DEF EarnedInBlock
<1>5. /\ A \in SUBSET Passes
      /\ \A p \in A : /\ conn.passes[p].state = "active"
                      /\ OwnerAt(p, h) = conn.passes[p].owner
      /\ \A p \in Passes \ A : conn.passes[p].state # "active"
  BY <1>3, ActiveFacts
<1>6. \A q \in Passes : q \in A <=> conn.passes[q].state = "active"
  BY <1>5
<1>7. RecordsOK(en'.rec) /\ AllAgree(conn, en'.rec, loc.blk)
  BY SettleWrites DEF EnergyStep
<1>8. en'.rec = rec2
  BY <1>1, <1>3 DEF EnergyStores
<1> HIDE DEF A
<1>9. \A q \in A : en'.rec[q] = apply_active_balance_change(en.rec, q, loc.blk,
          Balances[loc.blk][conn.passes[q].owner], DeltaAt(Balances, conn.passes[q].owner, loc.blk))[q]
  BY <1>5, <1>8
<1>10. \A q \in Passes \ A : en'.rec[q] = en.rec[q]
  BY <1>5, <1>8
<1> HIDE DEF rec2, one, h
<1>11. PICK new : new = en'.rec
  OBVIOUS
<1>a. PICK S \in SUBSET Passes : S = A
  BY <1>5
<1>12. \A q \in Passes : q \in S <=> conn.passes[q].state = "active"
  BY <1>6, <1>a
<1>13. RecordsOK(new) /\ AllAgree(conn, new, loc.blk)
  BY <1>7, <1>11
<1>14. \A q \in S : new[q] = apply_active_balance_change(en.rec, q, loc.blk,
          Balances[loc.blk][conn.passes[q].owner], DeltaAt(Balances, conn.passes[q].owner, loc.blk))[q]
  BY <1>9, <1>11, <1>a
<1>15. \A q \in Passes \ S : new[q] = en.rec[q]
  BY <1>10, <1>11, <1>a
<1>16. /\ OnlyAt(new, en.rec, loc.blk) /\ AllHeld(conn.passes, new, Balances, loc.blk)
       /\ Held(conn.passes, new, loc.blk) <= Held(conn.passes, en.rec, loc.blk)
  BY <1>3, <1>4, <1>12, <1>13, <1>14, <1>15, SettleCreatesNone
<1> QED
  BY <1>11, <1>16

\* No step touches the records of the committed blocks.
RecordsKept == \A p \in Passes, k \in Heights : k <= disk.synced => en.rec[p][k] = en'.rec[p][k]

LEMMA ReconcileKeeps ==
    ASSUME IInv, NEW h \in Heights, h >= disk.synced, en' = reconcile_with_pass_synced_height(en, h)
    PROVE  RecordsKept
<1>1. en \in EnergyStores /\ disk \in Stores /\ RecordsOK(en.rec) /\ EnergyOK
  BY DEF IInv, TypeOK, EnergyOK
<1>2. Reconciled(en', en, h)
  BY <1>1, ReconcileOK
<1>3. /\ Tip(disk) >= disk.synced /\ h \in Nat /\ Tip(disk) \in Nat /\ disk.synced \in Nat
  BY <1>1, TipFacts, HeightFacts
<1>4. en.pending = NoHeight \/ (en.pending \in Nat /\ en.pending > Tip(disk))
  BY <1>1, HeightFacts DEF EnergyStores, EnergyOK
<1>5. \A k \in Heights : k <= disk.synced => k <= h /\ (en.pending = NoHeight \/ k < en.pending)
  BY <1>3, <1>4, HeightFacts
<1> QED
  BY <1>2, <1>5 DEF Reconciled, RecordsKept

LEMMA OnlyAtKeeps ==
    ASSUME IInv, pc \in Written, OnlyAt(en'.rec, en.rec, loc.blk)
    PROVE  RecordsKept
<1>1. disk \in Stores /\ loc.blk = Tip(disk) + 1
  BY DEF IInv, TypeOK, ControlOK, Written, InBlock
<1>2. \A k \in Heights : k <= disk.synced => k # loc.blk
  BY <1>1, TipFacts, HeightFacts
<1> QED
  BY <1>2 DEF OnlyAt, PassOnlyAt, RecordsKept

LEMMA RecordsSteps ==
    ASSUME IInv, EarnInv, [Next]_vars
    PROVE  RecordsKept
<1>0. /\ en \in EnergyStores /\ disk \in Stores /\ RecordsOK(en.rec) /\ ControlOK /\ DurableOK(disk)
  BY DEF IInv, TypeOK, EnergyOK
<1>a. /\ Tip(disk) \in Heights /\ Tip(disk) >= disk.synced /\ disk.synced \in Heights
      /\ Tip(disk) \in Nat /\ disk.synced \in Nat
  BY <1>0, TipFacts, HeightFacts
<1>1. CASE en'.rec = en.rec
  BY <1>1 DEF RecordsKept
<1>2. CASE ResumeEnergy
  <2>1. pc = "resume_energy" /\ conn = disk /\ en' = reconcile_with_pass_synced_height(en, disk.pending)
    BY <1>0, <1>2 DEF ResumeEnergy, ControlOK, InBlock
  <2>2. disk.pending = disk.synced
    BY <1>0, <2>1 DEF ControlOK, DurableOK
  <2>3. disk.pending \in Heights /\ disk.pending >= disk.synced
    BY <1>a, <2>2
  <2> QED
    BY <2>1, <2>3, ReconcileKeeps
<1>3. CASE CheckStores
  <2>1. pc = "check" /\ (en' = en \/ en' = reconcile_with_pass_synced_height(en, loc.cur))
    BY <1>3 DEF CheckStores
  <2>2. loc.cur \in Heights /\ loc.cur >= disk.synced
    BY <1>0, <1>a, <2>1 DEF ControlOK
  <2> QED
    BY <1>1, <2>1, <2>2, ReconcileKeeps
<1>4. CASE BeginBlock \/ FinalizeEnergy
  <2>1. en' = en \/ en' = [en EXCEPT !.pending = loc.blk] \/ en' = [en EXCEPT !.synced = loc.blk, !.pending = NoHeight]
    BY <1>4 DEF BeginBlock, begin_block_sync, FinalizeEnergy, finalize_block_sync
  <2>2. en'.rec = en.rec
    BY <1>0, <2>1 DEF EnergyStores
  <2> QED
    BY <1>1, <2>2
<1>5. CASE ExecuteEvent
  <2>1. pc \in Written
    BY <1>5 DEF ExecuteEvent, Written
  <2>2. OnlyAt(en'.rec, en.rec, loc.blk)
    BY <1>5, ExecuteEarns DEF CreatesNone
  <2> QED
    BY <2>1, <2>2, OnlyAtKeeps
<1>6. CASE SettleBalances
  <2>1. pc \in Written
    BY <1>6 DEF SettleBalances, Written
  <2> QED
    BY <1>6, <2>1, SettleEarns, OnlyAtKeeps
<1>8. CASE FailStaged
  <2>1. pc \in {"exec", "settle", "finalize"} /\ en' = abort_pending_block_sync(en, loc.blk)
    BY <1>8 DEF FailStaged
  <2>2. loc.blk = Tip(disk) + 1
    BY <1>0, <2>1 DEF ControlOK, InBlock
  <2>3. Cleared(en'.rec, en.rec, loc.blk)
    BY <1>0, <2>1, AbortOK
  <2>4. \A k \in Heights : k <= disk.synced => ~(k >= loc.blk)
    BY <1>a, <2>2, HeightFacts
  <2> QED
    BY <2>3, <2>4 DEF Cleared, RecordsKept
<1>9. CASE FailFinalized \/ FailLate
  <2>1. en' = reconcile_with_pass_synced_height(en, disk.synced)
    BY <1>9 DEF FailFinalized, FailLate
  <2> QED
    BY <1>a, <2>1, ReconcileKeeps
<1> QED
  BY <1>1, <1>2, <1>3, <1>4, <1>5, <1>6, <1>8, <1>9, EnergyWriters

\* Only a committed block adds to the durable store; what another write leaves, it keeps.
DiskShrinks ==
    /\ disk'.synced \in Heights /\ disk'.synced <= disk.synced
    /\ \A p \in Passes, k \in Heights : k <= disk'.synced => disk.hist[p][k] = disk'.hist[p][k]
    /\ \A k \in Heights : k <= disk'.synced => disk'.commits[k] = disk.commits[k]

LEMMA DiskGrowsByCommit ==
    ASSUME IInv, [Next]_vars
    PROVE  DiskShrinks \/ (pc = "commit" /\ disk' = conn /\ en' = en)
<1>0. /\ disk \in Stores /\ conn \in Stores /\ ControlOK
      /\ DurableOK(disk) /\ loc \in Locals /\ loc.target \in Heights
  BY DEF IInv, TypeOK, Locals
<1>a. disk.synced \in Heights /\ disk.synced \in Nat /\ disk.synced <= disk.synced
  BY <1>0, TipFacts, HeightFacts
<1>1. ASSUME disk'.synced = disk.synced, disk'.hist = disk.hist, disk'.commits = disk.commits
      PROVE  DiskShrinks
  BY <1>a, <1>1 DEF DiskShrinks
<1>2. CASE pc = "clear" /\ disk' = clear_recovery_pending(disk)
  BY <1>0, <1>1, <1>2, MarkerWrite
<1>3. CASE pc = "rollback" /\ disk' = rollback_to_block_height(disk, loc.target)
  <2> DEFINE t == loc.target
  <2>2. RowsAreTheHistory(disk) /\ MintsAreOnce(disk)
    BY <1>0 DEF DurableOK, TablesOK
  <2>3. RolledBack(disk', disk, t)
    BY <1>0, <1>3, <2>2, RollbackFields
  <2>4. disk'.synced = t /\ t \in Heights /\ \A k \in Heights : k <= t => ~(k > t)
    BY <1>0, <2>3, HeightFacts DEF RolledBack
  <2>5. disk'.synced <= disk.synced
    BY <1>3, RollbackLowers
  <2> HIDE DEF t
  <2>6. \A p \in Passes, k \in Heights : k <= t => disk.hist[p][k] = disk'.hist[p][k]
    BY <2>3, <2>4 DEF RolledBack
  <2>7. \A k \in Heights : k <= t => disk'.commits[k] = disk.commits[k]
    BY <2>3, <2>4 DEF RolledBack, DropAbove
  <2> QED
    BY <2>4, <2>5, <2>6, <2>7 DEF DiskShrinks
<1>5. CASE pc = "anchor" /\ Len(loc.snap) = loc.cur /\ disk' = upsert_snapshot_anchor(disk, loc.snap)
  <2>1. Len(loc.snap) = disk.synced /\ loc.snap \in Seq(Blocks) /\ Len(loc.snap) \in Heights
    BY <1>0, <1>5, <1>a DEF ControlOK, Locals
  <2>2. /\ upsert_snapshot_anchor(disk, loc.snap).synced = Len(loc.snap)
        /\ upsert_snapshot_anchor(disk, loc.snap).hist = disk.hist
        /\ upsert_snapshot_anchor(disk, loc.snap).commits = disk.commits
    BY <1>0, <2>1, AnchorWrite
  <2>3. disk'.synced = disk.synced /\ disk'.hist = disk.hist /\ disk'.commits = disk.commits
    BY <1>5, <2>1, <2>2
  <2> QED
    BY <1>1, <2>3
<1>6. ASSUME pc = "backfill", NEW h \in MissingAnchors, h <= Len(chain),
             disk' = upsert_snapshot_history_entry(disk, h, Prefix(chain, h))
      PROVE  disk'.synced = disk.synced /\ disk'.hist = disk.hist /\ disk'.commits = disk.commits
  <2> DEFINE x == Prefix(chain, h)
  <2>1. h \in Heights /\ h \in Nat /\ chain \in Chains
    BY <1>0, <1>6, HeightFacts DEF MissingAnchors, Locals, IInv, TypeOK
  <2>2. x \in Seq(Blocks)
    BY <1>0, <1>6, <2>1, PrefixFacts
  <2> HIDE DEF x
  <2> QED
    BY <1>0, <1>6, <2>1, <2>2, AnchorsWrite DEF x
<1>7. CASE pc = "backfill" /\ \E h \in MissingAnchors :
             h <= Len(chain) /\ disk' = upsert_snapshot_history_entry(disk, h, Prefix(chain, h))
  BY <1>1, <1>6, <1>7
<1>8. CASE disk' = disk
  BY <1>1, <1>8
<1> QED
  BY <1>2, <1>3, <1>5, <1>7, <1>8, DiskSteps DEF DiskStep

\* The block about to be committed is earned on the chain it was read from.
LEMMA CommitEarned ==
    ASSUME IInv, EarnInv, pc = "commit"
    PROVE  EarnedAtCommit(conn, en.rec, loc.blk)
<1> DEFINE b == loc.blk
           t == Tip(disk)
<1>1. pc \in Written /\ pc \in InBlock
  BY DEF Written, InBlock
<1>2. /\ EarnedInBlock /\ b \in Heights /\ b >= 1 /\ b = t + 1 /\ b <= Len(chain)
      /\ Len(chain) \in Nat /\ Balances \in BalanceTables(Len(chain))
      /\ TablesOK(conn, b) /\ conn \in Stores
      /\ RecordsOK(en.rec) /\ AllAgree(conn, en.rec, b)
  BY <1>1, InBlockFacts
<1>3. /\ disk \in Stores /\ chain \in Chains /\ BlockOK /\ OnChain(disk, chain, t)
  BY <1>1 DEF IInv, TypeOK, EarnInv, OnTheChain
<1>4. /\ \A p \in Passes, k \in Heights : k # b => conn.hist[p][k] = disk.hist[p][k]
      /\ \A k \in Heights : k # b => conn.commits[k] = disk.commits[k]
  BY <1>3 DEF BlockOK
<1>5. /\ Held(conn.passes, en.rec, b) <= EarnedFrom(disk.hist, Balances, Genesis, b)
      /\ AllHeld(conn.passes, en.rec, Balances, b)
      /\ conn.commits[b].up = Prefix(chain, b)
  BY <1>2 DEF EarnedInBlock
<1>6. /\ chain \in Seq(Blocks) /\ t \in Heights /\ b \in Nat /\ t \in Nat /\ Genesis \in Nat /\ Genesis >= 1
      /\ MaxHeight \in Nat /\ Heights = 0..MaxHeight
  BY <1>2, <1>3, ChainFacts, TipFacts, HeightFacts
<1> HIDE DEF b, t
<1>7. /\ Prefix(chain, b) \in Seq(Blocks) /\ Len(Prefix(chain, b)) = b
      /\ \A k \in 0..b : BalancesOf(Prefix(chain, b))[k] = BalancesOf(chain)[k]
      /\ \A k \in 1..b : Prefix(Prefix(chain, b), k) = Prefix(chain, k)
  BY <1>2, <1>6, PrefixBalances
<1>8. ASSUME NEW k \in Genesis..b
      PROVE  conn.commits[k].up = Prefix(Prefix(chain, b), k)
  <2>0. k \in 1..b /\ k \in Heights
    BY <1>2, <1>6
  <2>1. CASE k = b
    BY <1>5, <1>7, <2>0, <2>1
  <2>2. CASE k # b
    <3>1. k \in Genesis..t /\ k \in 1..t /\ t \in Genesis..t /\ t >= Genesis
      BY <1>2, <1>6, <2>2
    <3>2. t \in Genesis..disk.synced
      BY <1>3, <3>1, CommittedHeights DEF t
    <3>3. EarnedAtCommit(disk, en.rec, t) /\ t <= Len(chain) /\ disk.commits[t].up = Prefix(chain, t)
      BY <1>3, <3>1, <3>2 DEF EarnInv, CommitsEarned, OnChain
    <3>4. disk.commits[k].up = Prefix(Prefix(chain, t), k)
      BY <3>1, <3>3 DEF EarnedAtCommit
    <3>5. Prefix(Prefix(chain, t), k) = Prefix(chain, k)
      BY <1>6, <3>1, <3>3, PrefixBalances
    <3> QED
      BY <1>4, <1>7, <2>0, <2>2, <3>4, <3>5
  <2> QED
    BY <2>1, <2>2
<1>9. \A p \in Passes : RowAt(conn.hist, p, b) = conn.passes[p]
  BY <1>2, ActiveFacts
<1>10. RowsAt(conn.hist, b) = conn.passes
  <2>1. conn.passes = [p \in Passes |-> conn.passes[p]]
    BY <1>2 DEF Stores, RowTables
  <2> QED
    BY <1>9, <2>1 DEF RowsAt
<1>11. EarnedOn(conn.hist, en.rec, chain, b)
  <2>1. disk.hist \in Histories /\ b <= Len(chain) + 1
    BY <1>2, <1>3, <1>6 DEF Stores
  <2>2. \A p \in Passes, k \in Heights : k < b => disk.hist[p][k] = conn.hist[p][k]
    BY <1>4, <1>6
  <2>a. PICK n \in Nat : n = Len(chain)
    BY <1>2
  <2>b. PICK bal \in BalanceTables(n) : bal = Balances
    BY <1>2, <2>a
  <2>c. PICK bal2 : bal2 = Balances
    OBVIOUS
  <2>3. \A k \in Heights : k < b => bal[k] = bal2[k]
    BY <2>b, <2>c
  <2>d. b \in Heights /\ b <= n + 1 /\ Genesis \in Nat
    BY <1>2, <1>6, <2>1, <2>a
  <2>e. EarnedFrom(conn.hist, bal2, Genesis, b) = EarnedFrom(disk.hist, bal, Genesis, b)
    BY <2>1, <2>2, <2>3, <2>d, EarnedLocal
  <2>4. EarnedFrom(conn.hist, Balances, Genesis, b) = EarnedFrom(disk.hist, Balances, Genesis, b)
    BY <2>b, <2>c, <2>e
  <2>5. EarnedFrom(conn.hist, BalancesOf(chain), Genesis, b) = EarnedFrom(disk.hist, Balances, Genesis, b)
    BY <2>4 DEF Balances
  <2>6. AllHeld(conn.passes, en.rec, BalancesOf(chain), b)
    BY <1>5 DEF Balances
  <2> QED
    BY <1>5, <1>10, <2>5, <2>6 DEF EarnedOn
<1>12. EarnedOn(conn.hist, en.rec, Prefix(chain, b), b)
  <2>1. conn.hist \in Histories
    BY <1>2 DEF Stores
  <2>2. \A p \in Passes : Agrees(RowAt(conn.hist, p, b), en.rec, p, b)
    BY <1>2, <1>9 DEF AllAgree
  <2> QED
    BY <1>2, <1>6, <1>7, <1>11, <2>1, <2>2, EarnedOnLocal
<1>13. EarnedAtCommit(conn, en.rec, b)
  BY <1>5, <1>7, <1>8, <1>12 DEF EarnedAtCommit
<1> QED
  BY <1>13 DEF b

LEMMA CommitsEarnedStep ==
    ASSUME IInv, EarnInv, [Next]_vars
    PROVE  CommitsEarned'
<1>0. /\ disk \in Stores /\ conn \in Stores /\ EnergyOK /\ RecordsOK(en.rec)
  BY DEF IInv, TypeOK, EnergyOK
<1>1. /\ Genesis \in Nat /\ Genesis >= 1 /\ MaxHeight \in Nat /\ Heights = 0..MaxHeight
      /\ disk.synced \in Heights
  BY <1>0, TipFacts, HeightFacts
<1>2. RecordsKept
  BY RecordsSteps
<1>3. ASSUME NEW t \in Genesis..disk.synced, NEW new,
             \A p \in Passes, k \in Heights : k <= t => disk.hist[p][k] = new.hist[p][k],
             \A k \in Heights : k <= t => new.commits[k] = disk.commits[k]
      PROVE  EarnedAtCommit(new, en'.rec, t)
  <2>1. t \in Heights /\ t >= Genesis
    BY <1>1
  <2>2. EarnedAtCommit(disk, en.rec, t)
    BY DEF EarnInv, CommitsEarned
  <2>3. \A p \in Passes : Agrees(RowAt(disk.hist, p, t), en.rec, p, t)
    BY <1>0 DEF EnergyOK, DurableAgrees
  <2>4. \A p \in Passes, k \in Heights : k <= t => en.rec[p][k] = en'.rec[p][k]
    BY <1>1, <1>2, <2>1 DEF RecordsKept
  <2> QED
    BY <1>0, <1>3, <2>1, <2>2, <2>3, <2>4, EarnedAtCommitLocal
<1>4. CASE DiskShrinks
  <2> SUFFICES ASSUME NEW t \in Genesis..disk'.synced PROVE EarnedAtCommit(disk', en'.rec, t)
    BY DEF CommitsEarned
  <2>1. t \in Genesis..disk.synced /\ \A k \in Heights : k <= t => k <= disk'.synced
    BY <1>1, <1>4 DEF DiskShrinks
  <2>2. /\ \A p \in Passes, k \in Heights : k <= t => disk.hist[p][k] = disk'.hist[p][k]
        /\ \A k \in Heights : k <= t => disk'.commits[k] = disk.commits[k]
    BY <1>4, <2>1 DEF DiskShrinks
  <2> QED
    BY <1>3, <2>1, <2>2
<1>5. CASE pc = "commit" /\ disk' = conn /\ en' = en
  <2> DEFINE b == loc.blk
  <2>1. /\ b = Tip(disk) + 1 /\ b \in Heights /\ conn.synced = b
        /\ \A p \in Passes, k \in Heights : k # b => conn.hist[p][k] = disk.hist[p][k]
        /\ \A k \in Heights : k # b => conn.commits[k] = disk.commits[k]
    BY <1>5 DEF ControlOK, InBlock, IInv, BlockOK, Locals, TypeOK
  <2>2. EarnedAtCommit(conn, en.rec, b)
    BY <1>5, CommitEarned
  <2> HIDE DEF b
  <2> SUFFICES ASSUME NEW t \in Genesis..b PROVE EarnedAtCommit(conn, en.rec, t)
    BY <1>5, <2>1 DEF CommitsEarned
  <2>3. CASE t = b
    BY <2>2, <2>3
  <2>4. CASE t # b
    <3>1. Tip(disk) \in Nat
      BY <1>0, TipFacts, HeightFacts
    <3>2. t \in Genesis..Tip(disk)
      BY <1>1, <2>1, <2>4, <3>1
    <3>3. t \in Genesis..disk.synced
      BY <1>0, <3>2, CommittedHeights
    <3>4. \A k \in Heights : k <= t => k # b
      BY <1>1, <2>1, <3>1, <3>2
    <3>5. /\ \A p \in Passes, k \in Heights : k <= t => disk.hist[p][k] = conn.hist[p][k]
          /\ \A k \in Heights : k <= t => conn.commits[k] = disk.commits[k]
      BY <2>1, <3>4
    <3>6. EarnedAtCommit(conn, en'.rec, t)
      BY <1>3, <3>3, <3>5
    <3> QED
      BY <1>5, <3>6
  <2> QED
    BY <2>3, <2>4
<1> QED
  BY <1>4, <1>5, DiskGrowsByCommit

LEMMA SteadySteps ==
    ASSUME [Next]_vars, pc' \in Steady
    PROVE  \/ UNCHANGED <<disk, conn, en, pc, loc>>
           \/ ReadStableHeight \/ NothingPending \/ ResumePending \/ ResumeEnergy \/ ReloadTracker
           \/ ClearPending \/ NoDrift \/ AncestorFound \/ RollbackPasses \/ CheckStores \/ PlanSync
           \/ SyncBlock
<1> USE DEF Steady, InBlock
<1>1. CASE Upstream
  BY <1>1 DEF Upstream, ExtendChain, ReplaceChain, PollStatus, dbVars, memVars
<1>2. CASE Recovery
  BY <1>2 DEF Recovery, DriftFound, ProbeLower, ProbeFails, GiveUp
<1>4. CASE SyncOnce
  BY <1>4 DEF SyncOnce, ReadSnapshot, PersistAnchor, Backfill, SyncDone, KeepWaiting, WakeUp, GiveUp, vars
<1>5. CASE Failures
  BY <1>5 DEF Failures, FailEarly, FailStaged, FailFinalized, FailLate, FailOutside, Crash, GiveUp
<1>6. CASE Restart
  BY <1>6 DEF Restart
<1>7. CASE UNCHANGED vars
  BY <1>7 DEF vars
<1> QED
  BY <1>1, <1>2, <1>4, <1>5, <1>6, <1>7 DEF Next, Task

LEMMA SteadyChain ==
    ASSUME UpstreamWindow \cap Steady = {}, [Next]_vars, pc' \in Steady
    PROVE  chain' = chain
<1>1. CASE Upstream
  <2>1. ~ExtendChain /\ ~ReplaceChain
    BY DEF ExtendChain, ReplaceChain
  <2> QED
    BY <1>1, <2>1 DEF Upstream, PollStatus
<1> USE DEF upVars
<1>2. CASE Recovery
  BY <1>2 DEF Recovery, NothingPending, ResumePending, ResumeEnergy, ReloadTracker, ClearPending,
              NoDrift, DriftFound, AncestorFound, ProbeLower, ProbeFails, RollbackPasses
<1>3. CASE SyncBlock
  BY <1>3 DEF SyncBlock, BeginBlock, CollectBlock, ExecuteEvent, RecordInvalidMints, SettleBalances,
              FinalizeEnergy, PersistCommit, PublishTracker, PutSyncedHeight, CommitSavepoint
<1>4. CASE SyncOnce
  BY <1>4 DEF SyncOnce, ReadSnapshot, ReadStableHeight, CheckStores, PlanSync, PersistAnchor, Backfill,
              SyncDone, KeepWaiting, WakeUp, vars
<1>5. CASE Failures
  BY <1>5 DEF Failures, FailEarly, FailStaged, FailFinalized, FailLate, FailOutside, Crash
<1>6. CASE Restart
  BY <1>6 DEF Restart
<1>7. CASE UNCHANGED vars
  BY <1>7 DEF vars
<1> QED
  BY <1>1, <1>2, <1>3, <1>4, <1>5, <1>6, <1>7 DEF Next, Task

\* The upstream stands still while a pass relies on the comparison it made.
LEMMA OnTheChainStep ==
    ASSUME UpstreamWindow \cap Steady = {}, IInv, EarnInv, [Next]_vars
    PROVE  OnTheChain'
<1>0. /\ disk \in Stores /\ conn \in Stores /\ loc \in Locals /\ ControlOK /\ OnTheChain /\ DurableOK(disk)
      /\ loc.after \in {"detect", "check"} /\ loc.target \in Heights /\ CommitsEarned /\ pc \in PCs
  BY DEF IInv, TypeOK, Locals, EarnInv
<1>1. CASE pc' \notin Steady
  BY <1>1 DEF OnTheChain, Steady
<1> SUFFICES ASSUME pc' \in Steady PROVE OnTheChain'
  BY <1>1
<1>2. chain' = chain
  BY SteadyChain
<1>3. CASE UNCHANGED <<disk, conn, en, pc, loc>>
  BY <1>0, <1>2, <1>3 DEF OnTheChain
\* Where the new state is one of the two kinds, with the store of the tip on the chain.
<1>4. ASSUME OnChain(disk', chain, Tip(disk')), pc' # "rollback" PROVE OnTheChain'
  BY <1>2, <1>4 DEF OnTheChain
<1>5. CASE ReadStableHeight
  <2>1. pc' = "resume" /\ loc' = [loc EXCEPT !.latest = Len(status), !.after = "detect"]
    BY <1>5 DEF ReadStableHeight
  <2>2. loc'.after = "detect"
    BY <1>0, <2>1 DEF Locals
  <2> QED
    BY <2>1, <2>2 DEF OnTheChain, InBlock
<1>6. CASE NothingPending
  <2>1. pc = "resume" /\ pc' = AfterResume /\ disk' = disk
    BY <1>6 DEF NothingPending, dbVars
  <2>2. loc.after = "check"
    BY <1>0, <2>1 DEF AfterResume, Steady, InBlock
  <2>3. pc' = "check" /\ OnChain(disk, chain, Tip(disk))
    BY <1>0, <2>1, <2>2 DEF AfterResume, OnTheChain
  <2> QED
    BY <1>4, <2>1, <2>3
<1>7. CASE ResumePending \/ ResumeEnergy \/ ReloadTracker
  <2>1. pc \in {"resume", "resume_energy", "reload"} /\ pc' \in {"resume_energy", "reload", "clear"} /\ loc' = loc /\ disk' = disk
    BY <1>7 DEF ResumePending, ResumeEnergy, ReloadTracker, GiveUp, Steady, InBlock, dbVars
  <2> QED
    BY <1>0, <1>2, <2>1 DEF OnTheChain, InBlock
<1>8. CASE ClearPending
  <2>0. pc = "clear" /\ conn = disk
    BY <1>0, <1>8 DEF ClearPending, ControlOK, InBlock
  <2>1. pc' = AfterResume /\ disk' = clear_recovery_pending(disk)
    BY <1>8, <2>0 DEF ClearPending, GiveUp, WriteBoth, Steady, InBlock
  <2>2. loc.after = "check"
    BY <1>0, <2>1 DEF AfterResume, Steady, InBlock
  <2>3. pc' = "check" /\ OnChain(disk, chain, Tip(disk))
    BY <1>0, <2>0, <2>1, <2>2 DEF AfterResume, OnTheChain
  <2>4. disk'.commits = disk.commits /\ disk'.synced = disk.synced
    BY <1>0, <2>1, MarkerWrite
  <2>5. OnChain(disk', chain, Tip(disk'))
    BY <2>3, <2>4 DEF OnChain, Tip
  <2> QED
    BY <1>4, <2>3, <2>5
<1>9. CASE NoDrift
  <2>1. pc = "detect" /\ pc' = "check" /\ disk' = disk /\ ~Drifted(loc.cur, loc.latest, loc.snap)
    BY <1>9 DEF NoDrift, dbVars
  <2>2. loc.cur = Tip(disk) /\ conn = disk
    BY <1>0, <2>1 DEF ControlOK, InBlock
  <2>3. ASSUME Tip(disk) >= Genesis PROVE Tip(disk) <= Len(chain) /\ disk.commits[Tip(disk)].up = Prefix(chain, Tip(disk))
    <3> DEFINE t == Tip(disk)
    <3>1. t \in Genesis..Tip(disk) /\ t \in Nat /\ t >= 1
      BY <1>0, <2>3, TipFacts, HeightFacts
    <3>2. t \in Genesis..disk.synced
      BY <1>0, <3>1, CommittedHeights
    <3>3. Len(disk.commits[t].up) = t
      BY <1>0, <3>2 DEF CommitsEarned, EarnedAtCommit
    <3>4. disk.commits[t] # NoCommit
      BY <3>1, <3>3 DEF NoCommit
    <3>5. CommitMatches(t)
      BY <2>1, <2>2, <2>3, <3>4 DEF Drifted
    <3> QED
      BY <2>2, <3>5 DEF CommitMatches, HasBlock
  <2>4. OnChain(disk, chain, Tip(disk))
    BY <2>3 DEF OnChain
  <2> QED
    BY <1>4, <2>1, <2>4
<1>10. CASE AncestorFound
  <2> DEFINE floor == loc.target < Genesis \/ conn.commits[loc.target] = NoCommit
  <2>1. /\ pc = "ancestor" /\ pc' = "rollback" /\ disk' = disk /\ conn = disk
        /\ floor \/ AncestorMatches(loc.target)
        /\ loc' = [loc EXCEPT !.target = IF floor THEN Floor ELSE loc.target]
    BY <1>0, <1>10 DEF AncestorFound, dbVars, ControlOK, InBlock
  <2>2. loc'.target = IF floor THEN Floor ELSE loc.target
    BY <1>0, <2>1 DEF Locals
  <2>3. ~(Floor >= Genesis)
    BY HeightFacts
  <2>4. OnChain(disk, chain, loc'.target)
    <3>1. CASE floor
      BY <2>2, <2>3, <3>1 DEF OnChain
    <3>2. CASE ~floor
      BY <2>1, <2>2, <3>2 DEF OnChain, AncestorMatches, CommitMatches, HasBlock
    <3> QED
      BY <3>1, <3>2
  <2> QED
    BY <1>2, <2>1, <2>4 DEF OnTheChain, InBlock
<1>11. CASE RollbackPasses
  <2> DEFINE t == loc.target
  <2>1. pc = "rollback" /\ pc' = "resume" /\ conn = disk /\ disk' = rollback_to_block_height(conn, t)
    BY <1>0, <1>11 DEF RollbackPasses, WriteBoth, ControlOK, InBlock
  <2>2. RowsAreTheHistory(disk) /\ MintsAreOnce(disk)
    BY <1>0 DEF DurableOK, TablesOK
  <2>3. RolledBack(disk', disk, t)
    BY <1>0, <2>1, <2>2, RollbackFields
  <2>4. t >= Floor /\ t <= Tip(disk) /\ ~(t > t)
    BY <1>0, <2>1, HeightFacts, TipFacts DEF ControlOK
  <2>5. Tip(disk') = t
    BY <1>0, <2>3, <2>4, RollbackDurable
  <2>6. OnChain(disk, chain, t)
    BY <1>0, <2>1 DEF OnTheChain
  <2>7. disk'.commits[t] = disk.commits[t]
    BY <1>0, <2>3, <2>4 DEF RolledBack, DropAbove
  <2> HIDE DEF t
  <2>8. OnChain(disk', chain, Tip(disk'))
    BY <2>5, <2>6, <2>7 DEF OnChain
  <2> QED
    BY <1>4, <2>1, <2>8
<1>12. CASE CheckStores \/ PlanSync \/ (SyncBlock /\ ~CommitSavepoint)
  <2>1. /\ pc \in {"check", "plan", "begin"} \cup InBlock /\ disk' = disk
        /\ pc' # "rollback"
    BY <1>12 DEF CheckStores, PlanSync, SyncBlock, BeginBlock, CollectBlock, ExecuteEvent, RecordInvalidMints,
       SettleBalances, FinalizeEnergy, PersistCommit, PublishTracker, PutSyncedHeight, GiveUp, InBlock, dbVars
  <2>2. OnChain(disk, chain, Tip(disk))
    BY <1>0, <2>1 DEF OnTheChain
  <2> QED
    BY <1>4, <2>1, <2>2
<1>13. CASE CommitSavepoint
  <2>1. pc = "commit" /\ disk' = conn /\ pc' # "rollback"
    BY <1>13 DEF CommitSavepoint
  <2>2. Tip(conn) = loc.blk
    BY <2>1, CommitDurable
  <2>3. loc.blk <= Len(chain) /\ conn.commits[loc.blk].up = Prefix(chain, loc.blk)
    BY <2>1 DEF EarnInv, EarnedInBlock, Written
  <2>4. OnChain(disk', chain, Tip(disk'))
    BY <2>1, <2>2, <2>3 DEF OnChain
  <2> QED
    BY <1>4, <2>1, <2>4
<1> QED
  BY <1>3, <1>5, <1>6, <1>7, <1>8, <1>9, <1>10, <1>11, <1>12, <1>13, SteadySteps

LEMMA HeldNat ==
    ASSUME NEW db, NEW rec, NEW b \in Heights, RecordsOK(rec), AllAgree(db, rec, b)
    PROVE  Held(db.passes, rec, b) \in Nat
<1>1. \A p \in Passes : Shares(db.passes, rec, b)[p] \in Nat
  BY SharesNat
<1> QED
  BY <1>1, PassEnergyAssumption, SumNonNegative DEF Held

\* What the open block may hold.
EarnedSoFar == EarnedFrom(disk.hist, Balances, Genesis, loc.blk)

LEMMA EarnedSoFarNat ==
    ASSUME IInv, loc.blk <= Len(chain)
    PROVE  EarnedSoFar \in Nat
<1>1. /\ disk.hist \in Histories /\ loc.blk \in Heights /\ chain \in Chains
  BY DEF IInv, TypeOK, Locals, Stores
<1>2. Len(chain) \in Nat /\ Balances \in BalanceTables(Len(chain)) /\ Genesis \in Nat
  BY <1>1, ChainFacts, HeightFacts DEF Balances
<1>3. loc.blk <= Len(chain) + 1
  BY <1>1, <1>2, HeightFacts
<1> QED
  BY <1>1, <1>2, <1>3, EarnedType DEF EarnedSoFar

\* The first block above genesis starts from nothing.
LEMMA CollectEarnsFirst ==
    ASSUME IInv, EarnInv, pc = "collect", Tip(disk) < Genesis, loc.blk <= Len(chain)
    PROVE  /\ Held(conn.passes, en.rec, loc.blk) <= EarnedSoFar
           /\ AllHeldSoFar(conn.passes, en.rec, Balances, loc.blk)
<1> DEFINE t == Tip(disk)
<1>0. /\ disk \in Stores /\ DurableOK(disk) /\ conn = disk /\ loc.blk \in Heights
  BY DEF IInv, TypeOK, Locals, InBlock, BlockOK
<1>1. /\ t \in Heights /\ t \in Nat /\ t >= t /\ Genesis \in Nat
      /\ MaxHeight \in Nat /\ Heights = 0..MaxHeight
  BY <1>0, TipFacts, HeightFacts
<1>2. \A p \in Passes : RowAt(disk.hist, p, t) = disk.passes[p]
  BY <1>0, <1>1, CurrentRow DEF DurableOK, TablesOK
<1> HIDE DEF t
<1>3. ASSUME NEW p \in Passes PROVE disk.passes[p] = NoRow
  <2>1. \A k \in Heights : k <= t => k < Genesis
    BY <1>1 DEF t
  <2>2. \A k \in Heights : k <= t => disk.hist[p][k] = NoRow
    BY <1>0, <2>1 DEF DurableOK
  <2>3. HistHeights(disk.hist, p, t) = {}
    BY <2>2 DEF HistHeights
  <2> QED
    BY <1>2, <2>3 DEF RowAt
<1>4. \A p \in Passes : Shares(disk.passes, en.rec, loc.blk)[p] = 0
  BY <1>3 DEF Shares, Live, NoRow
<1>5. Held(disk.passes, en.rec, loc.blk) = 0
  BY <1>4, PassEnergyAssumption, SumOfZeros DEF Held
<1>6. AllHeldSoFar(disk.passes, en.rec, Balances, loc.blk)
  BY <1>3 DEF AllHeldSoFar, NoRow
<1>7. EarnedSoFar \in Nat
  BY EarnedSoFarNat
<1> QED
  BY <1>0, <1>5, <1>6, <1>7

\* A later block starts from the last committed one, whose records are on the chain.
LEMMA CollectEarnsNext ==
    ASSUME IInv, EarnInv, pc = "collect", Tip(disk) >= Genesis, loc.blk <= Len(chain)
    PROVE  /\ Held(conn.passes, en.rec, loc.blk) <= EarnedSoFar
           /\ AllHeldSoFar(conn.passes, en.rec, Balances, loc.blk)
<1> DEFINE t == Tip(disk)
           b == loc.blk
<1>0. /\ disk \in Stores /\ DurableOK(disk) /\ conn = disk /\ b \in Heights /\ chain \in Chains
      /\ RecordsOK(en.rec) /\ EnergyOK /\ b = t + 1 /\ OnChain(disk, chain, t) /\ NoRecordsAfter(en.rec, t)
  BY DEF IInv, TypeOK, Locals, InBlock, BlockOK, EnergyOK, ControlOK, EarnInv, OnTheChain
<1>1. /\ t \in Heights /\ t \in Nat /\ t >= t /\ Genesis \in Nat /\ Genesis >= 1 /\ t \in Genesis..t
      /\ MaxHeight \in Nat /\ Heights = 0..MaxHeight /\ Len(chain) \in Nat /\ chain \in Seq(Blocks)
      /\ t <= Len(chain) /\ BalancesOf(chain) \in BalanceTables(Len(chain)) /\ t + 1 \in Heights /\ t + 1 > t
      /\ t <= Len(chain) + 1
  BY <1>0, TipFacts, HeightFacts, ChainFacts
<1>2. \A p \in Passes : RowAt(disk.hist, p, t) = disk.passes[p]
  BY <1>0, <1>1, CurrentRow DEF DurableOK, TablesOK
<1>3. t \in Genesis..disk.synced
  BY <1>0, <1>1, CommittedHeights
<1>4. EarnedAtCommit(disk, en.rec, t) /\ disk.commits[t].up = Prefix(chain, t)
  BY <1>0, <1>1, <1>3 DEF EarnInv, CommitsEarned, OnChain
<1>5. \A p \in Passes : Agrees(RowAt(disk.hist, p, t), en.rec, p, t)
  BY <1>0, <1>3 DEF EnergyOK, DurableAgrees
<1>6. disk.hist \in Histories /\ disk.passes = [p \in Passes |-> disk.passes[p]]
  BY <1>0 DEF Stores, RowTables
<1> HIDE DEF t, b
<1>7. EarnedOn(disk.hist, en.rec, chain, t)
  <2>1. PICK c \in Seq(Blocks) : c = Prefix(chain, t)
    BY <1>1, PrefixBalances
  <2>2. t <= Len(c) /\ \A k \in 0..t : BalancesOf(chain)[k] = BalancesOf(c)[k]
    BY <1>1, <2>1, PrefixBalances
  <2>3. EarnedOn(disk.hist, en.rec, c, t)
    BY <1>4, <2>1 DEF EarnedAtCommit
  <2> QED
    BY <1>0, <1>1, <1>5, <1>6, <2>2, <2>3, EarnedOnLocal
<1>8. RowsAt(disk.hist, t) = disk.passes
  BY <1>2, <1>6 DEF RowsAt
<1>9. PICK n \in Nat : n = Len(chain)
  BY <1>1
<1>10. PICK bal \in BalanceTables(n) : bal = Balances
  BY <1>1, <1>9 DEF Balances
<1>11. /\ AllHeld(disk.passes, en.rec, bal, t)
       /\ Held(disk.passes, en.rec, t) <= EarnedFrom(disk.hist, bal, Genesis, t)
  BY <1>7, <1>8, <1>10 DEF EarnedOn, Balances
<1>12. AllAgree(disk, en.rec, t)
  BY <1>2, <1>5 DEF AllAgree
<1>13. \A p \in Passes : en.rec[p][t + 1] = NoRecord
  BY <1>0, <1>1 DEF NoRecordsAfter
<1>14. \A p \in Passes : disk.passes[p] = RowAt(disk.hist, p, t)
  BY <1>2
<1>15. t <= n /\ t <= n + 1 /\ Genesis <= t
  BY <1>1, <1>9
<1>16. /\ Held(disk.passes, en.rec, t + 1) <= Held(disk.passes, en.rec, t) + EarnedAt(disk.hist, bal, t)
       /\ AllHeldSoFar(disk.passes, en.rec, bal, t + 1)
       /\ AllAgree(disk, en.rec, t + 1)
  BY <1>0, <1>1, <1>6, <1>11, <1>12, <1>13, <1>14, <1>15, HeldGrows
<1>17. EarnedFrom(disk.hist, bal, Genesis, t + 1) = EarnedFrom(disk.hist, bal, Genesis, t) + EarnedAt(disk.hist, bal, t)
  BY <1>1, <1>6, <1>15, EarnedStep
<1>18. Held(disk.passes, en.rec, t) \in Nat /\ Held(disk.passes, en.rec, t + 1) \in Nat
  BY <1>0, <1>1, <1>12, <1>16, HeldNat
<1>19. EarnedFrom(disk.hist, bal, Genesis, t) \in Nat
  BY <1>1, <1>6, <1>15, EarnedType
<1>20. EarnedAt(disk.hist, bal, t) \in Nat
  BY <1>1, <1>6, <1>15, EarnsNat
<1>21. Held(disk.passes, en.rec, t + 1) <= EarnedFrom(disk.hist, bal, Genesis, t + 1)
  BY <1>11, <1>16, <1>17, <1>18, <1>19, <1>20
<1> QED
  BY <1>0, <1>10, <1>16, <1>21 DEF EarnedSoFar, b

LEMMA EarnedInBlockStep ==
    ASSUME UpstreamWindow \cap Steady = {}, IInv, EarnInv, [Next]_vars, pc' \in Written
    PROVE  EarnedInBlock'
<1>0. /\ conn \in Stores /\ disk \in Stores /\ en \in EnergyStores /\ loc \in Locals /\ loc.blk \in Heights
      /\ chain \in Chains
  BY DEF IInv, TypeOK, Locals
<1>a. chain' = chain
  <2>1. pc' \in Steady
    BY DEF Written, InBlock, Steady
  <2> QED
    BY <2>1, SteadyChain
<1>b. pc \in Written => EarnedInBlock /\ loc.blk <= Len(chain)
  BY DEF EarnInv, EarnedInBlock
<1>c. Balances' = Balances
  BY <1>a DEF Balances
\* A step that keeps rows, records and the place in the block.
<1>d. ASSUME conn'.passes = conn.passes, en'.rec = en.rec, disk' = disk, loc'.blk = loc.blk,
             pc \in Written, pc' \in {"exec", "settle"} <=> pc \in {"exec", "settle"},
             pc' \in {"publish", "synced", "commit"} => conn'.commits[loc.blk].up = Prefix(chain, loc.blk)
      PROVE  EarnedInBlock'
  BY <1>a, <1>b, <1>c, <1>d DEF EarnedInBlock
<1>1. CASE UNCHANGED <<disk, conn, en, staged, pc, loc>>
  <2>1. pc \in Written
    BY <1>1
  <2> QED
    BY <1>1, <1>b, <1>d, <2>1 DEF EarnedInBlock
<1>2. CASE CollectBlock
  <2>1. /\ pc = "collect" /\ pc' = "exec" /\ conn' = conn /\ disk' = disk /\ en' = en /\ loc'.blk = loc.blk
        /\ loc.blk <= Len(chain)
    BY <1>2, CollectTypes DEF CollectBlock, CanCollect, HasBlock, dbVars
  <2>2. Tip(disk) < Genesis \/ Tip(disk) >= Genesis
    BY <1>0, TipFacts, HeightFacts
  <2>3. /\ Held(conn.passes, en.rec, loc.blk) <= EarnedSoFar
        /\ AllHeldSoFar(conn.passes, en.rec, Balances, loc.blk)
    BY <2>1, <2>2, CollectEarnsFirst, CollectEarnsNext
  <2> QED
    BY <1>a, <1>c, <2>1, <2>3 DEF EarnedInBlock, EarnedSoFar
<1>3. CASE ExecuteEvent
  <2>1. pc = "exec" /\ pc' = "exec" /\ loc'.blk = loc.blk /\ disk' = disk
    BY <1>0, <1>3 DEF ExecuteEvent, Locals
  <2>2. pc \in Written
    BY <2>1 DEF Written
  <2>3. /\ EarnedInBlock /\ loc.blk <= Len(chain)
        /\ RecordsOK(en.rec) /\ AllAgree(conn, en.rec, loc.blk)
    BY <2>2, InBlockFacts
  <2>4. RecordsOK(en'.rec) /\ AllAgree(conn', en'.rec, loc.blk)
    BY <1>3, ExecuteWrites DEF EnergyStep
  <2>5. CreatesNone(conn'.passes, en'.rec, conn.passes, en.rec, Balances, loc.blk)
    BY <1>3, ExecuteEarns
  <2>6. Held(conn'.passes, en'.rec, loc.blk) \in Nat /\ Held(conn.passes, en.rec, loc.blk) \in Nat
    BY <1>0, <2>3, <2>4, HeldNat
  <2>7. EarnedSoFar \in Nat /\ Held(conn.passes, en.rec, loc.blk) <= EarnedSoFar
    BY <2>3, EarnedSoFarNat DEF EarnedInBlock, EarnedSoFar
  <2>8. Held(conn'.passes, en'.rec, loc.blk) <= EarnedSoFar
    BY <2>5, <2>6, <2>7 DEF CreatesNone
  <2>9. AllHeldSoFar(conn'.passes, en'.rec, Balances, loc.blk)
    BY <2>5 DEF CreatesNone
  <2> QED
    BY <1>a, <1>c, <2>1, <2>3, <2>8, <2>9 DEF EarnedInBlock, EarnedSoFar
<1>4. CASE RecordInvalidMints
  <2>1. pc = "exec" /\ pc' = "settle" /\ en' = en /\ loc' = loc /\ disk' = disk
    BY <1>4 DEF RecordInvalidMints
  <2>2. EarnedInBlock /\ loc.blk <= Len(chain)
    BY <1>b, <2>1 DEF Written
  <2>3. /\ AllHeldSoFar(conn'.passes, en.rec, Balances, loc.blk)
        /\ Held(conn'.passes, en.rec, loc.blk) = Held(conn.passes, en.rec, loc.blk)
    BY <1>4, InvalidEarns
  <2> QED
    BY <1>a, <1>c, <2>1, <2>2, <2>3 DEF EarnedInBlock
<1>5. CASE SettleBalances
  <2>1. pc = "settle" /\ pc' = "finalize" /\ loc' = loc /\ disk' = disk
    BY <1>5 DEF SettleBalances
  <2>2. pc \in Written
    BY <2>1 DEF Written
  <2>3. /\ EarnedInBlock /\ loc.blk <= Len(chain)
        /\ RecordsOK(en.rec) /\ AllAgree(conn, en.rec, loc.blk)
    BY <2>2, InBlockFacts
  <2>4. /\ RecordsOK(en'.rec) /\ AllAgree(conn, en'.rec, loc.blk)
        /\ \E x \in Snapshots : conn' = upsert_active_balance_snapshot(conn, loc.blk, x)
    BY <1>5, SettleWrites DEF EnergyStep
  <2>5. conn'.passes = conn.passes
    BY <1>0, <2>4, SnapshotWrite
  <2>6. /\ AllHeld(conn.passes, en'.rec, Balances, loc.blk)
        /\ Held(conn.passes, en'.rec, loc.blk) <= Held(conn.passes, en.rec, loc.blk)
    BY <1>5, SettleEarns
  <2>7. Held(conn.passes, en'.rec, loc.blk) \in Nat /\ Held(conn.passes, en.rec, loc.blk) \in Nat
    BY <1>0, <2>3, <2>4, HeldNat
  <2>8. EarnedSoFar \in Nat /\ Held(conn.passes, en.rec, loc.blk) <= EarnedSoFar
    BY <2>3, EarnedSoFarNat DEF EarnedInBlock, EarnedSoFar
  <2>9. Held(conn.passes, en'.rec, loc.blk) <= EarnedSoFar
    BY <2>6, <2>7, <2>8
  <2> QED
    BY <1>a, <1>c, <2>1, <2>3, <2>5, <2>6, <2>9 DEF EarnedInBlock, EarnedSoFar
<1>6. CASE FinalizeEnergy
  <2>1. /\ pc = "finalize" /\ pc' = "persist" /\ loc' = loc /\ conn' = conn /\ disk' = disk
        /\ en' = [en EXCEPT !.synced = loc.blk, !.pending = NoHeight]
    BY <1>6 DEF FinalizeEnergy, finalize_block_sync, dbVars
  <2>2. en'.rec = en.rec
    BY <1>0, <2>1 DEF EnergyStores
  <2> QED
    BY <1>d, <2>1, <2>2 DEF Written
<1>7. CASE PersistCommit
  <2> DEFINE x == [up |-> Prefix(chain, loc.blk), muts |-> loc.done, invalid |-> loc.bad]
  <2>1. /\ pc = "persist" /\ pc' = "publish" /\ en' = en /\ loc' = loc /\ disk' = disk
        /\ conn' = upsert_pass_block_commit(conn, loc.blk, x)
    BY <1>7 DEF PersistCommit
  <2>2. x.up = Prefix(chain, loc.blk)
    OBVIOUS
  <2> HIDE DEF x
  <2>3. conn'.passes = conn.passes /\ conn'.commits[loc.blk] = x
    BY <1>0, <2>1 DEF upsert_pass_block_commit, Stores
  <2> QED
    BY <1>d, <2>1, <2>2, <2>3 DEF Written
<1>8. CASE PublishTracker
  <2>1. pc = "publish" /\ pc' = "synced" /\ en' = en /\ loc' = loc /\ conn' = conn /\ disk' = disk
    BY <1>8 DEF PublishTracker, dbVars
  <2>2. conn.commits[loc.blk].up = Prefix(chain, loc.blk)
    BY <1>b, <2>1 DEF Written, EarnedInBlock
  <2> QED
    BY <1>d, <2>1, <2>2 DEF Written
<1>9. CASE PutSyncedHeight
  <2>1. pc = "synced" /\ pc' = "commit" /\ en' = en /\ loc' = loc /\ disk' = disk /\ conn' = update_synced_height(conn, loc.blk)
    BY <1>9 DEF PutSyncedHeight
  <2>2. conn'.passes = conn.passes /\ conn'.commits = conn.commits
    BY <1>0, <2>1, SyncedWrite
  <2>3. conn.commits[loc.blk].up = Prefix(chain, loc.blk)
    BY <1>b, <2>1 DEF Written, EarnedInBlock
  <2> QED
    BY <1>d, <2>1, <2>2, <2>3 DEF Written
<1>10. ~BeginBlock
  BY DEF BeginBlock, GiveUp, Written
<1> QED
  BY <1>1, <1>2, <1>3, <1>4, <1>5, <1>6, <1>7, <1>8, <1>9, <1>10, BlockSteps DEF Written, InBlock

LEMMA EarnInit == Init => EarnInv
<1> SUFFICES ASSUME Init PROVE EarnInv
  OBVIOUS
<1>1. pc = "sync_once" /\ disk.synced = 0
  BY DEF Init, EmptyStore
<1>2. Genesis..disk.synced = {}
  BY <1>1, HeightFacts
<1> QED
  BY <1>1, <1>2 DEF EarnInv, CommitsEarned, OnTheChain, Written, InBlock

LEMMA EarnStep ==
    ASSUME UpstreamWindow \cap Steady = {}, IInv, EarnInv, [Next]_vars
    PROVE  EarnInv'
<1>1. CommitsEarned'
  BY CommitsEarnedStep
<1>2. OnTheChain'
  BY OnTheChainStep
<1>3. (pc \in Written => EarnedInBlock)'
  BY EarnedInBlockStep DEF Written
<1> QED
  BY <1>1, <1>2, <1>3 DEF EarnInv

\* What a height's owners earn, counted by owner, is what its active passes earn.
LEMMA OwnersEarn ==
    ASSUME IInv, conn = disk, NEW n \in Nat, NEW bal \in BalanceTables(n), NEW k \in Heights, k <= n
    PROVE  SumFunction([o \in MiningOwners(k) |-> calc_growth_delta(bal[k][o], 1)]) = EarnedAt(disk.hist, bal, k)
<1> DEFINE A == ActiveAt(k)
           f == Earns(disk.hist, bal, k)
           m == [p \in A |-> OwnerAt(p, k)]
           g == [o \in MiningOwners(k) |-> calc_growth_delta(bal[k][o], 1)]
<1>1. disk.hist \in Histories
  BY DEF IInv, TypeOK, Stores
<1>2. \A p \in Passes : f[p] \in Nat
  BY <1>1, EarnsNat
<1>3. A \in SUBSET Passes /\ IsFiniteSet(Passes) /\ IsFiniteSet(A)
  BY PassEnergyAssumption, FS_Subset DEF ActiveAt
<1>4. \A p \in Passes : p \notin A => f[p] = 0
  BY DEF ActiveAt, Earns
<1>5. \A p \in A : m[p] \in MiningOwners(k) /\ f[p] = g[m[p]]
  BY DEF ActiveAt, Earns, OwnerAt, MiningOwners
<1>6. \A p, q \in A : m[p] = m[q] => p = q
  <2>1. ~DuplicateOwner(k)
    BY NoDuplicates DEF OneActivePerOwner
  <2> QED
    BY <2>1 DEF DuplicateOwner
<1>7. {m[p] : p \in A} = MiningOwners(k)
  BY DEF MiningOwners
<1>8. DOMAIN g = MiningOwners(k)
  OBVIOUS
<1> HIDE DEF A, f, m, g
<1>9. SumFunctionOnSet(f, Passes) = SumFunctionOnSet(f, A)
  <2>1. \A p \in Passes : f[p] \in Int
    BY <1>2
  <2> QED
    BY <1>3, <1>4, <2>1, SumDropZeros
<1>10. SumFunctionOnSet(f, A) = SumFunctionOnSet(g, {m[p] : p \in A})
  <2>1. \A p \in A : f[p] \in Int /\ f[p] = g[m[p]]
    BY <1>2, <1>3, <1>5
  <2> QED
    BY <1>3, <1>6, <2>1, SumRenamed
<1>11. SumFunction(g) = SumFunctionOnSet(g, DOMAIN g)
  BY DEF SumFunction, SumFunctionOnSet
<1>12. SumFunction(g) = SumFunctionOnSet(f, Passes)
  BY <1>7, <1>8, <1>9, <1>10, <1>11
<1> QED
  BY <1>12 DEF EarnedAt, f, g

LEMMA EarnedUpToIs ==
    ASSUME IInv, conn = disk, NEW c \in Seq(Blocks), NEW t \in Heights, t <= Len(c)
    PROVE  EarnedUpTo(c, t) = EarnedFrom(disk.hist, BalancesOf(c), Genesis, t)
<1> DEFINE bal == BalancesOf(c)
           S == Genesis..(t - 1)
           f == [k \in S |-> SumFunction([o \in MiningOwners(k) |-> calc_growth_delta(bal[k][o], 1)])]
           e == EarnedEach(disk.hist, bal)
<1>1. /\ Len(c) \in Nat /\ bal \in BalanceTables(Len(c)) /\ t \in Nat /\ Genesis \in Nat
      /\ MaxHeight \in Nat /\ Heights = 0..MaxHeight /\ disk.hist \in Histories
  BY BalancesType, HeightFacts DEF IInv, TypeOK, Stores
<1>2. PICK n \in Nat : n = Len(c)
  BY <1>1
<1>3. \A k \in S : k \in Heights /\ k <= n
  BY <1>1, <1>2
<1> HIDE DEF bal
<1>4. ASSUME NEW k \in S PROVE f[k] \in Int /\ f[k] = e[k]
  <2>1. f[k] = EarnedAt(disk.hist, bal, k)
    BY <1>1, <1>2, <1>3, OwnersEarn
  <2>2. EarnedAt(disk.hist, bal, k) \in Nat
    BY <1>1, <1>2, <1>3, EarnsNat
  <2>3. e[k] = EarnedAt(disk.hist, bal, k)
    BY <1>3 DEF EarnedEach
  <2> QED
    BY <2>1, <2>2, <2>3
<1>5. IsFiniteSet(S)
  BY <1>1, IntervalFinite
<1>6. DOMAIN f = S
  OBVIOUS
<1>7. EarnedUpTo(c, t) = SumFunction(f)
  BY DEF EarnedUpTo, bal
<1> HIDE DEF S, f, e
<1>8. SumFunctionOnSet(f, S) = SumFunctionOnSet(e, S)
  BY <1>4, <1>5, SumSame
<1>9. SumFunction(f) = SumFunctionOnSet(f, DOMAIN f)
  BY DEF SumFunction, SumFunctionOnSet
<1> QED
  BY <1>6, <1>7, <1>8, <1>9 DEF EarnedFrom, bal, S, e

LEMMA LiveHold ==
    ASSUME IInv, conn = disk, NEW t \in Heights, AllAgree(disk, en.rec, t)
    PROVE  SumFunction([p \in LivePasses |-> get_pass_energy(en.rec, p, t)]) = Held(disk.passes, en.rec, t)
<1> DEFINE f == [p \in LivePasses |-> get_pass_energy(en.rec, p, t)]
           s == Shares(disk.passes, en.rec, t)
           L == LivePasses
<1>1. \A p \in Passes : s[p] \in Nat
  BY SharesNat DEF IInv, EnergyOK
<1>2. L \in SUBSET Passes /\ IsFiniteSet(Passes) /\ IsFiniteSet(L)
  BY PassEnergyAssumption, FS_Subset DEF LivePasses
<1>3. \A p \in Passes : p \notin L => s[p] = 0
  BY DEF LivePasses, Shares, Live
<1>4. \A p \in L : f[p] = s[p]
  BY DEF LivePasses, Shares, Live
<1>5. DOMAIN f = L
  OBVIOUS
<1> HIDE DEF f, s, L
<1>6. SumFunctionOnSet(s, Passes) = SumFunctionOnSet(s, L)
  <2>1. \A p \in Passes : s[p] \in Int
    BY <1>1
  <2> QED
    BY <1>2, <1>3, <2>1, SumDropZeros
<1>7. SumFunctionOnSet(f, L) = SumFunctionOnSet(s, L)
  <2>1. \A p \in L : f[p] \in Int /\ f[p] = s[p]
    BY <1>1, <1>2, <1>4
  <2> QED
    BY <1>2, <2>1, SumSame
<1>8. SumFunction(f) = SumFunctionOnSet(f, DOMAIN f)
  BY DEF SumFunction, SumFunctionOnSet
<1>9. SumFunction(f) = SumFunctionOnSet(s, Passes)
  BY <1>5, <1>6, <1>7, <1>8
<1> QED
  BY <1>9 DEF f, s, L, Held

LEMMA EarnedOnceHolds ==
    ASSUME IInv, EarnInv
    PROVE  EnergyIsEarnedOnce
<1> SUFFICES ASSUME Settled, conn.synced >= Genesis
             PROVE  SumFunction([p \in LivePasses |-> get_pass_energy(en.rec, p, conn.synced)])
                       <= EarnedUpTo(conn.commits[conn.synced].up, conn.synced)
  BY DEF EnergyIsEarnedOnce
<1>1. conn = disk /\ disk \in Stores /\ EnergyOK /\ DurableOK(disk)
  BY DEF Settled, IInv, TypeOK, ControlOK
<1> DEFINE t == disk.synced
           c == disk.commits[t].up
<1>2. /\ t \in Heights /\ t \in Nat /\ t >= t /\ Genesis \in Nat /\ t \in Genesis..disk.synced /\ Tip(disk) = t
      /\ MaxHeight \in Nat /\ Heights = 0..MaxHeight
  BY <1>1, TipFacts, HeightFacts
<1>3. EarnedAtCommit(disk, en.rec, t)
  BY <1>2 DEF EarnInv, CommitsEarned
<1>4. c \in Seq(Blocks) /\ t <= Len(c) /\ EarnedOn(disk.hist, en.rec, c, t)
  BY <1>1, <1>2, <1>3 DEF EarnedAtCommit, Stores, Commits
<1>5. \A p \in Passes : RowAt(disk.hist, p, t) = disk.passes[p]
  BY <1>1, <1>2, CurrentRow DEF DurableOK, TablesOK
<1>6. RowsAt(disk.hist, t) = disk.passes
  <2>1. disk.passes = [p \in Passes |-> disk.passes[p]]
    BY <1>1 DEF Stores, RowTables
  <2> QED
    BY <1>5, <2>1 DEF RowsAt
<1>7. AllAgree(disk, en.rec, t)
  BY <1>1, <1>2, <1>5 DEF EnergyOK, DurableAgrees, AllAgree
<1> HIDE DEF t, c
<1>8. Held(disk.passes, en.rec, t) <= EarnedFrom(disk.hist, BalancesOf(c), Genesis, t)
  BY <1>4, <1>6 DEF EarnedOn
<1>9. EarnedUpTo(c, t) = EarnedFrom(disk.hist, BalancesOf(c), Genesis, t)
  BY <1>1, <1>2, <1>4, EarnedUpToIs
<1>10. SumFunction([p \in LivePasses |-> get_pass_energy(en.rec, p, t)]) = Held(disk.passes, en.rec, t)
  BY <1>1, <1>2, <1>7, LiveHold
<1>11. SumFunction([p \in LivePasses |-> get_pass_energy(en.rec, p, t)]) <= EarnedUpTo(c, t)
  BY <1>8, <1>9, <1>10
<1> QED
  BY <1>1, <1>11 DEF t, c

(***************************************************************************)
(* No balance earns energy twice.  Whatever mints, transfers, burns,       *)
(* inheritances, failed blocks, crashes and rollbacks happen, the energy   *)
(* of the live passes is at most what the balances of the owners with an   *)
(* active pass earned since genesis, as long as the upstream's chain does  *)
(* not change from the drift test of a pass to the end of its block loop.  *)
(***************************************************************************)
THEOREM EnergyEarnedOnce ==
    ASSUME UpstreamWindow \cap Steady = {}
    PROVE  Spec => []EnergyIsEarnedOnce
<1>1. IInv /\ EarnInv /\ [Next]_vars => EarnInv'
  BY EarnStep
<1>2. IInv /\ EarnInv => EnergyIsEarnedOnce
  BY EarnedOnceHolds
<1> QED
  BY EarnInit, Inductive, <1>1, <1>2, PTL DEF Spec

=============================================================================
