--------------------- MODULE BalanceHistoryServiceProofs ---------------------
(***************************************************************************)
(* Theorems about the answers of the balance-history service: what a       *)
(* handler reads one read at a time, while the sync loop flushes batches   *)
(* and undoes blocks, is one state of the chain; its refusals are true.    *)
(***************************************************************************)
EXTENDS BalanceHistoryService, BalanceHistoryProofs

-----------------------------------------------------------------------------
(* The ledger: rows with their deltas, commits with their roots *)

\* The row the blocks of c leave for the key k, and the rows and commits of the store.
LedgerRow(c, k) == [delta |-> Delta(c[k[2]], k[1]), balance |-> BalanceOf(c, k[1], k[2])]

LedgerOf(c) ==
    /\ \A k \in DOMAIN rows : rows[k] = LedgerRow(c, k)
    /\ \A h \in 1..height : commits[h] = [i \in 1..h |-> RefLink(c, i)]

\* The blocks below the tip are the ones the store holds.
LEMMA CommittedFacts ==
    ASSUME IInv, NEW d, StoreHolds(d)
    PROVE  /\ height \in Nat /\ Committed \in Seq(Body) /\ Len(Committed) = height
           /\ \A i \in 1..height : Committed[i] = d[i]
           /\ StoreHolds(Committed)
<1>0. height \in Nat /\ d \in Seq(Body) /\ height <= Len(d) /\ NothingAboveTip
  BY DEF IInv, TypeOK, StoreTypeOK, StoreHolds
<1>1. Committed \in Seq(Body) /\ Len(Committed) = height /\ \A i \in 1..height : Committed[i] = d[i]
  <2>1. CASE height = 0
    BY <2>1 DEF Committed
  <2>2. CASE height # 0
    <3>1. Committed = SubSeq(d, 1, height)
      BY <1>0, <2>2 DEF StoreHolds, Committed
    <3> QED
      BY <1>0, <3>1
  <2> QED
    BY <2>1, <2>2
<1>2. ValidChain(Committed)
  <2>1. ValidChain(d) /\ DOMAIN d = 1..Len(d) /\ DOMAIN Committed = 1..height
    BY <1>0, <1>1 DEF StoreHolds
  <2>2. ASSUME NEW i \in 1..height, NEW j \in 1..height, i # j
        PROVE  /\ Committed[i].created \intersect Committed[j].created = {}
               /\ Committed[i].spent \intersect Committed[j].spent = {}
    BY <1>0, <1>1, <2>1, <2>2 DEF ValidChain
  <2>3. ASSUME NEW j \in 1..height
        PROVE  Committed[j].spent \subseteq UNION {Committed[i].created : i \in 1..j}
    <3>1. d[j].spent \subseteq UNION {d[i].created : i \in 1..j}
      BY <1>0, <2>1 DEF ValidChain
    <3>2. {Committed[i].created : i \in 1..j} = {d[i].created : i \in 1..j}
      BY <1>0, <1>1
    <3> QED
      BY <1>1, <3>1, <3>2
  <2> QED
    BY <2>1, <2>2, <2>3 DEF ValidChain
<1> QED
  BY <1>0, <1>1, <1>2, HoldsOnPrefix

\* A step of the loop leaves the commits below both tips alone.
LEMMA CommitsStay ==
    ASSUME IInv, [Next]_vars
    PROVE  \A h \in 1..height : h <= height' => commits'[h] = commits[h]
<1>1. DOMAIN commits = 1..height /\ height \in Nat
  BY DEF IInv, NothingAboveTip, TypeOK, StoreTypeOK
<1>2. ASSUME ReadOnlyStep PROVE UNCHANGED <<height, commits>>
  BY <1>2, ReadOnlyStore DEF dbVars, ledgerVars
<1>3. ASSUME MarkerStep PROVE UNCHANGED <<height, commits>>
  BY <1>3 DEF MarkerStep, MarkInProgress, MarkTarget, MarkNext, PutNext, ClearInProgress,
      ClearTarget, FinishRollback, put_rollback_in_progress, put_rollback_target_height,
      put_rollback_next_height, delete_rollback_in_progress, ledgerVars
<1>4. ASSUME PruneUndo PROVE UNCHANGED <<height, commits>>
  BY <1>4 DEF PruneUndo, prune_undo_before_height, dbVars, ledgerVars
<1>5. CASE UNCHANGED vars
  BY <1>5 DEF vars, dbVars, ledgerVars
<1>6. CASE FlushBatch
  <2>1. BatchLoaded /\ \A h \in BatchHeights : h >= cur /\ cur = height + 1
    BY <1>6, BatchFacts DEF FlushBatch
  <2>2. DOMAIN build_block_commits = BatchHeights /\ commits' = Put(commits, build_block_commits)
    BY <1>6, FlushWrites DEF build_block_commits
  <2>3. \A h \in 1..height : h \notin BatchHeights
    BY <1>1, <2>1
  <2> QED
    BY <1>1, <2>2, <2>3 DEF Put
<1>7. CASE UndoBlock
  <2>1. /\ next = height /\ height > 0
        /\ height' = height - 1 /\ commits' = Delete(commits, {height})
    BY <1>1, <1>7 DEF UndoBlock, rollback_one_block, IInv, TypeOK, LoopTypeOK, SatSub,
           UndoCoversRollback, RollbackPCs
  <2>2. \A h \in 1..height : h <= height - 1 => h \in DOMAIN commits \ {height}
    BY <1>1
  <2> QED
    BY <2>1, <2>2, DeleteValue
<1> QED
  BY <1>2, <1>3, <1>4, <1>5, <1>6, <1>7
     DEF Next, SyncStep, Environment, Rollback, ReadOnlyStep, MarkerStep

\* The chain under the store changes above the lower of the two tips only.
LEMMA PrefixStays ==
    ASSUME IInv, IInv', [Next]_vars, StoreHolds(Committed), StoreHolds(Committed)',
           NEW h \in Nat, h <= height, h <= height'
    PROVE  \A i \in 1..h : Committed'[i] = Committed[i]
<1>1. /\ height \in Nat /\ height' \in Nat
      /\ Committed \in Seq(Body) /\ Committed' \in Seq(Body)
      /\ height <= Len(Committed) /\ height' <= Len(Committed')
  BY DEF StoreHolds, IInv, TypeOK, StoreTypeOK
<1>2. CASE h = 0
  BY <1>2
<1>3. CASE h # 0
  <2>1. h \in 1..height /\ h \in 1..height'
    BY <1>1, <1>3
  <2>2. commits'[h] = commits[h]
    BY <2>1, CommitsStay
  <2>3. SubSeq(Committed, 1, h) = CommitHash(h)
    BY <2>1 DEF StoreHolds
  <2>4. SubSeq(Committed', 1, h) = CommitHash(h)'
    BY <2>1 DEF StoreHolds
  <2>5. CommitHash(h)' = CommitHash(h)
    BY <2>2 DEF CommitHash
  <2>6. SubSeq(Committed', 1, h) = SubSeq(Committed, 1, h) /\ h <= Len(Committed) /\ h <= Len(Committed')
    BY <1>1, <2>3, <2>4, <2>5
  <2> QED
    BY <1>1, <2>6, SamePrefix
<1> QED
  BY <1>2, <1>3

\* A link and a row are made of the blocks up to their height.
LEMMA LinkSame ==
    ASSUME NEW c \in Seq(Body), NEW d \in Seq(Body), NEW i \in Nat, i >= 1, i <= Len(c), i <= Len(d),
           \A j \in 1..i : c[j] = d[j]
    PROVE  RefLink(c, i) = RefLink(d, i) /\ \A s : LedgerRow(c, <<s, i>>) = LedgerRow(d, <<s, i>>)
<1>1. SubSeq(c, 1, i) = SubSeq(d, 1, i)
  BY SamePrefix
<1>2. c[i] = d[i] /\ \A s : BalanceOf(c, s, i) = BalanceOf(d, s, i)
  BY ReplaySame DEF BalanceOf
<1> QED
  BY <1>1, <1>2 DEF RefLink, LedgerRow

LEMMA ChainLinksSame ==
    ASSUME NEW c \in Seq(Body), NEW d \in Seq(Body), NEW h \in Nat, h <= Len(c), h <= Len(d),
           \A j \in 1..h : c[j] = d[j]
    PROVE  [i \in 1..h |-> RefLink(c, i)] = [i \in 1..h |-> RefLink(d, i)]
<1>1. ASSUME NEW i \in 1..h PROVE RefLink(c, i) = RefLink(d, i)
  <2>1. i \in Nat /\ i >= 1 /\ i <= Len(c) /\ i <= Len(d) /\ \A j \in 1..i : c[j] = d[j]
    OBVIOUS
  <2> QED
    BY <2>1, LinkSame
<1> QED
  BY <1>1

LEMMA FlushLedgerOf ==
    ASSUME IInv, IInv', LedgerOK, FlushBatch, StoreHolds(Committed), StoreHolds(Committed)',
           LedgerOf(Committed)
    PROVE  LedgerOf(Committed)'
<1> DEFINE c == Committed
           d == Committed'
<1>0. BatchLoaded /\ [Next]_vars
  BY DEF FlushBatch, Next, SyncStep
<1>1. /\ cur = height + 1 /\ cur \in Nat /\ height \in Nat
      /\ BatchEnd \in Nat /\ cur <= BatchEnd
      /\ \A g \in BatchHeights : g \in Nat /\ g >= cur /\ g <= BatchEnd
  BY <1>0, BatchFacts
<1>2. /\ rows' = Put(rows, Entries)
      /\ commits' = Put(commits, build_block_commits)
      /\ height' = BatchEnd
  BY FlushWrites
<1>3. c \in Seq(Body) /\ d \in Seq(Body) /\ height <= Len(c) /\ BatchEnd <= Len(d)
  BY <1>2 DEF StoreHolds
<1>4. \A i \in 1..height : d[i] = c[i]
  BY <1>0, <1>1, <1>2, PrefixStays
<1>5. \A g \in 1..BatchEnd : g \in 1..height \/ g \in BatchHeights
  BY <1>1 DEF BatchHeights
<1>6. DOMAIN build_block_commits = BatchHeights /\ DOMAIN commits = 1..height
  BY DEF build_block_commits, IInv, NothingAboveTip
<1>7. PICK S : \A h \in BatchHeights :
              /\ build_block_commits[h] \in Seq(S)
              /\ Len(build_block_commits[h]) = h
              /\ \A i \in 1..h : build_block_commits[h][i] = IF i < cur THEN Previous[i] ELSE Link(i)
  BY <1>0, BuiltCommits
<1>8. ASSUME NEW h \in BatchHeights
      PROVE  commits'[h] = build_block_commits[h] /\ loaded[h] = SubSeq(d, 1, h) /\ BodyAt(h) = d[h]
  <2>1. commits'[h] = build_block_commits[h]
    BY <1>2, <1>6 DEF Put
  <2>2. h \in 1..height' /\ h \in 1..h /\ ~(h < cur) /\ h \in Nat
    BY <1>1, <1>2
  <2>3. Len(build_block_commits[h]) = h /\ build_block_commits[h][h] = Link(h)
    BY <1>7, <2>2
  <2>4. CommitHash(h)' = loaded[h]
    BY <2>1, <2>3 DEF CommitHash, Link
  <2>5. CommitHash(h)' = SubSeq(d, 1, h)
    BY <2>2 DEF StoreHolds
  <2>6. SubSeq(d, 1, h)[h] = d[h]
    BY <1>1, <1>2, <1>3, <2>2
  <2> QED
    BY <2>1, <2>4, <2>5, <2>6 DEF BodyAt
<1>9. ASSUME NEW k \in DOMAIN rows' PROVE rows'[k] = LedgerRow(d, k)
  <2>1. CASE k \in DOMAIN Entries
    <3>1. rows'[k] = Entries[k]
      BY <1>2, <2>1 DEF Put
    <3>2. PICK h \in BatchHeights : k \in Touched(BodyAt(h)) \X {h}
      BY <2>1 DEF Entries
    <3>3. k[2] \in BatchHeights
      BY <3>2
    <3>4. Entries[k] = [delta |-> Delta(BodyAt(k[2]), k[1]), balance |-> BalanceAfter(k[1], k[2])]
      BY <2>1 DEF Entries
    <3>5. rows'[k].balance = PaidTo(k[1], ReplayUtxo(d, k[2]))
      BY DEF StoreHolds
    <3>6. BalanceAfter(k[1], k[2]) = BalanceOf(d, k[1], k[2])
      BY <3>1, <3>4, <3>5 DEF BalanceOf
    <3> QED
      BY <3>1, <3>3, <3>4, <3>6, <1>8 DEF LedgerRow
  <2>2. CASE k \notin DOMAIN Entries
    <3>1. k \in DOMAIN rows /\ rows'[k] = rows[k]
      BY <1>2, <2>2 DEF Put
    <3>2. PICK s, h : k = <<s, h>> /\ h \in 1..height
      BY <3>1 DEF IInv, NothingAboveTip, TypeOK, StoreTypeOK
    <3>3. rows[k] = LedgerRow(c, k)
      BY <3>1 DEF LedgerOf
    <3>4. LedgerRow(c, <<s, h>>) = LedgerRow(d, <<s, h>>)
      <4>1. h \in Nat /\ h >= 1 /\ h <= Len(c) /\ h <= Len(d) /\ \A j \in 1..h : c[j] = d[j]
        BY <3>2, <1>1, <1>3, <1>4
      <4> QED
        BY <1>3, <4>1, LinkSame
    <3> QED
      BY <3>1, <3>2, <3>3, <3>4
  <2> QED
    BY <2>1, <2>2
<1>10. ASSUME NEW h \in 1..height PROVE commits[h] = [i \in 1..h |-> RefLink(d, i)]
  <2>1. h \in Nat /\ h <= Len(c) /\ h <= Len(d) /\ \A j \in 1..h : c[j] = d[j]
    BY <1>1, <1>3, <1>4
  <2>2. [i \in 1..h |-> RefLink(c, i)] = [i \in 1..h |-> RefLink(d, i)]
    BY <1>3, <2>1, ChainLinksSame
  <2> QED
    BY <2>2 DEF LedgerOf
<1>11. ASSUME NEW i \in BatchHeights PROVE Link(i) = RefLink(d, i)
  <2>1. BodyAt(i) = d[i] /\ loaded[i] = SubSeq(d, 1, i)
    BY <1>8
  <2>2. ASSUME NEW s \in Touched(d[i])
        PROVE  Entries[<<s, i>>] = [delta |-> Delta(d[i], s), balance |-> BalanceOf(d, s, i)]
    <3>1. <<s, i>> \in DOMAIN Entries
      BY <2>1, EntryKeys
    <3>2. <<s, i>> \in DOMAIN rows' /\ rows'[<<s, i>>] = Entries[<<s, i>>]
      BY <1>2, <3>1 DEF Put
    <3> QED
      BY <3>2, <1>9 DEF LedgerRow
  <2> QED
    BY <2>1, <2>2 DEF Link, RefLink
<1>12. ASSUME NEW h \in BatchHeights PROVE commits'[h] = [i \in 1..h |-> RefLink(d, i)]
  <2> DEFINE new == build_block_commits[h]
  <2>0. h \in Nat /\ h >= cur /\ h <= BatchEnd
    BY <1>1
  <2>1. new \in Seq(S) /\ Len(new) = h
    BY <1>7
  <2>2. ASSUME NEW i \in 1..h PROVE new[i] = RefLink(d, i)
    <3>1. new[i] = IF i < cur THEN Previous[i] ELSE Link(i)
      BY <1>7
    <3>2. CASE i < cur
      <4>1. height \in 1..height /\ i \in 1..height /\ cur - 1 = height
        BY <3>2, <1>1
      <4>2. Previous = commits[height]
        BY <4>1, <1>6 DEF Previous
      <4>3. commits[height] = [j \in 1..height |-> RefLink(d, j)]
        BY <4>1, <1>10
      <4> QED
        BY <3>1, <3>2, <4>1, <4>2, <4>3
    <3>3. CASE i >= cur
      <4>1. i \in BatchHeights
        BY <3>3, <1>1, <2>0 DEF BatchHeights
      <4> QED
        BY <3>1, <3>3, <4>1, <1>11, <1>1
    <3> QED
      BY <3>2, <3>3, <1>1
  <2>3. new = [i \in 1..h |-> new[i]]
    BY <2>1
  <2> HIDE DEF new
  <2>4. new = [i \in 1..h |-> RefLink(d, i)]
    BY <2>2, <2>3
  <2> QED
    BY <2>4, <1>8 DEF new
<1>13. ASSUME NEW h \in 1..height' PROVE commits'[h] = [i \in 1..h |-> RefLink(d, i)]
  <2>1. CASE h \in 1..height
    <3>1. commits'[h] = commits[h]
      BY <2>1, <1>0, <1>1, <1>2, CommitsStay
    <3> QED
      BY <2>1, <3>1, <1>10
  <2>2. CASE h \in BatchHeights
    BY <2>2, <1>12
  <2> QED
    BY <1>2, <1>5, <2>1, <2>2
<1> QED
  BY <1>9, <1>13 DEF LedgerOf

\* Below both tips the ledger stays, when rows are only taken away.
LEMMA LowerLedgerOf ==
    ASSUME IInv, IInv', [Next]_vars, StoreHolds(Committed), StoreHolds(Committed)', LedgerOf(Committed),
           height' <= height, DOMAIN rows' \subseteq DOMAIN rows, \A k \in DOMAIN rows' : rows'[k] = rows[k]
    PROVE  LedgerOf(Committed)'
<1> DEFINE c == Committed
           d == Committed'
<1>1. /\ height \in Nat /\ height' \in Nat
      /\ c \in Seq(Body) /\ d \in Seq(Body) /\ height <= Len(c) /\ height' <= Len(d)
  BY DEF StoreHolds, IInv, TypeOK, StoreTypeOK
<1>2. \A i \in 1..height' : d[i] = c[i]
  BY <1>1, PrefixStays
<1>3. ASSUME NEW k \in DOMAIN rows' PROVE rows'[k] = LedgerRow(d, k)
  <2>1. PICK s, h : k = <<s, h>> /\ h \in 1..height'
    BY DEF IInv, NothingAboveTip, TypeOK, StoreTypeOK
  <2>2. h \in Nat /\ h >= 1 /\ h <= Len(c) /\ h <= Len(d) /\ \A j \in 1..h : c[j] = d[j]
    BY <1>1, <1>2, <2>1
  <2>3. LedgerRow(c, <<s, h>>) = LedgerRow(d, <<s, h>>)
    BY <1>1, <2>2, LinkSame
  <2> QED
    BY <2>1, <2>3 DEF LedgerOf
<1>4. ASSUME NEW h \in 1..height' PROVE commits'[h] = [i \in 1..h |-> RefLink(d, i)]
  <2>1. h \in Nat /\ h \in 1..height /\ h <= Len(c) /\ h <= Len(d) /\ \A j \in 1..h : c[j] = d[j]
    BY <1>1, <1>2
  <2>2. [i \in 1..h |-> RefLink(c, i)] = [i \in 1..h |-> RefLink(d, i)]
    BY <1>1, <2>1, ChainLinksSame
  <2>3. commits'[h] = commits[h]
    BY <1>1, <2>1, CommitsStay
  <2> QED
    BY <2>1, <2>2, <2>3 DEF LedgerOf
<1> QED
  BY <1>3, <1>4 DEF LedgerOf

LEMMA NextLedgerOf ==
    ASSUME IInv, IInv', LedgerOK, [Next]_vars, StoreHolds(Committed), StoreHolds(Committed)',
           LedgerOf(Committed)
    PROVE  LedgerOf(Committed)'
<1>0. height \in Nat /\ height' \in Nat
  BY DEF IInv, TypeOK, StoreTypeOK
<1>1. CASE UNCHANGED <<height, rows>>
  BY <1>0, <1>1, LowerLedgerOf
<1>2. ASSUME ReadOnlyStep PROVE UNCHANGED <<height, rows>>
  BY <1>2, ReadOnlyStore DEF dbVars, ledgerVars
<1>3. ASSUME MarkerStep PROVE UNCHANGED <<height, rows>>
  BY <1>3 DEF MarkerStep, MarkInProgress, MarkTarget, MarkNext, PutNext, ClearInProgress,
      ClearTarget, FinishRollback, put_rollback_in_progress, put_rollback_target_height,
      put_rollback_next_height, delete_rollback_in_progress, ledgerVars
<1>4. ASSUME PruneUndo PROVE UNCHANGED <<height, rows>>
  BY <1>4 DEF PruneUndo, prune_undo_before_height, dbVars, ledgerVars
<1>5. CASE UNCHANGED vars
  BY <1>1, <1>5 DEF vars, dbVars, ledgerVars
<1>6. CASE UndoBlock
  <2>1. next = height /\ height > 0 /\ height' = height - 1
    BY <1>0, <1>6 DEF UndoBlock, rollback_one_block, IInv, TypeOK, LoopTypeOK, SatSub,
           UndoCoversRollback, RollbackPCs
  <2>2. \E S : rows' = Delete(rows, S)
    BY <1>6 DEF UndoBlock, rollback_one_block
  <2>3. PICK S : rows' = Delete(rows, S)
    BY <2>2
  <2>4. DOMAIN rows' = DOMAIN rows \ S /\ \A k \in DOMAIN rows \ S : rows'[k] = rows[k]
    BY <2>3, DeleteDomain, DeleteValue
  <2> QED
    BY <1>0, <2>1, <2>4, LowerLedgerOf
<1> QED
  BY <1>1, <1>2, <1>3, <1>4, <1>5, <1>6, FlushLedgerOf
     DEF Next, SyncStep, Environment, Rollback, ReadOnlyStep, MarkerStep

-----------------------------------------------------------------------------
(* The sync loop as the handlers see it *)

\* Nothing is synced above the configured height, so no rollback reaches NoRollback.
HeightBound == height <= MaxSyncHeight /\ latest <= MaxSyncHeight

SyncInv == IInv /\ LedgerOK /\ CacheInv /\ ReplayInv /\ HeightBound /\ LedgerOf(Committed)

LEMMA NextHeightBound ==
    ASSUME IInv, HeightBound, [Next]_vars
    PROVE  HeightBound'
<1>0. height \in Nat /\ latest \in Nat /\ next \in Nat /\ MaxSyncHeight \in Nat
  BY ConfigAssumption DEF IInv, TypeOK, StoreTypeOK, LoopTypeOK
<1>1. CASE GetLatest
  <2>1. StableTarget \in Nat /\ StableTarget <= MaxSyncHeight
    BY StableTargetNat, <1>0, ChainAssumption, ConfigAssumption
       DEF StableTarget, MinOf, IInv, TypeOK, EnvTypeOK, SatSub
  <2> QED
    BY <1>1, <2>1 DEF GetLatest, dbVars, ledgerVars, HeightBound
<1>2. CASE FlushBatch
  <2>1. BatchEnd \in Nat /\ BatchEnd <= latest
    BY <1>2, BatchFacts DEF FlushBatch
  <2>2. height' = BatchEnd /\ latest' = latest
    BY <1>2, FlushWrites DEF FlushBatch
  <2> QED
    BY <1>0, <2>1, <2>2 DEF HeightBound
<1>3. CASE UndoBlock
  BY <1>0, <1>3 DEF UndoBlock, rollback_one_block, SatSub, HeightBound
<1>4. CASE UNCHANGED vars
  BY <1>4 DEF vars, dbVars, ledgerVars, loopVars, HeightBound
<1>5. ASSUME MarkerStep PROVE HeightBound'
  BY <1>5 DEF MarkerStep, MarkInProgress, MarkTarget, MarkNext, PutNext, ClearInProgress,
      ClearTarget, FinishRollback, put_rollback_in_progress, put_rollback_target_height,
      put_rollback_next_height, delete_rollback_in_progress, ledgerVars, HeightBound
<1>6. ASSUME PruneUndo PROVE HeightBound'
  BY <1>0, <1>6 DEF PruneUndo, prune_undo_before_height, dbVars, ledgerVars, HeightBound, FreeLocals
<1>7. ASSUME ReadOnlyStep, ~GetLatest PROVE HeightBound'
  <2>1. height' = height
    BY <1>7, ReadOnlyStore DEF dbVars, ledgerVars
  <2>2. latest' \in {latest, 0}
    BY <1>7 DEF ReadOnlyStep, NothingToResume, ResumeRollback, ResumeRefused, TipMatches, TipMoved,
       ProbeFails, ProbeLower, RollbackIsEmpty, RollbackRefused, BeginRollback, PlanSync, LoadBlock,
       LoadFails, Panic, KeepWaiting, WakeUp, Restart, ExtendChain, ReplaceChain, EvictUtxo,
       EvictBalance, RpcError, DbError, Crash, AbandonPass, LoseMemory, FreeLocals, loopVars, vars
  <2> QED
    BY <1>0, <2>1, <2>2 DEF HeightBound
<1> QED
  BY <1>1, <1>2, <1>3, <1>4, <1>5, <1>6, <1>7
     DEF Next, SyncStep, Environment, Rollback, ReadOnlyStep, MarkerStep

CommittedHeld == StoreHolds(Committed)

LEMMA HoldsCommitted == IInv /\ ReplayInv => CommittedHeld
BY CommittedFacts DEF ReplayInv, HoldsAgreed, CommittedHeld

LEMMA NextSyncInv ==
    ASSUME ReplayConditions, SyncInv, [Next]_vars
    PROVE  SyncInv'
<1>1. IInv' /\ LedgerOK'
  BY NextIInv, NextLedger DEF SyncInv
<1>2. CacheInv'
  BY NextCaches DEF ReplayConditions, SyncInv
<1>3. ReplayInv'
  BY NextHolds, NextBatchIsCanonical DEF ReplayInv, SyncInv
<1>4. StoreHolds(Committed)
  BY HoldsCommitted DEF SyncInv, CommittedHeld
<1>5. StoreHolds(Committed)'
  <2>1. CommittedHeld'
    BY <1>1, <1>3, HoldsCommitted, PTL
  <2> QED
    BY <2>1 DEF CommittedHeld
<1>6. LedgerOf(Committed)'
  BY <1>1, <1>4, <1>5, NextLedgerOf DEF SyncInv
<1> QED
  BY <1>1, <1>2, <1>3, <1>6, NextHeightBound DEF SyncInv

LEMMA SyncInductive == ASSUME ReplayConditions PROVE Spec => []SyncInv
<1>1. Init => SyncInv
  <2> SUFFICES ASSUME Init PROVE SyncInv
    OBVIOUS
  <2>1. IInv /\ ReplayInv
    BY InitIInv, InitReplays
  <2>2. LedgerOK
    BY DEF Init, EmptyDB, LedgerOK, CommitsAreChains, CommitsBindRows
  <2>3. CacheInv
    BY EmptyDomain DEF Init, EmptyMemory, CacheInv, CachesAgree
  <2>4. HeightBound
    BY ConfigAssumption DEF Init, EmptyDB, EmptyLoop, HeightBound
  <2>5. LedgerOf(Committed)
    BY EmptyDomain DEF Init, EmptyDB, LedgerOf
  <2> QED
    BY <2>1, <2>2, <2>3, <2>4, <2>5 DEF SyncInv
<1>2. SyncInv /\ [Next]_vars => SyncInv'
  BY NextSyncInv
<1> QED
  BY <1>1, <1>2, PTL DEF Spec

-----------------------------------------------------------------------------
(* What one read shows *)

LEMMA GreatestOfBounded ==
    ASSUME NEW n \in Nat, NEW S, S \subseteq 0..n, S # {}
    PROVE  Max(S) \in S /\ \A x \in S : x <= Max(S)
<1>1. \E m \in S : \A x \in S : x <= m
  <2>1. S \subseteq Nat /\ \A x \in S : x <= n
    OBVIOUS
  <2> QED
    BY <2>1, GreatestNat
<1>2. \E m \in S : \A x \in S : m >= x
  BY <1>1
<1>3. Max(S) \in S /\ \A x \in S : Max(S) >= x
  BY <1>2 DEF Max
<1> QED
  BY <1>3

\* A sequence of the elements of S in their order.
IsAscending(hs, S) ==
    hs \in [1..Cardinality(S) -> S] /\ \A i, j \in DOMAIN hs : i < j => hs[i] < hs[j]

LEMMA AscendingExists ==
    ASSUME NEW n \in Nat, NEW S, S \subseteq 0..n
    PROVE  \E hs : IsAscending(hs, S)
<1> SUFFICES ASSUME ~ \E hs : IsAscending(hs, S) PROVE FALSE
  OBVIOUS
<1> DEFINE Fails(T) == T \subseteq 0..n /\ ~ \E hs : IsAscending(hs, T)
           sizes == {k \in Nat : \E T : Fails(T) /\ Cardinality(T) = k}
<1>0. ASSUME NEW T, T \subseteq 0..n PROVE IsFiniteSet(T) /\ Cardinality(T) \in Nat
  <2>1. IsFiniteSet(0..n)
    BY FS_Interval
  <2> QED
    BY <1>0, <2>1, FS_Subset, FS_CardinalityType
<1>1. sizes # {} /\ sizes \subseteq Nat
  BY <1>0
<1>2. PICK k \in sizes : \A l \in sizes : k <= l
  <2> HIDE DEF sizes
  <2> QED
    BY <1>1, LeastNat
<1>3. PICK T : Fails(T) /\ Cardinality(T) = k
  BY <1>2
<1>4. IsFiniteSet(T) /\ Cardinality(T) \in Nat
  BY <1>0, <1>3
<1>5. \A x \in T : x \in Int
  <2>1. T \subseteq 0..n
    BY <1>3
  <2> HIDE DEF Fails
  <2> QED
    BY <2>1
<1>6. CASE T = {}
  <2>1. Cardinality(T) = 0
    BY <1>6, FS_EmptySet
  <2>2. IsAscending(<< >>, T)
    BY <1>6, <2>1 DEF IsAscending
  <2> QED
    BY <1>3, <2>2
<1>7. CASE T # {}
  <2>1. Max(T) \in T /\ \A x \in T : x <= Max(T)
    BY <1>3, <1>7, GreatestOfBounded
  <2>2. PICK m : m = Max(T)
    OBVIOUS
  <2> DEFINE U == T \ {m}
  <2>3. IsFiniteSet(U) /\ Cardinality(U) = k - 1
    BY <1>3, <1>4, <2>1, <2>2, FS_RemoveElement
  <2>4. k >= 1
    BY <1>3, <1>4, <1>7, FS_EmptySet
  <2>5. ~Fails(U)
    <3> SUFFICES ASSUME Fails(U) PROVE FALSE
      OBVIOUS
    <3>1. k - 1 \in sizes
      BY <2>3, <2>4, <1>2
    <3> QED
      BY <3>1, <1>2
  <2>6. PICK hs : IsAscending(hs, U)
    BY <2>5, <1>3
  <2> DEFINE f == [i \in 1..k |-> IF i < k THEN hs[i] ELSE m]
  <2>7. hs \in [1..(k - 1) -> U] /\ \A i, j \in 1..(k - 1) : i < j => hs[i] < hs[j]
    BY <2>3, <2>6 DEF IsAscending
  <2>8. f \in [1..k -> T]
    <3> SUFFICES ASSUME NEW i \in 1..k PROVE f[i] \in T
      OBVIOUS
    <3>1. CASE i < k
      <4>1. i \in 1..(k - 1)
        BY <3>1, <2>4, <1>2
      <4> QED
        BY <4>1, <3>1, <2>7
    <3>2. CASE ~(i < k)
      BY <3>2, <2>1, <2>2
    <3> QED
      BY <3>1, <3>2
  <2>9. ASSUME NEW i \in 1..k, NEW j \in 1..k, i < j PROVE f[i] < f[j]
    <3>1. i \in 1..(k - 1) /\ i < k
      BY <2>9, <1>2
    <3>2. hs[i] \in T /\ hs[i] # m
      BY <3>1, <2>7
    <3>3. hs[i] < m
      <4>1. hs[i] <= m
        BY <3>2, <2>1, <2>2
      <4>2. hs[i] \in Int /\ m \in Int
        BY <3>2, <2>1, <2>2, <1>5
      <4> QED
        BY <4>1, <4>2, <3>2
    <3>4. CASE j < k
      <4>1. j \in 1..(k - 1)
        BY <3>4, <1>2
      <4> QED
        BY <3>1, <3>4, <4>1, <2>7, <2>9
    <3>5. CASE ~(j < k)
      BY <3>1, <3>3, <3>5
    <3> QED
      BY <3>4, <3>5
  <2>10. IsAscending(f, T)
    <3> HIDE DEF f
    <3>1. DOMAIN f = 1..k
      BY <2>8
    <3> QED
      BY <2>8, <2>9, <3>1, <1>3 DEF IsAscending
  <2> QED
    BY <2>10, <1>3
<1> QED
  BY <1>6, <1>7

LEMMA AscendingFacts ==
    ASSUME NEW n \in Nat, NEW S, S \subseteq 0..n
    PROVE  Ascending(S) \in [1..Cardinality(S) -> S]
<1>1. PICK hs : IsAscending(hs, S)
  BY AscendingExists
<1>2. \E f \in [1..Cardinality(S) -> S] : \A i, j \in DOMAIN f : i < j => f[i] < f[j]
  BY <1>1 DEF IsAscending
<1> QED
  BY <1>2 DEF Ascending

LEMMA SyncFacts ==
    ASSUME SyncInv
    PROVE  /\ height \in Nat /\ MaxSyncHeight \in Nat /\ height <= MaxSyncHeight
           /\ Committed \in Seq(Body) /\ Len(Committed) = height /\ DOMAIN Committed = 1..height
           /\ StoreHolds(Committed)
<1>1. PICK d : StoreHolds(d)
  BY DEF SyncInv, ReplayInv, HoldsAgreed
<1>2. /\ height \in Nat /\ Committed \in Seq(Body) /\ Len(Committed) = height
      /\ StoreHolds(Committed)
  BY <1>1, CommittedFacts DEF SyncInv
<1> QED
  BY <1>2, ConfigAssumption DEF SyncInv, HeightBound

LEMMA CommitRead ==
    ASSUME SyncInv, NEW h
    PROVE  get_block_commit_entry(h) = RefCommit(Committed, h)
<1>1. DOMAIN commits = 1..height /\ DOMAIN Committed = 1..height
  BY SyncFacts DEF SyncInv, IInv, NothingAboveTip
<1>2. \A g \in 1..height : commits[g] = [i \in 1..g |-> RefLink(Committed, i)]
  BY DEF SyncInv, LedgerOf
<1> QED
  BY <1>1, <1>2 DEF get_block_commit_entry, RefCommit

\* A script has a row where a committed block touched it, and only there.
LEMMA RowKeys ==
    ASSUME SyncInv, NEW s, NEW h
    PROVE  <<s, h>> \in DOMAIN rows <=> h \in 1..height /\ s \in Touched(Committed[h])
<1>1. StoreHolds(Committed) /\ height \in Nat /\ Committed \in Seq(Body) /\ Len(Committed) = height
  BY SyncFacts
<1>2. ASSUME <<s, h>> \in DOMAIN rows PROVE s \in Script /\ h \in 1..height
  BY <1>2 DEF SyncInv, IInv, NothingAboveTip, TypeOK, StoreTypeOK
<1>3. ASSUME h \in 1..height, s \in Touched(Committed[h]) PROVE s \in Script
  <2>1. Committed[h] \in Body
    BY <1>1, <1>3
  <2> QED
    BY <2>1, <1>3, TouchedScripts
<1>4. ASSUME s \in Script, h \in 1..height
      PROVE  <<s, h>> \in DOMAIN rows <=> s \in Touched(Committed[h])
  BY <1>1, <1>4 DEF StoreHolds
<1> QED
  BY <1>2, <1>3, <1>4

LEMMA RowRead ==
    ASSUME SyncInv, NEW s, NEW h, <<s, h>> \in DOMAIN rows
    PROVE  Row(s, h) = RefRow(Committed, s, h)
<1>1. rows[<<s, h>>] = LedgerRow(Committed, <<s, h>>)
  BY DEF SyncInv, LedgerOf
<1> QED
  BY <1>1 DEF Row, RefRow, LedgerRow

LEMMA RowHeightsRead ==
    ASSUME SyncInv, NEW s, NEW h \in Nat
    PROVE  RowHeights(s, h) = MovesOf(Committed, s, 1, h + 1)
<1>1. height \in Nat /\ DOMAIN Committed = 1..height
  BY SyncFacts
<1>2. ASSUME NEW g PROVE g \in RowHeights(s, h) <=> g \in MovesOf(Committed, s, 1, h + 1)
  <2>1. <<s, g>> \in DOMAIN rows <=> g \in 1..height /\ s \in Touched(Committed[g])
    BY RowKeys
  <2>2. g \in 0..h /\ g \in 1..height <=> g \in 1..(h + 1) - 1 /\ g \in 1..height
    BY <1>1
  <2> QED
    BY <1>1, <2>1, <2>2 DEF RowHeights, MovesOf
<1> QED
  BY <1>2

LEMMA PointRead ==
    ASSUME SyncInv, NEW s, NEW h \in Nat
    PROVE  RowAtOrBefore(s, h) = RefAt(Committed, s, h)
<1>1. RowHeights(s, h) = MovesOf(Committed, s, 1, h + 1)
  BY RowHeightsRead
<1>2. CASE RowHeights(s, h) = {}
  BY <1>1, <1>2 DEF RowAtOrBefore, RefAt
<1>3. CASE RowHeights(s, h) # {}
  <2>1. RowHeights(s, h) \subseteq 0..h
    BY DEF RowHeights
  <2>2. Max(RowHeights(s, h)) \in RowHeights(s, h)
    BY <1>3, <2>1, GreatestOfBounded
  <2>3. <<s, Max(RowHeights(s, h))>> \in DOMAIN rows
    BY <2>2 DEF RowHeights
  <2>4. Row(s, Max(RowHeights(s, h))) = RefRow(Committed, s, Max(RowHeights(s, h)))
    BY <2>3, RowRead
  <2> QED
    BY <1>1, <1>3, <2>4 DEF RowAtOrBefore, RefAt
<1> QED
  BY <1>2, <1>3

LEMMA LatestRead ==
    ASSUME SyncInv, NEW s
    PROVE  get_latest_balance(s) = RefAt(Committed, s, Len(Committed))
<1>1. height \in Nat /\ MaxSyncHeight \in Nat /\ height <= MaxSyncHeight
      /\ DOMAIN Committed = 1..height /\ Len(Committed) = height
  BY SyncFacts
<1>2. get_latest_balance(s) = RefAt(Committed, s, MaxSyncHeight)
  BY <1>1, PointRead DEF get_latest_balance
<1>3. MovesOf(Committed, s, 1, MaxSyncHeight + 1) = MovesOf(Committed, s, 1, height + 1)
  BY <1>1 DEF MovesOf
<1> QED
  BY <1>1, <1>2, <1>3 DEF RefAt

LEMMA MovesBounded ==
    ASSUME NEW c, NEW s, NEW from \in Nat, NEW to \in Nat
    PROVE  MovesOf(c, s, from, to) \subseteq 0..to
BY DEF MovesOf

LEMMA RangeRead ==
    ASSUME SyncInv, NEW s, NEW from \in Nat, NEW to \in Nat
    PROVE  get_balance_in_range(s, from, to) = RefRows(Committed, s, MovesOf(Committed, s, from, to))
<1> DEFINE S == {h \in from..to - 1 : <<s, h>> \in DOMAIN rows}
           hs == Ascending(S)
<1>1. S = MovesOf(Committed, s, from, to)
  <2>1. DOMAIN Committed = 1..height
    BY SyncFacts
  <2>2. ASSUME NEW h PROVE h \in S <=> h \in MovesOf(Committed, s, from, to)
    BY <2>1, RowKeys DEF MovesOf
  <2> QED
    BY <2>2
<1>2. hs \in [1..Cardinality(S) -> S]
  <2>1. S \subseteq 0..to
    BY <1>1, MovesBounded
  <2> HIDE DEF S
  <2> QED
    BY <2>1, AscendingFacts
<1>3. get_balance_in_range(s, from, to) = [i \in DOMAIN hs |-> Row(s, hs[i])]
  BY DEF get_balance_in_range
<1>4. \A h \in S : <<s, h>> \in DOMAIN rows
  OBVIOUS
<1> HIDE DEF hs, S
<1>5. RefRows(Committed, s, S) = [i \in DOMAIN hs |-> RefRow(Committed, s, hs[i])]
  BY DEF RefRows, hs
<1>6. ASSUME NEW i \in DOMAIN hs PROVE Row(s, hs[i]) = RefRow(Committed, s, hs[i])
  BY <1>2, <1>4, RowRead
<1> QED
  BY <1>1, <1>3, <1>5, <1>6

LEMMA RowsOfNothing == ASSUME NEW c, NEW s PROVE RefRows(c, s, {}) = << >>
<1>1. {} \subseteq 0..0 /\ 0 \in Nat
  OBVIOUS
<1>2. Ascending({}) \in [1..Cardinality({}) -> {}]
  BY ONLY <1>1, AscendingFacts
<1>3. Cardinality({}) = 0
  BY FS_EmptySet
<1>4. DOMAIN Ascending({}) = {}
  BY <1>2, <1>3
<1> QED
  BY <1>4 DEF RefRows

LEMMA RowsOfOne == ASSUME NEW c, NEW s, NEW h \in Nat PROVE RefRows(c, s, {h}) = <<RefRow(c, s, h)>>
<1> DEFINE hs == Ascending({h})
<1>1. {h} \subseteq 0..h
  OBVIOUS
<1>2. hs \in [1..Cardinality({h}) -> {h}]
  BY <1>1, AscendingFacts
<1>3. Cardinality({h}) = 1
  BY FS_Singleton
<1>4. RefRows(c, s, {h}) = [i \in DOMAIN hs |-> RefRow(c, s, hs[i])]
  BY DEF RefRows
<1> HIDE DEF hs
<1>5. DOMAIN hs = 1..1 /\ hs[1] = h
  BY <1>2, <1>3
<1>6. 1..1 = {1}
  OBVIOUS
<1>7. RefRows(c, s, {h}) = [i \in {1} |-> RefRow(c, s, h)]
  BY <1>4, <1>5, <1>6
<1> QED
  BY <1>7

LEMMA DeltaRead ==
    ASSUME SyncInv, NEW s, NEW h \in Nat
    PROVE  get_balance_delta_at_block_height(s, h) = RefRows(Committed, s, MovesOf(Committed, s, h, h + 1))
<1>1. DOMAIN Committed = 1..height
  BY SyncFacts
<1>2. <<s, h>> \in DOMAIN rows <=> h \in 1..height /\ s \in Touched(Committed[h])
  BY RowKeys
<1>3. CASE <<s, h>> \in DOMAIN rows
  <2>1. MovesOf(Committed, s, h, h + 1) = {h}
    BY <1>1, <1>2, <1>3 DEF MovesOf
  <2> QED
    BY <2>1, <1>3, RowRead, RowsOfOne DEF get_balance_delta_at_block_height
<1>4. CASE <<s, h>> \notin DOMAIN rows
  <2>1. MovesOf(Committed, s, h, h + 1) = {}
    BY <1>1, <1>2, <1>4 DEF MovesOf
  <2> QED
    BY <2>1, <1>4, RowsOfNothing DEF get_balance_delta_at_block_height
<1> QED
  BY <1>3, <1>4

\* The requests answered by one read of the store.
StoreReads == {"height", "commit", "utxo", "balance", "delta"}

\* An answer made by one read is the answer of the blocks committed at that moment.
LEMMA OneReadIsExpected ==
    ASSUME SyncInv, NEW r \in Requests, r.kind \in StoreReads, ~BadParams(r), NEW s
    PROVE  OneRead(r, s) = Expected(r, s, Committed)
<1>0. /\ r.at \in Nat /\ r.from \in Nat /\ r.to \in Nat
      /\ r.by \in {"latest", "height", "range"}
  BY RequestAssumption
<1>1. CASE r.kind = "height"
  BY <1>1, SyncFacts DEF OneRead, Expected
<1>2. CASE r.kind = "commit"
  BY <1>2, CommitRead DEF OneRead, Expected
<1>3. CASE r.kind = "utxo"
  <2>1. utxo = ReplayUtxo(Committed, height) /\ Len(Committed) = height
    BY SyncFacts DEF StoreHolds
  <2> QED
    BY <1>3, <2>1 DEF OneRead, Expected
<1>4. CASE r.kind = "balance"
  <2>1. OneRead(r, s) = IF r.by = "height" THEN <<RowAtOrBefore(s, r.at)>>
                        ELSE IF r.by = "range" THEN get_balance_in_range(s, r.from, r.to)
                        ELSE <<get_latest_balance(s)>>
    BY <1>4 DEF OneRead
  <2>2. Expected(r, s, Committed) =
            IF r.by = "height" THEN <<RefAt(Committed, s, r.at)>>
            ELSE IF r.by = "range"
                 THEN RefRows(Committed, s, MovesOf(Committed, s, r.from, r.to))
            ELSE <<RefAt(Committed, s, Len(Committed))>>
    BY <1>4 DEF Expected
  <2>3. RowAtOrBefore(s, r.at) = RefAt(Committed, s, r.at)
    BY <1>0, PointRead
  <2>4. get_balance_in_range(s, r.from, r.to) =
            RefRows(Committed, s, MovesOf(Committed, s, r.from, r.to))
    BY <1>0, RangeRead
  <2>5. get_latest_balance(s) = RefAt(Committed, s, Len(Committed))
    BY LatestRead
  <2> QED
    BY <2>1, <2>2, <2>3, <2>4, <2>5
<1>5. CASE r.kind = "delta"
  <2>1. OneRead(r, s) = IF r.by = "height" THEN get_balance_delta_at_block_height(s, r.at)
                        ELSE get_balance_in_range(s, r.from, r.to)
    BY <1>5 DEF OneRead
  <2>2. Expected(r, s, Committed) =
            IF r.by = "height" THEN RefRows(Committed, s, MovesOf(Committed, s, r.at, r.at + 1))
            ELSE RefRows(Committed, s, MovesOf(Committed, s, r.from, r.to))
    BY <1>5 DEF Expected
  <2>3. get_balance_delta_at_block_height(s, r.at) =
            RefRows(Committed, s, MovesOf(Committed, s, r.at, r.at + 1))
    BY <1>0, DeltaRead
  <2>4. get_balance_in_range(s, r.from, r.to) =
            RefRows(Committed, s, MovesOf(Committed, s, r.from, r.to))
    BY <1>0, RangeRead
  <2> QED
    BY <2>1, <2>2, <2>3, <2>4
<1> QED
  BY <1>1, <1>2, <1>3, <1>4, <1>5 DEF StoreReads

-----------------------------------------------------------------------------
(* An answer speaks of the blocks up to the height it names *)

LEMMA MovesSame ==
    ASSUME NEW c \in Seq(Body), NEW d \in Seq(Body), NEW n \in Nat, n <= Len(c), n <= Len(d),
           \A i \in 1..n : c[i] = d[i], NEW s, NEW from \in Nat, NEW to \in Nat, to - 1 <= n
    PROVE  /\ MovesOf(c, s, from, to) = MovesOf(d, s, from, to)
           /\ \A h \in MovesOf(c, s, from, to) : RefRow(c, s, h) = RefRow(d, s, h)
<1>1. DOMAIN c = 1..Len(c) /\ DOMAIN d = 1..Len(d)
  OBVIOUS
<1>2. ASSUME NEW h PROVE h \in MovesOf(c, s, from, to) <=> h \in MovesOf(d, s, from, to)
  BY <1>1 DEF MovesOf
<1>3. ASSUME NEW h \in MovesOf(c, s, from, to) PROVE RefRow(c, s, h) = RefRow(d, s, h)
  <2>1. h \in 1..n /\ h \in Nat
    BY <1>1 DEF MovesOf
  <2>2. c[h] = d[h] /\ \A i \in 1..h : c[i] = d[i]
    BY <2>1
  <2>3. ReplayUtxo(c, h) = ReplayUtxo(d, h)
    BY <2>1, <2>2, ReplaySame
  <2> QED
    BY <2>2, <2>3 DEF RefRow, BalanceOf
<1> QED
  BY <1>2, <1>3

LEMMA RefCommitSame ==
    ASSUME NEW c \in Seq(Body), NEW d \in Seq(Body), NEW h \in Nat, h <= Len(c), h <= Len(d),
           \A i \in 1..h : c[i] = d[i]
    PROVE  RefCommit(c, h) = RefCommit(d, h)
<1>1. DOMAIN c = 1..Len(c) /\ DOMAIN d = 1..Len(d)
  OBVIOUS
<1>2. h \in DOMAIN c <=> h \in DOMAIN d
  BY <1>1
<1>3. [i \in 1..h |-> RefLink(c, i)] = [i \in 1..h |-> RefLink(d, i)]
  BY ChainLinksSame
<1> QED
  BY <1>2, <1>3 DEF RefCommit

SameRows(c, d, s, S, n) ==
    /\ n \in Nat /\ S \in SUBSET (0..n)
    /\ \A h \in S : RefRow(c, s, h) = RefRow(d, s, h)

LEMMA RefRowsSame ==
    ASSUME NEW c, NEW d, NEW s, NEW n, NEW S, SameRows(c, d, s, S, n)
    PROVE  RefRows(c, s, S) = RefRows(d, s, S)
<1> DEFINE hs == Ascending(S)
<1>0. n \in Nat /\ S \in SUBSET (0..n)
  BY DEF SameRows
<1>1. hs \in [1..Cardinality(S) -> S]
  BY <1>0, AscendingFacts
<1>2. /\ RefRows(c, s, S) = [i \in DOMAIN hs |-> RefRow(c, s, hs[i])]
      /\ RefRows(d, s, S) = [i \in DOMAIN hs |-> RefRow(d, s, hs[i])]
  BY DEF RefRows
<1> HIDE DEF hs
<1>3. \A i \in DOMAIN hs : RefRow(c, s, hs[i]) = RefRow(d, s, hs[i])
  BY <1>1 DEF SameRows
<1> QED
  BY <1>2, <1>3

\* The validated requests that are answered without an aggregate.
PointKinds == {"state_ref", "balance"}

LEMMA ExpectedSame ==
    ASSUME NEW r \in Requests, r.kind \in PointKinds, r.by # "latest", NEW s,
           NEW c \in Seq(Body), NEW d \in Seq(Body), Named(r) <= Len(c), Named(r) <= Len(d),
           \A i \in 1..Named(r) : c[i] = d[i]
    PROVE  Expected(r, s, c) = Expected(r, s, d)
<1>0. /\ r.at \in Nat /\ r.from \in Nat /\ r.to \in Nat
      /\ r.by \in {"height", "range"}
      /\ r.kind = "state_ref" => r.by = "height"
  BY RequestAssumption
<1>1. CASE r.kind = "state_ref"
  <2>1. Named(r) = r.at
    BY <1>0, <1>1 DEF Named
  <2>2. RefCommit(c, r.at) = RefCommit(d, r.at)
    BY <1>0, <2>1, RefCommitSame
  <2> QED
    BY <1>1, <2>2 DEF Expected
<1>2. CASE r.kind = "balance" /\ r.by = "height"
  <2>1. Named(r) = r.at
    BY <1>2 DEF Named
  <2> DEFINE S == MovesOf(c, s, 1, r.at + 1)
  <2>2. S = MovesOf(d, s, 1, r.at + 1) /\ \A h \in S : RefRow(c, s, h) = RefRow(d, s, h)
    <3>0. PICK n \in Nat : n = r.at
      BY <1>0
    <3>a. PICK to \in Nat : to = n + 1
      OBVIOUS
    <3>b. PICK from \in Nat : from = 1
      OBVIOUS
    <3>1. n = r.at /\ from = 1 /\ to = r.at + 1
      BY <3>0, <3>a, <3>b
    <3>2. n <= Len(c) /\ n <= Len(d) /\ to - 1 <= n /\ \A i \in 1..n : c[i] = d[i]
      BY <2>1, <3>1
    <3>3. /\ MovesOf(c, s, from, to) = MovesOf(d, s, from, to)
          /\ \A h \in MovesOf(c, s, from, to) : RefRow(c, s, h) = RefRow(d, s, h)
      BY <3>2, MovesSame
    <3> QED
      BY <3>1, <3>3
  <2>3. S \subseteq 0..(r.at + 1)
    BY <1>0, MovesBounded
  <2>4. RefAt(c, s, r.at) = IF S = {} THEN ZeroRow ELSE RefRow(c, s, Max(S))
    BY DEF RefAt
  <2>5. RefAt(d, s, r.at) = IF S = {} THEN ZeroRow ELSE RefRow(d, s, Max(S))
    BY <2>2 DEF RefAt
  <2> HIDE DEF S
  <2>6. S # {} => Max(S) \in S
    <3>1. r.at + 1 \in Nat
      BY <1>0
    <3> QED
      BY <2>3, <3>1, GreatestOfBounded
  <2>7. RefAt(c, s, r.at) = RefAt(d, s, r.at)
    BY <2>2, <2>4, <2>5, <2>6
  <2> QED
    BY <1>2, <2>7 DEF Expected
<1>3. CASE r.kind = "balance" /\ r.by = "range"
  <2>1. r.to - 1 <= Named(r) \/ (MovesOf(c, s, r.from, r.to) = {} /\ MovesOf(d, s, r.from, r.to) = {})
    BY <1>0, <1>3 DEF Named, EmptyRange, MovesOf
  <2>2. Named(r) \in Nat
    BY <1>0, <1>3 DEF Named, EmptyRange
  <2>3. /\ MovesOf(c, s, r.from, r.to) = MovesOf(d, s, r.from, r.to)
        /\ \A h \in MovesOf(c, s, r.from, r.to) : RefRow(c, s, h) = RefRow(d, s, h)
    <3>1. CASE r.to - 1 <= Named(r)
      <4>1. PICK n \in Nat, from \in Nat, to \in Nat : n = Named(r) /\ from = r.from /\ to = r.to
        BY <1>0, <2>2
      <4>2. n <= Len(c) /\ n <= Len(d) /\ to - 1 <= n /\ \A i \in 1..n : c[i] = d[i]
        BY <3>1, <4>1
      <4>3. /\ MovesOf(c, s, from, to) = MovesOf(d, s, from, to)
            /\ \A h \in MovesOf(c, s, from, to) : RefRow(c, s, h) = RefRow(d, s, h)
        BY <4>2, MovesSame
      <4> QED
        BY <4>1, <4>3
    <3> QED
      BY <2>1, <3>1
  <2>4. MovesOf(c, s, r.from, r.to) \subseteq 0..r.to
    BY <1>0, MovesBounded
  <2>5. RefRows(c, s, MovesOf(c, s, r.from, r.to)) = RefRows(d, s, MovesOf(c, s, r.from, r.to))
    <3>0. PICK n : n = r.to
      OBVIOUS
    <3>1. PICK S : S = MovesOf(c, s, r.from, r.to)
      OBVIOUS
    <3>2. SameRows(c, d, s, S, n)
      BY <1>0, <2>3, <2>4, <3>0, <3>1 DEF SameRows
    <3>3. RefRows(c, s, S) = RefRows(d, s, S)
      BY ONLY <3>2, RefRowsSame
    <3> QED
      BY <3>1, <3>3
  <2> QED
    BY <1>3, <2>3, <2>5 DEF Expected
<1> QED
  BY <1>0, <1>1, <1>2, <1>3 DEF PointKinds

-----------------------------------------------------------------------------
(* The invariant of a request *)

\* A job in progress: what it has read still stands unless a rollback went below it.
JobProgress(j, r, floor, lowest, ht) ==
    /\ j.step # "done" => j.err = "none" /\ ~BadParams(r)
    /\ j.step = "commit" =>
           /\ j.stable \in Nat /\ j.stable <= MaxSyncHeight
           /\ MinOf(floor, lowest) <= j.stable
           /\ MinOf(j.stable, lowest) <= ht
    /\ j.step \in {"data", "start", "end"} /\ Validated(r) => MinOf(Named(r), lowest) <= ht
    /\ j.step \in {"start", "end"} => r.kind \in AggregateKinds

\* A refusal that was given was true.
JobRefusal(j, r, floor, lowest, ht, c) ==
    /\ j.err = "HEIGHT_NOT_SYNCED" => Named(r) > MinOf(floor, lowest)
    /\ j.err = "SNAPSHOT_NOT_READY" => floor = 0 \/ lowest < NoRollback
    /\ j.err = "HISTORY_NOT_AVAILABLE" => r.kind = "state_ref" /\ (r.at = 0 \/ lowest < Named(r))
    /\ j.err = "BLOCK_HASH_MISMATCH" =>
           /\ r.kind = "state_ref"
           /\ lowest >= Named(r) =>
                  /\ r.at \in 1..ht
                  /\ \A w \in r.want : w.selector = "stable_block_hash" => w.value # SubSeq(c, 1, r.at)

Points(r) == r.kind \in PointKinds /\ r.by # "latest"

Shows(r) == r.kind \in StoreReads \union {"snapshot_info"} /\ ~Validated(r)

ReadyOK(out, floor, lowest, ht, c) ==
    out.consensus_ready =>
        /\ out.snapshot.commit # << >>
        /\ lowest = NoRollback => /\ out.snapshot.height \in floor..ht
                                  /\ out.snapshot.commit = RefCommit(c, out.snapshot.height)

\* An answer that was given is the one of the chain below the store.
JobAnswer(j, s, r, floor, lowest, ht, c) ==
    j.step = "done" /\ j.err = "none" =>
        /\ Points(r) /\ lowest >= Named(r) => Named(r) <= ht /\ j.out = Expected(r, s, c)
        /\ Shows(r) /\ lowest >= NoRollback =>
               \E k \in floor..ht : j.out = Expected(r, s, SubSeq(c, 1, k))
        /\ r.kind = "readiness" => ReadyOK(j.out, floor, lowest, ht, c)

IsJob(j) == j = [step |-> j.step, stable |-> j.stable, range |-> j.range, start |-> j.start,
                 err |-> j.err, out |-> j.out]

JobOK(j, s, r, floor, lowest, ht, c) ==
    /\ IsJob(j)
    /\ JobProgress(j, r, floor, lowest, ht)
    /\ JobRefusal(j, r, floor, lowest, ht, c)
    /\ JobAnswer(j, s, r, floor, lowest, ht, c)

GhostOK(floor, lowest, ht) ==
    /\ floor \in Nat /\ floor <= MaxSyncHeight
    /\ lowest \in Nat /\ lowest <= NoRollback
    /\ MinOf(floor, lowest) <= ht

RequestOK(x, ht, c) ==
    x.jobs # << >> =>
        /\ x = [req |-> x.req, jobs |-> x.jobs, floor |-> x.floor, lowest |-> x.lowest]
        /\ x.req \in Requests
        /\ GhostOK(x.floor, x.lowest, ht)
        /\ \A s \in DOMAIN x.jobs : JobOK(x.jobs[s], s, x.req, x.floor, x.lowest, ht, c)

RequestInv == RequestOK(q, height, Committed)

LEMMA NamedNat == ASSUME NEW r \in Requests PROVE Named(r) \in Nat
<1>1. /\ r.at \in Nat /\ r.from \in Nat /\ r.to \in Nat
      /\ r.by \in {"latest", "height", "range"}
  BY RequestAssumption
<1>2. CASE r.by = "range"
  <2>1. Named(r) = IF EmptyRange(r) THEN 0 ELSE r.to - 1
    BY <1>2 DEF Named
  <2>2. ~EmptyRange(r) => r.from < r.to
    BY <1>1, <1>2 DEF EmptyRange
  <2> QED
    BY <1>1, <2>1, <2>2
<1>3. CASE r.by = "height"
  BY <1>1, <1>3 DEF Named
<1>4. CASE r.by = "latest"
  BY <1>4 DEF Named
<1> QED
  BY <1>1, <1>2, <1>3, <1>4

\* The loop moved from tip ht to tip ht2 and the request remembers how low a rollback went.
Moved(floor, lowest, ht, low2, ht2, c, d) ==
    /\ ht \in Nat /\ ht <= MaxSyncHeight /\ ht2 \in Nat /\ ht2 <= MaxSyncHeight
    /\ GhostOK(floor, lowest, ht)
    /\ low2 = IF ht2 < ht THEN MinOf(lowest, ht2) ELSE lowest
    /\ c \in Seq(Body) /\ Len(c) = ht /\ d \in Seq(Body) /\ Len(d) = ht2
    /\ \A i \in Nat : i >= 1 /\ i <= ht /\ i <= ht2 => d[i] = c[i]

MovedMeans(floor, lowest, ht, low2, ht2) ==
    /\ ht \in Nat /\ ht2 \in Nat /\ floor \in Nat
    /\ MaxSyncHeight \in Nat /\ NoRollback \in Nat
    /\ low2 \in Nat /\ lowest \in Nat /\ low2 <= lowest /\ lowest <= NoRollback
    /\ \A n \in Nat : n <= low2 /\ n <= ht => n <= ht2
    /\ \A n \in Nat : MinOf(n, lowest) <= ht => MinOf(n, low2) <= ht2
    /\ low2 >= NoRollback => ht <= ht2 /\ lowest >= NoRollback
    /\ GhostOK(floor, low2, ht2)

LEMMA MovedFacts ==
    ASSUME NEW floor, NEW lowest, NEW ht, NEW low2, NEW ht2, NEW c, NEW d,
           Moved(floor, lowest, ht, low2, ht2, c, d)
    PROVE  MovedMeans(floor, lowest, ht, low2, ht2)
<1>1. /\ ht \in Nat /\ ht2 \in Nat /\ ht2 <= MaxSyncHeight /\ MaxSyncHeight \in Nat
      /\ floor \in Nat /\ lowest \in Nat /\ lowest <= NoRollback
      /\ NoRollback = MaxSyncHeight + 1
      /\ low2 = IF ht2 < ht THEN MinOf(lowest, ht2) ELSE lowest
  BY ConfigAssumption DEF Moved, GhostOK, NoRollback
<1>2. low2 \in Nat /\ low2 <= lowest /\ (ht2 < ht => low2 <= ht2) /\ (ht2 >= ht => low2 = lowest)
  BY <1>1 DEF MinOf
<1>3. \A n \in Nat : MinOf(n, lowest) <= ht => MinOf(n, low2) <= ht2
  BY <1>1, <1>2 DEF MinOf
<1>4. GhostOK(floor, low2, ht2)
  BY <1>1, <1>2, <1>3 DEF GhostOK, Moved
<1>5. NoRollback \in Nat /\ (low2 >= NoRollback => ht <= ht2 /\ lowest >= NoRollback)
  BY <1>1, <1>2
<1>6. \A n \in Nat : n <= low2 /\ n <= ht => n <= ht2
  BY <1>1, <1>2
<1> QED
  BY <1>1, <1>2, <1>3, <1>4, <1>5, <1>6 DEF MovedMeans

LEMMA MovedProgress ==
    ASSUME NEW floor, NEW lowest, NEW ht, NEW low2, NEW ht2, NEW c, NEW d,
           Moved(floor, lowest, ht, low2, ht2, c, d), NEW j, NEW r \in Requests,
           JobProgress(j, r, floor, lowest, ht)
    PROVE  JobProgress(j, r, floor, low2, ht2)
<1>0. MovedMeans(floor, lowest, ht, low2, ht2)
  BY MovedFacts
<1>1. /\ low2 \in Nat /\ lowest \in Nat /\ low2 <= lowest /\ floor \in Nat
      /\ \A n \in Nat : MinOf(n, lowest) <= ht => MinOf(n, low2) <= ht2
  BY <1>0 DEF MovedMeans
<1>2. Named(r) \in Nat
  BY NamedNat
<1>3. ASSUME j.step = "commit"
      PROVE  /\ j.stable \in Nat /\ j.stable <= MaxSyncHeight
             /\ MinOf(floor, low2) <= j.stable
             /\ MinOf(j.stable, low2) <= ht2
  <2>1. /\ j.stable \in Nat /\ j.stable <= MaxSyncHeight
        /\ MinOf(floor, lowest) <= j.stable /\ MinOf(j.stable, lowest) <= ht
    BY <1>3 DEF JobProgress
  <2>2. MinOf(floor, low2) <= MinOf(floor, lowest) /\ MinOf(floor, low2) \in Nat /\ MinOf(floor, lowest) \in Nat
    BY <1>1 DEF MinOf
  <2> QED
    BY <1>1, <2>1, <2>2
<1> QED
  BY <1>1, <1>2, <1>3 DEF JobProgress

\* A chain below a height that both tips reach.
SameUpTo(c, d, n) ==
    /\ c \in Seq(Body) /\ d \in Seq(Body) /\ n <= Len(c) /\ n <= Len(d)
    /\ \A i \in 1..n : c[i] = d[i]
    /\ SubSeq(c, 1, n) = SubSeq(d, 1, n)
    /\ RefCommit(c, n) = RefCommit(d, n)

LEMMA MovedPrefix ==
    ASSUME NEW floor, NEW lowest, NEW ht, NEW low2, NEW ht2, NEW c, NEW d,
           Moved(floor, lowest, ht, low2, ht2, c, d), NEW n \in Nat, n <= ht, n <= ht2
    PROVE  SameUpTo(c, d, n)
<1>1. c \in Seq(Body) /\ d \in Seq(Body) /\ n <= Len(c) /\ n <= Len(d)
  BY DEF Moved
<1>2. \A i \in 1..n : c[i] = d[i]
  BY DEF Moved
<1> QED
  BY <1>1, <1>2, SamePrefix, RefCommitSame DEF SameUpTo

LEMMA MovedRefusal ==
    ASSUME NEW floor, NEW lowest, NEW ht, NEW low2, NEW ht2, NEW c, NEW d,
           Moved(floor, lowest, ht, low2, ht2, c, d), NEW j, NEW r \in Requests,
           JobRefusal(j, r, floor, lowest, ht, c)
    PROVE  JobRefusal(j, r, floor, low2, ht2, d)
<1>0. MovedMeans(floor, lowest, ht, low2, ht2)
  BY MovedFacts
<1>1. /\ low2 \in Nat /\ lowest \in Nat /\ low2 <= lowest /\ floor \in Nat
      /\ \A n \in Nat : n <= low2 /\ n <= ht => n <= ht2
      /\ ht \in Nat /\ ht2 \in Nat /\ MaxSyncHeight \in Nat
  BY <1>0 DEF MovedMeans
<1>2. Named(r) \in Nat /\ r.at \in Nat /\ (r.kind = "state_ref" => Named(r) = r.at)
  BY NamedNat, RequestAssumption DEF Named
<1>3. j.err = "HEIGHT_NOT_SYNCED" => Named(r) > MinOf(floor, low2)
  BY <1>1, <1>2 DEF JobRefusal, MinOf
<1>4. j.err = "SNAPSHOT_NOT_READY" => floor = 0 \/ low2 < NoRollback
  BY <1>1 DEF JobRefusal, NoRollback
<1>5. j.err = "HISTORY_NOT_AVAILABLE" => r.kind = "state_ref" /\ (r.at = 0 \/ low2 < Named(r))
  BY <1>1, <1>2 DEF JobRefusal
<1>6. ASSUME j.err = "BLOCK_HASH_MISMATCH", low2 >= Named(r)
      PROVE  /\ r.at \in 1..ht2
             /\ \A w \in r.want : w.selector = "stable_block_hash" => w.value # SubSeq(d, 1, r.at)
  <2>1. /\ r.kind = "state_ref" /\ r.at \in 1..ht
        /\ \A w \in r.want : w.selector = "stable_block_hash" => w.value # SubSeq(c, 1, r.at)
    BY <1>1, <1>2, <1>6 DEF JobRefusal
  <2>2. r.at <= ht /\ r.at <= ht2 /\ r.at \in 1..ht2
    BY <1>1, <1>2, <1>6, <2>1
  <2>3. SubSeq(c, 1, r.at) = SubSeq(d, 1, r.at)
    BY <1>2, <2>2, MovedPrefix DEF SameUpTo
  <2> QED
    BY <2>1, <2>2, <2>3
<1> QED
  BY <1>3, <1>4, <1>5, <1>6 DEF JobRefusal

LEMMA MovedAnswer ==
    ASSUME NEW floor, NEW lowest, NEW ht, NEW low2, NEW ht2, NEW c, NEW d,
           Moved(floor, lowest, ht, low2, ht2, c, d), NEW j, NEW s, NEW r \in Requests,
           JobAnswer(j, s, r, floor, lowest, ht, c)
    PROVE  JobAnswer(j, s, r, floor, low2, ht2, d)
<1> SUFFICES ASSUME j.step = "done", j.err = "none"
             PROVE  /\ Points(r) /\ low2 >= Named(r) => Named(r) <= ht2 /\ j.out = Expected(r, s, d)
                    /\ Shows(r) /\ low2 >= NoRollback =>
                           \E k \in floor..ht2 : j.out = Expected(r, s, SubSeq(d, 1, k))
                    /\ r.kind = "readiness" => ReadyOK(j.out, floor, low2, ht2, d)
  BY DEF JobAnswer
<1>0. MovedMeans(floor, lowest, ht, low2, ht2)
  BY MovedFacts
<1>1. /\ low2 \in Nat /\ lowest \in Nat /\ low2 <= lowest /\ floor \in Nat /\ lowest <= NoRollback
      /\ \A n \in Nat : n <= low2 /\ n <= ht => n <= ht2
      /\ low2 >= NoRollback => ht <= ht2 /\ lowest >= NoRollback
      /\ ht \in Nat /\ ht2 \in Nat /\ NoRollback \in Nat
  BY <1>0 DEF MovedMeans
<1>2. Named(r) \in Nat
  BY NamedNat
<1>3. ASSUME Points(r), low2 >= Named(r) PROVE Named(r) <= ht2 /\ j.out = Expected(r, s, d)
  <2>1. Named(r) <= ht /\ j.out = Expected(r, s, c)
    BY <1>1, <1>2, <1>3 DEF JobAnswer
  <2>2. Named(r) <= ht2
    BY <1>1, <1>2, <1>3, <2>1
  <2>3. /\ c \in Seq(Body) /\ d \in Seq(Body) /\ Named(r) <= Len(c) /\ Named(r) <= Len(d)
        /\ \A i \in 1..Named(r) : c[i] = d[i]
    BY <1>2, <2>1, <2>2, MovedPrefix DEF SameUpTo
  <2>4. Expected(r, s, c) = Expected(r, s, d)
    BY <1>3, <2>3, ExpectedSame DEF Points
  <2> QED
    BY <2>1, <2>2, <2>4
<1>4. ASSUME Shows(r), low2 >= NoRollback
      PROVE  \E k \in floor..ht2 : j.out = Expected(r, s, SubSeq(d, 1, k))
  <2>1. PICK k \in floor..ht : j.out = Expected(r, s, SubSeq(c, 1, k))
    BY <1>1, <1>4 DEF JobAnswer
  <2>2. k \in Nat /\ k <= ht /\ k <= ht2 /\ k \in floor..ht2
    BY <1>1, <1>4, <2>1
  <2>3. SubSeq(c, 1, k) = SubSeq(d, 1, k)
    BY <2>2, MovedPrefix DEF SameUpTo
  <2> QED
    BY <2>1, <2>2, <2>3
<1>5. ASSUME r.kind = "readiness", j.out.consensus_ready, low2 = NoRollback
      PROVE  /\ j.out.snapshot.height \in floor..ht2
             /\ j.out.snapshot.commit = RefCommit(d, j.out.snapshot.height)
  <2>0. lowest = NoRollback
    BY <1>1, <1>5
  <2>1. /\ j.out.snapshot.height \in floor..ht
        /\ j.out.snapshot.commit = RefCommit(c, j.out.snapshot.height)
    BY <1>5, <2>0 DEF JobAnswer, ReadyOK
  <2>2. PICK n : n = j.out.snapshot.height
    OBVIOUS
  <2>3. n \in Nat /\ n <= ht /\ n <= ht2 /\ n \in floor..ht2
    BY <1>1, <1>5, <2>1, <2>2
  <2>4. RefCommit(c, n) = RefCommit(d, n)
    BY <2>3, MovedPrefix DEF SameUpTo
  <2> QED
    BY <2>1, <2>2, <2>3, <2>4
<1>6. r.kind = "readiness" => ReadyOK(j.out, floor, low2, ht2, d)
  BY <1>5 DEF ReadyOK, JobAnswer
<1> QED
  BY <1>3, <1>4, <1>6

\* A step of the loop keeps what the jobs of a request know.
LEMMA JobMoved ==
    ASSUME NEW floor, NEW lowest, NEW ht, NEW low2, NEW ht2, NEW c, NEW d,
           Moved(floor, lowest, ht, low2, ht2, c, d), NEW j, NEW s, NEW r \in Requests,
           JobOK(j, s, r, floor, lowest, ht, c)
    PROVE  JobOK(j, s, r, floor, low2, ht2, d)
BY MovedProgress, MovedRefusal, MovedAnswer DEF JobOK

-----------------------------------------------------------------------------
(* A step of the sync loop under a request *)

SyncSeen ==
    /\ height \in Nat /\ height <= MaxSyncHeight /\ MaxSyncHeight \in Nat
    /\ Committed \in Seq(Body) /\ Len(Committed) = height /\ StoreHolds(Committed)

LEMMA SyncSees == SyncInv => SyncSeen
BY SyncFacts DEF SyncSeen

LEMMA LoopMoves ==
    ASSUME SyncInv, SyncInv', [Next]_vars, NEW floor, NEW lowest, GhostOK(floor, lowest, height)
    PROVE  Moved(floor, lowest, height, IF height' < height THEN MinOf(lowest, height') ELSE lowest,
                 height', Committed, Committed')
<1>1. SyncSeen /\ SyncSeen'
  BY SyncSees, PTL
<1>2. /\ height \in Nat /\ height <= MaxSyncHeight /\ Committed \in Seq(Body)
      /\ Len(Committed) = height /\ StoreHolds(Committed)
      /\ height' \in Nat /\ height' <= MaxSyncHeight /\ Committed' \in Seq(Body)
      /\ Len(Committed') = height' /\ StoreHolds(Committed)'
  BY <1>1 DEF SyncSeen
<1>3. IInv /\ IInv'
  BY DEF SyncInv
<1>4. ASSUME NEW i \in Nat, i >= 1, i <= height, i <= height' PROVE Committed'[i] = Committed[i]
  <2>1. \A k \in 1..i : Committed'[k] = Committed[k]
    BY <1>2, <1>3, <1>4, PrefixStays
  <2> QED
    BY <1>4, <2>1
<1> QED
  BY <1>2, <1>4 DEF Moved

LEMMA StepRequest ==
    ASSUME SyncInv, SyncInv', Next, Overtaken, RequestInv
    PROVE  RequestInv'
<1>1. CASE Crash \/ Restart
  <2>1. q' = Idle
    BY <1>1 DEF Overtaken
  <2> QED
    BY <2>1 DEF Idle, RequestInv, RequestOK
<1>2. CASE ~(Crash \/ Restart) /\ q.jobs = << >>
  <2>1. q' = q
    BY <1>2 DEF Overtaken
  <2> QED
    BY <1>2, <2>1 DEF RequestInv, RequestOK
<1>3. CASE ~(Crash \/ Restart) /\ q.jobs # << >>
  <2> DEFINE low2 == IF height' < height THEN MinOf(q.lowest, height') ELSE q.lowest
  <2>1. q' = IF height' < height THEN [q EXCEPT !.lowest = MinOf(@, height')] ELSE q
    BY <1>3 DEF Overtaken
  <2>2. /\ q = [req |-> q.req, jobs |-> q.jobs, floor |-> q.floor, lowest |-> q.lowest]
        /\ q.req \in Requests /\ GhostOK(q.floor, q.lowest, height)
        /\ \A s \in DOMAIN q.jobs :
               JobOK(q.jobs[s], s, q.req, q.floor, q.lowest, height, Committed)
    BY <1>3 DEF RequestInv, RequestOK
  <2>3. q' = [req |-> q.req, jobs |-> q.jobs, floor |-> q.floor, lowest |-> low2]
    BY <2>1, <2>2
  <2>4. Moved(q.floor, q.lowest, height, low2, height', Committed, Committed')
    BY <2>2, LoopMoves
  <2> HIDE DEF low2
  <2>5. PICK lo : lo = low2
    OBVIOUS
  <2>6. q' = [req |-> q.req, jobs |-> q.jobs, floor |-> q.floor, lowest |-> lo]
        /\ Moved(q.floor, q.lowest, height, lo, height', Committed, Committed')
    BY <2>3, <2>4, <2>5
  <2>7. /\ q'.req = q.req /\ q'.jobs = q.jobs /\ q'.floor = q.floor /\ q'.lowest = lo
        /\ q' = [req |-> q'.req, jobs |-> q'.jobs, floor |-> q'.floor, lowest |-> q'.lowest]
    BY <2>6
  <2>8. GhostOK(q.floor, lo, height')
    BY <2>6, MovedFacts DEF MovedMeans
  <2>9. \A s \in DOMAIN q.jobs : JobOK(q.jobs[s], s, q.req, q.floor, lo, height', Committed')
    BY <2>2, <2>6, JobMoved
  <2>10. RequestOK(q', height', Committed')
    BY <2>2, <2>7, <2>8, <2>9 DEF RequestOK
  <2> QED
    BY <2>10 DEF RequestInv
<1> QED
  BY <1>1, <1>2, <1>3

-----------------------------------------------------------------------------
(* The steps of a handler *)

\* What the other jobs know does not depend on the job that moves.
LEMMA JobBecomes ==
    ASSUME RequestInv, NEW s \in DOMAIN q.jobs, NEW job, Becomes(s, job),
           JobOK(job, s, q.req, q.floor, q.lowest, height, Committed)
    PROVE  RequestInv'
<1>1. height' = height /\ Committed' = Committed
  BY DEF Becomes, vars, dbVars, ledgerVars, Committed, CommitHash
<1>2. q.jobs # << >>
  OBVIOUS
<1>3. /\ q = [req |-> q.req, jobs |-> q.jobs, floor |-> q.floor, lowest |-> q.lowest]
      /\ q.req \in Requests /\ GhostOK(q.floor, q.lowest, height)
      /\ \A x \in DOMAIN q.jobs : JobOK(q.jobs[x], x, q.req, q.floor, q.lowest, height, Committed)
  BY <1>2 DEF RequestInv, RequestOK
<1>4. q' = [q EXCEPT !.jobs[s] = job]
  BY DEF Becomes
<1>5. q' = [req |-> q.req, jobs |-> [q.jobs EXCEPT ![s] = job], floor |-> q.floor,
            lowest |-> q.lowest]
  BY <1>3, <1>4
<1>6. /\ q'.req = q.req /\ q'.jobs = [q.jobs EXCEPT ![s] = job] /\ q'.floor = q.floor
      /\ q'.lowest = q.lowest
      /\ q' = [req |-> q'.req, jobs |-> q'.jobs, floor |-> q'.floor, lowest |-> q'.lowest]
  BY <1>5
<1>7. DOMAIN q'.jobs = DOMAIN q.jobs
      /\ \A x \in DOMAIN q.jobs : q'.jobs[x] = IF x = s THEN job ELSE q.jobs[x]
  BY <1>6
<1>8. \A x \in DOMAIN q.jobs : JobOK(q'.jobs[x], x, q.req, q.floor, q.lowest, height, Committed)
  BY <1>3, <1>7
<1>9. RequestOK(q', height, Committed)
  BY <1>3, <1>6, <1>7, <1>8 DEF RequestOK
<1> QED
  BY <1>1, <1>9 DEF RequestInv

\* The three ways a job goes on.
LEMMA ProgressOK ==
    ASSUME NEW j, NEW s, NEW r, NEW floor, NEW lowest, NEW ht, NEW c, IsJob(j),
           j.step # "done", j.err = "none", JobProgress(j, r, floor, lowest, ht)
    PROVE  JobOK(j, s, r, floor, lowest, ht, c)
BY DEF JobOK, JobRefusal, JobAnswer

LEMMA AnsweredIs ==
    ASSUME NEW x
    PROVE  /\ IsJob(Answered(x)) /\ Answered(x).step = "done" /\ Answered(x).err = "none"
           /\ Answered(x).out = x
BY DEF IsJob, Answered, Finished

LEMMA AnsweredOK ==
    ASSUME NEW x, NEW s, NEW r, NEW floor, NEW lowest, NEW ht, NEW c,
           Points(r) /\ lowest >= Named(r) => Named(r) <= ht /\ x = Expected(r, s, c),
           Shows(r) /\ lowest >= NoRollback =>
               \E k \in floor..ht : x = Expected(r, s, SubSeq(c, 1, k)),
           r.kind = "readiness" => ReadyOK(x, floor, lowest, ht, c)
    PROVE  JobOK(Answered(x), s, r, floor, lowest, ht, c)
<1>1. PICK j : j = Answered(x)
  OBVIOUS
<1>2. IsJob(j) /\ j.step = "done" /\ j.err = "none" /\ j.out = x
  BY <1>1, AnsweredIs
<1>3. JobProgress(j, r, floor, lowest, ht) /\ JobRefusal(j, r, floor, lowest, ht, c)
  BY <1>2 DEF JobProgress, JobRefusal
<1>4. JobAnswer(j, s, r, floor, lowest, ht, c)
  BY <1>2 DEF JobAnswer
<1> QED
  BY <1>1, <1>2, <1>3, <1>4 DEF JobOK

LEMMA RefusedIs ==
    ASSUME NEW code
    PROVE  IsJob(Refused(code)) /\ Refused(code).step = "done" /\ Refused(code).err = code
BY DEF IsJob, Refused, Finished

LEMMA RefusedOK ==
    ASSUME NEW code, code # "none", NEW s, NEW r, NEW floor, NEW lowest, NEW ht, NEW c,
           JobRefusal(Refused(code), r, floor, lowest, ht, c)
    PROVE  JobOK(Refused(code), s, r, floor, lowest, ht, c)
<1>1. PICK j : j = Refused(code)
  OBVIOUS
<1>2. IsJob(j) /\ j.step = "done" /\ j.err = code
  BY <1>1, RefusedIs
<1>3. JobProgress(j, r, floor, lowest, ht) /\ JobAnswer(j, s, r, floor, lowest, ht, c)
  BY <1>2 DEF JobProgress, JobAnswer
<1> QED
  BY <1>1, <1>2, <1>3 DEF JobOK

LEMMA AtIs ==
    ASSUME NEW step
    PROVE  IsJob(At(step)) /\ At(step).step = step /\ At(step).err = "none"
BY DEF IsJob, At, Finished

\* What a handler knows when it reads.
Knows(s, step) ==
    /\ s \in DOMAIN q.jobs /\ q.jobs # << >> /\ q.jobs[s].step = step
    /\ q.req \in Requests /\ ~BadParams(q.req) /\ Named(q.req) \in Nat
    /\ height \in Nat /\ height <= MaxSyncHeight /\ MaxSyncHeight \in Nat
    /\ NoRollback = MaxSyncHeight + 1 /\ NoRollback \in Nat
    /\ q.floor \in Nat /\ q.floor <= MaxSyncHeight /\ q.lowest \in Nat /\ q.lowest <= NoRollback
    /\ MinOf(q.floor, q.lowest) <= height
    /\ IsJob(q.jobs[s]) /\ q.jobs[s].err = "none"
    /\ JobProgress(q.jobs[s], q.req, q.floor, q.lowest, height)

LEMMA ReaderKnows ==
    ASSUME SyncInv, RequestInv, NEW s, NEW step, step # "done", Reading(s, step)
    PROVE  Knows(s, step)
<1>1. s \in DOMAIN q.jobs /\ q.jobs[s].step = step
  BY DEF Reading
<1>2. q.jobs # << >>
  BY <1>1
<1>3. /\ q.req \in Requests /\ GhostOK(q.floor, q.lowest, height)
      /\ JobOK(q.jobs[s], s, q.req, q.floor, q.lowest, height, Committed)
  BY <1>1, <1>2 DEF RequestInv, RequestOK
<1>4. /\ IsJob(q.jobs[s]) /\ q.jobs[s].err = "none" /\ ~BadParams(q.req)
      /\ JobProgress(q.jobs[s], q.req, q.floor, q.lowest, height)
  BY <1>1, <1>3 DEF JobOK, JobProgress
<1>5. Named(q.req) \in Nat
  BY <1>3, NamedNat
<1>6. height \in Nat /\ height <= MaxSyncHeight /\ MaxSyncHeight \in Nat
  BY SyncFacts
<1>7. /\ q.floor \in Nat /\ q.floor <= MaxSyncHeight /\ q.lowest \in Nat /\ q.lowest <= NoRollback
      /\ MinOf(q.floor, q.lowest) <= height
  BY <1>3 DEF GhostOK
<1>8. NoRollback = MaxSyncHeight + 1 /\ NoRollback \in Nat
  BY <1>6 DEF NoRollback
<1> QED
  BY <1>1, <1>2, <1>3, <1>4, <1>5, <1>6, <1>7, <1>8 DEF Knows

LEMMA StepReadStatus ==
    ASSUME SyncInv, RequestInv, NEW s, ReadStatus(s)
    PROVE  RequestInv'
<1>1. Knows(s, "status")
  BY ReaderKnows DEF ReadStatus
<1>2. PICK x : Becomes(s, [At("flags") EXCEPT !.start = x])
  BY DEF ReadStatus
<1>3. PICK j : j = [At("flags") EXCEPT !.start = x]
  OBVIOUS
<1>4. IsJob(j) /\ j.step = "flags" /\ j.err = "none"
  BY <1>3 DEF IsJob, At, Finished
<1>5. JobProgress(j, q.req, q.floor, q.lowest, height)
  BY <1>1, <1>4 DEF JobProgress, Knows
<1>6. JobOK(j, s, q.req, q.floor, q.lowest, height, Committed)
  BY <1>4, <1>5, ProgressOK
<1> QED
  BY <1>1, <1>2, <1>3, <1>6, JobBecomes DEF Knows

LEMMA StepReadFlags ==
    ASSUME SyncInv, RequestInv, NEW s, ReadFlags(s)
    PROVE  RequestInv'
<1>1. Knows(s, "flags")
  BY ReaderKnows DEF ReadFlags
<1>2. PICK x : Becomes(s, [q.jobs[s] EXCEPT !.step = "height", !.start = x])
  <2>1. Becomes(s, [q.jobs[s] EXCEPT !.step = "height",
                                     !.start.started = @ /\ ~statusRollback /\ ~shutdown])
    BY DEF ReadFlags
  <2>2. [q.jobs[s] EXCEPT !.step = "height", !.start.started = @ /\ ~statusRollback /\ ~shutdown]
        = [q.jobs[s] EXCEPT !.step = "height",
               !.start = [q.jobs[s].start EXCEPT !.started = @ /\ ~statusRollback /\ ~shutdown]]
    BY <1>1 DEF Knows, IsJob
  <2> QED
    BY <2>1, <2>2
<1>3. PICK j : j = [q.jobs[s] EXCEPT !.step = "height", !.start = x]
  OBVIOUS
<1>4. IsJob(j) /\ j.step = "height" /\ j.err = "none"
  BY <1>1, <1>3 DEF IsJob, Knows
<1>5. JobProgress(j, q.req, q.floor, q.lowest, height)
  BY <1>1, <1>4 DEF JobProgress, Knows
<1>6. JobOK(j, s, q.req, q.floor, q.lowest, height, Committed)
  BY <1>4, <1>5, ProgressOK
<1> QED
  BY <1>1, <1>2, <1>3, <1>6, JobBecomes DEF Knows

LEMMA StepReadStableHeight ==
    ASSUME SyncInv, RequestInv, NEW s, ReadStableHeight(s)
    PROVE  RequestInv'
<1>1. Knows(s, "height")
  BY ReaderKnows DEF ReadStableHeight
<1>2. Becomes(s, [q.jobs[s] EXCEPT !.step = "commit", !.stable = height])
  BY DEF ReadStableHeight
<1>3. PICK j : j = [q.jobs[s] EXCEPT !.step = "commit", !.stable = height]
  OBVIOUS
<1>4. IsJob(j) /\ j.step = "commit" /\ j.err = "none" /\ j.stable = height
  BY <1>1, <1>3 DEF IsJob, Knows
<1>5. MinOf(height, q.lowest) <= height
  BY <1>1 DEF Knows, MinOf
<1>6. JobProgress(j, q.req, q.floor, q.lowest, height)
  BY <1>1, <1>4, <1>5 DEF JobProgress, Knows
<1>7. JobOK(j, s, q.req, q.floor, q.lowest, height, Committed)
  BY <1>4, <1>6, ProgressOK
<1> QED
  BY <1>1, <1>2, <1>3, <1>7, JobBecomes DEF Knows

\* The stable height a job has read, and its commit.
LEMMA StableFacts ==
    ASSUME SyncInv, NEW s, Knows(s, "commit")
    PROVE  /\ Stable(s) \in Nat /\ Stable(s) <= MaxSyncHeight
           /\ MinOf(q.floor, q.lowest) <= Stable(s)
           /\ MinOf(Stable(s), q.lowest) <= height
           /\ Stable(s) \in DOMAIN commits <=> Stable(s) \in 1..height
           /\ q.lowest >= NoRollback => q.floor <= Stable(s) /\ Stable(s) <= height
           /\ Snapshot(s) = [height |-> Stable(s), commit |-> RefCommit(Committed, Stable(s))]
<1>1. /\ Stable(s) \in Nat /\ Stable(s) <= MaxSyncHeight
      /\ MinOf(q.floor, q.lowest) <= Stable(s)
      /\ MinOf(Stable(s), q.lowest) <= height
  BY DEF Knows, JobProgress, Stable
<1>2. DOMAIN commits = 1..height
  BY DEF SyncInv, IInv, NothingAboveTip
<1>3. q.lowest >= NoRollback => q.floor <= Stable(s) /\ Stable(s) <= height
  BY <1>1 DEF Knows, MinOf
<1>4. Snapshot(s) = [height |-> Stable(s), commit |-> RefCommit(Committed, Stable(s))]
  BY CommitRead DEF Snapshot
<1> QED
  BY <1>1, <1>2, <1>3, <1>4

LEMMA StepAnswerReadiness ==
    ASSUME SyncInv, RequestInv, NEW s, AnswerReadiness(s)
    PROVE  RequestInv'
<1>1. Knows(s, "commit") /\ q.req.kind = "readiness"
  BY ReaderKnows DEF AnswerReadiness
<1>2. PICK unverified \in BOOLEAN :
          Becomes(s, Answered([query_ready |-> q.jobs[s].start.started,
                               consensus_ready |-> /\ q.jobs[s].start.started
                                                   /\ q.jobs[s].start.current >= q.jobs[s].start.total
                                                   /\ Stable(s) \in DOMAIN commits
                                                   /\ ~unverified,
                               snapshot |-> Snapshot(s)]))
  BY DEF AnswerReadiness
<1>3. PICK x : x = [query_ready |-> q.jobs[s].start.started,
                    consensus_ready |-> /\ q.jobs[s].start.started
                                        /\ q.jobs[s].start.current >= q.jobs[s].start.total
                                        /\ Stable(s) \in DOMAIN commits
                                        /\ ~unverified,
                    snapshot |-> Snapshot(s)]
  OBVIOUS
<1>4. x.snapshot = Snapshot(s) /\ (x.consensus_ready => Stable(s) \in DOMAIN commits)
  BY <1>3
<1>5. ReadyOK(x, q.floor, q.lowest, height, Committed)
  <2>1. x.consensus_ready => Stable(s) \in 1..height
    BY <1>1, <1>4, StableFacts
  <2>2. x.snapshot.height = Stable(s) /\ x.snapshot.commit = RefCommit(Committed, Stable(s))
    BY <1>1, <1>4, StableFacts
  <2>3. x.consensus_ready => x.snapshot.commit # << >>
    BY <2>1, <2>2, SyncFacts DEF RefCommit
  <2>4. q.lowest = NoRollback => x.snapshot.height \in q.floor..height
    BY <1>1, <2>2, StableFacts DEF Knows
  <2> QED
    BY <2>2, <2>3, <2>4 DEF ReadyOK
<1>6. ~Points(q.req) /\ ~Shows(q.req)
  BY <1>1 DEF Points, Shows, PointKinds, StoreReads
<1>7. JobOK(Answered(x), s, q.req, q.floor, q.lowest, height, Committed)
  BY <1>5, <1>6, AnsweredOK
<1>8. Becomes(s, Answered(x))
  BY <1>2, <1>3
<1> QED
  BY <1>1, <1>7, <1>8, JobBecomes DEF Knows

LEMMA StepResolveSnapshot ==
    ASSUME SyncInv, RequestInv, NEW s, ResolveSnapshot(s)
    PROVE  RequestInv'
<1>1. Knows(s, "commit") /\ q.req.kind # "readiness"
  BY ReaderKnows DEF ResolveSnapshot
<1>2. /\ Stable(s) \in Nat /\ Stable(s) <= MaxSyncHeight
      /\ MinOf(q.floor, q.lowest) <= Stable(s)
      /\ MinOf(Stable(s), q.lowest) <= height
      /\ Stable(s) \in DOMAIN commits <=> Stable(s) \in 1..height
      /\ q.lowest >= NoRollback => q.floor <= Stable(s) /\ Stable(s) <= height
      /\ Snapshot(s) = [height |-> Stable(s), commit |-> RefCommit(Committed, Stable(s))]
  BY <1>1, StableFacts
<1>3. /\ q.req \in Requests /\ Named(q.req) \in Nat /\ height \in Nat /\ q.floor \in Nat
      /\ q.lowest \in Nat /\ q.lowest <= NoRollback /\ NoRollback \in Nat
      /\ q.floor <= MaxSyncHeight /\ NoRollback = MaxSyncHeight + 1 /\ MaxSyncHeight \in Nat
      /\ ~BadParams(q.req) /\ s \in DOMAIN q.jobs
  BY <1>1 DEF Knows
<1>4. CASE Stable(s) \notin DOMAIN commits
  <2>1. Becomes(s, Refused("SNAPSHOT_NOT_READY"))
    BY <1>4 DEF ResolveSnapshot
  <2>2. q.floor = 0 \/ q.lowest < NoRollback
    BY <1>2, <1>3, <1>4
  <2>3. JobRefusal(Refused("SNAPSHOT_NOT_READY"), q.req, q.floor, q.lowest, height, Committed)
    BY <2>2, RefusedIs DEF JobRefusal
  <2>4. JobOK(Refused("SNAPSHOT_NOT_READY"), s, q.req, q.floor, q.lowest, height, Committed)
    BY <2>3, RefusedOK
  <2> QED
    BY <1>3, <2>1, <2>4, JobBecomes
<1>5. CASE Stable(s) \in DOMAIN commits /\ HeightNotSynced(q.req, Stable(s))
  <2>1. Becomes(s, Refused("HEIGHT_NOT_SYNCED"))
    BY <1>5 DEF ResolveSnapshot
  <2>2. Named(q.req) > MinOf(q.floor, q.lowest)
    BY <1>2, <1>3, <1>5 DEF HeightNotSynced, MinOf
  <2>3. JobRefusal(Refused("HEIGHT_NOT_SYNCED"), q.req, q.floor, q.lowest, height, Committed)
    BY <2>2, RefusedIs DEF JobRefusal
  <2>4. JobOK(Refused("HEIGHT_NOT_SYNCED"), s, q.req, q.floor, q.lowest, height, Committed)
    BY <2>3, RefusedOK
  <2> QED
    BY <1>3, <2>1, <2>4, JobBecomes
<1>6. CASE Stable(s) \in DOMAIN commits /\ ~HeightNotSynced(q.req, Stable(s))
  <2>1. Becomes(s, IF BadBuckets(q.req) THEN Refused("INVALID_PARAMS")
                   ELSE IF q.req.kind = "snapshot_info" THEN Answered(Snapshot(s))
                   ELSE At("data"))
    BY <1>6 DEF ResolveSnapshot
  <2>2. JobOK(Refused("INVALID_PARAMS"), s, q.req, q.floor, q.lowest, height, Committed)
    <3>1. JobRefusal(Refused("INVALID_PARAMS"), q.req, q.floor, q.lowest, height, Committed)
      BY RefusedIs DEF JobRefusal
    <3> QED
      BY <3>1, RefusedOK
  <2>3. ASSUME q.req.kind = "snapshot_info"
        PROVE  JobOK(Answered(Snapshot(s)), s, q.req, q.floor, q.lowest, height, Committed)
    <3>1. ~Points(q.req)
      BY <2>3 DEF Points, PointKinds
    <3>2. ASSUME q.lowest >= NoRollback
          PROVE  \E k \in q.floor..height : Snapshot(s) = Expected(q.req, s, SubSeq(Committed, 1, k))
      <4>1. PICK k \in Nat : k = Stable(s)
        BY <1>2
      <4>2. q.floor <= k /\ k <= height
        BY <1>2, <3>2, <4>1
      <4>3. Committed \in Seq(Body) /\ Len(Committed) = height
        BY SyncFacts
      <4>4. PICK d : d = SubSeq(Committed, 1, k)
        OBVIOUS
      <4>5. d \in Seq(Body) /\ Len(d) = k /\ \A i \in 1..k : Committed[i] = d[i]
        BY <1>3, <4>2, <4>3, <4>4
      <4>6. RefCommit(Committed, k) = RefCommit(d, k)
        BY <1>3, <4>2, <4>3, <4>5, RefCommitSame
      <4>7. Expected(q.req, s, d) = [height |-> k, commit |-> RefCommit(d, k)]
        BY <2>3, <4>5 DEF Expected
      <4>8. Snapshot(s) = Expected(q.req, s, d)
        BY <1>2, <4>1, <4>6, <4>7
      <4>9. k \in q.floor..height
        BY <1>3, <4>2
      <4> QED
        BY <4>4, <4>8, <4>9
    <3> QED
      BY <2>3, <3>1, <3>2, AnsweredOK
  <2>4. JobOK(At("data"), s, q.req, q.floor, q.lowest, height, Committed)
    <3>1. Validated(q.req) => MinOf(Named(q.req), q.lowest) <= height
      BY <1>2, <1>3, <1>6 DEF Validated, HeightNotSynced, MinOf
    <3>2. JobProgress(At("data"), q.req, q.floor, q.lowest, height)
      BY <1>3, <3>1, AtIs DEF JobProgress
    <3> QED
      BY <3>2, AtIs, ProgressOK
  <2> QED
    BY <1>3, <2>1, <2>2, <2>3, <2>4, JobBecomes
<1> QED
  BY <1>4, <1>5, <1>6

\* The hash of a commit is the chain below it.
LEMMA HashRead ==
    ASSUME SyncInv, NEW h \in 1..height
    PROVE  CommitHash(h) = SubSeq(Committed, 1, h)
BY SyncFacts DEF StoreHolds

LEMMA LeastOfSelectors ==
    ASSUME NEW M, M \subseteq {1, 2, 3, 4}, M # {}
    PROVE  Min(M) \in M
<1>1. 1 \in M => \A y \in M : 1 <= y
  OBVIOUS
<1>2. 1 \notin M /\ 2 \in M => \A y \in M : 2 <= y
  OBVIOUS
<1>3. 1 \notin M /\ 2 \notin M /\ 3 \in M => \A y \in M : 3 <= y
  OBVIOUS
<1>4. 1 \notin M /\ 2 \notin M /\ 3 \notin M => 4 \in M /\ \A y \in M : 4 <= y
  <2>1. PICK z : z \in M
    OBVIOUS
  <2>2. 1 \notin M /\ 2 \notin M /\ 3 \notin M => \A y \in M : y = 4
    OBVIOUS
  <2>3. 1 \notin M /\ 2 \notin M /\ 3 \notin M => 4 \in M
    BY <2>1, <2>2
  <2> QED
    BY <2>2, <2>3
<1>5. \E x \in M : \A y \in M : x <= y
  BY <1>1, <1>2, <1>3, <1>4
<1> QED
  BY <1>5 DEF Min

LEMMA StepReadStateRef ==
    ASSUME SyncInv, RequestInv, NEW s, ReadStateRef(s)
    PROVE  RequestInv'
<1>1. Knows(s, "data") /\ q.req.kind = "state_ref"
  BY ReaderKnows DEF ReadStateRef
<1>2. /\ q.req \in Requests /\ height \in Nat /\ q.lowest \in Nat /\ s \in DOMAIN q.jobs
      /\ q.req.at \in Nat /\ q.req.by = "height" /\ Named(q.req) = q.req.at
  BY <1>1, RequestAssumption DEF Knows, Named
<1>3. Validated(q.req) /\ MinOf(q.req.at, q.lowest) <= height
  BY <1>1, <1>2 DEF Validated, SnapshotKinds, Knows, JobProgress
<1>4. DOMAIN commits = 1..height
  BY DEF SyncInv, IInv, NothingAboveTip
<1>5. CASE q.req.at \notin DOMAIN commits
  <2>1. Becomes(s, Refused("HISTORY_NOT_AVAILABLE"))
    BY <1>5 DEF ReadStateRef
  <2>2. q.req.at = 0 \/ q.lowest < q.req.at
    BY <1>2, <1>3, <1>4, <1>5 DEF MinOf
  <2>3. JobRefusal(Refused("HISTORY_NOT_AVAILABLE"), q.req, q.floor, q.lowest, height, Committed)
    BY <1>1, <1>2, <2>2, RefusedIs DEF JobRefusal
  <2>4. JobOK(Refused("HISTORY_NOT_AVAILABLE"), s, q.req, q.floor, q.lowest, height, Committed)
    BY <2>3, RefusedOK
  <2> QED
    BY <1>2, <2>1, <2>4, JobBecomes
<1>6. CASE q.req.at \in DOMAIN commits /\ Mismatches(q.req.want, q.req.at) # {}
  <2>1. PICK m : m = Min(Mismatches(q.req.want, q.req.at))
    OBVIOUS
  <2>2. Mismatches(q.req.want, q.req.at) \subseteq {1, 2, 3, 4}
    BY DEF Mismatches, Selectors
  <2>3. m \in Mismatches(q.req.want, q.req.at) /\ m \in {1, 2, 3, 4}
    BY <1>6, <2>1, <2>2, LeastOfSelectors
  <2>4. Becomes(s, Refused(MismatchCode(m)))
    BY <1>6, <2>1 DEF ReadStateRef
  <2>5. MismatchCode(m) \in {"SNAPSHOT_ID_MISMATCH", "BLOCK_HASH_MISMATCH", "VERSION_MISMATCH"}
        /\ (MismatchCode(m) = "BLOCK_HASH_MISMATCH" => m = 3)
    BY <2>3 DEF MismatchCode
  <2>6. ASSUME m = 3
        PROVE  \A w \in q.req.want : w.selector = "stable_block_hash" =>
                                         w.value # SubSeq(Committed, 1, q.req.at)
    <3>1. PICK v \in q.req.want : v.selector = Selectors[3]
                                  /\ v.value # Identity(q.req.at)[Selectors[3]]
      BY <2>3, <2>6 DEF Mismatches
    <3>2. Selectors[3] = "stable_block_hash"
      BY DEF Selectors
    <3>3. Identity(q.req.at)["stable_block_hash"] = CommitHash(q.req.at)
      BY DEF Identity
    <3>4. CommitHash(q.req.at) = SubSeq(Committed, 1, q.req.at)
      BY <1>4, <1>6, HashRead
    <3>5. \A w \in q.req.want : v.selector = w.selector => v = w
      BY <1>2, <3>1, RequestAssumption
    <3> QED
      BY <3>1, <3>2, <3>3, <3>4, <3>5
  <2>7. PICK code : code = MismatchCode(m)
    OBVIOUS
  <2>8. JobRefusal(Refused(code), q.req, q.floor, q.lowest, height, Committed)
    BY <1>1, <1>4, <1>6, <2>5, <2>6, <2>7, RefusedIs DEF JobRefusal
  <2>9. JobOK(Refused(code), s, q.req, q.floor, q.lowest, height, Committed)
    BY <2>5, <2>7, <2>8, RefusedOK
  <2> QED
    BY <1>2, <2>4, <2>7, <2>9, JobBecomes
<1>7. CASE q.req.at \in DOMAIN commits /\ Mismatches(q.req.want, q.req.at) = {}
  <2>1. PICK x : x = [height |-> q.req.at, commit |-> get_block_commit_entry(q.req.at)]
    OBVIOUS
  <2>2. Becomes(s, Answered(x))
    BY <1>7, <2>1 DEF ReadStateRef
  <2>3. x = Expected(q.req, s, Committed)
    BY <1>1, <2>1, CommitRead DEF Expected
  <2>4. q.req.at <= height
    BY <1>2, <1>4, <1>7
  <2>5. JobOK(Answered(x), s, q.req, q.floor, q.lowest, height, Committed)
    BY <1>1, <1>2, <1>3, <2>3, <2>4, AnsweredOK DEF Shows
  <2> QED
    BY <1>2, <2>2, <2>5, JobBecomes
<1> QED
  BY <1>5, <1>6, <1>7

LEMMA StepReadOnce ==
    ASSUME SyncInv, RequestInv, NEW s, ReadOnce(s)
    PROVE  RequestInv'
<1>1. Knows(s, "data") /\ q.req.kind \in StoreReads \union {"sync_status"}
  BY ReaderKnows DEF ReadOnce, StoreReads
<1>2. PICK x : x = OneRead(q.req, s)
  OBVIOUS
<1>3. Becomes(s, Answered(x)) /\ s \in DOMAIN q.jobs /\ q.req \in Requests
  BY <1>1, <1>2 DEF ReadOnce, Knows
<1>4. q.req.kind \in StoreReads => x = Expected(q.req, s, Committed)
  BY <1>1, <1>2, OneReadIsExpected DEF Knows
<1>5. ASSUME Points(q.req), q.lowest >= Named(q.req)
      PROVE  Named(q.req) <= height /\ x = Expected(q.req, s, Committed)
  <2>1. q.req.kind \in StoreReads /\ Validated(q.req)
    BY <1>1, <1>5 DEF Points, PointKinds, Validated, SnapshotKinds
  <2>2. MinOf(Named(q.req), q.lowest) <= height
    BY <1>1, <2>1 DEF Knows, JobProgress
  <2> QED
    BY <1>1, <1>4, <1>5, <2>1, <2>2 DEF Knows, MinOf
<1>6. ASSUME Shows(q.req), q.lowest >= NoRollback
      PROVE  \E k \in q.floor..height : x = Expected(q.req, s, SubSeq(Committed, 1, k))
  <2>1. q.req.kind \in StoreReads
    BY <1>1, <1>6 DEF Shows
  <2>2. SubSeq(Committed, 1, height) = Committed
    BY SyncFacts
  <2>3. height \in q.floor..height
    BY <1>1, <1>6 DEF Knows, MinOf
  <2> QED
    BY <1>4, <2>1, <2>2, <2>3
<1>7. q.req.kind # "readiness"
  BY <1>1 DEF StoreReads
<1>8. JobOK(Answered(x), s, q.req, q.floor, q.lowest, height, Committed)
  BY <1>5, <1>6, <1>7, AnsweredOK
<1> QED
  BY <1>3, <1>8, JobBecomes

\* The aggregates say nothing here: their sums are compared by TLC.
LEMMA AggregateOK ==
    ASSUME NEW x, NEW s, NEW r, r.kind \in AggregateKinds, NEW floor, NEW lowest, NEW ht, NEW c
    PROVE  JobOK(Answered(x), s, r, floor, lowest, ht, c)
<1>1. ~Points(r) /\ ~Shows(r) /\ r.kind # "readiness"
  BY DEF AggregateKinds, Points, PointKinds, Shows, StoreReads
<1> QED
  BY <1>1, AnsweredOK

LEMMA StepReadRange ==
    ASSUME SyncInv, RequestInv, NEW s, ReadRange(s)
    PROVE  RequestInv'
<1>1. Knows(s, "data") /\ q.req.kind \in AggregateKinds /\ s \in DOMAIN q.jobs
  BY ReaderKnows DEF ReadRange, Reading
<1>2. PICK range : Becomes(s, IF q.req.kind = "flow" THEN Answered(FlowBuckets(q.req, range))
                              ELSE [At("start") EXCEPT !.range = range])
  BY DEF ReadRange
<1>3. PICK j : j = [At("start") EXCEPT !.range = range]
  OBVIOUS
<1>4. IsJob(j) /\ j.step = "start" /\ j.err = "none"
  BY <1>3 DEF IsJob, At, Finished
<1>5. JobProgress(j, q.req, q.floor, q.lowest, height)
  BY <1>1, <1>4 DEF JobProgress, Knows
<1>6. JobOK(j, s, q.req, q.floor, q.lowest, height, Committed)
  BY <1>4, <1>5, ProgressOK
<1>7. JobOK(Answered(FlowBuckets(q.req, range)), s, q.req, q.floor, q.lowest, height, Committed)
  BY <1>1, AggregateOK
<1> QED
  BY <1>1, <1>2, <1>3, <1>6, <1>7, JobBecomes

LEMMA StepReadStart ==
    ASSUME SyncInv, RequestInv, NEW s, ReadStart(s)
    PROVE  RequestInv'
<1>1. Knows(s, "start") /\ s \in DOMAIN q.jobs
  BY ReaderKnows DEF ReadStart, Reading
<1>2. q.req.kind \in AggregateKinds
  BY <1>1 DEF Knows, JobProgress
<1>3. PICK start : Becomes(s, IF q.req.kind = "timeseries"
                              THEN Answered(Buckets(q.req, q.jobs[s].range, start))
                              ELSE [q.jobs[s] EXCEPT !.step = "end", !.start = start])
  BY DEF ReadStart
<1>4. PICK j : j = [q.jobs[s] EXCEPT !.step = "end", !.start = start]
  OBVIOUS
<1>5. IsJob(j) /\ j.step = "end" /\ j.err = "none"
  BY <1>1, <1>4 DEF IsJob, Knows
<1>6. JobProgress(j, q.req, q.floor, q.lowest, height)
  BY <1>1, <1>2, <1>5 DEF JobProgress, Knows
<1>7. JobOK(j, s, q.req, q.floor, q.lowest, height, Committed)
  BY <1>5, <1>6, ProgressOK
<1>8. JobOK(Answered(Buckets(q.req, q.jobs[s].range, start)), s, q.req, q.floor, q.lowest, height,
            Committed)
  BY <1>2, AggregateOK
<1> QED
  BY <1>1, <1>3, <1>4, <1>7, <1>8, JobBecomes

LEMMA StepReadEnd ==
    ASSUME SyncInv, RequestInv, NEW s, ReadEnd(s)
    PROVE  RequestInv'
<1>1. Knows(s, "end") /\ s \in DOMAIN q.jobs
  BY ReaderKnows DEF ReadEnd, Reading
<1>2. q.req.kind \in AggregateKinds
  BY <1>1 DEF Knows, JobProgress
<1>3. PICK x : Becomes(s, Answered(x))
  BY DEF ReadEnd
<1>4. JobOK(Answered(x), s, q.req, q.floor, q.lowest, height, Committed)
  BY <1>2, AggregateOK
<1> QED
  BY <1>1, <1>3, <1>4, JobBecomes

\* The rows of an empty range.
LEMMA EmptyAnswer ==
    ASSUME NEW r \in Requests, EmptyRange(r), r.kind \in {"balance", "delta"}, NEW s, NEW c
    PROVE  Expected(r, s, c) = << >>
<1>1. r.from \in Nat /\ r.to \in Nat /\ r.by = "range" /\ r.from >= r.to
  BY RequestAssumption DEF EmptyRange
<1>2. MovesOf(c, s, r.from, r.to) = {}
  BY <1>1 DEF MovesOf
<1>3. Expected(r, s, c) = RefRows(c, s, MovesOf(c, s, r.from, r.to))
  BY <1>1 DEF Expected
<1> QED
  BY <1>2, <1>3, RowsOfNothing

\* A request starts from the height it meets.
LEMMA FirstReadOK ==
    ASSUME SyncInv, NEW r \in Requests, NEW s
    PROVE  JobOK(FirstRead(r), s, r, height, NoRollback, height, Committed)
<1>0. /\ height \in Nat /\ height <= MaxSyncHeight /\ MaxSyncHeight \in Nat
      /\ NoRollback = MaxSyncHeight + 1 /\ Named(r) \in Nat
  BY SyncFacts, NamedNat DEF NoRollback
<1>1. CASE BadParams(r)
  <2>0. r.kind # "readiness"
    BY <1>1 DEF BadParams, AggregateKinds
  <2>1. FirstRead(r) = Refused("INVALID_PARAMS")
    BY <1>1, <2>0 DEF FirstRead
  <2>2. JobRefusal(Refused("INVALID_PARAMS"), r, height, NoRollback, height, Committed)
    BY RefusedIs DEF JobRefusal
  <2> QED
    BY <2>1, <2>2, RefusedOK
<1>2. CASE ~BadParams(r) /\ r.kind \in {"balance", "delta"} /\ EmptyRange(r)
  <2>1. FirstRead(r) = Answered(<< >>)
    BY <1>2 DEF FirstRead
  <2>2. \A c : Expected(r, s, c) = << >>
    BY <1>2, EmptyAnswer
  <2>3. Named(r) <= height
    BY <1>0, <1>2 DEF Named, EmptyRange
  <2>4. height \in height..height
    BY <1>0
  <2>5. JobOK(Answered(<< >>), s, r, height, NoRollback, height, Committed)
    BY <1>2, <2>2, <2>3, <2>4, AnsweredOK
  <2> QED
    BY <2>1, <2>5
<1>3. CASE ~BadParams(r) /\ ~(r.kind \in {"balance", "delta"} /\ EmptyRange(r))
  <2>1. PICK step \in {"status", "height", "data"} :
            FirstRead(r) = At(step) /\ (step = "data" => r.kind \notin SnapshotKinds)
    <3>1. CASE r.kind = "readiness"
      BY <1>3, <3>1 DEF FirstRead
    <3>2. CASE r.kind # "readiness"
      BY <1>3, <3>2 DEF FirstRead
    <3> QED
      BY <3>1, <3>2
  <2>2. JobProgress(At(step), r, height, NoRollback, height)
    BY <1>3, <2>1, AtIs DEF JobProgress, Validated
  <2>3. JobOK(At(step), s, r, height, NoRollback, height, Committed)
    BY <2>1, <2>2, AtIs, ProgressOK
  <2> QED
    BY <2>1, <2>3
<1> QED
  BY <1>1, <1>2, <1>3

LEMMA StepAccept ==
    ASSUME SyncInv, RequestInv, NEW kind, Accept(kind)
    PROVE  RequestInv'
<1>1. height' = height /\ Committed' = Committed
  BY DEF Accept, vars, dbVars, ledgerVars, Committed, CommitHash
<1>2. PICK r \in Requests :
          q' = [req |-> r, jobs |-> [s \in r.subjects |-> FirstRead(r)], floor |-> height,
                lowest |-> NoRollback]
  BY DEF Accept
<1>3. PICK jobs : jobs = [s \in r.subjects |-> FirstRead(r)]
  OBVIOUS
<1>4. q' = [req |-> r, jobs |-> jobs, floor |-> height, lowest |-> NoRollback]
  BY <1>2, <1>3
<1>5. /\ q'.req = r /\ q'.jobs = jobs /\ q'.floor = height /\ q'.lowest = NoRollback
      /\ q' = [req |-> q'.req, jobs |-> q'.jobs, floor |-> q'.floor, lowest |-> q'.lowest]
  BY <1>4
<1>6. \A s \in DOMAIN jobs : JobOK(jobs[s], s, r, height, NoRollback, height, Committed)
  BY <1>3, FirstReadOK
<1>7. GhostOK(height, NoRollback, height)
  <2>1. height \in Nat /\ height <= MaxSyncHeight /\ MaxSyncHeight \in Nat
    BY SyncFacts
  <2> QED
    BY <2>1 DEF GhostOK, NoRollback, MinOf
<1>8. RequestOK(q', height, Committed)
  BY <1>5, <1>6, <1>7 DEF RequestOK
<1> QED
  BY <1>1, <1>8 DEF RequestInv

LEMMA StepService ==
    ASSUME SyncInv, RequestInv, ServiceStep
    PROVE  RequestInv'
<1>1. CASE StartRequest
  BY <1>1, StepAccept
     DEF StartRequest, get_block_height, get_sync_status, get_snapshot_info, get_readiness,
         get_state_ref_at_height, get_block_commit, get_address_balance, get_address_balance_delta,
         get_address_balance_summary, get_address_balance_timeseries, get_address_flow_buckets,
         get_live_utxo
<1>2. ASSUME NEW s \in DOMAIN q.jobs, JobStep(s) PROVE RequestInv'
  BY <1>2, StepReadStatus, StepReadFlags, StepReadStableHeight, StepAnswerReadiness,
     StepResolveSnapshot, StepReadStateRef, StepReadOnce, StepReadRange, StepReadStart, StepReadEnd
     DEF JobStep
<1>3. CASE FinishRequest
  BY <1>3 DEF FinishRequest, Idle, RequestInv, RequestOK
<1>4. CASE Stop
  <2>1. height' = height /\ Committed' = Committed /\ q' = q
    BY <1>4 DEF Stop, vars, dbVars, ledgerVars, Committed, CommitHash
  <2> QED
    BY <2>1 DEF RequestInv
<1> QED
  BY <1>1, <1>2, <1>3, <1>4 DEF ServiceStep

-----------------------------------------------------------------------------
(* The invariant of the composition, and its theorems *)

ServiceInv == SyncInv /\ RequestInv

LEMMA ServiceStepsOfSync == ServiceNext => [Next]_vars
BY DEF ServiceNext, IndexerStep, ServiceStep, StartRequest, get_block_height, get_sync_status,
       get_snapshot_info, get_readiness, get_state_ref_at_height, get_block_commit,
       get_address_balance, get_address_balance_delta, get_address_balance_summary,
       get_address_balance_timeseries, get_address_flow_buckets, get_live_utxo, Accept, JobStep,
       ReadStatus, ReadFlags, ReadStableHeight, AnswerReadiness, ResolveSnapshot, ReadStateRef,
       ReadOnce, ReadRange, ReadStart, ReadEnd, Becomes, FinishRequest, Stop

\* The requests only read: the composition is a behaviour of the sync loop.
LEMMA ServiceImplementsSync == ServiceSpec => Spec
<1>1. ServiceInit => Init
  BY DEF ServiceInit
<1>2. [ServiceNext]_allVars => [Next]_vars
  BY ServiceStepsOfSync DEF allVars
<1> QED
  BY <1>1, <1>2, PTL DEF ServiceSpec, Spec

LEMMA ServiceInductive == ASSUME ReplayConditions PROVE ServiceSpec => []ServiceInv
<1>1. ServiceInit => RequestInv
  BY DEF ServiceInit, Idle, RequestInv, RequestOK
<1>2. SyncInv /\ SyncInv' /\ RequestInv /\ [ServiceNext]_allVars => RequestInv'
  <2> SUFFICES ASSUME SyncInv, SyncInv', RequestInv, [ServiceNext]_allVars PROVE RequestInv'
    OBVIOUS
  <2>1. CASE IndexerStep
    BY <2>1, StepRequest DEF IndexerStep
  <2>2. CASE ServiceStep
    BY <2>2, StepService
  <2>3. CASE UNCHANGED allVars
    <3>1. height' = height /\ Committed' = Committed /\ q' = q
      BY <2>3 DEF allVars, vars, dbVars, ledgerVars, Committed, CommitHash
    <3> QED
      BY <3>1 DEF RequestInv
  <2> QED
    BY <2>1, <2>2, <2>3 DEF ServiceNext
<1>3. ServiceSpec => []SyncInv
  BY ServiceImplementsSync, SyncInductive, PTL
<1> QED
  BY <1>1, <1>2, <1>3, PTL DEF ServiceSpec, ServiceInv

LEMMA InvAnswers == ServiceInv => AnswersAreOneState
<1> SUFFICES ASSUME ServiceInv, Undisturbed,
                    q.req.kind \notin AggregateKinds \union {"none", "readiness", "sync_status"}
             PROVE  IF Validated(q.req) THEN OneStateFor(Succeeded)
                    ELSE \A s \in Succeeded : OneStateFor({s})
  BY DEF AnswersAreOneState
<1>1. \A s \in Succeeded :
         /\ s \in DOMAIN q.jobs /\ q.jobs[s].step = "done" /\ q.jobs[s].err = "none"
         /\ q.jobs # << >>
  BY DEF Succeeded
<1>2. \A s \in Succeeded :
         /\ q.req \in Requests
         /\ JobAnswer(q.jobs[s], s, q.req, q.floor, q.lowest, height, Committed)
  BY <1>1 DEF ServiceInv, RequestInv, RequestOK, JobOK
<1>3. ASSUME Validated(q.req) PROVE OneStateFor(Succeeded)
  <2>1. \A s \in Succeeded : Points(q.req)
    BY <1>2, <1>3, RequestAssumption DEF Validated, SnapshotKinds, Points, PointKinds
  <2>2. \A s \in Succeeded : q.jobs[s].out = Expected(q.req, s, Committed)
    BY <1>1, <1>2, <1>3, <2>1 DEF JobAnswer, Undisturbed
  <2>3. Committed \in Possible
    BY <1>3 DEF Possible
  <2> QED
    BY <2>2, <2>3 DEF OneStateFor
<1>4. ASSUME ~Validated(q.req), NEW s \in Succeeded PROVE OneStateFor({s})
  <2>1. Shows(q.req)
    BY <1>2, <1>4, RequestAssumption DEF Validated, SnapshotKinds, Shows, StoreReads
  <2>2. PICK k \in q.floor..height : q.jobs[s].out = Expected(q.req, s, SubSeq(Committed, 1, k))
    BY <1>1, <1>2, <1>4, <2>1 DEF JobAnswer, Undisturbed
  <2>3. SubSeq(Committed, 1, k) \in Possible
    BY <1>4, <2>2 DEF Possible
  <2> QED
    BY <2>2, <2>3 DEF OneStateFor
<1> QED
  BY <1>3, <1>4

LEMMA InvRefusals == ServiceInv => RefusalsAreTrue
<1> SUFFICES ASSUME ServiceInv, NEW code, code \in Refusals
             PROVE  /\ code = "HEIGHT_NOT_SYNCED" => Named(q.req) > MinOf(q.floor, q.lowest)
                    /\ code = "SNAPSHOT_NOT_READY" => q.floor = 0 \/ q.lowest < NoRollback
                    /\ code = "HISTORY_NOT_AVAILABLE" => q.req.at = 0 \/ ~Undisturbed
                    /\ code = "BLOCK_HASH_MISMATCH" /\ Undisturbed =>
                           Want("stable_block_hash", SubSeq(Committed, 1, q.req.at)) \notin q.req.want
  BY DEF RefusalsAreTrue
<1>1. PICK s \in DOMAIN q.jobs : q.jobs[s].err = code
  BY DEF Refusals
<1>2. q.jobs # << >>
  BY <1>1
<1>3. /\ q.req \in Requests /\ GhostOK(q.floor, q.lowest, height)
      /\ JobRefusal(q.jobs[s], q.req, q.floor, q.lowest, height, Committed)
  BY <1>1, <1>2 DEF ServiceInv, RequestInv, RequestOK, JobOK
<1>4. Named(q.req) \in Nat /\ q.lowest \in Nat
  BY <1>3, NamedNat DEF GhostOK
<1>5. q.req.kind = "state_ref" => Validated(q.req)
  BY <1>3, RequestAssumption DEF Validated, SnapshotKinds
<1>6. q.req.kind = "state_ref" /\ Undisturbed => q.lowest >= Named(q.req)
  BY <1>5 DEF Undisturbed
<1>7. code = "HISTORY_NOT_AVAILABLE" => q.req.at = 0 \/ ~Undisturbed
  BY <1>1, <1>3, <1>4, <1>6 DEF JobRefusal
<1>8. ASSUME code = "BLOCK_HASH_MISMATCH", Undisturbed
      PROVE  Want("stable_block_hash", SubSeq(Committed, 1, q.req.at)) \notin q.req.want
  <2>1. \A w \in q.req.want : w.selector = "stable_block_hash" =>
                                  w.value # SubSeq(Committed, 1, q.req.at)
    BY <1>1, <1>3, <1>6, <1>8 DEF JobRefusal
  <2> QED
    BY <2>1 DEF Want
<1> QED
  BY <1>1, <1>3, <1>7, <1>8 DEF JobRefusal

LEMMA InvReady == ServiceInv => ReadyNamesACommit
<1> SUFFICES ASSUME ServiceInv, q.req.kind = "readiness", NEW s \in Succeeded
             PROVE  ReadyOK(q.jobs[s].out, q.floor, q.lowest, height, Committed)
  BY DEF ReadyNamesACommit, ReadyOK
<1>1. s \in DOMAIN q.jobs /\ q.jobs[s].step = "done" /\ q.jobs[s].err = "none"
  BY DEF Succeeded
<1>2. q.jobs # << >>
  BY <1>1
<1> QED
  BY <1>1, <1>2 DEF ServiceInv, RequestInv, RequestOK, JobOK, JobAnswer

(***************************************************************************)
(* The handlers of the service (get_address_balance and the others of      *)
(* server.rs) only read: the service and the sync loop together are the    *)
(* sync loop, so whatever is proved of the loop holds under any requests.  *)
(***************************************************************************)
THEOREM ServiceOnlyReads == ServiceSpec => Spec
BY ServiceImplementsSync

(***************************************************************************)
(* For any chains, requests and batch sizes, the answer to a request that  *)
(* is validated against the stable height is one state of the chain for    *)
(* all its addresses, the blocks committed at the heights it names; the    *)
(* answer for each subject of any other request is some tip the request    *)
(* lived through; although all is read one RocksDB get at a time while     *)
(* batches are flushed and blocks undone.  Only a rollback below the       *)
(* heights may mix two chains.                                             *)
(***************************************************************************)
THEOREM ServiceAnswersAreOneState ==
    ASSUME ReplayConditions
    PROVE  ServiceSpec => []AnswersAreOneState
BY ServiceInductive, InvAnswers, PTL

(***************************************************************************)
(* Every refusal of the service is true: HEIGHT_NOT_SYNCED,                *)
(* SNAPSHOT_NOT_READY, HISTORY_NOT_AVAILABLE and BLOCK_HASH_MISMATCH are   *)
(* given only when the store was really so, or a rollback overtook the     *)
(* request between its reads.                                              *)
(***************************************************************************)
THEOREM ServiceRefusalsAreTrue ==
    ASSUME ReplayConditions
    PROVE  ServiceSpec => []RefusalsAreTrue
BY ServiceInductive, InvRefusals, PTL

(***************************************************************************)
(* A node whose get_readiness says consensus_ready names a height that has *)
(* a commit and, unless a rollback came between the reads, the commit of   *)
(* the chain at that height.                                               *)
(***************************************************************************)
THEOREM ServiceReadyNamesACommit ==
    ASSUME ReplayConditions
    PROVE  ServiceSpec => []ReadyNamesACommit
BY ServiceInductive, InvReady, PTL

=============================================================================
