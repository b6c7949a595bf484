------------------------ MODULE BalanceHistoryProofs ------------------------
(***************************************************************************)
(* Theorems about BalanceHistoryIndexer, for any set of chains, any batch  *)
(* size, undo retention and number of reorganisations and faults.          *)
(***************************************************************************)
EXTENDS BalanceHistoryIndexer, SumProofs

\* The blocks of the batch in memory are well formed: a hash at height h is a chain of h bodies.
LoadedOK ==
    /\ DOMAIN loaded \subseteq Nat
    /\ \A h \in DOMAIN loaded : /\ h >= 1
                                /\ loaded[h] \in Seq(Body)
                                /\ Len(loaded[h]) = h

\* Where the batch loop stands relative to the height in the store.
BatchOK ==
    /\ pc = "load" => cur = height + 1 /\ cur <= latest
    /\ pc = "prune" => cur <= latest /\ height = BatchEnd

\* A bundle names every script that has a row at its height, so that undoing the
\* block leaves no row of it behind.
UndoCoversRows ==
    \A k \in DOMAIN rows : k[2] \in DOMAIN undo => k[1] \in undo[k[2]].touched

\* The marker is up exactly where the loop has raised it, or where an earlier pass left it.
MarkerOK ==
    /\ pc = "mark_next" => rbTarget = target
    /\ pc \in {"undo", "put_next"} => rbTarget = target
    /\ pc = "undo" => rbNext = height
    /\ pc = "put_next" => rbNext = height + 1
    /\ pc \in {"mark_target", "mark_next", "undo", "put_next"} => rbInProgress
    /\ rbInProgress => pc \in {"sync_once", "mark_target", "mark_next", "undo", "put_next"}
    /\ pc \in RollbackPCs \union {"clear_target", "clear_next"} => statusRollback
    /\ pc = "search" => target <= height

IInv ==
    /\ TypeOK
    /\ LoadedOK
    /\ BatchOK
    /\ NothingAboveTip
    /\ UndoCoversRows
    /\ MarkerOK
    /\ UndoCoversRollback
    /\ QueryReadyMeansSettled

-----------------------------------------------------------------------------
(* Operators of the store *)

LEMMA PutDomain == \A f, g : DOMAIN Put(f, g) = DOMAIN f \union DOMAIN g
BY DEF Put

LEMMA DeleteDomain == \A f, S : DOMAIN Delete(f, S) = DOMAIN f \ S
BY DEF Delete, Restrict

LEMMA DeleteValue == \A f, S : \A x \in DOMAIN f \ S : Delete(f, S)[x] = f[x]
BY DEF Delete, Restrict

LEMMA SatSubNat == \A a \in Nat, b \in Int : b >= 0 => SatSub(a, b) \in Nat
BY DEF SatSub

LEMMA StableTargetNat == TypeOK => StableTarget \in Nat
<1>1. SUFFICES ASSUME TypeOK PROVE StableTarget \in Nat
  OBVIOUS
<1>2. Len(chain) \in Nat
  BY ChainAssumption DEF TypeOK, EnvTypeOK
<1> QED
  BY <1>2, ConfigAssumption DEF StableTarget, MinOf, SatSub

-----------------------------------------------------------------------------
LEMMA InitIInv == Init => IInv
<1>1. SUFFICES ASSUME Init PROVE IInv
  OBVIOUS
<1> USE DEF Init, EmptyDB, EmptyMemory, EmptyLoop
<1>e. DOMAIN << >> = {} /\ 1..0 = {}
  OBVIOUS
<1>2. TypeOK
  <2>1. StoreTypeOK
    BY <1>1, <1>e DEF StoreTypeOK
  <2>2. JournalTypeOK
    BY <1>1 DEF JournalTypeOK
  <2>3. MemoryTypeOK
    BY <1>1, <1>e DEF MemoryTypeOK
  <2>4. LoopTypeOK
    BY <1>1 DEF LoopTypeOK, PCs
  <2>5. EnvTypeOK
    BY <1>1, ConfigAssumption DEF EnvTypeOK
  <2> QED
    BY <2>1, <2>2, <2>3, <2>4, <2>5 DEF TypeOK
<1>3. LoadedOK
  BY <1>1, <1>e DEF LoadedOK
<1>4. BatchOK
  BY <1>1 DEF BatchOK
<1>5. NothingAboveTip
  BY <1>1, <1>e DEF NothingAboveTip
<1>6. UndoCoversRows
  BY <1>1, <1>e DEF UndoCoversRows
<1>7. MarkerOK
  BY <1>1 DEF MarkerOK, RollbackPCs
<1>8. UndoCoversRollback
  BY <1>1 DEF UndoCoversRollback, RollbackPCs
<1>9. QueryReadyMeansSettled
  BY <1>1 DEF QueryReadyMeansSettled, query_ready
<1> QED
  BY <1>2, <1>3, <1>4, <1>5, <1>6, <1>7, <1>8, <1>9 DEF IInv

\* The store is what it was: so is everything that only speaks of it.
LEMMA StoreUnchanged ==
    ASSUME IInv, UNCHANGED <<ledgerVars, windowVars>>
    PROVE  StoreTypeOK' /\ NothingAboveTip' /\ UndoCoversRows'
BY DEF IInv, TypeOK, StoreTypeOK, NothingAboveTip, UndoCoversRows, ledgerVars, windowVars

LEMMA EmptyDomain == DOMAIN << >> = {}
OBVIOUS

\* The steps that write nothing to the store.
ReadOnlyStep ==
    \/ NothingToResume \/ ResumeRollback \/ ResumeRefused
    \/ GetLatest \/ TipMatches \/ TipMoved \/ ProbeFails \/ ProbeLower
    \/ RollbackIsEmpty \/ RollbackRefused \/ BeginRollback
    \/ PlanSync \/ (\E h \in BatchHeights : LoadBlock(h)) \/ LoadFails
    \/ Panic \/ KeepWaiting \/ WakeUp \/ Restart
    \/ ExtendChain \/ ReplaceChain \/ EvictUtxo \/ EvictBalance
    \/ RpcError \/ DbError \/ Crash

\* What IInv says of types outside the store, and of the control of the loop.
ProcessTypeOK == JournalTypeOK /\ MemoryTypeOK /\ LoopTypeOK /\ EnvTypeOK

ControlOK == BatchOK /\ MarkerOK /\ UndoCoversRollback /\ QueryReadyMeansSettled

StoreOK == StoreTypeOK /\ NothingAboveTip /\ UndoCoversRows

LEMMA IInvParts == IInv <=> StoreOK /\ ProcessTypeOK /\ LoadedOK /\ ControlOK
BY DEF IInv, TypeOK, StoreOK, ProcessTypeOK, ControlOK

LEMMA ReadOnlyStore == IInv /\ ReadOnlyStep => UNCHANGED dbVars /\ StoreOK'
<1> SUFFICES ASSUME IInv, ReadOnlyStep PROVE UNCHANGED dbVars /\ StoreOK'
  OBVIOUS
<1>1. UNCHANGED dbVars
  BY DEF ReadOnlyStep, NothingToResume, ResumeRollback, ResumeRefused, GetLatest, TipMatches,
         TipMoved, ProbeFails, ProbeLower, RollbackIsEmpty, RollbackRefused, BeginRollback,
         PlanSync, LoadBlock, LoadFails, Panic, KeepWaiting, WakeUp, Restart, ExtendChain,
         ReplaceChain, EvictUtxo, EvictBalance, RpcError, DbError, Crash, AbandonPass, vars
<1> QED
  BY <1>1, IInvParts DEF StoreOK, StoreTypeOK, NothingAboveTip, UndoCoversRows,
                         dbVars, ledgerVars, windowVars

LEMMA FreeLocalsType == FreeLocals /\ pc' \in PCs => LoopTypeOK'
<1> SUFFICES ASSUME FreeLocals, pc' \in PCs PROVE LoopTypeOK'
  OBVIOUS
<1>1. latest' \in Nat /\ target' \in Nat /\ next' \in Nat /\ cur' \in Nat
  BY DEF FreeLocals
<1>2. resuming' \in BOOLEAN
  BY DEF FreeLocals
<1> QED
  BY <1>1, <1>2 DEF LoopTypeOK

LEMMA FaultCount ==
    ASSUME EnvTypeOK, NEW kind, Fault(kind)
    PROVE  EnvTypeOK'
BY ConfigAssumption DEF EnvTypeOK, Fault

LEMMA ReorgCount == EnvTypeOK /\ ReplaceChain => EnvTypeOK'
BY ConfigAssumption DEF EnvTypeOK, ReplaceChain

LEMMA ReadOnlyTypes == IInv /\ ReadOnlyStep => ProcessTypeOK'
<1> SUFFICES ASSUME IInv, ReadOnlyStep PROVE ProcessTypeOK'
  OBVIOUS
<1> USE IInvParts, ReadOnlyStore, StableTargetNat, ConfigAssumption, EmptyDomain
    DEF ProcessTypeOK, TypeOK, StoreTypeOK, StoreOK,
        JournalTypeOK, MemoryTypeOK, LoopTypeOK, EnvTypeOK, PCs,
        dbVars, rollbackVars, envVars, cacheVars, statusVars, loopVars
<1>1. CASE NothingToResume
  BY <1>1 DEF NothingToResume
<1>2. CASE ResumeRollback
  BY <1>2 DEF ResumeRollback, ResumeReady, ensure_rollback_undo_available, None
<1>3. CASE ResumeRefused
  BY <1>3 DEF ResumeRefused
<1>4. CASE GetLatest
  BY <1>4 DEF GetLatest
<1>5. CASE TipMatches
  BY <1>5 DEF TipMatches
<1>6. CASE TipMoved
  BY <1>6 DEF TipMoved, MinOf
<1>7. CASE ProbeFails
  BY <1>7 DEF ProbeFails, AbandonPass, FreeLocals
<1>8. CASE ProbeLower
  BY <1>8 DEF ProbeLower
<1>9. CASE RollbackIsEmpty
  BY <1>9 DEF RollbackIsEmpty, AncestorFound, ClearCaches
<1>10. CASE RollbackRefused
  BY <1>10 DEF RollbackRefused, AncestorFound, FreeLocals
<1>11. CASE BeginRollback
  BY <1>11 DEF BeginRollback, AncestorFound, ensure_rollback_undo_available
<1>12. CASE PlanSync
  <2>1. JournalTypeOK' /\ MemoryTypeOK'
    BY <1>12 DEF PlanSync, FreeLocals
  <2>2. LoopTypeOK'
    <3>1. CASE latest <= height
      <4>1. pc' = "wait" /\ FreeLocals
        BY <1>12, <3>1 DEF PlanSync
      <4> QED
        BY <4>1, FreeLocalsType DEF PCs
    <3>2. CASE ~(latest <= height)
      BY <1>12, <3>2 DEF PlanSync
    <3> QED
      BY <3>1, <3>2
  <2>3. EnvTypeOK'
    BY <1>12, ConfigAssumption DEF PlanSync
  <2> QED
    BY <2>1, <2>2, <2>3
<1>13. CASE LoadFails
  BY <1>13 DEF LoadFails, AbandonPass, FreeLocals
<1>14. CASE Panic
  BY <1>14 DEF Panic, BatchLoaded
<1>15. CASE KeepWaiting
  BY <1>15 DEF KeepWaiting, vars
<1>16. CASE WakeUp
  BY <1>16 DEF WakeUp
<1>17. CASE ExtendChain
  BY <1>17 DEF ExtendChain
<1>18. CASE ReplaceChain
  <2>1. JournalTypeOK' /\ MemoryTypeOK'
    BY <1>18 DEF ReplaceChain
  <2>2. LoopTypeOK'
    BY <1>18 DEF ReplaceChain
  <2>3. EnvTypeOK'
    BY <1>18, ReorgCount DEF ReplaceChain
  <2> QED
    BY <2>1, <2>2, <2>3
<1>19. CASE EvictUtxo
  BY <1>19 DEF EvictUtxo
<1>20. CASE EvictBalance
  BY <1>20 DEF EvictBalance, Delete, Restrict
<1>21. CASE RpcError
  <2>1. JournalTypeOK' /\ MemoryTypeOK'
    BY <1>21 DEF RpcError, AbandonPass, FreeLocals
  <2>2. LoopTypeOK'
    BY <1>21 DEF RpcError, AbandonPass, FreeLocals
  <2>3. EnvTypeOK'
    BY <1>21, FaultCount DEF RpcError
  <2> QED
    BY <2>1, <2>2, <2>3
<1>22. CASE DbError
  <2>1. JournalTypeOK' /\ MemoryTypeOK'
    BY <1>22 DEF DbError, AbandonPass, FreeLocals
  <2>2. LoopTypeOK'
    BY <1>22 DEF DbError, AbandonPass, FreeLocals
  <2>3. EnvTypeOK'
    BY <1>22, FaultCount DEF DbError
  <2> QED
    BY <2>1, <2>2, <2>3
<1>23. CASE Crash
  <2>1. JournalTypeOK' /\ MemoryTypeOK'
    BY <1>23 DEF Crash, LoseMemory, FreeLocals
  <2>2. LoopTypeOK'
    BY <1>23 DEF Crash, LoseMemory, FreeLocals
  <2>3. EnvTypeOK'
    BY <1>23, FaultCount DEF Crash
  <2> QED
    BY <2>1, <2>2, <2>3
<1>24. CASE Restart
  BY <1>24 DEF Restart, LoseMemory, FreeLocals
<1>25. CASE \E h \in BatchHeights : LoadBlock(h)
  BY <1>25 DEF LoadBlock
<1> QED
  BY <1>1, <1>2, <1>3, <1>4, <1>5, <1>6, <1>7, <1>8, <1>9, <1>10, <1>11, <1>12, <1>13, <1>14, <1>15, <1>16, <1>17, <1>18, <1>19, <1>20, <1>21, <1>22, <1>23, <1>24, <1>25 DEF ReadOnlyStep

LEMMA ReadOnlyControl == IInv /\ ReadOnlyStep => ControlOK'
<1> SUFFICES ASSUME IInv, ReadOnlyStep PROVE ControlOK'
  OBVIOUS
<1> USE IInvParts, ReadOnlyStore
    DEF ProcessTypeOK, StoreTypeOK, StoreOK, JournalTypeOK, MemoryTypeOK, LoopTypeOK, PCs,
        ControlOK, BatchOK, BatchEnd, MinOf, MarkerOK, UndoCoversRollback, QueryReadyMeansSettled, query_ready,
        RollbackPCs, dbVars, ledgerVars, rollbackVars, cacheVars, statusVars, loopVars
<1>1. CASE NothingToResume
  BY <1>1 DEF NothingToResume
<1>2. CASE ResumeRollback
  BY <1>2 DEF ResumeRollback, ResumeReady, ensure_rollback_undo_available, None
<1>3. CASE ResumeRefused
  BY <1>3 DEF ResumeRefused
<1>4. CASE GetLatest
  BY <1>4 DEF GetLatest
<1>5. CASE TipMatches
  BY <1>5 DEF TipMatches
<1>6. CASE TipMoved
  BY <1>6 DEF TipMoved, MinOf
<1>7. CASE ProbeFails
  BY <1>7 DEF ProbeFails, AbandonPass, FreeLocals
<1>8. CASE ProbeLower
  BY <1>8 DEF ProbeLower
<1>9. CASE RollbackIsEmpty
  BY <1>9 DEF RollbackIsEmpty, AncestorFound, ClearCaches
<1>10. CASE RollbackRefused
  BY <1>10 DEF RollbackRefused, AncestorFound, FreeLocals
<1>11. CASE BeginRollback
  BY <1>11 DEF BeginRollback, AncestorFound, ensure_rollback_undo_available
<1>12. CASE PlanSync
  BY <1>12 DEF PlanSync, FreeLocals
<1>13. CASE LoadFails
  BY <1>13 DEF LoadFails, AbandonPass, FreeLocals
<1>14. CASE Panic
  BY <1>14 DEF Panic, BatchLoaded
<1>15. CASE KeepWaiting
  BY <1>15 DEF KeepWaiting, vars
<1>16. CASE WakeUp
  BY <1>16 DEF WakeUp
<1>17. CASE ExtendChain
  BY <1>17 DEF ExtendChain
<1>18. CASE ReplaceChain
  BY <1>18 DEF ReplaceChain
<1>19. CASE EvictUtxo
  BY <1>19 DEF EvictUtxo
<1>20. CASE EvictBalance
  BY <1>20 DEF EvictBalance, Delete, Restrict
<1>21. CASE RpcError
  BY <1>21 DEF RpcError, Fault, AbandonPass, FreeLocals
<1>22. CASE DbError
  BY <1>22 DEF DbError, Fault, AbandonPass, FreeLocals
<1>23. CASE Crash
  BY <1>23 DEF Crash, Fault, LoseMemory, FreeLocals
<1>24. CASE Restart
  BY <1>24 DEF Restart, LoseMemory, FreeLocals
<1>25. CASE \E h \in BatchHeights : LoadBlock(h)
  BY <1>25 DEF LoadBlock
<1> QED
  BY <1>1, <1>2, <1>3, <1>4, <1>5, <1>6, <1>7, <1>8, <1>9, <1>10, <1>11, <1>12, <1>13, <1>14, <1>15, <1>16, <1>17, <1>18, <1>19, <1>20, <1>21, <1>22, <1>23, <1>24, <1>25 DEF ReadOnlyStep

LEMMA HashLength ==
    ASSUME TypeOK, NEW h \in Nat, h >= 1, HasBlock(h)
    PROVE  CanonicalHash(h) \in Seq(Body) /\ Len(CanonicalHash(h)) = h
<1>1. chain \in Seq(Body) /\ Len(chain) \in Nat
  BY ChainAssumption DEF TypeOK, EnvTypeOK
<1>2. h <= Len(chain)
  BY DEF HasBlock
<1> QED
  BY <1>1, <1>2 DEF CanonicalHash

LEMMA ReadOnlyLoaded == IInv /\ ReadOnlyStep => LoadedOK'
<1> SUFFICES ASSUME IInv, ReadOnlyStep PROVE LoadedOK'
  OBVIOUS
<1>1. CASE UNCHANGED loaded
  BY <1>1 DEF IInv, LoadedOK
<1>2. CASE loaded' = << >>
  BY <1>2, EmptyDomain DEF LoadedOK
<1>3. ASSUME NEW h \in BatchHeights, LoadBlock(h) PROVE LoadedOK'
  <2>1. h \in Nat /\ h >= 1 /\ HasBlock(h)
    BY <1>3 DEF LoadBlock, BatchHeights, BatchEnd, MinOf, IInv, TypeOK, LoopTypeOK,
                StoreTypeOK, BatchOK
  <2>2. CanonicalHash(h) \in Seq(Body) /\ Len(CanonicalHash(h)) = h
    BY <2>1, HashLength DEF IInv
  <2> DEFINE one == [g \in {h} |-> CanonicalHash(h)]
  <2>3. DOMAIN loaded' = DOMAIN loaded \union {h}
    BY <1>3, PutDomain DEF LoadBlock
  <2>4. \A g \in DOMAIN loaded' : loaded'[g] = IF g = h THEN CanonicalHash(h) ELSE loaded[g]
    BY <1>3, <2>3 DEF LoadBlock, Put
  <2> QED
    BY <2>1, <2>2, <2>3, <2>4 DEF IInv, LoadedOK
<1>4. \/ UNCHANGED loaded
      \/ loaded' = << >>
      \/ \E h \in BatchHeights : LoadBlock(h)
  BY DEF ReadOnlyStep, NothingToResume, ResumeRollback, ResumeRefused, GetLatest, TipMatches,
         TipMoved, ProbeFails, ProbeLower, RollbackIsEmpty, RollbackRefused, BeginRollback,
         PlanSync, LoadFails, Panic, KeepWaiting, WakeUp, Restart, ExtendChain,
         ReplaceChain, EvictUtxo, EvictBalance, RpcError, DbError, Crash, AbandonPass,
         LoseMemory, FreeLocals, vars, loopVars
<1> QED
  BY <1>1, <1>2, <1>3, <1>4

LEMMA ReadOnlyIInv == IInv /\ ReadOnlyStep => IInv'
<1> SUFFICES ASSUME IInv, ReadOnlyStep PROVE IInv'
  OBVIOUS
<1>1. StoreOK' /\ ProcessTypeOK' /\ LoadedOK' /\ ControlOK'
  BY ReadOnlyStore, ReadOnlyTypes, ReadOnlyLoaded, ReadOnlyControl
<1> QED
  BY <1>1 DEF IInv, TypeOK, StoreOK, ProcessTypeOK, ControlOK

-----------------------------------------------------------------------------
(* The writes of a rollback *)

\* The markers are not part of the store proper: writing one leaves it alone.
MarkerStep ==
    \/ MarkInProgress \/ MarkTarget \/ MarkNext \/ PutNext
    \/ ClearInProgress \/ ClearTarget \/ FinishRollback

LEMMA MarkerIInv == IInv /\ MarkerStep => IInv'
<1> SUFFICES ASSUME IInv, MarkerStep PROVE IInv'
  OBVIOUS
<1>1. StoreOK'
  BY IInvParts DEF StoreOK, StoreTypeOK, NothingAboveTip, UndoCoversRows, MarkerStep,
      MarkInProgress, MarkTarget, MarkNext, PutNext, ClearInProgress, ClearTarget,
      FinishRollback, put_rollback_in_progress, put_rollback_target_height,
      put_rollback_next_height, delete_rollback_in_progress, ledgerVars, windowVars
<1>2. LoadedOK'
  BY DEF IInv, LoadedOK, MarkerStep,
      MarkInProgress, MarkTarget, MarkNext, PutNext, ClearInProgress, ClearTarget, FinishRollback
<1>3. ProcessTypeOK' /\ ControlOK'
  <2> USE IInvParts, EmptyDomain
      DEF ProcessTypeOK, StoreTypeOK, StoreOK, JournalTypeOK, MemoryTypeOK, LoopTypeOK, EnvTypeOK,
          PCs, ControlOK, BatchOK, MarkerOK, UndoCoversRollback, QueryReadyMeansSettled,
          query_ready, RollbackPCs, None, ledgerVars, windowVars, envVars, cacheVars, statusVars
  <2>1. CASE MarkInProgress
    BY <2>1 DEF MarkInProgress, put_rollback_in_progress
  <2>2. CASE MarkTarget
    BY <2>2 DEF MarkTarget, put_rollback_target_height
  <2>3. CASE MarkNext
    BY <2>3 DEF MarkNext, put_rollback_next_height
  <2>4. CASE PutNext
    BY <2>4 DEF PutNext, put_rollback_next_height
  <2>5. CASE ClearInProgress
    BY <2>5 DEF ClearInProgress, delete_rollback_in_progress
  <2>6. CASE ClearTarget
    BY <2>6 DEF ClearTarget, put_rollback_target_height
  <2>7. CASE FinishRollback
    BY <2>7 DEF FinishRollback, put_rollback_next_height, ClearCaches
  <2> QED
    BY <2>1, <2>2, <2>3, <2>4, <2>5, <2>6, <2>7 DEF MarkerStep
<1> QED
  BY <1>1, <1>2, <1>3 DEF IInv, TypeOK, StoreOK, ProcessTypeOK, ControlOK

LEMMA UndoBlockStore == IInv /\ UndoBlock => StoreOK'
<1> SUFFICES ASSUME IInv, UndoBlock PROVE StoreOK'
  OBVIOUS
<1>1. /\ next = height /\ height \in Nat /\ height > 0 /\ height \in DOMAIN undo
      /\ target \in Nat /\ target < height
  BY DEF UndoBlock, rollback_one_block, IInv, TypeOK, LoopTypeOK, StoreTypeOK, UndoCoversRollback, RollbackPCs
<1>2. height' = height - 1
  BY <1>1 DEF UndoBlock, rollback_one_block, SatSub
<1>3. /\ DOMAIN rows' = DOMAIN rows \ (undo[height].touched \X {height})
      /\ DOMAIN commits' = DOMAIN commits \ {height}
      /\ DOMAIN undo' = DOMAIN undo \ {height}
  BY <1>1, DeleteDomain DEF UndoBlock, rollback_one_block, append_delete_block_undo_bundle_to_batch
<1>4. \A h \in DOMAIN undo' : undo'[h] = undo[h]
  BY <1>1, <1>3, DeleteValue DEF UndoBlock, rollback_one_block, append_delete_block_undo_bundle_to_batch
<1>5. undo[height] \in [created : SUBSET Outpoint, spent : SUBSET Outpoint, touched : SUBSET Script]
  BY <1>1 DEF IInv, TypeOK, StoreTypeOK
<1>6. StoreTypeOK'
  <2>1. utxo' \subseteq Outpoint
    BY <1>1, <1>5 DEF UndoBlock, rollback_one_block, IInv, TypeOK, StoreTypeOK
  <2>2. supportedFrom' \in Nat \union {None} /\ retainedFrom' \in Nat \union {None}
    BY DEF UndoBlock, rollback_one_block, windowVars, IInv, TypeOK, StoreTypeOK
  <2> QED
    BY <1>1, <1>2, <1>3, <1>4, <2>1, <2>2 DEF IInv, TypeOK, StoreTypeOK
<1>7. \A k \in DOMAIN rows' : k \in Script \X Nat /\ k[2] \in 1..height /\ k[2] # height
  BY <1>1, <1>3, <1>5 DEF IInv, TypeOK, StoreTypeOK, NothingAboveTip, UndoCoversRows
<1>8. NothingAboveTip'
  BY <1>1, <1>2, <1>3, <1>7 DEF IInv, NothingAboveTip
<1>9. UndoCoversRows'
  BY <1>3, <1>4 DEF IInv, UndoCoversRows
<1> QED
  BY <1>6, <1>8, <1>9 DEF StoreOK

LEMMA UndoBlockIInv == IInv /\ UndoBlock => IInv'
<1> SUFFICES ASSUME IInv, UndoBlock PROVE IInv'
  OBVIOUS
<1>1. /\ next = height /\ height \in Nat /\ height > 0 /\ target \in Nat /\ target < height
      /\ target + 1 .. height \subseteq DOMAIN undo /\ height' = height - 1
      /\ next' = next - 1 /\ pc' = "put_next"
      /\ DOMAIN undo' = DOMAIN undo \ {height}
  <2>1. /\ next = height /\ height \in Nat /\ height > 0 /\ target \in Nat /\ target < height
        /\ target + 1 .. height \subseteq DOMAIN undo
    BY DEF UndoBlock, IInv, TypeOK, LoopTypeOK, StoreTypeOK, UndoCoversRollback, RollbackPCs
  <2>2. height' = height - 1 /\ next' = next - 1 /\ pc' = "put_next"
    BY <2>1 DEF UndoBlock, rollback_one_block, SatSub
  <2>3. DOMAIN undo' = DOMAIN undo \ {height}
    BY <2>1, DeleteDomain DEF UndoBlock, rollback_one_block,
                              append_delete_block_undo_bundle_to_batch
  <2> QED
    BY <2>1, <2>2, <2>3
<1>2. LoadedOK'
  BY DEF IInv, LoadedOK, UndoBlock
<1>3. ProcessTypeOK'
  BY <1>1, IInvParts DEF UndoBlock, rollback_one_block, rollbackVars, envVars, cacheVars,
     statusVars, ProcessTypeOK, JournalTypeOK, MemoryTypeOK, LoopTypeOK, EnvTypeOK, PCs
<1>4. UndoCoversRollback'
  BY <1>1 DEF UndoBlock, UndoCoversRollback
<1>5. BatchOK' /\ MarkerOK' /\ QueryReadyMeansSettled'
  BY <1>1 DEF IInv, UndoBlock, rollback_one_block, rollbackVars, statusVars, BatchOK, MarkerOK,
     QueryReadyMeansSettled, query_ready, RollbackPCs
<1> QED
  BY <1>2, <1>3, <1>4, <1>5, UndoBlockStore DEF IInv, TypeOK, StoreOK, ProcessTypeOK

-----------------------------------------------------------------------------
(* The write of a batch *)

\* What a batch that is about to be flushed consists of.
LEMMA BatchFacts ==
    ASSUME IInv, BatchLoaded
    PROVE  /\ cur = height + 1 /\ cur \in Nat /\ height \in Nat
           /\ BatchEnd \in Nat /\ cur <= BatchEnd /\ BatchEnd <= latest
           /\ \A h \in BatchHeights : h \in Nat /\ h >= cur /\ h <= BatchEnd
           /\ \A h \in BatchHeights : BodyAt(h) \in Body
<1>1. cur = height + 1 /\ cur <= latest /\ cur \in Nat /\ height \in Nat /\ latest \in Nat
  BY DEF BatchLoaded, IInv, BatchOK, TypeOK, LoopTypeOK, StoreTypeOK
<1>2. BatchEnd \in Nat /\ cur <= BatchEnd /\ BatchEnd <= latest
  BY <1>1, ConfigAssumption DEF BatchEnd, MinOf
<1>3. \A h \in BatchHeights : h \in Nat /\ h >= cur /\ h <= BatchEnd
  BY <1>1, <1>2 DEF BatchHeights
<1>4. \A h \in BatchHeights : h >= 1 /\ loaded[h] \in Seq(Body) /\ Len(loaded[h]) = h
  BY DEF BatchLoaded, IInv, LoadedOK
<1>5. \A h \in BatchHeights : BodyAt(h) \in Body
  BY <1>3, <1>4 DEF BodyAt
<1> QED
  BY <1>1, <1>2, <1>3, <1>5

LEMMA TouchedScripts ==
    ASSUME NEW b \in Body
    PROVE  /\ b.created \subseteq Outpoint /\ b.spent \subseteq Outpoint
           /\ Touched(b) \subseteq Script
<1>1. b.created \subseteq Outpoint /\ b.spent \subseteq Outpoint
  BY BodyAssumption
<1> QED
  BY <1>1, OutputAssumption DEF Touched

LEMMA FlushStore == IInv /\ FlushBatch => StoreOK'
<1> SUFFICES ASSUME IInv, FlushBatch PROVE StoreOK'
  OBVIOUS
<1>0. /\ cur = height + 1 /\ cur \in Nat /\ height \in Nat
      /\ BatchEnd \in Nat /\ cur <= BatchEnd
      /\ \A h \in BatchHeights : h \in Nat /\ h >= cur /\ h <= BatchEnd
      /\ \A h \in BatchHeights : BodyAt(h) \in Body
  BY BatchFacts DEF FlushBatch
<1>1. PICK at \in [BatchCreated -> BatchHeights] :
        update_block_state_batch_async(BatchCreated \ BatchSpent,
            {o \in BatchSpent : \E h \in SpentAt(o) : NeedFlush(o, h, at)},
            Entries, build_block_commits, Bundles(at), BatchEnd)
  BY DEF FlushBatch
<1>2. /\ height' = BatchEnd
      /\ utxo' \subseteq utxo \union BatchCreated
      /\ DOMAIN rows' = DOMAIN rows \union DOMAIN Entries
      /\ DOMAIN commits' = DOMAIN commits \union DOMAIN build_block_commits
      /\ undo' = Put(undo, Bundles(at))
  BY <1>1, PutDomain DEF update_block_state_batch_async, append_block_undo_bundles_to_batch
<1>3. /\ DOMAIN Bundles(at) \subseteq BatchHeights
      /\ \A h \in DOMAIN Bundles(at) :
            /\ Bundles(at)[h] \in [created : SUBSET Outpoint, spent : SUBSET Outpoint,
                                   touched : SUBSET Script]
            /\ Bundles(at)[h].touched = Touched(BodyAt(h))
  <2>1. \A h \in BatchHeights : /\ BodyAt(h).created \subseteq Outpoint
                                /\ BodyAt(h).spent \subseteq Outpoint
                                /\ Touched(BodyAt(h)) \subseteq Script
    BY <1>0, TouchedScripts
  <2> QED
    BY <2>1 DEF Bundles
<1>4. /\ DOMAIN undo' = DOMAIN undo \union DOMAIN Bundles(at)
      /\ \A h \in DOMAIN undo' : undo'[h] = IF h \in DOMAIN Bundles(at) THEN Bundles(at)[h]
                                                                       ELSE undo[h]
  BY <1>2 DEF Put
<1>5. \A k \in DOMAIN Entries : /\ k \in Script \X Nat /\ k[2] \in BatchHeights
                                /\ k[1] \in Touched(BodyAt(k[2]))
  BY <1>0, TouchedScripts DEF Entries
<1>6. supportedFrom' \in Nat \union {None} /\ retainedFrom' \in Nat \union {None}
  <2> DEFINE first == IF DOMAIN Bundles(at) = {} THEN None
                      ELSE CHOOSE h \in DOMAIN Bundles(at) : \A g \in DOMAIN Bundles(at) : h <= g
  <2>1. first \in Nat \union {None}
    <3>1. DOMAIN Bundles(at) \subseteq Nat
      BY <1>0, <1>3
    <3> QED
      BY <3>1, LeastNat
  <2>2. /\ supportedFrom' = IF supportedFrom = None THEN first ELSE supportedFrom
        /\ retainedFrom' = IF retainedFrom = None THEN first ELSE retainedFrom
    BY <1>1 DEF update_block_state_batch_async
  <2> HIDE DEF first
  <2> QED
    BY <2>1, <2>2 DEF IInv, TypeOK, StoreTypeOK
<1>7. StoreTypeOK'
  <2>1. utxo' \subseteq Outpoint
    BY <1>2 DEF BatchCreated, IInv, TypeOK, StoreTypeOK
  <2>2. DOMAIN rows' \subseteq Script \X Nat
    BY <1>2, <1>5 DEF IInv, TypeOK, StoreTypeOK
  <2>3. DOMAIN undo' \subseteq Nat
    BY <1>0, <1>3, <1>4 DEF IInv, TypeOK, StoreTypeOK
  <2>4. \A h \in DOMAIN undo' : undo'[h] \in [created : SUBSET Outpoint, spent : SUBSET Outpoint,
                                             touched : SUBSET Script]
    BY <1>3, <1>4 DEF IInv, TypeOK, StoreTypeOK
  <2> QED
    BY <1>0, <1>2, <1>6, <2>1, <2>2, <2>3, <2>4 DEF StoreTypeOK
<1>8. NothingAboveTip'
  <2>1. DOMAIN build_block_commits = cur..BatchEnd
    BY DEF build_block_commits, BatchHeights
  <2>2. DOMAIN commits' = 1..height'
    BY <1>0, <1>2, <2>1 DEF IInv, NothingAboveTip
  <2>3. DOMAIN undo' \subseteq 1..height'
    BY <1>0, <1>2, <1>3, <1>4 DEF IInv, NothingAboveTip
  <2>4. \A k \in DOMAIN rows' : k[2] \in 1..height'
    BY <1>0, <1>2, <1>5 DEF IInv, NothingAboveTip
  <2> QED
    BY <2>2, <2>3, <2>4 DEF NothingAboveTip
<1>9. UndoCoversRows'
  <2> SUFFICES ASSUME NEW k \in DOMAIN rows', k[2] \in DOMAIN undo'
               PROVE  k[1] \in undo'[k[2]].touched
    BY DEF UndoCoversRows
  <2>1. CASE k \in DOMAIN Entries
    <3>1. k[2] \in BatchHeights /\ k[2] > height
      BY <2>1, <1>0, <1>5
    <3>2. k[2] \notin DOMAIN undo
      BY <3>1, <1>0 DEF IInv, NothingAboveTip
    <3> QED
      BY <2>1, <3>2, <1>3, <1>4, <1>5
  <2>2. CASE k \in DOMAIN rows /\ k \notin DOMAIN Entries
    <3>1. k[2] \in 1..height
      BY <2>2 DEF IInv, NothingAboveTip
    <3>2. k[2] \notin DOMAIN Bundles(at)
      BY <3>1, <1>0, <1>3
    <3> QED
      BY <2>2, <3>2, <1>4 DEF IInv, UndoCoversRows
  <2> QED
    BY <2>1, <2>2, <1>2
<1> QED
  BY <1>7, <1>8, <1>9 DEF StoreOK

LEMMA FlushIInv == IInv /\ FlushBatch => IInv'
<1> SUFFICES ASSUME IInv, FlushBatch PROVE IInv'
  OBVIOUS
<1>0. /\ BatchEnd \in Nat /\ cur <= BatchEnd /\ BatchEnd <= latest /\ cur \in Nat
      /\ \A h \in BatchHeights : BodyAt(h) \in Body
  BY BatchFacts DEF FlushBatch
<1>1. /\ height' = BatchEnd /\ BatchEnd' = BatchEnd /\ cur' = cur /\ latest' = latest
      /\ UNCHANGED rollbackVars
      /\ utxoCache' \subseteq utxoCache \union BatchCreated
  BY DEF FlushBatch, update_block_state_batch_async, BatchEnd, MinOf
<1>2. LoadedOK'
  BY DEF IInv, LoadedOK, FlushBatch
<1>3. DOMAIN balanceCache' \subseteq DOMAIN balanceCache \union BatchTouched
  <2> DEFINE zero == {s \in BatchTouched : BalanceAfter(s, BatchEnd) = 0}
             new == [s \in BatchTouched \ zero |->
                       [height |-> LastTouch(s), balance |-> BalanceAfter(s, BatchEnd)]]
  <2>1. balanceCache' = Delete(Put(balanceCache, new), zero)
    BY DEF FlushBatch, CachedBalances
  <2>2. DOMAIN new \subseteq BatchTouched
    OBVIOUS
  <2> HIDE DEF new, zero
  <2> QED
    <3>1. DOMAIN Put(balanceCache, new) = DOMAIN balanceCache \union DOMAIN new
      BY PutDomain
    <3>2. DOMAIN balanceCache' = DOMAIN Put(balanceCache, new) \ zero
      BY <2>1, DeleteDomain
    <3> QED
      BY <2>2, <3>1, <3>2
<1>4. BatchTouched \subseteq Script /\ BatchCreated \subseteq Outpoint
  BY <1>0, TouchedScripts DEF BatchTouched, BatchCreated
<1>5. ProcessTypeOK'
  <2>1. JournalTypeOK' /\ LoopTypeOK' /\ EnvTypeOK'
    BY <1>1, IInvParts DEF ProcessTypeOK, JournalTypeOK, LoopTypeOK, EnvTypeOK, PCs,
                           FlushBatch, rollbackVars, envVars
  <2>2. MemoryTypeOK'
    BY <1>1, <1>3, <1>4, IInvParts DEF ProcessTypeOK, MemoryTypeOK, FlushBatch, statusVars
  <2> QED
    BY <2>1, <2>2 DEF ProcessTypeOK
<1>6. BatchOK'
  <2>1. pc' = "prune"
    BY DEF FlushBatch
  <2> QED
    BY <1>0, <1>1, <2>1 DEF BatchOK, IInv, TypeOK, LoopTypeOK
<1>7. MarkerOK' /\ UndoCoversRollback' /\ QueryReadyMeansSettled'
  BY <1>1 DEF IInv, FlushBatch, BatchLoaded, rollbackVars, statusVars, MarkerOK,
              UndoCoversRollback, QueryReadyMeansSettled, query_ready, RollbackPCs
<1> QED
  BY <1>2, <1>5, <1>6, <1>7, FlushStore DEF IInv, TypeOK, StoreOK, ProcessTypeOK

LEMMA PruneStore == IInv /\ PruneUndo => StoreOK' /\ UNCHANGED <<height, rollbackVars>>
<1> SUFFICES ASSUME IInv, PruneUndo PROVE StoreOK' /\ UNCHANGED <<height, rollbackVars>>
  OBVIOUS
<1>1. CASE UNCHANGED dbVars
  BY <1>1, IInvParts DEF StoreOK, StoreTypeOK, NothingAboveTip, UndoCoversRows,
                         dbVars, ledgerVars, windowVars
<1>2. CASE ~UNCHANGED dbVars
  <2> DEFINE minRetained == SatSub(BatchEnd, UndoRetention - 1)
             effective == IF minRetained > supportedFrom THEN minRetained ELSE supportedFrom
  <2>0. minRetained \in Nat
    <3>1. BatchEnd \in Nat
      BY ConfigAssumption DEF PruneUndo, IInv, TypeOK, LoopTypeOK, StoreTypeOK, BatchOK
    <3>2. UndoRetention \in Nat /\ UndoRetention # 0
      BY <1>2, ConfigAssumption DEF PruneUndo, PruneDue, CrossesBucket
    <3> QED
      BY <3>1, <3>2 DEF SatSub
  <2>1. prune_undo_before_height(minRetained)
    BY <1>2 DEF PruneUndo
  <2> HIDE DEF minRetained
  <2>2. /\ supportedFrom # None
        /\ undo' = Delete(undo, {h \in DOMAIN undo : h < effective})
        /\ retainedFrom' = effective
        /\ UNCHANGED <<utxo, rows, commits, height, supportedFrom, rollbackVars>>
    BY <1>2, <2>1 DEF prune_undo_before_height
  <2>3. effective \in Nat
    BY <2>0, <2>2 DEF IInv, TypeOK, StoreTypeOK
  <2> HIDE DEF effective
  <2>4. DOMAIN undo' \subseteq DOMAIN undo /\ \A h \in DOMAIN undo' : undo'[h] = undo[h]
    <3> DEFINE low == {h \in DOMAIN undo : h < effective}
    <3> HIDE DEF low
    <3>1. undo' = Delete(undo, low)
      BY <2>2 DEF low
    <3>2. DOMAIN undo' = DOMAIN undo \ low
      BY <3>1, DeleteDomain
    <3> QED
      BY <3>1, <3>2, DeleteValue
  <2>5. StoreTypeOK'
    BY <2>2, <2>3, <2>4 DEF IInv, TypeOK, StoreTypeOK
  <2>6. NothingAboveTip'
    BY <2>2, <2>4 DEF IInv, NothingAboveTip
  <2>7. UndoCoversRows'
    BY <2>2, <2>4 DEF IInv, UndoCoversRows
  <2> QED
    BY <2>2, <2>5, <2>6, <2>7 DEF StoreOK
<1> QED
  BY <1>1, <1>2

LEMMA PruneIInv == IInv /\ PruneUndo => IInv'
<1> SUFFICES ASSUME IInv, PruneUndo PROVE IInv'
  OBVIOUS
<1>0. BatchEnd \in Nat /\ height = BatchEnd /\ height' = height /\ UNCHANGED rollbackVars
  BY PruneStore DEF PruneUndo, IInv, BatchOK, TypeOK, StoreTypeOK
<1>1. \/ pc' = "wait" /\ FreeLocals
      \/ /\ pc' = "load" /\ BatchEnd < latest /\ cur' = BatchEnd + 1
         /\ loaded' = << >> /\ UNCHANGED <<latest, target, next, resuming>>
  BY DEF PruneUndo
<1>2. LoadedOK'
  BY <1>1, EmptyDomain DEF FreeLocals, LoadedOK
<1>3. LoopTypeOK'
  <2>1. CASE pc' = "wait" /\ FreeLocals
    BY <2>1, FreeLocalsType DEF PCs
  <2>2. CASE pc' = "load" /\ cur' = BatchEnd + 1 /\ UNCHANGED <<latest, target, next, resuming>>
    BY <2>2, <1>0 DEF IInv, TypeOK, LoopTypeOK, PCs
  <2> QED
    BY <1>1, <2>1, <2>2
<1>4. JournalTypeOK' /\ MemoryTypeOK' /\ EnvTypeOK'
  BY <1>0 DEF PruneUndo, IInv, TypeOK, JournalTypeOK, MemoryTypeOK, EnvTypeOK, rollbackVars,
              envVars, cacheVars
<1>5. BatchOK'
  BY <1>0, <1>1 DEF BatchOK, IInv, TypeOK, LoopTypeOK
<1>6. MarkerOK' /\ UndoCoversRollback' /\ QueryReadyMeansSettled'
  BY <1>0, <1>1 DEF IInv, PruneUndo, MarkerOK, UndoCoversRollback, QueryReadyMeansSettled,
                    query_ready, RollbackPCs, rollbackVars
<1> QED
  BY <1>2, <1>3, <1>4, <1>5, <1>6, PruneStore DEF IInv, TypeOK, StoreOK

-----------------------------------------------------------------------------
(* The theorems *)

LEMMA NextIInv == IInv /\ [Next]_vars => IInv'
<1> SUFFICES ASSUME IInv, [Next]_vars PROVE IInv'
  OBVIOUS
<1>1. CASE UNCHANGED vars
  <2>1. StoreOK' /\ ProcessTypeOK'
    BY <1>1, IInvParts DEF vars, dbVars, ledgerVars, windowVars, rollbackVars, envVars, cacheVars,
       statusVars, loopVars, StoreOK, StoreTypeOK, NothingAboveTip, UndoCoversRows,
       ProcessTypeOK, JournalTypeOK, MemoryTypeOK, LoopTypeOK, EnvTypeOK
  <2>2. LoadedOK' /\ ControlOK'
    BY <1>1, IInvParts DEF vars, dbVars, ledgerVars, windowVars, rollbackVars, envVars, cacheVars,
       statusVars, loopVars, LoadedOK, ControlOK, BatchOK, BatchEnd, MinOf, MarkerOK,
       UndoCoversRollback, QueryReadyMeansSettled, query_ready
  <2> QED
    BY <2>1, <2>2 DEF IInv, TypeOK, StoreOK, ProcessTypeOK, ControlOK
<1>2. CASE Next
  BY <1>2, ReadOnlyIInv, MarkerIInv, UndoBlockIInv, FlushIInv, PruneIInv
     DEF Next, SyncStep, Environment, Rollback, ReadOnlyStep, MarkerStep
<1> QED
  BY <1>1, <1>2

\* The inductive invariant holds in every reachable state.
THEOREM Inductive == Spec => []IInv
<1>1. Init => IInv
  BY InitIInv
<1>2. IInv /\ [Next]_vars => IInv'
  BY NextIInv
<1> QED
  BY <1>1, <1>2, PTL DEF Spec

\* Every variable of the store, the process and the node keeps its type.
THEOREM TypeCorrect == Spec => []TypeOK
<1>1. IInv => TypeOK
  BY DEF IInv
<1> QED
  BY <1>1, Inductive, PTL

\* No commit, bundle or balance row above btc_block_height, no gap in the commits below it,
\* through any interleaving of batches, reorganisations, rollbacks, errors and crashes.
THEOREM NothingAboveTipAlways == Spec => []NothingAboveTip
<1>1. IInv => NothingAboveTip
  BY DEF IInv
<1> QED
  BY <1>1, Inductive, PTL

\* The rollback loop always has the bundles it still needs: rollback_one_block cannot fail
\* for a missing bundle in the middle of a rollback.
THEOREM RollbackNeverStarves == Spec => []UndoCoversRollback
<1>1. IInv => UndoCoversRollback
  BY DEF IInv
<1> QED
  BY <1>1, Inductive, PTL

\* The persisted markers follow the rollback loop and are never ahead of the store.
THEOREM JournalTracksHeightAlways == Spec => []JournalTracksHeight
<1>1. IInv => JournalTracksHeight
  BY DEF IInv, MarkerOK, JournalTracksHeight
<1> QED
  BY <1>1, Inductive, PTL

\* get_readiness never says query_ready while a durable rollback is unfinished.
THEOREM QueryReadyIsSafe == Spec => []QueryReadyMeansSettled
<1>1. IInv => QueryReadyMeansSettled
  BY DEF IInv
<1> QED
  BY <1>1, Inductive, PTL

LEMMA HeightStepLemma == IInv /\ [Next]_vars => [HeightStep]_vars
<1> SUFFICES ASSUME IInv, Next, height' # height PROVE HeightStep
  BY DEF HeightStep
<1>1. CASE ReadOnlyStep
  BY <1>1, ReadOnlyStore DEF dbVars, ledgerVars
<1>2. CASE MarkerStep
  BY <1>2 DEF MarkerStep, MarkInProgress, MarkTarget, MarkNext, PutNext, ClearInProgress,
      ClearTarget, FinishRollback, put_rollback_in_progress, put_rollback_target_height,
      put_rollback_next_height, delete_rollback_in_progress, ledgerVars
<1>3. CASE UndoBlock
  <2>1. /\ next = height /\ target \in Nat /\ height \in Nat /\ rbInProgress
        /\ rbTarget = target /\ target < height
    BY <1>3 DEF UndoBlock, IInv, TypeOK, LoopTypeOK, StoreTypeOK, UndoCoversRollback, MarkerOK,
                RollbackPCs
  <2> QED
    BY <2>1, <1>3 DEF UndoBlock, rollback_one_block, SatSub, HeightStep
<1>4. CASE FlushBatch
  <2>1. /\ height' = BatchEnd /\ BatchEnd \in Nat /\ height \in Nat /\ BatchEnd >= height + 1
    BY <1>4, BatchFacts DEF FlushBatch, update_block_state_batch_async
  <2>2. pc = "load" /\ ~rbInProgress
    BY <1>4 DEF FlushBatch, BatchLoaded, IInv, MarkerOK
  <2> QED
    BY <2>1, <2>2 DEF HeightStep
<1>5. CASE PruneUndo
  BY <1>5, PruneStore
<1> QED
  BY <1>1, <1>2, <1>3, <1>4, <1>5
     DEF Next, SyncStep, Environment, Rollback, ReadOnlyStep, MarkerStep

\* The height grows only by a flushed batch outside a rollback and falls only block by block
\* inside a marked rollback, never below its target.
THEOREM HeightMovesAlways == Spec => HeightMoves
<1>1. IInv /\ [Next]_vars => [HeightStep]_vars
  BY HeightStepLemma
<1> QED
  BY <1>1, Inductive, PTL DEF Spec, HeightMoves
-----------------------------------------------------------------------------
(* The commit chain and the rows *)

\* Every commit is a sequence, of whatever links.
CommitsAreChains == \A h \in DOMAIN commits : \E S : commits[h] \in Seq(S)

LedgerOK == CommitsAreChains /\ CommitsBindRows

LEMMA Concatenation ==
    ASSUME NEW S, NEW p \in Seq(S), NEW q \in Seq(S)
    PROVE  /\ p \o q \in Seq(S)
           /\ Len(p \o q) = Len(p) + Len(q)
           /\ \A i \in 1..(Len(p) + Len(q)) :
                 (p \o q)[i] = IF i <= Len(p) THEN p[i] ELSE q[i - Len(p)]
OBVIOUS

\* The commit a batch computes for its height h: the previous one and the links cur..h.
LEMMA NewCommit ==
    ASSUME NEW S, NEW p \in Seq(S), NEW h \in Nat, cur \in Nat, cur >= 1, cur <= h,
           Len(p) = cur - 1, \A i \in cur..h : Link(i) \in S
    PROVE  LET c == p \o [i \in 1..(h - cur + 1) |-> Link(cur + i - 1)]
           IN  /\ c \in Seq(S)
               /\ Len(c) = h
               /\ \A i \in 1..h : c[i] = IF i < cur THEN p[i] ELSE Link(i)
<1> DEFINE n == h - cur + 1
           q == [i \in 1..n |-> Link(cur + i - 1)]
           c == p \o q
<1>1. n \in Nat /\ h = Len(p) + n /\ Len(p) \in Nat
  OBVIOUS
<1>2. \A i \in 1..n : cur + i - 1 \in cur..h
  BY <1>1
<1>3. q \in Seq(S) /\ Len(q) = n
  <2>1. q \in [1..n -> S]
    BY <1>2
  <2> QED
    BY <1>1, <2>1
<1>4. \A i \in 1..n : q[i] = Link(cur + i - 1)
  OBVIOUS
<1> HIDE DEF q, n
<1>5. /\ c \in Seq(S)
      /\ Len(c) = Len(p) + n
      /\ \A i \in 1..(Len(p) + n) : c[i] = IF i <= Len(p) THEN p[i] ELSE q[i - Len(p)]
  BY <1>3, Concatenation
<1> HIDE DEF c
<1>6. ASSUME NEW i \in 1..h PROVE c[i] = IF i < cur THEN p[i] ELSE Link(i)
  <2>1. c[i] = IF i <= Len(p) THEN p[i] ELSE q[i - Len(p)]
    BY <1>1, <1>5
  <2>2. CASE i < cur
    BY <2>1, <2>2
  <2>3. CASE i >= cur
    <3>1. i - Len(p) \in 1..n /\ cur + (i - Len(p)) - 1 = i
      BY <2>3, <1>1
    <3>2. q[i - Len(p)] = Link(cur + (i - Len(p)) - 1)
      BY <3>1, <1>4
    <3> QED
      BY <2>1, <2>3, <3>1, <3>2
  <2> QED
    BY <2>2, <2>3
<1> QED
  BY <1>1, <1>5, <1>6 DEF c, q, n

LEMMA SameSequence ==
    ASSUME NEW S, NEW T, NEW a \in Seq(S), NEW b \in Seq(T), Len(a) = Len(b),
           \A i \in 1..Len(a) : a[i] = b[i]
    PROVE  a = b
OBVIOUS

\* The rows a batch adds: those of the scripts each of its blocks touches.
LEMMA EntryKeys ==
    ASSUME NEW s, NEW h
    PROVE  <<s, h>> \in DOMAIN Entries <=> h \in BatchHeights /\ s \in Touched(BodyAt(h))
BY DEF Entries

\* A flushed batch: what it does to rows and commits.
LEMMA FlushWrites ==
    ASSUME FlushBatch
    PROVE  /\ rows' = Put(rows, Entries)
           /\ commits' = Put(commits, build_block_commits)
           /\ height' = BatchEnd
BY DEF FlushBatch, update_block_state_batch_async

\* The commit of the block below the batch, an empty chain at height 1.
Previous == IF cur - 1 \in DOMAIN commits THEN commits[cur - 1] ELSE << >>

LEMMA PreviousCommit ==
    ASSUME IInv, LedgerOK, BatchLoaded
    PROVE  (\E S : Previous \in Seq(S)) /\ Len(Previous) = cur - 1
<1>1. cur = height + 1 /\ cur \in Nat /\ height \in Nat
  BY BatchFacts
<1>2. DOMAIN commits = 1..height
  BY DEF IInv, NothingAboveTip
<1>3. CASE height = 0
  <2>1. Previous = << >>
    BY <1>1, <1>2, <1>3 DEF Previous
  <2>2. << >> \in Seq({}) /\ Len(<< >>) = 0
    OBVIOUS
  <2> QED
    BY <1>1, <1>3, <2>1, <2>2
<1>4. CASE height > 0
  <2>1. Previous = commits[height] /\ height \in DOMAIN commits
    BY <1>1, <1>2, <1>4 DEF Previous
  <2> QED
    BY <1>1, <2>1 DEF LedgerOK, CommitsAreChains, CommitsBindRows
<1> QED
  BY <1>1, <1>3, <1>4

\* A new commit extends the one below it by the link of its block.
LEMMA BuiltCommits ==
    ASSUME IInv, LedgerOK, BatchLoaded
    PROVE  \E S : \A h \in BatchHeights :
              /\ build_block_commits[h] \in Seq(S)
              /\ Len(build_block_commits[h]) = h
              /\ \A i \in 1..h : build_block_commits[h][i] = IF i < cur THEN Previous[i] ELSE Link(i)
<1>1. /\ cur = height + 1 /\ cur \in Nat /\ height \in Nat /\ cur >= 1
      /\ \A h \in BatchHeights : h \in Nat /\ h >= cur /\ h <= BatchEnd
      /\ BatchEnd \in Nat
  BY BatchFacts
<1>2. PICK T : Previous \in Seq(T)
  BY PreviousCommit
<1>3. Len(Previous) = cur - 1
  BY PreviousCommit
<1> DEFINE S == T \union {Link(i) : i \in BatchHeights}
<1>4. Previous \in Seq(S)
  BY <1>2
<1>5. ASSUME NEW h \in BatchHeights
      PROVE  /\ build_block_commits[h] \in Seq(S)
             /\ Len(build_block_commits[h]) = h
             /\ \A i \in 1..h : build_block_commits[h][i] = IF i < cur THEN Previous[i] ELSE Link(i)
  <2>1. build_block_commits[h] = Previous \o [i \in 1..(h - cur + 1) |-> Link(cur + i - 1)]
    BY DEF build_block_commits, Previous
  <2>2. \A i \in cur..h : Link(i) \in S
    BY <1>1 DEF BatchHeights
  <2> HIDE DEF S
  <2>3. h \in Nat /\ cur <= h
    BY <1>1
  <2> DEFINE c == Previous \o [i \in 1..(h - cur + 1) |-> Link(cur + i - 1)]
  <2>4. /\ c \in Seq(S)
        /\ Len(c) = h
        /\ \A i \in 1..h : c[i] = IF i < cur THEN Previous[i] ELSE Link(i)
    BY <1>1, <1>3, <1>4, <2>2, <2>3, NewCommit
  <2>5. build_block_commits[h] = c
    BY <2>1
  <2> HIDE DEF c
  <2> QED
    BY <2>4, <2>5
<1> QED
  BY <1>5

LEMMA FlushLedger ==
    ASSUME IInv, LedgerOK, FlushBatch
    PROVE  LedgerOK'
<1>0. BatchLoaded
  BY DEF FlushBatch
<1>1. /\ cur = height + 1 /\ cur \in Nat /\ height \in Nat /\ cur >= 1
      /\ \A h \in BatchHeights : h \in Nat /\ h >= cur /\ h <= BatchEnd
      /\ BatchEnd \in Nat
      /\ \A h \in BatchHeights : BodyAt(h) \in Body
  BY <1>0, BatchFacts
<1>2. DOMAIN commits = 1..height /\ \A k \in DOMAIN rows : k[2] \in 1..height
  BY DEF IInv, NothingAboveTip
<1> DEFINE new == build_block_commits
<1>3. DOMAIN new = BatchHeights
  BY DEF build_block_commits
<1>4. PICK S : \A h \in BatchHeights :
              /\ new[h] \in Seq(S)
              /\ Len(new[h]) = h
              /\ \A i \in 1..h : new[h][i] = IF i < cur THEN Previous[i] ELSE Link(i)
  BY <1>0, BuiltCommits
<1> HIDE DEF new
<1>5. /\ DOMAIN commits' = 1..height \union BatchHeights
      /\ \A h \in BatchHeights : commits'[h] = new[h]
      /\ \A h \in 1..height : commits'[h] = commits[h]
  <2>1. commits' = Put(commits, new)
    BY FlushWrites DEF new
  <2>2. \A h \in 1..height : h \notin BatchHeights
    BY <1>1
  <2> QED
    BY <2>1, <2>2, <1>2, <1>3 DEF Put
<1>6. CommitsAreChains'
  BY <1>2, <1>4, <1>5 DEF CommitsAreChains, LedgerOK
<1>7. \A s, h : <<s, h>> \in DOMAIN rows' <=>
          <<s, h>> \in DOMAIN rows \/ (h \in BatchHeights /\ s \in Touched(BodyAt(h)))
  <2>1. DOMAIN rows' = DOMAIN rows \union DOMAIN Entries
    BY FlushWrites, PutDomain
  <2> TAKE s, h
  <2>2. <<s, h>> \in DOMAIN Entries <=> h \in BatchHeights /\ s \in Touched(BodyAt(h))
    BY EntryKeys
  <2> QED
    BY <2>1, <2>2
<1>8. ASSUME NEW h \in DOMAIN commits'
      PROVE  /\ Len(commits'[h]) = h
             /\ h > 1 => commits'[h - 1] = SubSeq(commits'[h], 1, h - 1)
             /\ DOMAIN commits'[h][h].root = {s \in Script : <<s, h>> \in DOMAIN rows'}
             /\ \A s \in DOMAIN commits'[h][h].root : commits'[h][h].root[s] = rows'[<<s, h>>]
  <2>1. CASE h \in 1..height
    <3>1. h \notin BatchHeights
      BY <1>1, <2>1
    <3>2. commits'[h] = commits[h] /\ (h > 1 => commits'[h - 1] = commits[h - 1])
      BY <1>1, <1>5, <2>1
    <3>3. \A s : <<s, h>> \in DOMAIN rows' <=> <<s, h>> \in DOMAIN rows
      BY <1>7, <3>1
    <3>4. \A s : <<s, h>> \in DOMAIN rows => rows'[<<s, h>>] = rows[<<s, h>>]
      BY <3>1, FlushWrites, EntryKeys DEF Put
    <3>5. h \in DOMAIN commits
      BY <1>2, <2>1
    <3>6. /\ Len(commits[h]) = h
          /\ h > 1 => commits[h - 1] = SubSeq(commits[h], 1, h - 1)
          /\ DOMAIN commits[h][h].root = {s \in Script : <<s, h>> \in DOMAIN rows}
          /\ \A s \in DOMAIN commits[h][h].root : commits[h][h].root[s] = rows[<<s, h>>]
      BY <3>5 DEF LedgerOK, CommitsBindRows
    <3> QED
      BY <3>2, <3>3, <3>4, <3>6
  <2>2. CASE h \in BatchHeights
    <3>1. commits'[h] = new[h] /\ h \in Nat /\ h >= cur
      BY <1>1, <1>5, <2>2
    <3>2. Len(commits'[h]) = h
      BY <1>4, <2>2, <3>1
    <3>3. ASSUME h > 1 PROVE commits'[h - 1] = SubSeq(commits'[h], 1, h - 1)
      <4> DEFINE low == SubSeq(new[h], 1, h - 1)
      <4>1. low \in Seq(S) /\ Len(low) = h - 1 /\ \A i \in 1..(h - 1) : low[i] = new[h][i]
        BY <1>4, <2>2, <3>1, <3>3
      <4>2. \A i \in 1..(h - 1) : new[h][i] = IF i < cur THEN Previous[i] ELSE Link(i)
        BY <1>4, <2>2, <3>1
      <4> HIDE DEF low
      <4>3. CASE h = cur
        <5>1. h - 1 = height /\ height \in DOMAIN commits /\ Previous = commits[height]
          BY <4>3, <1>1, <1>2, <3>3 DEF Previous
        <5>2. PICK T : commits[height] \in Seq(T)
          BY <5>1 DEF LedgerOK, CommitsAreChains
        <5>3. Len(commits[height]) = h - 1
          BY <5>1 DEF LedgerOK, CommitsBindRows
        <5>4. \A i \in 1..(h - 1) : low[i] = commits[height][i]
          BY <4>1, <4>2, <4>3, <5>1, <1>1
        <5>5. low = commits[height]
          BY <4>1, <5>2, <5>3, <5>4, SameSequence
        <5>6. commits'[h - 1] = commits[height]
          BY <5>1, <1>2, <1>5
        <5> QED
          BY <5>5, <5>6, <3>1 DEF low
      <4>4. CASE h > cur
        <5>1. h - 1 \in BatchHeights
          BY <4>4, <1>1, <2>2, <3>1 DEF BatchHeights
        <5>2. new[h - 1] \in Seq(S) /\ Len(new[h - 1]) = h - 1
          BY <5>1, <1>4
        <5>3. \A i \in 1..(h - 1) : new[h - 1][i] = IF i < cur THEN Previous[i] ELSE Link(i)
          BY <5>1, <1>4
        <5>4. \A i \in 1..(h - 1) : low[i] = new[h - 1][i]
          BY <4>1, <4>2, <5>3
        <5>5. low = new[h - 1]
          BY <4>1, <5>2, <5>4, SameSequence
        <5> QED
          BY <5>1, <5>5, <1>5, <3>1 DEF low
      <4> QED
        BY <4>3, <4>4, <3>1, <1>1
    <3>4. commits'[h][h] = Link(h)
      BY <1>1, <1>4, <2>2, <3>1
    <3>5. DOMAIN commits'[h][h].root = Touched(BodyAt(h))
      BY <3>4 DEF Link
    <3>6. \A s : <<s, h>> \notin DOMAIN rows
      BY <1>1, <1>2, <3>1
    <3>7. Touched(BodyAt(h)) \subseteq Script
      BY <1>1, <2>2, TouchedScripts
    <3>8. ASSUME NEW s \in Touched(BodyAt(h))
          PROVE  commits'[h][h].root[s] = rows'[<<s, h>>]
      <4>1. commits'[h][h].root[s] = Entries[<<s, h>>]
        BY <3>4 DEF Link
      <4>2. rows'[<<s, h>>] = Entries[<<s, h>>]
        BY <2>2, EntryKeys, FlushWrites DEF Put
      <4> QED
        BY <4>1, <4>2
    <3> QED
      BY <3>2, <3>3, <3>5, <3>6, <3>7, <3>8, <1>7, <2>2
  <2> QED
    BY <2>1, <2>2, <1>5
<1>9. CommitsBindRows'
  BY <1>8 DEF CommitsBindRows
<1> QED
  BY <1>6, <1>9 DEF LedgerOK

LEMMA UndoLedger ==
    ASSUME IInv, LedgerOK, UndoBlock
    PROVE  LedgerOK'
<1>1. /\ next = height /\ height \in Nat /\ height > 0 /\ height \in DOMAIN undo
  BY DEF UndoBlock, rollback_one_block, IInv, TypeOK, LoopTypeOK, StoreTypeOK,
         UndoCoversRollback, RollbackPCs
<1> DEFINE gone == undo[height].touched \X {height}
<1>2. DOMAIN commits' = DOMAIN commits \ {height} /\ \A h \in DOMAIN commits' : commits'[h] = commits[h]
  <2>1. commits' = Delete(commits, {height})
    BY <1>1 DEF UndoBlock, rollback_one_block
  <2> QED
    BY <2>1, DeleteDomain, DeleteValue
<1>3. DOMAIN rows' = DOMAIN rows \ gone /\ \A k \in DOMAIN rows' : rows'[k] = rows[k]
  <2>1. rows' = Delete(rows, gone)
    BY <1>1 DEF UndoBlock, rollback_one_block
  <2> HIDE DEF gone
  <2> QED
    BY <2>1, DeleteDomain, DeleteValue
<1>4. DOMAIN commits' = 1..(height - 1)
  BY <1>1, <1>2 DEF IInv, NothingAboveTip
<1>5. ASSUME NEW h \in DOMAIN commits'
      PROVE  /\ Len(commits'[h]) = h
             /\ h > 1 => commits'[h - 1] = SubSeq(commits'[h], 1, h - 1)
             /\ DOMAIN commits'[h][h].root = {s \in Script : <<s, h>> \in DOMAIN rows'}
             /\ \A s \in DOMAIN commits'[h][h].root : commits'[h][h].root[s] = rows'[<<s, h>>]
  <2>1. h \in DOMAIN commits /\ h # height /\ commits'[h] = commits[h]
    BY <1>2
  <2>2. h > 1 => commits'[h - 1] = commits[h - 1]
    BY <1>1, <1>2, <1>4
  <2>3. \A s : <<s, h>> \notin gone
    BY <2>1
  <2>4. \A s : <<s, h>> \in DOMAIN rows' <=> <<s, h>> \in DOMAIN rows
    BY <1>3, <2>3
  <2>5. \A s : <<s, h>> \in DOMAIN rows => rows'[<<s, h>>] = rows[<<s, h>>]
    BY <1>3, <2>4
  <2>6. /\ Len(commits[h]) = h
        /\ h > 1 => commits[h - 1] = SubSeq(commits[h], 1, h - 1)
        /\ DOMAIN commits[h][h].root = {s \in Script : <<s, h>> \in DOMAIN rows}
        /\ \A s \in DOMAIN commits[h][h].root : commits[h][h].root[s] = rows[<<s, h>>]
    BY <2>1 DEF LedgerOK, CommitsBindRows
  <2> HIDE DEF gone
  <2> QED
    BY <2>1, <2>2, <2>4, <2>5, <2>6
<1>6. CommitsBindRows'
  BY <1>5 DEF CommitsBindRows
<1>7. CommitsAreChains'
  BY <1>2 DEF CommitsAreChains, LedgerOK
<1> QED
  BY <1>6, <1>7 DEF LedgerOK

LEMMA NextLedger == IInv /\ LedgerOK /\ [Next]_vars => LedgerOK'
<1> SUFFICES ASSUME IInv, LedgerOK, [Next]_vars PROVE LedgerOK'
  OBVIOUS
<1>1. CASE UNCHANGED <<rows, commits>>
  BY <1>1 DEF LedgerOK, CommitsAreChains, CommitsBindRows
<1>2. ASSUME ReadOnlyStep PROVE UNCHANGED <<rows, commits>>
  BY <1>2, ReadOnlyStore DEF dbVars, ledgerVars
<1>3. ASSUME MarkerStep PROVE UNCHANGED <<rows, commits>>
  BY <1>3 DEF MarkerStep, MarkInProgress, MarkTarget, MarkNext, PutNext, ClearInProgress,
      ClearTarget, FinishRollback, put_rollback_in_progress, put_rollback_target_height,
      put_rollback_next_height, delete_rollback_in_progress, ledgerVars
<1>4. ASSUME PruneUndo PROVE UNCHANGED <<rows, commits>>
  BY <1>4 DEF PruneUndo, prune_undo_before_height, dbVars, ledgerVars
<1>5. CASE UNCHANGED vars
  BY <1>1, <1>5 DEF vars, dbVars, ledgerVars
<1> QED
  BY <1>1, <1>2, <1>3, <1>4, <1>5, FlushLedger, UndoLedger
     DEF Next, SyncStep, Environment, Rollback, ReadOnlyStep, MarkerStep

\* Every commit extends the one below by one link whose root is the balance rows stored at
\* its height, through any batches, rollbacks, re-syncs, errors and crashes.
THEOREM CommitsBindRowsAlways == Spec => []CommitsBindRows
<1>1. Init => LedgerOK
  BY DEF Init, EmptyDB, LedgerOK, CommitsAreChains, CommitsBindRows
<1>2. IInv /\ LedgerOK /\ [Next]_vars => LedgerOK'
  BY NextLedger
<1>3. LedgerOK => CommitsBindRows
  BY DEF LedgerOK
<1> QED
  BY <1>1, <1>2, <1>3, Inductive, PTL DEF Spec

-----------------------------------------------------------------------------
(* What the store holds: the caches that feed its rows agree with it, and  *)
(* it is the replay of the blocks it has committed.                        *)


LEMMA GreatestNat ==
    ASSUME NEW S, S \subseteq Nat, S # {}, NEW n \in Nat, \A x \in S : x <= n
    PROVE  \E m \in S : \A x \in S : x <= m
<1> DEFINE upper == {k \in Nat : \A x \in S : x <= k}
<1>1. upper # {} /\ upper \subseteq Nat
  OBVIOUS
<1>2. PICK m \in upper : \A k \in upper : m <= k
  BY <1>1, LeastNat
<1>3. m \in S
  <2> SUFFICES ASSUME m \notin S PROVE FALSE
    OBVIOUS
  <2>1. \A x \in S : x <= m - 1
    BY <1>2
  <2>2. PICK x \in S : TRUE
    OBVIOUS
  <2>3. m - 1 \in upper
    BY <2>1, <2>2, <1>2
  <2> QED
    BY <2>3, <1>2
<1> QED
  BY <1>2, <1>3

-----------------------------------------------------------------------------
(* What a block pays and takes *)

LEMMA PaidToType ==
    ASSUME NEW s, NEW O \in SUBSET Outpoint, IsFiniteSet(O)
    PROVE  PaidTo(s, O) \in Int
<1> DEFINE mine == {o \in O : ScriptOf[o] = s}
<1>1. IsFiniteSet(mine)
  BY FS_Subset
<1>2. \A o \in mine : ValueOf[o] \in Int
  BY OutputAssumption
<1> QED
  BY <1>1, <1>2, SumType DEF PaidTo

LEMMA DeltaType ==
    ASSUME NEW b \in Body, NEW s
    PROVE  Delta(b, s) \in Int
<1>1. /\ b.created \in SUBSET Outpoint /\ IsFiniteSet(b.created)
      /\ b.spent \in SUBSET Outpoint /\ IsFiniteSet(b.spent)
  BY BodyAssumption
<1> QED
  BY <1>1, PaidToType DEF Delta

\* A block leaves the balance of a script it does not touch.
LEMMA UntouchedDelta ==
    ASSUME NEW b \in Body, NEW s, s \notin Touched(b)
    PROVE  Delta(b, s) = 0
<1>1. {o \in b.created : ScriptOf[o] = s} = {} /\ {o \in b.spent : ScriptOf[o] = s} = {}
  BY DEF Touched
<1>2. PaidTo(s, b.created) = 0 /\ PaidTo(s, b.spent) = 0
  BY <1>1, SumEmpty DEF PaidTo
<1> QED
  BY <1>2 DEF Delta

-----------------------------------------------------------------------------
(* The balances of a batch *)

\* The deltas of the batch for script s, as BalanceAfter adds them up.
Deltas(s) == [g \in BatchHeights |-> Delta(BodyAt(g), s)]

LEMMA DeltasType ==
    ASSUME IInv, BatchLoaded, NEW s
    PROVE  /\ \A g \in BatchHeights : Deltas(s)[g] \in Int
           /\ \A g \in BatchHeights : s \notin Touched(BodyAt(g)) => Deltas(s)[g] = 0
<1>1. \A g \in BatchHeights : BodyAt(g) \in Body
  BY BatchFacts
<1> QED
  BY <1>1, DeltaType, UntouchedDelta DEF Deltas

\* No block of the batch after height l touches s: its balance is that after l.
LEMMA BalanceSettles ==
    ASSUME IInv, BatchLoaded, NEW s, NEW l \in BatchHeights, NEW h \in BatchHeights, l <= h,
           \A g \in BatchHeights : s \in Touched(BodyAt(g)) => g <= l
    PROVE  BalanceAfter(s, h) = BalanceAfter(s, l)
<1>1. /\ cur \in Nat /\ BatchEnd \in Nat
      /\ \A g \in BatchHeights : g \in Nat /\ g >= cur /\ g <= BatchEnd
  BY BatchFacts
<1>2. cur..h \subseteq BatchHeights /\ cur..l \in SUBSET (cur..h)
  BY <1>1 DEF BatchHeights
<1>3. IsFiniteSet(cur..h)
  BY <1>1, FS_Interval
<1>4. \A g \in cur..h : Deltas(s)[g] \in Int
  BY <1>2, DeltasType
<1>5. \A g \in cur..h : g \notin cur..l => Deltas(s)[g] = 0
  <2> TAKE g \in cur..h
  <2> HAVE g \notin cur..l
  <2>1. g \in BatchHeights /\ ~(g <= l)
    BY <1>1, <1>2
  <2> QED
    BY <2>1, DeltasType
<1>6. SumFunctionOnSet(Deltas(s), cur..h) = SumFunctionOnSet(Deltas(s), cur..l)
  BY <1>2, <1>3, <1>4, <1>5, SumDropZeros
<1> QED
  BY <1>6 DEF BalanceAfter, Deltas

LEMMA LastTouchFacts ==
    ASSUME IInv, BatchLoaded, NEW s \in BatchTouched
    PROVE  /\ LastTouch(s) \in BatchHeights
           /\ s \in Touched(BodyAt(LastTouch(s)))
           /\ \A g \in BatchHeights : s \in Touched(BodyAt(g)) => g <= LastTouch(s)
<1>1. BatchEnd \in Nat /\ \A g \in BatchHeights : g \in Nat /\ g <= BatchEnd
  BY BatchFacts
<1> DEFINE at == {g \in BatchHeights : s \in Touched(BodyAt(g))}
<1>2. at # {} /\ at \subseteq Nat /\ \A g \in at : g <= BatchEnd
  BY <1>1 DEF BatchTouched
<1>3. \E m \in at : \A g \in at : g <= m
  <2> HIDE DEF at
  <2> QED
    BY <1>1, <1>2, GreatestNat
<1>4. \E h \in BatchHeights : /\ s \in Touched(BodyAt(h))
                              /\ \A g \in BatchHeights : s \in Touched(BodyAt(g)) => g <= h
  BY <1>3
<1> QED
  BY <1>4 DEF LastTouch
\* The cache after a batch: a touched script has its last row of the batch, or no entry.
LEMMA CachedEntry ==
    ASSUME NEW s \in DOMAIN CachedBalances
    PROVE  \/ /\ s \notin BatchTouched
              /\ s \in DOMAIN balanceCache
              /\ CachedBalances[s] = balanceCache[s]
           \/ /\ s \in BatchTouched
              /\ CachedBalances[s] = [height |-> LastTouch(s), balance |-> BalanceAfter(s, BatchEnd)]
<1> DEFINE zero == {t \in BatchTouched : BalanceAfter(t, BatchEnd) = 0}
           new == [t \in BatchTouched \ zero |->
                     [height |-> LastTouch(t), balance |-> BalanceAfter(t, BatchEnd)]]
           all == Put(balanceCache, new)
<1>1. CachedBalances = Delete(all, zero)
  BY DEF CachedBalances
<1>2. /\ zero \subseteq BatchTouched /\ DOMAIN new = BatchTouched \ zero
      /\ \A t \in DOMAIN new : new[t] = [height |-> LastTouch(t), balance |-> BalanceAfter(t, BatchEnd)]
  OBVIOUS
<1> HIDE DEF zero, new
<1>3. /\ DOMAIN all = DOMAIN balanceCache \union DOMAIN new
      /\ \A t \in DOMAIN all : all[t] = IF t \in DOMAIN new THEN new[t] ELSE balanceCache[t]
  BY DEF Put
<1> HIDE DEF all
<1>4. s \in DOMAIN all /\ s \notin zero /\ CachedBalances[s] = all[s]
  <2>1. DOMAIN CachedBalances = DOMAIN all \ zero
    BY <1>1, DeleteDomain
  <2>2. s \in DOMAIN all \ zero
    BY <2>1
  <2>3. Delete(all, zero)[s] = all[s]
    BY <2>2, DeleteValue
  <2> QED
    BY <1>1, <2>2, <2>3
<1> QED
  BY <1>2, <1>3, <1>4

LEMMA FlushCaches ==
    ASSUME IInv, FlushBatch, CachesAgree
    PROVE  CachesAgree'
<1>0. BatchLoaded
  BY DEF FlushBatch
<1>1. /\ cur = height + 1 /\ cur \in Nat /\ height \in Nat
      /\ BatchEnd \in Nat /\ cur <= BatchEnd
      /\ \A h \in BatchHeights : h \in Nat /\ h >= cur /\ h <= BatchEnd
  BY <1>0, BatchFacts
<1>2. utxoCache' \subseteq utxo'
  BY DEF FlushBatch, update_block_state_batch_async, CachesAgree
<1>3. \A s, h : <<s, h>> \in DOMAIN rows' <=>
          <<s, h>> \in DOMAIN rows \/ (h \in BatchHeights /\ s \in Touched(BodyAt(h)))
  <2>1. DOMAIN rows' = DOMAIN rows \union DOMAIN Entries
    BY FlushWrites, PutDomain
  <2> TAKE s, h
  <2>2. <<s, h>> \in DOMAIN Entries <=> h \in BatchHeights /\ s \in Touched(BodyAt(h))
    BY EntryKeys
  <2> QED
    BY <2>1, <2>2
<1>4. height' = BatchEnd /\ balanceCache' = CachedBalances
  BY FlushWrites DEF FlushBatch
<1>5. ASSUME NEW s \in DOMAIN balanceCache'
      PROVE  /\ balanceCache'[s].height <= height'
             /\ <<s, balanceCache'[s].height>> \in DOMAIN rows'
             /\ balanceCache'[s].balance = rows'[<<s, balanceCache'[s].height>>].balance
             /\ \A g \in balanceCache'[s].height + 1 .. height' : <<s, g>> \notin DOMAIN rows'
  <2>0. s \in DOMAIN CachedBalances
    BY <1>4
  <2>1. CASE s \notin BatchTouched
    <3>1. s \in DOMAIN balanceCache /\ balanceCache'[s] = balanceCache[s]
      BY <2>0, <2>1, <1>4, CachedEntry
    <3> DEFINE h == balanceCache[s].height
    <3>2. /\ h <= height /\ <<s, h>> \in DOMAIN rows
          /\ balanceCache[s].balance = rows[<<s, h>>].balance
          /\ \A g \in h + 1 .. height : <<s, g>> \notin DOMAIN rows
      BY <3>1 DEF CachesAgree
    <3>3. h \in 1..height
      BY <3>2 DEF IInv, NothingAboveTip
    <3>4. \A g \in BatchHeights : s \notin Touched(BodyAt(g))
      BY <2>1 DEF BatchTouched
    <3>5. rows'[<<s, h>>] = rows[<<s, h>>]
      <4>1. <<s, h>> \notin DOMAIN Entries
        BY <3>4, EntryKeys
      <4> QED
        BY <4>1, <3>2, FlushWrites DEF Put
    <3> HIDE DEF h
    <3>6. ASSUME NEW g \in h + 1 .. BatchEnd PROVE <<s, g>> \notin DOMAIN rows'
      <4>1. <<s, g>> \notin DOMAIN rows
        <5>1. CASE g <= height
          BY <5>1, <3>2, <3>3, <1>1
        <5>2. CASE g > height
          BY <5>2, <1>1 DEF IInv, NothingAboveTip
        <5> QED
          BY <5>1, <5>2, <3>3, <1>1
      <4> QED
        BY <4>1, <1>3, <3>4
    <3>7. /\ h <= BatchEnd
          /\ <<s, h>> \in DOMAIN rows'
          /\ balanceCache[s].balance = rows'[<<s, h>>].balance
      BY <3>2, <3>3, <3>5, <1>1, <1>3
    <3> QED
      BY <3>1, <3>6, <3>7, <1>4 DEF h
  <2>2. CASE s \in BatchTouched
    <3> DEFINE l == LastTouch(s)
    <3>1. balanceCache'[s] = [height |-> l, balance |-> BalanceAfter(s, BatchEnd)]
      BY <2>0, <2>2, <1>4, CachedEntry
    <3>2. /\ l \in BatchHeights /\ s \in Touched(BodyAt(l))
          /\ \A g \in BatchHeights : s \in Touched(BodyAt(g)) => g <= l
      BY <2>2, <1>0, LastTouchFacts
    <3> HIDE DEF l
    <3>3. BatchEnd \in BatchHeights /\ l <= BatchEnd /\ l \in Nat
      BY <1>1, <3>2 DEF BatchHeights
    <3>4. BalanceAfter(s, BatchEnd) = BalanceAfter(s, l)
      BY <1>0, <3>2, <3>3, BalanceSettles
    <3>5. <<s, l>> \in DOMAIN Entries /\ <<s, l>> \in DOMAIN rows'
      BY <3>2, EntryKeys, <1>3
    <3>6. rows'[<<s, l>>] = Entries[<<s, l>>]
      BY <3>5, FlushWrites DEF Put
    <3>7. Entries[<<s, l>>].balance = BalanceAfter(s, l)
      BY <3>5 DEF Entries
    <3>8. ASSUME NEW g \in l + 1 .. BatchEnd PROVE <<s, g>> \notin DOMAIN rows'
      <4>1. g \in Nat /\ g > l /\ g > height
        BY <3>2, <3>3, <1>1
      <4>2. <<s, g>> \notin DOMAIN rows
        BY <4>1, <1>1 DEF IInv, NothingAboveTip
      <4>3. ~(g \in BatchHeights /\ s \in Touched(BodyAt(g)))
        BY <4>1, <3>2, <3>3
      <4> QED
        BY <4>2, <4>3, <1>3
    <3> QED
      BY <3>1, <3>3, <3>4, <3>5, <3>6, <3>7, <3>8, <1>4
  <2> QED
    BY <2>1, <2>2
<1> QED
  BY <1>2, <1>5 DEF CachesAgree

-----------------------------------------------------------------------------
(* The caches through the loop *)

\* Where the caches agree with the store: wherever the loop may come from to a batch without
\* passing a rollback.
CacheInv ==
    \/ pc \in {"latest", "check", "search", "plan", "load", "prune", "wait", "panic"}
    \/ pc = "sync_once" /\ ~rbInProgress
    => CachesAgree

LEMMA NextCaches ==
    ASSUME "db" \notin Faults, IInv, CacheInv, [Next]_vars
    PROVE  CacheInv'
<1>1. CASE utxoCache' = {} /\ balanceCache' = << >>
  BY <1>1, EmptyDomain DEF CacheInv, CachesAgree
<1>2. CASE pc' \in {"mark", "mark_target", "mark_next", "undo", "put_next", "clear_target",
                    "clear_next"}
  BY <1>2 DEF CacheInv
<1>3. ASSUME CachesAgree, UNCHANGED <<utxo, rows, height>>,
             utxoCache' \subseteq utxoCache,
             DOMAIN balanceCache' \subseteq DOMAIN balanceCache,
             \A s \in DOMAIN balanceCache' : balanceCache'[s] = balanceCache[s]
      PROVE  CacheInv'
  BY <1>3 DEF CacheInv, CachesAgree
<1>4. CASE UNCHANGED <<utxo, rows, height, utxoCache, balanceCache>> /\ CachesAgree
  BY <1>4, <1>3
<1>5. ASSUME UNCHANGED <<utxo, rows, height, utxoCache, balanceCache, rbInProgress>>,
             \/ pc' = pc
             \/ pc \in {"latest", "check", "search", "plan", "load", "prune", "wait", "panic"}
             \/ pc = "sync_once" /\ ~rbInProgress
      PROVE  CacheInv'
  <2>1. CASE CachesAgree
    BY <2>1, <1>5, <1>4
  <2>2. CASE ~CachesAgree
    BY <2>2, <1>5 DEF CacheInv
  <2> QED
    BY <2>1, <2>2
<1> USE DEF dbVars, ledgerVars, windowVars, rollbackVars, envVars, cacheVars, statusVars, loopVars
<1>6. CASE UNCHANGED vars
  BY <1>6, <1>5 DEF vars
<1>7. CASE NothingToResume
  BY <1>7, <1>5 DEF NothingToResume
<1>8. CASE ResumeRollback
  BY <1>8, <1>2 DEF ResumeRollback
<1>9. CASE ResumeRefused
  BY <1>9, <1>5 DEF ResumeRefused
<1>10. CASE GetLatest
  BY <1>10, <1>5 DEF GetLatest
<1>11. CASE TipMatches
  BY <1>11, <1>5 DEF TipMatches
<1>12. CASE TipMoved
  BY <1>12, <1>5 DEF TipMoved
<1>13. CASE ProbeFails
  BY <1>13, <1>5 DEF ProbeFails, AbandonPass
<1>14. CASE ProbeLower
  BY <1>14, <1>5 DEF ProbeLower
<1>15. CASE RollbackIsEmpty
  BY <1>15, <1>1 DEF RollbackIsEmpty, ClearCaches
<1>16. CASE RollbackRefused
  BY <1>16, <1>5 DEF RollbackRefused, AncestorFound
<1>17. CASE Rollback
  BY <1>17, <1>1, <1>2 DEF Rollback, BeginRollback, MarkInProgress, MarkTarget, MarkNext, UndoBlock,
     PutNext, ClearInProgress, ClearTarget, FinishRollback, ClearCaches
<1>18. CASE PlanSync
  BY <1>18, <1>5 DEF PlanSync
<1>19. CASE \E h \in BatchHeights : LoadBlock(h)
  BY <1>19, <1>5 DEF LoadBlock
<1>20. CASE LoadFails
  BY <1>20, <1>5 DEF LoadFails, AbandonPass
<1>21. CASE Panic
  BY <1>21, <1>5 DEF Panic, BatchLoaded
<1>22. CASE FlushBatch
  <2>1. pc = "load"
    BY <1>22 DEF FlushBatch, BatchLoaded
  <2>2. CachesAgree'
    BY <1>22, <2>1, FlushCaches DEF CacheInv
  <2> QED
    BY <2>2 DEF CacheInv
<1>23. CASE PruneUndo
  BY <1>23, <1>5 DEF PruneUndo, prune_undo_before_height
<1>24. CASE KeepWaiting
  BY <1>24, <1>6 DEF KeepWaiting
<1>25. CASE WakeUp
  BY <1>25, <1>5 DEF WakeUp
<1>26. CASE Restart \/ Crash
  BY <1>26, <1>1 DEF Restart, Crash, LoseMemory
<1>27. CASE ExtendChain \/ ReplaceChain
  BY <1>27, <1>5 DEF ExtendChain, ReplaceChain
<1>28. CASE EvictUtxo
  <2>1. CASE CachesAgree
    BY <1>28, <2>1, <1>3 DEF EvictUtxo
  <2>2. CASE ~CachesAgree
    BY <1>28, <2>2 DEF EvictUtxo, CacheInv
  <2> QED
    BY <2>1, <2>2
<1>29. CASE EvictBalance
  <2>1. PICK t : balanceCache' = Delete(balanceCache, {t})
    BY <1>29 DEF EvictBalance
  <2>2. /\ DOMAIN balanceCache' \subseteq DOMAIN balanceCache
        /\ \A s \in DOMAIN balanceCache' : balanceCache'[s] = balanceCache[s]
    <3>1. DOMAIN balanceCache' = DOMAIN balanceCache \ {t}
      BY <2>1, DeleteDomain
    <3>2. \A s \in DOMAIN balanceCache \ {t} : Delete(balanceCache, {t})[s] = balanceCache[s]
      BY DeleteValue
    <3> QED
      BY <2>1, <3>1, <3>2
  <2>3. CASE CachesAgree
    BY <1>29, <2>2, <2>3, <1>3 DEF EvictBalance
  <2>4. CASE ~CachesAgree
    BY <1>29, <2>4 DEF EvictBalance, CacheInv
  <2> QED
    BY <2>3, <2>4
<1>30. CASE RpcError
  BY <1>30, <1>5 DEF RpcError, AbandonPass
<1>31. CASE DbError
  BY <1>31 DEF DbError, Fault
<1> QED
  BY <1>6, <1>7, <1>8, <1>9, <1>10, <1>11, <1>12, <1>13, <1>14, <1>15, <1>16, <1>17, <1>18,
     <1>19, <1>20, <1>21, <1>22, <1>23, <1>24, <1>25, <1>26, <1>27, <1>28, <1>29, <1>30, <1>31
     DEF Next, SyncStep, Environment

\* Outside a rollback the caches agree with the store, if no write to the store fails: a
\* failed delete at the end of a rollback returns before the caches are cleared.
THEOREM CachesStayCoherent == ASSUME "db" \notin Faults PROVE Spec => []CacheCoherent
<1>1. Init => CacheInv
  BY EmptyDomain DEF Init, EmptyMemory, CacheInv, CachesAgree
<1>2. IInv /\ CacheInv /\ [Next]_vars => CacheInv'
  BY NextCaches
<1>3. CacheInv => CacheCoherent
  BY DEF CacheInv, CacheCoherent
<1> QED
  BY <1>1, <1>2, <1>3, Inductive, PTL DEF Spec

-----------------------------------------------------------------------------
(* Replaying a chain *)

LEMMA ReplaySame ==
    ASSUME NEW c, NEW d, NEW h \in Nat, \A i \in 1..h : c[i] = d[i]
    PROVE  ReplayUtxo(c, h) = ReplayUtxo(d, h)
<1>1. {c[i].created : i \in 1..h} = {d[i].created : i \in 1..h}
  OBVIOUS
<1>2. {c[i].spent : i \in 1..h} = {d[i].spent : i \in 1..h}
  OBVIOUS
<1> QED
  BY <1>1, <1>2 DEF ReplayUtxo

LEMMA InReplay ==
    ASSUME NEW c, NEW h \in Nat, NEW o
    PROVE  o \in ReplayUtxo(c, h) <=> /\ \E i \in 1..h : o \in c[i].created
                                      /\ ~ \E i \in 1..h : o \in c[i].spent
BY DEF ReplayUtxo

LEMMA BlockFacts ==
    ASSUME NEW c \in Seq(Body), NEW i \in 1..Len(c)
    PROVE  /\ c[i] \in Body
           /\ c[i].created \in SUBSET Outpoint /\ IsFiniteSet(c[i].created)
           /\ c[i].spent \in SUBSET Outpoint /\ IsFiniteSet(c[i].spent)
<1>1. c[i] \in Body
  OBVIOUS
<1> QED
  BY <1>1, BodyAssumption

LEMMA ReplayFinite ==
    ASSUME NEW c \in Seq(Body), NEW h \in Nat, h <= Len(c)
    PROVE  ReplayUtxo(c, h) \in SUBSET Outpoint /\ IsFiniteSet(ReplayUtxo(c, h))
<1> DEFINE made == {c[i].created : i \in 1..h}
<1>1. \A i \in 1..h : i \in 1..Len(c)
  OBVIOUS
<1>2. \A S \in made : S \in SUBSET Outpoint /\ IsFiniteSet(S)
  BY <1>1, BlockFacts
<1>3. IsFiniteSet(made)
  <2> DEFINE f == [i \in 1..h |-> c[i].created]
  <2>1. f \in Surjection(1..h, made)
    BY DEF Surjection
  <2>2. IsFiniteSet(1..h)
    BY FS_Interval
  <2> HIDE DEF f, made
  <2> QED
    BY <2>1, <2>2, FS_Surjection
<1>4. IsFiniteSet(UNION made)
  <2> HIDE DEF made
  <2> QED
    BY <1>2, <1>3, FS_UNION
<1>5. ReplayUtxo(c, h) \subseteq UNION made
  BY DEF ReplayUtxo
<1>6. UNION made \subseteq Outpoint
  BY <1>2
<1> QED
  BY <1>4, <1>5, <1>6, FS_Subset

\* The blocks g+1..h do not touch s: its outputs are those it had after block g.
LEMMA QuietStretch ==
    ASSUME NEW c, NEW h \in Nat, NEW g \in Nat, g <= h, NEW s,
           \A i \in g + 1 .. h : s \notin Touched(c[i])
    PROVE  PaidTo(s, ReplayUtxo(c, h)) = PaidTo(s, ReplayUtxo(c, g))
<1>1. ASSUME NEW o, ScriptOf[o] = s, NEW i \in 1..h, o \in c[i].created \/ o \in c[i].spent
      PROVE  i \in 1..g
  <2>1. s \in Touched(c[i])
    BY <1>1 DEF Touched
  <2> QED
    BY <2>1
<1>2. \A i \in 1..g : i \in 1..h
  OBVIOUS
<1>3. ASSUME NEW o, ScriptOf[o] = s
      PROVE  o \in ReplayUtxo(c, h) <=> o \in ReplayUtxo(c, g)
  BY <1>1, <1>2, <1>3, InReplay
<1>4. {o \in ReplayUtxo(c, h) : ScriptOf[o] = s} = {o \in ReplayUtxo(c, g) : ScriptOf[o] = s}
  BY <1>3
<1> QED
  BY <1>4 DEF PaidTo

LEMMA NothingPaid ==
    ASSUME NEW c, NEW s
    PROVE  PaidTo(s, ReplayUtxo(c, 0)) = 0
<1>1. {o \in ReplayUtxo(c, 0) : ScriptOf[o] = s} = {}
  BY InReplay
<1> QED
  BY <1>1, SumEmpty DEF PaidTo

LEMMA PaidToUnion ==
    ASSUME NEW A \in SUBSET Outpoint, IsFiniteSet(A), NEW B \in SUBSET Outpoint, IsFiniteSet(B),
           \A o \in A : o \notin B, NEW s
    PROVE  PaidTo(s, A \union B) = PaidTo(s, A) + PaidTo(s, B)
<1> DEFINE a == {o \in A : ScriptOf[o] = s}
           b == {o \in B : ScriptOf[o] = s}
<1>1. {o \in A \union B : ScriptOf[o] = s} = a \union b
  OBVIOUS
<1>2. IsFiniteSet(a) /\ IsFiniteSet(b)
  BY FS_Subset
<1>3. \A o \in a \union b : ValueOf[o] \in Int
  BY OutputAssumption
<1>4. \A o \in a : o \notin b
  OBVIOUS
<1>5. SumFunctionOnSet(ValueOf, a \union b) = SumFunctionOnSet(ValueOf, a) + SumFunctionOnSet(ValueOf, b)
  <2> HIDE DEF a, b
  <2> QED
    BY <1>2, <1>3, <1>4, SumUnion
<1> QED
  BY <1>1, <1>5 DEF PaidTo

\* A block of a valid chain spends outputs that are there and creates ones that are not.
LEMMA BlockOnReplay ==
    ASSUME NEW c \in Seq(Body), ValidChain(c), NEW h \in 1..Len(c)
    PROVE  /\ \A o \in c[h].created : o \notin ReplayUtxo(c, h - 1)
           /\ \A o \in c[h].spent : o \in ReplayUtxo(c, h - 1) \union c[h].created
           /\ ReplayUtxo(c, h) = (ReplayUtxo(c, h - 1) \union c[h].created) \ c[h].spent
           /\ (ReplayUtxo(c, h) \ c[h].created) \union (c[h].spent \ c[h].created) = ReplayUtxo(c, h - 1)
<1>0. /\ h \in Nat /\ h - 1 \in Nat /\ DOMAIN c = 1..Len(c)
      /\ \A i : i \in 1..h <=> i \in 1..(h - 1) \/ i = h
      /\ \A i \in 1..h : i \in DOMAIN c
      /\ \A i \in 1..(h - 1) : i # h
  OBVIOUS
<1>1. \A i \in 1..(h - 1) : \A o : ~(o \in c[i].created /\ o \in c[h].created)
  BY <1>0 DEF ValidChain
<1>2. \A i \in 1..(h - 1) : \A o : ~(o \in c[i].spent /\ o \in c[h].spent)
  BY <1>0 DEF ValidChain
<1>3. ASSUME NEW j \in 1..h, NEW o, o \in c[j].spent
      PROVE  \E i \in 1..j : o \in c[i].created
  BY <1>0, <1>3 DEF ValidChain
<1>4. ASSUME NEW o, o \in c[h].created, NEW j \in 1..(h - 1), o \in c[j].spent
      PROVE  FALSE
  <2>1. PICK i \in 1..j : o \in c[i].created
    BY <1>4, <1>0, <1>3
  <2>2. i \in 1..(h - 1)
    OBVIOUS
  <2> QED
    BY <2>1, <2>2, <1>4, <1>1
<1>5. \A o : o \in ReplayUtxo(c, h) <=> /\ \E i \in 1..h : o \in c[i].created
                                        /\ ~ \E i \in 1..h : o \in c[i].spent
  BY <1>0, InReplay
<1>6. \A o : o \in ReplayUtxo(c, h - 1) <=> /\ \E i \in 1..(h - 1) : o \in c[i].created
                                            /\ ~ \E i \in 1..(h - 1) : o \in c[i].spent
  BY <1>0, InReplay
<1>7. \A o \in c[h].created : o \notin ReplayUtxo(c, h - 1)
  BY <1>1, <1>6
<1>8. \A o \in c[h].spent : o \in ReplayUtxo(c, h - 1) \union c[h].created
  BY <1>0, <1>2, <1>3, <1>6
<1>9. ASSUME NEW o
      PROVE  o \in ReplayUtxo(c, h) <=> (o \in ReplayUtxo(c, h - 1) \/ o \in c[h].created) /\ o \notin c[h].spent
  BY <1>0, <1>4, <1>5, <1>6
<1>10. ReplayUtxo(c, h) = (ReplayUtxo(c, h - 1) \union c[h].created) \ c[h].spent
  BY <1>9
<1>11. (ReplayUtxo(c, h) \ c[h].created) \union (c[h].spent \ c[h].created) = ReplayUtxo(c, h - 1)
  BY <1>10, <1>7, <1>8
<1> QED
  BY <1>7, <1>8, <1>10, <1>11

\* A block of a valid chain moves the balance of a script by its delta.
LEMMA BalanceStep ==
    ASSUME NEW c \in Seq(Body), ValidChain(c), NEW h \in 1..Len(c), NEW s
    PROVE  /\ PaidTo(s, ReplayUtxo(c, h)) \in Int
           /\ PaidTo(s, ReplayUtxo(c, h - 1)) \in Int
           /\ PaidTo(s, ReplayUtxo(c, h)) = PaidTo(s, ReplayUtxo(c, h - 1)) + Delta(c[h], s)
<1> DEFINE A == ReplayUtxo(c, h - 1)
           Z == ReplayUtxo(c, h)
           new == c[h].created
           old == c[h].spent
<1>1. /\ A \in SUBSET Outpoint /\ IsFiniteSet(A)
      /\ Z \in SUBSET Outpoint /\ IsFiniteSet(Z)
  BY ReplayFinite
<1>2. /\ new \in SUBSET Outpoint /\ IsFiniteSet(new)
      /\ old \in SUBSET Outpoint /\ IsFiniteSet(old)
  BY BlockFacts
<1>3. /\ \A o \in A : o \notin new
      /\ \A o \in old : o \in A \union new
      /\ Z = (A \union new) \ old
  BY BlockOnReplay
<1>4. Delta(c[h], s) = PaidTo(s, new) - PaidTo(s, old)
  BY DEF Delta
<1> HIDE DEF A, Z, new, old
<1>5. PaidTo(s, A \union new) = PaidTo(s, A) + PaidTo(s, new)
  BY <1>1, <1>2, <1>3, PaidToUnion
<1>6. PaidTo(s, Z \union old) = PaidTo(s, Z) + PaidTo(s, old)
  <2>1. \A o \in Z : o \notin old
    BY <1>3
  <2> QED
    BY <1>1, <1>2, <2>1, PaidToUnion
<1>7. Z \union old = A \union new
  BY <1>3
<1>8. /\ PaidTo(s, A) \in Int /\ PaidTo(s, Z) \in Int
      /\ PaidTo(s, new) \in Int /\ PaidTo(s, old) \in Int
  BY <1>1, <1>2, PaidToType
<1> DEFINE a == PaidTo(s, A)
           z == PaidTo(s, Z)
           n == PaidTo(s, new)
           m == PaidTo(s, old)
<1>9. a + n = z + m /\ a \in Int /\ z \in Int /\ n \in Int /\ m \in Int /\ Delta(c[h], s) = n - m
  BY <1>4, <1>5, <1>6, <1>7, <1>8
<1>10. z = a + Delta(c[h], s)
  <2> HIDE DEF a, z, n, m
  <2> QED
    BY <1>9
<1> QED
  BY <1>8, <1>10 DEF A, Z

-----------------------------------------------------------------------------
(* The store and a chain *)

\* The store is what the first height blocks of the valid chain c leave behind.  Unlike
\* StateIsReplay it speaks of every row and of every undo bundle, and c may go on above height.
StoreHolds(c) ==
    /\ c \in Seq(Body)
    /\ height <= Len(c)
    /\ ValidChain(c)
    /\ \A h \in 1..height : CommitHash(h) = SubSeq(c, 1, h)
    /\ utxo = ReplayUtxo(c, height)
    /\ \A h \in 1..height, s \in Script : <<s, h>> \in DOMAIN rows <=> s \in Touched(c[h])
    /\ \A k \in DOMAIN rows : rows[k].balance = PaidTo(k[1], ReplayUtxo(c, k[2]))
    /\ \A h \in DOMAIN undo : /\ undo[h].created = c[h].created
                              /\ undo[h].spent = c[h].spent \ c[h].created

LEMMA SamePrefix ==
    ASSUME NEW c \in Seq(Body), NEW d \in Seq(Body), NEW h \in Nat, h <= Len(c), h <= Len(d)
    PROVE  SubSeq(c, 1, h) = SubSeq(d, 1, h) <=> \A i \in 1..h : c[i] = d[i]
<1> DEFINE a == SubSeq(c, 1, h)
           b == SubSeq(d, 1, h)
<1>1. a \in Seq(Body) /\ Len(a) = h /\ \A i \in 1..h : a[i] = c[i]
  OBVIOUS
<1>2. b \in Seq(Body) /\ Len(b) = h /\ \A i \in 1..h : b[i] = d[i]
  OBVIOUS
<1> HIDE DEF a, b
<1>3. ASSUME a = b PROVE \A i \in 1..h : c[i] = d[i]
  BY <1>1, <1>2, <1>3
<1>4. ASSUME \A i \in 1..h : c[i] = d[i] PROVE a = b
  <2>1. \A i \in 1..Len(a) : a[i] = b[i]
    BY <1>1, <1>2, <1>4
  <2> QED
    BY <1>1, <1>2, <2>1, SameSequence
<1> QED
  BY <1>3, <1>4 DEF a, b

\* Only the blocks up to height matter.
LEMMA HoldsOnPrefix ==
    ASSUME NothingAboveTip, height \in Nat, NEW c, StoreHolds(c),
           NEW d \in Seq(Body), ValidChain(d), height <= Len(d), \A i \in 1..height : c[i] = d[i]
    PROVE  StoreHolds(d)
<1>0. c \in Seq(Body) /\ height <= Len(c)
  BY DEF StoreHolds
<1>1. ASSUME NEW h \in 1..height PROVE CommitHash(h) = SubSeq(d, 1, h)
  <2>1. h \in Nat /\ h <= Len(c) /\ h <= Len(d) /\ \A i \in 1..h : c[i] = d[i]
    BY <1>0
  <2>2. SubSeq(c, 1, h) = SubSeq(d, 1, h)
    BY <2>1, <1>0, SamePrefix
  <2> QED
    BY <2>2 DEF StoreHolds
<1>2. \A h \in Nat : h <= height => ReplayUtxo(c, h) = ReplayUtxo(d, h)
  <2> TAKE h \in Nat
  <2> HAVE h <= height
  <2>1. \A i \in 1..h : c[i] = d[i]
    OBVIOUS
  <2> QED
    BY <2>1, ReplaySame
<1>3. utxo = ReplayUtxo(d, height)
  BY <1>2 DEF StoreHolds
<1>4. \A h \in 1..height, s \in Script : <<s, h>> \in DOMAIN rows <=> s \in Touched(d[h])
  BY DEF StoreHolds
<1>5. \A k \in DOMAIN rows : rows[k].balance = PaidTo(k[1], ReplayUtxo(d, k[2]))
  <2> TAKE k \in DOMAIN rows
  <2>1. k[2] \in Nat /\ k[2] <= height
    BY DEF NothingAboveTip
  <2> QED
    BY <2>1, <1>2 DEF StoreHolds
<1>6. \A h \in DOMAIN undo : undo[h].created = d[h].created /\ undo[h].spent = d[h].spent \ d[h].created
  BY DEF StoreHolds, NothingAboveTip
<1> QED
  BY <1>1, <1>3, <1>4, <1>5, <1>6 DEF StoreHolds

\* What a query answers: the row at or before the height is the balance the replay gives.
LEMMA QueriesReplay ==
    ASSUME IInv, NEW c, StoreHolds(c), NEW h \in Nat, h <= height, NEW s \in Script
    PROVE  get_balance_at_block_height(s, h).balance = PaidTo(s, ReplayUtxo(c, h))
<1> DEFINE before == RowHeights(s, h)
<1>0. height \in Nat
  BY DEF IInv, TypeOK, StoreTypeOK
<1>1. \A g : g \in before <=> g \in 0..h /\ <<s, g>> \in DOMAIN rows
  BY DEF RowHeights
<1>2. \A g \in before : g \in 1..height /\ g \in Nat /\ g <= h
  <2>1. \A g : <<s, g>> \in DOMAIN rows => g \in 1..height
    BY DEF IInv, NothingAboveTip
  <2> TAKE g \in before
  <2>2. g \in 0..h /\ <<s, g>> \in DOMAIN rows
    BY <1>1
  <2>3. g \in 1..height
    BY <2>1, <2>2
  <2> QED
    BY <2>2, <2>3
<1>3. ASSUME NEW g \in 1..h, g \notin before PROVE s \notin Touched(c[g])
  <2>1. g \in 1..height /\ <<s, g>> \notin DOMAIN rows
    BY <1>0, <1>1, <1>3
  <2> QED
    BY <2>1 DEF StoreHolds
<1>4. CASE before = {}
  <2>1. get_balance_at_block_height(s, h).balance = 0
    BY <1>4 DEF get_balance_at_block_height, NoBalance
  <2>2. \A g \in 0 + 1 .. h : s \notin Touched(c[g])
    BY <1>3, <1>4
  <2>3. PaidTo(s, ReplayUtxo(c, h)) = PaidTo(s, ReplayUtxo(c, 0))
    BY <2>2, QuietStretch
  <2> QED
    BY <2>1, <2>3, NothingPaid
<1>5. CASE before # {}
  <2> DEFINE l == CHOOSE g \in before : \A k \in before : k <= g
  <2>1. get_balance_at_block_height(s, h) = rows[<<s, l>>]
    BY <1>5 DEF get_balance_at_block_height
  <2>2. \E g \in before : \A k \in before : k <= g
    <3>1. before \subseteq Nat /\ \A g \in before : g <= h
      BY <1>2
    <3> HIDE DEF before
    <3> QED
      BY <3>1, <1>5, GreatestNat
  <2>3. l \in before /\ \A k \in before : k <= l
    BY <2>2
  <2> HIDE DEF l
  <2>4. l \in Nat /\ l <= h /\ <<s, l>> \in DOMAIN rows
    BY <2>3, <1>1, <1>2
  <2>5. rows[<<s, l>>].balance = PaidTo(s, ReplayUtxo(c, l))
    BY <2>4 DEF StoreHolds
  <2>6. ASSUME NEW g \in l + 1 .. h PROVE s \notin Touched(c[g])
    <3>1. g \in 1..h /\ ~(g <= l)
      BY <2>4
    <3>2. g \notin before
      BY <3>1, <2>3
    <3> QED
      BY <3>1, <3>2, <1>3
  <2>7. PaidTo(s, ReplayUtxo(c, h)) = PaidTo(s, ReplayUtxo(c, l))
    BY <2>4, <2>6, QuietStretch
  <2> QED
    BY <2>1, <2>5, <2>7
<1> QED
  BY <1>4, <1>5

\* The property of the runs is what StoreHolds says of the blocks the store has committed.
LEMMA HoldsIsReplay ==
    ASSUME IInv, NEW d, StoreHolds(d)
    PROVE  StateIsReplay
<1> DEFINE c == IF height = 0 THEN << >> ELSE CommitHash(height)
<1>0. height \in Nat /\ d \in Seq(Body) /\ height <= Len(d)
  BY DEF IInv, TypeOK, StoreTypeOK, StoreHolds
<1>1. c \in Seq(Body) /\ Len(c) = height /\ \A i \in 1..height : c[i] = d[i]
  <2>1. CASE height = 0
    BY <2>1
  <2>2. CASE height # 0
    <3>1. c = SubSeq(d, 1, height)
      BY <1>0, <2>2 DEF StoreHolds
    <3> QED
      BY <1>0, <3>1
  <2> QED
    BY <2>1, <2>2
<1> HIDE DEF c
<1>2. \A h \in 1..height : SubSeq(c, 1, h) = SubSeq(d, 1, h) /\ ReplayUtxo(c, h) = ReplayUtxo(d, h)
  <2> TAKE h \in 1..height
  <2>1. h \in Nat /\ h <= Len(c) /\ h <= Len(d) /\ \A i \in 1..h : c[i] = d[i]
    BY <1>0, <1>1
  <2> QED
    BY <2>1, <1>0, <1>1, SamePrefix, ReplaySame
<1>3. utxo = ReplayUtxo(c, height)
  <2>1. ReplayUtxo(c, height) = ReplayUtxo(d, height)
    BY <1>0, <1>1, ReplaySame
  <2> QED
    BY <2>1 DEF StoreHolds
<1>4. \A h \in 1..height : CommitHash(h) = SubSeq(c, 1, h)
  BY <1>2 DEF StoreHolds
<1>5. ASSUME NEW h \in 1..height, NEW s \in Script
      PROVE  /\ <<s, h>> \in DOMAIN rows <=> s \in Touched(c[h])
             /\ get_balance_at_block_height(s, h).balance = PaidTo(s, ReplayUtxo(c, h))
  <2>1. <<s, h>> \in DOMAIN rows <=> s \in Touched(d[h])
    BY DEF StoreHolds
  <2>2. h \in Nat /\ h <= height
    BY <1>0
  <2>3. get_balance_at_block_height(s, h).balance = PaidTo(s, ReplayUtxo(d, h))
    BY <2>2, QueriesReplay
  <2> QED
    BY <2>1, <2>3, <1>1, <1>2
<1> QED
  BY <1>3, <1>4, <1>5 DEF StateIsReplay, c

-----------------------------------------------------------------------------
(* A flushed batch and an undone block *)

\* The batch is loaded from the chain the store holds.
LoadedFrom(c) == \A h \in DOMAIN loaded : h <= Len(c) /\ loaded[h] = SubSeq(c, 1, h)

LEMMA LoadedBodies ==
    ASSUME IInv, BatchLoaded, NEW c \in Seq(Body), LoadedFrom(c)
    PROVE  /\ BatchEnd <= Len(c)
           /\ \A h \in BatchHeights : BodyAt(h) = c[h] /\ h \in 1..Len(c)
<1>1. /\ cur = height + 1 /\ cur \in Nat /\ height \in Nat
      /\ BatchEnd \in Nat /\ cur <= BatchEnd
      /\ \A h \in BatchHeights : h \in Nat /\ h >= cur /\ h <= BatchEnd
  BY BatchFacts
<1>2. BatchEnd \in BatchHeights
  BY <1>1 DEF BatchHeights
<1>3. \A h \in BatchHeights : h <= Len(c) /\ loaded[h] = SubSeq(c, 1, h)
  BY DEF BatchLoaded, LoadedFrom
<1>4. \A h \in BatchHeights : BodyAt(h) = c[h]
  BY <1>1, <1>3 DEF BodyAt
<1> QED
  BY <1>1, <1>2, <1>3, <1>4

\* preload_balances finds the balance before the batch, in the cache or in the store.
LEMMA BaseIsReplay ==
    ASSUME IInv, CachesAgree, BatchLoaded, NEW c, StoreHolds(c), NEW s \in Script
    PROVE  BaseBalance(s) = PaidTo(s, ReplayUtxo(c, height))
<1>1. cur - 1 = height /\ height \in Nat
  BY BatchFacts
<1>2. CASE s \notin DOMAIN balanceCache
  <2>1. BaseBalance(s) = get_balance_at_block_height(s, height).balance
    BY <1>1, <1>2 DEF BaseBalance
  <2> QED
    BY <1>1, <2>1, QueriesReplay
<1>3. CASE s \in DOMAIN balanceCache
  <2> DEFINE l == balanceCache[s].height
  <2>1. /\ l <= height /\ <<s, l>> \in DOMAIN rows
        /\ BaseBalance(s) = rows[<<s, l>>].balance
        /\ \A g \in l + 1 .. height : <<s, g>> \notin DOMAIN rows
    BY <1>3 DEF BaseBalance, CachesAgree
  <2> HIDE DEF l
  <2>2. l \in 1..height
    BY <2>1 DEF IInv, NothingAboveTip
  <2>3. rows[<<s, l>>].balance = PaidTo(s, ReplayUtxo(c, l))
    BY <2>1 DEF StoreHolds
  <2>4. \A g \in l + 1 .. height : s \notin Touched(c[g])
    <3> TAKE g \in l + 1 .. height
    <3>1. g \in 1..height /\ <<s, g>> \notin DOMAIN rows
      BY <1>1, <2>1, <2>2
    <3> QED
      BY <3>1 DEF StoreHolds
  <2>5. l \in Nat /\ PaidTo(s, ReplayUtxo(c, height)) = PaidTo(s, ReplayUtxo(c, l))
    BY <1>1, <2>1, <2>2, <2>4, QuietStretch
  <2> QED
    BY <2>1, <2>3, <2>5
<1> QED
  BY <1>2, <1>3

\* Every balance a batch computes is the one the replay gives.
LEMMA BalancesReplay ==
    ASSUME IInv, CachesAgree, BatchLoaded, NEW c, StoreHolds(c), LoadedFrom(c),
           NEW s \in Script, NEW h \in BatchHeights
    PROVE  BalanceAfter(s, h) = PaidTo(s, ReplayUtxo(c, h))
<1>0. c \in Seq(Body) /\ ValidChain(c)
  BY DEF StoreHolds
<1>1. /\ cur = height + 1 /\ cur \in Nat /\ height \in Nat /\ height = cur - 1
      /\ BatchEnd \in Nat /\ cur <= BatchEnd
      /\ \A g \in BatchHeights : g \in Nat /\ g >= cur /\ g <= BatchEnd
  BY BatchFacts
<1>2. \A g \in BatchHeights : BodyAt(g) = c[g] /\ g \in 1..Len(c)
  BY <1>0, LoadedBodies
<1> DEFINE paid(n) == PaidTo(s, ReplayUtxo(c, n))
           sum(n) == SumFunctionOnSet(Deltas(s), cur..n)
           good == {n \in Nat : n >= height /\ n <= BatchEnd => sum(n) \in Int /\ paid(height) + sum(n) = paid(n)}
<1>3. paid(height) \in Int
  <2>1. cur \in BatchHeights
    BY <1>1 DEF BatchHeights
  <2>2. cur \in 1..Len(c)
    BY <1>2, <2>1
  <2>3. PaidTo(s, ReplayUtxo(c, cur - 1)) \in Int
    BY <1>0, <2>2, BalanceStep
  <2> QED
    BY <1>1, <2>3
<1>4. ASSUME NEW n \in BatchHeights
      PROVE  /\ paid(n) \in Int /\ paid(n - 1) \in Int
             /\ paid(n) = paid(n - 1) + Deltas(s)[n]
  <2>1. Deltas(s)[n] = Delta(c[n], s)
    BY <1>2 DEF Deltas
  <2> QED
    BY <1>0, <1>2, <2>1, BalanceStep
<1>5. ASSUME NEW n \in BatchHeights, sum(n - 1) \in Int
      PROVE  /\ sum(n) = Deltas(s)[n] + sum(n - 1)
             /\ Deltas(s)[n] \in Int
  <2>1. /\ cur..n = (cur..(n - 1)) \union {n} /\ n \notin cur..(n - 1)
        /\ cur..n \subseteq BatchHeights
    BY <1>1 DEF BatchHeights
  <2>2. IsFiniteSet(cur..(n - 1))
    BY <1>1, FS_Interval
  <2>3. \A g \in BatchHeights : Deltas(s)[g] \in Int
    BY DeltasType
  <2>4. \A g \in (cur..(n - 1)) \union {n} : Deltas(s)[g] \in Int
    BY <2>1, <2>3
  <2>5. SumFunctionOnSet(Deltas(s), (cur..(n - 1)) \union {n})
            = Deltas(s)[n] + SumFunctionOnSet(Deltas(s), cur..(n - 1))
    BY <2>1, <2>2, <2>4, SumInsert
  <2> QED
    BY <2>1, <2>3, <2>5
<1>6. \A n \in Nat : n \in good
  <2> SUFFICES ASSUME NEW n \in Nat, \A m \in Nat : m < n => m \in good
               PROVE  n \in good
    <3> HIDE DEF good
    <3> QED
      BY StrongInduction
  <2> SUFFICES ASSUME n >= height, n <= BatchEnd
               PROVE  sum(n) \in Int /\ paid(height) + sum(n) = paid(n)
    OBVIOUS
  <2>1. CASE n = height
    <3>1. cur..n = {}
      BY <1>1, <2>1
    <3>2. sum(n) = 0
      BY <3>1, SumEmpty
    <3> QED
      BY <3>2, <2>1, <1>3
  <2>2. CASE n # height
    <3>1. n \in BatchHeights /\ n - 1 \in Nat /\ n - 1 < n /\ n - 1 >= height /\ n - 1 <= BatchEnd
      BY <1>1, <2>2 DEF BatchHeights
    <3>2. n - 1 \in good
      BY <3>1
    <3>3. sum(n - 1) \in Int /\ paid(height) + sum(n - 1) = paid(n - 1)
      BY <3>1, <3>2
    <3>4. sum(n) = Deltas(s)[n] + sum(n - 1) /\ Deltas(s)[n] \in Int
      BY <3>1, <3>3, <1>5
    <3>5. paid(n) = paid(n - 1) + Deltas(s)[n]
      BY <3>1, <1>4
    <3> DEFINE a == paid(height)
               p == paid(n - 1)
               q == sum(n - 1)
               e == Deltas(s)[n]
               z == paid(n)
               y == sum(n)
    <3>6. a \in Int /\ q \in Int /\ e \in Int /\ a + q = p /\ y = e + q /\ z = p + e
      BY <1>3, <3>3, <3>4, <3>5
    <3>7. y \in Int /\ a + y = z
      <4> HIDE DEF a, p, q, e, z, y
      <4> QED
        BY <3>6
    <3> QED
      BY <3>7
  <2> QED
    BY <2>1, <2>2
<1>7. h \in Nat /\ h >= height /\ h <= BatchEnd
  BY <1>1
<1>8. paid(height) + sum(h) = paid(h)
  BY <1>6, <1>7
<1>9. BaseBalance(s) = paid(height)
  BY BaseIsReplay
<1> QED
  BY <1>8, <1>9 DEF BalanceAfter, Deltas

\* The outputs a batch adds and removes take the UTXO set to the end of the batch.
LEMMA FlushUtxo ==
    ASSUME IInv, BatchLoaded, NEW c, StoreHolds(c), LoadedFrom(c),
           NEW at \in [BatchCreated -> BatchHeights], \A o \in BatchCreated : at[o] \in CreatedAt(o)
    PROVE  /\ (utxo \union (BatchCreated \ BatchSpent))
                  \ {o \in BatchSpent : \E h \in SpentAt(o) : NeedFlush(o, h, at)}
              = ReplayUtxo(c, BatchEnd)
           /\ \A h \in BatchHeights : {o \in BodyAt(h).spent : NeedFlush(o, h, at)}
                                          = c[h].spent \ c[h].created
<1>0. c \in Seq(Body) /\ ValidChain(c) /\ DOMAIN c = 1..Len(c)
  BY DEF StoreHolds
<1>1. /\ cur = height + 1 /\ cur \in Nat /\ height \in Nat /\ height <= BatchEnd
      /\ BatchEnd \in Nat /\ cur <= BatchEnd
      /\ \A g \in BatchHeights : g \in Nat /\ g >= cur /\ g <= BatchEnd
  BY BatchFacts
<1>2. BatchEnd <= Len(c) /\ \A g \in BatchHeights : BodyAt(g) = c[g] /\ g \in 1..Len(c)
  BY <1>0, LoadedBodies
<1>3. /\ \A g : g \in 1..BatchEnd <=> g \in 1..height \/ g \in BatchHeights
      /\ \A g \in 1..height : g \notin BatchHeights
      /\ \A g \in 1..BatchEnd : g \in DOMAIN c
  BY <1>0, <1>1, <1>2 DEF BatchHeights
<1>4. /\ \A o : \A g \in BatchHeights : o \in c[g].created \/ o \in c[g].spent => o \in Outpoint
      /\ \A o : o \in BatchCreated <=> \E g \in BatchHeights : o \in c[g].created
      /\ \A o : o \in BatchSpent <=> \E g \in BatchHeights : o \in c[g].spent
  <2>1. \A o : \A g \in BatchHeights : o \in c[g].created \/ o \in c[g].spent => o \in Outpoint
    BY <1>0, <1>2, BlockFacts
  <2> QED
    BY <2>1, <1>2 DEF BatchCreated, BatchSpent, CreatedAt, SpentAt
<1>5. ASSUME NEW i \in DOMAIN c, NEW j \in DOMAIN c, NEW o,
             (o \in c[i].created /\ o \in c[j].created) \/ (o \in c[i].spent /\ o \in c[j].spent)
      PROVE  i = j
  BY <1>0, <1>5 DEF ValidChain
<1>6. ASSUME NEW j \in DOMAIN c, NEW o, o \in c[j].spent
      PROVE  \E i \in DOMAIN c : i <= j /\ o \in c[i].created
  <2>1. \E i \in 1..j : o \in c[i].created
    BY <1>0, <1>6 DEF ValidChain
  <2> QED
    BY <2>1, <1>0
<1>7. ASSUME NEW h \in BatchHeights, NEW o, o \in c[h].spent
      PROVE  NeedFlush(o, h, at) <=> o \notin c[h].created
  <2>1. h \in DOMAIN c /\ h \in Nat
    BY <1>0, <1>1, <1>2
  <2>2. CASE o \notin BatchCreated
    BY <2>2, <1>4 DEF NeedFlush
  <2>3. CASE o \in BatchCreated
    <3>1. at[o] \in BatchHeights /\ o \in c[at[o]].created
      BY <2>3, <1>2 DEF CreatedAt
    <3>2. at[o] \in DOMAIN c /\ at[o] \in Nat
      BY <3>1, <1>0, <1>1, <1>2
    <3>3. CASE o \in c[h].created
      <4>1. at[o] = h
        BY <3>1, <3>2, <3>3, <2>1, <1>5
      <4> QED
        BY <4>1, <3>3, <2>1, <2>3 DEF NeedFlush
    <3>4. CASE o \notin c[h].created
      <4>1. PICK i \in DOMAIN c : i <= h /\ o \in c[i].created
        BY <2>1, <1>6, <1>7
      <4>2. i = at[o]
        BY <4>1, <3>1, <3>2, <1>5
      <4>3. at[o] # h
        BY <3>1, <3>4
      <4>4. at[o] < h
        BY <4>1, <4>2, <4>3, <3>2, <2>1
      <4> QED
        BY <4>4, <3>4 DEF NeedFlush
    <3> QED
      BY <3>3, <3>4
  <2> QED
    BY <2>2, <2>3
<1>8. ASSUME NEW h \in BatchHeights
      PROVE  {o \in BodyAt(h).spent : NeedFlush(o, h, at)} = c[h].spent \ c[h].created
  <2>1. BodyAt(h) = c[h]
    BY <1>2
  <2> QED
    BY <2>1, <1>7
<1>9. utxo = ReplayUtxo(c, height)
  BY DEF StoreHolds
<1>10. \A o : o \in utxo <=> (\E i \in 1..height : o \in c[i].created) /\ ~(\E i \in 1..height : o \in c[i].spent)
  BY <1>1, <1>9, InReplay
<1>11. \A o : o \in ReplayUtxo(c, BatchEnd) <=>
           (\E i \in 1..BatchEnd : o \in c[i].created) /\ ~(\E i \in 1..BatchEnd : o \in c[i].spent)
  BY <1>1, InReplay
<1> DEFINE removed == {o \in BatchSpent : \E h \in SpentAt(o) : NeedFlush(o, h, at)}
<1>12. \A o : o \in removed <=> \E h \in BatchHeights : o \in c[h].spent /\ o \notin c[h].created
  <2>1. \A o : o \in removed => \E h \in BatchHeights : o \in c[h].spent /\ o \notin c[h].created
    BY <1>2, <1>7 DEF SpentAt
  <2>2. ASSUME NEW o, NEW h \in BatchHeights, o \in c[h].spent, o \notin c[h].created
        PROVE  o \in removed
    <3>1. o \in BatchSpent
      BY <2>2, <1>4
    <3>2. h \in SpentAt(o)
      BY <2>2, <1>2 DEF SpentAt
    <3> QED
      BY <3>1, <3>2, <2>2, <1>7
  <2> QED
    BY <2>1, <2>2
<1> HIDE DEF removed
<1>13. ASSUME NEW o, o \in ReplayUtxo(c, BatchEnd)
       PROVE  o \in (utxo \union (BatchCreated \ BatchSpent)) \ removed
  <2>1. PICK i \in 1..BatchEnd : o \in c[i].created
    BY <1>13, <1>11
  <2>2. ~(\E j \in 1..BatchEnd : o \in c[j].spent)
    BY <1>13, <1>11
  <2>3. o \notin BatchSpent /\ o \notin removed
    BY <2>2, <1>3, <1>4, <1>12
  <2>4. CASE i \in 1..height
    BY <2>1, <2>2, <2>3, <2>4, <1>3, <1>10
  <2>5. CASE i \in BatchHeights
    BY <2>1, <2>3, <2>5, <1>4
  <2> QED
    BY <2>4, <2>5, <1>3
<1>14. ASSUME NEW o, o \in (utxo \union (BatchCreated \ BatchSpent)) \ removed
       PROVE  o \in ReplayUtxo(c, BatchEnd)
  <2>1. CASE o \in utxo
    <3>1. PICK i \in 1..height : o \in c[i].created
      BY <2>1, <1>10
    <3>2. ASSUME NEW j \in BatchHeights, o \in c[j].spent PROVE FALSE
      <4>1. o \notin c[j].created
        BY <3>1, <1>3, <1>5
      <4> QED
        BY <3>2, <4>1, <1>12, <1>14
    <3>3. ~(\E j \in 1..BatchEnd : o \in c[j].spent)
      BY <3>2, <2>1, <1>3, <1>10
    <3> QED
      BY <3>1, <3>3, <1>3, <1>11
  <2>2. CASE o \in BatchCreated /\ o \notin BatchSpent
    <3>1. PICK i \in BatchHeights : o \in c[i].created
      BY <2>2, <1>4
    <3>2. ASSUME NEW j \in 1..height, o \in c[j].spent PROVE FALSE
      <4>1. j \in DOMAIN c /\ i \in DOMAIN c /\ j \in Nat /\ i \in Nat /\ i > j
        BY <1>1, <1>3
      <4>2. PICK k \in DOMAIN c : k <= j /\ o \in c[k].created
        BY <3>2, <4>1, <1>6
      <4>3. k = i
        BY <3>1, <4>1, <4>2, <1>5
      <4> QED
        BY <4>1, <4>2, <4>3
    <3>3. ~(\E j \in 1..BatchEnd : o \in c[j].spent)
      BY <3>2, <2>2, <1>3, <1>4
    <3> QED
      BY <3>1, <3>3, <1>3, <1>11
  <2> QED
    BY <2>1, <2>2, <1>14
<1>15. (utxo \union (BatchCreated \ BatchSpent)) \ removed = ReplayUtxo(c, BatchEnd)
  BY <1>13, <1>14
<1> QED
  BY <1>8, <1>15 DEF removed

LEMMA FlushHolds ==
    ASSUME IInv, LedgerOK, CachesAgree, FlushBatch, NEW c, StoreHolds(c), LoadedFrom(c)
    PROVE  StoreHolds(c)'
<1>0. BatchLoaded /\ c \in Seq(Body) /\ ValidChain(c)
  BY DEF FlushBatch, StoreHolds
<1>1. /\ cur = height + 1 /\ cur \in Nat /\ height \in Nat /\ height <= BatchEnd
      /\ BatchEnd \in Nat /\ cur <= BatchEnd
      /\ \A g \in BatchHeights : g \in Nat /\ g >= cur /\ g <= BatchEnd
  BY <1>0, BatchFacts
<1>2. BatchEnd <= Len(c) /\ \A g \in BatchHeights : BodyAt(g) = c[g] /\ g \in 1..Len(c)
  BY <1>0, LoadedBodies
<1>3. \A g \in 1..BatchEnd : g \in 1..height \/ g \in BatchHeights
  BY <1>1 DEF BatchHeights
<1>4. \A g \in 1..height : g \notin BatchHeights
  BY <1>1
<1>5. /\ rows' = Put(rows, Entries)
      /\ commits' = Put(commits, build_block_commits)
      /\ height' = BatchEnd
  BY FlushWrites
<1>6. PICK at \in [BatchCreated -> BatchHeights] :
        /\ \A o \in BatchCreated : at[o] \in CreatedAt(o)
        /\ utxo' = (utxo \union (BatchCreated \ BatchSpent))
                       \ {o \in BatchSpent : \E h \in SpentAt(o) : NeedFlush(o, h, at)}
        /\ undo' = Put(undo, Bundles(at))
  BY DEF FlushBatch, update_block_state_batch_async, append_block_undo_bundles_to_batch
<1>7. utxo' = ReplayUtxo(c, BatchEnd)
  BY <1>0, <1>6, FlushUtxo
<1>8. ASSUME NEW h \in DOMAIN undo'
      PROVE  undo'[h].created = c[h].created /\ undo'[h].spent = c[h].spent \ c[h].created
  <2>1. CASE h \in DOMAIN Bundles(at)
    <3>1. undo'[h] = Bundles(at)[h]
      BY <1>6, <2>1 DEF Put
    <3>2. h \in BatchHeights
      BY <2>1 DEF Bundles
    <3>3. /\ Bundles(at)[h].created = BodyAt(h).created
          /\ Bundles(at)[h].spent = {o \in BodyAt(h).spent : NeedFlush(o, h, at)}
      BY <2>1 DEF Bundles
    <3>4. {o \in BodyAt(h).spent : NeedFlush(o, h, at)} = c[h].spent \ c[h].created
      BY <1>0, <1>6, <3>2, FlushUtxo
    <3>5. BodyAt(h) = c[h]
      BY <1>2, <3>2
    <3> QED
      BY <3>1, <3>3, <3>4, <3>5
  <2>2. CASE h \notin DOMAIN Bundles(at)
    <3>1. h \in DOMAIN undo /\ undo'[h] = undo[h]
      BY <1>6, <2>2 DEF Put
    <3> QED
      BY <3>1 DEF StoreHolds
  <2> QED
    BY <2>1, <2>2
<1>9. ASSUME NEW h \in 1..BatchEnd PROVE CommitHash(h)' = SubSeq(c, 1, h)
  <2>1. DOMAIN build_block_commits = BatchHeights /\ DOMAIN commits = 1..height
    BY DEF build_block_commits, IInv, NothingAboveTip
  <2>2. CASE h \in 1..height
    <3>1. commits'[h] = commits[h]
      BY <1>4, <1>5, <2>1, <2>2 DEF Put
    <3>2. CommitHash(h)' = CommitHash(h)
      BY <3>1 DEF CommitHash
    <3> QED
      BY <2>2, <3>2 DEF StoreHolds
  <2>3. CASE h \in BatchHeights
    <3>1. commits'[h] = build_block_commits[h]
      BY <1>5, <2>1, <2>3 DEF Put
    <3>2. h \in 1..h /\ ~(h < cur)
      BY <1>1, <2>3
    <3>3. Len(build_block_commits[h]) = h /\ build_block_commits[h][h] = Link(h)
      <4>1. PICK S : \A k \in BatchHeights :
                        /\ build_block_commits[k] \in Seq(S)
                        /\ Len(build_block_commits[k]) = k
                        /\ \A i \in 1..k : build_block_commits[k][i] = IF i < cur THEN Previous[i] ELSE Link(i)
        BY <1>0, BuiltCommits
      <4> QED
        BY <4>1, <2>3, <3>2
    <3>4. CommitHash(h)' = loaded[h]
      BY <3>1, <3>3 DEF CommitHash, Link
    <3>5. loaded[h] = SubSeq(c, 1, h)
      BY <1>0, <2>3 DEF BatchLoaded, LoadedFrom
    <3> QED
      BY <3>4, <3>5
  <2> QED
    BY <2>2, <2>3, <1>3
<1>10. ASSUME NEW s, NEW h
       PROVE  <<s, h>> \in DOMAIN rows' <=>
                  <<s, h>> \in DOMAIN rows \/ (h \in BatchHeights /\ s \in Touched(BodyAt(h)))
  <2>1. DOMAIN rows' = DOMAIN rows \union DOMAIN Entries
    BY <1>5, PutDomain
  <2> QED
    BY <2>1, EntryKeys
<1>11. ASSUME NEW h \in 1..BatchEnd, NEW s \in Script
       PROVE  <<s, h>> \in DOMAIN rows' <=> s \in Touched(c[h])
  <2>1. CASE h \in 1..height
    <3>1. <<s, h>> \in DOMAIN rows <=> s \in Touched(c[h])
      BY <2>1 DEF StoreHolds
    <3> QED
      BY <3>1, <2>1, <1>4, <1>10
  <2>2. CASE h \in BatchHeights
    <3>1. <<s, h>> \notin DOMAIN rows
      BY <2>2, <1>4 DEF IInv, NothingAboveTip
    <3> QED
      BY <3>1, <2>2, <1>2, <1>10
  <2> QED
    BY <2>1, <2>2, <1>3
<1>12. ASSUME NEW k \in DOMAIN rows'
       PROVE  rows'[k].balance = PaidTo(k[1], ReplayUtxo(c, k[2]))
  <2>1. CASE k \in DOMAIN Entries
    <3>1. rows'[k] = Entries[k]
      BY <1>5, <2>1 DEF Put
    <3>2. PICK h \in BatchHeights : k \in Touched(BodyAt(h)) \X {h}
      BY <2>1 DEF Entries
    <3>3. k[2] \in BatchHeights /\ k[1] \in Touched(BodyAt(k[2]))
      BY <3>2
    <3>4. k[1] \in Script
      <4>1. BodyAt(k[2]) \in Body
        BY <3>3, <1>0, BatchFacts
      <4> QED
        BY <3>3, <4>1, TouchedScripts
    <3>5. Entries[k].balance = BalanceAfter(k[1], k[2])
      BY <2>1 DEF Entries
    <3>6. BalanceAfter(k[1], k[2]) = PaidTo(k[1], ReplayUtxo(c, k[2]))
      BY <3>3, <3>4, <1>0, BalancesReplay
    <3> QED
      BY <3>1, <3>5, <3>6
  <2>2. CASE k \notin DOMAIN Entries
    <3>1. k \in DOMAIN rows /\ rows'[k] = rows[k]
      BY <1>5, <2>2 DEF Put
    <3> QED
      BY <3>1 DEF StoreHolds
  <2> QED
    BY <2>1, <2>2
<1>13. /\ \A h \in 1..height' : CommitHash(h)' = SubSeq(c, 1, h)
       /\ utxo' = ReplayUtxo(c, height')
       /\ \A h \in 1..height', s \in Script : <<s, h>> \in DOMAIN rows' <=> s \in Touched(c[h])
       /\ height' <= Len(c)
  BY <1>2, <1>5, <1>7, <1>9, <1>11
<1> QED
  BY <1>0, <1>8, <1>12, <1>13 DEF StoreHolds

LEMMA UndoHolds ==
    ASSUME IInv, UndoBlock, NEW c, StoreHolds(c)
    PROVE  StoreHolds(c)'
<1>0. /\ next = height /\ height \in Nat /\ height \in DOMAIN undo /\ height \in 1..height
      /\ target \in Nat /\ target < height
  BY DEF UndoBlock, rollback_one_block, IInv, TypeOK, LoopTypeOK, StoreTypeOK,
         UndoCoversRollback, RollbackPCs
<1>1. /\ utxo' = (utxo \ undo[height].created) \union undo[height].spent
      /\ rows' = Delete(rows, undo[height].touched \X {height})
      /\ commits' = Delete(commits, {height})
      /\ undo' = Delete(undo, {height})
      /\ height' = height - 1
  BY <1>0 DEF UndoBlock, rollback_one_block, append_delete_block_undo_bundle_to_batch, SatSub
<1>2. c \in Seq(Body) /\ height <= Len(c) /\ ValidChain(c) /\ height \in 1..Len(c)
  BY <1>0 DEF StoreHolds
<1>3. utxo' = ReplayUtxo(c, height - 1)
  <2>1. /\ undo[height].created = c[height].created
        /\ undo[height].spent = c[height].spent \ c[height].created
        /\ utxo = ReplayUtxo(c, height)
    BY <1>0 DEF StoreHolds
  <2>2. (ReplayUtxo(c, height) \ c[height].created) \union (c[height].spent \ c[height].created)
            = ReplayUtxo(c, height - 1)
    BY <1>2, BlockOnReplay
  <2> QED
    BY <1>1, <2>1, <2>2
<1>4. ASSUME NEW h \in 1..(height - 1) PROVE CommitHash(h)' = SubSeq(c, 1, h)
  <2>1. h \in 1..height /\ h # height
    BY <1>0
  <2>2. h \in DOMAIN commits \ {height}
    BY <2>1 DEF IInv, NothingAboveTip
  <2>3. Delete(commits, {height})[h] = commits[h]
    BY <2>2, DeleteValue
  <2>4. CommitHash(h)' = CommitHash(h)
    BY <1>1, <2>3 DEF CommitHash
  <2> QED
    BY <2>1, <2>4 DEF StoreHolds
<1>5. DOMAIN rows' = DOMAIN rows \ (undo[height].touched \X {height})
  BY <1>1, DeleteDomain
<1>6. ASSUME NEW h \in 1..(height - 1), NEW s \in Script
      PROVE  <<s, h>> \in DOMAIN rows' <=> s \in Touched(c[h])
  <2>1. h \in 1..height /\ h # height
    BY <1>0
  <2>2. <<s, h>> \in DOMAIN rows' <=> <<s, h>> \in DOMAIN rows
    BY <1>5, <2>1
  <2> QED
    BY <2>1, <2>2 DEF StoreHolds
<1>7. ASSUME NEW k \in DOMAIN rows' PROVE rows'[k].balance = PaidTo(k[1], ReplayUtxo(c, k[2]))
  <2>1. k \in DOMAIN rows \ (undo[height].touched \X {height})
    BY <1>5
  <2>2. Delete(rows, undo[height].touched \X {height})[k] = rows[k]
    BY <2>1, DeleteValue
  <2> QED
    BY <1>1, <2>1, <2>2 DEF StoreHolds
<1>8. ASSUME NEW h \in DOMAIN undo'
      PROVE  undo'[h].created = c[h].created /\ undo'[h].spent = c[h].spent \ c[h].created
  <2>1. DOMAIN undo' = DOMAIN undo \ {height}
    BY <1>1, DeleteDomain
  <2>2. h \in DOMAIN undo \ {height}
    BY <2>1
  <2>3. Delete(undo, {height})[h] = undo[h]
    BY <2>2, DeleteValue
  <2> QED
    BY <1>1, <2>2, <2>3 DEF StoreHolds
<1>9. height - 1 <= Len(c)
  BY <1>0, <1>2
<1> QED
  BY <1>1, <1>2, <1>3, <1>4, <1>6, <1>7, <1>8, <1>9 DEF StoreHolds

\* Pruning drops bundles and nothing else.
LEMMA PruneHolds ==
    ASSUME PruneUndo, NEW c, StoreHolds(c)
    PROVE  StoreHolds(c)'
<1>1. /\ UNCHANGED <<utxo, rows, commits, height>>
      /\ undo' = undo \/ \E S : undo' = Delete(undo, S)
  BY DEF PruneUndo, prune_undo_before_height, dbVars, ledgerVars
<1>2. DOMAIN undo' \subseteq DOMAIN undo /\ \A h \in DOMAIN undo' : undo'[h] = undo[h]
  <2>1. CASE undo' = undo
    BY <2>1
  <2>2. CASE \E S : undo' = Delete(undo, S)
    <3>1. PICK S : undo' = Delete(undo, S)
      BY <2>2
    <3>2. DOMAIN undo' = DOMAIN undo \ S
      BY <3>1, DeleteDomain
    <3>3. \A h \in DOMAIN undo \ S : Delete(undo, S)[h] = undo[h]
      BY DeleteValue
    <3> QED
      BY <3>1, <3>2, <3>3
  <2> QED
    BY <1>1, <2>1, <2>2
<1> QED
  BY <1>1, <1>2 DEF StoreHolds, CommitHash

-----------------------------------------------------------------------------
(* The store through the loop *)

\* How much of the node's chain is known to be under the store: all of it once the tip check
\* has passed, the part up to the ancestor while a rollback goes there, nothing elsewhere.
Agreed ==
    IF pc \in {"plan", "load", "prune"} THEN height
    ELSE IF pc \in RollbackPCs \union {"clear_target", "clear_next"} /\ ~resuming THEN target
    ELSE 0

AgreesUpTo(c, n) == n <= Len(chain) /\ \A i \in 1..n : c[i] = chain[i]

HoldsAgreed == \E c : StoreHolds(c) /\ AgreesUpTo(c, Agreed)

BatchIsCanonical ==
    /\ pc = "load" => LoadedFrom(chain)
    /\ pc \notin {"load", "prune", "panic"} => DOMAIN loaded = {}
    /\ pc \in {"clear_target", "clear_next"} => height = target

ReplayInv == HoldsAgreed /\ BatchIsCanonical

\* Chains are valid; the node replaces its chain only between two tip checks.
ReplayConditions ==
    /\ \A c \in Chains : ValidChain(c)
    /\ ReorgWindow \subseteq {"sync_once", "latest", "check", "search", "wait", "panic"}
    /\ "db" \notin Faults

LEMMA StoreStays ==
    ASSUME UNCHANGED ledgerVars, NEW c, StoreHolds(c)
    PROVE  StoreHolds(c)'
BY DEF StoreHolds, CommitHash, ledgerVars

LEMMA TipIsCanonical ==
    ASSUME IInv, NEW c, StoreHolds(c), NEW h \in Nat, h <= height,
           h = 0 \/ (HasBlock(h) /\ CommitHash(h) = CanonicalHash(h))
    PROVE  AgreesUpTo(c, h)
<1>0. /\ c \in Seq(Body) /\ height <= Len(c) /\ height \in Nat
      /\ chain \in Seq(Body)
  BY ChainAssumption DEF StoreHolds, IInv, TypeOK, StoreTypeOK, EnvTypeOK
<1>1. CASE h = 0
  BY <1>0, <1>1 DEF AgreesUpTo
<1>2. CASE h # 0
  <2>1. h \in 1..height /\ h <= Len(chain) /\ h <= Len(c)
    BY <1>0, <1>2 DEF HasBlock
  <2>2. SubSeq(c, 1, h) = SubSeq(chain, 1, h)
    BY <1>2, <2>1 DEF StoreHolds, CanonicalHash
  <2>3. \A i \in 1..h : c[i] = chain[i]
    BY <1>0, <2>1, <2>2, SamePrefix
  <2> QED
    BY <2>1, <2>3 DEF AgreesUpTo
<1> QED
  BY <1>1, <1>2

\* With the tip canonical the store holds the node's chain itself.
LEMMA HoldsChain ==
    ASSUME ReplayConditions, IInv, NEW c, StoreHolds(c), AgreesUpTo(c, height)
    PROVE  StoreHolds(chain)
<1>1. height \in Nat /\ NothingAboveTip /\ chain \in Seq(Body) /\ ValidChain(chain)
  BY ChainAssumption DEF IInv, TypeOK, StoreTypeOK, EnvTypeOK, ReplayConditions
<1> QED
  BY <1>1, HoldsOnPrefix DEF AgreesUpTo

LEMMA ExtendKeeps ==
    ASSUME IInv, ExtendChain, NEW n \in Nat, n <= Len(chain)
    PROVE  /\ n <= Len(chain') /\ \A i \in 1..n : chain'[i] = chain[i]
           /\ SubSeq(chain', 1, n) = SubSeq(chain, 1, n)
<1>1. /\ chain \in Seq(Body) /\ chain' \in Seq(Body)
      /\ Len(chain') = Len(chain) + 1 /\ SubSeq(chain', 1, Len(chain)) = chain
  BY ChainAssumption DEF IInv, TypeOK, EnvTypeOK, ExtendChain
<1>2. n <= Len(chain')
  BY <1>1
<1>3. \A i \in 1..n : chain'[i] = chain[i]
  <2>1. \A i \in 1..Len(chain) : SubSeq(chain', 1, Len(chain))[i] = chain'[i]
    BY <1>1
  <2> QED
    BY <1>1, <2>1
<1> QED
  BY <1>1, <1>2, <1>3, SamePrefix

LEMMA NextHolds ==
    ASSUME ReplayConditions, IInv, LedgerOK, CacheInv, ReplayInv, [Next]_vars
    PROVE  HoldsAgreed'
<1>0. /\ height \in Nat /\ chain \in Seq(Body) /\ chain' \in Seq(Body)
      /\ target \in Nat /\ pc \in PCs
  <2>1. IInv'
    BY NextIInv
  <2>2. chain' \in Chains
    BY <2>1 DEF IInv, TypeOK, EnvTypeOK
  <2> QED
    BY <2>2, ChainAssumption DEF IInv, TypeOK, StoreTypeOK, EnvTypeOK, LoopTypeOK
<1>1. PICK c : StoreHolds(c) /\ AgreesUpTo(c, Agreed)
  BY DEF ReplayInv, HoldsAgreed
<1>2. ASSUME UNCHANGED ledgerVars, Agreed' = 0
      PROVE  HoldsAgreed'
  <2>1. StoreHolds(c)'
    BY <1>1, <1>2, StoreStays
  <2>2. AgreesUpTo(c, Agreed)'
    BY <1>0, <1>2 DEF AgreesUpTo
  <2> QED
    BY <2>1, <2>2 DEF HoldsAgreed
<1>3. ASSUME UNCHANGED ledgerVars, chain' = chain, AgreesUpTo(c, Agreed')
      PROVE  HoldsAgreed'
  <2>1. StoreHolds(c)'
    BY <1>1, <1>3, StoreStays
  <2>2. AgreesUpTo(c, Agreed)'
    BY <1>3 DEF AgreesUpTo
  <2> QED
    BY <2>1, <2>2 DEF HoldsAgreed
<1>4. ASSUME UNCHANGED ledgerVars, chain' = chain, Agreed' = Agreed
      PROVE  HoldsAgreed'
  BY <1>1, <1>3, <1>4
<1>5. AncestorFound => AgreesUpTo(c, target) /\ pc = "search" /\ target <= height
  <2> HAVE AncestorFound
  <2>1. pc = "search" /\ target <= height
    BY DEF AncestorFound, IInv, MarkerOK
  <2> QED
    BY <2>1, <1>0, <1>1, TipIsCanonical DEF AncestorFound
<1> USE DEF dbVars, envVars, cacheVars, statusVars, loopVars, RollbackPCs
<1>6. CASE UNCHANGED vars
  BY <1>6, <1>4 DEF vars, Agreed, ledgerVars
<1>7. CASE NothingToResume
  BY <1>7, <1>2 DEF NothingToResume, Agreed
<1>8. CASE ResumeRollback
  BY <1>8, <1>2 DEF ResumeRollback, Agreed
<1>9. CASE ResumeRefused
  BY <1>9, <1>2 DEF ResumeRefused, Agreed
<1>10. CASE GetLatest
  BY <1>10, <1>2 DEF GetLatest, Agreed
<1>11. CASE TipMatches
  <2>1. AgreesUpTo(c, height)
    BY <1>11, <1>0, <1>1, TipIsCanonical DEF TipMatches
  <2>2. Agreed' = height
    BY <1>11 DEF TipMatches, Agreed, ledgerVars
  <2> QED
    BY <1>11, <2>1, <2>2, <1>3 DEF TipMatches
<1>12. CASE TipMoved
  BY <1>12, <1>2 DEF TipMoved, Agreed
<1>13. CASE ProbeFails
  BY <1>13, <1>2 DEF ProbeFails, AbandonPass, Agreed
<1>14. CASE ProbeLower
  BY <1>14, <1>2 DEF ProbeLower, Agreed
<1>15. CASE RollbackIsEmpty
  <2>1. Agreed' = target
    BY <1>15 DEF RollbackIsEmpty, Agreed, ledgerVars
  <2> QED
    BY <1>15, <2>1, <1>3, <1>5 DEF RollbackIsEmpty
<1>16. CASE RollbackRefused
  BY <1>16, <1>2 DEF RollbackRefused, Agreed
<1>17. CASE BeginRollback
  <2>1. Agreed' = target
    BY <1>17 DEF BeginRollback, Agreed
  <2> QED
    BY <1>17, <2>1, <1>3, <1>5 DEF BeginRollback
<1>18. CASE MarkInProgress \/ MarkTarget \/ MarkNext \/ PutNext \/ ClearInProgress \/ ClearTarget
  <2>1. UNCHANGED ledgerVars /\ chain' = chain
    BY <1>18 DEF MarkInProgress, MarkTarget, MarkNext, PutNext, ClearInProgress, ClearTarget,
       put_rollback_in_progress, put_rollback_target_height, put_rollback_next_height,
       delete_rollback_in_progress
  <2>2. Agreed' = Agreed
    BY <1>18 DEF MarkInProgress, MarkTarget, MarkNext, PutNext, ClearInProgress, ClearTarget, Agreed
  <2> QED
    BY <2>1, <2>2, <1>4
<1>19. CASE FinishRollback
  <2>1. UNCHANGED ledgerVars /\ chain' = chain
    BY <1>19 DEF FinishRollback, put_rollback_next_height
  <2>2. CASE resuming
    BY <1>19, <2>1, <2>2, <1>2 DEF FinishRollback, Agreed
  <2>3. CASE ~resuming
    <3>1. height = target
      BY <1>19 DEF FinishRollback, ReplayInv, BatchIsCanonical
    <3>2. Agreed = target /\ Agreed' = height'
      BY <1>19, <2>3 DEF FinishRollback, Agreed
    <3> QED
      BY <2>1, <3>1, <3>2, <1>4 DEF ledgerVars
  <2> QED
    BY <2>2, <2>3
<1>20. CASE UndoBlock
  <2>1. StoreHolds(c)'
    BY <1>1, <1>20, UndoHolds
  <2>2. chain' = chain /\ Agreed' = Agreed
    BY <1>20 DEF UndoBlock, Agreed
  <2> QED
    BY <1>1, <2>1, <2>2 DEF HoldsAgreed, AgreesUpTo
<1>21. CASE PlanSync
  <2>1. CASE pc' = "wait"
    BY <1>21, <2>1, <1>2 DEF PlanSync, Agreed
  <2>2. CASE pc' = "load"
    BY <1>21, <2>2, <1>4 DEF PlanSync, Agreed, ledgerVars
  <2> QED
    BY <1>21, <2>1, <2>2 DEF PlanSync
<1>22. CASE \E h \in BatchHeights : LoadBlock(h)
  BY <1>22, <1>4 DEF LoadBlock, Agreed, ledgerVars
<1>23. CASE LoadFails
  BY <1>23, <1>2 DEF LoadFails, AbandonPass, Agreed
<1>24. CASE Panic
  BY <1>24, <1>2 DEF Panic, Agreed
<1>25. CASE FlushBatch
  <2>1. pc = "load" /\ pc' = "prune" /\ chain' = chain
    BY <1>25 DEF FlushBatch, BatchLoaded
  <2>2. AgreesUpTo(c, height) /\ CachesAgree /\ LoadedFrom(chain)
    BY <1>1, <2>1 DEF Agreed, CacheInv, ReplayInv, BatchIsCanonical
  <2>3. StoreHolds(chain)
    BY <1>1, <2>2, HoldsChain
  <2>4. PICK d : d = chain
    OBVIOUS
  <2>5. StoreHolds(d) /\ LoadedFrom(d)
    BY <2>2, <2>3, <2>4
  <2>6. StoreHolds(d)'
    BY <1>25, <2>2, <2>5, FlushHolds
  <2>7. height' <= Len(d) /\ Agreed' = height'
    BY <2>1, <2>6 DEF StoreHolds, Agreed
  <2>8. AgreesUpTo(d, Agreed)'
    BY <2>1, <2>4, <2>7 DEF AgreesUpTo
  <2> QED
    BY <2>6, <2>8 DEF HoldsAgreed
<1>26. CASE PruneUndo
  <2>1. StoreHolds(c)'
    BY <1>1, <1>26, PruneHolds
  <2>2. chain' = chain /\ height' = height /\ pc = "prune" /\ pc' \in {"load", "wait"}
    BY <1>26, PruneStore DEF PruneUndo
  <2>3. Agreed = height /\ (Agreed' = height \/ Agreed' = 0)
    BY <2>2 DEF Agreed
  <2>4. AgreesUpTo(c, Agreed)'
    BY <1>0, <1>1, <2>2, <2>3 DEF AgreesUpTo
  <2> QED
    BY <2>1, <2>4 DEF HoldsAgreed
<1>27. CASE KeepWaiting
  BY <1>27, <1>6 DEF KeepWaiting
<1>28. CASE WakeUp
  BY <1>28, <1>2 DEF WakeUp, Agreed
<1>29. CASE Restart \/ Crash
  BY <1>29, <1>2 DEF Restart, Crash, LoseMemory, Agreed
<1>30. CASE RpcError
  BY <1>30, <1>2 DEF RpcError, AbandonPass, Agreed
<1>31. CASE DbError
  BY <1>31 DEF DbError, Fault, ReplayConditions
<1>32. CASE ExtendChain
  <2>1. StoreHolds(c)'
    BY <1>1, <1>32, StoreStays DEF ExtendChain
  <2>2. Agreed' = Agreed /\ Agreed \in Nat
    BY <1>0, <1>32 DEF ExtendChain, Agreed, ledgerVars
  <2>3. AgreesUpTo(c, Agreed)'
    BY <1>1, <1>32, <2>2, ExtendKeeps DEF AgreesUpTo
  <2> QED
    BY <2>1, <2>3 DEF HoldsAgreed
<1>33. CASE ReplaceChain
  <2>1. pc \in {"sync_once", "latest", "check", "search", "wait", "panic"} /\ pc' = pc
    BY <1>33 DEF ReplaceChain, ReplayConditions
  <2> QED
    BY <1>33, <2>1, <1>2 DEF ReplaceChain, Agreed
<1>34. CASE EvictUtxo \/ EvictBalance
  BY <1>34, <1>4 DEF EvictUtxo, EvictBalance, Agreed, ledgerVars
<1> QED
  BY <1>6, <1>7, <1>8, <1>9, <1>10, <1>11, <1>12, <1>13, <1>14, <1>15, <1>16, <1>17, <1>18,
     <1>19, <1>20, <1>21, <1>22, <1>23, <1>24, <1>25, <1>26, <1>27, <1>28, <1>29, <1>30, <1>31,
     <1>32, <1>33, <1>34 DEF Next, SyncStep, Environment, Rollback

LEMMA NextBatchIsCanonical ==
    ASSUME ReplayConditions, IInv, BatchIsCanonical, [Next]_vars
    PROVE  BatchIsCanonical'
<1>1. ASSUME loaded' = << >>, pc' \notin {"clear_target", "clear_next"}
      PROVE  BatchIsCanonical'
  BY <1>1, EmptyDomain DEF BatchIsCanonical, LoadedFrom
<1>2. ASSUME loaded' = loaded, pc \notin {"load", "prune", "panic"}, pc' \notin {"clear_target", "clear_next"}
      PROVE  BatchIsCanonical'
  BY <1>2 DEF BatchIsCanonical, LoadedFrom
<1>3. ASSUME UNCHANGED <<loaded, pc, chain, height, target>>
      PROVE  BatchIsCanonical'
  BY <1>3 DEF BatchIsCanonical, LoadedFrom
<1> USE DEF dbVars, envVars, cacheVars, statusVars, loopVars
<1>4. CASE UNCHANGED vars
  BY <1>4, <1>3 DEF vars, ledgerVars
<1>5. CASE NothingToResume \/ ResumeRollback \/ ResumeRefused \/ GetLatest \/ TipMatches
           \/ TipMoved \/ ProbeLower \/ RollbackIsEmpty \/ BeginRollback \/ MarkInProgress
           \/ MarkTarget \/ MarkNext \/ PutNext \/ UndoBlock \/ FinishRollback \/ WakeUp
  <2>1. pc \notin {"load", "prune", "panic"}
    BY <1>5 DEF NothingToResume, ResumeRollback, ResumeRefused, GetLatest, TipMatches, TipMoved,
       ProbeLower, RollbackIsEmpty, AncestorFound, BeginRollback, MarkInProgress, MarkTarget,
       MarkNext, PutNext, UndoBlock, FinishRollback, WakeUp
  <2>2. loaded' = loaded /\ pc' \notin {"clear_target", "clear_next"}
    BY <1>5 DEF NothingToResume, ResumeRollback, ResumeRefused, GetLatest, TipMatches, TipMoved,
       ProbeLower, RollbackIsEmpty, AncestorFound, BeginRollback, MarkInProgress, MarkTarget,
       MarkNext, PutNext, UndoBlock, FinishRollback, WakeUp
  <2> QED
    BY <2>1, <2>2, <1>2
<1>6. CASE ProbeFails \/ RollbackRefused \/ LoadFails \/ Restart \/ Crash \/ RpcError \/ DbError
  BY <1>6, <1>1 DEF ProbeFails, RollbackRefused, LoadFails, Restart, Crash, RpcError, DbError,
     AbandonPass, LoseMemory, FreeLocals
<1>7. CASE ClearInProgress
  <2>1. height = target
    BY <1>7 DEF ClearInProgress, IInv, TypeOK, StoreTypeOK, LoopTypeOK, UndoCoversRollback, RollbackPCs
  <2>2. pc = "undo" /\ loaded' = loaded /\ height' = height /\ target' = target /\ pc' = "clear_target"
    BY <1>7 DEF ClearInProgress, delete_rollback_in_progress, ledgerVars
  <2> QED
    BY <2>1, <2>2 DEF BatchIsCanonical
<1>8. CASE ClearTarget
  <2>1. /\ pc = "clear_target" /\ loaded' = loaded /\ height' = height /\ target' = target
        /\ pc' = "clear_next"
    BY <1>8 DEF ClearTarget, put_rollback_target_height, ledgerVars
  <2> QED
    BY <2>1 DEF BatchIsCanonical
<1>9. CASE PlanSync
  <2>1. CASE pc' = "wait"
    BY <1>9, <2>1, <1>1 DEF PlanSync, FreeLocals
  <2>2. CASE pc' = "load"
    BY <1>9, <2>2, <1>2 DEF PlanSync
  <2> QED
    BY <1>9, <2>1, <2>2 DEF PlanSync
<1>10. CASE \E h \in BatchHeights : LoadBlock(h)
  <2>1. PICK h : LoadBlock(h)
    BY <1>10
  <2>2. /\ h <= Len(chain) /\ loaded' = Put(loaded, [g \in {h} |-> SubSeq(chain, 1, h)])
        /\ pc = "load" /\ pc' = "load" /\ chain' = chain
    BY <2>1 DEF LoadBlock, HasBlock, CanonicalHash
  <2>3. LoadedFrom(chain)
    BY <2>2 DEF BatchIsCanonical
  <2>4. ASSUME NEW g \in DOMAIN loaded'
        PROVE  g <= Len(chain) /\ loaded'[g] = SubSeq(chain, 1, g)
    <3>1. CASE g = h
      BY <2>2, <3>1 DEF Put
    <3>2. CASE g # h
      <4>1. g \in DOMAIN loaded /\ loaded'[g] = loaded[g]
        BY <2>2, <3>2 DEF Put
      <4> QED
        BY <4>1, <2>3 DEF LoadedFrom
    <3> QED
      BY <3>1, <3>2
  <2> QED
    BY <2>2, <2>4 DEF BatchIsCanonical, LoadedFrom
<1>11. CASE Panic \/ FlushBatch
  BY <1>11 DEF Panic, FlushBatch, BatchIsCanonical
<1>12. CASE PruneUndo
  BY <1>12, <1>1 DEF PruneUndo, FreeLocals
<1>13. CASE KeepWaiting
  BY <1>13, <1>4 DEF KeepWaiting
<1>14. CASE ExtendChain
  <2>1. UNCHANGED <<loaded, pc, height, target>>
    BY <1>14 DEF ExtendChain, ledgerVars
  <2>2. LoadedFrom(chain) => LoadedFrom(chain)'
    <3> SUFFICES ASSUME LoadedFrom(chain), NEW h \in DOMAIN loaded
                 PROVE  h <= Len(chain') /\ loaded[h] = SubSeq(chain', 1, h)
      BY <2>1 DEF LoadedFrom
    <3>1. h \in Nat
      BY DEF IInv, LoadedOK
    <3>2. h <= Len(chain) /\ loaded[h] = SubSeq(chain, 1, h)
      BY DEF LoadedFrom
    <3> QED
      BY <1>14, <3>1, <3>2, ExtendKeeps
  <2> QED
    BY <2>1, <2>2 DEF BatchIsCanonical
<1>15. CASE ReplaceChain
  <2>1. /\ pc \notin {"load", "prune", "clear_target", "clear_next"}
        /\ UNCHANGED <<loaded, pc, height, target>>
    BY <1>15 DEF ReplaceChain, ReplayConditions, ledgerVars
  <2> QED
    BY <2>1 DEF BatchIsCanonical
<1>16. CASE EvictUtxo \/ EvictBalance
  BY <1>16, <1>3 DEF EvictUtxo, EvictBalance, ledgerVars
<1> QED
  BY <1>4, <1>5, <1>6, <1>7, <1>8, <1>9, <1>10, <1>11, <1>12, <1>13, <1>14, <1>15, <1>16
     DEF Next, SyncStep, Environment, Rollback

LEMMA InitReplays == ReplayConditions /\ Init => ReplayInv
<1> SUFFICES ASSUME ReplayConditions, Init PROVE ReplayInv
  OBVIOUS
<1>1. /\ utxo = {} /\ DOMAIN rows = {} /\ DOMAIN undo = {} /\ height = 0
      /\ DOMAIN loaded = {} /\ pc = "sync_once" /\ chain \in Seq(Body)
  BY ChainAssumption, EmptyDomain DEF Init, EmptyDB, EmptyLoop
<1>2. << >> \in Seq(Body) /\ ValidChain(<< >>)
  BY ChainAssumption DEF ReplayConditions
<1>3. ReplayUtxo(<< >>, 0) = {}
  BY InReplay
<1>4. StoreHolds(<< >>)
  BY <1>1, <1>2, <1>3 DEF StoreHolds
<1>5. Agreed = 0 /\ AgreesUpTo(<< >>, 0)
  BY <1>1 DEF Agreed, AgreesUpTo, RollbackPCs
<1> QED
  BY <1>1, <1>4, <1>5 DEF ReplayInv, HoldsAgreed, BatchIsCanonical

LEMMA ReplayInductive ==
    ASSUME ReplayConditions PROVE Spec => [](IInv /\ LedgerOK /\ CacheInv /\ ReplayInv)
<1>1. Init => IInv /\ LedgerOK /\ CacheInv /\ ReplayInv
  <2> SUFFICES ASSUME Init PROVE IInv /\ LedgerOK /\ CacheInv /\ ReplayInv
    OBVIOUS
  <2>1. IInv /\ ReplayInv
    BY InitIInv, InitReplays
  <2>2. LedgerOK
    BY DEF Init, EmptyDB, LedgerOK, CommitsAreChains, CommitsBindRows
  <2>3. CacheInv
    BY EmptyDomain DEF Init, EmptyMemory, CacheInv, CachesAgree
  <2> QED
    BY <2>1, <2>2, <2>3
<1>2. IInv /\ LedgerOK /\ CacheInv /\ ReplayInv /\ [Next]_vars
          => IInv' /\ LedgerOK' /\ CacheInv' /\ ReplayInv'
  <2> SUFFICES ASSUME IInv, LedgerOK, CacheInv, ReplayInv, [Next]_vars
               PROVE  IInv' /\ LedgerOK' /\ CacheInv' /\ ReplayInv'
    OBVIOUS
  <2>1. IInv' /\ LedgerOK'
    BY NextIInv, NextLedger
  <2>2. CacheInv'
    BY NextCaches DEF ReplayConditions
  <2>3. HoldsAgreed'
    BY NextHolds
  <2>4. BatchIsCanonical'
    BY NextBatchIsCanonical DEF ReplayInv
  <2> QED
    BY <2>1, <2>2, <2>3, <2>4 DEF ReplayInv
<1> QED
  BY <1>1, <1>2, PTL DEF Spec

\* The UTXO set and every balance row are the replay of the committed blocks, after any
\* number of batches, rollbacks, failed calls, crashes and restarts: for valid chains of any
\* length, if no write to the store fails and the node does not replace its chain while a
\* batch of it is being read.
THEOREM StoreIsReplay == ASSUME ReplayConditions PROVE Spec => []StateIsReplay
<1>1. IInv /\ ReplayInv => StateIsReplay
  BY HoldsIsReplay DEF ReplayInv, HoldsAgreed
<1> QED
  BY <1>1, ReplayInductive, PTL

-----------------------------------------------------------------------------
(* The assertions of a batch *)

LEMMA PaidToNat ==
    ASSUME NEW s, NEW O \in SUBSET Outpoint, IsFiniteSet(O)
    PROVE  PaidTo(s, O) \in Nat
<1> DEFINE mine == {o \in O : ScriptOf[o] = s}
<1>1. IsFiniteSet(mine)
  BY FS_Subset
<1>2. \A o \in mine : ValueOf[o] \in Nat
  BY OutputAssumption
<1> QED
  BY <1>1, <1>2, SumNonNegative DEF PaidTo

LEMMA BatchIsSound ==
    ASSUME IInv, CachesAgree, BatchLoaded, NEW c, StoreHolds(c), LoadedFrom(c)
    PROVE  ~BatchPanics
<1>0. c \in Seq(Body) /\ ValidChain(c) /\ DOMAIN c = 1..Len(c)
  BY DEF StoreHolds
<1>1. /\ cur - 1 = height /\ height \in Nat
      /\ \A g \in BatchHeights : g \in Nat /\ BodyAt(g) \in Body
  BY BatchFacts
<1>2. \A g \in BatchHeights : BodyAt(g) = c[g] /\ g \in 1..Len(c)
  BY <1>0, LoadedBodies
<1>3. ASSUME NEW o \in BatchCreated PROVE ~(Cardinality(SpentAt(o)) > 1)
  <2>1. \A i, j \in SpentAt(o) : i = j
    BY <1>0, <1>2 DEF SpentAt, ValidChain
  <2>2. CASE SpentAt(o) = {}
    BY <2>2, FS_EmptySet
  <2>3. CASE SpentAt(o) # {}
    <3>1. PICK i : i \in SpentAt(o)
      BY <2>3
    <3>2. SpentAt(o) = {i}
      BY <2>1, <3>1
    <3> QED
      BY <3>2, FS_Singleton
  <2> QED
    BY <2>2, <2>3
<1>4. ASSUME NEW s \in DOMAIN balanceCache PROVE ~(balanceCache[s].height > cur - 1)
  <2>1. balanceCache[s].height <= height /\ balanceCache[s].height \in 1..height
    BY DEF CachesAgree, IInv, NothingAboveTip
  <2> QED
    BY <1>1, <2>1
<1>5. ASSUME NEW h \in BatchHeights, NEW s \in Touched(BodyAt(h)) PROVE ~(BalanceAfter(s, h) < 0)
  <2>1. s \in Script
    BY <1>1, TouchedScripts
  <2>2. BalanceAfter(s, h) = PaidTo(s, ReplayUtxo(c, h))
    BY <2>1, BalancesReplay
  <2>3. h \in Nat /\ h <= Len(c)
    BY <1>0, <1>1, <1>2
  <2>4. PaidTo(s, ReplayUtxo(c, h)) \in Nat
    BY <1>0, <2>3, ReplayFinite, PaidToNat
  <2> QED
    BY <2>2, <2>4
<1> QED
  BY <1>3, <1>4, <1>5 DEF BatchPanics

\* The indexer thread has not panicked.
NoPanic == pc # "panic"

\* The assertions of preload and process never fire: no batch of a valid chain spends an
\* output twice, meets a cached balance from its own future or drives a balance below zero,
\* whatever reorganisations and crashes came before.
THEOREM NeverPanics == ASSUME ReplayConditions PROVE Spec => []NoPanic
<1>1. Init => NoPanic
  BY DEF Init, EmptyLoop, NoPanic
<1>2. IInv /\ CacheInv /\ ReplayInv /\ NoPanic /\ [Next]_vars => NoPanic'
  <2> SUFFICES ASSUME IInv, CacheInv, ReplayInv, pc # "panic", [Next]_vars, pc' = "panic"
               PROVE  FALSE
    BY DEF NoPanic
  <2>1. Panic
    BY DEF Next, SyncStep, Environment, Rollback, vars, loopVars, NothingToResume, ResumeRollback,
       ResumeRefused, GetLatest, TipMatches, TipMoved, ProbeFails, ProbeLower, RollbackIsEmpty,
       RollbackRefused, BeginRollback, MarkInProgress, MarkTarget, MarkNext, UndoBlock, PutNext,
       ClearInProgress, ClearTarget, FinishRollback, PlanSync, LoadBlock, LoadFails, FlushBatch,
       PruneUndo, KeepWaiting, WakeUp, Restart, ExtendChain, ReplaceChain, EvictUtxo,
       EvictBalance, RpcError, DbError, Crash, AbandonPass, LoseMemory
  <2>2. BatchLoaded /\ BatchPanics /\ pc = "load"
    BY <2>1 DEF Panic, BatchLoaded
  <2>3. CachesAgree /\ LoadedFrom(chain)
    BY <2>2 DEF CacheInv, ReplayInv, BatchIsCanonical
  <2>4. PICK c : StoreHolds(c) /\ AgreesUpTo(c, height)
    BY <2>2 DEF ReplayInv, HoldsAgreed, Agreed
  <2>5. StoreHolds(chain)
    BY <2>4, HoldsChain
  <2> QED
    BY <2>2, <2>3, <2>5, BatchIsSound
<1> QED
  BY <1>1, <1>2, ReplayInductive, PTL DEF Spec

=============================================================================
