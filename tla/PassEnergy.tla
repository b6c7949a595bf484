------------------------------ MODULE PassEnergy ------------------------------
(***************************************************************************)
(* The energy rules of usdb-indexer: the growth and penalty formulas       *)
(* (index/energy_formula.rs), the records PassEnergyManager keeps per pass *)
(* and height (index/energy.rs), and the pending/synced markers of the     *)
(* energy store (storage/energy.rs).  The operators are pure; the store is *)
(* a record  en = [rec, pending, synced]  that InscriptionIndexer keeps in *)
(* a variable.                                                             *)
(*                                                                         *)
(* The constants stand for ENERGY_BALANCE_THRESHOLD, ENERGY_GROWTH_        *)
(* MULTIPLIER, ENERGY_PENALTY_MULTIPLIER and u64::MAX.                     *)
(***************************************************************************)
EXTENDS Integers, FiniteSets, FiniteSetsExt

CONSTANTS Passes,            \* inscription ids of miner passes
          Owners,            \* BTC script hashes
          MaxHeight,         \* bound on the block heights of a run
          EnergyThreshold, GrowthMultiplier, PenaltyMultiplier, U64Max

ASSUME PassEnergyAssumption ==
    /\ IsFiniteSet(Passes)
    /\ MaxHeight \in Nat
    /\ EnergyThreshold \in Nat
    /\ GrowthMultiplier \in Nat
    /\ PenaltyMultiplier \in Nat
    /\ U64Max \in Nat

Heights == 0..MaxHeight

NoHeight == -1                \* None of an Option<u32>

States == {"active", "dormant", "consumed", "burned", "invalid"}

-----------------------------------------------------------------------------
(* energy_formula.rs *)

saturating_u128_to_u64(v) == IF v > U64Max THEN U64Max ELSE v

SatAdd(a, b) == saturating_u128_to_u64(a + b)

SatSub(a, b) == IF a >= b THEN a - b ELSE 0

calc_growth_delta(balance, r) ==
    IF balance < EnergyThreshold THEN 0
    ELSE saturating_u128_to_u64(balance * GrowthMultiplier * r)

calc_penalty_from_delta(delta) ==
    IF delta >= 0 THEN 0
    ELSE saturating_u128_to_u64((-delta) * PenaltyMultiplier)

\* Growth between two heights, as a difference of two totals since the pass
\* became active.
calc_incremental_growth(balance, active, from, to) ==
    IF to <= from THEN 0
    ELSE SatSub(calc_growth_delta(balance, SatSub(to, active)),
                calc_growth_delta(balance, SatSub(from, active)))

-----------------------------------------------------------------------------
(* Energy records, keyed by pass and height *)

NoRecord == [state |-> "none"]

EnergyRecords ==
    [height : Heights, state : {"active", "dormant", "consumed"}, active : Heights,
     owner : Owners, balance : Nat, delta : Int, energy : Nat]

RecordTables == [Passes -> [Heights -> EnergyRecords \cup {NoRecord}]]

EnergyStores ==
    [rec     : RecordTables,
     pending : Heights \cup {NoHeight},
     synced  : Heights \cup {NoHeight}]

EmptyEnergy == [rec     |-> [p \in Passes |-> [h \in Heights |-> NoRecord]],
                pending |-> NoHeight,
                synced  |-> NoHeight]

\* find_last_pass_energy_record: the record with the greatest height <= h.
RecordHeights(rec, p, h) == {k \in Heights : k <= h /\ rec[p][k] # NoRecord}

LastRecord(rec, p, h) == rec[p][Max(RecordHeights(rec, p, h))]

PutRecord(rec, p, r) == [rec EXCEPT ![p][r.height] = r]

\* get_pass_energy: the last record, projected to h when the pass is active.
get_pass_energy(rec, p, h) ==
    LET r == LastRecord(rec, p, h)
    IN  IF r.state # "active" \/ h <= r.height THEN r.energy
        ELSE SatAdd(r.energy, calc_incremental_growth(r.balance, r.active, r.height, h))

\* One balance change applied to an active record: growth since the record at
\* the old balance, then the penalty, then the new balance.
ApplyChange(r, h, balance, delta) ==
    LET grown == SatAdd(r.energy, calc_incremental_growth(r.balance, r.active, r.height, h))
    IN  [r EXCEPT !.height  = h,
                  !.active  = IF delta < 0 THEN h ELSE r.active,
                  !.balance = balance,
                  !.delta   = delta,
                  !.energy  = SatSub(grown, calc_penalty_from_delta(delta))]

\* bal[k][o] is the balance history of the upstream; it has a row for o at k when
\* the balance changes there.
DeltaAt(bal, o, k) == bal[k][o] - bal[k - 1][o]

RowsUpTo(bal, o, h) == {k \in 1..h : DeltaAt(bal, o, k) # 0}

\* get_balance_at_height: the row at or before h, with the delta of that row.
get_balance_at_height(bal, o, h) ==
    [balance |-> bal[h][o],
     delta   |-> IF RowsUpTo(bal, o, h) = {} THEN 0
                 ELSE DeltaAt(bal, o, Max(RowsUpTo(bal, o, h)))]

\* The record after the balance row of height k, if there is one.
ChangeStep(r, bal, k) ==
    IF DeltaAt(bal, r.owner, k) = 0 THEN r
    ELSE ApplyChange(r, k, bal[k][r.owner], DeltaAt(bal, r.owner, k))

\* update_pass_energy: every balance change after the last record up to h is
\* applied and stored.
update_pass_energy(rec, bal, p, h) ==
    LET last == LastRecord(rec, p, h)
        after[k \in last.height..h] ==
            IF k = last.height THEN last ELSE ChangeStep(after[k - 1], bal, k)
    IN  IF last.state # "active" THEN rec
        ELSE [rec EXCEPT ![p] =
                [k \in Heights |->
                    IF k \in (last.height + 1)..h /\ DeltaAt(bal, last.owner, k) # 0
                    THEN after[k] ELSE rec[p][k]]]

on_new_pass(rec, bal, p, o, h, inherited) ==
    PutRecord(rec, p,
        [height |-> h, state |-> "active", active |-> h, owner |-> o,
         balance |-> get_balance_at_height(bal, o, h).balance,
         delta |-> get_balance_at_height(bal, o, h).delta, energy |-> inherited])

\* on_pass_dormant: settle to h, then freeze.
on_pass_dormant(rec, bal, p, h) ==
    LET settled == update_pass_energy(rec, bal, p, h)
        last    == LastRecord(settled, p, h)
    IN  PutRecord(settled, p,
            [last EXCEPT !.height = h,
                         !.state  = "dormant",
                         !.delta  = IF last.height = h THEN last.delta ELSE 0,
                         !.energy = get_pass_energy(settled, p, h)])

on_pass_consumed(rec, p, o, h) ==
    PutRecord(rec, p, [height |-> h, state |-> "consumed", active |-> h, owner |-> o,
                       balance |-> 0, delta |-> 0, energy |-> 0])

\* apply_active_balance_change (strict mode): the checks that make it fail ...
ChangeRefused(rec, p, o, h, balance, delta) ==
    \/ RecordHeights(rec, p, h) = {}
    \/ LET r == LastRecord(rec, p, h)
       IN  \/ r.state # "active"
           \/ r.owner # o
           \/ r.height = h /\ (r.balance # balance \/ r.delta # delta)
           \/ r.height < h /\ \/ delta > 0 /\ balance < r.balance
                              \/ delta < 0 /\ balance > r.balance

\* ... and what it stores otherwise.
apply_active_balance_change(rec, p, h, balance, delta) ==
    LET r == LastRecord(rec, p, h)
    IN  IF delta = 0 \/ r.height = h THEN rec
        ELSE PutRecord(rec, p, ApplyChange(r, h, balance, delta))

-----------------------------------------------------------------------------
(* Block boundaries of the energy store *)

\* clear_records_from_height
clear_records_from_height(rec, h) ==
    [p \in Passes |-> [k \in Heights |-> IF k >= h THEN NoRecord ELSE rec[p][k]]]

begin_block_sync(en, h) == [en EXCEPT !.pending = h]

\* Mutant: the pending marker goes, the synced height stays.
finalize_block_sync_keeps_height(en, h) == [en EXCEPT !.pending = NoHeight]

finalize_block_sync(en, h) == [en EXCEPT !.synced = h, !.pending = NoHeight]

abort_pending_block_sync(en, h) ==
    [en EXCEPT !.rec = clear_records_from_height(en.rec, h), !.pending = NoHeight]

\* Mutant: the records of the interrupted block survive its marker.
reconcile_keeps_pending_records(en, h) ==
    [rec     |-> en.rec,
     pending |-> NoHeight,
     synced  |-> IF en.synced = NoHeight \/ en.synced > h THEN h ELSE en.synced]

\* reconcile_with_pass_synced_height: drop the interrupted block, drop what lies
\* above the pass height, lower or initialise the marker.  A marker below the
\* pass height stays, and the caller gets an error (EnergyBehind).
reconcile_with_pass_synced_height(en, h) ==
    LET kept == IF en.pending = NoHeight THEN en.rec
                ELSE clear_records_from_height(en.rec, en.pending)
    IN  [rec     |-> clear_records_from_height(kept, h + 1),
         pending |-> NoHeight,
         synced  |-> IF en.synced = NoHeight \/ en.synced > h THEN h ELSE en.synced]

EnergyBehind(en, h) == en.synced # NoHeight /\ en.synced < h

=============================================================================
