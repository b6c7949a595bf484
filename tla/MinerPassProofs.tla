--------------------------- MODULE MinerPassProofs ---------------------------
(***************************************************************************)
(* Lemmas about the energy records (extrema of sets of heights, sums, the  *)
(* types of the formulas, what the operations of PassEnergyManager do to   *)
(* the last record of a pass) and about the pass tables (what the writers  *)
(* of MinerPass do to the rows and to the history, and what a rollback     *)
(* leaves).                                                                *)
(***************************************************************************)
EXTENDS MinerPass, SumProofs

-----------------------------------------------------------------------------
(* Extrema of sets of heights *)

LEMMA LeastElement ==
    ASSUME NEW S, S \subseteq Nat, S # {}
    PROVE  \E m \in S : \A n \in S : m <= n
<1>1. PICK m \in S : \A n \in S : ~(<<n, m>> \in OpToRel(<, Nat))
  BY NatLessThanWellFounded, WFMin
<1>2. \A n \in S : ~(n < m)
  BY <1>1 DEF OpToRel
<1> QED
  BY <1>2

LEMMA GreatestHeight ==
    ASSUME NEW S, S \subseteq Heights, S # {}
    PROVE  Max(S) \in S /\ \A n \in S : n <= Max(S)
<1> DEFINE T == {MaxHeight - n : n \in S}
<1>1. T \subseteq Nat /\ T # {}
  BY PassEnergyAssumption DEF Heights
<1>2. PICK t \in T : \A n \in T : t <= n
  BY <1>1, LeastElement
<1>3. PICK m \in S : t = MaxHeight - m
  BY <1>2
<1>4. \A n \in S : m >= n
  BY <1>2, <1>3, PassEnergyAssumption DEF Heights
<1> QED
  BY <1>4 DEF Max

LEMMA LeastHeight ==
    ASSUME NEW S, S \subseteq Heights, S # {}
    PROVE  Min(S) \in S /\ \A n \in S : Min(S) <= n
<1> S \subseteq Nat
  BY DEF Heights
<1>1. PICK m \in S : \A n \in S : m <= n
  BY LeastElement
<1> QED
  BY <1>1 DEF Min

-----------------------------------------------------------------------------
(* Sums over finite sets *)

\* The recursion of SumFunction, as an equation.
Pick(s) == CHOOSE x \in s : TRUE

SumRec(f, g, s) == IF s = {} THEN 0 ELSE f[Pick(s)] + g[s \ {Pick(s)}]

\* A function with this recursion exists: the least size of a set without one is not 0,
\* and one for smaller sets extends to it.
LEMMA SumRecExists ==
    ASSUME NEW S, IsFiniteSet(S), NEW f
    PROVE  \E g : g = [s \in SUBSET S |-> SumRec(f, g, s)]
<1> DEFINE E(n) == \E g : \A s \in SUBSET S : Cardinality(s) <= n => g[s] = SumRec(f, g, s)
           T == {n \in Nat : ~E(n)}
<1>0. \A s \in SUBSET S : IsFiniteSet(s) /\ Cardinality(s) \in Nat
  BY FS_Subset, FS_CardinalityType
<1>1. \A s \in SUBSET S : s # {} => /\ Pick(s) \in s /\ s \ {Pick(s)} \in SUBSET S
                                    /\ Cardinality(s \ {Pick(s)}) = Cardinality(s) - 1
  <2> SUFFICES ASSUME NEW s \in SUBSET S, s # {}
               PROVE  /\ Pick(s) \in s /\ s \ {Pick(s)} \in SUBSET S
                      /\ Cardinality(s \ {Pick(s)}) = Cardinality(s) - 1
    OBVIOUS
  <2>1. Pick(s) \in s
    BY DEF Pick
  <2> QED
    BY <1>0, <2>1, FS_RemoveElement
<1>2. T = {}
  <2> SUFFICES ASSUME T # {} PROVE FALSE
    OBVIOUS
  <2>1. PICK m \in T : \A n \in T : m <= n
    BY LeastElement
  <2>2. CASE m = 0
    <3> DEFINE g == [s \in SUBSET S |-> 0]
    <3>1. \A s \in SUBSET S : Cardinality(s) <= 0 => s = {}
      BY <1>0, FS_EmptySet
    <3>2. \A s \in SUBSET S : Cardinality(s) <= 0 => g[s] = SumRec(f, g, s)
      BY <3>1 DEF SumRec
    <3> QED
      BY <2>2, <3>2
  <2>3. CASE m # 0
    <3>1. m - 1 \in Nat /\ m - 1 \notin T
      BY <2>1, <2>3
    <3>2. PICK g : \A s \in SUBSET S : Cardinality(s) <= m - 1 => g[s] = SumRec(f, g, s)
      BY <3>1
    <3> DEFINE k == [s \in SUBSET S |-> IF Cardinality(s) <= m - 1 THEN g[s] ELSE SumRec(f, g, s)]
    <3>3. \A s \in SUBSET S : Cardinality(s) <= m - 1 => k[s] = g[s]
      OBVIOUS
    <3>4. ASSUME NEW s \in SUBSET S, Cardinality(s) <= m PROVE k[s] = SumRec(f, k, s)
      <4>1. k[s] = SumRec(f, g, s)
        BY <3>2
      <4>2. CASE s = {}
        BY <4>1, <4>2 DEF SumRec
      <4>3. CASE s # {}
        <5>1. k[s \ {Pick(s)}] = g[s \ {Pick(s)}]
          <6>1. Cardinality(s \ {Pick(s)}) <= m - 1 /\ s \ {Pick(s)} \in SUBSET S
            BY <1>0, <1>1, <3>4, <4>3
          <6> QED
            BY <6>1, <3>3
        <5> QED
          BY <4>1, <4>3, <5>1 DEF SumRec
      <4> QED
        BY <4>2, <4>3
    <3>5. E(m)
      BY <3>4
    <3> QED
      BY <3>5, <2>1
  <2> QED
    BY <2>2, <2>3
<1>3. E(Cardinality(S))
  BY <1>0, <1>2
<1>4. PICK g : \A s \in SUBSET S : Cardinality(s) <= Cardinality(S) => g[s] = SumRec(f, g, s)
  BY <1>3
<1>5. \A s \in SUBSET S : Cardinality(s) <= Cardinality(S)
  BY FS_Subset
<1> DEFINE h == [s \in SUBSET S |-> g[s]]
<1>6. \A s \in SUBSET S : SumRec(f, h, s) = SumRec(f, g, s)
  BY <1>1 DEF SumRec
<1>7. h = [s \in SUBSET S |-> SumRec(f, h, s)]
  BY <1>4, <1>5, <1>6
<1> QED
  BY <1>7

LEMMA SumNat ==
    ASSUME NEW S, IsFiniteSet(S), NEW f \in [S -> Nat]
    PROVE  SumFunction(f) \in Nat
<1> DEFINE iter == CHOOSE g : g = [s \in SUBSET S |-> SumRec(f, g, s)]
<1>1. SumFunction(f) = iter[S]
  BY DEF SumFunction, SumFunctionOnSet, FoldFunctionOnSet, MapThenFoldSet, SumRec, Pick
<1>2. iter = [s \in SUBSET S |-> SumRec(f, iter, s)]
  BY SumRecExists
<1> HIDE DEF iter
<1>0. \A s \in SUBSET S : IsFiniteSet(s) /\ Cardinality(s) \in Nat
  BY FS_Subset, FS_CardinalityType
<1> DEFINE T == {n \in Nat : \E s \in SUBSET S : Cardinality(s) = n /\ iter[s] \notin Nat}
<1>3. T = {}
  <2> SUFFICES ASSUME T # {} PROVE FALSE
    OBVIOUS
  <2>1. PICK m \in T : \A n \in T : m <= n
    BY LeastElement
  <2>2. PICK s \in SUBSET S : Cardinality(s) = m /\ iter[s] \notin Nat
    BY <2>1
  <2>3. iter[s] = SumRec(f, iter, s)
    BY <1>2
  <2>4. s # {}
    BY <2>2, <2>3 DEF SumRec
  <2>5. Pick(s) \in s
    BY <2>4 DEF Pick
  <2>a. IsFiniteSet(s \ {Pick(s)}) /\ Cardinality(s \ {Pick(s)}) = m - 1
    BY <1>0, <2>2, <2>5, FS_RemoveElement
  <2>6. Cardinality(s \ {Pick(s)}) = m - 1 /\ m - 1 \in Nat
    BY <2>a, FS_CardinalityType
  <2>7. m - 1 \notin T
    BY <2>1, <2>6
  <2>8. iter[s \ {Pick(s)}] \in Nat
    BY <2>6, <2>7
  <2> QED
    BY <2>2, <2>3, <2>4, <2>5, <2>8 DEF SumRec
<1> QED
  BY <1>0, <1>1, <1>3

-----------------------------------------------------------------------------
(* Types of the formulas *)

LEMMA SaturatingNat == \A v \in Nat : saturating_u128_to_u64(v) \in Nat
BY PassEnergyAssumption DEF saturating_u128_to_u64

LEMMA ProductNat == \A a, b \in Nat : a * b \in Nat
OBVIOUS

LEMMA GrowthNat == \A balance, r \in Nat : calc_growth_delta(balance, r) \in Nat
<1> SUFFICES ASSUME NEW balance \in Nat, NEW r \in Nat PROVE calc_growth_delta(balance, r) \in Nat
  OBVIOUS
<1>1. balance * GrowthMultiplier \in Nat
  BY PassEnergyAssumption, ProductNat
<1>2. balance * GrowthMultiplier * r \in Nat
  BY <1>1, ProductNat
<1> QED
  BY <1>2, SaturatingNat DEF calc_growth_delta

LEMMA SatSubNat == \A a, b \in Nat : SatSub(a, b) \in Nat
BY DEF SatSub

LEMMA SatAddNat == \A a, b \in Nat : SatAdd(a, b) \in Nat
BY SaturatingNat DEF SatAdd

LEMMA PenaltyNat == \A delta \in Int : calc_penalty_from_delta(delta) \in Nat
<1> SUFFICES ASSUME NEW delta \in Int, delta < 0 PROVE calc_penalty_from_delta(delta) \in Nat
  BY DEF calc_penalty_from_delta
<1>1. -delta \in Nat
  OBVIOUS
<1>2. (-delta) * PenaltyMultiplier \in Nat
  BY <1>1, PassEnergyAssumption, ProductNat
<1> QED
  BY <1>2, SaturatingNat DEF calc_penalty_from_delta

LEMMA IncrementalGrowthNat ==
    \A balance, active, from, to \in Nat : calc_incremental_growth(balance, active, from, to) \in Nat
<1> SUFFICES ASSUME NEW balance \in Nat, NEW active \in Nat, NEW from \in Nat, NEW to \in Nat
             PROVE  calc_incremental_growth(balance, active, from, to) \in Nat
  OBVIOUS
<1>1. SatSub(to, active) \in Nat /\ SatSub(from, active) \in Nat
  BY SatSubNat
<1>2. /\ calc_growth_delta(balance, SatSub(to, active)) \in Nat
      /\ calc_growth_delta(balance, SatSub(from, active)) \in Nat
  BY <1>1, GrowthNat
<1> QED
  BY <1>2, SatSubNat DEF calc_incremental_growth

LEMMA RecordFields ==
    ASSUME NEW r \in EnergyRecords
    PROVE  /\ r.height \in Nat /\ r.height \in Heights /\ r.active \in Nat /\ r.active \in Heights
           /\ r.state \in {"active", "dormant", "consumed"} /\ r.owner \in Owners
           /\ r.balance \in Nat /\ r.delta \in Int /\ r.energy \in Nat
BY DEF EnergyRecords, Heights

LEMMA ApplyChangeType ==
    ASSUME NEW r \in EnergyRecords, NEW h \in Heights, NEW balance \in Nat, NEW delta \in Int
    PROVE  /\ ApplyChange(r, h, balance, delta) \in EnergyRecords
           /\ ApplyChange(r, h, balance, delta).height = h
           /\ ApplyChange(r, h, balance, delta).state = r.state
           /\ ApplyChange(r, h, balance, delta).owner = r.owner
<1> DEFINE grown == SatAdd(r.energy, calc_incremental_growth(r.balance, r.active, r.height, h))
           energy == SatSub(grown, calc_penalty_from_delta(delta))
           active == IF delta < 0 THEN h ELSE r.active
<1>1. h \in Nat
  BY DEF Heights
<1>2. calc_incremental_growth(r.balance, r.active, r.height, h) \in Nat
  BY <1>1, RecordFields, IncrementalGrowthNat
<1>3. grown \in Nat
  BY <1>2, RecordFields, SatAddNat
<1>4. energy \in Nat
  BY <1>3, PenaltyNat, SatSubNat
<1>5. active \in Heights
  BY RecordFields
<1>6. ApplyChange(r, h, balance, delta) =
        [r EXCEPT !.height = h, !.active = active, !.balance = balance, !.delta = delta,
                  !.energy = energy]
  BY DEF ApplyChange
<1> HIDE DEF grown, energy, active
<1> QED
  BY <1>4, <1>5, <1>6 DEF EnergyRecords

\* What a change of balance at height h leaves of a record.
ChangedAt(new, r, h) ==
    new \in EnergyRecords /\ new.height = h /\ new.state = r.state /\ new.owner = r.owner

LEMMA ApplyChangeKind ==
    \A r \in EnergyRecords, h \in Heights, balance \in Nat, delta \in Int :
        ChangedAt(ApplyChange(r, h, balance, delta), r, h)
BY ApplyChangeType DEF ChangedAt

-----------------------------------------------------------------------------
(* The last record of a pass at a height *)

LEMMA LastRecordCases ==
    ASSUME NEW rec, NEW p, NEW h \in Heights, RecordHeights(rec, p, h) # {}
    PROVE  \E m \in Heights :
              /\ m <= h /\ rec[p][m] # NoRecord
              /\ LastRecord(rec, p, h) = rec[p][m]
              /\ \A k \in Heights : k <= h /\ rec[p][k] # NoRecord => k <= m
<1> DEFINE S == RecordHeights(rec, p, h)
<1>1. S \subseteq Heights
  BY DEF RecordHeights
<1>2. Max(S) \in S /\ \A n \in S : n <= Max(S)
  BY <1>1, GreatestHeight
<1>3. LastRecord(rec, p, h) = rec[p][Max(S)]
  BY DEF LastRecord
<1>4. Max(S) \in Heights /\ Max(S) <= h /\ rec[p][Max(S)] # NoRecord
  BY <1>2 DEF RecordHeights
<1>5. \A k \in Heights : k <= h /\ rec[p][k] # NoRecord => k <= Max(S)
  BY <1>2 DEF RecordHeights
<1> QED
  BY <1>3, <1>4, <1>5

LEMMA LastRecordIs ==
    ASSUME NEW rec, NEW p, NEW h \in Heights, NEW m \in Heights,
           m <= h, rec[p][m] # NoRecord, \A k \in (m + 1)..h : rec[p][k] = NoRecord
    PROVE  RecordHeights(rec, p, h) # {} /\ LastRecord(rec, p, h) = rec[p][m]
<1>0. RecordHeights(rec, p, h) # {}
  BY DEF RecordHeights
<1>1. PICK j \in Heights :
        /\ j <= h /\ rec[p][j] # NoRecord
        /\ LastRecord(rec, p, h) = rec[p][j]
        /\ \A k \in Heights : k <= h /\ rec[p][k] # NoRecord => k <= j
  BY <1>0, LastRecordCases
<1>2. m <= j
  BY <1>1
<1>3. ~(j > m)
  BY <1>1, PassEnergyAssumption DEF Heights
<1>4. j = m
  BY <1>2, <1>3, PassEnergyAssumption DEF Heights
<1> QED
  BY <1>0, <1>1, <1>4

\* Only the records of the pass at or below the height matter.
LEMMA LastRecordLocal ==
    ASSUME NEW rec, NEW other, NEW p, NEW h,
           \A k \in Heights : k <= h => rec[p][k] = other[p][k]
    PROVE  /\ RecordHeights(rec, p, h) = RecordHeights(other, p, h)
           /\ RecordHeights(rec, p, h) # {} => LastRecord(rec, p, h) = LastRecord(other, p, h)
<1>1. RecordHeights(rec, p, h) = RecordHeights(other, p, h)
  BY DEF RecordHeights
<1>2. ASSUME RecordHeights(rec, p, h) # {} PROVE LastRecord(rec, p, h) = LastRecord(other, p, h)
  <2>1. Max(RecordHeights(rec, p, h)) \in RecordHeights(rec, p, h)
    BY <1>2, GreatestHeight DEF RecordHeights
  <2>2. rec[p][Max(RecordHeights(rec, p, h))] = other[p][Max(RecordHeights(rec, p, h))]
    BY <2>1 DEF RecordHeights
  <2> QED
    BY <1>1, <2>2 DEF LastRecord
<1> QED
  BY <1>1, <1>2

LEMMA LastRecordFlat ==
    ASSUME NEW rec, NEW p, NEW g \in Heights, NEW h \in Heights, g <= h,
           \A k \in (g + 1)..h : rec[p][k] = NoRecord
    PROVE  /\ RecordHeights(rec, p, h) = RecordHeights(rec, p, g)
           /\ LastRecord(rec, p, h) = LastRecord(rec, p, g)
<1>1. RecordHeights(rec, p, h) = RecordHeights(rec, p, g)
  BY PassEnergyAssumption DEF RecordHeights, Heights
<1> QED
  BY <1>1 DEF LastRecord

-----------------------------------------------------------------------------
(* update_pass_energy *)

\* Every record is filed under its own height.
RecordsOK(rec) ==
    /\ rec \in RecordTables
    /\ \A p \in Passes, k \in Heights : rec[p][k] # NoRecord => rec[p][k].height = k

\* A balance history with a row for every owner at each height up to n.
BalanceTables(n) == [0..n -> [Owners -> Nat]]

LEMMA NoRecordIsNotARecord == NoRecord \notin EnergyRecords
BY DEF NoRecord, EnergyRecords

LEMMA LastRecordType ==
    ASSUME NEW rec, RecordsOK(rec), NEW p \in Passes, NEW h \in Heights, RecordHeights(rec, p, h) # {}
    PROVE  /\ LastRecord(rec, p, h) \in EnergyRecords
           /\ LastRecord(rec, p, h).height <= h
           /\ rec[p][LastRecord(rec, p, h).height] = LastRecord(rec, p, h)
           /\ rec[p][LastRecord(rec, p, h).height] # NoRecord
           /\ \A k \in (LastRecord(rec, p, h).height + 1)..h : rec[p][k] = NoRecord
<1>1. PICK m \in Heights : /\ m <= h /\ rec[p][m] # NoRecord
                           /\ LastRecord(rec, p, h) = rec[p][m]
                           /\ \A k \in Heights : k <= h /\ rec[p][k] # NoRecord => k <= m
  BY LastRecordCases
<1>2. rec[p][m] \in EnergyRecords /\ rec[p][m].height = m
  BY <1>1 DEF RecordsOK, RecordTables
<1>3. \A k \in (m + 1)..h : rec[p][k] = NoRecord
  BY <1>1, PassEnergyAssumption DEF Heights
<1> QED
  BY <1>1, <1>2, <1>3

\* The recursion of update_pass_energy, as an equation; it has a solution.
ChangesFrom(f, r, bal, lo, h) ==
    f = [k \in lo..h |-> IF k = lo THEN r ELSE ChangeStep(f[k - 1], bal, k)]

LEMMA ChangesExist ==
    ASSUME NEW r, NEW bal, NEW lo \in Nat, NEW h \in Nat
    PROVE  \E f : ChangesFrom(f, r, bal, lo, h)
<1> DEFINE Solves(f, n) == \A k \in lo..n : f[k] = IF k = lo THEN r ELSE ChangeStep(f[k - 1], bal, k)
           E(n) == \E f : Solves(f, n)
           T == {n \in Nat : ~E(n)}
<1>1. T = {}
  <2> SUFFICES ASSUME T # {} PROVE FALSE
    OBVIOUS
  <2>1. PICK m \in T : \A n \in T : m <= n
    BY LeastElement
  <2>2. CASE m <= lo
    <3> DEFINE g == [k \in {lo} |-> r]
    <3>1. Solves(g, m)
      BY <2>2
    <3> QED
      BY <3>1, <2>1
  <2>3. CASE m > lo
    <3>a. m \in Nat
      BY <2>1
    <3>b. m - 1 \in Nat /\ ~(m <= m - 1)
      BY <2>3, <3>a
    <3>1. m - 1 \in Nat /\ m - 1 \notin T
      <4> HIDE DEF T
      <4> QED
        BY <2>1, <3>b
    <3>2. PICK g : Solves(g, m - 1)
      BY <3>1
    <3> DEFINE f == [k \in lo..m |-> IF k = m THEN ChangeStep(g[m - 1], bal, m) ELSE g[k]]
    <3>3. \A k \in lo..(m - 1) : f[k] = g[k]
      BY <2>3
    <3>4. ASSUME NEW k \in lo..m PROVE f[k] = IF k = lo THEN r ELSE ChangeStep(f[k - 1], bal, k)
      <4>1. CASE k = m
        <5>1. f[m] = ChangeStep(g[m - 1], bal, m) /\ f[m - 1] = g[m - 1]
          BY <2>3, <3>3
        <5> QED
          BY <4>1, <5>1, <2>3
      <4>2. CASE k < m /\ k > lo
        <5>1. f[k] = g[k] /\ f[k - 1] = g[k - 1] /\ k \in lo..(m - 1)
          BY <4>2, <3>3
        <5> QED
          BY <5>1, <4>2, <3>2
      <4>3. CASE k = lo
        <5>1. f[lo] = g[lo] /\ lo \in lo..(m - 1)
          BY <2>3, <3>3
        <5> QED
          BY <5>1, <4>3, <3>2
      <4> QED
        BY <4>1, <4>2, <4>3
    <3>5. E(m)
      BY <3>4
    <3> QED
      BY <3>5, <2>1
  <2> QED
    BY <2>2, <2>3
<1>2. E(h)
  BY <1>1
<1>3. PICK g : Solves(g, h)
  BY <1>2
<1> DEFINE f == [k \in lo..h |-> g[k]]
<1>4. \A k \in lo..h : f[k] = IF k = lo THEN r ELSE ChangeStep(f[k - 1], bal, k)
  <2> SUFFICES ASSUME NEW k \in lo..h PROVE f[k] = IF k = lo THEN r ELSE ChangeStep(f[k - 1], bal, k)
    OBVIOUS
  <2>1. f[k] = g[k] /\ (k # lo => f[k - 1] = g[k - 1])
    OBVIOUS
  <2> QED
    BY <2>1, <1>3
<1>5. ChangesFrom(f, r, bal, lo, h)
  BY <1>4 DEF ChangesFrom
<1> QED
  BY <1>5

LEMMA DeltaInt ==
    ASSUME NEW n \in Nat, NEW bal \in BalanceTables(n), NEW o \in Owners, NEW k \in 1..n
    PROVE  DeltaAt(bal, o, k) \in Int /\ bal[k][o] \in Nat
<1>1. bal[k] \in [Owners -> Nat] /\ bal[k - 1] \in [Owners -> Nat]
  BY DEF BalanceTables
<1> QED
  BY <1>1 DEF DeltaAt

LEMMA ChangesType ==
    ASSUME NEW r \in EnergyRecords, NEW lo \in Nat, NEW h \in Heights, NEW n \in Nat, h <= n,
           NEW bal \in BalanceTables(n),
           NEW f, ChangesFrom(f, r, bal, lo, h)
    PROVE  \A k \in lo..h : /\ f[k] \in EnergyRecords
                            /\ f[k].state = r.state /\ f[k].owner = r.owner
                            /\ k > lo /\ DeltaAt(bal, r.owner, k) # 0 => f[k].height = k
<1> DEFINE Good(k) == /\ f[k] \in EnergyRecords
                      /\ f[k].state = r.state /\ f[k].owner = r.owner
                      /\ k > lo /\ DeltaAt(bal, r.owner, k) # 0 => f[k].height = k
           T == {k \in lo..h : ~Good(k)}
<1>0. h \in Nat /\ T \subseteq Nat
  BY DEF Heights
<1>1. \A k \in lo..h : f[k] = IF k = lo THEN r ELSE ChangeStep(f[k - 1], bal, k)
  BY DEF ChangesFrom
<1>2. T = {}
  <2> SUFFICES ASSUME T # {} PROVE FALSE
    OBVIOUS
  <2>1. PICK m \in T : \A k \in T : m <= k
    BY <1>0, LeastElement
  <2>2. m # lo
    BY <2>1, <1>1
  <2>a. m \in lo..h /\ ~Good(m)
    BY <2>1
  <2>b. m - 1 \in lo..h /\ m \in 1..n /\ m \in Heights /\ ~(m <= m - 1)
    BY <2>a, <2>2, <1>0, PassEnergyAssumption DEF Heights
  <2>3. m - 1 \notin T
    <3> HIDE DEF T
    <3> QED
      BY <2>1, <2>b
  <2>4. Good(m - 1)
    BY <2>3, <2>b
  <2>5. f[m] = ChangeStep(f[m - 1], bal, m)
    BY <1>1, <2>2, <2>a
  <2>6. DeltaAt(bal, r.owner, m) \in Int /\ bal[m][r.owner] \in Nat
    BY <2>b, RecordFields, DeltaInt
  <2>7. CASE DeltaAt(bal, r.owner, m) = 0
    <3>1. f[m] = f[m - 1]
      BY <2>4, <2>5, <2>7 DEF ChangeStep
    <3> QED
      BY <3>1, <2>a, <2>4, <2>7
  <2>8. CASE DeltaAt(bal, r.owner, m) # 0
    <3>1. f[m] = ApplyChange(f[m - 1], m, bal[m][r.owner], DeltaAt(bal, r.owner, m))
      BY <2>4, <2>5, <2>8 DEF ChangeStep
    <3> DEFINE x  == f[m - 1]
               bb == bal[m][r.owner]
               dd == DeltaAt(bal, r.owner, m)
    <3>2. x \in EnergyRecords /\ x.state = r.state /\ x.owner = r.owner
      BY <2>4
    <3>4. f[m] = ApplyChange(x, m, bb, dd) /\ bb \in Nat /\ dd \in Int /\ m \in Heights
      BY <3>1, <2>6, <2>b
    <3> HIDE DEF x, bb, dd, T, Good
    <3>5. /\ f[m] \in EnergyRecords /\ f[m].height = m
          /\ f[m].state = x.state /\ f[m].owner = x.owner
      <4>1. ChangedAt(ApplyChange(x, m, bb, dd), x, m)
        BY <3>2, <3>4, ApplyChangeKind
      <4>2. ChangedAt(f[m], x, m)
        BY <3>4, <4>1
      <4> QED
        BY <4>2 DEF ChangedAt
    <3>3. Good(m)
      BY <3>2, <3>5 DEF Good
    <3> QED
      BY <3>3, <2>a
  <2> QED
    BY <2>7, <2>8
<1> QED
  BY <1>2

\* The last records keep their state and owner, and a consumed one its energy.
SameKind(new, rec, p, j) ==
    RecordHeights(rec, p, j) # {} =>
        /\ RecordHeights(new, p, j) # {}
        /\ LastRecord(new, p, j).state = LastRecord(rec, p, j).state
        /\ LastRecord(new, p, j).owner = LastRecord(rec, p, j).owner
        /\ LastRecord(rec, p, j).state # "active" => LastRecord(new, p, j) = LastRecord(rec, p, j)

LEMMA SameKindIfSame ==
    ASSUME NEW rec, NEW new, NEW p, NEW j, \A k \in Heights : k <= j => new[p][k] = rec[p][k]
    PROVE  SameKind(new, rec, p, j)
<1>1. /\ RecordHeights(rec, p, j) = RecordHeights(new, p, j)
      /\ RecordHeights(rec, p, j) # {} => LastRecord(rec, p, j) = LastRecord(new, p, j)
  BY LastRecordLocal
<1> QED
  BY <1>1 DEF SameKind

\* Active records between the last one and the height are all an update adds.
LEMMA InsertedSameKind ==
    ASSUME NEW rec, RecordsOK(rec), NEW new, RecordsOK(new), NEW p \in Passes,
           NEW m \in Heights, NEW h \in Heights, m <= h,
           rec[p][m] # NoRecord, rec[p][m].state = "active",
           \A k \in (m + 1)..h : rec[p][k] = NoRecord,
           \A k \in (m + 1)..h : new[p][k] # NoRecord =>
              new[p][k].state = "active" /\ new[p][k].owner = rec[p][m].owner,
           \A k \in Heights : k \notin (m + 1)..h => new[p][k] = rec[p][k],
           NEW j \in Heights
    PROVE  SameKind(new, rec, p, j)
<1>0. m \in Nat /\ h \in Nat /\ j \in Nat
  BY DEF Heights
<1>1. CASE j < m
  <2>1. \A k \in Heights : k <= j => new[p][k] = rec[p][k]
    BY <1>0, <1>1 DEF Heights
  <2> QED
    BY <2>1, SameKindIfSame
<1>2. CASE j >= m
  <2>1. RecordHeights(rec, p, j) # {} /\ RecordHeights(new, p, j) # {}
    BY <1>0, <1>2 DEF RecordHeights
  <2>2. PICK a \in Heights : /\ a <= j /\ new[p][a] # NoRecord
                             /\ LastRecord(new, p, j) = new[p][a]
                             /\ \A k \in Heights : k <= j /\ new[p][k] # NoRecord => k <= a
    BY <2>1, LastRecordCases
  <2>3. PICK c \in Heights : /\ c <= j /\ rec[p][c] # NoRecord
                             /\ LastRecord(rec, p, j) = rec[p][c]
                             /\ \A k \in Heights : k <= j /\ rec[p][k] # NoRecord => k <= c
    BY <2>1, LastRecordCases
  <2>4. c \notin (m + 1)..h /\ new[p][c] # NoRecord /\ c <= a /\ m <= c
    BY <2>2, <2>3, <1>0, <1>2 DEF Heights
  <2>5. CASE a \in (m + 1)..h
    <3>1. c = m
      BY <2>4, <2>5, <1>0 DEF Heights
    <3> QED
      BY <2>1, <2>2, <2>3, <2>5, <3>1 DEF SameKind
  <2>6. CASE a \notin (m + 1)..h
    <3>1. a <= c
      BY <2>2, <2>3, <2>6
    <3>2. a = c
      BY <3>1, <2>4 DEF Heights
    <3>3. LastRecord(new, p, j) = LastRecord(rec, p, j)
      BY <2>2, <2>3, <2>6, <3>2
    <3> QED
      BY <2>1, <3>3 DEF SameKind
  <2> QED
    BY <2>5, <2>6
<1> QED
  BY <1>0, <1>1, <1>2

LEMMA UpdateEnergyOK ==
    ASSUME NEW rec, RecordsOK(rec), NEW p \in Passes, NEW h \in Heights, RecordHeights(rec, p, h) # {},
           NEW n \in Nat, NEW bal \in BalanceTables(n), h <= n \/ rec[p][h] # NoRecord
    PROVE  /\ RecordsOK(update_pass_energy(rec, bal, p, h))
           /\ \A q \in Passes \ {p} : update_pass_energy(rec, bal, p, h)[q] = rec[q]
           /\ \A j \in Heights : SameKind(update_pass_energy(rec, bal, p, h), rec, p, j)
           /\ \A k \in Heights : k > h => update_pass_energy(rec, bal, p, h)[p][k] = rec[p][k]
<1> DEFINE last == LastRecord(rec, p, h)
           lo   == last.height
           f    == CHOOSE g : ChangesFrom(g, last, bal, lo, h)
           F    == [k \in Heights |-> IF k \in (lo + 1)..h /\ DeltaAt(bal, last.owner, k) # 0
                                      THEN f[k] ELSE rec[p][k]]
           new  == update_pass_energy(rec, bal, p, h)
<1>1. /\ last \in EnergyRecords /\ lo <= h /\ rec[p][lo] = last /\ rec[p][lo] # NoRecord
      /\ \A k \in (lo + 1)..h : rec[p][k] = NoRecord
  BY LastRecordType
<1>2. lo \in Nat /\ lo \in Heights /\ h \in Nat
  BY <1>1, RecordFields DEF Heights
<1>3. CASE last.state # "active"
  <2>1. new = rec
    BY <1>3 DEF update_pass_energy
  <2>2. \A j \in Heights : SameKind(rec, rec, p, j)
    BY SameKindIfSame
  <2> QED
    BY <2>1, <2>2
<1>4. CASE last.state = "active"
  <2>1. new = [rec EXCEPT ![p] = F]
    BY <1>4 DEF update_pass_energy, ChangesFrom
  <2>2. ChangesFrom(f, last, bal, lo, h)
    BY <1>2, ChangesExist
  <2>3. \A k \in (lo + 1)..h : DeltaAt(bal, last.owner, k) # 0 =>
           /\ f[k] \in EnergyRecords /\ f[k].height = k
           /\ f[k].state = "active" /\ f[k].owner = last.owner
    <3>1. CASE h <= n
      <4> HIDE DEF f, last
      <4>1. \A k \in lo..h : /\ f[k] \in EnergyRecords
                             /\ f[k].state = last.state /\ f[k].owner = last.owner
                             /\ k > lo /\ DeltaAt(bal, last.owner, k) # 0 => f[k].height = k
        BY <1>1, <1>2, <2>2, <3>1, ChangesType
      <4> QED
        BY <4>1, <1>2, <1>4
    <3>2. CASE rec[p][h] # NoRecord
      <4>1. h \notin (lo + 1)..h
        BY <1>1, <3>2
      <4> QED
        BY <4>1, <1>1, <1>2
    <3> QED
      BY <3>1, <3>2
  <2> HIDE DEF f, last, new
  <2>4. \A k \in Heights : /\ k \notin (lo + 1)..h => F[k] = rec[p][k]
                           /\ k \in (lo + 1)..h => \/ F[k] = rec[p][k]
                                                   \/ /\ F[k] \in EnergyRecords /\ F[k].height = k
                                                      /\ F[k].state = "active"
                                                      /\ F[k].owner = last.owner
    BY <2>3
  <2>5. \A k \in Heights : /\ rec[p][k] \in EnergyRecords \cup {NoRecord}
                           /\ rec[p][k] # NoRecord => rec[p][k].height = k
    BY DEF RecordsOK, RecordTables
  <2>6. F = [k \in Heights |-> F[k]]
    OBVIOUS
  <2> HIDE DEF F
  <2>7. F \in [Heights -> EnergyRecords \cup {NoRecord}]
    BY <2>4, <2>5, <2>6
  <2>8. /\ new \in RecordTables /\ new[p] = F /\ \A q \in Passes \ {p} : new[q] = rec[q]
    BY <2>1, <2>7 DEF RecordsOK, RecordTables
  <2>9. RecordsOK(new)
    <3> SUFFICES ASSUME NEW q \in Passes, NEW k \in Heights, new[q][k] # NoRecord
                 PROVE  new[q][k].height = k
      BY <2>8 DEF RecordsOK
    <3>1. CASE q = p
      BY <3>1, <2>4, <2>5, <2>8
    <3>2. CASE q # p
      BY <3>2, <2>8 DEF RecordsOK
    <3> QED
      BY <3>1, <3>2
  <2>10. \A j \in Heights : SameKind(new, rec, p, j)
    <3>1. \A k \in (lo + 1)..h : new[p][k] # NoRecord =>
              new[p][k].state = "active" /\ new[p][k].owner = rec[p][lo].owner
      <4>1. \A k \in (lo + 1)..h : k \in Heights
        BY <1>2, PassEnergyAssumption DEF Heights
      <4> QED
        BY <1>1, <2>4, <2>8, <4>1
    <3>2. \A k \in Heights : k \notin (lo + 1)..h => new[p][k] = rec[p][k]
      BY <2>4, <2>8
    <3>3. rec[p][lo].state = "active"
      BY <1>1, <1>4
    <3> QED
      BY <1>1, <1>2, <2>9, <3>1, <3>2, <3>3, InsertedSameKind
  <2>11. \A k \in Heights : k > h => new[p][k] = rec[p][k]
    BY <1>2, <2>4, <2>8 DEF Heights
  <2> QED
    BY <2>8, <2>9, <2>10, <2>11 DEF new
<1> QED
  BY <1>3, <1>4

-----------------------------------------------------------------------------
(* What the operations of a block at height b do to the records of a pass *)

PassRecordsOK(rec, p) ==
    /\ rec[p] \in [Heights -> EnergyRecords \cup {NoRecord}]
    /\ \A k \in Heights : rec[p][k] # NoRecord => rec[p][k].height = k

\* Below b the last records keep their kind, above b nothing changes.
PassStep(new, rec, p, b) ==
    /\ PassRecordsOK(new, p)
    /\ \A j \in Heights : j < b => SameKind(new, rec, p, j)
    /\ \A k \in Heights : k > b => new[p][k] = rec[p][k]

\* The last record at height b is r.
LastIs(rec, p, b, r) == RecordHeights(rec, p, b) # {} /\ LastRecord(rec, p, b) = r

LEMMA RecordsByPass ==
    ASSUME NEW rec
    PROVE  /\ RecordsOK(rec) => \A p \in Passes : PassRecordsOK(rec, p)
           /\ rec = [p \in Passes |-> rec[p]] /\ (\A p \in Passes : PassRecordsOK(rec, p)) => RecordsOK(rec)
<1>1. ASSUME RecordsOK(rec) PROVE \A p \in Passes : PassRecordsOK(rec, p)
  BY <1>1 DEF RecordsOK, RecordTables, PassRecordsOK
<1>2. ASSUME rec = [p \in Passes |-> rec[p]], \A p \in Passes : PassRecordsOK(rec, p)
      PROVE  RecordsOK(rec)
  <2>1. rec \in RecordTables
    BY <1>2 DEF RecordTables, PassRecordsOK
  <2> QED
    BY <1>2, <2>1 DEF RecordsOK, PassRecordsOK
<1> QED
  BY <1>1, <1>2

LEMMA SameKindTransitive ==
    ASSUME NEW a, NEW b, NEW c, NEW p, NEW j, SameKind(b, a, p, j), SameKind(c, b, p, j)
    PROVE  SameKind(c, a, p, j)
BY DEF SameKind

LEMMA PassStepTransitive ==
    ASSUME NEW a, NEW b, NEW c, NEW p, NEW h, PassStep(b, a, p, h), PassStep(c, b, p, h)
    PROVE  PassStep(c, a, p, h)
<1>1. \A j \in Heights : j < h => SameKind(c, a, p, j)
  BY SameKindTransitive DEF PassStep
<1> QED
  BY <1>1 DEF PassStep

\* Only the records of the pass matter.
LEMMA SameRecords ==
    ASSUME NEW rec, NEW new, NEW other, NEW p, NEW b, other[p] = new[p]
    PROVE  /\ PassStep(new, rec, p, b) => PassStep(other, rec, p, b)
           /\ \A r : LastIs(new, p, b, r) => LastIs(other, p, b, r)
<1>1. \A j : RecordHeights(other, p, j) = RecordHeights(new, p, j)
  BY DEF RecordHeights
<1>2. \A j : LastRecord(other, p, j) = LastRecord(new, p, j)
  BY <1>1 DEF LastRecord
<1>3. \A j : SameKind(new, rec, p, j) => SameKind(other, rec, p, j)
  BY <1>1, <1>2 DEF SameKind
<1>4. PassRecordsOK(new, p) => PassRecordsOK(other, p)
  BY DEF PassRecordsOK
<1> QED
  BY <1>1, <1>2, <1>3, <1>4 DEF PassStep, LastIs

LEMMA NoStep ==
    ASSUME NEW rec, NEW new, NEW p, NEW b, PassRecordsOK(rec, p), new[p] = rec[p]
    PROVE  PassStep(new, rec, p, b)
<1>1. \A j \in Heights : SameKind(rec, rec, p, j)
  BY SameKindIfSame
<1>2. PassStep(rec, rec, p, b)
  BY <1>1 DEF PassStep
<1> QED
  BY <1>2, SameRecords

LEMMA PutRecordOK ==
    ASSUME NEW rec, RecordsOK(rec), NEW p \in Passes, NEW r \in EnergyRecords, NEW b \in Heights,
           r.height = b
    PROVE  /\ RecordsOK(PutRecord(rec, p, r))
           /\ PassStep(PutRecord(rec, p, r), rec, p, b)
           /\ LastIs(PutRecord(rec, p, r), p, b, r)
           /\ \A q \in Passes \ {p} : PutRecord(rec, p, r)[q] = rec[q]
<1> DEFINE new == PutRecord(rec, p, r)
<1>0. b \in Nat
  BY DEF Heights
<1>1. new = [rec EXCEPT ![p] = [rec[p] EXCEPT ![b] = r]]
  BY DEF PutRecord
<1>2. rec \in RecordTables /\ \A q \in Passes, k \in Heights : rec[q][k] # NoRecord => rec[q][k].height = k
  BY DEF RecordsOK
<1>3. /\ new \in RecordTables
      /\ new[p] = [rec[p] EXCEPT ![b] = r]
      /\ \A q \in Passes \ {p} : new[q] = rec[q]
  BY <1>1, <1>2 DEF RecordTables
<1>4. /\ new[p][b] = r
      /\ \A k \in Heights : k # b => new[p][k] = rec[p][k]
  BY <1>2, <1>3 DEF RecordTables
<1> HIDE DEF new
<1>5. RecordsOK(new)
  <2>1. \A k \in Heights : new[p][k] # NoRecord => new[p][k].height = k
    BY <1>2, <1>4
  <2>2. \A q \in Passes \ {p}, k \in Heights : new[q][k] # NoRecord => new[q][k].height = k
    BY <1>2, <1>3
  <2> QED
    BY <1>3, <2>1, <2>2 DEF RecordsOK
<1>6. PassRecordsOK(new, p)
  BY <1>5, RecordsByPass
<1>7. ASSUME NEW j \in Heights, j < b PROVE SameKind(new, rec, p, j)
  <2>1. \A k \in Heights : k <= j => new[p][k] = rec[p][k]
    BY <1>0, <1>4, <1>7 DEF Heights
  <2> QED
    BY <2>1, SameKindIfSame
<1>8. \A k \in Heights : k > b => new[p][k] = rec[p][k]
  BY <1>0, <1>4 DEF Heights
<1>9. new[p][b] # NoRecord
  BY <1>4, NoRecordIsNotARecord
<1>10. b <= b /\ \A k \in (b + 1)..b : new[p][k] = NoRecord
  BY <1>0
<1>11. LastIs(new, p, b, r)
  BY <1>4, <1>9, <1>10, LastRecordIs DEF LastIs
<1> QED
  BY <1>3, <1>5, <1>6, <1>7, <1>8, <1>11 DEF new, PassStep

\* The update in these terms.
LEMMA UpdateStep ==
    ASSUME NEW rec, RecordsOK(rec), NEW p \in Passes, NEW b \in Heights, RecordHeights(rec, p, b) # {},
           NEW n \in Nat, NEW bal \in BalanceTables(n), b <= n \/ rec[p][b] # NoRecord
    PROVE  /\ RecordsOK(update_pass_energy(rec, bal, p, b))
           /\ PassStep(update_pass_energy(rec, bal, p, b), rec, p, b)
           /\ SameKind(update_pass_energy(rec, bal, p, b), rec, p, b)
           /\ \A q \in Passes \ {p} : update_pass_energy(rec, bal, p, b)[q] = rec[q]
<1> DEFINE new == update_pass_energy(rec, bal, p, b)
<1>1. /\ RecordsOK(new)
      /\ \A q \in Passes \ {p} : new[q] = rec[q]
      /\ \A j \in Heights : SameKind(new, rec, p, j)
      /\ \A k \in Heights : k > b => new[p][k] = rec[p][k]
  BY UpdateEnergyOK
<1> HIDE DEF new
<1>2. PassRecordsOK(new, p)
  BY <1>1, RecordsByPass
<1>3. PassStep(new, rec, p, b)
  BY <1>1, <1>2 DEF PassStep
<1> QED
  BY <1>1, <1>3 DEF new

LEMMA EnergyNat ==
    ASSUME NEW rec, RecordsOK(rec), NEW p \in Passes, NEW h \in Heights, RecordHeights(rec, p, h) # {}
    PROVE  get_pass_energy(rec, p, h) \in Nat
<1> DEFINE r == LastRecord(rec, p, h)
<1>1. r \in EnergyRecords
  BY LastRecordType
<1>2. h \in Nat
  BY DEF Heights
<1>3. r.energy \in Nat /\ r.balance \in Nat /\ r.active \in Nat /\ r.height \in Nat
  BY <1>1, RecordFields
<1>4. calc_incremental_growth(r.balance, r.active, r.height, h) \in Nat
  BY <1>2, <1>3, IncrementalGrowthNat
<1>5. SatAdd(r.energy, calc_incremental_growth(r.balance, r.active, r.height, h)) \in Nat
  BY <1>3, <1>4, SatAddNat
<1> QED
  BY <1>3, <1>5 DEF get_pass_energy

\* A record of one kind, for a pass that now has it.
HasKind(rec, p, b, state) ==
    \E r \in EnergyRecords : LastIs(rec, p, b, r) /\ r.state = state

LEMMA DormantStep ==
    ASSUME NEW rec, RecordsOK(rec), NEW p \in Passes, NEW b \in Heights, RecordHeights(rec, p, b) # {},
           NEW n \in Nat, NEW bal \in BalanceTables(n), b <= n \/ rec[p][b] # NoRecord
    PROVE  /\ RecordsOK(on_pass_dormant(rec, bal, p, b))
           /\ PassStep(on_pass_dormant(rec, bal, p, b), rec, p, b)
           /\ HasKind(on_pass_dormant(rec, bal, p, b), p, b, "dormant")
           /\ \A q \in Passes \ {p} : on_pass_dormant(rec, bal, p, b)[q] = rec[q]
<1> DEFINE mid  == update_pass_energy(rec, bal, p, b)
           last == LastRecord(mid, p, b)
           d    == IF last.height = b THEN last.delta ELSE 0
           g    == get_pass_energy(mid, p, b)
           r    == [last EXCEPT !.height = b, !.state = "dormant", !.delta = d, !.energy = g]
           new  == PutRecord(mid, p, r)
<1>1. /\ RecordsOK(mid) /\ PassStep(mid, rec, p, b) /\ SameKind(mid, rec, p, b)
      /\ \A q \in Passes \ {p} : mid[q] = rec[q]
  BY UpdateStep
<1>2. on_pass_dormant(rec, bal, p, b) = new
  BY DEF on_pass_dormant
<1> HIDE DEF mid
<1>3. RecordHeights(mid, p, b) # {}
  BY <1>1 DEF SameKind
<1>4. last \in EnergyRecords
  BY <1>1, <1>3, LastRecordType
<1>5. g \in Nat
  BY <1>1, <1>3, EnergyNat
<1> HIDE DEF last, g
<1>6. d \in Int
  BY <1>4, RecordFields
<1> HIDE DEF d
<1>7. r \in EnergyRecords /\ r.height = b /\ r.state = "dormant"
  BY <1>4, <1>5, <1>6 DEF EnergyRecords
<1> HIDE DEF r
<1>8. /\ RecordsOK(new) /\ PassStep(new, mid, p, b) /\ LastIs(new, p, b, r)
      /\ \A q \in Passes \ {p} : new[q] = mid[q]
  BY <1>1, <1>7, PutRecordOK
<1> HIDE DEF new
<1>9. PassStep(new, rec, p, b)
  BY <1>1, <1>8, PassStepTransitive
<1>10. HasKind(new, p, b, "dormant")
  BY <1>7, <1>8 DEF HasKind
<1> QED
  BY <1>1, <1>2, <1>8, <1>9, <1>10

LEMMA BalanceTypes ==
    ASSUME NEW n \in Nat, NEW bal \in BalanceTables(n), NEW o \in Owners, NEW b \in Heights, b <= n
    PROVE  /\ get_balance_at_height(bal, o, b).balance \in Nat
           /\ get_balance_at_height(bal, o, b).delta \in Int
<1>0. b \in 0..n
  BY DEF Heights
<1>1. bal[b][o] \in Nat
  BY <1>0 DEF BalanceTables
<1> DEFINE S == RowsUpTo(bal, o, b)
<1>2. S \subseteq 1..b
  BY DEF RowsUpTo
<1>3. 1..b \subseteq Heights /\ 1..b \subseteq 1..n
  BY <1>0, PassEnergyAssumption DEF Heights
<1>4. S # {} => Max(S) \in 1..n
  BY <1>2, <1>3, GreatestHeight
<1>5. S # {} => DeltaAt(bal, o, Max(S)) \in Int
  BY <1>4, DeltaInt
<1> QED
  BY <1>1, <1>5 DEF get_balance_at_height

LEMMA NewPassStep ==
    ASSUME NEW rec, RecordsOK(rec), NEW p \in Passes, NEW b \in Heights, NEW o \in Owners,
           NEW n \in Nat, NEW bal \in BalanceTables(n), b <= n, NEW inherited \in Nat
    PROVE  /\ RecordsOK(on_new_pass(rec, bal, p, o, b, inherited))
           /\ PassStep(on_new_pass(rec, bal, p, o, b, inherited), rec, p, b)
           /\ \E r \in EnergyRecords : /\ LastIs(on_new_pass(rec, bal, p, o, b, inherited), p, b, r)
                                       /\ r.state = "active" /\ r.owner = o
           /\ \A q \in Passes \ {p} : on_new_pass(rec, bal, p, o, b, inherited)[q] = rec[q]
<1> DEFINE B == get_balance_at_height(bal, o, b).balance
           D == get_balance_at_height(bal, o, b).delta
           r == [height |-> b, state |-> "active", active |-> b, owner |-> o,
                 balance |-> B, delta |-> D, energy |-> inherited]
           new == PutRecord(rec, p, r)
<1>1. B \in Nat /\ D \in Int
  BY BalanceTypes
<1>2. on_new_pass(rec, bal, p, o, b, inherited) = new
  BY DEF on_new_pass
<1> HIDE DEF B, D
<1>3. r \in EnergyRecords /\ r.height = b /\ r.state = "active" /\ r.owner = o
  BY <1>1 DEF EnergyRecords
<1> HIDE DEF r
<1>4. /\ RecordsOK(new) /\ PassStep(new, rec, p, b) /\ LastIs(new, p, b, r)
      /\ \A q \in Passes \ {p} : new[q] = rec[q]
  BY <1>3, PutRecordOK
<1> HIDE DEF new
<1> QED
  BY <1>2, <1>3, <1>4

LEMMA ConsumedStep ==
    ASSUME NEW rec, RecordsOK(rec), NEW p \in Passes, NEW b \in Heights, NEW o \in Owners
    PROVE  /\ RecordsOK(on_pass_consumed(rec, p, o, b))
           /\ PassStep(on_pass_consumed(rec, p, o, b), rec, p, b)
           /\ \E r \in EnergyRecords : /\ LastIs(on_pass_consumed(rec, p, o, b), p, b, r)
                                       /\ r.state = "consumed" /\ r.energy = 0
<1> DEFINE r == [height |-> b, state |-> "consumed", active |-> b, owner |-> o,
                 balance |-> 0, delta |-> 0, energy |-> 0]
           new == PutRecord(rec, p, r)
<1>2. on_pass_consumed(rec, p, o, b) = new
  BY DEF on_pass_consumed
<1>3. r \in EnergyRecords /\ r.height = b /\ r.state = "consumed" /\ r.energy = 0
  BY DEF EnergyRecords
<1> HIDE DEF r
<1>4. RecordsOK(new) /\ PassStep(new, rec, p, b) /\ LastIs(new, p, b, r)
  BY <1>3, PutRecordOK
<1> HIDE DEF new
<1> QED
  BY <1>2, <1>3, <1>4

LEMMA SettleStep ==
    ASSUME NEW rec, RecordsOK(rec), NEW p \in Passes, NEW b \in Heights, RecordHeights(rec, p, b) # {},
           NEW balance \in Nat, NEW delta \in Int
    PROVE  LET new == apply_active_balance_change(rec, p, b, balance, delta)
           IN  /\ PassStep(new, rec, p, b)
               /\ RecordHeights(new, p, b) # {}
               /\ LastRecord(new, p, b).state = LastRecord(rec, p, b).state
               /\ LastRecord(new, p, b).owner = LastRecord(rec, p, b).owner
<1> DEFINE r    == LastRecord(rec, p, b)
           x    == ApplyChange(r, b, balance, delta)
           new  == apply_active_balance_change(rec, p, b, balance, delta)
           put  == PutRecord(rec, p, x)
<1>1. r \in EnergyRecords
  BY LastRecordType
<1>2. CASE delta = 0 \/ r.height = b
  <2>1. new = rec
    BY <1>2 DEF apply_active_balance_change
  <2>2. PassStep(rec, rec, p, b)
    BY NoStep, RecordsByPass
  <2> QED
    BY <2>1, <2>2
<1>3. CASE ~(delta = 0 \/ r.height = b)
  <2>1. new = put
    BY <1>3 DEF apply_active_balance_change
  <2> HIDE DEF r
  <2>2. ChangedAt(x, r, b)
    BY <1>1, ApplyChangeKind
  <2> HIDE DEF x
  <2>3. x \in EnergyRecords /\ x.height = b /\ x.state = r.state /\ x.owner = r.owner
    BY <2>2 DEF ChangedAt
  <2>4. PassStep(put, rec, p, b) /\ LastIs(put, p, b, x)
    BY <2>3, PutRecordOK
  <2> HIDE DEF put
  <2> QED
    BY <2>1, <2>3, <2>4 DEF LastIs, r
<1> QED
  BY <1>2, <1>3

-----------------------------------------------------------------------------
(* Block boundaries *)

\* rec without its records at h and above.
Cleared(new, rec, h) ==
    /\ RecordsOK(new)
    /\ \A p \in Passes, k \in Heights : new[p][k] = IF k >= h THEN NoRecord ELSE rec[p][k]

LEMMA ClearOK ==
    ASSUME NEW rec, RecordsOK(rec), NEW h
    PROVE  Cleared(clear_records_from_height(rec, h), rec, h)
<1> DEFINE new == clear_records_from_height(rec, h)
<1>1. \A p \in Passes : new[p] = [k \in Heights |-> IF k >= h THEN NoRecord ELSE rec[p][k]]
  BY DEF clear_records_from_height
<1>2. \A p \in Passes, k \in Heights : new[p][k] = IF k >= h THEN NoRecord ELSE rec[p][k]
  BY <1>1
<1>3. new = [p \in Passes |-> new[p]]
  BY DEF clear_records_from_height
<1> HIDE DEF new
<1>4. ASSUME NEW p \in Passes PROVE PassRecordsOK(new, p)
  <2>1. PassRecordsOK(rec, p)
    BY RecordsByPass
  <2>2. \A k \in Heights : rec[p][k] \in EnergyRecords \cup {NoRecord}
    BY <2>1 DEF PassRecordsOK
  <2>3. new[p] \in [Heights -> EnergyRecords \cup {NoRecord}]
    BY <1>1, <2>2
  <2>4. \A k \in Heights : new[p][k] # NoRecord => new[p][k].height = k
    BY <1>2, <2>1 DEF PassRecordsOK
  <2> QED
    BY <2>3, <2>4 DEF PassRecordsOK
<1>5. RecordsOK(new)
  BY <1>3, <1>4, RecordsByPass
<1> QED
  BY <1>2, <1>5 DEF new, Cleared

\* A reconciliation keeps the records below the pending block and up to h, drops
\* those above h, and only ever raises a marker that was missing.
Reconciled(new, old, h) ==
    /\ new \in EnergyStores
    /\ RecordsOK(new.rec)
    /\ new.pending = NoHeight
    /\ new.synced = IF old.synced = NoHeight \/ old.synced > h THEN h ELSE old.synced
    /\ \A p \in Passes, k \in Heights : k > h => new.rec[p][k] = NoRecord
    /\ \A p \in Passes, k \in Heights :
          k <= h /\ (old.pending = NoHeight \/ k < old.pending) => new.rec[p][k] = old.rec[p][k]

LEMMA ReconcileOK ==
    ASSUME NEW old \in EnergyStores, RecordsOK(old.rec), NEW h \in Heights
    PROVE  Reconciled(reconcile_with_pass_synced_height(old, h), old, h)
<1> DEFINE kept == IF old.pending = NoHeight THEN old.rec
                   ELSE clear_records_from_height(old.rec, old.pending)
           rec  == clear_records_from_height(kept, h + 1)
           new  == reconcile_with_pass_synced_height(old, h)
           syn  == IF old.synced = NoHeight \/ old.synced > h THEN h ELSE old.synced
<1>0. h \in Nat /\ old.pending \in Heights \cup {NoHeight} /\ old.synced \in Heights \cup {NoHeight}
  BY DEF Heights, EnergyStores
<1>1. /\ RecordsOK(kept)
      /\ \A p \in Passes, k \in Heights :
            old.pending = NoHeight \/ k < old.pending => kept[p][k] = old.rec[p][k]
  <2>1. CASE old.pending = NoHeight
    BY <2>1
  <2>2. CASE old.pending # NoHeight
    <3>1. Cleared(kept, old.rec, old.pending)
      BY <2>2, ClearOK
    <3>2. old.pending \in Nat
      BY <1>0, <2>2 DEF Heights
    <3>3. \A k \in Heights : k < old.pending => ~(k >= old.pending)
      BY <3>2 DEF Heights
    <3> HIDE DEF kept
    <3> QED
      BY <2>2, <3>1, <3>3 DEF Cleared
  <2> QED
    BY <2>1, <2>2
<1>2. new = [rec |-> rec, pending |-> NoHeight, synced |-> syn]
  BY DEF reconcile_with_pass_synced_height
<1> HIDE DEF kept, new
<1>3. Cleared(rec, kept, h + 1)
  BY <1>1, ClearOK
<1> HIDE DEF rec
<1>4. syn \in Heights \cup {NoHeight}
  BY <1>0
<1>5. new.rec = rec /\ new.pending = NoHeight /\ new.synced = syn
  BY <1>2
<1>6. new \in EnergyStores
  BY <1>2, <1>3, <1>4 DEF EnergyStores, Cleared, RecordsOK
<1>7. \A k \in Heights : (k > h <=> k >= h + 1) /\ (k <= h <=> ~(k >= h + 1))
  BY <1>0 DEF Heights
<1> QED
  BY <1>1, <1>3, <1>5, <1>6, <1>7 DEF Reconciled, Cleared, new

-----------------------------------------------------------------------------
(* The row of a pass at a height *)

\* RowAt finds nothing, or the row of the greatest height with one.
LEMMA RowAtCases ==
    ASSUME NEW hist, NEW p \in Passes, NEW h \in Heights
    PROVE  \/ RowAt(hist, p, h) = NoRow /\ \A k \in Heights : k <= h => hist[p][k] = NoRow
           \/ \E m \in Heights :
                 /\ m <= h /\ hist[p][m] # NoRow
                 /\ RowAt(hist, p, h) = hist[p][m]
                 /\ \A k \in Heights : k <= h /\ hist[p][k] # NoRow => k <= m
<1> DEFINE S == HistHeights(hist, p, h)
<1>1. S \subseteq Heights
  BY DEF HistHeights
<1>2. CASE S = {}
  BY <1>2 DEF RowAt, HistHeights
<1>3. CASE S # {}
  <2>1. Max(S) \in S /\ \A n \in S : n <= Max(S)
    BY <1>1, <1>3, GreatestHeight
  <2>2. RowAt(hist, p, h) = hist[p][Max(S)]
    BY <1>3 DEF RowAt
  <2>3. \A k \in Heights : k <= h /\ hist[p][k] # NoRow => k <= Max(S)
    BY <2>1 DEF HistHeights
  <2>4. Max(S) \in Heights /\ Max(S) <= h /\ hist[p][Max(S)] # NoRow
    BY <2>1 DEF HistHeights
  <2> QED
    BY <2>2, <2>3, <2>4
<1> QED
  BY <1>2, <1>3

LEMMA RowAtIs ==
    ASSUME NEW hist, NEW p \in Passes, NEW h \in Heights, NEW m \in Heights,
           m <= h, hist[p][m] # NoRow, \A k \in (m + 1)..h : hist[p][k] = NoRow
    PROVE  RowAt(hist, p, h) = hist[p][m]
<1>1. PICK j \in Heights :
        /\ j <= h /\ hist[p][j] # NoRow
        /\ RowAt(hist, p, h) = hist[p][j]
        /\ \A k \in Heights : k <= h /\ hist[p][k] # NoRow => k <= j
  BY RowAtCases
<1>2. m <= j
  BY <1>1
<1>3. ~(j > m)
  BY <1>1, PassEnergyAssumption DEF Heights
<1>4. j = m
  BY <1>2, <1>3, PassEnergyAssumption DEF Heights
<1> QED
  BY <1>1, <1>4

\* RowAt depends on the rows at or below the height only.
LEMMA RowAtLocal ==
    ASSUME NEW hist, NEW other, NEW p \in Passes, NEW h \in Heights,
           \A k \in Heights : k <= h => hist[p][k] = other[p][k]
    PROVE  RowAt(hist, p, h) = RowAt(other, p, h)
<1>1. HistHeights(hist, p, h) = HistHeights(other, p, h)
  BY DEF HistHeights
<1>2. CASE HistHeights(hist, p, h) = {}
  BY <1>1, <1>2 DEF RowAt
<1>3. CASE HistHeights(hist, p, h) # {}
  <2>1. Max(HistHeights(hist, p, h)) \in HistHeights(hist, p, h)
    BY <1>3, GreatestHeight DEF HistHeights
  <2>2. hist[p][Max(HistHeights(hist, p, h))] = other[p][Max(HistHeights(hist, p, h))]
    BY <2>1 DEF HistHeights
  <2> QED
    BY <1>1, <1>3, <2>2 DEF RowAt
<1> QED
  BY <1>2, <1>3

\* With nothing between two heights the row is the same at both.
LEMMA RowAtFlat ==
    ASSUME NEW hist, NEW p \in Passes, NEW g \in Heights, NEW h \in Heights, g <= h,
           \A k \in (g + 1)..h : hist[p][k] = NoRow
    PROVE  RowAt(hist, p, h) = RowAt(hist, p, g)
<1>1. HistHeights(hist, p, g) = HistHeights(hist, p, h)
  BY PassEnergyAssumption DEF HistHeights, Heights
<1> QED
  BY <1>1 DEF RowAt

-----------------------------------------------------------------------------
(* Writing rows of the block at height b *)

\* The current table is the history's last row of each pass.
RowsAreTheHistory(db) == \A p \in Passes : db.passes[p] = RowAt(db.hist, p, MaxHeight)

\* All rows of a pass carry the same mint height, and none is older.
MintsAreOnce(db) ==
    \A p \in Passes, k \in Heights : db.hist[p][k] # NoRow =>
        /\ db.passes[p] # NoRow
        /\ db.hist[p][k].mint = db.passes[p].mint
        /\ db.passes[p].mint <= k

OneActiveNow(db) ==
    \A p, q \in Passes :
        /\ db.passes[p].state = "active" /\ db.passes[q].state = "active"
        /\ db.passes[p].owner = db.passes[q].owner
        => p = q

\* The pass tables of a store whose last block is the one at height b.
TablesOK(db, b) ==
    /\ db \in Stores
    /\ NoHistoryAfter(db, b)
    /\ NoPassesAfter(db, b)
    /\ RowsAreTheHistory(db)
    /\ MintsAreOnce(db)

\* What a block at height b leaves alone before it is settled and committed.
SameElsewhere(new, db, b) ==
    /\ \A p \in Passes, k \in Heights : k # b => new.hist[p][k] = db.hist[p][k]
    /\ new.commits = db.commits
    /\ new.settled = db.settled
    /\ new.anchor = db.anchor
    /\ new.anchors = db.anchors
    /\ new.synced = db.synced
    /\ new.pending = db.pending

LEMMA SameElsewhereTransitive ==
    ASSUME NEW a, NEW b, NEW c, NEW h, SameElsewhere(b, a, h), SameElsewhere(c, b, h)
    PROVE  SameElsewhere(c, a, h)
BY DEF SameElsewhere

LEMMA NoRowIsNotARow == NoRow \notin Rows
BY DEF NoRow, Rows, States

\* From the last block on, the row at a height is the current one.
LEMMA CurrentRow ==
    ASSUME NEW db, NEW b \in Heights, NoHistoryAfter(db, b), RowsAreTheHistory(db),
           NEW p \in Passes, NEW h \in Heights, h >= b
    PROVE  RowAt(db.hist, p, h) = db.passes[p]
<1>1. MaxHeight \in Heights /\ h <= MaxHeight
  BY PassEnergyAssumption DEF Heights
<1>2. \A k \in (h + 1)..MaxHeight : db.hist[p][k] = NoRow
  BY PassEnergyAssumption DEF NoHistoryAfter, Heights
<1>3. RowAt(db.hist, p, MaxHeight) = RowAt(db.hist, p, h)
  BY <1>1, <1>2, RowAtFlat
<1> QED
  BY <1>3 DEF RowsAreTheHistory

LEMMA WriteRowsFields ==
    ASSUME NEW db \in Stores, NEW b \in Heights, NEW D \in SUBSET Passes, NEW new \in [D -> Rows]
    PROVE  /\ WriteRows(db, new, b) \in Stores
           /\ SameElsewhere(WriteRows(db, new, b), db, b)
           /\ \A q \in D : /\ WriteRows(db, new, b).passes[q] = new[q]
                           /\ WriteRows(db, new, b).hist[q][b] = new[q]
           /\ \A q \in Passes \ D : /\ WriteRows(db, new, b).passes[q] = db.passes[q]
                                    /\ WriteRows(db, new, b).hist[q][b] = db.hist[q][b]
<1> DEFINE P == [q \in Passes |-> IF q \in DOMAIN new THEN new[q] ELSE db.passes[q]]
           H == [q \in Passes |-> IF q \in DOMAIN new THEN [db.hist[q] EXCEPT ![b] = new[q]]
                                  ELSE db.hist[q]]
           db2 == WriteRows(db, new, b)
<1>0. DOMAIN new = D
  OBVIOUS
<1>1. db.passes \in RowTables /\ db.hist \in Histories
  BY DEF Stores
<1>2. P \in RowTables
  BY <1>0, <1>1 DEF RowTables
<1>3. H \in Histories
  BY <1>0, <1>1 DEF Histories
<1>4. db2 = [db EXCEPT !.passes = P, !.hist = H]
  BY DEF WriteRows
<1>5. /\ db2 \in Stores /\ db2.passes = P /\ db2.hist = H
      /\ db2.commits = db.commits /\ db2.settled = db.settled /\ db2.anchor = db.anchor
      /\ db2.anchors = db.anchors /\ db2.synced = db.synced /\ db2.pending = db.pending
  BY <1>2, <1>3, <1>4 DEF Stores
<1>6. \A q \in Passes, k \in Heights :
         H[q][k] = IF q \in D /\ k = b THEN new[q] ELSE db.hist[q][k]
  BY <1>0, <1>1 DEF Histories
<1>7. SameElsewhere(db2, db, b)
  BY <1>5, <1>6 DEF SameElsewhere
<1> QED
  BY <1>0, <1>5, <1>6, <1>7

LEMMA WriteRowsOK ==
    ASSUME NEW db, NEW b \in Heights, TablesOK(db, b), NEW D \in SUBSET Passes, NEW new \in [D -> Rows],
           \A q \in D : /\ new[q].mint <= b
                        /\ db.passes[q] # NoRow => new[q].mint = db.passes[q].mint
    PROVE  TablesOK(WriteRows(db, new, b), b)
<1> DEFINE db2 == WriteRows(db, new, b)
<1>0. db \in Stores
  BY DEF TablesOK
<1>1. /\ db2 \in Stores
      /\ SameElsewhere(db2, db, b)
      /\ \A q \in D : db2.passes[q] = new[q] /\ db2.hist[q][b] = new[q]
      /\ \A q \in Passes \ D : db2.passes[q] = db.passes[q] /\ db2.hist[q][b] = db.hist[q][b]
  BY <1>0, WriteRowsFields
<1> HIDE DEF db2
<1>b. b \in Nat /\ b <= MaxHeight /\ MaxHeight \in Nat /\ MaxHeight \in Heights
  BY PassEnergyAssumption DEF Heights
<1>2. \A p \in Passes, k \in Heights : k # b => db2.hist[p][k] = db.hist[p][k]
  BY <1>1 DEF SameElsewhere
<1>3. NoHistoryAfter(db2, b)
  BY <1>2, <1>b DEF NoHistoryAfter, TablesOK, Heights
<1>4. NoPassesAfter(db2, b)
  BY <1>1 DEF NoPassesAfter, TablesOK
<1>5. RowsAreTheHistory(db2)
  <2> SUFFICES ASSUME NEW p \in Passes PROVE db2.passes[p] = RowAt(db2.hist, p, MaxHeight)
    BY DEF RowsAreTheHistory
  <2>1. CASE p \in D
    <3>1. db2.hist[p][b] = new[p] /\ db2.passes[p] = new[p] /\ new[p] # NoRow
      BY <1>1, <2>1, NoRowIsNotARow
    <3>2. \A k \in (b + 1)..MaxHeight : db2.hist[p][k] = NoRow
      BY <1>3 DEF NoHistoryAfter
    <3> QED
      BY <3>1, <3>2, <1>b, RowAtIs
  <2>2. CASE p \notin D
    <3>1. \A k \in Heights : db2.hist[p][k] = db.hist[p][k]
      BY <1>1, <1>2, <2>2
    <3>2. RowAt(db2.hist, p, MaxHeight) = RowAt(db.hist, p, MaxHeight)
      BY <3>1, <1>b, RowAtLocal
    <3> QED
      BY <3>2, <1>1, <2>2 DEF TablesOK, RowsAreTheHistory
  <2> QED
    BY <2>1, <2>2
<1>6. MintsAreOnce(db2)
  <2> SUFFICES ASSUME NEW p \in Passes, NEW k \in Heights, db2.hist[p][k] # NoRow
               PROVE  /\ db2.passes[p] # NoRow
                      /\ db2.hist[p][k].mint = db2.passes[p].mint
                      /\ db2.passes[p].mint <= k
    BY DEF MintsAreOnce
  <2>0. MintsAreOnce(db)
    BY DEF TablesOK
  <2>1. CASE k # b
    <3>1. db.hist[p][k] # NoRow /\ db2.hist[p][k] = db.hist[p][k]
      BY <2>1, <1>2
    <3>2. db.passes[p] # NoRow /\ db.hist[p][k].mint = db.passes[p].mint /\ db.passes[p].mint <= k
      BY <2>0, <3>1 DEF MintsAreOnce
    <3> QED
      BY <3>1, <3>2, <1>1, NoRowIsNotARow
  <2>2. CASE k = b /\ p \in D
    BY <2>2, <1>1, NoRowIsNotARow
  <2>3. CASE k = b /\ p \notin D
    BY <2>3, <2>0, <1>1 DEF MintsAreOnce
  <2> QED
    BY <2>1, <2>2, <2>3
<1> QED
  BY <1>1, <1>3, <1>4, <1>5, <1>6 DEF TablesOK, db2

\* The row with another state.
SetState(row, st) == [row EXCEPT !.state = st]

LEMMA SetStateRow ==
    ASSUME NEW row \in Rows, NEW st \in States
    PROVE  /\ SetState(row, st) \in Rows
           /\ SetState(row, st).state = st
           /\ SetState(row, st).owner = row.owner
           /\ SetState(row, st).sat = row.sat
           /\ SetState(row, st).mint = row.mint
           /\ \A s2 \in States : SetState(SetState(row, st), s2) = SetState(row, s2)
BY DEF SetState, Rows

\* The two shapes of write: the state of a set of passes, and one whole row.
LEMMA UpdateStateOK ==
    ASSUME NEW db, NEW b \in Heights, TablesOK(db, b), NEW S \in SUBSET Passes, NEW st \in States,
           \A q \in S : db.passes[q] # NoRow
    PROVE  LET new == update_state_at_height(db, S, st, b)
           IN  /\ TablesOK(new, b)
               /\ SameElsewhere(new, db, b)
               /\ \A q \in S : new.passes[q] = SetState(db.passes[q], st)
               /\ \A q \in Passes \ S : new.passes[q] = db.passes[q]
<1> DEFINE f == [q \in S |-> [db.passes[q] EXCEPT !.state = st]]
           new == WriteRows(db, f, b)
<1>1. db \in Stores /\ NoPassesAfter(db, b)
  BY DEF TablesOK
<1>2. \A q \in S : db.passes[q] \in Rows
  BY <1>1 DEF Stores, RowTables
<1>3. \A q \in S : f[q] \in Rows /\ f[q].mint = db.passes[q].mint
  BY <1>2, SetStateRow DEF SetState
<1>4. f \in [S -> Rows]
  BY <1>3
<1>5. \A q \in S : f[q].mint <= b
  BY <1>1, <1>3 DEF NoPassesAfter
<1>6. \A q \in S : f[q] = SetState(db.passes[q], st)
  BY DEF SetState
<1>7. update_state_at_height(db, S, st, b) = new
  BY DEF update_state_at_height
<1> HIDE DEF f
<1>8. TablesOK(new, b)
  BY <1>3, <1>4, <1>5, WriteRowsOK
<1>9. /\ SameElsewhere(new, db, b)
      /\ \A q \in S : new.passes[q] = f[q]
      /\ \A q \in Passes \ S : new.passes[q] = db.passes[q]
  BY <1>1, <1>4, WriteRowsFields
<1> QED
  BY <1>6, <1>7, <1>8, <1>9

LEMMA WriteRowOK ==
    ASSUME NEW db, NEW b \in Heights, TablesOK(db, b), NEW p \in Passes, NEW row \in Rows,
           row.mint <= b, db.passes[p] # NoRow => row.mint = db.passes[p].mint
    PROVE  LET new == WriteRow(db, p, row, b)
           IN  /\ TablesOK(new, b)
               /\ SameElsewhere(new, db, b)
               /\ new.passes[p] = row
               /\ \A q \in Passes \ {p} : new.passes[q] = db.passes[q]
<1> DEFINE D == {p}
           f == [q \in {p} |-> row]
           new == WriteRows(db, f, b)
<1>1. db \in Stores
  BY DEF TablesOK
<1>2. f \in [D -> Rows] /\ f[p] = row /\ D \in SUBSET Passes /\ p \in D
      /\ \A q \in D : q = p
  OBVIOUS
<1>3. WriteRow(db, p, row, b) = new
  BY DEF WriteRow
<1> HIDE DEF D, f
<1>4. \A q \in D : f[q].mint <= b /\ (db.passes[q] # NoRow => f[q].mint = db.passes[q].mint)
  BY <1>2
<1>5. TablesOK(new, b)
  BY <1>2, <1>4, WriteRowsOK
<1>6. /\ SameElsewhere(new, db, b)
      /\ \A q \in D : new.passes[q] = f[q]
      /\ \A q \in Passes \ D : new.passes[q] = db.passes[q]
  BY <1>1, <1>2, WriteRowsFields
<1> QED
  BY <1>2, <1>3, <1>5, <1>6

-----------------------------------------------------------------------------
(* The operations of MinerPassManager on the pass tables *)

LEMMA RowFields ==
    ASSUME NEW db \in Stores, NEW p \in Passes
    PROVE  /\ db.passes[p] = NoRow \/ db.passes[p] \in Rows
           /\ NoRow.state = "none"
           /\ db.passes[p] # NoRow => /\ db.passes[p].state \in States
                                      /\ db.passes[p].owner \in Owners
                                      /\ db.passes[p].sat \in Nat
                                      /\ db.passes[p].mint \in Heights
BY DEF Stores, RowTables, Rows, NoRow

\* The passes that the mint e consumes.
Consumed(db, rec, bal, e, b) ==
    Consumable(add_new_mint_pass_at_height(dormant_last_pass(db, rec, bal, e.owner, b).db,
                                           e.pass, e.owner, b),
               e.owner, e.prev)

\* What a mint does to the current rows: the owner's active pass is dormant, the
\* passes of C are consumed, and the new pass is active.
MintEffect(new, db, C, e, b) ==
    /\ LastActive(db, e.owner) \subseteq Passes /\ C \subseteq Passes
    /\ e.pass \notin LastActive(db, e.owner) /\ e.pass \notin C
    /\ \A q \in C : /\ q \in LastActive(db, e.owner) \/ db.passes[q].state = "dormant"
                    /\ db.passes[q].owner = e.owner
    /\ new.passes[e.pass] = ActiveRow(e.owner, b)
    /\ \A q \in C : new.passes[q] = SetState(db.passes[q], "consumed")
    /\ \A q \in LastActive(db, e.owner) \ C : new.passes[q] = SetState(db.passes[q], "dormant")
    /\ \A q \in Passes \ (C \cup LastActive(db, e.owner) \cup {e.pass}) : new.passes[q] = db.passes[q]

LEMMA MintRows ==
    ASSUME NEW db, NEW rec, NEW bal, NEW b \in Heights, TablesOK(db, b), NEW e \in MintEvents,
           db.passes[e.pass] = NoRow
    PROVE  /\ TablesOK(on_mint_pass(db, rec, bal, e, b).db, b)
           /\ SameElsewhere(on_mint_pass(db, rec, bal, e, b).db, db, b)
           /\ MintEffect(on_mint_pass(db, rec, bal, e, b).db, db, Consumed(db, rec, bal, e, b), e, b)
<1> DEFINE D   == LastActive(db, e.owner)
           db1 == update_state_at_height(db, D, "dormant", b)
           db2 == add_new_mint_pass_at_height(db1, e.pass, e.owner, b)
           C   == Consumable(db2, e.owner, e.prev)
           new == update_state_at_height(db2, C, "consumed", b)
<1>0. dormant_last_pass(db, rec, bal, e.owner, b).db = db1
  BY DEF dormant_last_pass
<1>1. on_mint_pass(db, rec, bal, e, b).db = new
  BY <1>0 DEF on_mint_pass
<1>2. /\ db \in Stores /\ e.pass \in Passes /\ e.owner \in Owners /\ e.prev \in Seq(Passes)
      /\ NoRow.state = "none" /\ NoRow \notin Rows
      /\ "dormant" \in States /\ "consumed" \in States
  BY NoRowIsNotARow DEF TablesOK, MintEvents, NoRow, States
<1>3. D \in SUBSET Passes /\ e.pass \notin D /\ \A q \in D : db.passes[q] # NoRow
  BY <1>2 DEF LastActive
<1>4. /\ TablesOK(db1, b) /\ SameElsewhere(db1, db, b)
      /\ \A q \in D : db1.passes[q] = SetState(db.passes[q], "dormant")
      /\ \A q \in Passes \ D : db1.passes[q] = db.passes[q]
  <2> HIDE DEF D
  <2> QED
    BY <1>2, <1>3, UpdateStateOK
<1>5. ActiveRow(e.owner, b) \in Rows /\ ActiveRow(e.owner, b).mint = b
  BY <1>2 DEF ActiveRow, Rows, States, Heights
<1>6. db1.passes[e.pass] = NoRow
  BY <1>2, <1>3, <1>4
<1>7. /\ TablesOK(db2, b) /\ SameElsewhere(db2, db1, b)
      /\ db2.passes[e.pass] = ActiveRow(e.owner, b)
      /\ \A q \in Passes \ {e.pass} : db2.passes[q] = db1.passes[q]
  <2>1. db2 = WriteRow(db1, e.pass, ActiveRow(e.owner, b), b)
    BY DEF add_new_mint_pass_at_height
  <2>2. ActiveRow(e.owner, b).mint <= b
    BY <1>5 DEF Heights
  <2> HIDE DEF db1, db2
  <2> QED
    BY <1>2, <1>4, <1>5, <1>6, <2>1, <2>2, WriteRowOK
<1>8. C \subseteq Passes /\ \A q \in C : db2.passes[q].state = "dormant" /\ db2.passes[q].owner = e.owner
  BY <1>2 DEF Consumable, Range
<1>9. \A q \in C : db2.passes[q] # NoRow
  BY <1>2, <1>8
<1>10. /\ TablesOK(new, b) /\ SameElsewhere(new, db2, b)
       /\ \A q \in C : new.passes[q] = SetState(db2.passes[q], "consumed")
       /\ \A q \in Passes \ C : new.passes[q] = db2.passes[q]
  <2> HIDE DEF C, db2
  <2> QED
    BY <1>2, <1>7, <1>8, <1>9, UpdateStateOK
<1>11. ActiveRow(e.owner, b).state = "active"
  BY DEF ActiveRow
<1>12. e.pass \notin C
  BY <1>7, <1>8, <1>11
<1>13. \A q \in D : db.passes[q] \in Rows
  BY <1>2, <1>3, RowFields
<1>15. SameElsewhere(new, db, b)
  <2>1. SameElsewhere(db2, db, b)
    BY <1>4, <1>7, SameElsewhereTransitive
  <2> QED
    BY <2>1, <1>10, SameElsewhereTransitive
<1>16. \A q \in C : /\ q \in D \/ db.passes[q].state = "dormant"
                    /\ db.passes[q].owner = e.owner
  <2> SUFFICES ASSUME NEW q \in C
               PROVE  (q \in D \/ db.passes[q].state = "dormant") /\ db.passes[q].owner = e.owner
    OBVIOUS
  <2>1. db2.passes[q] = db1.passes[q] /\ q \in Passes
    BY <1>7, <1>8, <1>12
  <2>2. CASE q \in D
    BY <2>2 DEF LastActive
  <2>3. CASE q \notin D
    BY <2>1, <2>3, <1>4, <1>8
  <2> QED
    BY <2>2, <2>3
<1>17. \A q \in C : new.passes[q] = SetState(db.passes[q], "consumed")
  <2> SUFFICES ASSUME NEW q \in C
               PROVE  new.passes[q] = SetState(db.passes[q], "consumed")
    OBVIOUS
  <2>1. new.passes[q] = SetState(db1.passes[q], "consumed") /\ q \in Passes
    BY <1>7, <1>8, <1>10, <1>12
  <2>2. CASE q \in D
    <3>1. db.passes[q] \in Rows /\ new.passes[q] = SetState(SetState(db.passes[q], "dormant"), "consumed")
      BY <2>1, <2>2, <1>4, <1>13
    <3> QED
      BY <3>1, SetStateRow DEF States
  <2>3. CASE q \notin D
    BY <2>1, <2>3, <1>4
  <2> QED
    BY <2>2, <2>3
<1>18. new.passes[e.pass] = ActiveRow(e.owner, b)
  BY <1>2, <1>7, <1>10, <1>12
<1>19. \A q \in D \ C : new.passes[q] = SetState(db.passes[q], "dormant")
  BY <1>3, <1>4, <1>7, <1>10
<1>20. \A q \in Passes \ (C \cup D \cup {e.pass}) : new.passes[q] = db.passes[q]
  BY <1>4, <1>7, <1>10
<1>21. Consumed(db, rec, bal, e, b) = C
  BY <1>0 DEF Consumed
<1>22. MintEffect(new, db, C, e, b)
  BY <1>3, <1>8, <1>12, <1>16, <1>17, <1>18, <1>19, <1>20 DEF MintEffect
<1> QED
  BY <1>1, <1>10, <1>15, <1>21, <1>22

LEMMA RankValues ==
    /\ Rank("active") = 0 /\ Rank("dormant") = 1 /\ Rank("consumed") = 2
    /\ Rank("invalid") = 2 /\ Rank("burned") = 3
    /\ \A st \in States : Rank(st) \in 0..3
BY DEF Rank, States

\* What a step of the block at height b does to the pass tables.
TablesStep(new, db, b) ==
    /\ TablesOK(new, b)
    /\ SameElsewhere(new, db, b)
    /\ OneActiveNow(new)
    /\ NeverRevived(db, new)

LEMMA MintOK ==
    ASSUME NEW db, NEW rec, NEW bal, NEW b \in Heights, TablesOK(db, b), OneActiveNow(db),
           NEW e \in MintEvents, db.passes[e.pass] = NoRow
    PROVE  TablesStep(on_mint_pass(db, rec, bal, e, b).db, db, b)
<1> DEFINE D   == LastActive(db, e.owner)
           C   == Consumed(db, rec, bal, e, b)
           new == on_mint_pass(db, rec, bal, e, b).db
<1>0. TablesOK(new, b) /\ SameElsewhere(new, db, b) /\ MintEffect(new, db, C, e, b)
  BY MintRows
<1> HIDE DEF C, new
<1>1. /\ D \subseteq Passes /\ C \subseteq Passes /\ e.pass \notin D /\ e.pass \notin C
      /\ \A q \in C : /\ q \in D \/ db.passes[q].state = "dormant"
                      /\ db.passes[q].owner = e.owner
      /\ new.passes[e.pass] = ActiveRow(e.owner, b)
      /\ \A q \in C : new.passes[q] = SetState(db.passes[q], "consumed")
      /\ \A q \in D \ C : new.passes[q] = SetState(db.passes[q], "dormant")
      /\ \A q \in Passes \ (C \cup D \cup {e.pass}) : new.passes[q] = db.passes[q]
  BY <1>0 DEF MintEffect
<1>2. /\ \A q \in Passes : q \in D <=> db.passes[q].state = "active" /\ db.passes[q].owner = e.owner
      /\ e.pass \in Passes
  BY DEF LastActive, MintEvents
<1> HIDE DEF D
<1>s. db \in Stores /\ new \in Stores
  BY <1>0 DEF TablesOK
<1>3. /\ NoRow.state = "none"
      /\ \A q \in Passes : db.passes[q] # NoRow => db.passes[q] \in Rows
  BY <1>s, RowFields DEF NoRow
<1>4. \A q \in C \cup D : db.passes[q] \in Rows
  BY <1>1, <1>2, <1>3
<1>5. /\ \A q \in C : new.passes[q].state = "consumed"
      /\ \A q \in D \ C : new.passes[q].state = "dormant"
  BY <1>1, <1>4, SetStateRow DEF States
<1>6. ActiveRow(e.owner, b).owner = e.owner /\ ActiveRow(e.owner, b).state = "active"
  BY DEF ActiveRow
<1>7. OneActiveNow(new)
  <2>1. \A q \in Passes : new.passes[q].state = "active" /\ q # e.pass =>
           /\ new.passes[q] = db.passes[q]
           /\ db.passes[q].owner # e.owner
    BY <1>1, <1>2, <1>5
  <2> SUFFICES ASSUME NEW p \in Passes, NEW q \in Passes,
                      new.passes[p].state = "active", new.passes[q].state = "active",
                      new.passes[p].owner = new.passes[q].owner
               PROVE  p = q
    BY DEF OneActiveNow
  <2>2. CASE p = e.pass
    BY <2>1, <2>2, <1>1, <1>6
  <2>3. CASE q = e.pass
    BY <2>1, <2>3, <1>1, <1>6
  <2>4. CASE p # e.pass /\ q # e.pass
    BY <2>1, <2>4 DEF OneActiveNow
  <2> QED
    BY <2>2, <2>3, <2>4
<1>8. NeverRevived(db, new)
  <2> SUFFICES ASSUME NEW p \in Passes, db.passes[p] # NoRow
               PROVE  /\ new.passes[p] # NoRow
                      /\ Rank(new.passes[p].state) >= Rank(db.passes[p].state)
    BY DEF NeverRevived
  <2>1. p # e.pass /\ db.passes[p].state \in States
    BY <1>3 DEF Rows
  <2>2. CASE p \in C
    BY <2>2, <1>1, <1>2, <1>3, <1>5, RankValues
  <2>3. CASE p \in D \ C
    BY <2>3, <1>1, <1>2, <1>3, <1>5, RankValues
  <2>4. CASE p \in Passes \ (C \cup D \cup {e.pass})
    <3>1. Rank(db.passes[p].state) \in 0..3
      BY <2>1, RankValues
    <3> QED
      BY <2>4, <3>1, <1>1
  <2> QED
    BY <2>1, <2>2, <2>3, <2>4
<1> QED
  BY <1>0, <1>7, <1>8 DEF TablesStep, new

\* A write of one row that leaves the pass inactive, or active for the same owner.
LEMMA OneRowStep ==
    ASSUME NEW db, NEW new, NEW b \in Heights, db \in Stores, TablesOK(new, b), SameElsewhere(new, db, b),
           OneActiveNow(db), NEW p \in Passes, db.passes[p] # NoRow, new.passes[p] \in Rows,
           \/ new.passes[p].state = db.passes[p].state /\ new.passes[p].owner = db.passes[p].owner
           \/ /\ new.passes[p].state # "active"
              /\ Rank(new.passes[p].state) >= Rank(db.passes[p].state),
           \A q \in Passes \ {p} : new.passes[q] = db.passes[q]
    PROVE  TablesStep(new, db, b)
<1>1. OneActiveNow(new)
  BY DEF OneActiveNow
<1>2. NeverRevived(db, new)
  <2> SUFFICES ASSUME NEW q \in Passes, db.passes[q] # NoRow
               PROVE  /\ new.passes[q] # NoRow
                      /\ Rank(new.passes[q].state) >= Rank(db.passes[q].state)
    BY DEF NeverRevived
  <2>1. Rank(db.passes[q].state) \in 0..3
    BY RowFields, RankValues
  <2> QED
    BY <2>1, NoRowIsNotARow
<1> QED
  BY <1>1, <1>2 DEF TablesStep

\* A move leaves the pass with the receiver, dormant if it was active and changed hands.
MoveEffect(new, db, e) ==
    /\ new.passes[e.pass] \in Rows
    /\ new.passes[e.pass].owner = e.to /\ new.passes[e.pass].sat = e.sat
    /\ new.passes[e.pass].state =
         IF db.passes[e.pass].owner # e.to /\ db.passes[e.pass].state = "active" THEN "dormant"
         ELSE db.passes[e.pass].state
    /\ \A q \in Passes \ {e.pass} : new.passes[q] = db.passes[q]

LEMMA TransferOK ==
    ASSUME NEW db, NEW rec, NEW bal, NEW b \in Heights, TablesOK(db, b), OneActiveNow(db),
           NEW e, e.pass \in Passes, e.to \in Owners, e.sat \in Nat, db.passes[e.pass] # NoRow
    PROVE  /\ TablesStep(on_pass_transfer(db, rec, bal, e, b).db, db, b)
           /\ MoveEffect(on_pass_transfer(db, rec, bal, e, b).db, db, e)
<1> DEFINE p   == e.pass
           row == db.passes[p]
           new == on_pass_transfer(db, rec, bal, e, b).db
<1>1. db \in Stores /\ NoPassesAfter(db, b) /\ row \in Rows /\ row.mint <= b
  BY RowFields DEF TablesOK, NoPassesAfter
<1>2. CASE row.owner = e.to
  <2> DEFINE r2 == [row EXCEPT !.sat = e.sat]
  <2>1. /\ r2 \in Rows /\ r2.mint = row.mint /\ r2.state = row.state /\ r2.owner = row.owner /\ r2.sat = e.sat
    BY <1>1 DEF Rows
  <2>2. new = WriteRow(db, p, r2, b)
    BY <1>2 DEF on_pass_transfer, update_satpoint_at_height
  <2> HIDE DEF r2, new
  <2>3. /\ TablesOK(new, b) /\ SameElsewhere(new, db, b) /\ new.passes[p] = r2
        /\ \A q \in Passes \ {p} : new.passes[q] = db.passes[q]
    BY <1>1, <2>1, <2>2, WriteRowOK
  <2>4. TablesStep(new, db, b)
    BY <1>1, <2>1, <2>3, OneRowStep
  <2>5. MoveEffect(new, db, e)
    BY <1>2, <2>1, <2>3 DEF MoveEffect
  <2> QED
    BY <2>4, <2>5 DEF new
<1>3. CASE row.owner # e.to
  <2> DEFINE active == row.state = "active"
             db1 == IF active THEN update_state_at_height(db, {p}, "dormant", b) ELSE db
             r1  == db1.passes[p]
             r2  == [r1 EXCEPT !.owner = e.to, !.sat = e.sat]
  <2>1. new = WriteRow(db1, p, r2, b)
    BY <1>3 DEF on_pass_transfer, transfer_owner_at_height
  <2>2. /\ TablesOK(db1, b) /\ SameElsewhere(db1, db, b)
        /\ r1 = (IF active THEN SetState(row, "dormant") ELSE row)
        /\ \A q \in Passes \ {p} : db1.passes[q] = db.passes[q]
    <3>1. CASE active
      <4> DEFINE S == {p}
      <4>1. S \in SUBSET Passes /\ (\A q \in S : db.passes[q] # NoRow) /\ "dormant" \in States /\ p \in S
        BY DEF States
      <4>2. db1 = update_state_at_height(db, S, "dormant", b)
        BY <3>1
      <4> HIDE DEF S, db1
      <4>3. /\ TablesOK(db1, b) /\ SameElsewhere(db1, db, b)
            /\ \A q \in S : db1.passes[q] = SetState(db.passes[q], "dormant")
            /\ \A q \in Passes \ S : db1.passes[q] = db.passes[q]
        BY <4>1, <4>2, UpdateStateOK
      <4> QED
        BY <3>1, <4>1, <4>3 DEF S
    <3>2. CASE ~active
      BY <3>2 DEF SameElsewhere
    <3> QED
      BY <3>1, <3>2
  <2>3. /\ r1 \in Rows /\ r1.mint = row.mint
        /\ r1.state = IF active THEN "dormant" ELSE row.state
    BY <1>1, <2>2, SetStateRow DEF States
  <2> HIDE DEF db1
  <2>4. r2 \in Rows /\ r2.mint = row.mint /\ r2.state = r1.state /\ r2.owner = e.to /\ r2.sat = e.sat
    BY <2>3 DEF Rows
  <2> HIDE DEF r2, new
  <2>5. /\ TablesOK(new, b) /\ SameElsewhere(new, db1, b) /\ new.passes[p] = r2
        /\ \A q \in Passes \ {p} : new.passes[q] = db1.passes[q]
    BY <1>1, <2>1, <2>2, <2>3, <2>4, WriteRowOK
  <2>6. /\ SameElsewhere(new, db, b)
        /\ \A q \in Passes \ {p} : new.passes[q] = db.passes[q]
    BY <2>2, <2>5, SameElsewhereTransitive
  <2>7. new.passes[p].state # "active" /\ Rank(new.passes[p].state) >= Rank(row.state)
    <3>1. row.state \in States
      BY <1>1 DEF Rows
    <3> QED
      BY <2>3, <2>4, <2>5, <3>1, RankValues DEF States
  <2>8. TablesStep(new, db, b)
    <3>1. new.passes[p] \in Rows
      BY <2>4, <2>5
    <3> QED
      BY <1>1, <2>5, <2>6, <2>7, <3>1, OneRowStep
  <2>9. MoveEffect(new, db, e)
    BY <1>3, <2>3, <2>4, <2>5, <2>6 DEF MoveEffect
  <2> QED
    BY <2>8, <2>9 DEF new
<1> QED
  BY <1>2, <1>3

BurnEffect(new, db, e) ==
    /\ new.passes[e.pass].state = "burned"
    /\ \A q \in Passes \ {e.pass} : new.passes[q] = db.passes[q]

LEMMA BurnOK ==
    ASSUME NEW db, NEW rec, NEW bal, NEW b \in Heights, TablesOK(db, b), OneActiveNow(db),
           NEW e, e.pass \in Passes, db.passes[e.pass] # NoRow
    PROVE  /\ TablesStep(on_pass_burned(db, rec, bal, e, b).db, db, b)
           /\ BurnEffect(on_pass_burned(db, rec, bal, e, b).db, db, e)
<1> DEFINE p   == e.pass
           S   == {p}
           new == on_pass_burned(db, rec, bal, e, b).db
<1>1. db \in Stores /\ db.passes[p] \in Rows /\ db.passes[p].state \in States
  BY RowFields DEF TablesOK
<1>2. S \in SUBSET Passes /\ (\A q \in S : db.passes[q] # NoRow) /\ "burned" \in States /\ p \in S
  BY DEF States
<1>3. new = update_state_at_height(db, S, "burned", b)
  BY DEF on_pass_burned
<1> HIDE DEF S, new
<1>4. /\ TablesOK(new, b) /\ SameElsewhere(new, db, b)
      /\ \A q \in S : new.passes[q] = SetState(db.passes[q], "burned")
      /\ \A q \in Passes \ S : new.passes[q] = db.passes[q]
  BY <1>2, <1>3, UpdateStateOK
<1>5. /\ new.passes[p] \in Rows /\ new.passes[p].state = "burned"
      /\ \A q \in Passes \ {p} : new.passes[q] = db.passes[q]
  BY <1>1, <1>2, <1>4, SetStateRow DEF S
<1>6. Rank(new.passes[p].state) >= Rank(db.passes[p].state)
  BY <1>1, <1>5, RankValues
<1>7. TablesStep(new, db, b)
  BY <1>1, <1>4, <1>5, <1>6, OneRowStep
<1> QED
  BY <1>5, <1>7 DEF new, BurnEffect

LEMMA InvalidOK ==
    ASSUME NEW db, NEW b \in Heights, TablesOK(db, b), OneActiveNow(db),
           NEW bad \in SUBSET InvalidEvents, \A e \in bad : db.passes[e.pass] = NoRow
    PROVE  /\ TablesStep(on_invalid_mint_pass(db, bad, b), db, b)
           /\ \A q \in Passes : \/ on_invalid_mint_pass(db, bad, b).passes[q] = db.passes[q]
                                \/ /\ db.passes[q] = NoRow
                                   /\ on_invalid_mint_pass(db, bad, b).passes[q].state = "invalid"
<1> DEFINE D   == {e.pass : e \in bad}
           f   == [q \in D |-> InvalidRow((CHOOSE e \in bad : e.pass = q).owner, b)]
           new == on_invalid_mint_pass(db, bad, b)
<1>1. db \in Stores
  BY DEF TablesOK
<1>2. D \in SUBSET Passes /\ \A q \in D : db.passes[q] = NoRow
  BY DEF InvalidEvents
<1>3. \A q \in D : f[q] \in Rows /\ f[q].mint = b /\ f[q].state = "invalid"
  <2> SUFFICES ASSUME NEW q \in D PROVE f[q] \in Rows /\ f[q].mint = b /\ f[q].state = "invalid"
    OBVIOUS
  <2> DEFINE x == CHOOSE e \in bad : e.pass = q
  <2>1. x \in bad
    OBVIOUS
  <2>2. x.owner \in Owners
    BY <2>1 DEF InvalidEvents
  <2>3. f[q] = InvalidRow(x.owner, b)
    OBVIOUS
  <2> QED
    BY <2>2, <2>3 DEF InvalidRow, Rows, States
<1>5. new = WriteRows(db, f, b)
  BY DEF on_invalid_mint_pass, add_invalid_mint_pass_at_height
<1>d. f = [q \in D |-> f[q]]
  OBVIOUS
<1> HIDE DEF D, f, new
<1>4. f \in [D -> Rows] /\ \A q \in D : f[q].mint <= b
  BY <1>3, <1>d DEF Heights
<1>6. TablesOK(new, b)
  BY <1>2, <1>4, <1>5, WriteRowsOK
<1>7. /\ SameElsewhere(new, db, b)
      /\ \A q \in D : new.passes[q] = f[q]
      /\ \A q \in Passes \ D : new.passes[q] = db.passes[q]
  BY <1>1, <1>2, <1>4, <1>5, WriteRowsFields
<1>8. OneActiveNow(new)
  BY <1>2, <1>3, <1>7 DEF OneActiveNow
<1>9. NeverRevived(db, new)
  <2>1. \A q \in Passes : db.passes[q] # NoRow => Rank(db.passes[q].state) \in 0..3
    BY <1>1, RowFields, RankValues
  <2> QED
    BY <1>2, <1>7, <2>1 DEF NeverRevived
<1> QED
  BY <1>2, <1>3, <1>6, <1>7, <1>8, <1>9 DEF TablesStep, new

MoveItems == [op : {"move"}, pass : Passes, to : Owners \cup {Nobody}, sat : Nat]

LEMMA ExecuteOK ==
    ASSUME NEW db, NEW rec, NEW bal, NEW b \in Heights, TablesOK(db, b), OneActiveNow(db),
           NEW e \in ProcessEvents, ~RowRefused(db, e)
    PROVE  TablesStep(execute(db, rec, bal, e, b).db, db, b)
<1>1. CASE e \in MintEvents
  <2>1. e.op = "mint" /\ db.passes[e.pass] = NoRow
    BY <1>1 DEF MintEvents, RowRefused
  <2>2. execute(db, rec, bal, e, b) = on_mint_pass(db, rec, bal, e, b)
    BY <2>1 DEF execute
  <2> QED
    BY <1>1, <2>1, <2>2, MintOK
<1>2. CASE e \in MoveItems
  <2>1. e.op = "move" /\ e.pass \in Passes /\ e.to \in Owners \cup {Nobody} /\ e.sat \in Nat
    BY <1>2 DEF MoveItems
  <2>2. db.passes[e.pass] # NoRow
    BY <2>1 DEF RowRefused
  <2>3. CASE e.to = Nobody
    <3>1. execute(db, rec, bal, e, b) = on_pass_burned(db, rec, bal, e, b)
      BY <2>1, <2>3 DEF execute
    <3> QED
      BY <2>1, <2>2, <3>1, BurnOK
  <2>4. CASE e.to # Nobody
    <3>1. execute(db, rec, bal, e, b) = on_pass_transfer(db, rec, bal, e, b)
      BY <2>1, <2>4 DEF execute
    <3> QED
      BY <2>1, <2>2, <2>4, <3>1, TransferOK
  <2> QED
    BY <2>3, <2>4
<1> QED
  BY <1>1, <1>2 DEF ProcessEvents, MoveItems

-----------------------------------------------------------------------------
(* rollback_to_block_height *)

LEMMA RestoredRowsAreTheHistory ==
    ASSUME NEW db, MintsAreOnce(db), RowsAreTheHistory(db), db \in Stores,
           NEW t \in Heights, NEW p \in Passes
    PROVE  RestoredRows(db, t)[p] = RowAt(db.hist, p, t)
<1>0. MaxHeight \in Heights /\ t <= MaxHeight /\ t \in Nat /\ MaxHeight \in Nat
  BY PassEnergyAssumption DEF Heights
<1>1. RestoredRows(db, t)[p] = IF db.passes[p] # NoRow /\ db.passes[p].mint <= t
                               THEN RowAt(db.hist, p, t) ELSE NoRow
  BY DEF RestoredRows
<1>2. CASE RowAt(db.hist, p, t) = NoRow
  BY <1>1, <1>2
<1>3. CASE RowAt(db.hist, p, t) # NoRow
  <2>1. PICK m \in Heights : m <= t /\ db.hist[p][m] # NoRow
    BY <1>3, RowAtCases
  <2>2. db.passes[p] # NoRow /\ db.passes[p].mint <= m
    BY <2>1 DEF MintsAreOnce
  <2>3. db.passes[p].mint \in Heights
    BY <2>2, RowFields
  <2> QED
    BY <1>1, <2>1, <2>2, <2>3 DEF Heights
<1> QED
  BY <1>2, <1>3

\* The fields of the store after a rollback to t.
RolledBack(new, db, t) ==
    /\ new \in Stores
    /\ \A p \in Passes : new.passes[p] = RowAt(db.hist, p, t)
    /\ \A p \in Passes, k \in Heights : new.hist[p][k] = IF k > t THEN NoRow ELSE db.hist[p][k]
    /\ new.commits = DropAbove(db.commits, t, NoCommit)
    /\ new.settled = DropAbove(db.settled, t, NoSnapshot)
    /\ new.anchor = <<>>
    /\ new.anchors = DropAbove(db.anchors, t, <<>>)
    /\ new.synced = t
    /\ new.pending = t

LEMMA RowAtType ==
    ASSUME NEW hist \in Histories, NEW p \in Passes, NEW h \in Heights
    PROVE  RowAt(hist, p, h) \in Rows \cup {NoRow}
<1>1. \A m \in Heights : hist[p][m] \in Rows \cup {NoRow}
  BY DEF Histories
<1> QED
  BY <1>1, RowAtCases

LEMMA NoneTypes ==
    /\ NoCommit \in Commits
    /\ NoSnapshot \in [total : Nat, count : Nat \cup {NoHeight}]
    /\ <<>> \in Seq(Blocks)
BY DEF NoCommit, Commits, NoSnapshot, NoHeight

LEMMA RollbackFields ==
    ASSUME NEW db, MintsAreOnce(db), RowsAreTheHistory(db), db \in Stores, NEW t \in Heights
    PROVE  RolledBack(rollback_to_block_height(db, t), db, t)
<1> DEFINE P == RestoredRows(db, t)
           H == [p \in Passes |-> DropAbove(db.hist[p], t, NoRow)]
           K == DropAbove(db.commits, t, NoCommit)
           S == DropAbove(db.settled, t, NoSnapshot)
           A == DropAbove(db.anchors, t, <<>>)
           new == rollback_to_block_height(db, t)
<1>1. \A p \in Passes : P[p] = RowAt(db.hist, p, t)
  BY RestoredRowsAreTheHistory
<1>2. /\ db.hist \in Histories /\ db.commits \in [Heights -> Commits]
      /\ db.settled \in [Heights -> [total : Nat, count : Nat \cup {NoHeight}]]
      /\ db.anchors \in [Heights -> Seq(Blocks)]
  BY DEF Stores
<1>3. P \in RowTables
  <2>1. \A p \in Passes : P[p] \in Rows \cup {NoRow}
    BY <1>1, <1>2, RowAtType
  <2>2. P = [p \in Passes |-> P[p]]
    BY DEF RestoredRows
  <2> HIDE DEF P
  <2> QED
    BY <2>1, <2>2 DEF RowTables
<1>4. H \in Histories
  BY <1>2 DEF Histories, DropAbove
<1>5. K \in [Heights -> Commits]
  BY <1>2, NoneTypes DEF DropAbove
<1>6. S \in [Heights -> [total : Nat, count : Nat \cup {NoHeight}]]
  BY <1>2, NoneTypes DEF DropAbove
<1>7. A \in [Heights -> Seq(Blocks)]
  BY <1>2, NoneTypes DEF DropAbove
<1>8. new = [db EXCEPT !.hist = H, !.commits = K, !.settled = S, !.anchors = A, !.passes = P,
                       !.synced = t, !.anchor = <<>>, !.pending = t]
  BY DEF rollback_to_block_height, mark_recovery_pending, clear_snapshot_anchor,
     update_synced_height, DeleteAbove, Stores
<1> HIDE DEF P, H, K, S, A
<1>9. /\ new \in Stores /\ new.hist = H /\ new.commits = K /\ new.settled = S /\ new.anchors = A
      /\ new.passes = P /\ new.synced = t /\ new.anchor = <<>> /\ new.pending = t
  BY <1>3, <1>4, <1>5, <1>6, <1>7, <1>8, NoneTypes DEF Stores
<1>10. \A p \in Passes, k \in Heights : H[p][k] = IF k > t THEN NoRow ELSE db.hist[p][k]
  BY DEF H, DropAbove
<1> QED
  BY <1>1, <1>9, <1>10 DEF RolledBack, K, S, A

\* After a rollback to t the tables are those of the block at t, and a row at a height is
\* what it was at that height, or at t above it.
LEMMA RollbackTables ==
    ASSUME NEW db, NEW new, db \in Stores, MintsAreOnce(db), NEW t \in Heights, RolledBack(new, db, t)
    PROVE  /\ TablesOK(new, t)
           /\ \A p \in Passes, h \in Heights :
                 RowAt(new.hist, p, h) = IF h > t THEN RowAt(db.hist, p, t) ELSE RowAt(db.hist, p, h)
<1>0. MaxHeight \in Heights /\ t <= MaxHeight /\ t \in Nat /\ MaxHeight \in Nat
  BY PassEnergyAssumption DEF Heights
<1>1. \A p \in Passes, k \in Heights : new.hist[p][k] = IF k > t THEN NoRow ELSE db.hist[p][k]
  BY DEF RolledBack
<1>2. NoHistoryAfter(new, t)
  BY <1>0, <1>1 DEF NoHistoryAfter, Heights
<1>3. \A p \in Passes, h \in Heights : h <= t => RowAt(new.hist, p, h) = RowAt(db.hist, p, h)
  <2> SUFFICES ASSUME NEW p \in Passes, NEW h \in Heights, h <= t
               PROVE  RowAt(new.hist, p, h) = RowAt(db.hist, p, h)
    OBVIOUS
  <2>1. \A k \in Heights : k <= h => new.hist[p][k] = db.hist[p][k]
    BY <1>0, <1>1 DEF Heights
  <2> QED
    BY <2>1, RowAtLocal
<1>4. \A p \in Passes, h \in Heights : h > t => RowAt(new.hist, p, h) = RowAt(db.hist, p, t)
  <2> SUFFICES ASSUME NEW p \in Passes, NEW h \in Heights, h > t
               PROVE  RowAt(new.hist, p, h) = RowAt(db.hist, p, t)
    OBVIOUS
  <2>1. \A k \in (t + 1)..h : new.hist[p][k] = NoRow
    BY <1>0, <1>1 DEF Heights
  <2>2. RowAt(new.hist, p, h) = RowAt(new.hist, p, t)
    BY <2>1, RowAtFlat DEF Heights
  <2> QED
    BY <2>2, <1>0, <1>3
<1>5. \A p \in Passes, h \in Heights :
         RowAt(new.hist, p, h) = IF h > t THEN RowAt(db.hist, p, t) ELSE RowAt(db.hist, p, h)
  BY <1>0, <1>3, <1>4 DEF Heights
<1>6. RowsAreTheHistory(new)
  BY <1>0, <1>5 DEF RowsAreTheHistory, RolledBack
<1>7. \A p \in Passes : new.passes[p] # NoRow =>
         \E m \in Heights : m <= t /\ db.hist[p][m] # NoRow /\ new.passes[p] = db.hist[p][m]
  <2> SUFFICES ASSUME NEW p \in Passes, new.passes[p] # NoRow
               PROVE \E m \in Heights : m <= t /\ db.hist[p][m] # NoRow /\ new.passes[p] = db.hist[p][m]
    OBVIOUS
  <2>1. new.passes[p] = RowAt(db.hist, p, t)
    BY DEF RolledBack
  <2> QED
    BY <2>1, RowAtCases
<1>8. NoPassesAfter(new, t)
  <2> SUFFICES ASSUME NEW p \in Passes, new.passes[p] # NoRow PROVE new.passes[p].mint <= t
    BY DEF NoPassesAfter
  <2>1. PICK m \in Heights : m <= t /\ db.hist[p][m] # NoRow /\ new.passes[p] = db.hist[p][m]
    BY <1>7
  <2>2. new.passes[p].mint <= m /\ new.passes[p].mint \in Heights
    BY <2>1, RowFields DEF MintsAreOnce, RolledBack
  <2> QED
    BY <2>1, <2>2, <1>0 DEF Heights
<1>9. MintsAreOnce(new)
  <2> SUFFICES ASSUME NEW p \in Passes, NEW k \in Heights, new.hist[p][k] # NoRow
               PROVE  /\ new.passes[p] # NoRow
                      /\ new.hist[p][k].mint = new.passes[p].mint
                      /\ new.passes[p].mint <= k
    BY DEF MintsAreOnce
  <2>1. k <= t /\ new.hist[p][k] = db.hist[p][k] /\ db.hist[p][k] # NoRow
    BY <1>0, <1>1 DEF Heights
  <2>2. new.passes[p] = RowAt(db.hist, p, t)
    BY DEF RolledBack
  <2>3. RowAt(db.hist, p, t) # NoRow
    BY <2>1, RowAtCases
  <2>4. PICK m \in Heights : m <= t /\ db.hist[p][m] # NoRow /\ new.passes[p] = db.hist[p][m]
    BY <1>7, <2>2, <2>3
  <2> QED
    BY <2>1, <2>2, <2>3, <2>4 DEF MintsAreOnce
<1> QED
  BY <1>2, <1>5, <1>6, <1>8, <1>9 DEF TablesOK, RolledBack

-----------------------------------------------------------------------------
(* Rows and energy records agree *)

\* The last record of a live or consumed pass is of the pass's kind.
Agrees(row, rec, p, h) ==
    row.state \in {"active", "dormant", "consumed"} =>
        /\ RecordHeights(rec, p, h) # {}
        /\ LastRecord(rec, p, h).state = row.state
        /\ row.state = "active" => LastRecord(rec, p, h).owner = row.owner
        /\ row.state = "consumed" => LastRecord(rec, p, h).energy = 0

AllAgree(db, rec, h) == \A p \in Passes : Agrees(db.passes[p], rec, p, h)

\* What a step of the block at height b does to the records.
EnergyStep(new, rec, b) == RecordsOK(new) /\ \A p \in Passes : PassStep(new, rec, p, b)

LEMMA AgreesLast ==
    ASSUME NEW row, NEW rec, NEW p, NEW h, NEW r, LastIs(rec, p, h, r), r.state = row.state,
           row.state = "active" => r.owner = row.owner,
           row.state = "consumed" => r.energy = 0
    PROVE  Agrees(row, rec, p, h)
BY DEF LastIs, Agrees

LEMMA AgreesKind ==
    ASSUME NEW row, NEW rec, NEW new, NEW p, NEW h, Agrees(row, rec, p, h), SameKind(new, rec, p, h)
    PROVE  Agrees(row, new, p, h)
BY DEF Agrees, SameKind

LEMMA AgreesCopy ==
    ASSUME NEW row, NEW rec, NEW new, NEW p, NEW h, Agrees(row, rec, p, h), new[p] = rec[p]
    PROVE  Agrees(row, new, p, h)
<1>1. SameKind(new, rec, p, h)
  BY SameKindIfSame
<1> QED
  BY <1>1, AgreesKind

\* One pass's records change, to what the new row asks for.
LEMMA OnePassEnergy ==
    ASSUME NEW db, NEW new, NEW rec, NEW rec2, NEW p \in Passes, NEW b,
           RecordsOK(rec), RecordsOK(rec2), AllAgree(db, rec, b),
           PassStep(rec2, rec, p, b), \A q \in Passes \ {p} : rec2[q] = rec[q],
           Agrees(new.passes[p], rec2, p, b),
           \A q \in Passes \ {p} : new.passes[q] = db.passes[q]
    PROVE  EnergyStep(rec2, rec, b) /\ AllAgree(new, rec2, b)
<1>1. \A q \in Passes \ {p} : PassStep(rec2, rec, q, b)
  BY NoStep, RecordsByPass
<1>2. ASSUME NEW q \in Passes \ {p} PROVE Agrees(new.passes[q], rec2, q, b)
  <2>1. Agrees(db.passes[q], rec, q, b)
    BY DEF AllAgree
  <2>2. Agrees(db.passes[q], rec2, q, b)
    BY <2>1, AgreesCopy
  <2> QED
    BY <2>2
<1> QED
  BY <1>1, <1>2 DEF EnergyStep, AllAgree

LEMMA TransferEnergy ==
    ASSUME NEW db, NEW rec, NEW b \in Heights, TablesOK(db, b), OneActiveNow(db),
           RecordsOK(rec), AllAgree(db, rec, b), NEW n \in Nat, NEW bal \in BalanceTables(n),
           NEW e, e.pass \in Passes, e.to \in Owners, e.sat \in Nat, db.passes[e.pass] # NoRow,
           db.passes[e.pass].state = "active" => b <= n \/ rec[e.pass][b] # NoRecord
    PROVE  /\ EnergyStep(on_pass_transfer(db, rec, bal, e, b).rec, rec, b)
           /\ AllAgree(on_pass_transfer(db, rec, bal, e, b).db, on_pass_transfer(db, rec, bal, e, b).rec, b)
<1> DEFINE p == e.pass
           row == db.passes[p]
           new == on_pass_transfer(db, rec, bal, e, b).db
           rec2 == on_pass_transfer(db, rec, bal, e, b).rec
<1>1. /\ new.passes[p].owner = e.to
      /\ new.passes[p].state = IF row.owner # e.to /\ row.state = "active" THEN "dormant" ELSE row.state
      /\ \A q \in Passes \ {p} : new.passes[q] = db.passes[q]
  BY TransferOK DEF MoveEffect
<1>2. Agrees(row, rec, p, b)
  BY DEF AllAgree
<1>3. CASE row.state # "active"
  <2>1. rec2 = rec
    BY <1>3 DEF on_pass_transfer
  <2>2. PassStep(rec, rec, p, b)
    BY NoStep, RecordsByPass
  <2> HIDE DEF new, rec2
  <2>3. Agrees(new.passes[p], rec, p, b)
    BY <1>1, <1>2, <1>3 DEF Agrees
  <2>4. EnergyStep(rec, rec, b) /\ AllAgree(new, rec, b)
    BY <1>1, <2>2, <2>3, OnePassEnergy
  <2> QED
    BY <2>1, <2>4 DEF new, rec2
<1>4. CASE row.state = "active" /\ row.owner # e.to
  <2>0. RecordHeights(rec, p, b) # {} /\ (b <= n \/ rec[p][b] # NoRecord)
    BY <1>2, <1>4 DEF Agrees
  <2>1. rec2 = on_pass_dormant(rec, bal, p, b)
    BY <1>4 DEF on_pass_transfer
  <2>2. /\ RecordsOK(rec2) /\ PassStep(rec2, rec, p, b) /\ HasKind(rec2, p, b, "dormant")
        /\ \A q \in Passes \ {p} : rec2[q] = rec[q]
    BY <2>0, <2>1, DormantStep
  <2> HIDE DEF new, rec2
  <2>3. new.passes[p].state = "dormant"
    BY <1>1, <1>4
  <2>4. Agrees(new.passes[p], rec2, p, b)
    BY <2>2, <2>3, AgreesLast DEF HasKind
  <2>5. EnergyStep(rec2, rec, b) /\ AllAgree(new, rec2, b)
    BY <1>1, <2>2, <2>4, OnePassEnergy
  <2> QED
    BY <2>5 DEF new, rec2
<1>5. CASE row.state = "active" /\ row.owner = e.to
  <2>0. RecordHeights(rec, p, b) # {} /\ (b <= n \/ rec[p][b] # NoRecord)
    BY <1>2, <1>5 DEF Agrees
  <2>1. rec2 = update_pass_energy(rec, bal, p, b)
    BY <1>5 DEF on_pass_transfer
  <2>2. /\ RecordsOK(rec2) /\ PassStep(rec2, rec, p, b) /\ SameKind(rec2, rec, p, b)
        /\ \A q \in Passes \ {p} : rec2[q] = rec[q]
    BY <2>0, <2>1, UpdateStep
  <2> HIDE DEF new, rec2
  <2>3. new.passes[p].state = row.state /\ new.passes[p].owner = row.owner
    BY <1>1, <1>5
  <2>4. Agrees(row, rec2, p, b)
    BY <1>2, <2>2, AgreesKind
  <2>5. Agrees(new.passes[p], rec2, p, b)
    BY <2>3, <2>4 DEF Agrees
  <2>6. EnergyStep(rec2, rec, b) /\ AllAgree(new, rec2, b)
    BY <1>1, <2>2, <2>5, OnePassEnergy
  <2> QED
    BY <2>6 DEF new, rec2
<1> QED
  BY <1>3, <1>4, <1>5

LEMMA BurnEnergy ==
    ASSUME NEW db, NEW rec, NEW b \in Heights, TablesOK(db, b), OneActiveNow(db),
           RecordsOK(rec), AllAgree(db, rec, b), NEW n \in Nat, NEW bal \in BalanceTables(n),
           NEW e, e.pass \in Passes, db.passes[e.pass] # NoRow,
           db.passes[e.pass].state = "active" => b <= n \/ rec[e.pass][b] # NoRecord
    PROVE  /\ EnergyStep(on_pass_burned(db, rec, bal, e, b).rec, rec, b)
           /\ AllAgree(on_pass_burned(db, rec, bal, e, b).db, on_pass_burned(db, rec, bal, e, b).rec, b)
<1> DEFINE p == e.pass
           row == db.passes[p]
           new == on_pass_burned(db, rec, bal, e, b).db
           rec2 == on_pass_burned(db, rec, bal, e, b).rec
<1>1. new.passes[p].state = "burned" /\ \A q \in Passes \ {p} : new.passes[q] = db.passes[q]
  BY BurnOK DEF BurnEffect
<1>2. RecordsOK(rec2) /\ PassStep(rec2, rec, p, b) /\ \A q \in Passes \ {p} : rec2[q] = rec[q]
  <2>1. CASE row.state # "active"
    <3>1. rec2 = rec
      BY <2>1 DEF on_pass_burned
    <3> QED
      BY <3>1, NoStep, RecordsByPass
  <2>2. CASE row.state = "active"
    <3>1. rec2 = update_pass_energy(rec, bal, p, b)
      BY <2>2 DEF on_pass_burned
    <3>2. RecordHeights(rec, p, b) # {} /\ (b <= n \/ rec[p][b] # NoRecord)
      BY <2>2 DEF AllAgree, Agrees
    <3> QED
      BY <3>1, <3>2, UpdateStep
  <2> QED
    BY <2>1, <2>2
<1> HIDE DEF new, rec2
<1>3. Agrees(new.passes[p], rec2, p, b)
  BY <1>1 DEF Agrees
<1>4. EnergyStep(rec2, rec, b) /\ AllAgree(new, rec2, b)
  BY <1>1, <1>2, <1>3, OnePassEnergy
<1> QED
  BY <1>4 DEF new, rec2

\* The records after the owner's active pass went dormant, and after the passes of
\* C were consumed.
AfterDormant(rec, bal, D, b) ==
    [q \in Passes |-> IF q \in D THEN on_pass_dormant(rec, bal, q, b)[q] ELSE rec[q]]

AfterConsumed(rec, C, o, b) ==
    [q \in Passes |-> IF q \in C THEN on_pass_consumed(rec, q, o, b)[q] ELSE rec[q]]

LEMMA AfterDormantOK ==
    ASSUME NEW rec, RecordsOK(rec), NEW D \in SUBSET Passes, NEW b \in Heights,
           \A q \in D : RecordHeights(rec, q, b) # {},
           NEW n \in Nat, NEW bal \in BalanceTables(n), b <= n
    PROVE  /\ EnergyStep(AfterDormant(rec, bal, D, b), rec, b)
           /\ \A q \in D : HasKind(AfterDormant(rec, bal, D, b), q, b, "dormant")
           /\ \A q \in Passes \ D : AfterDormant(rec, bal, D, b)[q] = rec[q]
<1> DEFINE new == AfterDormant(rec, bal, D, b)
<1>1. /\ new = [q \in Passes |-> new[q]]
      /\ \A q \in D : new[q] = on_pass_dormant(rec, bal, q, b)[q]
      /\ \A q \in Passes \ D : new[q] = rec[q]
  BY DEF AfterDormant
<1> HIDE DEF new
<1>2. ASSUME NEW q \in D PROVE PassStep(new, rec, q, b) /\ HasKind(new, q, b, "dormant")
  <2> DEFINE one == on_pass_dormant(rec, bal, q, b)
  <2>1. PassStep(one, rec, q, b) /\ HasKind(one, q, b, "dormant")
    BY DormantStep
  <2>2. new[q] = one[q]
    BY <1>1
  <2> HIDE DEF one
  <2>3. PassStep(new, rec, q, b) /\ \A r : LastIs(one, q, b, r) => LastIs(new, q, b, r)
    BY <2>1, <2>2, SameRecords
  <2> QED
    BY <2>1, <2>3 DEF HasKind
<1>3. ASSUME NEW q \in Passes \ D PROVE PassStep(new, rec, q, b)
  BY <1>1, NoStep, RecordsByPass
<1>4. \A q \in Passes : PassRecordsOK(new, q)
  BY <1>2, <1>3 DEF PassStep
<1>5. RecordsOK(new)
  BY <1>1, <1>4, RecordsByPass
<1> QED
  BY <1>1, <1>2, <1>3, <1>5 DEF new, EnergyStep

LEMMA AfterConsumedOK ==
    ASSUME NEW rec, RecordsOK(rec), NEW C \in SUBSET Passes, NEW b \in Heights, NEW o \in Owners
    PROVE  /\ EnergyStep(AfterConsumed(rec, C, o, b), rec, b)
           /\ \A q \in C : \E r \in EnergyRecords : /\ LastIs(AfterConsumed(rec, C, o, b), q, b, r)
                                                    /\ r.state = "consumed" /\ r.energy = 0
           /\ \A q \in Passes \ C : AfterConsumed(rec, C, o, b)[q] = rec[q]
<1> DEFINE new == AfterConsumed(rec, C, o, b)
<1>1. /\ new = [q \in Passes |-> new[q]]
      /\ \A q \in C : new[q] = on_pass_consumed(rec, q, o, b)[q]
      /\ \A q \in Passes \ C : new[q] = rec[q]
  BY DEF AfterConsumed
<1> HIDE DEF new
<1>2. ASSUME NEW q \in C
      PROVE  /\ PassStep(new, rec, q, b)
             /\ \E r \in EnergyRecords : LastIs(new, q, b, r) /\ r.state = "consumed" /\ r.energy = 0
  <2> DEFINE one == on_pass_consumed(rec, q, o, b)
  <2>1. /\ PassStep(one, rec, q, b)
        /\ \E r \in EnergyRecords : LastIs(one, q, b, r) /\ r.state = "consumed" /\ r.energy = 0
    BY ConsumedStep
  <2>2. new[q] = one[q]
    BY <1>1
  <2> HIDE DEF one
  <2>3. PassStep(new, rec, q, b) /\ \A r : LastIs(one, q, b, r) => LastIs(new, q, b, r)
    BY <2>1, <2>2, SameRecords
  <2> QED
    BY <2>1, <2>3
<1>3. ASSUME NEW q \in Passes \ C PROVE PassStep(new, rec, q, b)
  BY <1>1, NoStep, RecordsByPass
<1>4. \A q \in Passes : PassRecordsOK(new, q)
  BY <1>2, <1>3 DEF PassStep
<1>5. RecordsOK(new)
  BY <1>1, <1>4, RecordsByPass
<1> QED
  BY <1>1, <1>2, <1>3, <1>5 DEF new, EnergyStep

LEMMA InheritedNat ==
    ASSUME NEW rec, RecordsOK(rec), NEW C \in SUBSET Passes, NEW b \in Heights,
           \A q \in C : RecordHeights(rec, q, b) # {}
    PROVE  Inherited(rec, C, b) \in Nat
<1>1. \A q \in C : get_pass_energy(rec, q, b) \in Nat
  BY EnergyNat
<1> DEFINE f == [q \in C |-> get_pass_energy(rec, q, b)]
<1>2. f \in [C -> Nat]
  BY <1>1
<1>3. IsFiniteSet(C)
  BY PassEnergyAssumption, FS_Subset
<1> HIDE DEF f
<1>4. SumFunction(f) \in Nat
  BY <1>2, <1>3, SumNat
<1> QED
  BY <1>4, SaturatingNat DEF Inherited, f

LEMMA MintEnergy ==
    ASSUME NEW db, NEW rec, NEW b \in Heights, TablesOK(db, b), OneActiveNow(db),
           RecordsOK(rec), AllAgree(db, rec, b), NEW n \in Nat, NEW bal \in BalanceTables(n), b <= n,
           NEW e \in MintEvents, db.passes[e.pass] = NoRow
    PROVE  /\ EnergyStep(on_mint_pass(db, rec, bal, e, b).rec, rec, b)
           /\ AllAgree(on_mint_pass(db, rec, bal, e, b).db, on_mint_pass(db, rec, bal, e, b).rec, b)
<1> DEFINE D    == LastActive(db, e.owner)
           C    == Consumed(db, rec, bal, e, b)
           rec1 == AfterDormant(rec, bal, D, b)
           rec2 == AfterConsumed(rec1, C, e.owner, b)
           inh  == Inherited(rec1, C, b)
           rec3 == on_new_pass(rec2, bal, e.pass, e.owner, b, inh)
           new  == on_mint_pass(db, rec, bal, e, b).db
<1>0. e.pass \in Passes /\ e.owner \in Owners /\ db \in Stores
  BY DEF MintEvents, TablesOK
<1>1. on_mint_pass(db, rec, bal, e, b).rec = rec3
  <2>1. dormant_last_pass(db, rec, bal, e.owner, b).rec = rec1
    BY DEF dormant_last_pass, AfterDormant
  <2> QED
    BY <2>1 DEF on_mint_pass, Consumed, AfterConsumed
<1>2. MintEffect(new, db, C, e, b)
  BY MintRows
<1> HIDE DEF C, new
<1>3. /\ D \in SUBSET Passes /\ C \in SUBSET Passes
      /\ e.pass \notin D /\ e.pass \notin C
      /\ \A q \in C : q \in D \/ db.passes[q].state = "dormant"
      /\ new.passes[e.pass] = ActiveRow(e.owner, b)
      /\ \A q \in C : new.passes[q] = SetState(db.passes[q], "consumed")
      /\ \A q \in D \ C : new.passes[q] = SetState(db.passes[q], "dormant")
      /\ \A q \in Passes \ (C \cup D \cup {e.pass}) : new.passes[q] = db.passes[q]
  BY <1>2 DEF MintEffect
<1>4. \A q \in D : RecordHeights(rec, q, b) # {} /\ db.passes[q] \in Rows
  <2>1. \A q \in D : q \in Passes /\ db.passes[q].state = "active"
    BY DEF LastActive
  <2>2. \A q \in D : RecordHeights(rec, q, b) # {}
    BY <2>1 DEF AllAgree, Agrees
  <2>3. \A q \in D : db.passes[q] \in Rows
    BY <1>0, <2>1, RowFields
  <2> QED
    BY <2>2, <2>3
<1> HIDE DEF D
<1>5. /\ EnergyStep(rec1, rec, b)
      /\ \A q \in D : HasKind(rec1, q, b, "dormant")
      /\ \A q \in Passes \ D : rec1[q] = rec[q]
  BY <1>3, <1>4, AfterDormantOK
<1> HIDE DEF rec1
<1>6. RecordsOK(rec1) /\ \A q \in Passes : PassStep(rec1, rec, q, b)
  BY <1>5 DEF EnergyStep
<1>7. /\ EnergyStep(rec2, rec1, b)
      /\ \A q \in C : \E r \in EnergyRecords : /\ LastIs(rec2, q, b, r)
                                               /\ r.state = "consumed" /\ r.energy = 0
      /\ \A q \in Passes \ C : rec2[q] = rec1[q]
  BY <1>0, <1>3, <1>6, AfterConsumedOK
<1> HIDE DEF rec2
<1>8. RecordsOK(rec2) /\ \A q \in Passes : PassStep(rec2, rec1, q, b)
  BY <1>7 DEF EnergyStep
<1>9. inh \in Nat
  <2>1. ASSUME NEW q \in C PROVE RecordHeights(rec1, q, b) # {}
    <3>1. CASE q \in D
      BY <3>1, <1>5 DEF HasKind, LastIs
    <3>2. CASE q \notin D
      <4>1. db.passes[q].state = "dormant" /\ q \in Passes
        BY <1>3, <3>2
      <4>2. RecordHeights(rec, q, b) # {}
        BY <4>1 DEF AllAgree, Agrees
      <4>3. rec1[q] = rec[q]
        BY <1>5, <3>2, <4>1
      <4> QED
        BY <4>2, <4>3 DEF RecordHeights
    <3> QED
      BY <3>1, <3>2
  <2> QED
    BY <1>3, <1>6, <2>1, InheritedNat
<1> HIDE DEF inh
<1>10. /\ RecordsOK(rec3)
       /\ PassStep(rec3, rec2, e.pass, b)
       /\ \E r \in EnergyRecords : LastIs(rec3, e.pass, b, r) /\ r.state = "active" /\ r.owner = e.owner
       /\ \A q \in Passes \ {e.pass} : rec3[q] = rec2[q]
  BY <1>0, <1>8, <1>9, NewPassStep
<1> HIDE DEF rec3
<1>11. ASSUME NEW q \in Passes PROVE PassStep(rec3, rec, q, b)
  <2>1. PassStep(rec3, rec2, q, b)
    <3>1. CASE q = e.pass
      BY <1>10, <3>1
    <3>2. CASE q # e.pass
      BY <1>8, <1>10, <3>2, NoStep, RecordsByPass
    <3> QED
      BY <3>1, <3>2
  <2>2. PassStep(rec3, rec1, q, b)
    BY <1>8, <2>1, PassStepTransitive
  <2> QED
    BY <1>6, <2>2, PassStepTransitive
<1>12. ASSUME NEW q \in Passes PROVE Agrees(new.passes[q], rec3, q, b)
  <2>1. CASE q = e.pass
    <3>1. ActiveRow(e.owner, b).state = "active" /\ ActiveRow(e.owner, b).owner = e.owner
      BY DEF ActiveRow
    <3> QED
      BY <1>3, <1>10, <2>1, <3>1, AgreesLast
  <2>2. CASE q \in C
    <3>1. rec3[q] = rec2[q]
      BY <1>3, <1>10, <2>2
    <3>2. PICK r \in EnergyRecords : LastIs(rec2, q, b, r) /\ r.state = "consumed" /\ r.energy = 0
      BY <1>7, <2>2
    <3>3. db.passes[q] \in Rows
      <4>1. q \in D => db.passes[q] \in Rows
        BY <1>4
      <4>2. db.passes[q].state = "dormant" => db.passes[q] \in Rows
        BY <1>0, RowFields
      <4> QED
        BY <1>3, <2>2, <4>1, <4>2
    <3>4. new.passes[q].state = "consumed"
      BY <1>3, <2>2, <3>3, SetStateRow DEF States
    <3>5. Agrees(new.passes[q], rec2, q, b)
      BY <3>2, <3>4, AgreesLast
    <3> QED
      BY <3>1, <3>5, AgreesCopy
  <2>3. CASE q \in D \ C
    <3>1. rec3[q] = rec1[q]
      BY <1>3, <1>7, <1>10, <2>3
    <3>2. PICK r \in EnergyRecords : LastIs(rec1, q, b, r) /\ r.state = "dormant"
      BY <1>5, <2>3 DEF HasKind
    <3>3. new.passes[q].state = "dormant"
      BY <1>3, <1>4, <2>3, SetStateRow DEF States
    <3>4. Agrees(new.passes[q], rec1, q, b)
      BY <3>2, <3>3, AgreesLast
    <3> QED
      BY <3>1, <3>4, AgreesCopy
  <2>4. CASE q \notin C /\ q \notin D /\ q # e.pass
    <3>1. rec3[q] = rec[q] /\ new.passes[q] = db.passes[q]
      BY <1>3, <1>5, <1>7, <1>10, <2>4
    <3>2. Agrees(db.passes[q], rec, q, b)
      BY DEF AllAgree
    <3> QED
      BY <3>1, <3>2, AgreesCopy
  <2> QED
    BY <2>1, <2>2, <2>3, <2>4
<1>13. EnergyStep(rec3, rec, b) /\ AllAgree(new, rec3, b)
  BY <1>10, <1>11, <1>12 DEF EnergyStep, AllAgree
<1> QED
  BY <1>1, <1>13 DEF new

\* Every event leaves the two stores in agreement.
LEMMA ExecuteEnergy ==
    ASSUME NEW db, NEW rec, NEW b \in Heights, TablesOK(db, b), OneActiveNow(db),
           RecordsOK(rec), AllAgree(db, rec, b), NEW n \in Nat, NEW bal \in BalanceTables(n),
           NEW e \in ProcessEvents, ~RowRefused(db, e), NeedsBalance(db, rec, e, b) => b <= n
    PROVE  /\ EnergyStep(execute(db, rec, bal, e, b).rec, rec, b)
           /\ AllAgree(execute(db, rec, bal, e, b).db, execute(db, rec, bal, e, b).rec, b)
<1>1. CASE e \in MintEvents
  <2>1. e.op = "mint" /\ db.passes[e.pass] = NoRow
    BY <1>1 DEF MintEvents, RowRefused
  <2>2. execute(db, rec, bal, e, b) = on_mint_pass(db, rec, bal, e, b)
    BY <2>1 DEF execute
  <2>3. b <= n
    BY <2>1 DEF NeedsBalance
  <2> QED
    BY <1>1, <2>1, <2>2, <2>3, MintEnergy
<1>2. CASE e \in MoveItems
  <2>1. e.op = "move" /\ e.pass \in Passes /\ e.to \in Owners \cup {Nobody} /\ e.sat \in Nat
    BY <1>2 DEF MoveItems
  <2>2. db.passes[e.pass] # NoRow
    BY <2>1 DEF RowRefused
  <2>a. db.passes[e.pass].state = "active" => b <= n \/ rec[e.pass][b] # NoRecord
    BY DEF NeedsBalance
  <2>3. CASE e.to = Nobody
    <3>1. execute(db, rec, bal, e, b) = on_pass_burned(db, rec, bal, e, b)
      BY <2>1, <2>3 DEF execute
    <3> QED
      BY <2>1, <2>2, <2>a, <3>1, BurnEnergy
  <2>4. CASE e.to # Nobody
    <3>1. execute(db, rec, bal, e, b) = on_pass_transfer(db, rec, bal, e, b)
      BY <2>1, <2>4 DEF execute
    <3> QED
      BY <2>1, <2>2, <2>a, <2>4, <3>1, TransferEnergy
  <2> QED
    BY <2>3, <2>4
<1> QED
  BY <1>1, <1>2 DEF ProcessEvents, MoveItems

-----------------------------------------------------------------------------
(* How much energy the passes hold, and what a block can add to it *)

\* One more block adds at most what one block earns.
LEMMA GrowthStep ==
    \A balance, x \in Nat :
        /\ calc_growth_delta(balance, x + 1) <= calc_growth_delta(balance, x) + calc_growth_delta(balance, 1)
        /\ calc_growth_delta(balance, 0) = 0
<1> SUFFICES ASSUME NEW balance \in Nat, NEW x \in Nat
             PROVE  /\ calc_growth_delta(balance, x + 1)
                         <= calc_growth_delta(balance, x) + calc_growth_delta(balance, 1)
                    /\ calc_growth_delta(balance, 0) = 0
  OBVIOUS
<1>1. PICK m \in Nat : m = balance * GrowthMultiplier
  BY PassEnergyAssumption, ProductNat
<1>2. PICK y \in Nat : y = m * x
  BY ProductNat
<1>3. m * (x + 1) = y + m /\ m * 1 = m /\ m * 0 = 0
  BY <1>2
<1> QED
  BY <1>1, <1>2, <1>3, PassEnergyAssumption DEF calc_growth_delta, saturating_u128_to_u64

LEMMA IncrementStep ==
    ASSUME NEW balance \in Nat, NEW active \in Nat, NEW from \in Nat, NEW to \in Nat, from <= to
    PROVE  calc_incremental_growth(balance, active, from, to + 1)
             <= calc_incremental_growth(balance, active, from, to) + calc_growth_delta(balance, 1)
<1>1. PICK x \in Nat : x = SatSub(to, active)
  BY SatSubNat
<1>2. PICK y \in Nat : y = SatSub(to + 1, active)
  BY SatSubNat
<1>3. PICK z \in Nat : z = SatSub(from, active)
  BY SatSubNat
<1>4. y = x + 1 \/ (y = 0 /\ x = 0)
  BY <1>1, <1>2 DEF SatSub
<1>5. to = from => x = z
  BY <1>1, <1>3
<1>6. PICK gx \in Nat : gx = calc_growth_delta(balance, x)
  BY GrowthNat
<1>7. PICK gy \in Nat : gy = calc_growth_delta(balance, y)
  BY GrowthNat
<1>8. PICK gz \in Nat : gz = calc_growth_delta(balance, z)
  BY GrowthNat
<1>9. PICK g1 \in Nat : g1 = calc_growth_delta(balance, 1)
  BY GrowthNat
<1>10. gy <= gx + g1
  <2>1. CASE y = x + 1
    BY <2>1, <1>6, <1>7, <1>9, GrowthStep
  <2>2. CASE y = 0 /\ x = 0
    BY <2>2, <1>6, <1>7, <1>9
  <2> QED
    BY <1>4, <2>1, <2>2
<1>11. calc_incremental_growth(balance, active, from, to + 1) = SatSub(gy, gz)
  BY <1>2, <1>3, <1>7, <1>8 DEF calc_incremental_growth
<1>12. calc_incremental_growth(balance, active, from, to) = IF to <= from THEN 0 ELSE SatSub(gx, gz)
  BY <1>1, <1>3, <1>6, <1>8 DEF calc_incremental_growth
<1>13. to = from => gx = gz
  BY <1>5, <1>6, <1>8
<1> QED
  BY <1>9, <1>10, <1>11, <1>12, <1>13 DEF SatSub

\* The energy of a pass without a record at h + 1 grows from h to h + 1 by at most what
\* the balance of its record earns in a block, and only if it is active.
LEMMA EnergyGrows ==
    ASSUME NEW rec, RecordsOK(rec), NEW p \in Passes, NEW h \in Heights, h + 1 \in Heights,
           RecordHeights(rec, p, h) # {}, rec[p][h + 1] = NoRecord
    PROVE  LET r == LastRecord(rec, p, h)
           IN  get_pass_energy(rec, p, h + 1) <=
                 get_pass_energy(rec, p, h)
                   + (IF r.state = "active" THEN calc_growth_delta(r.balance, 1) ELSE 0)
<1>1. PICK r : r = LastRecord(rec, p, h)
  OBVIOUS
<1>2. r \in EnergyRecords /\ r.height <= h
  BY <1>1, LastRecordType
<1>3. /\ r.height \in Nat /\ r.active \in Nat /\ r.balance \in Nat /\ r.energy \in Nat /\ h \in Nat
      /\ h + 1 \in Nat
  BY <1>2, RecordFields DEF Heights
<1>4. LastRecord(rec, p, h + 1) = r
  <2>1. \A k \in (h + 1)..(h + 1) : rec[p][k] = NoRecord
    BY <1>3
  <2>2. h <= h + 1
    BY <1>3
  <2> QED
    BY <1>1, <2>1, <2>2, LastRecordFlat
<1>5. PICK y \in Nat : y = calc_incremental_growth(r.balance, r.active, r.height, h)
  BY <1>3, IncrementalGrowthNat
<1>6. PICK x \in Nat : x = calc_incremental_growth(r.balance, r.active, r.height, h + 1)
  BY <1>3, IncrementalGrowthNat
<1>7. PICK g \in Nat : g = calc_growth_delta(r.balance, 1)
  BY <1>3, GrowthNat
<1>8. x <= y + g
  BY <1>2, <1>3, <1>5, <1>6, <1>7, IncrementStep
<1>9. h = r.height => y = 0
  BY <1>3, <1>5 DEF calc_incremental_growth
<1>10. get_pass_energy(rec, p, h + 1) = IF r.state # "active" THEN r.energy ELSE SatAdd(r.energy, x)
  BY <1>2, <1>3, <1>4, <1>6 DEF get_pass_energy
<1>11. get_pass_energy(rec, p, h) =
         IF r.state # "active" \/ h = r.height THEN r.energy ELSE SatAdd(r.energy, y)
  BY <1>1, <1>2, <1>3, <1>5 DEF get_pass_energy
<1>12. SatAdd(r.energy, x) <= SatAdd(r.energy, y) + g /\ (x <= g => SatAdd(r.energy, x) <= r.energy + g)
  BY <1>3, <1>8, PassEnergyAssumption DEF SatAdd, saturating_u128_to_u64
<1>13. get_pass_energy(rec, p, h + 1) <=
         get_pass_energy(rec, p, h) + (IF r.state = "active" THEN g ELSE 0)
  <2>1. CASE r.state # "active"
    BY <2>1, <1>3, <1>10, <1>11
  <2>2. CASE r.state = "active" /\ h = r.height
    BY <2>2, <1>8, <1>9, <1>10, <1>11, <1>12
  <2>3. CASE r.state = "active" /\ h # r.height
    BY <2>3, <1>10, <1>11, <1>12
  <2> QED
    BY <2>1, <2>2, <2>3
<1> QED
  BY <1>1, <1>7, <1>13

\* The last record has the balance of its owner: at every height from the record to h ...
BalanceHeld(rec, bal, p, h) ==
    LET r == LastRecord(rec, p, h) IN \A k \in r.height..h : bal[k][r.owner] = r.balance

\* ... or, while block b is open and its balances are not yet settled, up to b - 1.
BalanceHeldSoFar(rec, bal, p, b) ==
    LET r == LastRecord(rec, p, b)
    IN  IF r.height = b THEN r.balance = bal[b][r.owner]
        ELSE \A k \in r.height..(b - 1) : bal[k][r.owner] = r.balance

PassOnlyAt(new, rec, p, b) == \A k \in Heights : k # b => new[p][k] = rec[p][k]

\* An applied balance change is a record at b that holds no more energy than the last
\* record was worth at b.
LEMMA AppliedChange ==
    ASSUME NEW rec, RecordsOK(rec), NEW p \in Passes, NEW b \in Heights, RecordHeights(rec, p, b) # {},
           LastRecord(rec, p, b).state = "active", LastRecord(rec, p, b).height < b,
           NEW balance \in Nat, NEW delta \in Int, NEW x,
           x = ApplyChange(LastRecord(rec, p, b), b, balance, delta)
    PROVE  /\ x \in EnergyRecords /\ x.height = b /\ x.state = "active"
           /\ x.owner = LastRecord(rec, p, b).owner /\ x.balance = balance
           /\ x.energy <= get_pass_energy(rec, p, b)
<1>1. PICK r : r = LastRecord(rec, p, b)
  OBVIOUS
<1>2. r \in EnergyRecords /\ r.height < b /\ r.state = "active" /\ r.height \in Nat /\ b \in Nat
  BY <1>1, LastRecordType, RecordFields DEF Heights
<1>3. x \in EnergyRecords /\ x.height = b /\ x.state = "active" /\ x.owner = r.owner
  <2>1. ChangedAt(ApplyChange(r, b, balance, delta), r, b)
    BY <1>2, ApplyChangeKind
  <2>2. ChangedAt(x, r, b)
    BY <1>1, <2>1
  <2> QED
    BY <2>2, <1>2 DEF ChangedAt
<1>4. /\ r.active \in Nat /\ r.balance \in Nat /\ r.energy \in Nat
  BY <1>2, RecordFields
<1>5. PICK i \in Nat : i = calc_incremental_growth(r.balance, r.active, r.height, b)
  BY <1>2, <1>4, IncrementalGrowthNat
<1>6. PICK g \in Nat : g = SatAdd(r.energy, i)
  BY <1>4, SatAddNat
<1>7. PICK c \in Nat : c = calc_penalty_from_delta(delta)
  BY PenaltyNat
<1>8. x.balance = balance /\ x.energy = SatSub(g, c)
  <2>1. x = [r EXCEPT !.height = b, !.active = IF delta < 0 THEN b ELSE r.active,
                      !.balance = balance, !.delta = delta, !.energy = SatSub(g, c)]
    BY <1>1, <1>5, <1>6, <1>7 DEF ApplyChange
  <2> QED
    BY <2>1, <1>2 DEF EnergyRecords
<1>9. get_pass_energy(rec, p, b) = g
  BY <1>1, <1>2, <1>5, <1>6 DEF get_pass_energy
<1>10. SatSub(g, c) <= g
  BY DEF SatSub
<1> QED
  BY <1>1, <1>3, <1>8, <1>9, <1>10

\* A record put at b is the pass's record at b, and the only one that changes.
LEMMA PutAt ==
    ASSUME NEW rec, RecordsOK(rec), NEW p \in Passes, NEW b \in Heights, NEW x \in EnergyRecords, x.height = b
    PROVE  /\ LastIs(PutRecord(rec, p, x), p, b, x)
           /\ get_pass_energy(PutRecord(rec, p, x), p, b) = x.energy
           /\ \A q \in Passes : PassOnlyAt(PutRecord(rec, p, x), rec, q, b)
<1>1. LastIs(PutRecord(rec, p, x), p, b, x)
  BY PutRecordOK
<1>2. b <= x.height
  BY DEF Heights
<1>3. get_pass_energy(PutRecord(rec, p, x), p, b) = x.energy
  BY <1>1, <1>2 DEF LastIs, get_pass_energy
<1>4. \A q \in Passes, k \in Heights : k # b => PutRecord(rec, p, x)[q][k] = rec[q][k]
  BY DEF PutRecord, RecordsOK, RecordTables
<1> QED
  BY <1>1, <1>3, <1>4 DEF PassOnlyAt

NoDeltas(bal, o, lo, j) == \A k \in (lo + 1)..j : DeltaAt(bal, o, k) = 0

\* While the balance does not change the walk over the changes returns the record.
LEMMA NoChanges ==
    ASSUME NEW r, NEW bal, NEW lo \in Nat, NEW h \in Nat, NEW j \in Nat, j <= h, lo <= j,
           NEW f, ChangesFrom(f, r, bal, lo, h), NoDeltas(bal, r.owner, lo, j)
    PROVE  f[j] = r
<1> DEFINE T == {k \in lo..j : f[k] # r}
<1>1. \A k \in lo..h : f[k] = IF k = lo THEN r ELSE ChangeStep(f[k - 1], bal, k)
  BY DEF ChangesFrom
<1>2. SUFFICES ASSUME T # {} PROVE FALSE
  OBVIOUS
<1>3. T \subseteq Nat
  OBVIOUS
<1>4. PICK m \in T : \A k \in T : m <= k
  BY <1>2, <1>3, LeastElement
<1>5. m \in lo..j /\ f[m] # r
  BY <1>4
<1>6. m # lo
  BY <1>1, <1>5
<1>7. m - 1 \in lo..j /\ ~(m <= m - 1) /\ m \in (lo + 1)..j /\ m \in lo..h
  BY <1>5, <1>6
<1>8. f[m - 1] = r
  <2>1. m - 1 \notin T
    BY <1>4, <1>7
  <2> QED
    BY <2>1, <1>7
<1>9. f[m] = ChangeStep(r, bal, m)
  BY <1>1, <1>6, <1>7, <1>8
<1>10. DeltaAt(bal, r.owner, m) = 0
  BY <1>7 DEF NoDeltas
<1> QED
  BY <1>5, <1>9, <1>10 DEF ChangeStep

\* With the balances known up to the block before, the update has one change to apply at most.
LEMMA UpdateIsOneChange ==
    ASSUME NEW rec, RecordsOK(rec), NEW p \in Passes, NEW b \in Heights, RecordHeights(rec, p, b) # {},
           NEW n \in Nat, NEW bal \in BalanceTables(n), b <= n,
           LastRecord(rec, p, b).state = "active", BalanceHeldSoFar(rec, bal, p, b)
    PROVE  LET r == LastRecord(rec, p, b)
               d == DeltaAt(bal, r.owner, b)
           IN  IF r.height = b \/ d = 0 THEN update_pass_energy(rec, bal, p, b) = rec
               ELSE update_pass_energy(rec, bal, p, b) = PutRecord(rec, p, ApplyChange(r, b, bal[b][r.owner], d))
<1> DEFINE r  == LastRecord(rec, p, b)
           lo == r.height
           d  == DeltaAt(bal, r.owner, b)
           f  == CHOOSE g : ChangesFrom(g, r, bal, lo, b)
           F  == [k \in Heights |-> IF k \in (lo + 1)..b /\ DeltaAt(bal, r.owner, k) # 0
                                    THEN f[k] ELSE rec[p][k]]
           new == update_pass_energy(rec, bal, p, b)
<1>1. r \in EnergyRecords /\ lo <= b
  BY LastRecordType
<1>2. lo \in Nat /\ lo \in Heights /\ b \in Nat /\ r.owner \in Owners
  BY <1>1, RecordFields DEF Heights
<1>3. new = [rec EXCEPT ![p] = F]
  BY DEF update_pass_energy, ChangesFrom
<1>4. ChangesFrom(f, r, bal, lo, b)
  BY <1>2, ChangesExist
<1>5. rec \in [Passes -> [Heights -> EnergyRecords \cup {NoRecord}]]
  BY DEF RecordsOK, RecordTables
<1>6. lo < b => \A k \in lo..(b - 1) : bal[k][r.owner] = r.balance
  BY <1>2 DEF BalanceHeldSoFar
<1> HIDE DEF r, f
<1>7. \A k \in (lo + 1)..(b - 1) : DeltaAt(bal, r.owner, k) = 0
  <2> SUFFICES ASSUME NEW k \in (lo + 1)..(b - 1) PROVE DeltaAt(bal, r.owner, k) = 0
    OBVIOUS
  <2>1. k \in lo..(b - 1) /\ k - 1 \in lo..(b - 1) /\ lo < b /\ k \in 0..n
    BY <1>2
  <2>2. bal[k][r.owner] = r.balance /\ bal[k - 1][r.owner] = r.balance
    BY <1>6, <2>1
  <2>3. r.balance \in Nat
    BY <1>1, RecordFields
  <2> QED
    BY <2>2, <2>3 DEF DeltaAt
<1>8. CASE lo = b \/ d = 0
  <2>1. \A k \in Heights : F[k] = rec[p][k]
    <3> SUFFICES ASSUME NEW k \in Heights, k \in (lo + 1)..b, DeltaAt(bal, r.owner, k) # 0 PROVE FALSE
      OBVIOUS
    <3>1. k # b
      BY <1>8, <1>2
    <3>2. k \in (lo + 1)..(b - 1)
      BY <1>2, <3>1
    <3> QED
      BY <3>2, <1>7
  <2>2. F = rec[p]
    BY <2>1, <1>5
  <2> HIDE DEF F
  <2>3. new = rec
    BY <2>2, <1>3, <1>5
  <2> QED
    BY <2>3, <1>8 DEF r
<1>9. CASE lo # b /\ d # 0
  <2>1. lo <= b - 1 /\ b - 1 \in Nat /\ b - 1 <= b /\ b \in lo..b
    BY <1>1, <1>2, <1>9
  <2>2. f[b - 1] = r
    <3>1. PICK j : j = b - 1
      OBVIOUS
    <3>2. j \in Nat /\ j <= b /\ lo <= j /\ \A k \in (lo + 1)..j : DeltaAt(bal, r.owner, k) = 0
      BY <3>1, <2>1, <1>7
    <3>3. f[j] = r
      <4> HIDE DEF lo
      <4>1. lo \in Nat /\ b \in Nat /\ j \in Nat /\ j <= b /\ lo <= j
        BY <1>2, <3>2
      <4>2. NoDeltas(bal, r.owner, lo, j)
        BY <3>2 DEF NoDeltas
      <4>3. ChangesFrom(f, r, bal, lo, b)
        BY <1>4
      <4> QED
        BY <4>1, <4>2, <4>3, NoChanges
    <3> QED
      BY <3>1, <3>3
  <2>3. f[b] = ChangeStep(f[b - 1], bal, b)
    BY <1>4, <1>9, <2>1 DEF ChangesFrom
  <2> DEFINE x == ApplyChange(r, b, bal[b][r.owner], d)
  <2>4. f[b] = x
    BY <2>2, <2>3, <1>9 DEF ChangeStep
  <2>5. bal[b][r.owner] \in Nat /\ d \in Int
    <3>1. b \in 1..n
      BY <2>1, <1>2
    <3> QED
      BY <3>1, <1>2, DeltaInt
  <2> HIDE DEF d
  <2>6. x \in EnergyRecords /\ x.height = b
    BY <1>1, <2>5, ApplyChangeType
  <2>7. \A k \in Heights : F[k] = IF k = b THEN x ELSE rec[p][k]
    <3> SUFFICES ASSUME NEW k \in Heights PROVE F[k] = IF k = b THEN x ELSE rec[p][k]
      OBVIOUS
    <3>1. CASE k = b
      BY <3>1, <1>9, <1>2, <2>1, <2>4 DEF d
    <3>2. CASE k # b /\ k \in (lo + 1)..b
      <4>1. k \in (lo + 1)..(b - 1)
        BY <3>2, <1>2
      <4> QED
        BY <4>1, <3>2, <1>7
    <3>3. CASE k # b /\ k \notin (lo + 1)..b
      BY <3>3
    <3> QED
      BY <3>1, <3>2, <3>3
  <2>8. F = [k \in Heights |-> F[k]]
    OBVIOUS
  <2> HIDE DEF F, x
  <2>9. F = [rec[p] EXCEPT ![b] = x]
    BY <2>7, <2>8, <1>5
  <2>10. new = PutRecord(rec, p, x)
    BY <1>3, <1>5, <2>6, <2>9 DEF PutRecord
  <2> QED
    BY <2>10, <1>9 DEF r, d, x
<1> QED
  BY <1>8, <1>9

\* What an operation at b that creates no energy leaves of a pass.
WorthKept(new, rec, p, b) ==
    /\ get_pass_energy(new, p, b) \in Nat
    /\ get_pass_energy(new, p, b) <= get_pass_energy(rec, p, b)
    /\ \A q \in Passes : PassOnlyAt(new, rec, q, b)

LEMMA SameWorth ==
    ASSUME NEW rec, RecordsOK(rec), NEW p \in Passes, NEW b \in Heights, RecordHeights(rec, p, b) # {}
    PROVE  WorthKept(rec, rec, p, b)
<1>1. get_pass_energy(rec, p, b) \in Nat
  BY EnergyNat
<1> QED
  BY <1>1 DEF WorthKept, PassOnlyAt

LEMMA ChangeWorth ==
    ASSUME NEW rec, RecordsOK(rec), NEW p \in Passes, NEW b \in Heights, RecordHeights(rec, p, b) # {},
           LastRecord(rec, p, b).state = "active", LastRecord(rec, p, b).height < b,
           NEW balance \in Nat, NEW delta \in Int, NEW new,
           new = PutRecord(rec, p, ApplyChange(LastRecord(rec, p, b), b, balance, delta))
    PROVE  /\ WorthKept(new, rec, p, b)
           /\ RecordHeights(new, p, b) # {}
           /\ LastRecord(new, p, b).height = b
           /\ LastRecord(new, p, b).owner = LastRecord(rec, p, b).owner
           /\ LastRecord(new, p, b).balance = balance
<1>1. PICK x : x = ApplyChange(LastRecord(rec, p, b), b, balance, delta)
  OBVIOUS
<1>2. /\ x \in EnergyRecords /\ x.height = b
      /\ x.owner = LastRecord(rec, p, b).owner /\ x.balance = balance
      /\ x.energy <= get_pass_energy(rec, p, b)
  BY <1>1, AppliedChange
<1>3. new = PutRecord(rec, p, x)
  BY <1>1
<1>4. /\ LastIs(PutRecord(rec, p, x), p, b, x)
      /\ get_pass_energy(PutRecord(rec, p, x), p, b) = x.energy
      /\ \A q \in Passes : PassOnlyAt(PutRecord(rec, p, x), rec, q, b)
  BY <1>2, PutAt
<1>5. x.energy \in Nat
  BY <1>2, RecordFields
<1> QED
  BY <1>2, <1>3, <1>4, <1>5 DEF WorthKept, LastIs

LEMMA UpdateWorth ==
    ASSUME NEW rec, RecordsOK(rec), NEW p \in Passes, NEW b \in Heights, RecordHeights(rec, p, b) # {},
           NEW n \in Nat, NEW bal \in BalanceTables(n), b <= n,
           LastRecord(rec, p, b).state = "active", BalanceHeldSoFar(rec, bal, p, b)
    PROVE  /\ WorthKept(update_pass_energy(rec, bal, p, b), rec, p, b)
           /\ BalanceHeldSoFar(update_pass_energy(rec, bal, p, b), bal, p, b)
<1>1. PICK r : r = LastRecord(rec, p, b)
  OBVIOUS
<1>2. PICK d : d = DeltaAt(bal, r.owner, b)
  OBVIOUS
<1>3. PICK new : new = update_pass_energy(rec, bal, p, b)
  OBVIOUS
<1>4. IF r.height = b \/ d = 0 THEN new = rec
      ELSE new = PutRecord(rec, p, ApplyChange(r, b, bal[b][r.owner], d))
  BY <1>1, <1>2, <1>3, UpdateIsOneChange
<1>5. r \in EnergyRecords /\ r.height <= b /\ r.height \in Nat /\ r.owner \in Owners /\ b \in Nat
  BY <1>1, LastRecordType, RecordFields DEF Heights
<1>6. CASE r.height = b \/ d = 0
  <2>1. new = rec
    BY <1>4, <1>6
  <2> QED
    BY <2>1, <1>3, SameWorth
<1>7. CASE r.height # b /\ d # 0
  <2>1. r.height < b /\ b \in 1..n
    BY <1>5, <1>7
  <2>2. bal[b][r.owner] \in Nat /\ d \in Int
    BY <2>1, <1>2, <1>5, DeltaInt
  <2>3. PICK bb \in Nat : bb = bal[b][r.owner]
    BY <2>2
  <2>4. new = PutRecord(rec, p, ApplyChange(LastRecord(rec, p, b), b, bb, d))
    BY <1>1, <1>4, <1>7, <2>3
  <2>5. LastRecord(rec, p, b).height < b
    BY <2>1, <1>1
  <2>6. /\ WorthKept(new, rec, p, b)
        /\ LastRecord(new, p, b).height = b
        /\ LastRecord(new, p, b).owner = LastRecord(rec, p, b).owner
        /\ LastRecord(new, p, b).balance = bb
    BY <2>2, <2>4, <2>5, ChangeWorth
  <2> QED
    BY <2>6, <2>3, <1>1, <1>3 DEF BalanceHeldSoFar
<1> QED
  BY <1>6, <1>7

LEMMA DormantWorth ==
    ASSUME NEW rec, RecordsOK(rec), NEW p \in Passes, NEW b \in Heights, RecordHeights(rec, p, b) # {},
           NEW n \in Nat, NEW bal \in BalanceTables(n), b <= n,
           LastRecord(rec, p, b).state = "active", BalanceHeldSoFar(rec, bal, p, b)
    PROVE  WorthKept(on_pass_dormant(rec, bal, p, b), rec, p, b)
<1>1. PICK settled : settled = update_pass_energy(rec, bal, p, b)
  OBVIOUS
<1>2. RecordsOK(settled) /\ SameKind(settled, rec, p, b)
  BY <1>1, UpdateStep
<1>3. WorthKept(settled, rec, p, b)
  BY <1>1, UpdateWorth
<1>4. RecordHeights(settled, p, b) # {}
  BY <1>2 DEF SameKind
<1>5. PICK last : last = LastRecord(settled, p, b)
  OBVIOUS
<1>6. last \in EnergyRecords
  BY <1>2, <1>4, <1>5, LastRecordType
<1>7. PICK w \in Nat : w = get_pass_energy(settled, p, b)
  BY <1>3 DEF WorthKept
<1>d. PICK d \in Int : d = IF last.height = b THEN last.delta ELSE 0
  BY <1>6, RecordFields
<1>8. PICK x : x = [last EXCEPT !.height = b, !.state = "dormant", !.delta = d, !.energy = w]
  OBVIOUS
<1>9. x \in EnergyRecords /\ x.height = b /\ x.energy = w
  BY <1>6, <1>7, <1>8 DEF EnergyRecords
<1>10. on_pass_dormant(rec, bal, p, b) = PutRecord(settled, p, x)
  BY <1>1, <1>5, <1>7, <1>8, <1>d DEF on_pass_dormant
<1>11. /\ get_pass_energy(PutRecord(settled, p, x), p, b) = w
       /\ \A q \in Passes : PassOnlyAt(PutRecord(settled, p, x), settled, q, b)
  BY <1>2, <1>9, PutAt
<1> QED
  BY <1>3, <1>7, <1>10, <1>11 DEF WorthKept, PassOnlyAt

LEMMA SettleWorth ==
    ASSUME NEW rec, RecordsOK(rec), NEW p \in Passes, NEW b \in Heights, RecordHeights(rec, p, b) # {},
           NEW n \in Nat, NEW bal \in BalanceTables(n), b <= n, b >= 1, NEW o \in Owners,
           LastRecord(rec, p, b).state = "active", LastRecord(rec, p, b).owner = o,
           BalanceHeldSoFar(rec, bal, p, b), NEW new,
           new = apply_active_balance_change(rec, p, b, bal[b][o], DeltaAt(bal, o, b))
    PROVE  WorthKept(new, rec, p, b) /\ BalanceHeld(new, bal, p, b)
<1>1. PICK r : r = LastRecord(rec, p, b)
  OBVIOUS
<1>2. /\ r \in EnergyRecords /\ r.height <= b /\ r.height \in Nat /\ r.owner = o /\ b \in Nat
      /\ r.balance \in Nat
  BY <1>1, LastRecordType, RecordFields DEF Heights
<1>3. PICK d \in Int : d = DeltaAt(bal, o, b)
  BY <1>2, DeltaInt
<1>4. PICK bb \in Nat : bb = bal[b][o]
  BY <1>2, DeltaInt
<1>5. new = IF d = 0 \/ r.height = b THEN rec
            ELSE PutRecord(rec, p, ApplyChange(r, b, bb, d))
  BY <1>1, <1>3, <1>4 DEF apply_active_balance_change
<1>6. CASE r.height = b
  <2>1. new = rec /\ r.balance = bb
    BY <1>1, <1>2, <1>4, <1>5, <1>6 DEF BalanceHeldSoFar
  <2>2. \A k \in r.height..b : bal[k][o] = r.balance
    BY <2>1, <1>2, <1>4, <1>6
  <2> QED
    BY <2>1, <2>2, <1>1, <1>2, SameWorth DEF BalanceHeld
<1>7. CASE r.height # b /\ d = 0
  <2>1. new = rec /\ \A k \in r.height..(b - 1) : bal[k][o] = r.balance
    BY <1>1, <1>2, <1>5, <1>7 DEF BalanceHeldSoFar
  <2>2. bal[b - 1][o] = r.balance
    BY <2>1, <1>2, <1>7
  <2>3. bal[b][o] = r.balance
    BY <2>2, <1>2, <1>3, <1>4, <1>7 DEF DeltaAt
  <2>4. \A k \in r.height..b : bal[k][o] = r.balance
    BY <2>1, <2>3, <1>2
  <2> QED
    BY <2>1, <2>4, <1>1, <1>2, SameWorth DEF BalanceHeld
<1>8. CASE r.height # b /\ d # 0
  <2>1. LastRecord(rec, p, b).height < b
    BY <1>1, <1>2, <1>8
  <2>2. new = PutRecord(rec, p, ApplyChange(LastRecord(rec, p, b), b, bb, d))
    BY <1>1, <1>5, <1>8
  <2>3. /\ WorthKept(new, rec, p, b)
        /\ LastRecord(new, p, b).height = b
        /\ LastRecord(new, p, b).owner = LastRecord(rec, p, b).owner
        /\ LastRecord(new, p, b).balance = bb
    BY <2>1, <2>2, ChangeWorth
  <2>4. \A k \in b..b : k = b
    BY <1>2
  <2> QED
    BY <2>3, <2>4, <1>4 DEF BalanceHeld
<1> QED
  BY <1>6, <1>7, <1>8

\* A pass that holds energy and can still be transferred.
Live(row) == row.state \in {"active", "dormant"}

\* The energy each live pass is worth at h, and all of them together.
Shares(rows, rec, h) == [p \in Passes |-> IF Live(rows[p]) THEN get_pass_energy(rec, p, h) ELSE 0]

Held(rows, rec, h) == SumFunctionOnSet(Shares(rows, rec, h), Passes)

AllHeld(rows, rec, bal, h) ==
    \A p \in Passes : rows[p].state = "active" => BalanceHeld(rec, bal, p, h)

AllHeldSoFar(rows, rec, bal, b) ==
    \A p \in Passes : rows[p].state = "active" => BalanceHeldSoFar(rec, bal, p, b)

OnlyAt(new, rec, b) == \A p \in Passes : PassOnlyAt(new, rec, p, b)

\* An operation of block b that writes records of b only and creates no energy.
CreatesNone(newRows, new, rows, rec, bal, b) ==
    /\ OnlyAt(new, rec, b)
    /\ AllHeldSoFar(newRows, new, bal, b)
    /\ Held(newRows, new, b) <= Held(rows, rec, b)

LEMMA SharesNat ==
    ASSUME NEW db, NEW rec, NEW b \in Heights, RecordsOK(rec), AllAgree(db, rec, b)
    PROVE  \A p \in Passes : Shares(db.passes, rec, b)[p] \in Nat
<1> SUFFICES ASSUME NEW p \in Passes PROVE Shares(db.passes, rec, b)[p] \in Nat
  OBVIOUS
<1>1. Live(db.passes[p]) => RecordHeights(rec, p, b) # {}
  BY DEF AllAgree, Agrees, Live
<1>2. Live(db.passes[p]) => get_pass_energy(rec, p, b) \in Nat
  BY <1>1, EnergyNat
<1> QED
  BY <1>2 DEF Shares

LEMMA HeldFalls ==
    ASSUME NEW rows, NEW rec, NEW new, NEW newRows, NEW b, NEW h,
           \A p \in Passes : /\ Shares(newRows, new, b)[p] \in Nat /\ Shares(rows, rec, h)[p] \in Nat
                             /\ Shares(newRows, new, b)[p] <= Shares(rows, rec, h)[p]
    PROVE  Held(newRows, new, b) <= Held(rows, rec, h)
<1> DEFINE f == Shares(newRows, new, b)
           g == Shares(rows, rec, h)
<1>1. \A p \in Passes : f[p] \in Int /\ g[p] \in Int /\ f[p] <= g[p]
  OBVIOUS
<1>2. IsFiniteSet(Passes)
  BY PassEnergyAssumption
<1> HIDE DEF f, g
<1>3. SumFunctionOnSet(f, Passes) <= SumFunctionOnSet(g, Passes)
  BY <1>1, <1>2, SumMonotone
<1> QED
  BY <1>3 DEF f, g, Held

\* A pass whose records an operation leaves alone.
LEMMA SameRecordsWorth ==
    ASSUME NEW rec, NEW new, NEW p, NEW b, NEW bal, new[p] = rec[p]
    PROVE  /\ get_pass_energy(new, p, b) = get_pass_energy(rec, p, b)
           /\ BalanceHeldSoFar(rec, bal, p, b) => BalanceHeldSoFar(new, bal, p, b)
           /\ BalanceHeld(rec, bal, p, b) => BalanceHeld(new, bal, p, b)
           /\ PassOnlyAt(new, rec, p, b)
<1>1. RecordHeights(new, p, b) = RecordHeights(rec, p, b)
  BY DEF RecordHeights
<1>2. LastRecord(new, p, b) = LastRecord(rec, p, b)
  BY <1>1 DEF LastRecord
<1> QED
  BY <1>2 DEF get_pass_energy, BalanceHeldSoFar, BalanceHeld, PassOnlyAt

\* An operation on one pass p that, live or not, keeps its energy or lowers it.
LEMMA OnePassCreatesNone ==
    ASSUME NEW db, NEW new, NEW rec, NEW rec2, NEW bal, NEW p \in Passes, NEW b \in Heights,
           RecordsOK(rec), RecordsOK(rec2), AllAgree(db, rec, b), AllAgree(new, rec2, b),
           AllHeldSoFar(db.passes, rec, bal, b),
           \A q \in Passes \ {p} : rec2[q] = rec[q],
           \A q \in Passes \ {p} : new.passes[q] = db.passes[q],
           Live(new.passes[p]) => Live(db.passes[p]) /\ get_pass_energy(rec2, p, b) <= get_pass_energy(rec, p, b),
           new.passes[p].state = "active" => BalanceHeldSoFar(rec2, bal, p, b),
           PassOnlyAt(rec2, rec, p, b)
    PROVE  CreatesNone(new.passes, rec2, db.passes, rec, bal, b)
<1>1. ASSUME NEW q \in Passes
      PROVE  /\ Shares(new.passes, rec2, b)[q] <= Shares(db.passes, rec, b)[q]
             /\ PassOnlyAt(rec2, rec, q, b)
             /\ new.passes[q].state = "active" => BalanceHeldSoFar(rec2, bal, q, b)
  <2>1. CASE q = p
    <3>1. Shares(db.passes, rec, b)[p] \in Nat
      BY SharesNat
    <3>2. Shares(new.passes, rec2, b)[p] <= Shares(db.passes, rec, b)[p]
      BY <3>1 DEF Shares
    <3> QED
      BY <2>1, <3>2
  <2>2. CASE q # p
    <3>1. rec2[q] = rec[q] /\ new.passes[q] = db.passes[q]
      BY <2>2
    <3>2. /\ get_pass_energy(rec2, q, b) = get_pass_energy(rec, q, b)
          /\ BalanceHeldSoFar(rec, bal, q, b) => BalanceHeldSoFar(rec2, bal, q, b)
          /\ PassOnlyAt(rec2, rec, q, b)
      BY <3>1, SameRecordsWorth
    <3>3. Shares(new.passes, rec2, b)[q] = Shares(db.passes, rec, b)[q]
      BY <3>1, <3>2 DEF Shares
    <3>4. Shares(db.passes, rec, b)[q] \in Nat
      BY SharesNat
    <3> QED
      BY <3>1, <3>2, <3>3, <3>4 DEF AllHeldSoFar
  <2> QED
    BY <2>1, <2>2
<1>2. \A q \in Passes : Shares(new.passes, rec2, b)[q] \in Nat /\ Shares(db.passes, rec, b)[q] \in Nat
  BY SharesNat
<1>3. Held(new.passes, rec2, b) <= Held(db.passes, rec, b)
  BY <1>1, <1>2, HeldFalls
<1> QED
  BY <1>1, <1>3 DEF CreatesNone, OnlyAt, AllHeldSoFar

LEMMA TransferCreatesNone ==
    ASSUME NEW db, NEW rec, NEW b \in Heights, TablesOK(db, b), OneActiveNow(db),
           RecordsOK(rec), AllAgree(db, rec, b), NEW n \in Nat, NEW bal \in BalanceTables(n), b <= n,
           AllHeldSoFar(db.passes, rec, bal, b),
           NEW e, e.pass \in Passes, e.to \in Owners, e.sat \in Nat, db.passes[e.pass] # NoRow
    PROVE  CreatesNone(on_pass_transfer(db, rec, bal, e, b).db.passes,
                       on_pass_transfer(db, rec, bal, e, b).rec, db.passes, rec, bal, b)
<1>1. PICK p \in Passes : p = e.pass
  OBVIOUS
<1>2. PICK new : new = on_pass_transfer(db, rec, bal, e, b).db
  OBVIOUS
<1>3. PICK rec2 : rec2 = on_pass_transfer(db, rec, bal, e, b).rec
  OBVIOUS
<1>4. MoveEffect(new, db, e)
  BY <1>2, TransferOK
<1>5. EnergyStep(rec2, rec, b) /\ AllAgree(new, rec2, b)
  BY <1>2, <1>3, TransferEnergy
<1>6. rec2 = IF db.passes[p].state # "active" THEN rec
             ELSE IF db.passes[p].owner # e.to THEN on_pass_dormant(rec, bal, p, b)
             ELSE update_pass_energy(rec, bal, p, b)
  BY <1>1, <1>3 DEF on_pass_transfer
<1>7. /\ \A q \in Passes \ {p} : new.passes[q] = db.passes[q]
      /\ new.passes[p].state = IF db.passes[p].owner # e.to /\ db.passes[p].state = "active"
                               THEN "dormant" ELSE db.passes[p].state
  BY <1>1, <1>4 DEF MoveEffect
<1>8. Live(new.passes[p]) => Live(db.passes[p])
  BY <1>7 DEF Live
<1>9. Live(db.passes[p]) => RecordHeights(rec, p, b) # {}
  BY DEF AllAgree, Agrees, Live
<1>10. RecordsOK(rec2)
  BY <1>5 DEF EnergyStep
<1>11. CASE db.passes[p].state # "active"
  <2>1. rec2 = rec /\ new.passes[p].state # "active"
    BY <1>6, <1>7, <1>11
  <2>2. Live(new.passes[p]) => get_pass_energy(rec2, p, b) <= get_pass_energy(rec, p, b)
    BY <2>1, <1>8, <1>9, SameWorth DEF WorthKept
  <2>3. PassOnlyAt(rec2, rec, p, b)
    BY <2>1 DEF PassOnlyAt
  <2>4. \A q \in Passes \ {p} : rec2[q] = rec[q]
    BY <2>1
  <2> QED
    BY <2>1, <2>2, <2>3, <2>4, <1>2, <1>3, <1>5, <1>7, <1>8, <1>10, OnePassCreatesNone
<1>12. CASE db.passes[p].state = "active"
  <2>1. RecordHeights(rec, p, b) # {} /\ LastRecord(rec, p, b).state = "active"
    BY <1>12 DEF AllAgree, Agrees
  <2>2. BalanceHeldSoFar(rec, bal, p, b)
    BY <1>12 DEF AllHeldSoFar
  <2>3. /\ WorthKept(on_pass_dormant(rec, bal, p, b), rec, p, b)
        /\ \A q \in Passes \ {p} : on_pass_dormant(rec, bal, p, b)[q] = rec[q]
    BY <2>1, <2>2, DormantWorth, DormantStep
  <2>4. /\ WorthKept(update_pass_energy(rec, bal, p, b), rec, p, b)
        /\ BalanceHeldSoFar(update_pass_energy(rec, bal, p, b), bal, p, b)
        /\ \A q \in Passes \ {p} : update_pass_energy(rec, bal, p, b)[q] = rec[q]
    BY <2>1, <2>2, UpdateWorth, UpdateStep
  <2>5. WorthKept(rec2, rec, p, b) /\ \A q \in Passes \ {p} : rec2[q] = rec[q]
    BY <1>6, <1>12, <2>3, <2>4
  <2>6. new.passes[p].state = "active" => BalanceHeldSoFar(rec2, bal, p, b)
    BY <1>6, <1>7, <1>12, <2>4
  <2>7. get_pass_energy(rec2, p, b) <= get_pass_energy(rec, p, b) /\ PassOnlyAt(rec2, rec, p, b)
    BY <2>5 DEF WorthKept
  <2>8. \A q \in Passes \ {p} : new.passes[q] = db.passes[q]
    BY <1>7
  <2>9. Live(new.passes[p]) => Live(db.passes[p]) /\ get_pass_energy(rec2, p, b) <= get_pass_energy(rec, p, b)
    BY <1>8, <2>7
  <2>10. AllAgree(new, rec2, b)
    BY <1>5
  <2>11. CreatesNone(new.passes, rec2, db.passes, rec, bal, b)
    BY <1>10, <2>5, <2>6, <2>7, <2>8, <2>9, <2>10, OnePassCreatesNone
  <2> QED
    BY <1>2, <1>3, <2>11
<1> QED
  BY <1>11, <1>12

LEMMA BurnCreatesNone ==
    ASSUME NEW db, NEW rec, NEW b \in Heights, TablesOK(db, b), OneActiveNow(db),
           RecordsOK(rec), AllAgree(db, rec, b), NEW n \in Nat, NEW bal \in BalanceTables(n), b <= n,
           AllHeldSoFar(db.passes, rec, bal, b),
           NEW e, e.pass \in Passes, db.passes[e.pass] # NoRow
    PROVE  CreatesNone(on_pass_burned(db, rec, bal, e, b).db.passes,
                       on_pass_burned(db, rec, bal, e, b).rec, db.passes, rec, bal, b)
<1>1. PICK p \in Passes : p = e.pass
  OBVIOUS
<1>2. PICK new : new = on_pass_burned(db, rec, bal, e, b).db
  OBVIOUS
<1>3. PICK rec2 : rec2 = on_pass_burned(db, rec, bal, e, b).rec
  OBVIOUS
<1>4. BurnEffect(new, db, e)
  BY <1>2, BurnOK
<1>5. EnergyStep(rec2, rec, b) /\ AllAgree(new, rec2, b)
  BY <1>2, <1>3, BurnEnergy
<1>6. rec2 = IF db.passes[p].state = "active" THEN update_pass_energy(rec, bal, p, b) ELSE rec
  BY <1>1, <1>3 DEF on_pass_burned
<1>7. (\A q \in Passes \ {p} : new.passes[q] = db.passes[q]) /\ new.passes[p].state = "burned"
  BY <1>1, <1>4 DEF BurnEffect
<1>8. ~Live(new.passes[p]) /\ new.passes[p].state # "active"
  BY <1>7 DEF Live
<1>9. RecordsOK(rec2)
  BY <1>5 DEF EnergyStep
<1>10. PassOnlyAt(rec2, rec, p, b) /\ \A q \in Passes \ {p} : rec2[q] = rec[q]
  <2>1. CASE db.passes[p].state = "active"
    <3>1. RecordHeights(rec, p, b) # {} /\ LastRecord(rec, p, b).state = "active"
      BY <2>1 DEF AllAgree, Agrees
    <3>2. BalanceHeldSoFar(rec, bal, p, b)
      BY <2>1 DEF AllHeldSoFar
    <3>3. /\ WorthKept(update_pass_energy(rec, bal, p, b), rec, p, b)
          /\ \A q \in Passes \ {p} : update_pass_energy(rec, bal, p, b)[q] = rec[q]
      BY <3>1, <3>2, UpdateWorth, UpdateStep
    <3> QED
      BY <2>1, <3>3, <1>6 DEF WorthKept
  <2>2. CASE db.passes[p].state # "active"
    BY <2>2, <1>6 DEF PassOnlyAt
  <2> QED
    BY <2>1, <2>2
<1> QED
  BY <1>2, <1>3, <1>5, <1>7, <1>8, <1>9, <1>10, OnePassCreatesNone

LEMMA OnlyAtTransitive ==
    ASSUME NEW a, NEW b, NEW c, NEW p, NEW h, PassOnlyAt(b, a, p, h), PassOnlyAt(c, b, p, h)
    PROVE  PassOnlyAt(c, a, p, h)
  BY DEF PassOnlyAt

\* The owner's active pass, dormant, is worth no more than before ...
LEMMA AfterDormantWorth ==
    ASSUME NEW rec, RecordsOK(rec), NEW D \in SUBSET Passes, NEW b \in Heights,
           NEW n \in Nat, NEW bal \in BalanceTables(n), b <= n,
           \A q \in D : /\ RecordHeights(rec, q, b) # {} /\ LastRecord(rec, q, b).state = "active"
                        /\ BalanceHeldSoFar(rec, bal, q, b)
    PROVE  \A q \in Passes : /\ PassOnlyAt(AfterDormant(rec, bal, D, b), rec, q, b)
                             /\ q \in D => get_pass_energy(AfterDormant(rec, bal, D, b), q, b)
                                             <= get_pass_energy(rec, q, b)
<1> SUFFICES ASSUME NEW q \in Passes
             PROVE  /\ PassOnlyAt(AfterDormant(rec, bal, D, b), rec, q, b)
                    /\ q \in D => get_pass_energy(AfterDormant(rec, bal, D, b), q, b)
                                    <= get_pass_energy(rec, q, b)
  OBVIOUS
<1>1. CASE q \in D
  <2>1. WorthKept(on_pass_dormant(rec, bal, q, b), rec, q, b)
    BY <1>1, DormantWorth
  <2>2. AfterDormant(rec, bal, D, b)[q] = on_pass_dormant(rec, bal, q, b)[q]
    BY <1>1 DEF AfterDormant
  <2>3. get_pass_energy(AfterDormant(rec, bal, D, b), q, b) = get_pass_energy(on_pass_dormant(rec, bal, q, b), q, b)
    BY <2>2, SameRecordsWorth
  <2>4. PassOnlyAt(AfterDormant(rec, bal, D, b), rec, q, b)
    BY <2>1, <2>2 DEF WorthKept, PassOnlyAt
  <2> QED
    BY <2>1, <2>3, <2>4 DEF WorthKept
<1>2. CASE q \notin D
  <2>1. AfterDormant(rec, bal, D, b)[q] = rec[q]
    BY <1>2 DEF AfterDormant
  <2> QED
    BY <2>1, <1>2, SameRecordsWorth
<1> QED
  BY <1>1, <1>2

LEMMA AfterConsumedOnlyAt ==
    ASSUME NEW rec, RecordsOK(rec), NEW C \in SUBSET Passes, NEW b \in Heights, NEW o \in Owners, NEW q \in Passes
    PROVE  PassOnlyAt(AfterConsumed(rec, C, o, b), rec, q, b)
<1>1. PICK x : x = [height |-> b, state |-> "consumed", active |-> b, owner |-> o,
                    balance |-> 0, delta |-> 0, energy |-> 0]
  OBVIOUS
<1>2. x \in EnergyRecords /\ x.height = b
  BY <1>1 DEF EnergyRecords
<1>3. on_pass_consumed(rec, q, o, b) = PutRecord(rec, q, x)
  BY <1>1 DEF on_pass_consumed
<1>4. PassOnlyAt(on_pass_consumed(rec, q, o, b), rec, q, b)
  BY <1>2, <1>3, PutAt
<1>5. AfterConsumed(rec, C, o, b)[q] = IF q \in C THEN on_pass_consumed(rec, q, o, b)[q] ELSE rec[q]
  BY DEF AfterConsumed
<1> QED
  BY <1>4, <1>5 DEF PassOnlyAt

\* ... what a mint inherits is worth no more than the passes it consumes ...
LEMMA InheritedAtMost ==
    ASSUME NEW rec, NEW b, NEW C \in SUBSET Passes, NEW g,
           \A q \in C : /\ get_pass_energy(rec, q, b) \in Nat /\ g[q] \in Nat
                        /\ get_pass_energy(rec, q, b) <= g[q]
    PROVE  Inherited(rec, C, b) <= SumFunctionOnSet(g, C)
<1> DEFINE f == [q \in C |-> get_pass_energy(rec, q, b)]
<1>1. IsFiniteSet(C)
  BY PassEnergyAssumption, FS_Subset
<1>2. \A q \in C : f[q] \in Int /\ g[q] \in Int /\ f[q] <= g[q]
  OBVIOUS
<1>3. \A q \in C : f[q] \in Nat
  OBVIOUS
<1>4. DOMAIN f = C
  OBVIOUS
<1>5. Inherited(rec, C, b) = saturating_u128_to_u64(SumFunction(f))
  BY DEF Inherited
<1> HIDE DEF f
<1>6. SumFunctionOnSet(f, C) <= SumFunctionOnSet(g, C)
  BY <1>1, <1>2, SumMonotone
<1>7. SumFunctionOnSet(f, C) \in Nat
  BY <1>1, <1>3, SumNonNegative
<1>8. SumFunction(f) = SumFunctionOnSet(f, C)
  BY <1>4 DEF SumFunction
<1>9. SumFunctionOnSet(g, C) \in Int
  BY <1>1, <1>2, SumType
<1> QED
  BY <1>5, <1>6, <1>7, <1>8, <1>9, PassEnergyAssumption DEF saturating_u128_to_u64

\* ... and the new pass starts with what was inherited and its owner's balance.
LEMMA NewPassWorth ==
    ASSUME NEW rec, RecordsOK(rec), NEW p \in Passes, NEW b \in Heights, NEW o \in Owners,
           NEW n \in Nat, NEW bal \in BalanceTables(n), b <= n, NEW inherited \in Nat
    PROVE  LET new == on_new_pass(rec, bal, p, o, b, inherited)
           IN  /\ get_pass_energy(new, p, b) = inherited
               /\ BalanceHeldSoFar(new, bal, p, b)
               /\ PassOnlyAt(new, rec, p, b)
<1>1. PICK bb \in Nat : bb = get_balance_at_height(bal, o, b).balance
  BY BalanceTypes
<1>2. PICK d \in Int : d = get_balance_at_height(bal, o, b).delta
  BY BalanceTypes
<1>3. PICK x : x = [height |-> b, state |-> "active", active |-> b, owner |-> o,
                    balance |-> bb, delta |-> d, energy |-> inherited]
  OBVIOUS
<1>4. x \in EnergyRecords /\ x.height = b /\ x.energy = inherited /\ x.owner = o /\ x.balance = bb
  BY <1>3 DEF EnergyRecords
<1>5. on_new_pass(rec, bal, p, o, b, inherited) = PutRecord(rec, p, x)
  BY <1>1, <1>2, <1>3 DEF on_new_pass
<1>6. /\ LastIs(PutRecord(rec, p, x), p, b, x)
      /\ get_pass_energy(PutRecord(rec, p, x), p, b) = x.energy
      /\ PassOnlyAt(PutRecord(rec, p, x), rec, p, b)
  BY <1>4, PutAt
<1>7. bb = bal[b][o]
  BY <1>1 DEF get_balance_at_height
<1>8. BalanceHeldSoFar(PutRecord(rec, p, x), bal, p, b)
  BY <1>4, <1>6, <1>7 DEF LastIs, BalanceHeldSoFar
<1> QED
  BY <1>4, <1>5, <1>6, <1>8

LEMMA MintCreatesNone ==
    ASSUME NEW db, NEW rec, NEW b \in Heights, TablesOK(db, b), OneActiveNow(db),
           RecordsOK(rec), AllAgree(db, rec, b), NEW n \in Nat, NEW bal \in BalanceTables(n), b <= n,
           AllHeldSoFar(db.passes, rec, bal, b),
           NEW e \in MintEvents, db.passes[e.pass] = NoRow
    PROVE  CreatesNone(on_mint_pass(db, rec, bal, e, b).db.passes,
                       on_mint_pass(db, rec, bal, e, b).rec, db.passes, rec, bal, b)
<1> DEFINE D    == LastActive(db, e.owner)
           C    == Consumed(db, rec, bal, e, b)
           rec1 == AfterDormant(rec, bal, D, b)
           rec2 == AfterConsumed(rec1, C, e.owner, b)
           inh  == Inherited(rec1, C, b)
           rec3 == on_new_pass(rec2, bal, e.pass, e.owner, b, inh)
           new  == on_mint_pass(db, rec, bal, e, b).db
           f    == Shares(db.passes, rec, b)
           g    == Shares(new.passes, rec3, b)
<1>0. e.pass \in Passes /\ e.owner \in Owners /\ db \in Stores
  BY DEF MintEvents, TablesOK
<1>1. on_mint_pass(db, rec, bal, e, b).rec = rec3
  <2>1. dormant_last_pass(db, rec, bal, e.owner, b).rec = rec1
    BY DEF dormant_last_pass, AfterDormant
  <2> QED
    BY <2>1 DEF on_mint_pass, Consumed, AfterConsumed
<1>2. MintEffect(new, db, C, e, b)
  BY MintRows
<1>a. EnergyStep(rec3, rec, b) /\ AllAgree(new, rec3, b)
  BY <1>1, MintEnergy
<1>b. RecordsOK(rec3)
  BY <1>a DEF EnergyStep
<1> HIDE DEF C, new
<1>3. /\ D \in SUBSET Passes /\ C \in SUBSET Passes
      /\ e.pass \notin D /\ e.pass \notin C
      /\ \A q \in C : q \in D \/ db.passes[q].state = "dormant"
      /\ new.passes[e.pass] = ActiveRow(e.owner, b)
      /\ \A q \in C : new.passes[q] = SetState(db.passes[q], "consumed")
      /\ \A q \in D \ C : new.passes[q] = SetState(db.passes[q], "dormant")
      /\ \A q \in Passes \ (C \cup D \cup {e.pass}) : new.passes[q] = db.passes[q]
  BY <1>2 DEF MintEffect
<1>4. \A q \in D : /\ db.passes[q].state = "active" /\ db.passes[q] \in Rows
                   /\ RecordHeights(rec, q, b) # {} /\ LastRecord(rec, q, b).state = "active"
                   /\ BalanceHeldSoFar(rec, bal, q, b)
  <2>1. \A q \in D : q \in Passes /\ db.passes[q].state = "active"
    BY DEF LastActive
  <2>2. \A q \in D : RecordHeights(rec, q, b) # {} /\ LastRecord(rec, q, b).state = "active"
    BY <2>1 DEF AllAgree, Agrees
  <2>3. \A q \in D : db.passes[q] \in Rows
    BY <1>0, <2>1, RowFields
  <2>4. \A q \in D : BalanceHeldSoFar(rec, bal, q, b)
    BY <2>1 DEF AllHeldSoFar
  <2> QED
    BY <2>1, <2>2, <2>3, <2>4
<1> HIDE DEF D
<1>5. /\ EnergyStep(rec1, rec, b)
      /\ \A q \in D : HasKind(rec1, q, b, "dormant")
      /\ \A q \in Passes \ D : rec1[q] = rec[q]
  <2>1. \A q \in D : RecordHeights(rec, q, b) # {}
    BY <1>4
  <2> QED
    BY <1>3, <2>1, AfterDormantOK
<1>6. \A q \in Passes : /\ PassOnlyAt(rec1, rec, q, b)
                        /\ q \in D => get_pass_energy(rec1, q, b) <= get_pass_energy(rec, q, b)
  BY <1>3, <1>4, AfterDormantWorth
<1> HIDE DEF rec1
<1>7. RecordsOK(rec1)
  BY <1>5 DEF EnergyStep
<1>8. /\ EnergyStep(rec2, rec1, b)
      /\ \A q \in Passes \ C : rec2[q] = rec1[q]
  BY <1>0, <1>3, <1>7, AfterConsumedOK
<1>9. \A q \in Passes : PassOnlyAt(rec2, rec1, q, b)
  BY <1>0, <1>3, <1>7, AfterConsumedOnlyAt
<1> HIDE DEF rec2
<1>10. RecordsOK(rec2)
  BY <1>8 DEF EnergyStep
<1>11. \A q \in Passes : f[q] \in Nat
  BY SharesNat
<1>12. ASSUME NEW q \in D \cup C
       PROVE  /\ q \in Passes /\ Live(db.passes[q]) /\ f[q] = get_pass_energy(rec, q, b)
              /\ get_pass_energy(rec1, q, b) \in Nat /\ get_pass_energy(rec1, q, b) <= f[q]
  <2>1. q \in Passes /\ Live(db.passes[q])
    BY <1>3, <1>4 DEF Live
  <2>2. f[q] = get_pass_energy(rec, q, b)
    BY <2>1 DEF Shares
  <2>3. CASE q \in D
    <3>1. RecordHeights(rec1, q, b) # {}
      BY <2>3, <1>5 DEF HasKind, LastIs
    <3>2. get_pass_energy(rec1, q, b) \in Nat
      BY <3>1, <2>1, <1>7, EnergyNat
    <3> QED
      BY <2>1, <2>2, <2>3, <3>2, <1>6
  <2>4. CASE q \notin D
    <3>1. rec1[q] = rec[q]
      BY <1>5, <2>1, <2>4
    <3>2. get_pass_energy(rec1, q, b) = get_pass_energy(rec, q, b)
      BY <3>1, SameRecordsWorth
    <3>3. f[q] \in Nat
      BY <1>11, <2>1
    <3> HIDE DEF f
    <3> QED
      BY <2>1, <2>2, <3>2, <3>3
  <2> QED
    BY <2>3, <2>4
<1> HIDE DEF f
<1>13. inh <= SumFunctionOnSet(f, C)
  <2>1. \A q \in C : /\ get_pass_energy(rec1, q, b) \in Nat /\ f[q] \in Nat
                     /\ get_pass_energy(rec1, q, b) <= f[q]
    BY <1>3, <1>11, <1>12
  <2> QED
    BY <2>1, <1>3, InheritedAtMost
<1>14. inh \in Nat
  <2>1. \A q \in C : RecordHeights(rec1, q, b) # {}
    <3> SUFFICES ASSUME NEW q \in C PROVE RecordHeights(rec1, q, b) # {}
      OBVIOUS
    <3>1. CASE q \in D
      BY <3>1, <1>5 DEF HasKind, LastIs
    <3>2. CASE q \notin D
      <4>1. db.passes[q].state = "dormant" /\ q \in Passes
        BY <1>3, <3>2
      <4>2. RecordHeights(rec, q, b) # {}
        BY <4>1 DEF AllAgree, Agrees
      <4>3. rec1[q] = rec[q]
        BY <1>5, <3>2, <4>1
      <4> QED
        BY <4>2, <4>3 DEF RecordHeights
    <3> QED
      BY <3>1, <3>2
  <2> QED
    BY <1>3, <1>7, <2>1, InheritedNat
<1> HIDE DEF inh
<1>15. /\ get_pass_energy(rec3, e.pass, b) = inh
       /\ BalanceHeldSoFar(rec3, bal, e.pass, b)
       /\ PassOnlyAt(rec3, rec2, e.pass, b)
  BY <1>0, <1>10, <1>14, NewPassWorth
<1>16. \A q \in Passes \ {e.pass} : rec3[q] = rec2[q]
  BY <1>0, <1>10, <1>14, NewPassStep
<1> HIDE DEF rec3
<1>17. OnlyAt(rec3, rec, b)
  <2> SUFFICES ASSUME NEW q \in Passes PROVE PassOnlyAt(rec3, rec, q, b)
    BY DEF OnlyAt
  <2>1. PassOnlyAt(rec3, rec2, q, b)
    <3>1. CASE q = e.pass
      BY <3>1, <1>15
    <3>2. CASE q # e.pass
      BY <3>2, <1>16 DEF PassOnlyAt
    <3> QED
      BY <3>1, <3>2
  <2>2. PassOnlyAt(rec3, rec1, q, b)
    BY <2>1, <1>9, OnlyAtTransitive
  <2> QED
    BY <2>2, <1>6, OnlyAtTransitive
<1>18. \A q \in Passes : g[q] \in Nat
  BY <1>a, <1>b, SharesNat
<1>19. \A q \in C : g[q] = 0
  <2> SUFFICES ASSUME NEW q \in C PROVE g[q] = 0
    OBVIOUS
  <2>1. q \in Passes /\ db.passes[q].state \in {"active", "dormant"}
    BY <1>3, <1>4
  <2>2. db.passes[q] \in Rows
    BY <2>1, <1>0, RowFields
  <2>3. new.passes[q].state = "consumed"
    BY <2>2, <1>3, SetStateRow DEF States
  <2> QED
    BY <2>1, <2>3 DEF Shares, Live
<1>20. g[e.pass] = inh /\ new.passes[e.pass].state = "active"
  <2>1. new.passes[e.pass].state = "active"
    BY <1>3 DEF ActiveRow
  <2> QED
    BY <2>1, <1>0, <1>15 DEF Shares, Live
<1>21. f[e.pass] = 0
  BY <1>0 DEF f, Shares, Live, NoRow
<1>22. ASSUME NEW q \in Passes, q \notin C, q # e.pass
       PROVE  /\ g[q] <= f[q]
              /\ new.passes[q].state = "active" => BalanceHeldSoFar(rec3, bal, q, b)
  <2>1. rec3[q] = rec1[q]
    BY <1>22, <1>8, <1>16
  <2>2. get_pass_energy(rec3, q, b) = get_pass_energy(rec1, q, b)
    BY <2>1, SameRecordsWorth
  <2>3. CASE q \in D
    <3>1. new.passes[q].state = "dormant"
      BY <2>3, <1>3, <1>4, <1>22, SetStateRow DEF States
    <3>2. g[q] = get_pass_energy(rec1, q, b)
      BY <3>1, <2>2 DEF Shares, Live
    <3>3. get_pass_energy(rec1, q, b) <= f[q]
      BY <2>3, <1>12
    <3> QED
      BY <3>1, <3>2, <3>3
  <2>4. CASE q \notin D
    <3>1. new.passes[q] = db.passes[q] /\ rec1[q] = rec[q]
      BY <2>4, <1>3, <1>5, <1>22
    <3>2. rec3[q] = rec[q]
      BY <3>1, <2>1
    <3>3. /\ get_pass_energy(rec3, q, b) = get_pass_energy(rec, q, b)
          /\ BalanceHeldSoFar(rec, bal, q, b) => BalanceHeldSoFar(rec3, bal, q, b)
      BY <3>2, SameRecordsWorth
    <3>4. g[q] = f[q]
      BY <3>1, <3>3 DEF f, Shares
    <3>5. f[q] \in Nat
      BY <1>11
    <3> QED
      BY <3>1, <3>3, <3>4, <3>5 DEF AllHeldSoFar
  <2> QED
    BY <2>3, <2>4
<1> HIDE DEF g
<1>23. SumFunctionOnSet(g, Passes) <= SumFunctionOnSet(f, Passes)
  <2>1. IsFiniteSet(Passes)
    BY PassEnergyAssumption
  <2>2. \A q \in Passes : f[q] \in Int /\ g[q] \in Int
    BY <1>11, <1>18
  <2>3. \A q \in Passes : q \notin C /\ q # e.pass => g[q] <= f[q]
    BY <1>22
  <2>4. g[e.pass] <= SumFunctionOnSet(f, C)
    BY <1>13, <1>20
  <2>5. PICK z \in Passes : z = e.pass
    BY <1>0
  <2> QED
    BY <2>1, <2>2, <2>3, <2>4, <2>5, <1>3, <1>19, <1>21, SumMoves
<1>24. AllHeldSoFar(new.passes, rec3, bal, b)
  <2> SUFFICES ASSUME NEW q \in Passes, new.passes[q].state = "active" PROVE BalanceHeldSoFar(rec3, bal, q, b)
    BY DEF AllHeldSoFar
  <2>1. q \notin C
    <3> SUFFICES ASSUME q \in C PROVE FALSE
      OBVIOUS
    <3>1. db.passes[q].state \in {"active", "dormant"}
      BY <1>3, <1>4
    <3>2. db.passes[q] \in Rows
      BY <3>1, <1>0, RowFields
    <3> QED
      BY <3>2, <1>3, SetStateRow DEF States
  <2> QED
    BY <2>1, <1>15, <1>22
<1> QED
  BY <1>1, <1>17, <1>23, <1>24 DEF CreatesNone, Held, f, g, new

LEMMA ExecuteCreatesNone ==
    ASSUME NEW db, NEW rec, NEW b \in Heights, TablesOK(db, b), OneActiveNow(db),
           RecordsOK(rec), AllAgree(db, rec, b), NEW n \in Nat, NEW bal \in BalanceTables(n), b <= n,
           AllHeldSoFar(db.passes, rec, bal, b), NEW e \in ProcessEvents, ~RowRefused(db, e)
    PROVE  CreatesNone(execute(db, rec, bal, e, b).db.passes, execute(db, rec, bal, e, b).rec,
                       db.passes, rec, bal, b)
<1>1. CASE e \in MintEvents
  <2>1. e.op = "mint" /\ db.passes[e.pass] = NoRow
    BY <1>1 DEF MintEvents, RowRefused
  <2>2. execute(db, rec, bal, e, b) = on_mint_pass(db, rec, bal, e, b)
    BY <2>1 DEF execute
  <2> QED
    BY <1>1, <2>1, <2>2, MintCreatesNone
<1>2. CASE e \in MoveItems
  <2>1. e.op = "move" /\ e.pass \in Passes /\ e.to \in Owners \cup {Nobody} /\ e.sat \in Nat
    BY <1>2 DEF MoveItems
  <2>2. db.passes[e.pass] # NoRow
    BY <2>1 DEF RowRefused
  <2>3. CASE e.to = Nobody
    <3>1. execute(db, rec, bal, e, b) = on_pass_burned(db, rec, bal, e, b)
      BY <2>1, <2>3 DEF execute
    <3> QED
      BY <2>1, <2>2, <3>1, BurnCreatesNone
  <2>4. CASE e.to # Nobody
    <3>1. execute(db, rec, bal, e, b) = on_pass_transfer(db, rec, bal, e, b)
      BY <2>1, <2>4 DEF execute
    <3> QED
      BY <2>1, <2>2, <2>4, <3>1, TransferCreatesNone
  <2> QED
    BY <2>3, <2>4
<1> QED
  BY <1>1, <1>2 DEF ProcessEvents, MoveItems

LEMMA InvalidCreatesNone ==
    ASSUME NEW rows, NEW newRows, NEW rec, NEW bal, NEW b,
           AllHeldSoFar(rows, rec, bal, b),
           \A q \in Passes : newRows[q] = rows[q] \/ (rows[q] = NoRow /\ newRows[q].state = "invalid")
    PROVE  AllHeldSoFar(newRows, rec, bal, b) /\ Held(newRows, rec, b) = Held(rows, rec, b)
<1>1. \A q \in Passes : /\ Live(newRows[q]) <=> Live(rows[q])
                        /\ newRows[q].state = "active" => rows[q].state = "active"
  BY DEF Live, NoRow
<1>2. Shares(newRows, rec, b) = Shares(rows, rec, b)
  BY <1>1 DEF Shares
<1> QED
  BY <1>1, <1>2 DEF AllHeldSoFar, Held

\* Settling the balances of a block creates no energy and brings every active record up
\* to date.
LEMMA SettleCreatesNone ==
    ASSUME NEW db, NEW rec, NEW new, NEW b \in Heights, b >= 1, db \in Stores, RecordsOK(rec), RecordsOK(new),
           AllAgree(db, rec, b), AllAgree(db, new, b), NEW n \in Nat, NEW bal \in BalanceTables(n), b <= n,
           AllHeldSoFar(db.passes, rec, bal, b), NEW A \in SUBSET Passes,
           \A q \in Passes : q \in A <=> db.passes[q].state = "active",
           \A q \in A : new[q] = apply_active_balance_change(rec, q, b, bal[b][db.passes[q].owner],
                                                             DeltaAt(bal, db.passes[q].owner, b))[q],
           \A q \in Passes \ A : new[q] = rec[q]
    PROVE  OnlyAt(new, rec, b) /\ AllHeld(db.passes, new, bal, b) /\ Held(db.passes, new, b) <= Held(db.passes, rec, b)
<1>1. ASSUME NEW q \in Passes
      PROVE  /\ PassOnlyAt(new, rec, q, b)
             /\ q \in A => BalanceHeld(new, bal, q, b)
             /\ Shares(db.passes, new, b)[q] <= Shares(db.passes, rec, b)[q]
  <2>1. Shares(db.passes, rec, b)[q] \in Nat
    BY SharesNat
  <2>2. CASE q \in A
    <3>1. PICK o : o = db.passes[q].owner
      OBVIOUS
    <3>2. db.passes[q].state = "active" /\ db.passes[q] # NoRow /\ o \in Owners
      BY <2>2, <3>1, RowFields DEF NoRow
    <3>3. /\ RecordHeights(rec, q, b) # {} /\ LastRecord(rec, q, b).state = "active"
          /\ LastRecord(rec, q, b).owner = o
      BY <3>1, <3>2 DEF AllAgree, Agrees
    <3>4. BalanceHeldSoFar(rec, bal, q, b)
      BY <3>2 DEF AllHeldSoFar
    <3>5. PICK x : x = apply_active_balance_change(rec, q, b, bal[b][o], DeltaAt(bal, o, b))
      OBVIOUS
    <3>6. WorthKept(x, rec, q, b) /\ BalanceHeld(x, bal, q, b)
      BY <3>2, <3>3, <3>4, <3>5, SettleWorth
    <3>7. new[q] = x[q]
      BY <2>2, <3>1, <3>5
    <3>8. /\ get_pass_energy(new, q, b) = get_pass_energy(x, q, b)
          /\ BalanceHeld(x, bal, q, b) => BalanceHeld(new, bal, q, b)
      BY <3>7, SameRecordsWorth
    <3>9. PassOnlyAt(new, rec, q, b)
      BY <3>6, <3>7 DEF WorthKept, PassOnlyAt
    <3>10. Shares(db.passes, new, b)[q] <= Shares(db.passes, rec, b)[q]
      BY <3>2, <3>6, <3>8 DEF WorthKept, Shares, Live
    <3> QED
      BY <3>6, <3>8, <3>9, <3>10
  <2>3. CASE q \notin A
    <3>1. new[q] = rec[q]
      BY <2>3
    <3>2. get_pass_energy(new, q, b) = get_pass_energy(rec, q, b) /\ PassOnlyAt(new, rec, q, b)
      BY <3>1, SameRecordsWorth
    <3>3. Shares(db.passes, new, b)[q] = Shares(db.passes, rec, b)[q]
      BY <3>2 DEF Shares
    <3> QED
      BY <2>1, <2>3, <3>2, <3>3
  <2> QED
    BY <2>2, <2>3
<1>2. \A q \in Passes : Shares(db.passes, new, b)[q] \in Nat /\ Shares(db.passes, rec, b)[q] \in Nat
  BY SharesNat
<1>3. Held(db.passes, new, b) <= Held(db.passes, rec, b)
  BY <1>1, <1>2, HeldFalls
<1> QED
  BY <1>1, <1>3 DEF OnlyAt, AllHeld

-----------------------------------------------------------------------------
(* What the active passes of a block earn by the next one *)

Earns(hist, bal, k) ==
    [p \in Passes |-> IF RowAt(hist, p, k).state = "active"
                      THEN calc_growth_delta(bal[k][RowAt(hist, p, k).owner], 1) ELSE 0]

EarnedAt(hist, bal, k) == SumFunctionOnSet(Earns(hist, bal, k), Passes)

EarnedEach(hist, bal) == [k \in Heights |-> EarnedAt(hist, bal, k)]

\* ... from height g to height h.
EarnedFrom(hist, bal, g, h) == SumFunctionOnSet(EarnedEach(hist, bal), g..(h - 1))

LEMMA EarnsNat ==
    ASSUME NEW hist \in Histories, NEW n \in Nat, NEW bal \in BalanceTables(n), NEW k \in Heights, k <= n
    PROVE  (\A p \in Passes : Earns(hist, bal, k)[p] \in Nat) /\ EarnedAt(hist, bal, k) \in Nat
<1>1. \A p \in Passes : Earns(hist, bal, k)[p] \in Nat
  <2> SUFFICES ASSUME NEW p \in Passes PROVE Earns(hist, bal, k)[p] \in Nat
    OBVIOUS
  <2>1. RowAt(hist, p, k) \in Rows \cup {NoRow}
    BY RowAtType
  <2>2. CASE RowAt(hist, p, k).state = "active"
    <3>1. RowAt(hist, p, k).owner \in Owners
      BY <2>1, <2>2 DEF NoRow, Rows
    <3>2. PICK x \in Nat : x = bal[k][RowAt(hist, p, k).owner]
      <4>1. k \in 0..n
        BY DEF Heights
      <4> QED
        BY <3>1, <4>1 DEF BalanceTables
    <3>3. calc_growth_delta(x, 1) \in Nat
      BY GrowthNat
    <3> QED
      BY <2>2, <3>2, <3>3 DEF Earns
  <2>3. CASE RowAt(hist, p, k).state # "active"
    BY <2>3 DEF Earns
  <2> QED
    BY <2>2, <2>3
<1>2. IsFiniteSet(Passes)
  BY PassEnergyAssumption
<1>3. EarnedAt(hist, bal, k) \in Nat
  <2>1. PICK f : f = Earns(hist, bal, k)
    OBVIOUS
  <2>2. SumFunctionOnSet(f, Passes) \in Nat
    BY <1>1, <1>2, <2>1, SumNonNegative
  <2> QED
    BY <2>1, <2>2 DEF EarnedAt
<1> QED
  BY <1>1, <1>3

LEMMA IntervalFinite ==
    ASSUME NEW g \in Nat, NEW h \in Nat
    PROVE  IsFiniteSet(g..(h - 1))
<1>1. g \in Int /\ h - 1 \in Int
  OBVIOUS
<1> QED
  BY <1>1, FS_Interval

LEMMA EarnedType ==
    ASSUME NEW hist \in Histories, NEW n \in Nat, NEW bal \in BalanceTables(n), NEW g \in Nat,
           NEW h \in Heights, h <= n + 1
    PROVE  EarnedFrom(hist, bal, g, h) \in Nat
<1>1. h \in Nat
  BY DEF Heights
<1>2. \A k \in g..(h - 1) : EarnedEach(hist, bal)[k] \in Nat
  <2> SUFFICES ASSUME NEW k \in g..(h - 1) PROVE EarnedEach(hist, bal)[k] \in Nat
    OBVIOUS
  <2>1. k \in Heights /\ k <= n
    BY <1>1, PassEnergyAssumption DEF Heights
  <2> QED
    BY <2>1, EarnsNat DEF EarnedEach
<1>3. PICK f : f = EarnedEach(hist, bal)
  OBVIOUS
<1>4. SumFunctionOnSet(f, g..(h - 1)) \in Nat
  BY <1>1, <1>2, <1>3, IntervalFinite, SumNonNegative
<1> QED
  BY <1>3, <1>4 DEF EarnedFrom

LEMMA EarnedNone ==
    ASSUME NEW hist, NEW bal, NEW g \in Nat
    PROVE  EarnedFrom(hist, bal, g, g) = 0
<1>1. g..(g - 1) = {}
  OBVIOUS
<1> QED
  BY <1>1, SumEmpty DEF EarnedFrom

LEMMA EarnedStep ==
    ASSUME NEW hist \in Histories, NEW n \in Nat, NEW bal \in BalanceTables(n), NEW g \in Nat,
           NEW h \in Heights, g <= h, h <= n
    PROVE  EarnedFrom(hist, bal, g, h + 1) = EarnedFrom(hist, bal, g, h) + EarnedAt(hist, bal, h)
<1>1. h \in Nat
  BY DEF Heights
<1>2. PICK f : f = EarnedEach(hist, bal)
  OBVIOUS
<1>3. \A k \in (g..(h - 1)) \union {h} : f[k] \in Int
  <2> SUFFICES ASSUME NEW k \in (g..(h - 1)) \union {h} PROVE f[k] \in Int
    OBVIOUS
  <2>1. k \in Heights /\ k <= n
    BY <1>1, PassEnergyAssumption DEF Heights
  <2>2. EarnedAt(hist, bal, k) \in Nat
    BY <2>1, EarnsNat
  <2> QED
    BY <2>1, <2>2, <1>2 DEF EarnedEach
<1>4. g..(h + 1 - 1) = (g..(h - 1)) \union {h}
  BY <1>1
<1>5. h \notin g..(h - 1)
  BY <1>1
<1>6. PICK S : S = g..(h - 1)
  OBVIOUS
<1>7. SumFunctionOnSet(f, S \union {h}) = f[h] + SumFunctionOnSet(f, S)
  <2>1. IsFiniteSet(S) /\ h \notin S /\ \A k \in S \union {h} : f[k] \in Int
    BY <1>1, <1>3, <1>5, <1>6, IntervalFinite
  <2> QED
    BY <2>1, SumInsert
<1>8. f[h] = EarnedAt(hist, bal, h) /\ f[h] \in Int
  BY <1>2, <1>3 DEF EarnedEach
<1>9. SumFunctionOnSet(f, S) \in Int
  BY <1>1, <1>3, <1>6, IntervalFinite, SumType
<1>10. EarnedFrom(hist, bal, g, h + 1) = SumFunctionOnSet(f, S \union {h})
  <2>1. PICK j : j = h + 1
    OBVIOUS
  <2>2. g..(j - 1) = S \union {h}
    BY <1>4, <1>6, <2>1
  <2>3. EarnedFrom(hist, bal, g, j) = SumFunctionOnSet(f, g..(j - 1))
    BY <1>2 DEF EarnedFrom
  <2> QED
    BY <2>1, <2>2, <2>3
<1>11. EarnedFrom(hist, bal, g, h) = SumFunctionOnSet(f, S)
  BY <1>2, <1>6 DEF EarnedFrom
<1> QED
  BY <1>7, <1>8, <1>9, <1>10, <1>11

LEMMA EarnedLocal ==
    ASSUME NEW hist \in Histories, NEW other, NEW n \in Nat, NEW bal \in BalanceTables(n), NEW bal2,
           NEW g \in Nat, NEW h \in Heights, h <= n + 1,
           \A p \in Passes, k \in Heights : k < h => hist[p][k] = other[p][k],
           \A k \in Heights : k < h => bal[k] = bal2[k]
    PROVE  EarnedFrom(other, bal2, g, h) = EarnedFrom(hist, bal, g, h)
<1>1. h \in Nat
  BY DEF Heights
<1>2. ASSUME NEW k \in g..(h - 1)
      PROVE  EarnedEach(hist, bal)[k] \in Int /\ EarnedEach(hist, bal)[k] = EarnedEach(other, bal2)[k]
  <2>1. k \in Heights /\ k < h /\ k <= n
    BY <1>1, PassEnergyAssumption DEF Heights
  <2>2. \A p \in Passes : RowAt(hist, p, k) = RowAt(other, p, k)
    <3> SUFFICES ASSUME NEW p \in Passes PROVE RowAt(hist, p, k) = RowAt(other, p, k)
      OBVIOUS
    <3>1. \A j \in Heights : j <= k => hist[p][j] = other[p][j]
      BY <2>1, <1>1 DEF Heights
    <3> QED
      BY <2>1, <3>1, RowAtLocal
  <2>3. Earns(other, bal2, k) = Earns(hist, bal, k)
    BY <2>1, <2>2 DEF Earns
  <2>4. EarnedAt(hist, bal, k) \in Nat
    BY <2>1, EarnsNat
  <2> QED
    BY <2>1, <2>3, <2>4 DEF EarnedEach, EarnedAt
<1>3. PICK f : f = EarnedEach(hist, bal)
  OBVIOUS
<1>4. PICK e : e = EarnedEach(other, bal2)
  OBVIOUS
<1>5. SumFunctionOnSet(f, g..(h - 1)) = SumFunctionOnSet(e, g..(h - 1))
  BY <1>1, <1>2, <1>3, <1>4, IntervalFinite, SumSame
<1> QED
  BY <1>3, <1>4, <1>5 DEF EarnedFrom

\* From one block to the next the live passes gain at most what the active ones earn.
LEMMA HeldGrows ==
    ASSUME NEW hist \in Histories, NEW db, NEW rec, RecordsOK(rec), NEW n \in Nat, NEW bal \in BalanceTables(n),
           NEW h \in Heights, h + 1 \in Heights, h <= n,
           \A p \in Passes : db.passes[p] = RowAt(hist, p, h),
           AllAgree(db, rec, h), AllHeld(db.passes, rec, bal, h),
           \A p \in Passes : rec[p][h + 1] = NoRecord
    PROVE  /\ Held(db.passes, rec, h + 1) <= Held(db.passes, rec, h) + EarnedAt(hist, bal, h)
           /\ AllHeldSoFar(db.passes, rec, bal, h + 1)
           /\ AllAgree(db, rec, h + 1)
<1> DEFINE f == Shares(db.passes, rec, h + 1)
           g == Shares(db.passes, rec, h)
           e == Earns(hist, bal, h)
<1>1. h \in Nat /\ h <= h + 1
  BY DEF Heights
<1>2. \A p \in Passes : /\ RecordHeights(rec, p, h + 1) = RecordHeights(rec, p, h)
                        /\ LastRecord(rec, p, h + 1) = LastRecord(rec, p, h)
  <2> SUFFICES ASSUME NEW p \in Passes
               PROVE  /\ RecordHeights(rec, p, h + 1) = RecordHeights(rec, p, h)
                      /\ LastRecord(rec, p, h + 1) = LastRecord(rec, p, h)
    OBVIOUS
  <2>1. \A k \in (h + 1)..(h + 1) : rec[p][k] = NoRecord
    BY <1>1
  <2> QED
    BY <1>1, <2>1, LastRecordFlat
<1>3. AllAgree(db, rec, h + 1)
  BY <1>2 DEF AllAgree, Agrees
<1>4. AllHeldSoFar(db.passes, rec, bal, h + 1)
  <2> SUFFICES ASSUME NEW p \in Passes, db.passes[p].state = "active" PROVE BalanceHeldSoFar(rec, bal, p, h + 1)
    BY DEF AllHeldSoFar
  <2>1. PICK r : r = LastRecord(rec, p, h)
    OBVIOUS
  <2>2. RecordHeights(rec, p, h) # {}
    BY DEF AllAgree, Agrees
  <2>3. r.height <= h /\ r.height \in Nat
    BY <2>1, <2>2, LastRecordType, RecordFields
  <2>4. \A k \in r.height..h : bal[k][r.owner] = r.balance
    BY <2>1 DEF AllHeld, BalanceHeld
  <2>5. PICK j : j = h + 1
    OBVIOUS
  <2>6. r.height # j /\ \A k \in r.height..(j - 1) : bal[k][r.owner] = r.balance
    BY <1>1, <2>3, <2>4, <2>5
  <2>7. LastRecord(rec, p, j) = r
    BY <2>1, <2>5, <1>2
  <2>8. BalanceHeldSoFar(rec, bal, p, j)
    BY <2>6, <2>7 DEF BalanceHeldSoFar
  <2> QED
    BY <2>5, <2>8
<1>5. \A p \in Passes : f[p] \in Nat
  BY <1>3, SharesNat
<1>6. \A p \in Passes : g[p] \in Nat
  BY SharesNat
<1>7. (\A p \in Passes : e[p] \in Nat) /\ EarnedAt(hist, bal, h) \in Nat
  BY EarnsNat
<1>8. ASSUME NEW p \in Passes PROVE f[p] <= g[p] + e[p]
  <2>1. CASE Live(db.passes[p])
    <3>1. PICK r : r = LastRecord(rec, p, h)
      OBVIOUS
    <3>2. /\ RecordHeights(rec, p, h) # {} /\ r.state = db.passes[p].state
          /\ r.state = "active" => r.owner = db.passes[p].owner
      BY <2>1, <3>1 DEF AllAgree, Agrees, Live
    <3>3. f[p] = get_pass_energy(rec, p, h + 1) /\ g[p] = get_pass_energy(rec, p, h)
      BY <2>1 DEF Shares
    <3>4. get_pass_energy(rec, p, h + 1) <= get_pass_energy(rec, p, h)
            + (IF r.state = "active" THEN calc_growth_delta(r.balance, 1) ELSE 0)
      BY <3>1, <3>2, EnergyGrows
    <3>5. r.state = "active" => e[p] = calc_growth_delta(r.balance, 1)
      <4> SUFFICES ASSUME r.state = "active" PROVE e[p] = calc_growth_delta(r.balance, 1)
        OBVIOUS
      <4>1. r.height <= h /\ r.height \in Nat
        BY <3>1, <3>2, LastRecordType, RecordFields
      <4>2. bal[h][r.owner] = r.balance
        <5>1. \A k \in r.height..h : bal[k][r.owner] = r.balance
          BY <3>1, <3>2 DEF AllHeld, BalanceHeld
        <5>2. h \in r.height..h
          BY <4>1, <1>1
        <5> QED
          BY <5>1, <5>2
      <4>3. RowAt(hist, p, h).state = "active" /\ RowAt(hist, p, h).owner = r.owner
        BY <3>2
      <4> QED
        BY <4>2, <4>3 DEF Earns
    <3> HIDE DEF f, g, e
    <3>6. CASE r.state = "active"
      BY <3>3, <3>4, <3>5, <3>6
    <3>7. CASE r.state # "active"
      <4>1. f[p] <= g[p]
        BY <3>3, <3>4, <3>7, <1>5, <1>6
      <4>2. f[p] \in Nat /\ g[p] \in Nat /\ e[p] \in Nat
        BY <1>5, <1>6, <1>7
      <4> QED
        BY <4>1, <4>2
    <3> QED
      BY <3>6, <3>7
  <2>2. CASE ~Live(db.passes[p])
    <3>1. f[p] = 0 /\ g[p] = 0
      BY <2>2 DEF Shares
    <3>2. e[p] \in Nat
      BY <1>7
    <3> HIDE DEF f, g, e
    <3> QED
      BY <3>1, <3>2
  <2> QED
    BY <2>1, <2>2
<1>9. IsFiniteSet(Passes)
  BY PassEnergyAssumption
<1> HIDE DEF f, g, e
<1>10. SumFunctionOnSet(f, Passes) <= SumFunctionOnSet(g, Passes) + SumFunctionOnSet(e, Passes)
  <2>1. \A p \in Passes : f[p] \in Int /\ g[p] \in Int /\ e[p] \in Int /\ f[p] <= g[p] + e[p]
    BY <1>5, <1>6, <1>7, <1>8
  <2> QED
    BY <2>1, <1>9, SumAtMost
<1> QED
  BY <1>3, <1>4, <1>10 DEF f, g, e, Held, EarnedAt

=============================================================================
