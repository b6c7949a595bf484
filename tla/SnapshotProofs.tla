--------------------------- MODULE SnapshotProofs ---------------------------
(***************************************************************************)
(* Theorems about Snapshot, for any source store, number of shards, page   *)
(* size, keys and trust modes, and any number of exports, installations,   *)
(* crashes, I/O errors, cut shards and damaged files.                      *)
(*                                                                         *)
(* The invariant follows the rows: a file being exported holds exactly the *)
(* shards written so far and has counted each row (ExportOK); a file with  *)
(* metadata, and what a manifest describes, is complete unless it was cut  *)
(* or damaged (ArtifactsOK); the staging store holds the keys up to the    *)
(* last page (InstallOK); and a store on the disk is what its provenance   *)
(* says (TargetOK).                                                        *)
(***************************************************************************)
EXTENDS Snapshot, SumProofs, SequenceTheorems

-----------------------------------------------------------------------------
(* The inductive invariant *)

\* The balance table of a complete export at height h.
Balances(h) ==
    [s \in {k \in Scripts : BalanceAt(k, h) > 0} |-> [height |-> LatestRow(s, h), balance |-> BalanceAt(s, h)]]

\* Tables as the source store has them at height h.
HoldsSource(tb, h) ==
    /\ tb["balance"] = Balances(h)
    /\ tb["commit"] = generate_block_commit_snapshot(h)
    /\ tb["utxo"] = << >> \/ (tb["utxo"] = Source.utxo /\ h = Source.height)
    /\ tb["script"] = Source.script

\* The counts of an export at height h that no iterator error cut short.
FullCounts(counts, h) ==
    /\ counts["balance"] = Cardinality(DOMAIN Balances(h))
    /\ counts["utxo"] \in {0, Cardinality(DOMAIN Source.utxo)}
    /\ counts["script"] = Cardinality(DOMAIN Source.script)

\* The counts are those of the tables, and with no row missing the tables are
\* those of the source.
Complete(tb, counts, h) ==
    /\ \A t \in Tables : counts[t] = Cardinality(DOMAIN tb[t])
    /\ FullCounts(counts, h) => HoldsSource(tb, h)

IsTables(tb) == tb = [t \in Tables |-> tb[t]] /\ \A t \in Tables : IsTable(tb[t])

IsFile(f) ==
    /\ f = [tables |-> f.tables, meta |-> f.meta, cut |-> f.cut, damaged |-> f.damaged]
    /\ f.cut \in BOOLEAN /\ f.damaged \in BOOLEAN
    /\ IsTables(f.tables)

IsMeta(meta, h) == meta.height = h /\ \A t \in Tables : meta.counts[t] \in Nat

\* A file with metadata: damage changes the rows and not the counts.
FileOK(f, h) ==
    /\ IsFile(f)
    /\ f.meta # None =>
          /\ IsMeta(f.meta, h)
          /\ ~f.cut => FullCounts(f.meta.counts, h)
          /\ ~f.damaged => Complete(f.tables, f.meta.counts, h)

\* A manifest describes a file as it was exported.
ManifestOK(m, h) ==
    /\ m.height = h
    /\ m.stateRef.height = h
    /\ Complete(m.sha[1], m.sha[2].counts, h)

ArtifactsOK ==
    /\ files = [h \in Heights |-> files[h]]
    /\ \A h \in Heights : files[h] # None => FileOK(files[h], h)
    /\ manifests = [h \in Heights |-> manifests[h]]
    /\ \A h \in Heights : manifests[h] # None => ManifestOK(manifests[h], h)
    /\ signatures = [h \in Heights |-> signatures[h]]
    /\ signed = [k \in Keys |-> signed[k]]
    /\ \A h \in Heights : signatures[h] # None =>
          signatures[h].key \in Keys /\ signatures[h].of.sha[1] \in signed[signatures[h].key]

\* The exporter's steps after the table t.
After(t) ==
    CASE t = "balance" -> {"utxo", "commit", "script", "meta", "manifest", "sign"}
      [] t = "utxo" -> {"commit", "script", "meta", "manifest", "sign"}
      [] t = "commit" -> {"script", "meta", "manifest", "sign"}
      [] t = "script" -> {"meta", "manifest", "sign"}

ExportPCs == {"balance", "utxo", "commit", "script", "meta", "manifest", "sign"}

\* The shards of table t that the export e has written.
Written(e, t) ==
    IF e.pc = t THEN AllShards \ e.shards
    ELSE IF e.pc \in After(t) THEN AllShards ELSE {}

InShards(rows, shards) == Restrict(rows, {k \in DOMAIN rows : ShardOf(k) \in shards})

\* The rows of the source that the export e writes to the table t.
SourceTable(e, t) ==
    CASE t = "balance" -> Balances(e.target)
      [] t = "utxo" -> IF e.utxo THEN Source.utxo ELSE << >>
      [] t = "script" -> Source.script

PartOf(f, g) == DOMAIN f \subseteq DOMAIN g /\ \A k \in DOMAIN f : f[k] = g[k]

IsExport(e) ==
    /\ e \in [pc : ExportPCs \cup {"idle"}, target : Heights \cup {0}, utxo : BOOLEAN,
             key : Keys \cup {None}, shards : SUBSET AllShards, counts : [Tables -> Nat]]
    /\ e.pc # "idle" =>
          /\ e.target \in Heights
          /\ e.utxo => e.target = Source.height
          /\ e.utxo \/ e.pc # "utxo"

\* The file f that the export e is writing: which rows it has, and that every
\* one was counted.
ExportedOK(e, f) ==
    /\ IsFile(f) /\ ~f.damaged
    /\ \A t \in Tables : e.counts[t] = Cardinality(DOMAIN f.tables[t])
    /\ \A t \in Sharded :
          /\ PartOf(f.tables[t], InShards(SourceTable(e, t), Written(e, t)))
          /\ ~f.cut => f.tables[t] = InShards(SourceTable(e, t), Written(e, t))
    /\ f.tables["commit"] = IF e.pc \in After("commit") THEN generate_block_commit_snapshot(e.target) ELSE << >>
    /\ e.pc \in {"balance", "utxo", "commit", "script", "meta"} => f.meta = None
    /\ e.pc \in {"manifest", "sign"} => f.meta = [height |-> e.target, counts |-> e.counts]

ExportOK ==
    /\ IsExport(export)
    /\ export.pc # "idle" => ExportedOK(export, files[export.target])
    /\ export.pc = "sign" =>
          /\ export.key # None
          /\ manifests[export.target].sha = calc_hash(files[export.target])

IsStore(s) ==
    /\ s = [height |-> s.height, tables |-> s.tables, provenance |-> s.provenance,
            cut |-> s.cut, damaged |-> s.damaged]
    /\ s.tables = [t \in Tables |-> s.tables[t]]

Before(t) ==
    CASE t = "balance" -> {}
      [] t = "utxo" -> {"balance"}
      [] t = "commit" -> {"balance", "utxo"}
      [] t = "script" -> {"balance", "utxo", "commit"}
      [] t = "height" -> Tables

UpTo(rows, last) == {k \in DOMAIN rows : k <= last}

\* How far the installation i has filled the staging store from the file f.
\* Where the rows and the counts of the file agree, because it is as it was
\* exported or a manifest describes it, the tables that are done are complete.
StagedOK(i, f) ==
    /\ i.table \in Tables \cup {"height"}
    /\ i.named # None \/ ~f.damaged => \A t \in Before(i.table) : i.staged.tables[t] = f.tables[t]
    /\ \A t \in Tables \ (Before(i.table) \cup {i.table}) : i.staged.tables[t] = << >>
    /\ i.table \in Tables =>
          /\ i.staged.tables[i.table] = Restrict(f.tables[i.table], UpTo(f.tables[i.table], i.last))
          /\ i.done = Cardinality(UpTo(f.tables[i.table], i.last))
          /\ f.meta.counts[i.table] = 0 => i.last = -1

\* What holds of a store that was installed, and of the one about to be; by
\* gives what each key has signed.
StoreOK(s, by) ==
    /\ s.height \in Heights \cup {0, Local}
    /\ (/\ s.provenance # None
        /\ s.provenance.verified # "missing" \/ ~s.damaged
        /\ ~s.cut)
       => IsASourceState(s)
    /\ s.provenance # None /\ s.provenance.mode = "signed" =>
          /\ s.provenance.key \in Trusted
          /\ s.tables \in by[s.provenance.key]

InstallOK ==
    /\ install = [pc |-> install.pc, mode |-> install.mode, from |-> install.from, named |-> install.named,
                  staged |-> install.staged, table |-> install.table, last |-> install.last, done |-> install.done]
    /\ install.pc \in {"idle", "check", "stage", "backup", "promote", "panicked"}
    /\ install.last \in Nat \cup {-1} /\ install.done \in Nat
    /\ install.pc # "idle" =>
          /\ export.pc = "idle"
          /\ install.from \in Heights /\ files[install.from] # None
          /\ install.named # None => install.named \in Heights /\ manifests[install.named] # None
          /\ IsStore(install.staged)
    /\ install.pc = "check" => install.staged = EmptyStore
    /\ install.pc \in {"check", "stage", "backup"} => live # None
    /\ install.pc = "promote" => live = None /\ Len(backups) >= 1
    /\ install.pc \in {"stage", "backup", "promote"} => TrustSatisfied /\ FileAccepted
    /\ install.pc = "stage" => StagedOK(install, File)
    /\ install.pc \in {"backup", "promote"} => StoreOK(install.staged, signed)
    /\ install.pc = "panicked" => File.damaged

TargetOK ==
    /\ backups = [i \in 1..Len(backups) |-> backups[i]] /\ Len(backups) \in Nat
    /\ \A i \in 1..Len(backups) : StoreOK(backups[i], signed)
    /\ live # None => StoreOK(live, signed)
    /\ live = LocalStore \/ \E i \in 1..Len(backups) : backups[i] = LocalStore

CountersOK ==
    /\ exports \in Nat /\ installs \in Nat /\ faults \in Nat
    /\ exports <= MaxExports /\ installs <= MaxInstalls /\ faults <= MaxFaults

IInv == ArtifactsOK /\ ExportOK /\ InstallOK /\ TargetOK /\ CountersOK
-----------------------------------------------------------------------------
(* Tables *)

LEMMA EmptyTable ==
    /\ IsTable(<< >>) /\ DOMAIN << >> = {} /\ Cardinality({}) = 0
    /\ \A f : IsTable(f) /\ DOMAIN f = {} => f = << >>
    /\ \A f : Restrict(f, {}) = << >>
<1>1. IsFiniteSet({}) /\ Cardinality({}) = 0
  BY FS_EmptySet
<1>2. DOMAIN << >> = {} /\ << >> = [k \in DOMAIN << >> |-> (<< >>)[k]]
  OBVIOUS
<1>3. ASSUME NEW f PROVE Restrict(f, {}) = << >>
  BY DEF Restrict
<1> QED
  BY <1>1, <1>2, <1>3 DEF IsTable

LEMMA RestrictTable ==
    ASSUME NEW f, IsTable(f), NEW S, S \subseteq DOMAIN f
    PROVE  /\ IsTable(Restrict(f, S)) /\ DOMAIN Restrict(f, S) = S
           /\ \A k \in S : Restrict(f, S)[k] = f[k]
<1>1. IsFiniteSet(S)
  BY FS_Subset DEF IsTable
<1> QED
  BY <1>1 DEF IsTable, Restrict

LEMMA RestrictAll ==
    ASSUME NEW f, IsTable(f)
    PROVE  Restrict(f, DOMAIN f) = f
BY DEF IsTable, Restrict

\* Writing over a table keys that it does not have.
LEMMA PutTable ==
    ASSUME NEW f, NEW g, IsTable(f), IsTable(g)
    PROVE  /\ IsTable(Put(f, g)) /\ DOMAIN Put(f, g) = DOMAIN f \cup DOMAIN g
           /\ \A k \in DOMAIN g : Put(f, g)[k] = g[k]
           /\ \A k \in DOMAIN f \ DOMAIN g : Put(f, g)[k] = f[k]
           /\ DOMAIN f \cap DOMAIN g = {} =>
                 Cardinality(DOMAIN Put(f, g)) = Cardinality(DOMAIN f) + Cardinality(DOMAIN g)
<1>1. DOMAIN Put(f, g) = DOMAIN f \cup DOMAIN g
  BY DEF Put
<1>2. IsFiniteSet(DOMAIN f) /\ IsFiniteSet(DOMAIN g)
  BY DEF IsTable
<1>3. /\ IsFiniteSet(DOMAIN f \cup DOMAIN g)
      /\ Cardinality(DOMAIN f \cup DOMAIN g) =
            Cardinality(DOMAIN f) + Cardinality(DOMAIN g) - Cardinality(DOMAIN f \cap DOMAIN g)
  BY <1>2, FS_Union
<1>4. Cardinality({}) = 0 /\ Cardinality(DOMAIN f) \in Nat /\ Cardinality(DOMAIN g) \in Nat
  BY <1>2, FS_EmptySet, FS_CardinalityType
<1>5. DOMAIN f \cap DOMAIN g = {} =>
         Cardinality(DOMAIN Put(f, g)) = Cardinality(DOMAIN f) + Cardinality(DOMAIN g)
  <2> SUFFICES ASSUME DOMAIN f \cap DOMAIN g = {}
               PROVE  Cardinality(DOMAIN Put(f, g)) = Cardinality(DOMAIN f) + Cardinality(DOMAIN g)
    OBVIOUS
  <2>1. Cardinality(DOMAIN f \cap DOMAIN g) = 0
    BY <1>4
  <2> QED
    BY <1>1, <1>3, <1>4, <2>1
<1>6. Put(f, g) = [k \in DOMAIN Put(f, g) |-> Put(f, g)[k]]
  BY DEF Put
<1>7. IsTable(Put(f, g))
  BY <1>1, <1>3, <1>6 DEF IsTable
<1> QED
  BY <1>1, <1>5, <1>7 DEF Put

\* Two parts of a table with different keys, put together.
LEMMA PutRestricts ==
    ASSUME NEW f, IsTable(f), NEW S, NEW T, S \subseteq DOMAIN f, T \subseteq DOMAIN f
    PROVE  Put(Restrict(f, S), Restrict(f, T)) = Restrict(f, S \cup T)
BY DEF IsTable, Restrict, Put

LEMMA TableSize ==
    ASSUME NEW f, IsTable(f), NEW S, S \subseteq DOMAIN f
    PROVE  /\ IsFiniteSet(S) /\ Cardinality(S) \in Nat /\ Cardinality(DOMAIN f) \in Nat
           /\ Cardinality(S) <= Cardinality(DOMAIN f)
           /\ Cardinality(S) = Cardinality(DOMAIN f) => S = DOMAIN f
BY FS_Subset, FS_CardinalityType DEF IsTable

-----------------------------------------------------------------------------
(* Reading the source store *)

LEMMA RowOfScript ==
    ASSUME NEW s \in Scripts
    PROVE  s \in Nat
<1>1. PICK r \in DOMAIN Source.rows : s = r[1]
  BY DEF Scripts
<1>2. r \in Nat \X (0..Source.height)
  BY <1>1, SourceAssumption
<1> QED
  BY <1>1, <1>2

LEMMA ScriptsAreFinite == Scripts \subseteq Nat /\ IsFiniteSet(Scripts)
<1> DEFINE first == [r \in DOMAIN Source.rows |-> r[1]]
<1>1. first \in Surjection(DOMAIN Source.rows, Scripts)
  BY DEF Scripts, Surjection
<1>2. IsFiniteSet(DOMAIN Source.rows)
  BY SourceAssumption
<1>3. IsFiniteSet(Scripts)
  BY <1>1, <1>2, FS_Surjection
<1> QED
  BY <1>3, RowOfScript

LEMMA LatestRowExists ==
    ASSUME NEW h \in Nat, NEW s, RowHeights(s, h) # {}
    PROVE  LatestRow(s, h) \in RowHeights(s, h)
<1> DEFINE below == {h - g : g \in RowHeights(s, h)}
<1>0. \A g \in RowHeights(s, h) : g \in Nat /\ h - g \in Nat
  BY DEF RowHeights
<1>1. below \subseteq Nat /\ below # {}
  BY ONLY RowHeights(s, h) # {}, <1>0
<1> HIDE DEF below
<1>2. PICK m \in below : \A n \in below : m <= n
  BY <1>1, LeastNat
<1>3. PICK g \in RowHeights(s, h) : m = h - g
  BY <1>2 DEF below
<1>4. ASSUME NEW x \in RowHeights(s, h) PROVE x <= g
  <2>1. h - x \in below
    BY DEF below
  <2> QED
    BY <2>1, <1>2, <1>3 DEF RowHeights
<1> QED
  BY <1>3, <1>4 DEF LatestRow

LEMMA BalanceIsNat ==
    ASSUME NEW h \in Nat, NEW s
    PROVE  BalanceAt(s, h) \in Nat
<1>1. CASE RowHeights(s, h) = {}
  BY <1>1 DEF BalanceAt
<1>2. CASE RowHeights(s, h) # {}
  <2>1. <<s, LatestRow(s, h)>> \in DOMAIN Source.rows
    BY <1>2, LatestRowExists DEF RowHeights
  <2> QED
    BY <1>2, <2>1, SourceAssumption DEF BalanceAt
<1> QED
  BY <1>1, <1>2

LEMMA HeightsAreNat == Heights \subseteq Nat /\ Source.height \in Nat /\ \A h \in Heights : h <= Source.height
BY SourceAssumption DEF Heights

LEMMA BalancesTable ==
    ASSUME NEW h
    PROVE  /\ IsTable(Balances(h))
           /\ DOMAIN Balances(h) = {k \in Scripts : BalanceAt(k, h) > 0}
<1>1. DOMAIN Balances(h) = {k \in Scripts : BalanceAt(k, h) > 0}
  BY DEF Balances
<1>2. IsFiniteSet(DOMAIN Balances(h))
  BY <1>1, ScriptsAreFinite, FS_Subset
<1>3. Balances(h) = [k \in DOMAIN Balances(h) |-> Balances(h)[k]]
  BY DEF Balances
<1> QED
  BY <1>1, <1>2, <1>3, ScriptsAreFinite DEF IsTable

LEMMA ShardInRange ==
    ASSUME NEW k \in Nat
    PROVE  ShardOf(k) \in AllShards
BY SnapshotBounds DEF ShardOf, AllShards

LEMMA InShardsTable ==
    ASSUME NEW f, IsTable(f), NEW W
    PROVE  /\ IsTable(InShards(f, W))
           /\ DOMAIN InShards(f, W) = {k \in DOMAIN f : ShardOf(k) \in W}
<1> DEFINE S == {k \in DOMAIN f : ShardOf(k) \in W}
<1>1. S \subseteq DOMAIN f /\ InShards(f, W) = Restrict(f, S)
  BY DEF InShards
<1> HIDE DEF S
<1>2. IsTable(Restrict(f, S)) /\ DOMAIN Restrict(f, S) = S
  BY <1>1, RestrictTable
<1> QED
  BY <1>1, <1>2 DEF S

LEMMA NoShards == \A f : InShards(f, {}) = << >>
BY EmptyTable DEF InShards

LEMMA AllTheShards ==
    ASSUME NEW f, IsTable(f)
    PROVE  InShards(f, AllShards) = f
<1>1. {k \in DOMAIN f : ShardOf(k) \in AllShards} = DOMAIN f
  BY ShardInRange DEF IsTable
<1> QED
  BY <1>1, RestrictAll DEF InShards

\* One more shard.
LEMMA OneMoreShard ==
    ASSUME NEW f, IsTable(f), NEW W, NEW s, s \notin W
    PROVE  /\ Put(InShards(f, W), InShards(f, {s})) = InShards(f, W \cup {s})
           /\ DOMAIN InShards(f, W) \cap DOMAIN InShards(f, {s}) = {}
<1> DEFINE A == {k \in DOMAIN f : ShardOf(k) \in W}
           B == {k \in DOMAIN f : ShardOf(k) \in {s}}
           C == {k \in DOMAIN f : ShardOf(k) \in W \cup {s}}
<1>1. A \subseteq DOMAIN f /\ B \subseteq DOMAIN f /\ A \cup B = C /\ A \cap B = {}
  OBVIOUS
<1>2. InShards(f, W) = Restrict(f, A) /\ InShards(f, {s}) = Restrict(f, B) /\ InShards(f, W \cup {s}) = Restrict(f, C)
  BY DEF InShards
<1> HIDE DEF A, B, C
<1>3. Put(Restrict(f, A), Restrict(f, B)) = Restrict(f, A \cup B)
  BY <1>1, PutRestricts
<1>4. DOMAIN Restrict(f, A) = A /\ DOMAIN Restrict(f, B) = B
  BY <1>1, RestrictTable
<1> QED
  BY <1>1, <1>2, <1>3, <1>4

\* The exporter's reads are the shards of the source's tables.
LEMMA ReadsAreShards ==
    ASSUME NEW h, NEW s
    PROVE  /\ generate_balance_history_snapshot_sharded(h, s) = InShards(Balances(h), {s})
           /\ generate_utxo_snapshot_sharded(s) = InShards(Source.utxo, {s})
           /\ generate_script_registry_snapshot_sharded(s) = InShards(Source.script, {s})
<1>1. generate_utxo_snapshot_sharded(s) = InShards(Source.utxo, {s})
  BY DEF generate_utxo_snapshot_sharded, InShards
<1>2. generate_script_registry_snapshot_sharded(s) = InShards(Source.script, {s})
  BY DEF generate_script_registry_snapshot_sharded, InShards
<1> DEFINE K == {k \in Scripts : ShardOf(k) = s /\ BalanceAt(k, h) > 0}
<1>3. K = {k \in DOMAIN Balances(h) : ShardOf(k) \in {s}}
  BY BalancesTable
<1>4. InShards(Balances(h), {s}) = [k \in K |-> Balances(h)[k]]
  BY <1>3 DEF InShards, Restrict
<1>5. \A k \in K : Balances(h)[k] = [height |-> LatestRow(k, h), balance |-> BalanceAt(k, h)]
  BY DEF Balances
<1>6. generate_balance_history_snapshot_sharded(h, s) =
         [k \in K |-> [height |-> LatestRow(k, h), balance |-> BalanceAt(k, h)]]
  BY DEF generate_balance_history_snapshot_sharded
<1>7. generate_balance_history_snapshot_sharded(h, s) = InShards(Balances(h), {s})
  BY <1>4, <1>5, <1>6
<1> QED
  BY <1>1, <1>2, <1>7

LEMMA CommitsTable ==
    ASSUME NEW h
    PROVE  IsTable(generate_block_commit_snapshot(h))
<1> DEFINE S == {g \in DOMAIN Source.commit : g <= h}
<1>1. IsTable(Source.commit) /\ S \subseteq DOMAIN Source.commit
  BY SourceAssumption
<1>2. generate_block_commit_snapshot(h) = Restrict(Source.commit, S)
  BY DEF generate_block_commit_snapshot
<1> HIDE DEF S
<1> QED
  BY <1>1, <1>2, RestrictTable

LEMMA SourceTableIs ==
    ASSUME NEW e, NEW t \in Sharded
    PROVE  IsTable(SourceTable(e, t))
<1>1. IsTable(Balances(e.target))
  BY BalancesTable
<1>2. IsTable(Source.utxo) /\ IsTable(Source.script)
  BY SourceAssumption
<1>3. IsTable(IF e.utxo THEN Source.utxo ELSE << >>)
  BY <1>2, EmptyTable
<1> QED
  BY <1>1, <1>2, <1>3 DEF SourceTable, Sharded

\* A part of a table with as many rows is the table.
LEMMA WholePart ==
    ASSUME NEW f, NEW g, IsTable(f), IsTable(g), PartOf(f, g)
    PROVE  /\ Cardinality(DOMAIN f) = Cardinality(DOMAIN g) => f = g
           /\ g = << >> => f = << >>
<1>1. Cardinality(DOMAIN f) = Cardinality(DOMAIN g) => DOMAIN f = DOMAIN g
  BY TableSize DEF PartOf
<1>2. ASSUME DOMAIN f = DOMAIN g PROVE f = g
  BY <1>2 DEF PartOf, IsTable
<1>3. g = << >> => DOMAIN f = {}
  BY EmptyTable DEF PartOf
<1> QED
  BY <1>1, <1>2, <1>3, EmptyTable

\* Rows of one more shard, or a part of them.
LEMMA OneMorePart ==
    ASSUME NEW src, IsTable(src), NEW W, NEW s, s \notin W, NEW f, PartOf(f, InShards(src, W)),
           NEW rows, PartOf(rows, InShards(src, {s}))
    PROVE  /\ DOMAIN f \cap DOMAIN rows = {}
           /\ PartOf(Put(f, rows), InShards(src, W \cup {s}))
<1>1. /\ DOMAIN InShards(src, W) = {k \in DOMAIN src : ShardOf(k) \in W}
      /\ DOMAIN InShards(src, {s}) = {k \in DOMAIN src : ShardOf(k) \in {s}}
      /\ DOMAIN InShards(src, W \cup {s}) = {k \in DOMAIN src : ShardOf(k) \in W \cup {s}}
  BY InShardsTable
<1>2. \A V : \A k \in DOMAIN InShards(src, V) : InShards(src, V)[k] = src[k]
  BY DEF InShards, Restrict
<1>3. DOMAIN f \subseteq DOMAIN InShards(src, W) /\ DOMAIN rows \subseteq DOMAIN InShards(src, {s})
  BY DEF PartOf
<1>4. DOMAIN f \cap DOMAIN rows = {}
  BY <1>1, <1>3
<1>5. DOMAIN Put(f, rows) = DOMAIN f \cup DOMAIN rows
  BY DEF Put
<1>6. DOMAIN Put(f, rows) \subseteq DOMAIN InShards(src, W \cup {s})
  BY <1>1, <1>3, <1>5
<1>7. ASSUME NEW k \in DOMAIN Put(f, rows) PROVE Put(f, rows)[k] = InShards(src, W \cup {s})[k]
  <2>1. InShards(src, W \cup {s})[k] = src[k]
    BY <1>2, <1>6
  <2>2. CASE k \in DOMAIN rows
    BY <2>1, <2>2, <1>2, <1>3 DEF Put, PartOf
  <2>3. CASE k \in DOMAIN f \ DOMAIN rows
    BY <2>1, <2>3, <1>2, <1>3 DEF Put, PartOf
  <2> QED
    BY <1>5, <2>2, <2>3
<1> QED
  BY <1>4, <1>6, <1>7 DEF PartOf

-----------------------------------------------------------------------------
(* Complete exports *)

LEMMA HoldsSourceIsASourceState ==
    ASSUME NEW store, store.height \in Heights, HoldsSource(store.tables, store.height)
    PROVE  IsASourceState(store)
<1> DEFINE h  == store.height
           tb == store.tables["balance"]
<1>1. h \in Nat /\ tb = Balances(h)
  BY HeightsAreNat DEF HoldsSource
<1>2. ASSUME NEW s \in Scripts
      PROVE  BalanceAt(s, h) = IF s \in DOMAIN tb THEN tb[s].balance ELSE 0
  <2>1. BalanceAt(s, h) \in Nat
    BY <1>1, BalanceIsNat
  <2>2. CASE BalanceAt(s, h) > 0
    <3>1. s \in DOMAIN tb /\ tb[s] = [height |-> LatestRow(s, h), balance |-> BalanceAt(s, h)]
      BY <2>2, <1>1 DEF Balances
    <3> QED
      BY <3>1
  <2>3. CASE ~(BalanceAt(s, h) > 0)
    <3>1. s \notin DOMAIN tb
      BY <2>3, <1>1, BalancesTable
    <3> QED
      BY <2>1, <2>3, <3>1
  <2> QED
    BY <2>2, <2>3
<1>3. store.tables["commit"] = Restrict(Source.commit, {g \in DOMAIN Source.commit : g <= h})
  BY DEF HoldsSource, generate_block_commit_snapshot
<1> QED
  BY <1>2, <1>3 DEF HoldsSource, IsASourceState

\* What the metadata of a finished export says of its tables.
LEMMA ExportComplete ==
    ASSUME NEW e, IsExport(e), e.pc \in {"meta", "manifest"}, NEW f, ExportedOK(e, f)
    PROVE  /\ Complete(f.tables, e.counts, e.target)
           /\ ~f.cut => FullCounts(e.counts, e.target)
<1>1. PICK h : h = e.target
  OBVIOUS
<1>2. (\A t \in Sharded : Written(e, t) = AllShards) /\ e.pc \in After("commit")
  BY DEF Written, After, Sharded
<1>3. ASSUME NEW t \in Sharded
      PROVE  /\ IsTable(SourceTable(e, t)) /\ IsTable(f.tables[t])
             /\ PartOf(f.tables[t], SourceTable(e, t))
             /\ ~f.cut => f.tables[t] = SourceTable(e, t)
  <2>1. IsTable(SourceTable(e, t))
    BY SourceTableIs
  <2>2. InShards(SourceTable(e, t), AllShards) = SourceTable(e, t)
    BY <2>1, AllTheShards
  <2>3. IsTable(f.tables[t])
    BY DEF ExportedOK, IsFile, IsTables, Sharded, Tables
  <2>4. /\ PartOf(f.tables[t], InShards(SourceTable(e, t), Written(e, t)))
        /\ ~f.cut => f.tables[t] = InShards(SourceTable(e, t), Written(e, t))
    BY DEF ExportedOK
  <2> QED
    BY <1>2, <2>1, <2>2, <2>3, <2>4
<1>4. /\ \A t \in Tables : e.counts[t] = Cardinality(DOMAIN f.tables[t])
      /\ f.tables["commit"] = generate_block_commit_snapshot(h)
  BY <1>1, <1>2 DEF ExportedOK
<1>5. /\ SourceTable(e, "balance") = Balances(h) /\ SourceTable(e, "script") = Source.script
      /\ SourceTable(e, "utxo") = IF e.utxo THEN Source.utxo ELSE << >>
      /\ \A t \in Sharded : t \in Tables
      /\ "balance" \in Sharded /\ "utxo" \in Sharded /\ "script" \in Sharded
  BY <1>1 DEF SourceTable, Sharded, Tables
<1>6. e.utxo => h = Source.height
  BY <1>1 DEF IsExport
<1>7. \A t \in Sharded : e.counts[t] = Cardinality(DOMAIN SourceTable(e, t)) => f.tables[t] = SourceTable(e, t)
  BY <1>3, <1>4, <1>5, WholePart
<1>8. ~f.cut => FullCounts(e.counts, h)
  <2>1. ASSUME ~f.cut PROVE \A t \in Sharded : e.counts[t] = Cardinality(DOMAIN SourceTable(e, t))
    BY <2>1, <1>3, <1>4, <1>5
  <2>2. e.utxo \in BOOLEAN
    BY DEF IsExport
  <2> QED
    BY <2>1, <2>2, <1>5, EmptyTable DEF FullCounts
<1>9. ASSUME FullCounts(e.counts, h) PROVE HoldsSource(f.tables, h)
  <2>1. f.tables["balance"] = Balances(h) /\ f.tables["script"] = Source.script
    BY <1>5, <1>7, <1>9 DEF FullCounts
  <2>2. CASE e.counts["utxo"] = 0
    <3>1. Cardinality(DOMAIN f.tables["utxo"]) = 0 /\ IsTable(f.tables["utxo"])
      BY <2>2, <1>3, <1>4, <1>5
    <3>2. DOMAIN f.tables["utxo"] = {}
      BY <3>1, FS_EmptySet DEF IsTable
    <3>3. f.tables["utxo"] = << >>
      BY <3>1, <3>2, EmptyTable
    <3> QED
      BY <2>1, <3>3, <1>4 DEF HoldsSource
  <2>3. CASE e.utxo /\ e.counts["utxo"] = Cardinality(DOMAIN Source.utxo)
    <3>1. f.tables["utxo"] = Source.utxo
      BY <2>3, <1>5, <1>7
    <3> QED
      BY <2>1, <2>3, <3>1, <1>4, <1>6 DEF HoldsSource
  <2>4. CASE ~e.utxo
    <3>1. IsTable(f.tables["utxo"]) /\ PartOf(f.tables["utxo"], << >>) /\ IsTable(<< >>)
      BY <2>4, <1>3, <1>5, EmptyTable
    <3>2. f.tables["utxo"] = << >>
      BY <3>1, WholePart
    <3> QED
      BY <2>1, <3>2, <1>4 DEF HoldsSource
  <2> QED
    BY <2>2, <2>3, <2>4, <1>9 DEF FullCounts
<1> QED
  BY <1>1, <1>4, <1>8, <1>9 DEF Complete

-----------------------------------------------------------------------------
(* The pages of an installation *)

LEMMA UpToNone ==
    ASSUME NEW f, IsTable(f)
    PROVE  UpTo(f, -1) = {} /\ Restrict(f, UpTo(f, -1)) = << >>
<1>1. UpTo(f, -1) = {}
  BY DEF UpTo, IsTable
<1> QED
  BY <1>1, EmptyTable

LEMMA PageIsNew ==
    ASSUME NEW f, IsTable(f), NEW last \in Nat \cup {-1}
    PROVE  /\ PageKeys(f, last) \subseteq DOMAIN f /\ UpTo(f, last) \subseteq DOMAIN f
           /\ UpTo(f, last) \cap PageKeys(f, last) = {}
           /\ IsFiniteSet(PageKeys(f, last)) /\ IsFiniteSet(UpTo(f, last))
           /\ Cardinality(PageKeys(f, last)) \in Nat
           /\ Cardinality(UpTo(f, last)) \in Nat
           /\ Cardinality(UpTo(f, last) \cup PageKeys(f, last)) =
                 Cardinality(UpTo(f, last)) + Cardinality(PageKeys(f, last))
<1> DEFINE P == PageKeys(f, last)
           U == UpTo(f, last)
<1>1. P \subseteq DOMAIN f /\ U \subseteq DOMAIN f
  BY DEF PageKeys, UpTo
<1>2. U \cap P = {}
  BY DEF PageKeys, UpTo, IsTable
<1> HIDE DEF P, U
<1>3. IsFiniteSet(P) /\ IsFiniteSet(U) /\ Cardinality(P) \in Nat /\ Cardinality(U) \in Nat
  BY <1>1, TableSize
<1>4. Cardinality(U \cup P) = Cardinality(U) + Cardinality(P) - Cardinality(U \cap P)
  BY <1>3, FS_Union
<1>5. Cardinality(U \cap P) = 0
  BY <1>2, FS_EmptySet
<1>6. Cardinality(U \cup P) = Cardinality(U) + Cardinality(P)
  BY <1>3, <1>4, <1>5
<1> QED
  BY <1>1, <1>2, <1>3, <1>6 DEF P, U

\* A page that is not full ends the table: the first key it left out would
\* have PageSize keys before it.
LEMMA ShortPageIsLast ==
    ASSUME NEW f, IsTable(f), NEW last \in Nat \cup {-1}, LastPage(PageKeys(f, last))
    PROVE  UpTo(f, last) \cup PageKeys(f, last) = DOMAIN f
<1> DEFINE P    == PageKeys(f, last)
           left == {k \in DOMAIN f : k > last /\ k \notin P}
<1>1. SUFFICES ASSUME left # {} PROVE FALSE
  <2>1. ASSUME left = {}, NEW k \in DOMAIN f PROVE k \in UpTo(f, last) \cup P
    BY <2>1 DEF UpTo, IsTable
  <2>2. UpTo(f, last) \subseteq DOMAIN f /\ P \subseteq DOMAIN f
    BY PageIsNew
  <2> HIDE DEF left
  <2> QED
    BY <2>1, <2>2
<1>2. left \subseteq Nat
  BY DEF IsTable
<1>3. PICK k \in left : \A j \in left : k <= j
  BY <1>1, <1>2, LeastNat
<1> DEFINE B == {j \in DOMAIN f : j > last /\ j < k}
<1>4. B \subseteq P
  BY <1>2, <1>3 DEF IsTable
<1>5. ~(Cardinality(B) < PageSize)
  BY <1>3 DEF PageKeys
<1>6. IsFiniteSet(P) /\ Cardinality(P) \in Nat
  BY PageIsNew
<1> HIDE DEF P, B, left
<1>7. Cardinality(B) <= Cardinality(P) /\ Cardinality(B) \in Nat
  BY <1>4, <1>6, FS_Subset, FS_CardinalityType
<1>8. Cardinality(P) < PageSize
  BY DEF P, LastPage
<1> QED
  BY <1>5, <1>6, <1>7, <1>8, SnapshotBounds

LEMMA GreatestKey ==
    ASSUME NEW S, S \subseteq Nat, S # {}, IsFiniteSet(S)
    PROVE  LastKey(S) \in S /\ \A j \in S : j <= LastKey(S)
<1> DEFINE Above(x) == {y \in S : y > x}
           sizes    == {Cardinality(Above(x)) : x \in S}
<1>1. \A m \in S : IsFiniteSet(Above(m)) /\ Cardinality(Above(m)) \in Nat
  BY FS_Subset, FS_CardinalityType
<1>2. sizes \subseteq Nat /\ sizes # {}
  <2> HIDE DEF Above
  <2> QED
    BY <1>1
<1>3. PICK c \in sizes : \A d \in sizes : c <= d
  <2> HIDE DEF sizes
  <2> QED
    BY <1>2, LeastNat
<1>4. PICK m \in S : c = Cardinality(Above(m))
  OBVIOUS
<1>5. ASSUME NEW j \in S, j > m PROVE FALSE
  <2>1. Above(j) \subseteq Above(m) /\ j \in Above(m) /\ j \notin Above(j)
    <3>1. m \in Nat /\ j \in Nat /\ \A i \in S : i > j => i > m
      BY <1>5
    <3>2. Above(j) \subseteq Above(m)
      BY ONLY <3>1
    <3>3. j \in Above(m)
      BY <1>5
    <3>4. j \notin Above(j)
      BY ONLY <3>1
    <3> QED
      BY <3>2, <3>3, <3>4
  <2>2. Cardinality(Above(j)) \in sizes
    OBVIOUS
  <2> HIDE DEF Above, sizes
  <2>3. Cardinality(Above(j)) <= Cardinality(Above(m))
        /\ (Cardinality(Above(m)) = Cardinality(Above(j)) => Above(m) = Above(j))
    BY <1>1, <2>1, FS_Subset
  <2>4. Cardinality(Above(m)) <= Cardinality(Above(j))
    BY <2>2, <1>3, <1>4
  <2> QED
    BY <1>1, <2>1, <2>3, <2>4
<1>6. \A j \in S : j <= m
  BY <1>5
<1> QED
  BY <1>6 DEF LastKey

\* After a full page the keys that are done are those up to its last one.
LEMMA FullPage ==
    ASSUME NEW f, IsTable(f), NEW last \in Nat \cup {-1}, ~LastPage(PageKeys(f, last))
    PROVE  /\ LastKey(PageKeys(f, last)) \in Nat
           /\ UpTo(f, LastKey(PageKeys(f, last))) = UpTo(f, last) \cup PageKeys(f, last)
<1> DEFINE P == PageKeys(f, last)
           m == LastKey(P)
<1>1. IsFiniteSet(P) /\ Cardinality(P) \in Nat /\ P \subseteq DOMAIN f
  BY PageIsNew
<1>2. DOMAIN f \subseteq Nat /\ IsFiniteSet(DOMAIN f)
  BY DEF IsTable
<1>3. P # {}
  BY SnapshotBounds, FS_EmptySet DEF LastPage
<1>4. m \in P /\ \A j \in P : j <= m
  <2> HIDE DEF P
  <2> QED
    BY <1>1, <1>2, <1>3, GreatestKey
<1> HIDE DEF m
<1>5. ASSUME NEW k \in DOMAIN f, k <= m, k > last PROVE k \in P
  <2> DEFINE B(x) == {j \in DOMAIN f : j > last /\ j < x}
  <2>1. B(k) \subseteq B(m)
    BY <1>1, <1>2, <1>4, <1>5
  <2>2. Cardinality(B(m)) < PageSize
    BY <1>4 DEF PageKeys
  <2>3. IsFiniteSet(B(m)) /\ IsFiniteSet(B(k))
    BY <1>2, FS_Subset
  <2> HIDE DEF B
  <2>4. Cardinality(B(k)) <= Cardinality(B(m)) /\ Cardinality(B(k)) \in Nat /\ Cardinality(B(m)) \in Nat
    BY <2>1, <2>3, FS_Subset, FS_CardinalityType
  <2>5. Cardinality(B(k)) < PageSize
    BY <2>2, <2>4, SnapshotBounds
  <2> QED
    BY <1>5, <2>5 DEF PageKeys, B
<1>6. m > last
  BY <1>4 DEF PageKeys
<1>7. UpTo(f, m) \subseteq UpTo(f, last) \cup P
  <2> HIDE DEF P
  <2> QED
    BY <1>2, <1>5 DEF UpTo
<1>8. UpTo(f, last) \cup P \subseteq UpTo(f, m)
  <2> HIDE DEF P
  <2> QED
    BY <1>1, <1>2, <1>4, <1>6 DEF UpTo
<1> QED
  BY <1>1, <1>2, <1>4, <1>7, <1>8 DEF m

-----------------------------------------------------------------------------
(* The file an export writes *)

\* A file with rows written to its table t.
PutRows(f, t, rows) == [f EXCEPT !.tables[t] = Put(@, rows)]

LEMMA PutsAreRows ==
    ASSUME NEW f, NEW rows
    PROVE  /\ put_balance_history_entries(f, rows) = PutRows(f, "balance", rows)
           /\ put_utxo_entries(f, rows) = PutRows(f, "utxo", rows)
           /\ put_block_commit_entries(f, rows) = PutRows(f, "commit", rows)
           /\ put_script_registry_entries(f, rows) = PutRows(f, "script", rows)
BY DEF PutRows, put_balance_history_entries, put_utxo_entries, put_block_commit_entries,
       put_script_registry_entries

LEMMA PutRowsFile ==
    ASSUME NEW f, IsFile(f), NEW t \in Tables, NEW rows, IsTable(rows), NEW g, g = PutRows(f, t, rows)
    PROVE  /\ IsFile(g)
           /\ g.meta = f.meta /\ g.cut = f.cut /\ g.damaged = f.damaged
           /\ g.tables[t] = Put(f.tables[t], rows)
           /\ \A u \in Tables \ {t} : g.tables[u] = f.tables[u]
<1>1. /\ g.meta = f.meta /\ g.cut = f.cut /\ g.damaged = f.damaged
      /\ g.tables = [f.tables EXCEPT ![t] = Put(@, rows)]
      /\ g = [tables |-> g.tables, meta |-> g.meta, cut |-> g.cut, damaged |-> g.damaged]
  BY DEF PutRows, IsFile
<1>2. f.tables = [u \in Tables |-> f.tables[u]] /\ \A u \in Tables : IsTable(f.tables[u])
  BY DEF IsFile, IsTables
<1>3. /\ g.tables[t] = Put(f.tables[t], rows)
      /\ \A u \in Tables \ {t} : g.tables[u] = f.tables[u]
      /\ g.tables = [u \in Tables |-> g.tables[u]]
  BY <1>1, <1>2
<1>4. IsTable(Put(f.tables[t], rows))
  BY <1>2, PutTable
<1>5. \A u \in Tables : IsTable(g.tables[u])
  BY <1>2, <1>3, <1>4
<1> QED
  BY <1>1, <1>3, <1>5 DEF IsFile, IsTables

\* The counts follow the rows of a table that had none of them.
LEMMA CountsFollow ==
    ASSUME NEW f, IsFile(f), NEW t \in Tables, NEW rows, IsTable(rows),
           DOMAIN f.tables[t] \cap DOMAIN rows = {}, NEW g, g = PutRows(f, t, rows),
           NEW c \in [Tables -> Nat], \A u \in Tables : c[u] = Cardinality(DOMAIN f.tables[u]),
           NEW d, d = [c EXCEPT ![t] = @ + Cardinality(DOMAIN rows)]
    PROVE  d \in [Tables -> Nat] /\ \A u \in Tables : d[u] = Cardinality(DOMAIN g.tables[u])
<1>1. g.tables[t] = Put(f.tables[t], rows) /\ \A u \in Tables \ {t} : g.tables[u] = f.tables[u]
  BY PutRowsFile
<1>2. IsTable(f.tables[t])
  BY DEF IsFile, IsTables
<1>3. Cardinality(DOMAIN Put(f.tables[t], rows)) = Cardinality(DOMAIN f.tables[t]) + Cardinality(DOMAIN rows)
  BY <1>2, PutTable
<1>4. Cardinality(DOMAIN rows) \in Nat
  BY TableSize
<1>5. d[t] = Cardinality(DOMAIN g.tables[t]) /\ d[t] \in Nat
  BY <1>1, <1>3, <1>4
<1>6. \A u \in Tables \ {t} : d[u] = Cardinality(DOMAIN g.tables[u]) /\ d[u] \in Nat
  BY <1>1
<1>7. d = [u \in Tables |-> d[u]]
  OBVIOUS
<1> QED
  BY <1>5, <1>6, <1>7

\* The export e after a shard of the table it is at.
Counted(e, rows, shard) ==
    [e EXCEPT !.counts[e.pc] = @ + Cardinality(DOMAIN rows), !.shards = @ \ {shard}]

LEMMA CountedIs ==
    ASSUME NEW e, IsExport(e), e.pc \in Tables, NEW rows, NEW s, NEW e2, e2 = Counted(e, rows, s)
    PROVE  /\ e2.pc = e.pc /\ e2.target = e.target /\ e2.utxo = e.utxo /\ e2.key = e.key
           /\ e2.shards = e.shards \ {s}
           /\ e2.counts = [e.counts EXCEPT ![e.pc] = @ + Cardinality(DOMAIN rows)]
           /\ e2 = [pc |-> e2.pc, target |-> e2.target, utxo |-> e2.utxo, key |-> e2.key,
                    shards |-> e2.shards, counts |-> e2.counts]
BY DEF Counted, IsExport

\* One more shard is written.
LEMMA WrittenGrows ==
    ASSUME NEW e, NEW e2, NEW s \in e.shards, e2.pc = e.pc, e2.shards = e.shards \ {s},
           e.shards \subseteq AllShards
    PROVE  /\ Written(e2, e.pc) = Written(e, e.pc) \cup {s} /\ s \notin Written(e, e.pc)
           /\ \A t : t # e.pc => Written(e2, t) = Written(e, t)
BY DEF Written

\* What a shard s of table t changes: in the export, e to e2, and in its file,
\* f to g.
Wrote(t, s, rows, e, f, e2, g) ==
    /\ IsExport(e2) /\ e2.pc = t /\ e2.target = e.target /\ e2.utxo = e.utxo
    /\ IsFile(g) /\ g.damaged = FALSE /\ g.meta = None /\ g.cut = f.cut
    /\ \A u \in Tables : e2.counts[u] = Cardinality(DOMAIN g.tables[u])
    /\ g.tables[t] = Put(f.tables[t], rows)
    /\ \A u \in Tables \ {t} : g.tables[u] = f.tables[u]
    /\ Written(e2, t) = Written(e, t) \cup {s} /\ s \notin Written(e, t)
    /\ \A u : u # t => Written(e2, u) = Written(e, u)

LEMMA ShardWrites ==
    ASSUME NEW e, IsExport(e), NEW t \in Sharded, e.pc = t, NEW s \in e.shards,
           NEW f, ExportedOK(e, f), NEW rows, IsTable(rows),
           DOMAIN f.tables[t] \cap DOMAIN rows = {},
           NEW g, g = PutRows(f, t, rows), NEW e2, e2 = Counted(e, rows, s)
    PROVE  Wrote(t, s, rows, e, f, e2, g)
<1>1. t \in Tables
  BY DEF Tables, Sharded
<1>2. /\ e2.pc = t /\ e2.target = e.target /\ e2.utxo = e.utxo /\ e2.key = e.key
      /\ e2.shards = e.shards \ {s}
      /\ e2.counts = [e.counts EXCEPT ![t] = @ + Cardinality(DOMAIN rows)]
      /\ e2 = [pc |-> e2.pc, target |-> e2.target, utxo |-> e2.utxo, key |-> e2.key,
               shards |-> e2.shards, counts |-> e2.counts]
  BY <1>1, CountedIs
<1>3. IsFile(f) /\ f.damaged = FALSE /\ f.meta = None
      /\ \A u \in Tables : e.counts[u] = Cardinality(DOMAIN f.tables[u])
  BY DEF ExportedOK, IsFile, Sharded
<1>4. e.counts \in [Tables -> Nat] /\ e.shards \subseteq AllShards
  BY DEF IsExport
<1>5. e2.counts \in [Tables -> Nat] /\ \A u \in Tables : e2.counts[u] = Cardinality(DOMAIN g.tables[u])
  BY <1>1, <1>2, <1>3, <1>4, CountsFollow
<1>6. /\ IsFile(g) /\ g.meta = f.meta /\ g.cut = f.cut /\ g.damaged = f.damaged
      /\ g.tables[t] = Put(f.tables[t], rows)
      /\ \A u \in Tables \ {t} : g.tables[u] = f.tables[u]
  <2>1. IsFile(f)
    BY <1>3
  <2> QED
    BY ONLY <1>1, <2>1, IsTable(rows), g = PutRows(f, t, rows), PutRowsFile
<1>7. /\ Written(e2, t) = Written(e, t) \cup {s} /\ s \notin Written(e, t)
      /\ \A u : u # t => Written(e2, u) = Written(e, u)
  BY <1>2, <1>4, WrittenGrows
<1>8. IsExport(e2)
  BY <1>2, <1>4, <1>5 DEF IsExport
<1> QED
  BY <1>2, <1>3, <1>5, <1>6, <1>7, <1>8 DEF Wrote

\* A shard of a source table, or with the cut noted a part of it, written to a
\* file that has only rows of other shards.
LEMMA ShardWritten ==
    ASSUME NEW e, IsExport(e), NEW t \in Sharded, e.pc = t, NEW s \in e.shards, NEW f, ExportedOK(e, f),
           NEW rows, IsTable(rows), PartOf(rows, InShards(SourceTable(e, t), {s})),
           NEW cut \in BOOLEAN, ~cut => ~f.cut /\ rows = InShards(SourceTable(e, t), {s}),
           NEW c, c = [PutRows(f, t, rows) EXCEPT !.cut = cut]
    PROVE  IsExport(Counted(e, rows, s)) /\ ExportedOK(Counted(e, rows, s), c)
<1>1. PICK g : g = PutRows(f, t, rows)
  OBVIOUS
<1>2. PICK e2 : e2 = Counted(e, rows, s)
  OBVIOUS
<1>3. PICK src : src = SourceTable(e, t)
  OBVIOUS
<1>4. PICK W : W = Written(e, t)
  OBVIOUS
<1>5. IsTable(src)
  BY <1>3, SourceTableIs
<1>6. s \notin W
  BY <1>4 DEF Written
<1>7. PartOf(f.tables[t], InShards(src, W)) /\ (~f.cut => f.tables[t] = InShards(src, W))
  BY <1>3, <1>4 DEF ExportedOK
<1>8. /\ DOMAIN f.tables[t] \cap DOMAIN rows = {}
      /\ PartOf(Put(f.tables[t], rows), InShards(src, W \cup {s}))
  <2>1. PartOf(rows, InShards(src, {s}))
    BY <1>3
  <2> QED
    BY ONLY <1>5, <1>6, <1>7, <2>1, OneMorePart
<1>9. Wrote(t, s, rows, e, f, e2, g)
  BY ONLY IsExport(e), t \in Sharded, e.pc = t, s \in e.shards, ExportedOK(e, f), IsTable(rows), <1>8, <1>1, <1>2,
          ShardWrites
<1>10. /\ IsFile(c) /\ c.cut = cut /\ c.damaged = FALSE /\ c.meta = None /\ c.tables = g.tables
  BY <1>1, <1>9 DEF Wrote, IsFile
<1>11. /\ e2.pc = t /\ e2.target = e.target /\ e2.utxo = e.utxo
       /\ \A u \in Tables : e2.counts[u] = Cardinality(DOMAIN c.tables[u])
       /\ c.tables[t] = Put(f.tables[t], rows)
       /\ \A u \in Tables \ {t} : c.tables[u] = f.tables[u]
       /\ Written(e2, t) = W \cup {s}
       /\ \A u : u # t => Written(e2, u) = Written(e, u)
  BY <1>4, <1>9, <1>10 DEF Wrote
<1>12. \A u \in Sharded : SourceTable(e2, u) = SourceTable(e, u) /\ u \in Tables
  BY <1>11 DEF SourceTable, Sharded, Tables
<1>13. ASSUME ~cut PROVE c.tables[t] = InShards(src, W \cup {s})
  <2>1. f.tables[t] = InShards(src, W) /\ rows = InShards(src, {s})
    BY <1>3, <1>7, <1>13
  <2>2. Put(InShards(src, W), InShards(src, {s})) = InShards(src, W \cup {s})
    BY ONLY <1>5, <1>6, OneMoreShard
  <2> QED
    BY <1>11, <2>1, <2>2
<1>14. ASSUME NEW u \in Sharded
       PROVE  /\ PartOf(c.tables[u], InShards(SourceTable(e2, u), Written(e2, u)))
              /\ ~c.cut => c.tables[u] = InShards(SourceTable(e2, u), Written(e2, u))
  <2>1. CASE u = t
    BY <2>1, <1>3, <1>8, <1>10, <1>11, <1>12, <1>13
  <2>2. CASE u # t
    <3>1. c.tables[u] = f.tables[u] /\ Written(e2, u) = Written(e, u) /\ SourceTable(e2, u) = SourceTable(e, u)
      BY <2>2, <1>11, <1>12
    <3>2. ~c.cut => ~f.cut
      BY <1>10
    <3>3. /\ PartOf(f.tables[u], InShards(SourceTable(e, u), Written(e, u)))
          /\ ~f.cut => f.tables[u] = InShards(SourceTable(e, u), Written(e, u))
      BY DEF ExportedOK
    <3> QED
      BY <3>1, <3>2, <3>3
  <2> QED
    BY <2>1, <2>2
<1>15. c.tables["commit"] = IF e2.pc \in After("commit") THEN generate_block_commit_snapshot(e2.target) ELSE << >>
  <2>1. "commit" \in Tables \ {t}
    BY DEF Tables, Sharded
  <2> QED
    BY <2>1, <1>11 DEF ExportedOK
<1>16. e2.pc \notin {"manifest", "sign"}
  BY <1>11 DEF Sharded
<1>17. ExportedOK(e2, c)
  BY <1>10, <1>11, <1>14, <1>15, <1>16 DEF ExportedOK
<1> QED
  BY <1>2, <1>9, <1>17 DEF Wrote

\* The export e after the commits, which are one batch.
CountedCommits(e, rows) ==
    [[e EXCEPT !.counts[e.pc] = @ + Cardinality(DOMAIN rows)] EXCEPT !.pc = "script", !.shards = AllShards]

LEMMA CommitRows ==
    ASSUME NEW e, IsExport(e), e.pc = "commit", NEW f, ExportedOK(e, f),
           NEW rows, rows = generate_block_commit_snapshot(e.target),
           NEW e2, e2 = CountedCommits(e, rows),
           NEW g, g = PutRows(f, "commit", rows)
    PROVE  IsExport(e2) /\ ExportedOK(e2, g)
<1>1. e.target \in Heights /\ e.counts \in [Tables -> Nat]
  BY DEF IsExport
<1>2. IsTable(rows)
  BY CommitsTable
<1>3. /\ IsFile(f) /\ f.damaged = FALSE /\ f.meta = None /\ f.tables["commit"] = << >>
      /\ \A t \in Tables : e.counts[t] = Cardinality(DOMAIN f.tables[t])
  BY DEF ExportedOK, IsFile, After
<1>4. DOMAIN f.tables["commit"] \cap DOMAIN rows = {}
  BY <1>3, EmptyTable
<1>5. "commit" \in Tables
  BY DEF Tables
<1>6. /\ IsFile(g) /\ g.meta = f.meta /\ g.cut = f.cut /\ g.damaged = f.damaged
      /\ g.tables["commit"] = Put(f.tables["commit"], rows)
      /\ \A u \in Tables \ {"commit"} : g.tables[u] = f.tables[u]
  <2>1. IsFile(f)
    BY <1>3
  <2> QED
    BY ONLY <2>1, <1>5, <1>2, g = PutRows(f, "commit", rows), PutRowsFile
<1>7. g.tables["commit"] = rows
  <2>1. Put(<< >>, rows) = rows
    BY <1>2, EmptyTable DEF Put, IsTable
  <2> QED
    BY <2>1, <1>3, <1>6
<1>8. PICK d : d = [e.counts EXCEPT !["commit"] = @ + Cardinality(DOMAIN rows)]
  OBVIOUS
<1>9. d \in [Tables -> Nat] /\ \A u \in Tables : d[u] = Cardinality(DOMAIN g.tables[u])
  <2>1. IsFile(f) /\ e.counts \in [Tables -> Nat] /\ \A t \in Tables : e.counts[t] = Cardinality(DOMAIN f.tables[t])
    BY <1>1, <1>3
  <2> QED
    BY ONLY <2>1, <1>2, <1>4, <1>5, <1>8, g = PutRows(f, "commit", rows), CountsFollow
<1>10. /\ e2.pc = "script" /\ e2.target = e.target /\ e2.utxo = e.utxo /\ e2.key = e.key
       /\ e2.shards = AllShards /\ e2.counts = d
       /\ e2 = [pc |-> e2.pc, target |-> e2.target, utxo |-> e2.utxo, key |-> e2.key,
                shards |-> e2.shards, counts |-> e2.counts]
  BY <1>8 DEF IsExport, CountedCommits
<1>11. IsExport(e2)
  <2>1. "script" \in ExportPCs
    BY DEF ExportPCs
  <2> QED
    BY <1>9, <1>10, <2>1 DEF IsExport
<1>12. /\ \A t \in Sharded : Written(e2, t) = Written(e, t) /\ SourceTable(e2, t) = SourceTable(e, t)
       /\ e2.pc \in After("commit")
  BY <1>10 DEF Written, After, Sharded, SourceTable
<1>13. Sharded \subseteq Tables \ {"commit"}
  BY DEF Tables, Sharded
<1>14. ExportedOK(e2, g)
  BY <1>3, <1>6, <1>7, <1>9, <1>10, <1>12, <1>13 DEF ExportedOK
<1> QED
  BY <1>11, <1>14

\* The exporter goes on to the next table when every shard is written.
LEMMA TableDone ==
    ASSUME NEW e, IsExport(e), e.pc \in Sharded, e.shards = {},
           NEW f, ExportedOK(e, f), NEW pc,
           \/ e.pc = "balance" /\ e.utxo /\ pc = "utxo"
           \/ e.pc = "balance" /\ ~e.utxo /\ pc = "commit"
           \/ e.pc = "utxo" /\ pc = "commit"
           \/ e.pc = "script" /\ pc = "meta",
           NEW e2, e2 = [e EXCEPT !.pc = pc, !.shards = AllShards]
    PROVE  IsExport(e2) /\ ExportedOK(e2, f)
<1>1. /\ e2.pc = pc /\ e2.target = e.target /\ e2.utxo = e.utxo /\ e2.key = e.key
      /\ e2.shards = AllShards /\ e2.counts = e.counts
      /\ e2 = [pc |-> e2.pc, target |-> e2.target, utxo |-> e2.utxo, key |-> e2.key,
               shards |-> e2.shards, counts |-> e2.counts]
  BY DEF IsExport
<1>2. IsExport(e2)
  BY <1>1 DEF IsExport, ExportPCs
<1>3. /\ Written(e2, "balance") = Written(e, "balance")
      /\ Written(e2, "script") = Written(e, "script")
      /\ e.utxo => Written(e2, "utxo") = Written(e, "utxo")
      /\ e2.pc \in After("commit") <=> e.pc \in After("commit")
      /\ e2.pc \in {"utxo", "commit", "meta"} /\ e.pc \in {"balance", "utxo", "script"}
  BY <1>1 DEF Written, After, Sharded
<1>4. \A t \in Sharded : SourceTable(e2, t) = SourceTable(e, t)
  BY <1>1 DEF SourceTable, Sharded
<1>5. \A t \in Sharded : InShards(SourceTable(e2, t), Written(e2, t)) = InShards(SourceTable(e, t), Written(e, t))
  <2> SUFFICES ASSUME NEW t \in Sharded
               PROVE  InShards(SourceTable(e2, t), Written(e2, t)) = InShards(SourceTable(e, t), Written(e, t))
    OBVIOUS
  <2>1. CASE t = "utxo" /\ ~e.utxo
    <3>1. SourceTable(e, t) = << >>
      BY <2>1 DEF SourceTable
    <3>2. \A W : InShards(<< >>, W) = << >>
      BY DEF InShards, Restrict
    <3> QED
      BY <3>1, <3>2, <1>4
  <2>2. CASE t # "utxo" \/ e.utxo
    BY <2>2, <1>3, <1>4 DEF Sharded
  <2> QED
    BY <2>1, <2>2
<1>6. ExportedOK(e2, f)
  BY <1>1, <1>3, <1>5 DEF ExportedOK
<1> QED
  BY <1>2, <1>6

\* The metadata of the finished file.
LEMMA MetaWritten ==
    ASSUME NEW e, IsExport(e), e.pc = "meta", NEW f, ExportedOK(e, f),
           NEW g, g = [f EXCEPT !.meta = [height |-> e.target, counts |-> e.counts]],
           NEW e2, e2 = [e EXCEPT !.pc = "manifest"]
    PROVE  IsExport(e2) /\ ExportedOK(e2, g) /\ FileOK(g, e.target)
<1>1. PICK m : m = [height |-> e.target, counts |-> e.counts]
  OBVIOUS
<1>2. /\ g.tables = f.tables /\ g.meta = m /\ g.cut = f.cut /\ g.damaged = f.damaged /\ IsFile(g)
      /\ f.damaged = FALSE
  BY <1>1 DEF ExportedOK, IsFile
<1>3. /\ e2.pc = "manifest" /\ e2.target = e.target /\ e2.utxo = e.utxo /\ e2.key = e.key
      /\ e2.shards = e.shards /\ e2.counts = e.counts
      /\ e2 = [pc |-> e2.pc, target |-> e2.target, utxo |-> e2.utxo, key |-> e2.key,
               shards |-> e2.shards, counts |-> e2.counts]
  BY DEF IsExport
<1>4. IsExport(e2)
  BY <1>3 DEF IsExport, ExportPCs
<1>5. /\ \A t \in Sharded : Written(e2, t) = Written(e, t) /\ SourceTable(e2, t) = SourceTable(e, t)
      /\ e2.pc \in After("commit") /\ e.pc \in After("commit")
  BY <1>3 DEF Written, After, Sharded, SourceTable
<1>6. ExportedOK(e2, g)
  BY <1>1, <1>2, <1>3, <1>5 DEF ExportedOK
<1>7. /\ Complete(f.tables, e.counts, e.target)
      /\ ~f.cut => FullCounts(e.counts, e.target)
  BY ExportComplete
<1>8. IsMeta(m, e.target) /\ m.counts = e.counts
  BY <1>1 DEF IsMeta, IsExport
<1>9. FileOK(g, e.target)
  BY <1>2, <1>7, <1>8 DEF FileOK
<1> QED
  BY <1>4, <1>6, <1>9

-----------------------------------------------------------------------------
(* What the steps leave alone *)

LEMMA StoreStays ==
    ASSUME NEW store, NEW by, NEW by2, StoreOK(store, by), \A k \in Keys : by[k] \subseteq by2[k]
    PROVE  StoreOK(store, by2)
<1>1. Trusted \subseteq Keys
  BY SnapshotBounds
<1> QED
  BY <1>1 DEF StoreOK

LEMMA TargetStays ==
    ASSUME TargetOK, UNCHANGED target, \A k \in Keys : signed[k] \subseteq signed'[k]
    PROVE  TargetOK'
<1>1. live' = live /\ backups' = backups
  BY DEF target
<1>2. \A i \in 1..Len(backups) : StoreOK(backups[i], signed')
  BY StoreStays DEF TargetOK
<1>3. live # None => StoreOK(live, signed')
  BY StoreStays DEF TargetOK
<1> QED
  BY <1>1, <1>2, <1>3 DEF TargetOK

\* While the exporter runs no installation does.
LEMMA InstallRests ==
    ASSUME InstallOK, install.pc = "idle" \/ export.pc # "idle", UNCHANGED install
    PROVE  InstallOK'
<1>1. install.pc = "idle"
  BY DEF InstallOK
<1> QED
  BY <1>1 DEF InstallOK

LEMMA FileWritten ==
    ASSUME ArtifactsOK, NEW h \in Heights, NEW f, FileOK(f, h), files' = [files EXCEPT ![h] = f],
           UNCHANGED <<manifests, signatures, signed>>
    PROVE  ArtifactsOK' /\ files'[h] = f
<1>1. files'[h] = f /\ \A x \in Heights \ {h} : files'[x] = files[x]
  BY DEF ArtifactsOK
<1>2. files' = [x \in Heights |-> files'[x]]
  BY DEF ArtifactsOK
<1>3. \A x \in Heights : files'[x] # None => FileOK(files'[x], x)
  BY <1>1 DEF ArtifactsOK
<1> QED
  BY <1>1, <1>2, <1>3 DEF ArtifactsOK

LEMMA EmptyFile ==
    ASSUME NEW f, f = [tables |-> EmptyTables, meta |-> None, cut |-> FALSE, damaged |-> FALSE]
    PROVE  IsFile(f) /\ \A t \in Tables : f.tables[t] = << >>
BY EmptyTable DEF EmptyTables, IsFile, IsTables

-----------------------------------------------------------------------------
(* The steps of the exporter *)

LEMMA BeginExportStep ==
    ASSUME IInv, BeginExport
    PROVE  IInv'
<1> USE DEF IInv
<1>1. PICK h \in 1..(Source.height + 1), utxo \in BOOLEAN, key \in Keys \cup {None} :
        /\ ExportAllowed(h, utxo)
        /\ open_by_height(h)
        /\ export' = [pc |-> "balance", target |-> h, utxo |-> utxo, key |-> key,
                      shards |-> AllShards, counts |-> [t \in Tables |-> 0]]
  BY DEF BeginExport
<1>2. h \in Heights /\ (utxo => h = Source.height)
  BY <1>1, HeightsAreNat DEF ExportAllowed, Heights
<1>3. PICK f : f = [tables |-> EmptyTables, meta |-> None, cut |-> FALSE, damaged |-> FALSE]
  OBVIOUS
<1>4. IsFile(f) /\ (\A t \in Tables : f.tables[t] = << >>) /\ f.meta = None /\ f.damaged = FALSE /\ f.cut = FALSE
  BY <1>3, EmptyFile
<1>5. ArtifactsOK' /\ files'[h] = f
  <2>1. FileOK(f, h)
    BY <1>4 DEF FileOK
  <2>2. files' = [files EXCEPT ![h] = f] /\ UNCHANGED <<manifests, signatures, signed>> /\ ArtifactsOK
    BY <1>1, <1>3 DEF open_by_height, BeginExport
  <2> QED
    BY ONLY <1>2, <2>1, <2>2, FileWritten
<1>6. PICK e : e = export'
  OBVIOUS
<1>7. /\ e.pc = "balance" /\ e.target = h /\ e.utxo = utxo /\ e.key = key /\ e.shards = AllShards
      /\ e.counts = [t \in Tables |-> 0]
  BY <1>1, <1>6
<1>8. IsExport(e)
  BY <1>1, <1>2, <1>6, <1>7 DEF IsExport, ExportPCs
<1>9. (\A t \in Sharded : Written(e, t) = {}) /\ e.pc \notin After("commit")
  BY <1>7 DEF Written, After, Sharded
<1>10. ExportedOK(e, f)
  <2>1. Sharded \subseteq Tables /\ "commit" \in Tables
    BY DEF Tables, Sharded
  <2>2. \A t \in Tables : e.counts[t] = 0
    BY <1>7
  <2>3. \A t \in Sharded : InShards(SourceTable(e, t), Written(e, t)) = << >> /\ PartOf(<< >>, << >>)
    BY <1>9, NoShards, EmptyTable DEF PartOf
  <2>4. \A t \in Tables : e.counts[t] = Cardinality(DOMAIN f.tables[t])
    BY <2>2, <1>4, EmptyTable
  <2> QED
    BY <1>4, <1>7, <1>9, <2>1, <2>3, <2>4 DEF ExportedOK
<1>11. ExportOK'
  BY <1>5, <1>6, <1>7, <1>8, <1>10 DEF ExportOK
<1>12. InstallOK'
  <2>1. InstallOK /\ install.pc = "idle" /\ UNCHANGED install
    BY DEF BeginExport
  <2> QED
    BY ONLY <2>1, InstallRests
<1>13. TargetOK'
  BY TargetStays DEF BeginExport
<1>14. CountersOK'
  BY SnapshotBounds DEF CountersOK, BeginExport
<1> QED
  BY <1>5, <1>11, <1>12, <1>13, <1>14

\* A step that writes to the file of the export and goes on.
LEMMA WritingStep ==
    ASSUME IInv, export.pc # "idle", NEW f, FileOK(f, export.target),
           files' = [files EXCEPT ![export.target] = f],
           IsExport(export'), ExportedOK(export', f), export'.target = export.target,
           export'.pc # "sign", ExportIdle, UNCHANGED faults \/ Fault
    PROVE  IInv'
<1> USE DEF IInv
<1>1. PICK h \in Heights : h = export.target
  BY DEF ExportOK, IsExport
<1>2. ArtifactsOK' /\ files'[h] = f
  <2>1. FileOK(f, h) /\ files' = [files EXCEPT ![h] = f] /\ ArtifactsOK
        /\ UNCHANGED <<manifests, signatures, signed>>
    BY <1>1 DEF ExportIdle
  <2> QED
    BY ONLY <2>1, FileWritten
<1>3. ExportOK'
  BY <1>1, <1>2 DEF ExportOK
<1>4. InstallOK'
  <2>1. UNCHANGED install
    BY DEF ExportIdle
  <2> QED
    BY <2>1, InstallRests
<1>5. TargetOK'
  BY TargetStays DEF ExportIdle
<1>6. CountersOK'
  BY SnapshotBounds DEF CountersOK, ExportIdle, Fault
<1> QED
  BY <1>2, <1>3, <1>4, <1>5, <1>6

\* Nothing is in the metadata before the tables are written.
LEMMA NoMetaYet ==
    ASSUME NEW e, NEW f, ExportedOK(e, f), e.pc \in {"balance", "utxo", "commit", "script", "meta"}, NEW h
    PROVE  FileOK(f, h)
BY DEF ExportedOK, FileOK

\* A shard of a table, and the counts of its rows.
LEMMA ShardStep ==
    ASSUME IInv, NEW s, NEW rows, NEW g, export.pc \in Sharded,
           ExportShard(s, rows, g), UNCHANGED faults \/ Fault,
           IsExport(Counted(export, rows, s)), ExportedOK(Counted(export, rows, s), g)
    PROVE  IInv'
<1>1. export' = Counted(export, rows, s)
  BY DEF ExportShard, CountRows, Counted, IInv, ExportOK, IsExport
<1>2. export.pc \in Tables /\ IsExport(export)
  BY DEF Tables, Sharded, IInv, ExportOK
<1>3. export'.pc = export.pc /\ export'.target = export.target
  BY <1>1, <1>2 DEF Counted, IsExport
<1>4. IsExport(export') /\ ExportedOK(export', g)
  BY <1>1
<1>5. FileOK(g, export.target)
  BY <1>3, <1>4, NoMetaYet DEF Sharded
<1>6. files' = [files EXCEPT ![export.target] = g] /\ ExportIdle
  BY DEF ExportShard
<1>7. export.pc # "idle" /\ export'.pc # "sign" /\ export'.target = export.target
  BY <1>3 DEF Sharded
<1> QED
  BY ONLY IInv, <1>4, <1>5, <1>6, <1>7, UNCHANGED faults \/ Fault, WritingStep

\* A whole shard, whichever table it is of.
LEMMA WholeShardStep ==
    ASSUME IInv, NEW t \in Sharded, export.pc = t, NEW s, NEW rows, rows = InShards(SourceTable(export, t), {s}),
           ExportShard(s, rows, PutRows(files[export.target], t, rows)), UNCHANGED faults
    PROVE  IInv'
<1>1. PICK f : f = files[export.target]
  OBVIOUS
<1>2. PICK c : c = PutRows(f, t, rows)
  OBVIOUS
<1>3. IsExport(export) /\ ExportedOK(export, f)
  BY <1>1 DEF IInv, ExportOK, Sharded
<1>4. s \in export.shards /\ ExportShard(s, rows, c)
  BY <1>1, <1>2 DEF ExportShard
<1>5. IsTable(rows)
  BY SourceTableIs, InShardsTable
<1>6. PartOf(rows, InShards(SourceTable(export, t), {s}))
  BY DEF PartOf
<1>7. f.cut \in BOOLEAN /\ c = [PutRows(f, t, rows) EXCEPT !.cut = f.cut]
  BY <1>2, <1>3 DEF PutRows, ExportedOK, IsFile
<1>8. ~f.cut => ~f.cut /\ rows = InShards(SourceTable(export, t), {s})
  OBVIOUS
<1>9. IsExport(Counted(export, rows, s)) /\ ExportedOK(Counted(export, rows, s), c)
  BY ONLY t \in Sharded, export.pc = t, <1>3, <1>4, <1>5, <1>6, <1>7, <1>8, ShardWritten
<1> QED
  BY <1>4, <1>9, ShardStep

LEMMA ExportBalancesStep ==
    ASSUME IInv, ExportBalances
    PROVE  IInv'
<1>1. PICK s \in AllShards :
        LET rows == generate_balance_history_snapshot_sharded(export.target, s)
        IN  ExportShard(s, rows, put_balance_history_entries(files[export.target], rows))
  BY DEF ExportBalances
<1>2. PICK rows : rows = generate_balance_history_snapshot_sharded(export.target, s)
  OBVIOUS
<1>3. export.pc = "balance" /\ UNCHANGED faults /\ "balance" \in Sharded
  BY DEF ExportBalances, Sharded
<1>4. rows = InShards(SourceTable(export, "balance"), {s})
  BY <1>2, <1>3, ReadsAreShards DEF SourceTable
<1>5. ExportShard(s, rows, PutRows(files[export.target], "balance", rows))
  BY <1>1, <1>2, PutsAreRows
<1> QED
  BY ONLY IInv, <1>3, <1>4, <1>5, WholeShardStep

LEMMA ExportUtxosStep ==
    ASSUME IInv, ExportUtxos
    PROVE  IInv'
<1>1. PICK s \in AllShards :
        LET rows == generate_utxo_snapshot_sharded(s)
        IN  ExportShard(s, rows, put_utxo_entries(files[export.target], rows))
  BY DEF ExportUtxos
<1>2. PICK rows : rows = generate_utxo_snapshot_sharded(s)
  OBVIOUS
<1>3. export.pc = "utxo" /\ UNCHANGED faults /\ "utxo" \in Sharded
  BY DEF ExportUtxos, Sharded
<1>4. rows = InShards(SourceTable(export, "utxo"), {s})
  BY <1>2, <1>3, ReadsAreShards DEF SourceTable, IInv, ExportOK, IsExport
<1>5. ExportShard(s, rows, PutRows(files[export.target], "utxo", rows))
  BY <1>1, <1>2, PutsAreRows
<1> QED
  BY ONLY IInv, <1>3, <1>4, <1>5, WholeShardStep

LEMMA ExportScriptsStep ==
    ASSUME IInv, ExportScripts
    PROVE  IInv'
<1>1. PICK s \in AllShards :
        LET rows == generate_script_registry_snapshot_sharded(s)
        IN  ExportShard(s, rows, put_script_registry_entries(files[export.target], rows))
  BY DEF ExportScripts
<1>2. PICK rows : rows = generate_script_registry_snapshot_sharded(s)
  OBVIOUS
<1>3. export.pc = "script" /\ UNCHANGED faults /\ "script" \in Sharded
  BY DEF ExportScripts, Sharded
<1>4. rows = InShards(SourceTable(export, "script"), {s})
  BY <1>2, <1>3, ReadsAreShards DEF SourceTable
<1>5. ExportShard(s, rows, PutRows(files[export.target], "script", rows))
  BY <1>1, <1>2, PutsAreRows
<1> QED
  BY ONLY IInv, <1>3, <1>4, <1>5, WholeShardStep

LEMMA ExportCutShortStep ==
    ASSUME IInv, ExportCutShort
    PROVE  IInv'
<1>1. PICK t \in Sharded : t = export.pc
  BY DEF ExportCutShort
<1>2. PICK s \in AllShards : \E first \in DOMAIN ShardRows(s) :
        LET rows == Restrict(ShardRows(s), {k \in DOMAIN ShardRows(s) : k > first})
        IN  ExportShard(s, rows, [PutShard(files[export.target], rows) EXCEPT !.cut = TRUE])
  BY DEF ExportCutShort
<1>3. PICK first \in DOMAIN ShardRows(s) :
        LET rows == Restrict(ShardRows(s), {k \in DOMAIN ShardRows(s) : k > first})
        IN  ExportShard(s, rows, [PutShard(files[export.target], rows) EXCEPT !.cut = TRUE])
  BY <1>2
<1>4. PICK all : all = ShardRows(s)
  OBVIOUS
<1>5. PICK K : K = {k \in DOMAIN all : k > first}
  OBVIOUS
<1>6. PICK rows : rows = Restrict(all, K)
  OBVIOUS
<1>7. PICK f : f = files[export.target]
  OBVIOUS
<1>8. PICK c : c = [PutRows(f, t, rows) EXCEPT !.cut = TRUE]
  OBVIOUS
<1>9. IsExport(export) /\ ExportedOK(export, f)
  BY <1>1, <1>7 DEF IInv, ExportOK, Sharded
<1>10. all = InShards(SourceTable(export, t), {s})
  BY <1>1, <1>4, <1>9, ReadsAreShards DEF ShardRows, SourceTable, Sharded, IsExport
<1>11. PutShard(f, rows) = PutRows(f, t, rows)
  BY <1>1, PutsAreRows DEF PutShard, Sharded
<1>12. ExportShard(s, rows, c)
  BY <1>3, <1>4, <1>5, <1>6, <1>7, <1>8, <1>11
<1>13. s \in export.shards
  BY <1>12 DEF ExportShard
<1>14. IsTable(all)
  BY <1>10, SourceTableIs, InShardsTable
<1>15. K \subseteq DOMAIN all
  BY <1>5
<1>16. IsTable(rows) /\ PartOf(rows, InShards(SourceTable(export, t), {s}))
  <2>1. IsTable(rows) /\ DOMAIN rows = K /\ \A k \in K : rows[k] = all[k]
    BY <1>6, <1>14, <1>15, RestrictTable
  <2>2. PartOf(rows, all)
    BY <2>1, <1>15 DEF PartOf
  <2> QED
    BY <1>10, <2>1, <2>2
<1>17. PICK cut \in BOOLEAN : cut = TRUE
  OBVIOUS
<1>18. (~cut => ~f.cut /\ rows = InShards(SourceTable(export, t), {s})) /\ c = [PutRows(f, t, rows) EXCEPT !.cut = cut]
       /\ export.pc = t
  BY <1>1, <1>8, <1>17
<1>19. IsExport(Counted(export, rows, s)) /\ ExportedOK(Counted(export, rows, s), c)
  BY ONLY t \in Sharded, cut \in BOOLEAN, <1>9, <1>13, <1>16, <1>18, ShardWritten
<1>20. UNCHANGED faults \/ Fault
  BY DEF ExportCutShort
<1>21. export.pc \in Sharded
  BY <1>1
<1> QED
  BY ONLY IInv, <1>12, <1>19, <1>20, <1>21, ShardStep

LEMMA ExportCommitsStep ==
    ASSUME IInv, ExportCommits
    PROVE  IInv'
<1>1. IsExport(export) /\ export.pc = "commit" /\ export.target \in Heights
      /\ ExportedOK(export, files[export.target]) /\ files = [h \in Heights |-> files[h]]
  BY DEF ExportCommits, IInv, ExportOK, IsExport, ArtifactsOK
<1>2. PICK f : f = files[export.target]
  OBVIOUS
<1>3. PICK rows : rows = generate_block_commit_snapshot(export.target)
  OBVIOUS
<1>4. rows = generate_block_commit_snapshot(export.target)
  BY <1>3
<1>5. PICK g : g = PutRows(f, "commit", rows)
  OBVIOUS
<1>6. files' = [files EXCEPT ![export.target] = g]
  BY <1>2, <1>4, <1>5, PutsAreRows DEF ExportCommits
<1>7. export' = CountedCommits(export, rows)
  BY <1>4 DEF ExportCommits, CountRows, CountedCommits
<1>8. IsExport(export') /\ ExportedOK(export', g)
  <2>1. IsExport(export) /\ export.pc = "commit" /\ ExportedOK(export, f)
    BY <1>1, <1>2
  <2> QED
    BY ONLY <2>1, <1>3, <1>5, <1>7, CommitRows
<1>9. export'.pc = "script" /\ export'.target = export.target
  BY <1>1, <1>7 DEF IsExport, CountedCommits
<1>10. FileOK(g, export.target)
  BY <1>8, <1>9, NoMetaYet
<1>11. export.pc # "idle" /\ export'.pc # "sign" /\ export'.target = export.target /\ ExportIdle
       /\ (UNCHANGED faults \/ Fault)
  BY <1>1, <1>9 DEF ExportCommits
<1> QED
  BY ONLY IInv, <1>6, <1>8, <1>10, <1>11, WritingStep

LEMMA NextTableStep ==
    ASSUME IInv, NextTable
    PROVE  IInv'
<1>1. PICK f : f = files[export.target]
  OBVIOUS
<1>2. PICK pc : pc = CASE export.pc = "balance" /\ export.utxo -> "utxo"
                       [] export.pc = "balance" /\ ~export.utxo -> "commit"
                       [] export.pc = "utxo" -> "commit"
                       [] export.pc = "script" -> "meta"
  OBVIOUS
<1>3. IsExport(export) /\ export.target \in Heights /\ ExportedOK(export, f)
      /\ export.pc \in Sharded /\ export.shards = {}
      /\ files = [h \in Heights |-> files[h]]
  BY <1>1 DEF NextTable, IInv, ExportOK, IsExport, ArtifactsOK, Sharded
<1>4. \/ export.pc = "balance" /\ export.utxo /\ pc = "utxo"
      \/ export.pc = "balance" /\ ~export.utxo /\ pc = "commit"
      \/ export.pc = "utxo" /\ pc = "commit"
      \/ export.pc = "script" /\ pc = "meta"
  BY <1>2, <1>3 DEF Sharded
<1>5. export' = [export EXCEPT !.pc = pc, !.shards = AllShards]
  BY <1>2 DEF NextTable
<1>6. IsExport(export') /\ ExportedOK(export', f)
  BY ONLY <1>3, <1>4, <1>5, TableDone
<1>7. FileOK(f, export.target)
  BY <1>3, NoMetaYet DEF Sharded
<1>8. files' = [files EXCEPT ![export.target] = f]
  BY <1>1, <1>3 DEF NextTable
<1>9. export.pc # "idle" /\ export'.pc # "sign" /\ export'.target = export.target /\ ExportIdle
      /\ (UNCHANGED faults \/ Fault)
  BY <1>3, <1>4, <1>5 DEF NextTable, IsExport, Sharded
<1> QED
  BY ONLY IInv, <1>6, <1>7, <1>8, <1>9, WritingStep

LEMMA UpdateMetaStep ==
    ASSUME IInv, update_meta
    PROVE  IInv'
<1>1. PICK f : f = files[export.target]
  OBVIOUS
<1>2. IsExport(export) /\ export.pc = "meta" /\ ExportedOK(export, f) /\ export.target \in Heights
      /\ files = [h \in Heights |-> files[h]]
  BY <1>1 DEF update_meta, IInv, ExportOK, IsExport, ArtifactsOK
<1>3. PICK g : g = [f EXCEPT !.meta = [height |-> export.target, counts |-> export.counts]]
  OBVIOUS
<1>4. export' = [export EXCEPT !.pc = "manifest"]
  BY DEF update_meta
<1>5. IsExport(export') /\ ExportedOK(export', g) /\ FileOK(g, export.target)
  BY ONLY <1>2, <1>3, <1>4, MetaWritten
<1>6. files' = [files EXCEPT ![export.target] = g]
  BY <1>1, <1>2, <1>3 DEF update_meta
<1>7. export.pc # "idle" /\ export'.pc # "sign" /\ export'.target = export.target /\ ExportIdle
      /\ (UNCHANGED faults \/ Fault)
  BY <1>2, <1>4 DEF update_meta, IsExport
<1> QED
  BY ONLY IInv, <1>5, <1>6, <1>7, WritingStep

LEMMA WriteManifestStep ==
    ASSUME IInv, WriteManifest
    PROVE  IInv'
<1> USE DEF IInv
<1>1. PICK h : h = export.target
  OBVIOUS
<1>2. /\ IsExport(export) /\ export.pc = "manifest" /\ h \in Heights
      /\ ExportedOK(export, files[h])
      /\ files[h].meta = [height |-> h, counts |-> export.counts]
  BY <1>1 DEF WriteManifest, ExportOK, IsExport, ExportedOK
<1>a. ASSUME build_historical_state_ref_at_height(Source.commit, h) = None PROVE IInv'
  <2>1. /\ export' = [export EXCEPT !.pc = "idle"]
        /\ UNCHANGED <<files, manifests, signatures, signed, install, live, backups, exports, installs, faults>>
    BY <1>1, <1>a DEF WriteManifest, target
  <2>2. ArtifactsOK'
    BY <2>1 DEF ArtifactsOK
  <2>3. ExportOK'
    BY <2>1 DEF ExportOK, IsExport
  <2>4. InstallOK'
    BY <1>2, <2>1, InstallRests
  <2>5. TargetOK'
    BY <2>1, TargetStays DEF target
  <2>6. CountersOK'
    BY <2>1 DEF CountersOK
  <2> QED
    BY <2>2, <2>3, <2>4, <2>5, <2>6
<1>b. SUFFICES ASSUME build_historical_state_ref_at_height(Source.commit, h) # None PROVE IInv'
  BY <1>a
<1>3. PICK m : m = SnapshotManifest(h, export.key)
  OBVIOUS
<1>4. /\ manifests' = [manifests EXCEPT ![h] = m]
      /\ export' = [export EXCEPT !.pc = IF export.key = None THEN "idle" ELSE "sign"]
      /\ UNCHANGED <<files, signatures, signed, install, live, backups, exports, installs, faults>>
  BY <1>1, <1>3, <1>b DEF WriteManifest, target
<1>5. m.height = h /\ m.sha = <<files[h].tables, files[h].meta>> /\ m.stateRef.height = h
  BY <1>2, <1>3, <1>b DEF SnapshotManifest, calc_hash, build_historical_state_ref_at_height
<1>6. Complete(files[h].tables, export.counts, h)
  BY <1>1, <1>2, ExportComplete
<1>7. ManifestOK(m, h)
  BY <1>2, <1>5, <1>6 DEF ManifestOK
<1>8. ArtifactsOK'
  <2>1. manifests'[h] = m /\ (\A x \in Heights \ {h} : manifests'[x] = manifests[x])
        /\ manifests' = [x \in Heights |-> manifests'[x]]
    BY <1>2, <1>4 DEF ArtifactsOK
  <2>2. \A x \in Heights : manifests'[x] # None => ManifestOK(manifests'[x], x)
    BY <1>7, <2>1 DEF ArtifactsOK
  <2> QED
    BY <1>4, <2>1, <2>2 DEF ArtifactsOK
<1>9. ExportOK'
  <2>1. PICK e : e = export'
    OBVIOUS
  <2>2. /\ e.target = h /\ e.utxo = export.utxo /\ e.key = export.key /\ e.counts = export.counts
        /\ e.shards = export.shards /\ e.pc = (IF export.key = None THEN "idle" ELSE "sign")
        /\ e = [pc |-> e.pc, target |-> e.target, utxo |-> e.utxo, key |-> e.key,
                shards |-> e.shards, counts |-> e.counts]
    BY <2>1, <1>1, <1>2, <1>4 DEF IsExport
  <2>3. IsExport(e)
    BY <2>2, <1>1, <1>2 DEF IsExport, ExportPCs
  <2>4. ASSUME e.pc # "idle" PROVE ExportedOK(e, files[h])
    <3>1. e.pc = "sign"
      BY <2>2, <2>4
    <3>2. /\ \A t \in Sharded : Written(e, t) = Written(export, t) /\ SourceTable(e, t) = SourceTable(export, t)
          /\ e.pc \in After("commit") /\ export.pc \in After("commit")
      BY <3>1, <2>2, <1>1, <1>2 DEF Written, After, Sharded, SourceTable
    <3> QED
      BY <3>1, <3>2, <2>2, <1>1, <1>2 DEF ExportedOK
  <2>5. manifests'[h].sha = calc_hash(files[h])
    BY <1>2, <1>4, <1>5 DEF calc_hash, ArtifactsOK
  <2>6. e.pc = "sign" => e.key # None
    BY <2>2
  <2>7. files' = files
    BY <1>4
  <2> HIDE DEF IInv
  <2> QED
    BY <2>1, <2>2, <2>3, <2>4, <2>5, <2>6, <2>7 DEF ExportOK, calc_hash
<1>10. InstallOK'
  BY <1>2, <1>4, InstallRests
<1>11. TargetOK'
  BY <1>4, TargetStays DEF target
<1>12. CountersOK'
  BY <1>4 DEF CountersOK
<1> QED
  BY <1>8, <1>9, <1>10, <1>11, <1>12

LEMMA WriteSignatureStep ==
    ASSUME IInv, WriteSignature
    PROVE  IInv'
<1> USE DEF IInv
<1>1. PICK h : h = export.target
  OBVIOUS
<1>2. PICK k : k = export.key
  OBVIOUS
<1>3. /\ IsExport(export) /\ export.pc = "sign" /\ h \in Heights /\ k \in Keys
      /\ manifests[h].sha = <<files[h].tables, files[h].meta>>
  BY <1>1, <1>2 DEF WriteSignature, ExportOK, IsExport, calc_hash
<1>4. /\ signatures' = [signatures EXCEPT ![h] = [of |-> manifests[h], key |-> k]]
      /\ signed' = [signed EXCEPT ![k] = @ \cup {files[h].tables}]
      /\ export' = [export EXCEPT !.pc = "idle"]
      /\ UNCHANGED <<files, manifests, install, live, backups, exports, installs, faults>>
  BY <1>1, <1>2 DEF WriteSignature, sign, target
<1>5. signed' = [x \in Keys |-> signed'[x]] /\ (\A x \in Keys : signed[x] \subseteq signed'[x])
      /\ files[h].tables \in signed'[k]
  BY <1>3, <1>4 DEF ArtifactsOK
<1>6. ArtifactsOK'
  <2>1. /\ signatures'[h] = [of |-> manifests[h], key |-> k]
        /\ \A x \in Heights \ {h} : signatures'[x] = signatures[x]
        /\ signatures' = [x \in Heights |-> signatures'[x]]
    BY <1>3, <1>4 DEF ArtifactsOK
  <2>2. signatures'[h].key \in Keys /\ signatures'[h].of.sha[1] \in signed'[signatures'[h].key]
    BY <2>1, <1>3, <1>5
  <2>3. \A x \in Heights : signatures'[x] # None =>
           signatures'[x].key \in Keys /\ signatures'[x].of.sha[1] \in signed'[signatures'[x].key]
    <3>1. \A x \in Heights \ {h} : signatures[x] # None =>
           signatures[x].key \in Keys /\ signatures[x].of.sha[1] \in signed[signatures[x].key]
      BY DEF ArtifactsOK
    <3> QED
      BY <2>1, <2>2, <3>1, <1>5
  <2>4. UNCHANGED <<files, manifests>>
    BY <1>4
  <2> QED
    BY <2>1, <2>3, <2>4, <1>5 DEF ArtifactsOK
<1>7. ExportOK'
  BY <1>3, <1>4 DEF ExportOK, IsExport
<1>8. InstallOK'
  BY <1>3, <1>4, InstallRests
<1>9. TargetOK'
  BY <1>4, <1>5, TargetStays DEF target
<1>10. CountersOK'
  BY <1>4 DEF CountersOK
<1> QED
  BY <1>6, <1>7, <1>8, <1>9, <1>10

LEMMA ExportEndsStep ==
    ASSUME IInv, ExportEnds
    PROVE  IInv'
<1> USE DEF IInv
<1>1. ArtifactsOK'
  BY DEF ExportEnds, artifacts, ArtifactsOK
<1>2. ExportOK'
  BY DEF ExportEnds, ExportOK, IsExport
<1>3. InstallOK'
  BY InstallRests DEF ExportEnds
<1>4. TargetOK'
  BY TargetStays DEF ExportEnds, artifacts
<1>5. CountersOK'
  BY SnapshotBounds DEF CountersOK, ExportEnds, Fault
<1> QED
  BY <1>1, <1>2, <1>3, <1>4, <1>5

\* A damaged file is still a file with its metadata.
LEMMA DamagedFile ==
    ASSUME NEW f, NEW h, FileOK(f, h), NEW g, g.meta = f.meta, g.cut = f.cut, g.damaged = TRUE,
           g = [tables |-> g.tables, meta |-> g.meta, cut |-> g.cut, damaged |-> g.damaged],
           NEW rows, IsTable(rows), g.tables = [f.tables EXCEPT !["balance"] = rows]
    PROVE  FileOK(g, h)
<1>1. IsTables(g.tables)
  BY DEF FileOK, IsFile, IsTables
<1> QED
  BY <1>1 DEF FileOK, IsFile

LEMMA DamageFileStep ==
    ASSUME IInv, DamageFile
    PROVE  IInv'
<1> USE DEF IInv
<1>1. PICK h \in Heights :
        /\ files[h] # None
        /\ \E s \in DOMAIN files[h].tables["balance"] :
            \/ files' = [files EXCEPT ![h].damaged = TRUE,
                                      ![h].tables["balance"][s].balance = @ + 1]
            \/ files' = [files EXCEPT ![h].damaged = TRUE,
                            ![h].tables["balance"] = Restrict(@, DOMAIN @ \ {s})]
  BY DEF DamageFile
<1>2. PICK s \in DOMAIN files[h].tables["balance"] :
            \/ files' = [files EXCEPT ![h].damaged = TRUE,
                                      ![h].tables["balance"][s].balance = @ + 1]
            \/ files' = [files EXCEPT ![h].damaged = TRUE,
                            ![h].tables["balance"] = Restrict(@, DOMAIN @ \ {s})]
  BY <1>1
<1>3. PICK f : f = files[h]
  OBVIOUS
<1>4. FileOK(f, h) /\ files = [x \in Heights |-> files[x]]
  BY <1>1, <1>3 DEF ArtifactsOK
<1>5. IsFile(f) /\ IsTable(f.tables["balance"]) /\ f.tables = [t \in Tables |-> f.tables[t]]
  BY <1>4 DEF FileOK, IsFile, IsTables, Tables
<1>6. UNCHANGED <<manifests, signatures, signed>> /\ ArtifactsOK
  BY DEF DamageFile
<1>7. ArtifactsOK'
  <2>1. CASE files' = [files EXCEPT ![h].damaged = TRUE, ![h].tables["balance"][s].balance = @ + 1]
    <3>1. PICK rows : rows = [f.tables["balance"] EXCEPT ![s].balance = @ + 1]
      OBVIOUS
    <3>2. IsTable(rows)
      BY <1>5, <3>1 DEF IsTable
    <3>3. PICK g : g = [f EXCEPT !.damaged = TRUE, !.tables["balance"] = rows]
      OBVIOUS
    <3>4. files' = [files EXCEPT ![h] = g]
      BY <1>3, <1>4, <1>5, <2>1, <3>1, <3>3 DEF IsFile, Tables
    <3>5. /\ g.meta = f.meta /\ g.cut = f.cut /\ g.damaged = TRUE
          /\ g = [tables |-> g.tables, meta |-> g.meta, cut |-> g.cut, damaged |-> g.damaged]
          /\ g.tables = [f.tables EXCEPT !["balance"] = rows]
      BY <1>5, <3>3 DEF IsFile
    <3>6. FileOK(g, h)
      BY <1>4, <3>2, <3>5, DamagedFile
    <3> QED
      BY ONLY <1>6, <3>4, <3>6, h \in Heights, FileWritten
  <2>2. CASE files' = [files EXCEPT ![h].damaged = TRUE, ![h].tables["balance"] = Restrict(@, DOMAIN @ \ {s})]
    <3>1. PICK rows : rows = Restrict(f.tables["balance"], DOMAIN f.tables["balance"] \ {s})
      OBVIOUS
    <3>2. IsTable(rows)
      BY <1>5, <3>1, RestrictTable
    <3>3. PICK g : g = [f EXCEPT !.damaged = TRUE, !.tables["balance"] = rows]
      OBVIOUS
    <3>4. files' = [files EXCEPT ![h] = g]
      BY <1>3, <1>4, <1>5, <2>2, <3>1, <3>3 DEF IsFile, Tables
    <3>5. /\ g.meta = f.meta /\ g.cut = f.cut /\ g.damaged = TRUE
          /\ g = [tables |-> g.tables, meta |-> g.meta, cut |-> g.cut, damaged |-> g.damaged]
          /\ g.tables = [f.tables EXCEPT !["balance"] = rows]
      BY <1>5, <3>3 DEF IsFile
    <3>6. FileOK(g, h)
      BY <1>4, <3>2, <3>5, DamagedFile
    <3> QED
      BY ONLY <1>6, <3>4, <3>6, h \in Heights, FileWritten
  <2> QED
    BY <1>2, <2>1, <2>2
<1>8. ExportOK'
  BY DEF DamageFile, ExportOK
<1>9. InstallOK'
  BY InstallRests DEF DamageFile
<1>10. TargetOK'
  BY TargetStays DEF DamageFile
<1>11. CountersOK'
  BY SnapshotBounds DEF CountersOK, DamageFile, Fault
<1> QED
  BY <1>7, <1>8, <1>9, <1>10, <1>11

-----------------------------------------------------------------------------
(* The steps of the installer *)

LEMMA EmptyStoreIs ==
    /\ EmptyStore # None /\ LocalStore # None
    /\ IsStore(EmptyStore) /\ \A t \in Tables : EmptyStore.tables[t] = << >>
    /\ \A by : StoreOK(EmptyStore, by) /\ StoreOK(LocalStore, by)
<1>1. EmptyStore # None /\ LocalStore # None
  BY NoneAssumption
<1>2. IsStore(EmptyStore) /\ \A t \in Tables : EmptyStore.tables[t] = << >>
  BY DEF EmptyStore, EmptyTables, IsStore
<1>3. EmptyStore.height = 0 /\ EmptyStore.provenance = None
      /\ LocalStore.height = Local /\ LocalStore.provenance = None
  BY DEF EmptyStore, LocalStore
<1>4. \A by : StoreOK(EmptyStore, by) /\ StoreOK(LocalStore, by)
  BY <1>3 DEF StoreOK
<1> QED
  BY <1>1, <1>2, <1>4

\* An installation changes neither the artifacts nor the exporter.
LEMMA InstallerLeaves ==
    ASSUME IInv, InstallIdle, UNCHANGED faults \/ Fault, InstallOK', TargetOK'
    PROVE  IInv'
<1> USE DEF IInv
<1>1. ArtifactsOK'
  BY DEF InstallIdle, artifacts, ArtifactsOK
<1>2. ExportOK'
  BY DEF InstallIdle, artifacts, ExportOK, calc_hash
<1>3. CountersOK'
  BY SnapshotBounds DEF CountersOK, InstallIdle, Fault
<1> QED
  BY <1>1, <1>2, <1>3

LEMMA TargetRests ==
    ASSUME IInv, InstallIdle, UNCHANGED target
    PROVE  TargetOK'
BY TargetStays DEF IInv, InstallIdle, artifacts

LEMMA ChecksStay ==
    ASSUME UNCHANGED artifacts, install'.mode = install.mode, install'.from = install.from,
           install'.named = install.named
    PROVE  /\ TrustSatisfied' = TrustSatisfied /\ FileAccepted' = FileAccepted
           /\ File' = File
<1>1. UNCHANGED <<files, manifests, signatures>>
  BY DEF artifacts
<1>2. File' = File /\ Manifest' = Manifest /\ HasManifest' = HasManifest
  BY <1>1 DEF File, Manifest, HasManifest
<1>3. SignatureVerified' = SignatureVerified
  BY <1>1, <1>2 DEF SignatureVerified, sign, find_verifying_key
<1>4. TrustSatisfied' = TrustSatisfied
  BY <1>2, <1>3 DEF TrustSatisfied
<1>5. FileAccepted' = FileAccepted
  BY <1>2 DEF FileAccepted, calc_hash
<1> QED
  BY <1>2, <1>4, <1>5

LEMMA BeginInstallStep ==
    ASSUME IInv, BeginInstall
    PROVE  IInv'
<1> USE DEF IInv
<1>1. PICK mode \in TrustModes, from \in Heights, named \in Heights \cup {None} :
        /\ files[from] # None
        /\ IF named = None THEN manifests[from] = None ELSE manifests[named] # None
        /\ install' = [install EXCEPT !.pc = "check", !.mode = mode, !.from = from,
                                      !.named = named, !.staged = EmptyStore]
  BY DEF BeginInstall
<1>2. live' = open /\ backups' = backups /\ export' = export /\ export.pc = "idle"
      /\ UNCHANGED <<files, manifests, signatures, signed>>
  BY DEF BeginInstall, artifacts
<1>3. live' # None /\ StoreOK(live', signed)
  BY <1>2, EmptyStoreIs DEF open, TargetOK
<1>4. live # None => live' = live
  BY <1>2 DEF open
<1>5. TargetOK'
  BY <1>2, <1>3, <1>4, EmptyStoreIs DEF TargetOK
<1>6. /\ install'.pc = "check" /\ install'.from = from /\ install'.named = named /\ install'.staged = EmptyStore
      /\ install'.last = install.last /\ install'.done = install.done
      /\ install' = [pc |-> install'.pc, mode |-> install'.mode, from |-> install'.from, named |-> install'.named,
                     staged |-> install'.staged, table |-> install'.table, last |-> install'.last,
                     done |-> install'.done]
  BY <1>1 DEF InstallOK
<1>7. named # None => named \in Heights /\ manifests[named] # None
  BY <1>1
<1>8. InstallOK'
  BY <1>1, <1>2, <1>3, <1>6, <1>7, EmptyStoreIs DEF InstallOK
<1>9. ArtifactsOK'
  BY <1>2 DEF ArtifactsOK
<1>10. ExportOK'
  BY <1>2 DEF ExportOK
<1>11. CountersOK'
  BY SnapshotBounds DEF CountersOK, BeginInstall
<1> QED
  BY <1>5, <1>8, <1>9, <1>10, <1>11

\* The end of an installation, wherever it is.
LEMMA InstallerStops ==
    ASSUME IInv, install' = [install EXCEPT !.pc = "idle"]
    PROVE  InstallOK'
BY DEF IInv, InstallOK

LEMMA RejectSnapshotStep ==
    ASSUME IInv, RejectSnapshot
    PROVE  IInv'
<1>1. InstallOK'
  BY InstallerStops DEF RejectSnapshot
<1>2. InstallIdle /\ UNCHANGED target /\ UNCHANGED faults
  BY DEF RejectSnapshot
<1>3. TargetOK'
  BY <1>2, TargetRests
<1> QED
  BY <1>1, <1>2, <1>3, InstallerLeaves

LEMMA InstallEndsStep ==
    ASSUME IInv, InstallEnds
    PROVE  IInv'
<1>1. InstallOK'
  BY InstallerStops DEF InstallEnds
<1>2. InstallIdle /\ UNCHANGED target /\ (UNCHANGED faults \/ Fault)
  BY DEF InstallEnds
<1>3. TargetOK'
  BY <1>2, TargetRests
<1> QED
  BY <1>1, <1>2, <1>3, InstallerLeaves

\* What is known of the file of a running installation.
LEMMA InstalledFile ==
    ASSUME IInv, install.pc # "idle"
    PROVE  /\ install.from \in Heights /\ FileOK(File, install.from) /\ IsFile(File)
           /\ IsTables(File.tables)
           /\ install.pc \in {"stage", "backup", "promote"} =>
                 /\ IsMeta(File.meta, install.from)
                 /\ ~File.cut => FullCounts(File.meta.counts, install.from)
                 /\ install.named # None \/ ~File.damaged =>
                       Complete(File.tables, File.meta.counts, install.from)
<1>1. install.from \in Heights /\ FileOK(File, install.from)
  BY DEF IInv, InstallOK, ArtifactsOK, File
<1>2. IsFile(File) /\ IsTables(File.tables)
  BY <1>1 DEF FileOK, IsFile
<1>3. ASSUME install.pc \in {"stage", "backup", "promote"}
      PROVE  /\ IsMeta(File.meta, install.from)
             /\ ~File.cut => FullCounts(File.meta.counts, install.from)
             /\ install.named # None \/ ~File.damaged =>
                   Complete(File.tables, File.meta.counts, install.from)
  <2>1. FileAccepted /\ File.meta # None
    BY <1>3 DEF IInv, InstallOK, FileAccepted
  <2>2. ASSUME install.named # None PROVE Complete(File.tables, File.meta.counts, install.from)
    <3>1. Manifest.height = install.from /\ Manifest.sha = <<File.tables, File.meta>>
      BY <2>1, <2>2 DEF FileAccepted, HasManifest, calc_hash
    <3>2. ManifestOK(Manifest, install.named)
      BY <1>3, <2>2 DEF IInv, InstallOK, ArtifactsOK, Manifest
    <3>3. install.named = install.from
      BY <3>1, <3>2 DEF ManifestOK
    <3> QED
      BY <3>1, <3>2, <3>3 DEF ManifestOK
  <2> QED
    BY <1>1, <2>1, <2>2 DEF FileOK
<1> QED
  BY <1>1, <1>2, <1>3

LEMMA AcceptSnapshotStep ==
    ASSUME IInv, AcceptSnapshot
    PROVE  IInv'
<1>1. install.pc = "check" /\ TrustSatisfied /\ FileAccepted /\ install.staged = EmptyStore
      /\ install' = [install EXCEPT !.pc = "stage", !.table = "balance", !.last = -1, !.done = 0]
      /\ InstallIdle /\ UNCHANGED target /\ UNCHANGED faults
  BY DEF AcceptSnapshot, IInv, InstallOK
<1>2. /\ install'.pc = "stage" /\ install'.table = "balance" /\ install'.last = -1 /\ install'.done = 0
      /\ install'.mode = install.mode /\ install'.from = install.from /\ install'.named = install.named
      /\ install'.staged = EmptyStore
      /\ install' = [pc |-> install'.pc, mode |-> install'.mode, from |-> install'.from, named |-> install'.named,
                     staged |-> install'.staged, table |-> install'.table, last |-> install'.last,
                     done |-> install'.done]
  BY <1>1 DEF IInv, InstallOK
<1>3. TrustSatisfied' /\ FileAccepted' /\ File' = File
  BY <1>1, <1>2, ChecksStay DEF InstallIdle
<1>4. IsTables(File.tables)
  BY <1>1, InstalledFile
<1>5. StagedOK(install', File)
  <2>1. IsTable(File.tables["balance"]) /\ "balance" \in Tables
    BY <1>4 DEF IsTables, Tables
  <2>2. UpTo(File.tables["balance"], -1) = {} /\ Restrict(File.tables["balance"], UpTo(File.tables["balance"], -1)) = << >>
    BY <2>1, UpToNone
  <2>3. Before("balance") = {}
    BY DEF Before
  <2>4. Cardinality(UpTo(File.tables["balance"], -1)) = 0
    BY <2>2, EmptyTable
  <2> QED
    BY <1>2, <2>1, <2>2, <2>3, <2>4, EmptyStoreIs DEF StagedOK
<1>6. StagedOK(install', File')
  BY <1>3, <1>5
<1>7. InstallOK'
  <2>1. UNCHANGED <<files, manifests, signatures, signed, export, live, backups>>
    BY <1>1 DEF InstallIdle, artifacts, target
  <2>2. /\ export.pc = "idle" /\ install.from \in Heights /\ files[install.from] # None
        /\ install.named # None => install.named \in Heights /\ manifests[install.named] # None
        /\ live # None
    BY <1>1 DEF IInv, InstallOK
  <2> QED
    BY <1>2, <1>3, <1>6, <2>1, <2>2, EmptyStoreIs DEF InstallOK
<1>8. TargetOK'
  BY <1>1, TargetRests
<1> QED
  BY <1>1, <1>7, <1>8, InstallerLeaves

\* The table that follows t.
Follows(next, t) ==
    <<t, next>> \in {<<"balance", "utxo">>, <<"utxo", "commit">>, <<"commit", "script">>, <<"script", "height">>}

LEMMA FollowsIs ==
    ASSUME NEW t, NEW next, Follows(next, t)
    PROVE  /\ t \in Tables /\ next \in Tables \cup {"height"} /\ t # next
           /\ Before(next) = Before(t) \cup {t} /\ t \notin Before(t) /\ next \notin Before(next)
BY DEF Follows, Tables, Before

\* The next table starts with nothing staged.
LEMMA NextTableStarts ==
    ASSUME NEW i, NEW f, IsTables(f.tables), StagedOK(i, f), NEW t, NEW next, Follows(next, t), i.table = t,
           NEW j, j.table = next, j.named = i.named, j.last = -1, j.done = 0,
           \A u \in Tables \ {t} : j.staged.tables[u] = i.staged.tables[u],
           i.named # None \/ ~f.damaged => j.staged.tables[t] = f.tables[t]
    PROVE  StagedOK(j, f)
<1>1. /\ t \in Tables /\ next \in Tables \cup {"height"} /\ t # next
      /\ Before(next) = Before(t) \cup {t} /\ t \notin Before(t) /\ next \notin Before(next)
  BY FollowsIs
<1>2. /\ i.named # None \/ ~f.damaged => \A u \in Before(t) : i.staged.tables[u] = f.tables[u]
      /\ \A u \in Tables \ (Before(t) \cup {t}) : i.staged.tables[u] = << >>
  BY DEF StagedOK
<1>3. Before(t) \subseteq Tables
  BY <1>1 DEF Before, Tables
<1>4. i.named # None \/ ~f.damaged => \A u \in Before(next) : j.staged.tables[u] = f.tables[u]
  BY <1>1, <1>2, <1>3
<1>5. \A u \in Tables \ Before(next) : j.staged.tables[u] = << >>
  BY <1>1, <1>2
<1>6. ASSUME next \in Tables
      PROVE  /\ j.staged.tables[next] = Restrict(f.tables[next], UpTo(f.tables[next], -1))
             /\ Cardinality(UpTo(f.tables[next], -1)) = 0
  <2>1. IsTable(f.tables[next])
    BY <1>6 DEF IsTables
  <2>2. UpTo(f.tables[next], -1) = {} /\ Restrict(f.tables[next], UpTo(f.tables[next], -1)) = << >>
    BY <2>1, UpToNone
  <2> QED
    BY <1>1, <1>5, <1>6, <2>2, EmptyTable
<1> QED
  BY <1>1, <1>4, <1>5, <1>6 DEF StagedOK

\* A page put into the staging store.
Filled(staged, f, t, page) == [staged EXCEPT !.tables[t] = Put(@, Restrict(f.tables[t], page))]

LEMMA PageStaged ==
    ASSUME NEW i, NEW f, IsTables(f.tables), StagedOK(i, f), NEW t \in Tables, i.table = t,
           i.last \in Nat \cup {-1}, IsStore(i.staged),
           NEW page, page = PageKeys(f.tables[t], i.last), NEW s, s = Filled(i.staged, f, t, page)
    PROVE  /\ IsStore(s) /\ \A u \in Tables \ {t} : s.tables[u] = i.staged.tables[u]
           /\ s.tables[t] = Restrict(f.tables[t], UpTo(f.tables[t], i.last) \cup page)
           /\ i.done + Cardinality(page) = Cardinality(UpTo(f.tables[t], i.last) \cup page)
           /\ i.done + Cardinality(page) \in Nat
<1>1. PICK R : R = f.tables[t]
  OBVIOUS
<1>2. PICK U : U = UpTo(R, i.last)
  OBVIOUS
<1>3. IsTable(R)
  BY <1>1 DEF IsTables
<1>4. i.staged.tables[t] = Restrict(R, U) /\ i.done = Cardinality(U)
  BY <1>1, <1>2 DEF StagedOK
<1>5. /\ page \subseteq DOMAIN R /\ U \subseteq DOMAIN R
      /\ Cardinality(page) \in Nat /\ Cardinality(U) \in Nat
      /\ Cardinality(U \cup page) = Cardinality(U) + Cardinality(page)
  BY <1>1, <1>2, <1>3, PageIsNew
<1>6. Put(Restrict(R, U), Restrict(R, page)) = Restrict(R, U \cup page)
  BY <1>3, <1>5, PutRestricts
<1>7. /\ s.tables = [i.staged.tables EXCEPT ![t] = Put(@, Restrict(R, page))]
      /\ s = [height |-> s.height, tables |-> s.tables, provenance |-> s.provenance,
              cut |-> s.cut, damaged |-> s.damaged]
  BY <1>1 DEF Filled, IsStore
<1>8. i.staged.tables = [u \in Tables |-> i.staged.tables[u]]
  BY DEF IsStore
<1>9. /\ s.tables[t] = Put(i.staged.tables[t], Restrict(R, page))
      /\ \A u \in Tables \ {t} : s.tables[u] = i.staged.tables[u]
      /\ s.tables = [u \in Tables |-> s.tables[u]]
  BY <1>7, <1>8
<1> QED
  BY <1>1, <1>2, <1>4, <1>5, <1>6, <1>7, <1>9 DEF IsStore

\* A step from "stage" to "stage", or to "panicked" with a damaged file.
LEMMA StageMoves ==
    ASSUME IInv, install.pc = "stage", InstallIdle, UNCHANGED target, UNCHANGED faults,
           NEW i, i = install', i.mode = install.mode, i.from = install.from, i.named = install.named,
           i = [pc |-> i.pc, mode |-> i.mode, from |-> i.from, named |-> i.named,
                staged |-> i.staged, table |-> i.table, last |-> i.last, done |-> i.done],
           i.last \in Nat \cup {-1}, i.done \in Nat, IsStore(i.staged),
           \/ i.pc = "stage" /\ StagedOK(i, File)
           \/ i.pc = "panicked" /\ File.damaged
    PROVE  IInv'
<1>1. (TrustSatisfied /\ FileAccepted)' /\ File' = File
  <2>1. TrustSatisfied /\ FileAccepted
    BY DEF IInv, InstallOK
  <2>2. UNCHANGED artifacts
    BY DEF InstallIdle
  <2> QED
    BY <2>1, <2>2, ChecksStay
<1>2. UNCHANGED <<files, manifests, signatures, signed, export, live, backups>>
  BY DEF InstallIdle, artifacts, target
<1>3. /\ export.pc = "idle" /\ install.from \in Heights /\ files[install.from] # None
      /\ install.named # None => install.named \in Heights /\ manifests[install.named] # None
      /\ live # None
  BY DEF IInv, InstallOK
<1>4. InstallOK'
  BY <1>1, <1>2, <1>3 DEF InstallOK
<1>5. TargetOK'
  BY TargetRests
<1> QED
  BY <1>4, <1>5, InstallerLeaves

LEMMA SkipTableStep ==
    ASSUME IInv, NEW t, NEW next, Follows(next, t), SkipTable(t, next),
           InstallIdle, UNCHANGED target, UNCHANGED faults
    PROVE  IInv'
<1>1. /\ install.pc = "stage" /\ install.table = t /\ File.meta.counts[t] = 0
      /\ install' = [install EXCEPT !.table = next]
  BY DEF SkipTable
<1>2. t \in Tables
  BY FollowsIs
<1>3. /\ StagedOK(install, File) /\ IsStore(install.staged)
      /\ install = [pc |-> install.pc, mode |-> install.mode, from |-> install.from, named |-> install.named,
                    staged |-> install.staged, table |-> install.table, last |-> install.last,
                    done |-> install.done]
  BY <1>1 DEF IInv, InstallOK
<1>4. IsTables(File.tables) /\ (install.named # None \/ ~File.damaged =>
         Complete(File.tables, File.meta.counts, install.from))
  BY <1>1, InstalledFile
<1>5. IsTable(File.tables[t])
  BY <1>2, <1>4 DEF IsTables
<1>6. /\ install.last = -1
      /\ install.staged.tables[t] = Restrict(File.tables[t], UpTo(File.tables[t], -1))
      /\ install.done = Cardinality(UpTo(File.tables[t], -1))
  BY <1>1, <1>2, <1>3 DEF StagedOK
<1>7. install.staged.tables[t] = << >> /\ install.done = 0
  BY <1>5, <1>6, UpToNone, EmptyTable
<1>8. ASSUME install.named # None \/ ~File.damaged
      PROVE  install.staged.tables[t] = File.tables[t]
  <2>1. Cardinality(DOMAIN File.tables[t]) = 0
    BY <1>1, <1>2, <1>4, <1>8 DEF Complete
  <2>2. DOMAIN File.tables[t] = {}
    BY <1>5, <2>1, FS_EmptySet DEF IsTable
  <2> QED
    BY <1>5, <1>7, <2>2, EmptyTable
<1>9. PICK j : j = install'
  OBVIOUS
<1>10. /\ j.pc = "stage" /\ j.mode = install.mode /\ j.from = install.from /\ j.named = install.named
       /\ j.staged = install.staged /\ j.table = next /\ j.last = -1 /\ j.done = 0
       /\ j = [pc |-> j.pc, mode |-> j.mode, from |-> j.from, named |-> j.named,
               staged |-> j.staged, table |-> j.table, last |-> j.last, done |-> j.done]
  BY <1>1, <1>3, <1>6, <1>7, <1>9
<1>11. StagedOK(j, File)
  <2>1. install.table = t /\ StagedOK(install, File) /\ IsTables(File.tables)
    BY <1>1, <1>3, <1>4
  <2>2. /\ j.table = next /\ j.named = install.named /\ j.last = -1 /\ j.done = 0
        /\ \A u \in Tables \ {t} : j.staged.tables[u] = install.staged.tables[u]
        /\ install.named # None \/ ~File.damaged => j.staged.tables[t] = File.tables[t]
    BY <1>8, <1>10
  <2> QED
    BY ONLY <2>1, <2>2, Follows(next, t), NextTableStarts
<1>12. j.last \in Nat \cup {-1} /\ j.done \in Nat /\ IsStore(j.staged)
  BY <1>3, <1>10
<1> QED
  BY <1>1, <1>9, <1>10, <1>11, <1>12, StageMoves

LEMMA InstallPageStep ==
    ASSUME IInv, NEW t, NEW next, Follows(next, t), NEW page, page = PageKeys(File.tables[t], install.last),
           InstallPage(t, next, page), InstallIdle, UNCHANGED target, UNCHANGED faults
    PROVE  IInv'
<1>1. PICK total : total = install.done + Cardinality(page)
  OBVIOUS
<1>2. PICK s : s = Filled(install.staged, File, t, page)
  OBVIOUS
<1>3. /\ install.pc = "stage" /\ install.table = t
      /\ \/ /\ ~LastPage(page)
            /\ install' = [install EXCEPT !.staged = s, !.done = total, !.last = LastKey(page)]
         \/ /\ LastPage(page) /\ total = File.meta.counts[t]
            /\ install' = [install EXCEPT !.staged = s, !.table = next, !.done = 0, !.last = -1]
         \/ /\ LastPage(page) /\ total # File.meta.counts[t]
            /\ install' = [install EXCEPT !.pc = "panicked"]
      /\ File.meta.counts[t] # 0
  BY <1>1, <1>2 DEF InstallPage, Filled
<1>4. t \in Tables
  BY FollowsIs
<1>5. /\ StagedOK(install, File) /\ IsStore(install.staged) /\ install.last \in Nat \cup {-1}
      /\ install.done \in Nat
      /\ install = [pc |-> install.pc, mode |-> install.mode, from |-> install.from, named |-> install.named,
                    staged |-> install.staged, table |-> install.table, last |-> install.last,
                    done |-> install.done]
  BY <1>3 DEF IInv, InstallOK
<1>6. IsTables(File.tables) /\ IsFile(File) /\ (install.named # None \/ ~File.damaged =>
         Complete(File.tables, File.meta.counts, install.from))
  BY <1>3, InstalledFile
<1>7. IsTable(File.tables[t])
  BY <1>4, <1>6 DEF IsTables
<1>8. /\ IsStore(s) /\ \A u \in Tables \ {t} : s.tables[u] = install.staged.tables[u]
      /\ s.tables[t] = Restrict(File.tables[t], UpTo(File.tables[t], install.last) \cup page)
      /\ total = Cardinality(UpTo(File.tables[t], install.last) \cup page)
      /\ total \in Nat
  <2>1. IsTables(File.tables) /\ install.table = t
    BY <1>3, <1>6
  <2>2. /\ IsStore(s) /\ \A u \in Tables \ {t} : s.tables[u] = install.staged.tables[u]
        /\ s.tables[t] = Restrict(File.tables[t], UpTo(File.tables[t], install.last) \cup page)
        /\ install.done + Cardinality(page) = Cardinality(UpTo(File.tables[t], install.last) \cup page)
        /\ install.done + Cardinality(page) \in Nat
    BY ONLY <1>2, <1>4, <1>5, <2>1, page = PageKeys(File.tables[t], install.last), PageStaged
  <2> QED
    BY <1>1, <2>2
<1>9. PICK j : j = install'
  OBVIOUS
<1>10. CASE /\ ~LastPage(page)
            /\ install' = [install EXCEPT !.staged = s, !.done = total, !.last = LastKey(page)]
  <2>1. /\ j.pc = "stage" /\ j.mode = install.mode /\ j.from = install.from /\ j.named = install.named
        /\ j.staged = s /\ j.table = t /\ j.last = LastKey(page) /\ j.done = total
        /\ j = [pc |-> j.pc, mode |-> j.mode, from |-> j.from, named |-> j.named,
                staged |-> j.staged, table |-> j.table, last |-> j.last, done |-> j.done]
    BY <1>3, <1>5, <1>9, <1>10
  <2>2. /\ LastKey(page) \in Nat
        /\ UpTo(File.tables[t], LastKey(page)) = UpTo(File.tables[t], install.last) \cup page
    <3>1. ~LastPage(PageKeys(File.tables[t], install.last)) /\ install.last \in Nat \cup {-1}
      BY <1>5, <1>10
    <3>2. /\ LastKey(PageKeys(File.tables[t], install.last)) \in Nat
          /\ UpTo(File.tables[t], LastKey(PageKeys(File.tables[t], install.last))) =
                UpTo(File.tables[t], install.last) \cup PageKeys(File.tables[t], install.last)
      BY ONLY <1>7, <3>1, FullPage
    <3> QED
      BY <3>2
  <2>3. StagedOK(j, File)
    <3>1. t \notin Before(t)
      BY FollowsIs
    <3>2. /\ install.named # None \/ ~File.damaged => \A u \in Before(t) : install.staged.tables[u] = File.tables[u]
          /\ \A u \in Tables \ (Before(t) \cup {t}) : install.staged.tables[u] = << >>
      BY <1>3, <1>5 DEF StagedOK
    <3>3. Before(t) \subseteq Tables
      BY <1>4 DEF Before, Tables
    <3>4. install.named # None \/ ~File.damaged => \A u \in Before(t) : s.tables[u] = File.tables[u]
      BY <1>8, <3>1, <3>2, <3>3
    <3>5. \A u \in Tables \ (Before(t) \cup {t}) : s.tables[u] = << >>
      BY <1>8, <3>2
    <3> QED
      BY <1>3, <1>4, <1>8, <2>1, <2>2, <3>4, <3>5 DEF StagedOK
  <2>4. j.last \in Nat \cup {-1} /\ j.done \in Nat /\ IsStore(j.staged)
    BY <1>8, <2>1, <2>2
  <2> QED
    BY <1>3, <1>9, <2>1, <2>3, <2>4, StageMoves
<1>11. ASSUME LastPage(page)
       PROVE  s.tables[t] = File.tables[t] /\ total = Cardinality(DOMAIN File.tables[t])
  <2>1. UpTo(File.tables[t], install.last) \cup page = DOMAIN File.tables[t]
    <3>1. LastPage(PageKeys(File.tables[t], install.last)) /\ install.last \in Nat \cup {-1}
      BY <1>5, <1>11
    <3>2. UpTo(File.tables[t], install.last) \cup PageKeys(File.tables[t], install.last) = DOMAIN File.tables[t]
      BY ONLY <1>7, <3>1, ShortPageIsLast
    <3> QED
      BY <3>2
  <2> QED
    BY <1>7, <1>8, <2>1, RestrictAll
<1>12. CASE /\ LastPage(page)
            /\ install' = [install EXCEPT !.staged = s, !.table = next, !.done = 0, !.last = -1]
  <2>1. /\ j.pc = "stage" /\ j.mode = install.mode /\ j.from = install.from /\ j.named = install.named
        /\ j.staged = s /\ j.table = next /\ j.last = -1 /\ j.done = 0
        /\ j = [pc |-> j.pc, mode |-> j.mode, from |-> j.from, named |-> j.named,
                staged |-> j.staged, table |-> j.table, last |-> j.last, done |-> j.done]
    BY <1>3, <1>5, <1>9, <1>12
  <2>2. StagedOK(j, File)
    <3>1. install.table = t /\ StagedOK(install, File) /\ IsTables(File.tables)
      BY <1>3, <1>5, <1>6
    <3>2. /\ j.table = next /\ j.named = install.named /\ j.last = -1 /\ j.done = 0
          /\ \A u \in Tables \ {t} : j.staged.tables[u] = install.staged.tables[u]
          /\ install.named # None \/ ~File.damaged => j.staged.tables[t] = File.tables[t]
      BY <1>8, <1>11, <1>12, <2>1
    <3> QED
      BY ONLY <3>1, <3>2, Follows(next, t), NextTableStarts
  <2>3. j.last \in Nat \cup {-1} /\ j.done \in Nat /\ IsStore(j.staged)
    BY <1>8, <2>1
  <2> QED
    BY <1>3, <1>9, <2>1, <2>2, <2>3, StageMoves
<1>13. CASE /\ LastPage(page) /\ total # File.meta.counts[t]
            /\ install' = [install EXCEPT !.pc = "panicked"]
  <2>1. /\ j.pc = "panicked" /\ j.mode = install.mode /\ j.from = install.from /\ j.named = install.named
        /\ j.staged = install.staged /\ j.last = install.last /\ j.done = install.done
        /\ j = [pc |-> j.pc, mode |-> j.mode, from |-> j.from, named |-> j.named,
                staged |-> j.staged, table |-> j.table, last |-> j.last, done |-> j.done]
    BY <1>5, <1>9, <1>13
  <2>2. File.damaged
    <3>1. ~Complete(File.tables, File.meta.counts, install.from)
      BY <1>4, <1>11, <1>13 DEF Complete
    <3> QED
      BY <3>1, <1>6
  <2>3. j.last \in Nat \cup {-1} /\ j.done \in Nat /\ IsStore(j.staged)
    BY <1>5, <2>1
  <2> QED
    BY <1>3, <1>9, <2>1, <2>2, <2>3, StageMoves
<1> QED
  BY <1>3, <1>10, <1>12, <1>13

\* The four loops over the pages of a table.
LEMMA InstallTableStep ==
    ASSUME IInv, NEW t, NEW next, Follows(next, t), NEW page, page = PageKeys(File.tables[t], install.last),
           InstallTable(t, next, page)
    PROVE  IInv'
<1>1. InstallIdle /\ UNCHANGED target /\ UNCHANGED faults
  BY DEF InstallTable
<1>2. CASE SkipTable(t, next)
  BY ONLY IInv, Follows(next, t), <1>1, <1>2, SkipTableStep
<1>3. CASE InstallPage(t, next, page)
  BY ONLY IInv, Follows(next, t), page = PageKeys(File.tables[t], install.last), <1>1, <1>3, InstallPageStep
<1> QED
  BY <1>2, <1>3 DEF InstallTable

LEMMA InstallTablesStep ==
    ASSUME IInv,
           \/ install_balance_history_snapshot \/ install_utxo_snapshot
           \/ install_block_commit_snapshot \/ install_script_registry_snapshot
    PROVE  IInv'
<1>1. CASE install_balance_history_snapshot
  <2>1. Follows("utxo", "balance")
    BY DEF Follows
  <2>2. InstallTable("balance", "utxo", PageKeys(File.tables["balance"], install.last))
    BY <1>1 DEF install_balance_history_snapshot, get_balance_history_entries
  <2> QED
    BY <2>1, <2>2, InstallTableStep
<1>2. CASE install_utxo_snapshot
  <2>1. Follows("commit", "utxo")
    BY DEF Follows
  <2>2. InstallTable("utxo", "commit", PageKeys(File.tables["utxo"], install.last))
    BY <1>2 DEF install_utxo_snapshot, get_utxo_entries
  <2> QED
    BY <2>1, <2>2, InstallTableStep
<1>3. CASE install_block_commit_snapshot
  <2>1. Follows("script", "commit")
    BY DEF Follows
  <2>2. InstallTable("commit", "script", PageKeys(File.tables["commit"], install.last))
    BY <1>3 DEF install_block_commit_snapshot, get_block_commit_entries
  <2> QED
    BY <2>1, <2>2, InstallTableStep
<1>4. CASE install_script_registry_snapshot
  <2>1. Follows("height", "script")
    BY DEF Follows
  <2>2. InstallTable("script", "height", PageKeys(File.tables["script"], install.last))
    BY <1>4 DEF install_script_registry_snapshot, get_script_registry_entries
  <2> QED
    BY <2>1, <2>2, InstallTableStep
<1> QED
  BY <1>1, <1>2, <1>3, <1>4

\* The staged store is what its provenance says it is.
LEMMA StagedStoreOK ==
    ASSUME IInv, install.pc = "stage", install.table = "height", NEW s,
           s = [install.staged EXCEPT !.height = File.meta.height, !.provenance = SnapshotInstallProvenance,
                                      !.cut = File.cut, !.damaged = File.damaged]
    PROVE  IsStore(s) /\ StoreOK(s, signed)
<1>1. StagedOK(install, File) /\ TrustSatisfied /\ FileAccepted /\ IsStore(install.staged)
  BY DEF IInv, InstallOK
<1>2. /\ install.from \in Heights /\ IsFile(File) /\ IsTables(File.tables)
      /\ IsMeta(File.meta, install.from)
      /\ ~File.cut => FullCounts(File.meta.counts, install.from)
      /\ install.named # None \/ ~File.damaged =>
            Complete(File.tables, File.meta.counts, install.from)
  BY InstalledFile
<1>3. PICK p : p = SnapshotInstallProvenance
  OBVIOUS
<1>4. /\ s.height = File.meta.height /\ s.provenance = p /\ s.cut = File.cut /\ s.damaged = File.damaged
      /\ s.tables = install.staged.tables /\ IsStore(s)
  BY <1>1, <1>3 DEF IsStore
<1>5. s.height = install.from
  BY <1>2, <1>4 DEF IsMeta
<1>6. ASSUME install.named # None \/ ~File.damaged PROVE s.tables = File.tables
  <2>1. \A t \in Tables : install.staged.tables[t] = File.tables[t]
    BY <1>1, <1>6 DEF StagedOK, Before
  <2>2. File.tables = [t \in Tables |-> File.tables[t]]
    BY <1>2 DEF IsTables
  <2>3. install.staged.tables = [t \in Tables |-> install.staged.tables[t]]
    BY <1>1 DEF IsStore
  <2> QED
    BY <1>4, <2>1, <2>2, <2>3
<1>7. /\ p.mode = install.mode
      /\ p.verified = (IF install.mode = "signed" THEN "signature"
                       ELSE IF HasManifest THEN "manifest" ELSE "missing")
      /\ p.key = (IF HasManifest THEN Manifest.key ELSE None)
  BY <1>3 DEF SnapshotInstallProvenance
<1>8. ASSUME p.verified # "missing" \/ ~File.damaged, ~File.cut PROVE IsASourceState(s)
  <2>1. install.named # None \/ ~File.damaged
    BY <1>1, <1>7, <1>8 DEF TrustSatisfied, HasManifest
  <2>2. HoldsSource(File.tables, install.from)
    BY <1>2, <1>8, <2>1 DEF Complete
  <2>3. s.height \in Heights /\ HoldsSource(s.tables, s.height)
    BY <1>2, <1>5, <1>6, <2>1, <2>2
  <2> QED
    BY <2>3, HoldsSourceIsASourceState
<1>9. ASSUME p.mode = "signed" PROVE p.key \in Trusted /\ s.tables \in signed[p.key]
  <2>1. HasManifest /\ SignatureVerified
    BY <1>1, <1>7, <1>9 DEF TrustSatisfied
  <2>2. install.named # None /\ install.named \in Heights
    BY <2>1 DEF HasManifest, IInv, InstallOK
  <2>3. p.key = Manifest.key /\ p.key \in Trusted /\ signatures[install.named] # None
        /\ signatures[install.named] = [of |-> Manifest, key |-> p.key]
    BY <1>7, <2>1 DEF SignatureVerified, find_verifying_key, sign
  <2>4. Manifest.sha[1] \in signed[p.key]
    <3>1. signatures[install.named].of.sha[1] \in signed[signatures[install.named].key]
      BY <2>2, <2>3 DEF IInv, ArtifactsOK
    <3> QED
      BY <2>3, <3>1
  <2>5. Manifest.sha[1] = File.tables
    BY <1>1, <2>1 DEF FileAccepted, calc_hash
  <2> QED
    BY <1>6, <2>2, <2>3, <2>4, <2>5
<1> QED
  BY <1>2, <1>4, <1>5, <1>8, <1>9 DEF StoreOK

LEMMA FinishStagingStep ==
    ASSUME IInv, FinishStaging
    PROVE  IInv'
<1>1. install.pc = "stage" /\ install.table = "height" /\ InstallIdle /\ UNCHANGED target /\ UNCHANGED faults
  BY DEF FinishStaging
<1>2. TargetOK'
  BY <1>1, TargetRests
<1>3. CASE ~validate_staged_manifest
  <2>1. install' = [install EXCEPT !.pc = "idle"]
    BY <1>3 DEF FinishStaging
  <2>2. InstallOK'
    BY <2>1, InstallerStops
  <2> QED
    BY <1>1, <1>2, <2>2, InstallerLeaves
<1>4. CASE validate_staged_manifest
  <2>1. PICK s : s = [install.staged EXCEPT !.height = File.meta.height, !.provenance = SnapshotInstallProvenance,
                                            !.cut = File.cut, !.damaged = File.damaged]
    OBVIOUS
  <2>2. IsStore(s) /\ StoreOK(s, signed)
    BY <1>1, <2>1, StagedStoreOK
  <2>3. install' = [install EXCEPT !.pc = "backup", !.staged = s]
    BY <1>4, <2>1 DEF FinishStaging
  <2>4. /\ install'.pc = "backup" /\ install'.staged = s /\ install'.last = install.last /\ install'.done = install.done
        /\ install'.mode = install.mode /\ install'.from = install.from /\ install'.named = install.named
        /\ install' = [pc |-> install'.pc, mode |-> install'.mode, from |-> install'.from, named |-> install'.named,
                       staged |-> install'.staged, table |-> install'.table, last |-> install'.last,
                       done |-> install'.done]
    BY <2>3 DEF IInv, InstallOK
  <2>5. UNCHANGED <<files, manifests, signatures, signed, export, live, backups>> /\ UNCHANGED artifacts
    BY <1>1 DEF InstallIdle, artifacts, target
  <2>6. TrustSatisfied' /\ FileAccepted'
    BY <1>1, <2>4, <2>5, ChecksStay DEF IInv, InstallOK
  <2>7. /\ export.pc = "idle" /\ install.from \in Heights /\ files[install.from] # None
        /\ install.named # None => install.named \in Heights /\ manifests[install.named] # None
        /\ live # None /\ install.last \in Nat \cup {-1} /\ install.done \in Nat
    BY <1>1 DEF IInv, InstallOK
  <2>8. InstallOK'
    BY <2>2, <2>4, <2>5, <2>6, <2>7 DEF InstallOK
  <2> QED
    BY <1>1, <1>2, <2>8, InstallerLeaves
<1> QED
  BY <1>3, <1>4

\* A directory is added to the backups, or taken back.
IsList(b) == b = [i \in 1..Len(b) |-> b[i]] /\ Len(b) \in Nat

OneLonger(b, x, c) ==
    IsList(c) /\ Len(c) = Len(b) + 1 /\ c[Len(c)] = x /\ \A i \in 1..Len(b) : c[i] = b[i]

LEMMA BackupAdded ==
    ASSUME NEW b, IsList(b), NEW x, NEW c, c = Append(b, x)
    PROVE  OneLonger(b, x, c)
<1> DEFINE T == {b[i] : i \in 1..Len(b)} \cup {x}
<1>1. \A i \in 1..Len(b) : b[i] \in T
  OBVIOUS
<1>2. x \in T
  OBVIOUS
<1> HIDE DEF T
<1>3. b \in Seq(T)
  BY <1>1 DEF IsList
<1>4. c \in Seq(T) /\ Len(c) = Len(b) + 1 /\ c[Len(c)] = x /\ \A i \in 1..Len(b) : c[i] = b[i]
  BY <1>2, <1>3
<1>5. c \in [1..Len(c) -> T]
  BY <1>4, LenProperties
<1>6. c = [i \in 1..Len(c) |-> c[i]]
  <2>1. PICK n : n = Len(c)
    OBVIOUS
  <2>2. c \in [1..n -> T]
    BY <1>5, <2>1
  <2>3. c = [i \in 1..n |-> c[i]]
    BY ONLY <2>2
  <2> QED
    BY ONLY <2>1, <2>3
<1>7. Len(c) \in Nat
  BY <1>4
<1> QED
  BY <1>4, <1>6, <1>7 DEF OneLonger, IsList

LEMMA BackupTaken ==
    ASSUME NEW b, b = [i \in 1..Len(b) |-> b[i]], Len(b) \in Nat, Len(b) >= 1,
           NEW c, c = SubSeq(b, 1, Len(b) - 1)
    PROVE  /\ c = [i \in 1..Len(c) |-> c[i]] /\ Len(c) = Len(b) - 1 /\ Len(c) \in Nat
           /\ \A i \in 1..Len(c) : c[i] = b[i]
OBVIOUS

LEMMA BackupLiveStep ==
    ASSUME IInv, BackupLive
    PROVE  IInv'
<1>1. /\ install.pc = "backup" /\ backups' = Append(backups, live) /\ live' = None
      /\ install' = [install EXCEPT !.pc = "promote"] /\ UNCHANGED faults /\ InstallIdle
  BY DEF BackupLive
<1>2. UNCHANGED <<files, manifests, signatures, signed, export>> /\ UNCHANGED artifacts
  BY <1>1 DEF InstallIdle, artifacts
<1>3. backups = [i \in 1..Len(backups) |-> backups[i]] /\ Len(backups) \in Nat /\ live # None
      /\ (\A i \in 1..Len(backups) : StoreOK(backups[i], signed)) /\ StoreOK(live, signed)
      /\ (live = LocalStore \/ \E i \in 1..Len(backups) : backups[i] = LocalStore)
  BY <1>1 DEF IInv, TargetOK, InstallOK
<1>4. PICK c : c = backups'
  OBVIOUS
<1>5. /\ c = [i \in 1..Len(c) |-> c[i]] /\ Len(c) = Len(backups) + 1 /\ Len(c) \in Nat
      /\ c[Len(c)] = live /\ \A i \in 1..Len(backups) : c[i] = backups[i]
  <2>1. IsList(backups) /\ c = Append(backups, live)
    BY <1>1, <1>3, <1>4 DEF IsList
  <2>2. OneLonger(backups, live, c)
    BY ONLY <2>1, BackupAdded
  <2> QED
    BY ONLY <2>2 DEF OneLonger, IsList
<1>6. \A i \in 1..Len(c) : StoreOK(c[i], signed)
  <2> SUFFICES ASSUME NEW i \in 1..Len(c) PROVE StoreOK(c[i], signed)
    OBVIOUS
  <2>1. i = Len(c) \/ i \in 1..Len(backups)
    BY <1>3, <1>5
  <2> QED
    BY <2>1, <1>3, <1>5
<1>7. \E i \in 1..Len(c) : c[i] = LocalStore
  <2>1. Len(c) \in 1..Len(c) /\ \A i \in 1..Len(backups) : i \in 1..Len(c)
    BY <1>3, <1>5
  <2> QED
    BY <2>1, <1>3, <1>5
<1>8. TargetOK'
  BY <1>1, <1>2, <1>4, <1>5, <1>6, <1>7 DEF TargetOK
<1>9. /\ install'.pc = "promote" /\ install'.staged = install.staged
      /\ install'.last = install.last /\ install'.done = install.done
      /\ install'.mode = install.mode /\ install'.from = install.from /\ install'.named = install.named
      /\ install' = [pc |-> install'.pc, mode |-> install'.mode, from |-> install'.from, named |-> install'.named,
                     staged |-> install'.staged, table |-> install'.table, last |-> install'.last,
                     done |-> install'.done]
  BY <1>1 DEF IInv, InstallOK
<1>10. TrustSatisfied' /\ FileAccepted'
  BY <1>1, <1>2, <1>9, ChecksStay DEF IInv, InstallOK
<1>11. /\ export.pc = "idle" /\ install.from \in Heights /\ files[install.from] # None
       /\ install.named # None => install.named \in Heights /\ manifests[install.named] # None
       /\ install.last \in Nat \cup {-1} /\ install.done \in Nat
       /\ IsStore(install.staged) /\ StoreOK(install.staged, signed)
  BY <1>1 DEF IInv, InstallOK
<1>12. Len(backups') >= 1
  BY <1>3, <1>4, <1>5
<1>13. InstallOK'
  BY <1>1, <1>2, <1>9, <1>10, <1>11, <1>12 DEF InstallOK
<1> QED
  BY <1>1, <1>8, <1>13, InstallerLeaves

LEMMA PromoteStagedStep ==
    ASSUME IInv, PromoteStaged
    PROVE  IInv'
<1>1. /\ install.pc = "promote" /\ live' = install.staged /\ backups' = backups
      /\ install' = [install EXCEPT !.pc = "idle"] /\ UNCHANGED faults /\ InstallIdle /\ signed' = signed
  BY DEF PromoteStaged, InstallIdle, artifacts
<1>2. live # LocalStore /\ StoreOK(install.staged, signed)
  BY <1>1, EmptyStoreIs DEF IInv, InstallOK
<1>3. TargetOK'
  BY <1>1, <1>2 DEF IInv, TargetOK
<1>4. InstallOK'
  BY <1>1, InstallerStops
<1> QED
  BY <1>1, <1>3, <1>4, InstallerLeaves

LEMMA PromoteFailsStep ==
    ASSUME IInv, PromoteFails
    PROVE  IInv'
<1>1. /\ install.pc = "promote" /\ live' = backups[Len(backups)]
      /\ backups' = SubSeq(backups, 1, Len(backups) - 1)
      /\ install' = [install EXCEPT !.pc = "idle"] /\ Fault /\ InstallIdle /\ signed' = signed
  BY DEF PromoteFails, InstallIdle, artifacts
<1>2. live # LocalStore /\ Len(backups) >= 1
  BY <1>1, EmptyStoreIs DEF IInv, InstallOK
<1>3. backups = [i \in 1..Len(backups) |-> backups[i]] /\ Len(backups) \in Nat
      /\ (\A i \in 1..Len(backups) : StoreOK(backups[i], signed))
      /\ (\E i \in 1..Len(backups) : backups[i] = LocalStore)
  BY <1>2 DEF IInv, TargetOK
<1>4. PICK c : c = backups'
  OBVIOUS
<1>5. /\ c = [i \in 1..Len(c) |-> c[i]] /\ Len(c) = Len(backups) - 1 /\ Len(c) \in Nat
      /\ \A i \in 1..Len(c) : c[i] = backups[i]
  BY <1>1, <1>2, <1>3, <1>4, BackupTaken
<1>6. \A i \in 1..Len(c) : i \in 1..Len(backups)
  BY <1>3, <1>5
<1>7. \A i \in 1..Len(c) : StoreOK(c[i], signed)
  BY <1>3, <1>5, <1>6
<1>8. StoreOK(live', signed)
  BY <1>1, <1>2, <1>3
<1>9. live' = LocalStore \/ \E i \in 1..Len(c) : c[i] = LocalStore
  <2>1. PICK i \in 1..Len(backups) : backups[i] = LocalStore
    BY <1>3
  <2>2. i = Len(backups) \/ i \in 1..Len(c)
    BY <1>3, <1>5
  <2> QED
    BY <1>1, <1>5, <2>1, <2>2
<1>10. TargetOK'
  BY <1>1, <1>4, <1>5, <1>7, <1>8, <1>9 DEF TargetOK
<1>11. InstallOK'
  BY <1>1, InstallerStops
<1> QED
  BY <1>1, <1>10, <1>11, InstallerLeaves

-----------------------------------------------------------------------------
(* The invariant and what it gives *)

LEMMA InitIInv == Init => IInv
<1> SUFFICES ASSUME Init PROVE IInv
  OBVIOUS
<1>1. ArtifactsOK
  BY DEF Init, ArtifactsOK
<1>2. ExportOK
  BY DEF Init, ExportOK, IsExport
<1>3. InstallOK
  BY DEF Init, InstallOK
<1>4. TargetOK
  <2>1. Len(backups) = 0 /\ backups = << >>
    BY DEF Init
  <2>2. backups = [i \in 1..Len(backups) |-> backups[i]] /\ 1..Len(backups) = {}
    BY <2>1
  <2> QED
    BY <2>1, <2>2, EmptyStoreIs DEF Init, TargetOK
<1>5. CountersOK
  BY SnapshotBounds DEF Init, CountersOK
<1> QED
  BY <1>1, <1>2, <1>3, <1>4, <1>5 DEF IInv

LEMMA StutterStep ==
    ASSUME IInv, UNCHANGED vars
    PROVE  IInv'
<1> USE DEF IInv
<1>1. UNCHANGED <<files, manifests, signatures, signed, export, install, live, backups, exports, installs, faults>>
  BY DEF vars
<1>2. ArtifactsOK'
  BY <1>1 DEF ArtifactsOK
<1>3. ExportOK'
  BY <1>1 DEF ExportOK, calc_hash
<1>4. TrustSatisfied' = TrustSatisfied /\ FileAccepted' = FileAccepted /\ File' = File
  BY <1>1, ChecksStay DEF artifacts
<1>5. InstallOK'
  BY <1>1, <1>4 DEF InstallOK
<1>6. TargetOK'
  BY <1>1 DEF TargetOK
<1>7. CountersOK'
  BY <1>1 DEF CountersOK
<1> QED
  BY <1>2, <1>3, <1>5, <1>6, <1>7

LEMMA NextIInv == IInv /\ [Next]_vars => IInv'
<1> SUFFICES ASSUME IInv, [Next]_vars PROVE IInv'
  OBVIOUS
<1>1. CASE Exporting
  BY <1>1, BeginExportStep, ExportBalancesStep, ExportCutShortStep, ExportUtxosStep, ExportScriptsStep,
     ExportCommitsStep, NextTableStep, UpdateMetaStep, WriteManifestStep, WriteSignatureStep, ExportEndsStep
     DEF Exporting
<1>2. CASE DamageFile
  BY <1>2, DamageFileStep
<1>3. CASE Installing
  BY <1>3, BeginInstallStep, RejectSnapshotStep, AcceptSnapshotStep, InstallTablesStep, FinishStagingStep,
     BackupLiveStep, PromoteStagedStep, PromoteFailsStep, InstallEndsStep
     DEF Installing
<1>4. CASE UNCHANGED vars
  BY <1>4, StutterStep
<1> QED
  BY <1>1, <1>2, <1>3, <1>4 DEF Next

\* The artifacts, the exporter, the installer and the directories of the node
\* agree at every step of SnapshotIndexer::run, of SnapshotInstaller::install and
\* of what damages a file between them.
THEOREM Inductive == Spec => []IInv
BY InitIInv, NextIInv, PTL DEF Spec

LEMMA StoresAreOK ==
    ASSUME IInv, NEW store \in Stores
    PROVE  StoreOK(store, signed)
<1>1. DOMAIN backups = 1..Len(backups)
  BY DEF IInv, TargetOK
<1> QED
  BY <1>1 DEF IInv, TargetOK, Stores, Range

\* The types of the files, of the exporter and of the installer, and never more
\* rows installed than the file's table has (index/snapshot.rs).
THEOREM TypeCorrect == Spec => []TypeOK
<1>1. IInv => TypeOK
  <2> SUFFICES ASSUME IInv PROVE TypeOK
    OBVIOUS
  <2>1. DOMAIN files = Heights /\ DOMAIN manifests = Heights /\ DOMAIN signatures = Heights
    BY DEF IInv, ArtifactsOK
  <2>2. \A h \in Heights : files[h] # None => DOMAIN files[h].tables = Tables
    <3>1. \A h \in Heights : files[h] # None => files[h].tables = [t \in Tables |-> files[h].tables[t]]
      BY DEF IInv, ArtifactsOK, FileOK, IsFile, IsTables
    <3> QED
      BY <3>1
  <2>3. /\ export.pc \in {"idle", "balance", "utxo", "commit", "script", "meta", "manifest", "sign"}
        /\ export.shards \subseteq AllShards /\ export.target \in Heights \cup {0}
    BY DEF IInv, ExportOK, IsExport, ExportPCs
  <2>4. install.pc \in {"idle", "check", "stage", "backup", "promote", "panicked"}
    BY DEF IInv, InstallOK
  <2>5. ASSUME install.pc = "stage", install.table # "height"
        PROVE  install.done <= Cardinality(DOMAIN File.tables[install.table])
    <3>1. install.table \in Tables /\ IsTables(File.tables)
          /\ install.done = Cardinality(UpTo(File.tables[install.table], install.last))
      BY <2>5, InstalledFile DEF IInv, InstallOK, StagedOK
    <3>2. IsTable(File.tables[install.table])
      BY <3>1 DEF IsTables
    <3>3. UpTo(File.tables[install.table], install.last) \subseteq DOMAIN File.tables[install.table]
      BY DEF UpTo
    <3> QED
      BY <3>1, <3>2, <3>3, TableSize
  <2>6. live # None => live.height \in Heights \cup {0, Local}
    BY DEF IInv, TargetOK, StoreOK
  <2>7. exports <= MaxExports /\ installs <= MaxInstalls /\ faults <= MaxFaults
    BY DEF IInv, CountersOK
  <2> QED
    BY <2>1, <2>2, <2>3, <2>4, <2>5, <2>6, <2>7 DEF TypeOK
<1> QED
  BY <1>1, Inductive, PTL

\* For any source store, shard count and page size, and however often exports
\* and installs are cut off and repeated: a store installed under a verified
\* manifest or signature, or from a file that arrived as it was written, is a
\* state the source node had at that height, unless an iterator error cut a
\* shard short (index/snapshot.rs SnapshotInstaller::install).
THEOREM InstalledIsASourceStateAlways == Spec => []InstalledIsASourceState
<1>1. IInv => InstalledIsASourceState
  BY StoresAreOK DEF InstalledIsASourceState, StoreOK
<1> QED
  BY <1>1, Inductive, PTL

\* In the signed trust mode what is installed are rows that a trusted key has
\* signed, whatever stale manifest or signature lies next to the file
\* (index/snapshot.rs, the Signed branch).
THEOREM TrustHonouredAlways == Spec => []TrustHonoured
<1>1. IInv => TrustHonoured
  BY StoresAreOK DEF TrustHonoured, StoreOK
<1> QED
  BY <1>1, Inductive, PTL

\* The row counts asserted after the last page of a table are met unless the
\* file is damaged, whatever the page size: the pages cover each table, each
\* row once (index/snapshot.rs, the assertions after the loops).
THEOREM CountsMatch == Spec => []CountsMatchUnlessDamaged
<1>1. IInv => CountsMatchUnlessDamaged
  BY DEF IInv, InstallOK, CountsMatchUnlessDamaged
<1> QED
  BY <1>1, Inductive, PTL

\* The node's own store is the live one or a backup at every moment of every
\* sequence of swaps, failed swaps and crashes (swap_staging_db_into_place).
THEOREM OldStoreIsKept == Spec => []OldStoreKept
<1>1. IInv => OldStoreKept
  <2> SUFFICES ASSUME IInv PROVE LocalStore \in Stores
    BY DEF OldStoreKept
  <2>1. LocalStore # None
    BY EmptyStoreIs
  <2>2. DOMAIN backups = 1..Len(backups)
    BY DEF IInv, TargetOK
  <2> QED
    BY <2>1, <2>2 DEF IInv, TargetOK, Stores, Range
<1> QED
  BY <1>1, Inductive, PTL

=============================================================================
