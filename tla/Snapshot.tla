------------------------------ MODULE Snapshot ------------------------------
(***************************************************************************)
(* Exporting a balance-history store to a snapshot file and installing it  *)
(* on another node (index/snapshot.rs, db/snapshot.rs).                    *)
(*                                                                         *)
(* The exporter writes one SQLite file table by table, then its metadata,  *)
(* then a manifest with the file's hash and the state reference, then a    *)
(* detached signature.  The installer checks what its trust mode asks for, *)
(* fills a staging store page by page, and renames directories to put it   *)
(* in the place of the live one.  Either process may fail or die between   *)
(* any two steps and may be run again; both open the live RocksDB of their *)
(* node exclusively, so a run is never concurrent with another one on the  *)
(* same node.                                                              *)
(*                                                                         *)
(* Every table is a function from natural-number keys (script hashes,      *)
(* outpoints, heights) to values.  The hash of a file is its content.      *)
(***************************************************************************)
EXTENDS Integers, Sequences, FiniteSets, Functions

CONSTANTS
    Source,         \* the exporting store: [height, rows, utxo, commit, script]
    Local,          \* the height of the installing node's store before any install
    Shard,          \* number of key shards exported in parallel (256 in the code)
    PageSize,       \* entries of one page of an installation
    Keys,           \* signing keys an exporter may be configured with
    Trusted,        \* keys of the installer's trusted_keys_file
    TrustModes,     \* trust modes an installer may be configured with
    None,           \* no file, no key, no manifest
    MaxExports,     \* bound on export runs
    MaxInstalls,    \* bound on install runs
    MaxFaults       \* bound on crashes, I/O errors and damaged files

Tables == {"balance", "utxo", "commit", "script"}
Sharded == {"balance", "utxo", "script"}
EmptyTables == [t \in Tables |-> << >>]
Heights == 1..Source.height

\* A table of the store: finitely many rows under natural-number keys.
IsTable(rows) ==
    /\ rows = [k \in DOMAIN rows |-> rows[k]]
    /\ DOMAIN rows \subseteq Nat /\ IsFiniteSet(DOMAIN rows)

\* The sync loop writes a commit with every block from height 1 on, and
\* clear_blocks may have deleted them.
ASSUME SourceAssumption ==
    /\ Source.height \in Nat
    /\ DOMAIN Source.rows \subseteq Nat \X (0..Source.height) /\ IsFiniteSet(DOMAIN Source.rows)
    /\ \A r \in DOMAIN Source.rows : Source.rows[r] \in Nat
    /\ IsTable(Source.utxo) /\ IsTable(Source.commit) /\ IsTable(Source.script)
    /\ DOMAIN Source.commit \subseteq Heights

ASSUME SnapshotBounds ==
    /\ Shard \in Nat \ {0} /\ PageSize \in Nat \ {0}
    /\ Trusted \subseteq Keys /\ None \notin Keys
    /\ TrustModes \subseteq {"dev", "manifest", "signed"}
    /\ MaxExports \in Nat /\ MaxInstalls \in Nat /\ MaxFaults \in Nat

VARIABLES
    files,      \* per height, snapshot_<height>.db: [tables, meta, cut, damaged], or None
    manifests,  \* per height, its manifest: [height, sha, stateRef, key], or None
    signatures, \* per height, the detached signature: [of, key], or None
    signed,     \* history: the file contents that each key has signed
    export,     \* the exporter: [pc, target, utxo, key, shards, counts]
    install,    \* the installer: [pc, mode, from, named, staged, table, last, done]
    live,       \* the db directory of the installing node, or None
    backups,    \* db_backup_snapshot_install_* directories, oldest first
    exports, installs, faults

vars == <<files, manifests, signatures, signed, export, install, live, backups,
          exports, installs, faults>>
artifacts == <<files, manifests, signatures, signed>>
target == <<live, backups>>

\* The rows of g written to f.  The exporter inserts and does not replace, and
\* the keys of two shards never meet (SnapshotProofs, OneMoreShard).
Put(f, g) == [x \in DOMAIN f \cup DOMAIN g |-> IF x \in DOMAIN g THEN g[x] ELSE f[x]]

Fault == faults < MaxFaults /\ faults' = faults + 1

(***************************************************************************)
(* Reading the exporting store.                                            *)
(***************************************************************************)
ShardOf(k) == k % Shard

\* The latest row of a script at or below a height, and the balance it gives.
RowHeights(s, h) == {g \in 0..h : <<s, g>> \in DOMAIN Source.rows}
LatestRow(s, h) == CHOOSE g \in RowHeights(s, h) : \A x \in RowHeights(s, h) : x <= g
BalanceAt(s, h) == IF RowHeights(s, h) = {} THEN 0 ELSE Source.rows[<<s, LatestRow(s, h)>>]
Scripts == {r[1] : r \in DOMAIN Source.rows}

\* Scripts with a zero balance are left out.
generate_balance_history_snapshot_sharded(h, shard) ==
    [s \in {k \in Scripts : ShardOf(k) = shard /\ BalanceAt(k, h) > 0}
        |-> [height |-> LatestRow(s, h), balance |-> BalanceAt(s, h)]]

generate_utxo_snapshot_sharded(shard) ==
    Restrict(Source.utxo, {o \in DOMAIN Source.utxo : ShardOf(o) = shard})

generate_script_registry_snapshot_sharded(shard) ==
    Restrict(Source.script, {s \in DOMAIN Source.script : ShardOf(s) = shard})

\* The commits that the store has up to a height.
generate_block_commit_snapshot(h) ==
    Restrict(Source.commit, {g \in DOMAIN Source.commit : g <= h})

\* The commit of a height stands for the identity derived from it.
build_historical_state_ref_at_height(commit, h) ==
    IF h \in DOMAIN commit THEN [height |-> h, commit |-> commit[h]] ELSE None

(***************************************************************************)
(* The exporter: SnapshotIndexer::run.                                     *)
(***************************************************************************)
AllShards == 0..(Shard - 1)

\* Mutation: one block past the synced height.
ExportAllowed_one_past(h, utxo) == h <= Source.height + 1 /\ (utxo => h = Source.height)

\* A historical export is possible, but not of the UTXO set.
ExportAllowed(h, utxo) == h <= Source.height /\ (utxo => h = Source.height)

\* An existing file is renamed out of the way; its manifest and its signature
\* stay where they are.
open_by_height(h) ==
    files' = [files EXCEPT ![h] = [tables |-> EmptyTables, meta |-> None,
                                   cut |-> FALSE, damaged |-> FALSE]]

BeginExport ==
    /\ export.pc = "idle" /\ install.pc = "idle" /\ exports < MaxExports
    /\ \E h \in 1..(Source.height + 1), utxo \in BOOLEAN, key \in Keys \cup {None} :
        /\ ExportAllowed(h, utxo)
        /\ open_by_height(h)
        /\ export' = [pc |-> "balance", target |-> h, utxo |-> utxo, key |-> key,
                      shards |-> AllShards, counts |-> [t \in Tables |-> 0]]
    /\ exports' = exports + 1
    /\ UNCHANGED <<manifests, signatures, signed, install, target, installs, faults>>

\* A batch of rows is inserted in one transaction.
put_balance_history_entries(file, rows) == [file EXCEPT !.tables["balance"] = Put(@, rows)]
put_utxo_entries(file, rows) == [file EXCEPT !.tables["utxo"] = Put(@, rows)]
put_block_commit_entries(file, rows) == [file EXCEPT !.tables["commit"] = Put(@, rows)]
put_script_registry_entries(file, rows) == [file EXCEPT !.tables["script"] = Put(@, rows)]

\* The callbacks of SnapshotGenerator: write the rows, add their number.
CountRows(rows) == [export EXCEPT !.counts[export.pc] = @ + Cardinality(DOMAIN rows)]

ExportIdle == UNCHANGED <<manifests, signatures, signed, install, target, exports, installs>>

\* The shards of a table are exported in parallel, in any order.
ExportShard(shard, rows, written) ==
    /\ shard \in export.shards
    /\ files' = [files EXCEPT ![export.target] = written]
    /\ export' = [CountRows(rows) EXCEPT !.shards = @ \ {shard}]
    /\ ExportIdle

ExportBalances == export.pc = "balance" /\ UNCHANGED faults /\ \E s \in AllShards :
    LET rows == generate_balance_history_snapshot_sharded(export.target, s)
    IN  ExportShard(s, rows, put_balance_history_entries(files[export.target], rows))

ExportUtxos == export.pc = "utxo" /\ UNCHANGED faults /\ \E s \in AllShards :
    LET rows == generate_utxo_snapshot_sharded(s)
    IN  ExportShard(s, rows, put_utxo_entries(files[export.target], rows))

ExportScripts == export.pc = "script" /\ UNCHANGED faults /\ \E s \in AllShards :
    LET rows == generate_script_registry_snapshot_sharded(s)
    IN  ExportShard(s, rows, put_script_registry_entries(files[export.target], rows))

\* A shard of the table that is being exported, and its rows in the file.
ShardRows(shard) ==
    CASE export.pc = "balance" -> generate_balance_history_snapshot_sharded(export.target, shard)
      [] export.pc = "utxo" -> generate_utxo_snapshot_sharded(shard)
      [] export.pc = "script" -> generate_script_registry_snapshot_sharded(shard)
PutShard(file, rows) ==
    CASE export.pc = "balance" -> put_balance_history_entries(file, rows)
      [] export.pc = "utxo" -> put_utxo_entries(file, rows)
      [] export.pc = "script" -> put_script_registry_entries(file, rows)

\* Each of the three loops runs from the last key of its shard down, and an
\* iterator that fails ends it like one that is through: the rows it had not
\* reached are left out, and no error is reported.
ExportCutShort == export.pc \in Sharded /\ Fault /\ \E s \in AllShards :
    \E first \in DOMAIN ShardRows(s) :
        LET rows == Restrict(ShardRows(s), {k \in DOMAIN ShardRows(s) : k > first})
        IN  ExportShard(s, rows, [PutShard(files[export.target], rows) EXCEPT !.cut = TRUE])

ExportCommits ==
    /\ export.pc = "commit"
    /\ LET rows == generate_block_commit_snapshot(export.target)
       IN  /\ files' = [files EXCEPT ![export.target] = put_block_commit_entries(@, rows)]
           /\ export' = [CountRows(rows) EXCEPT !.pc = "script", !.shards = AllShards]
    /\ ExportIdle /\ UNCHANGED faults

\* The tables follow each other; a balance-only export has no UTXO table.
NextTable ==
    /\ export.pc \in Sharded
    /\ export.shards = {}
    /\ export' = [export EXCEPT !.pc = CASE export.pc = "balance" /\ export.utxo -> "utxo"
                                         [] export.pc = "balance" /\ ~export.utxo -> "commit"
                                         [] export.pc = "utxo" -> "commit"
                                         [] export.pc = "script" -> "meta",
                                !.shards = AllShards]
    /\ UNCHANGED <<files, faults>>
    /\ ExportIdle

\* The counts are the last thing written to the file.
update_meta ==
    /\ export.pc = "meta"
    /\ files' = [files EXCEPT ![export.target].meta =
                     [height |-> export.target, counts |-> export.counts]]
    /\ export' = [export EXCEPT !.pc = "manifest"]
    /\ ExportIdle /\ UNCHANGED faults

\* Mutation: the hash leaves out what is still in the write-ahead log.
calc_hash_before_checkpoint(file) == <<file.meta>>

\* The hash is taken once the write-ahead log is back in the file, so it
\* covers the rows and the metadata.
calc_hash(file) == <<file.tables, file.meta>>

\* The manifest names the file by its height.
SnapshotManifest(h, key) ==
    [height |-> h, sha |-> calc_hash(files[h]),
     stateRef |-> build_historical_state_ref_at_height(Source.commit, h), key |-> key]

\* A source without the commit of that height fails here: the file is complete,
\* and no manifest is written.
WriteManifest ==
    /\ export.pc = "manifest"
    /\ IF build_historical_state_ref_at_height(Source.commit, export.target) = None
       THEN /\ export' = [export EXCEPT !.pc = "idle"]
            /\ UNCHANGED manifests
       ELSE /\ manifests' = [manifests EXCEPT ![export.target] =
                                 SnapshotManifest(export.target, export.key)]
            /\ export' = [export EXCEPT !.pc = IF export.key = None THEN "idle" ELSE "sign"]
    /\ UNCHANGED <<files, signatures, signed, install, target, exports, installs, faults>>

\* A detached signature over the canonical bytes of a manifest.
sign(manifest, key) == [of |-> manifest, key |-> key]

WriteSignature ==
    /\ export.pc = "sign"
    /\ signatures' = [signatures EXCEPT ![export.target] =
                          sign(manifests[export.target], export.key)]
    /\ signed' = [signed EXCEPT ![export.key] = @ \cup {files[export.target].tables}]
    /\ export' = [export EXCEPT !.pc = "idle"]
    /\ UNCHANGED <<files, manifests, install, target, exports, installs, faults>>

\* An error or a crash ends the export where it is.
ExportEnds ==
    /\ export.pc # "idle"
    /\ Fault
    /\ export' = [export EXCEPT !.pc = "idle"]
    /\ UNCHANGED <<artifacts, install, target, exports, installs>>

\* A file damaged on its way to the installing node: a changed balance, or a
\* lost row.
DamageFile ==
    /\ export.pc = "idle" /\ install.pc = "idle"
    /\ Fault
    /\ \E h \in Heights :
        /\ files[h] # None
        /\ \E s \in DOMAIN files[h].tables["balance"] :
            \/ files' = [files EXCEPT ![h].damaged = TRUE,
                                      ![h].tables["balance"][s].balance = @ + 1]
            \/ files' = [files EXCEPT ![h].damaged = TRUE,
                            ![h].tables["balance"] = Restrict(@, DOMAIN @ \ {s})]
    /\ UNCHANGED <<manifests, signatures, signed, export, install, target, exports, installs>>

(***************************************************************************)
(* The installer: SnapshotInstaller::install.                              *)
(***************************************************************************)
EmptyStore == [height |-> 0, tables |-> EmptyTables, provenance |-> None,
               cut |-> FALSE, damaged |-> FALSE]
LocalStore == [EmptyStore EXCEPT !.height = Local]

ASSUME NoneAssumption == None \notin {EmptyStore, LocalStore}

\* Opening the store of a node creates an empty one where there is none.
open == IF live = None THEN EmptyStore ELSE live

\* What the running installation works from.
File == files[install.from]
HasManifest == install.named # None
Manifest == manifests[install.named]

\* The operator names a file, and a manifest or the one found next to the file.
BeginInstall ==
    /\ export.pc = "idle" /\ install.pc = "idle" /\ installs < MaxInstalls
    /\ installs' = installs + 1
    /\ live' = open
    /\ \E mode \in TrustModes, from \in Heights, named \in Heights \cup {None} :
        /\ files[from] # None
        /\ IF named = None THEN manifests[from] = None ELSE manifests[named] # None
        /\ install' = [install EXCEPT !.pc = "check", !.mode = mode, !.from = from,
                                      !.named = named, !.staged = EmptyStore]
    /\ UNCHANGED <<artifacts, export, backups, exports, faults>>

find_verifying_key(key) == key \in Trusted

\* Mutation: the signature is not checked against the manifest's bytes.
SignatureVerified_by_key_only ==
    /\ find_verifying_key(Manifest.key)
    /\ signatures[install.named] # None
    /\ signatures[install.named].key = Manifest.key

SignatureVerified ==
    /\ find_verifying_key(Manifest.key)
    /\ signatures[install.named] # None
    /\ signatures[install.named] = sign(Manifest, Manifest.key)

TrustSatisfied ==
    /\ install.mode \in {"manifest", "signed"} => HasManifest
    /\ install.mode = "signed" => SignatureVerified

\* With a manifest its file name, the hash of the file and the height are
\* compared; without one nothing is.  A file without metadata is refused.
FileAccepted ==
    /\ HasManifest => /\ Manifest.height = install.from
                      /\ Manifest.sha = calc_hash(File)
    /\ File.meta # None
    /\ HasManifest => Manifest.stateRef.height = File.meta.height

InstallIdle == UNCHANGED <<artifacts, export, exports, installs>>

RejectSnapshot ==
    /\ install.pc = "check"
    /\ ~(TrustSatisfied /\ FileAccepted)
    /\ install' = [install EXCEPT !.pc = "idle"]
    /\ UNCHANGED <<target, faults>>
    /\ InstallIdle

AcceptSnapshot ==
    /\ install.pc = "check"
    /\ TrustSatisfied /\ FileAccepted
    /\ install' = [install EXCEPT !.pc = "stage", !.table = "balance", !.last = -1, !.done = 0]
    /\ UNCHANGED <<target, faults>>
    /\ InstallIdle

\* The page of at most PageSize rows whose keys follow the last one.
PageKeys(rows, last) ==
    {k \in DOMAIN rows : k > last /\ Cardinality({j \in DOMAIN rows : j > last /\ j < k}) < PageSize}

get_balance_history_entries(last) == PageKeys(File.tables["balance"], last)
get_utxo_entries(last) == PageKeys(File.tables["utxo"], last)
get_block_commit_entries(last) == PageKeys(File.tables["commit"], last)
get_script_registry_entries(last) == PageKeys(File.tables["script"], last)

LastKey(keys) == CHOOSE k \in keys : \A j \in keys : j <= k

\* Mutation: a full page ends the table.
LastPage_when_full(keys) == Cardinality(keys) <= PageSize

\* A page that is not full is the last one.
LastPage(keys) == Cardinality(keys) < PageSize

\* A table whose count in the metadata is zero is skipped.
SkipTable(table, next) ==
    /\ install.pc = "stage" /\ install.table = table
    /\ File.meta.counts[table] = 0
    /\ install' = [install EXCEPT !.table = next]

\* One page into the staging store; after the last one the number of rows is
\* asserted to be the number in the metadata.
InstallPage(table, next, page) ==
    /\ install.pc = "stage" /\ install.table = table
    /\ File.meta.counts[table] # 0
    /\ LET total  == install.done + Cardinality(page)
           staged == [install.staged EXCEPT !.tables[table] = Put(@, Restrict(File.tables[table], page))]
       IN  \/ /\ ~LastPage(page)
              /\ install' = [install EXCEPT !.staged = staged, !.done = total, !.last = LastKey(page)]
           \/ /\ LastPage(page) /\ total = File.meta.counts[table]
              /\ install' = [install EXCEPT !.staged = staged, !.table = next, !.done = 0, !.last = -1]
           \/ /\ LastPage(page) /\ total # File.meta.counts[table]
              /\ install' = [install EXCEPT !.pc = "panicked"]

InstallTable(table, next, page) ==
    /\ SkipTable(table, next) \/ InstallPage(table, next, page)
    /\ UNCHANGED <<target, faults>>
    /\ InstallIdle

install_balance_history_snapshot ==
    InstallTable("balance", "utxo", get_balance_history_entries(install.last))
install_utxo_snapshot == InstallTable("utxo", "commit", get_utxo_entries(install.last))
install_block_commit_snapshot ==
    InstallTable("commit", "script", get_block_commit_entries(install.last))
install_script_registry_snapshot ==
    InstallTable("script", "height", get_script_registry_entries(install.last))

validate_staged_manifest ==
    HasManifest =>
        build_historical_state_ref_at_height(install.staged.tables["commit"], File.meta.height)
            = Manifest.stateRef

SnapshotInstallProvenance ==
    [mode |-> install.mode,
     verified |-> IF install.mode = "signed" THEN "signature"
                  ELSE IF HasManifest THEN "manifest" ELSE "missing",
     key |-> IF HasManifest THEN Manifest.key ELSE None]

\* The height, the staged state against the manifest, then the provenance.
FinishStaging ==
    /\ install.pc = "stage" /\ install.table = "height"
    /\ install' = IF validate_staged_manifest
                  THEN [install EXCEPT !.pc = "backup",
                            !.staged = [@ EXCEPT !.height = File.meta.height,
                                           !.provenance = SnapshotInstallProvenance,
                                           !.cut = File.cut, !.damaged = File.damaged]]
                  ELSE [install EXCEPT !.pc = "idle"]
    /\ UNCHANGED <<target, faults>>
    /\ InstallIdle

\* Mutation: the live directory is removed instead of renamed.
BackupLive_removes ==
    /\ install.pc = "backup"
    /\ live' = None
    /\ install' = [install EXCEPT !.pc = "promote"]
    /\ UNCHANGED <<backups, faults>>
    /\ InstallIdle

\* swap_staging_db_into_place: two renames, one after the other.
BackupLive ==
    /\ install.pc = "backup"
    /\ backups' = Append(backups, live)
    /\ live' = None
    /\ install' = [install EXCEPT !.pc = "promote"]
    /\ UNCHANGED faults
    /\ InstallIdle

PromoteStaged ==
    /\ install.pc = "promote"
    /\ live' = install.staged
    /\ install' = [install EXCEPT !.pc = "idle"]
    /\ UNCHANGED <<backups, faults>>
    /\ InstallIdle

\* When the second rename fails the backup just made is renamed back.
PromoteFails ==
    /\ install.pc = "promote"
    /\ Fault
    /\ live' = backups[Len(backups)]
    /\ backups' = SubSeq(backups, 1, Len(backups) - 1)
    /\ install' = [install EXCEPT !.pc = "idle"]
    /\ InstallIdle

\* An error before the swap, or a crash anywhere, ends the installation; so
\* does the failed assertion.
InstallEnds ==
    /\ install.pc # "idle"
    /\ IF install.pc = "panicked" THEN UNCHANGED faults ELSE Fault
    /\ install' = [install EXCEPT !.pc = "idle"]
    /\ UNCHANGED target
    /\ InstallIdle

Init ==
    /\ files = [h \in Heights |-> None]
    /\ manifests = [h \in Heights |-> None]
    /\ signatures = [h \in Heights |-> None]
    /\ signed = [k \in Keys |-> {}]
    /\ export = [pc |-> "idle", target |-> 0, utxo |-> FALSE, key |-> None,
                 shards |-> {}, counts |-> [t \in Tables |-> 0]]
    /\ install = [pc |-> "idle", mode |-> None, from |-> 0, named |-> None,
                  staged |-> EmptyStore, table |-> "balance", last |-> -1, done |-> 0]
    /\ live = LocalStore
    /\ backups = << >>
    /\ exports = 0 /\ installs = 0 /\ faults = 0

Exporting == BeginExport \/ ExportBalances \/ ExportCutShort \/ ExportUtxos \/ ExportScripts
             \/ ExportCommits \/ NextTable \/ update_meta \/ WriteManifest \/ WriteSignature
             \/ ExportEnds
Installing == BeginInstall \/ RejectSnapshot \/ AcceptSnapshot
              \/ install_balance_history_snapshot \/ install_utxo_snapshot
              \/ install_block_commit_snapshot \/ install_script_registry_snapshot
              \/ FinishStaging \/ BackupLive \/ PromoteStaged \/ PromoteFails \/ InstallEnds

Next == Exporting \/ DamageFile \/ Installing

Spec == Init /\ [][Next]_vars

(***************************************************************************)
(* Properties.                                                             *)
(***************************************************************************)

\* Every directory holds a store, every artifact is a file that run can write,
\* and the counters respect their bounds.
TypeOK ==
    /\ DOMAIN files = Heights /\ DOMAIN manifests = Heights /\ DOMAIN signatures = Heights
    /\ \A h \in Heights : files[h] # None => DOMAIN files[h].tables = Tables
    /\ export.pc \in {"idle", "balance", "utxo", "commit", "script", "meta", "manifest", "sign"}
    /\ export.shards \subseteq AllShards /\ export.target \in Heights \cup {0}
    /\ install.pc \in {"idle", "check", "stage", "backup", "promote", "panicked"}
    /\ install.pc = "stage" /\ install.table # "height" =>
          install.done <= Cardinality(DOMAIN File.tables[install.table])
    /\ live # None => live.height \in Heights \cup {0, Local}
    /\ exports <= MaxExports /\ installs <= MaxInstalls /\ faults <= MaxFaults

\* The stores on the disk of the installing node.
Stores == Range(backups) \cup ({live} \ {None})

\* The store is one the source node had at that height: every balance that is
\* there, no balance that is not there but was positive, the commits the source
\* has up to the height, and the unspent outputs only at the source's own tip.
IsASourceState(store) ==
    /\ store.height \in Heights
    /\ \A s \in Scripts : BalanceAt(s, store.height) =
            IF s \in DOMAIN store.tables["balance"] THEN store.tables["balance"][s].balance ELSE 0
    /\ store.tables["commit"] = Restrict(Source.commit, {g \in DOMAIN Source.commit : g <= store.height})
    /\ \/ store.tables["utxo"] = Source.utxo /\ store.height = Source.height
       \/ store.tables["utxo"] = << >>
    /\ store.tables["script"] = Source.script

\* An installed store is a state of the source node: always when its provenance
\* says the manifest or the signature was verified, and without a manifest when
\* the file arrived as it was written.  Export and install may have been cut
\* off and repeated at any step; only a shard that an iterator error cut short
\* is not noticed (index/snapshot.rs SnapshotInstaller::install).
InstalledIsASourceState ==
    \A store \in Stores :
        (/\ store.provenance # None
         /\ store.provenance.verified # "missing" \/ ~store.damaged
         /\ ~store.cut)
        => IsASourceState(store)

\* In the signed trust mode the rows that were installed are rows that a
\* trusted key has signed, whatever stale manifest or signature an interrupted
\* export left next to the file (index/snapshot.rs, the Signed branch).
TrustHonoured ==
    \A store \in Stores :
        store.provenance # None /\ store.provenance.mode = "signed" =>
            /\ store.provenance.key \in Trusted
            /\ store.tables \in signed[store.provenance.key]

\* The row counts asserted after the last page of a table are only missed when
\* the file was damaged, also when the rows fill the last page exactly.
CountsMatchUnlessDamaged == install.pc = "panicked" => File.damaged

\* The store the node had before the first installation is never lost: it is
\* the live one or one of the backups (swap_staging_db_into_place).
OldStoreKept == LocalStore \in Stores
=============================================================================
