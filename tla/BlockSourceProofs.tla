-------------------------- MODULE BlockSourceProofs --------------------------
(***************************************************************************)
(* Theorems about BlockSource, for any tree of blocks, any order in which  *)
(* bitcoind writes them, any file, cache and queue sizes and any number of *)
(* reorganisations, stops and faults of any kind.                          *)
(***************************************************************************)
EXTENDS BlockSource, SumProofs

-----------------------------------------------------------------------------
(* The inductive invariant *)

\* A sequence of headers from the genesis block, each the parent of the next.
IsChain(s) == \A i \in DOMAIN s : Parent[s[i]] = IF i = 1 THEN Zero ELSE s[i - 1]

Entries == Nat \X (1..RecordsPerFile)
FileCopies == Nat \X Seq(Block)

NodeOK ==
    /\ arrival \in Seq(Block)
    /\ files \in Seq(Seq(Block)) /\ Len(files) >= 1
    /\ \A i \in DOMAIN files : Len(files[i]) <= RecordsPerFile
    /\ best \in Seq(Block) /\ Len(best) >= 1
    /\ IsChain(best)

\* Copies of blk files: what each file began with when it was read.
CopyOK(e, fs) ==
    /\ e[1] + 1 <= Len(fs)
    /\ Len(e[2]) <= Len(fs[e[1] + 1])
    /\ \A r \in 1..Len(e[2]) : e[2][r] = fs[e[1] + 1][r]

CopiesOK(q, fs) == q \in Seq(FileCopies) /\ \A i \in DOMAIN q : CopyOK(q[i], fs)

PrefetchOK ==
    /\ prefetch \in [latest : Nat, request : Nat \cup {None}, load : Nat \cup {None}, alive : BOOLEAN]
    /\ Up => prefetch.latest + 1 <= Len(files)
    /\ prefetch.load # None => prefetch.load + 1 <= Len(files) /\ Len(queue) < PrefetchCapacity

CacheOK ==
    /\ CopiesOK(fileCache, files) /\ Len(fileCache) <= CacheCapacity
    /\ CopiesOK(queue, files) /\ Len(queue) <= PrefetchCapacity
    /\ channel \in Seq(Nat)
    /\ PrefetchOK

\* The entries of an index are places of the blk files at which its blocks are.
EntriesRight(ix, fs) ==
    \A b \in DOMAIN ix :
        /\ ix[b][1] + 1 <= Len(fs)
        /\ ix[b][2] <= Len(fs[ix[b][1] + 1])
        /\ fs[ix[b][1] + 1][ix[b][2]] = b

LayoutOK ==
    /\ layout \in [now : Nat, db : Nat \cup {None}, mem : Nat \cup {None}]
    /\ layout.db <= layout.now /\ layout.mem <= layout.now
    /\ layout.db = layout.now => EntriesRight(dbBlocks, files)
    /\ layout.mem = layout.now => EntriesRight(idx, files)

\* A saved index of one build is a chain.
StoreOK ==
    /\ DOMAIN dbBlocks \subseteq Block /\ dbBlocks \in [DOMAIN dbBlocks -> Entries]
    /\ DOMAIN dbHeights \subseteq Nat /\ dbHeights \in [DOMAIN dbHeights -> Block]
    /\ IsFiniteSet(DOMAIN dbHeights)
    /\ dbLast \in Nat \cup {None}
    /\ pc = "restore" => dbLast # None /\ dbLast <= LatestFile
    /\ pc \in {"clear_blocks", "clear_heights"} => dbLast = None
    /\ layout.db # None /\ dbLast # None =>
          \A h \in DOMAIN dbHeights :
             /\ dbHeights[h] \in DOMAIN dbBlocks
             /\ Parent[dbHeights[h]] = IF h = 0 THEN Zero ELSE dbHeights[h - 1]

BeforeBuild == {"new", "down", "build_index", "restore", "clear_meta", "clear_blocks",
                "clear_heights", "clear_commits", "list_files"}
Building == {"index_files", "sort"}
Serving == {"idle", "load", "next", "complete", "wait"}

IndexOK ==
    /\ pc \in BeforeBuild \cup Building \cup Serving
    /\ DOMAIN idx \subseteq Block /\ idx \in [DOMAIN idx -> Entries]
    /\ sorted \in Seq(Block)
    /\ \A b \in DOMAIN idx : idx[b][1] + 1 <= Len(files)
    /\ pc \in BeforeBuild => idx = << >>
    /\ pc \in BeforeBuild \cup {"index_files"} => sorted = << >>
    /\ pc \in Building => layout.mem = layout.now
    /\ pc = "index_files" => pending \subseteq 0..(Len(files) - 2)
    /\ layout.mem # None => IsChain(sorted) /\ \A i \in DOMAIN sorted : sorted[i] \in DOMAIN idx

\* Above bitcoind's tip the index has a block without a sibling at every height:
\* otherwise bitcoind would have been asked and the build have failed.
FollowOK ==
    layout.mem # None /\ ~moved =>
        /\ \A i \in DOMAIN sorted : Leaves(i) => best[i] \notin DOMAIN idx
        /\ \A i \in DOMAIN sorted : i > Len(best) =>
              \A b \in DOMAIN idx : Parent[b] = Parent[sorted[i]] => b = sorted[i]

\* The blocks of a batch are those right above the ledger, up to the target.
LedgerOK ==
    /\ ledger \in Seq(Block)
    /\ commits \subseteq 1..Len(ledger)
    /\ pc \in {"load", "next"} => latest \in Nat
    /\ pc = "next" => batch = << >>
    /\ pc = "load" =>
          /\ \A h \in DOMAIN batch : batch[h] \in Block
          /\ \E n \in 0..BatchSize : DOMAIN batch \cup pending = (Len(ledger) + 1)..(Len(ledger) + n)

FetchOK == ~IndexInUse \/ layout.mem = layout.now => fetched.asked = fetched.got

IInv == NodeOK /\ CacheOK /\ LayoutOK /\ StoreOK /\ IndexOK /\ FollowOK /\ LedgerOK /\ FetchOK

-----------------------------------------------------------------------------
(* blk files and copies of them *)

LEMMA Bounds ==
    /\ RecordsPerFile \in Nat /\ RecordsPerFile >= 1 /\ BatchSize \in Nat
    /\ CacheCapacity \in Nat /\ CacheCapacity >= 1
    /\ PrefetchCapacity \in Nat /\ PrefetchCapacity >= 1 /\ StableLag \in Nat /\ None \notin Nat
BY BoundAssumption DEF None

\* bitcoind only appends.
Grows ==
    /\ Len(files) <= Len(files')
    /\ \A i \in 1..Len(files) :
          /\ Len(files[i]) <= Len(files'[i])
          /\ \A r \in 1..Len(files[i]) : files'[i][r] = files[i][r]

LEMMA AppendGrows ==
    ASSUME NodeOK, NEW b \in Block, Append1(b)
    PROVE  /\ files' \in Seq(Seq(Block)) /\ Len(files') >= 1
           /\ \A i \in DOMAIN files' : Len(files'[i]) <= RecordsPerFile
           /\ Grows
<1> DEFINE n == Len(files)
<1>1. /\ files \in Seq(Seq(Block)) /\ n \in Nat /\ n >= 1 /\ files[n] \in Seq(Block)
      /\ \A i \in 1..n : files[i] \in Seq(Block) /\ Len(files[i]) \in Nat /\ Len(files[i]) <= RecordsPerFile
  BY DEF NodeOK
<1>2. CASE Len(files[n]) < RecordsPerFile
  <2> DEFINE last == Append(files[n], b)
  <2>1. files' = [files EXCEPT ![n] = last]
    BY <1>2 DEF Append1
  <2>2. /\ last \in Seq(Block) /\ Len(last) = Len(files[n]) + 1
        /\ \A r \in 1..Len(files[n]) : last[r] = files[n][r]
    BY <1>1
  <2> HIDE DEF last
  <2>3. files' \in Seq(Seq(Block)) /\ Len(files') = n
    BY <1>1, <2>1, <2>2
  <2>4. \A i \in 1..n : files'[i] = IF i = n THEN last ELSE files[i]
    BY <1>1, <2>1
  <2>5. \A i \in 1..n : Len(files'[i]) <= RecordsPerFile
    BY <1>1, <1>2, <2>2, <2>4, Bounds
  <2>6. DOMAIN files' = 1..n /\ Len(files') >= 1
    BY <1>1, <2>3
  <2>7. Grows
    <3>1. ASSUME NEW i \in 1..n
          PROVE  Len(files[i]) <= Len(files'[i]) /\ \A r \in 1..Len(files[i]) : files'[i][r] = files[i][r]
      <4>1. CASE i = n
        BY <4>1, <1>1, <2>2, <2>4
      <4>2. CASE i # n
        BY <4>2, <1>1, <2>4
      <4> QED
        BY <4>1, <4>2
    <3> QED
      BY <1>1, <2>3, <3>1 DEF Grows
  <2> QED
    BY <2>3, <2>5, <2>6, <2>7
<1>3. CASE ~(Len(files[n]) < RecordsPerFile)
  <2>1. files' = Append(files, <<b>>)
    BY <1>3 DEF Append1
  <2>2. <<b>> \in Seq(Block) /\ Len(<<b>>) = 1
    OBVIOUS
  <2>3. files' \in Seq(Seq(Block)) /\ Len(files') = n + 1
    BY <1>1, <2>1, <2>2
  <2>4. \A i \in 1..n : files'[i] = files[i]
    BY <1>1, <2>1
  <2>5. files'[n + 1] = <<b>>
    BY <1>1, <2>1
  <2>6. ASSUME NEW i \in 1..(n + 1) PROVE Len(files'[i]) <= RecordsPerFile
    <3>1. CASE i = n + 1
      BY <3>1, <2>2, <2>5, Bounds
    <3>2. CASE i \in 1..n
      BY <3>2, <1>1, <2>4
    <3> QED
      BY <1>1, <3>1, <3>2
  <2>7. DOMAIN files' = 1..(n + 1) /\ Len(files') >= 1
    BY <1>1, <2>3
  <2>8. Grows
    BY <1>1, <2>3, <2>4 DEF Grows
  <2> QED
    BY <2>3, <2>6, <2>7, <2>8
<1> QED
  BY <1>2, <1>3

LEMMA CopyFields ==
    ASSUME NEW e \in FileCopies
    PROVE  e[1] \in Nat /\ e[2] \in Seq(Block) /\ Len(e[2]) \in Nat
BY DEF FileCopies

LEMMA CopyGrows ==
    ASSUME NodeOK, Grows, NEW e \in FileCopies, CopyOK(e, files)
    PROVE  CopyOK(e, files')
<1>1. PICK f : f = e[1] + 1
  OBVIOUS
<1>2. PICK c : c = e[2]
  OBVIOUS
<1>3. f \in 1..Len(files) /\ Len(files) \in Nat /\ Len(c) \in Nat
  BY <1>1, <1>2, CopyFields DEF CopyOK, NodeOK
<1>4. Len(files) <= Len(files') /\ Len(files[f]) <= Len(files'[f]) /\ \A r \in 1..Len(files[f]) : files'[f][r] = files[f][r]
  BY <1>3 DEF Grows
<1>5. f <= Len(files) /\ Len(c) <= Len(files[f]) /\ \A r \in 1..Len(c) : c[r] = files[f][r]
  BY <1>1, <1>2 DEF CopyOK
<1>6. Len(files[f]) \in Nat
  BY <1>3 DEF NodeOK
<1>7. f <= Len(files') /\ Len(c) <= Len(files'[f])
  BY <1>3, <1>4, <1>5, <1>6
<1>8. \A r \in 1..Len(c) : c[r] = files'[f][r]
  BY <1>3, <1>4, <1>5, <1>6
<1> QED
  BY <1>1, <1>2, <1>7, <1>8 DEF CopyOK

LEMMA CopiesGrow ==
    ASSUME NodeOK, Grows, NEW q, CopiesOK(q, files)
    PROVE  CopiesOK(q, files')
<1>1. q \in Seq(FileCopies) /\ \A i \in DOMAIN q : q[i] \in FileCopies /\ CopyOK(q[i], files)
  BY DEF CopiesOK
<1> QED
  BY <1>1, CopyGrows DEF CopiesOK

LEMMA EntriesGrow ==
    ASSUME NodeOK, Grows, NEW ix, ix \in [DOMAIN ix -> Entries], EntriesRight(ix, files)
    PROVE  EntriesRight(ix, files')
<1> SUFFICES ASSUME NEW b \in DOMAIN ix
             PROVE  /\ ix[b][1] + 1 <= Len(files')
                    /\ ix[b][2] <= Len(files'[ix[b][1] + 1])
                    /\ files'[ix[b][1] + 1][ix[b][2]] = b
  BY DEF EntriesRight
<1> DEFINE f == ix[b][1] + 1
           r == ix[b][2]
<1>1. ix[b][1] \in Nat /\ r \in Nat /\ r >= 1
  BY Bounds DEF Entries
<1>2. f <= Len(files) /\ r <= Len(files[f]) /\ files[f][r] = b
  BY DEF EntriesRight
<1>3. f \in 1..Len(files) /\ Len(files) \in Nat /\ Len(files[f]) \in Nat
  BY <1>1, <1>2 DEF NodeOK
<1>4. Len(files[f]) <= Len(files'[f]) /\ (r \in 1..Len(files[f]) => files'[f][r] = files[f][r])
  BY <1>3 DEF Grows
<1> HIDE DEF f, r
<1>5. f <= Len(files') /\ r <= Len(files'[f]) /\ files'[f][r] = b
  BY <1>1, <1>2, <1>3, <1>4 DEF Grows
<1> QED
  BY <1>5 DEF f, r

-----------------------------------------------------------------------------
(* What keeps each part of the invariant *)

LEMMA KeepNode ==
    ASSUME NodeOK, UNCHANGED <<arrival, files, best>>
    PROVE  NodeOK'
BY DEF NodeOK

LEMMA KeepCache ==
    ASSUME CacheOK, UNCHANGED <<fileCache, queue, prefetch, channel, files>>, Up' => Up
    PROVE  CacheOK'
BY DEF CacheOK, PrefetchOK

LEMMA KeepLayout ==
    ASSUME LayoutOK, UNCHANGED <<layout, dbBlocks, idx, files>>
    PROVE  LayoutOK'
BY DEF LayoutOK

LEMMA KeepStore ==
    ASSUME StoreOK, UNCHANGED <<dbBlocks, dbHeights, dbLast, layout, files>>,
           pc' \notin {"restore", "clear_blocks", "clear_heights"} \/ pc' = pc
    PROVE  StoreOK'
BY DEF StoreOK, LatestFile

LEMMA KeepIndex ==
    ASSUME IndexOK, UNCHANGED <<idx, sorted, layout, files, pc, pending>>
    PROVE  IndexOK'
BY DEF IndexOK

LEMMA KeepFollow ==
    ASSUME FollowOK, UNCHANGED <<layout, moved, sorted, idx, best>>
    PROVE  FollowOK'
BY DEF FollowOK, Leaves

LEMMA KeepLedger ==
    ASSUME LedgerOK, UNCHANGED <<ledger, commits>>,
           pc' \notin {"load", "next"} \/ UNCHANGED <<pc, batch, pending, latest>>
    PROVE  LedgerOK'
BY DEF LedgerOK

LEMMA KeepFetch ==
    ASSUME FetchOK, UNCHANGED <<layout, fetched>>, IndexInUse' => IndexInUse \/ fetched.asked = fetched.got,
           IndexInUse => IndexInUse'
    PROVE  FetchOK'
BY DEF FetchOK

\* A loader without an index.
LEMMA NoIndex ==
    ASSUME NEW ix, NEW s, ix = << >>, s = << >>
    PROVE  /\ DOMAIN ix = {} /\ ix \in [DOMAIN ix -> Entries] /\ EntriesRight(ix, files) /\ EntriesRight(ix, files')
           /\ s \in Seq(Block) /\ DOMAIN s = {} /\ IsChain(s)
<1>1. DOMAIN ix = {} /\ DOMAIN s = {} /\ s \in Seq(Block)
  OBVIOUS
<1>2. ix \in [DOMAIN ix -> Entries]
  OBVIOUS
<1> QED
  BY <1>1, <1>2 DEF EntriesRight, IsChain

LEMMA NoCopies ==
    ASSUME NEW q, q = << >>
    PROVE  CopiesOK(q, files) /\ CopiesOK(q, files') /\ Len(q) = 0
BY DEF CopiesOK

\* An empty index keeps its part of the invariant wherever the loader stands before a build.
LEMMA EmptyIndexOK ==
    ASSUME idx' = << >>, sorted' = << >>,
           pc' \in BeforeBuild \cup Serving
    PROVE  IndexOK' /\ FollowOK'
<1>1. /\ DOMAIN idx' = {} /\ idx' \in [DOMAIN idx' -> Entries]
      /\ sorted' \in Seq(Block) /\ DOMAIN sorted' = {} /\ IsChain(sorted')
  BY NoIndex
<1>2. pc' \notin Building /\ pc' # "index_files"
  BY DEF Building, BeforeBuild, Serving
<1>3. IndexOK'
  BY <1>1, <1>2 DEF IndexOK, IsChain
<1>4. FollowOK'
  BY <1>1 DEF FollowOK
<1> QED
  BY <1>3, <1>4

\* A new file cache.
LEMMA NewFileCacheOK ==
    ASSUME NodeOK, NewFileCache, Up' => files' = files
    PROVE  CacheOK' /\ fetched'.asked = fetched'.got
<1>1. CopiesOK(fileCache', files') /\ CopiesOK(queue', files') /\ Len(fileCache') = 0 /\ Len(queue') = 0
  BY NoCopies DEF NewFileCache
<1>2. LatestFile \in Nat /\ LatestFile + 1 = Len(files)
  BY DEF NodeOK, LatestFile
<1>3. PrefetchOK'
  BY <1>2 DEF PrefetchOK, NewFileCache
<1>4. channel' \in Seq(Nat) /\ fetched'.asked = fetched'.got
  BY DEF NewFileCache
<1> QED
  BY <1>1, <1>3, <1>4, Bounds DEF CacheOK

-----------------------------------------------------------------------------
(* bitcoind *)

LEMMA StoredBlocks ==
    ASSUME NodeOK
    PROVE  Stored \subseteq Block
<1>1. \A i \in DOMAIN files : files[i] \in Seq(Block)
  BY DEF NodeOK
<1> QED
  BY <1>1 DEF Stored, Range

\* A record is appended and nothing else changes.
LEMMA FilesAppended ==
    ASSUME IInv, NEW b \in Block, Append1(b), arrival' \in Seq(Block),
           UNCHANGED <<best, storeVars, pc, client, indexVars, pending, latest, batch, cacheVars, moved, layout>>
    PROVE  IInv'
<1> USE DEF IInv, storeVars, indexVars, cacheVars
<1>1. /\ files' \in Seq(Seq(Block)) /\ Len(files') >= 1 /\ Grows
      /\ \A i \in DOMAIN files' : Len(files'[i]) <= RecordsPerFile
      /\ Len(files) \in Nat /\ Len(files') \in Nat /\ Len(files) <= Len(files')
  <2>1. /\ files' \in Seq(Seq(Block)) /\ Len(files') >= 1 /\ Grows
        /\ \A i \in DOMAIN files' : Len(files'[i]) <= RecordsPerFile
    BY AppendGrows
  <2>2. Len(files) \in Nat
    BY DEF NodeOK
  <2>3. Len(files') \in Nat
    BY ONLY <2>1
  <2>4. Len(files) <= Len(files')
    BY ONLY <2>1 DEF Grows
  <2> QED
    BY ONLY <2>1, <2>2, <2>3, <2>4
<1>2. NodeOK'
  BY <1>1 DEF NodeOK
<1>3. CacheOK'
  <2>1. CopiesOK(fileCache', files') /\ CopiesOK(queue', files')
    BY <1>1, CopiesGrow DEF CacheOK
  <2>2. PrefetchOK'
    BY <1>1 DEF CacheOK, PrefetchOK, Up
  <2> QED
    BY <2>1, <2>2 DEF CacheOK
<1>4. LayoutOK'
  <2>1. layout.db = layout.now => EntriesRight(dbBlocks, files')
    BY <1>1, EntriesGrow DEF LayoutOK, StoreOK
  <2>2. layout.mem = layout.now => EntriesRight(idx, files')
    BY <1>1, EntriesGrow DEF LayoutOK, IndexOK
  <2> QED
    BY <2>1, <2>2 DEF LayoutOK
<1>5. StoreOK'
  BY <1>1 DEF StoreOK, LatestFile
<1>6. IndexOK'
  <2>1. \A c \in DOMAIN idx : idx[c][1] + 1 <= Len(files')
    BY <1>1, Bounds DEF IndexOK, Entries
  <2>2. pc = "index_files" => pending \subseteq 0..(Len(files') - 2)
    BY <1>1 DEF IndexOK
  <2> QED
    BY <2>1, <2>2 DEF IndexOK
<1> QED
  BY <1>2, <1>3, <1>4, <1>5, <1>6, KeepFollow, KeepLedger, KeepFetch DEF IndexInUse

LEMMA NodeStoresStep == IInv /\ NodeStores => IInv'
<1> SUFFICES ASSUME IInv, NodeStores PROVE IInv'
  OBVIOUS
<1>1. Head(arrival) \in Block /\ Tail(arrival) \in Seq(Block)
  BY DEF NodeStores, IInv, NodeOK
<1> QED
  BY <1>1, FilesAppended DEF NodeStores

LEMMA NodeStoresAgainStep == IInv /\ NodeStoresAgain => IInv'
<1> SUFFICES ASSUME IInv, NodeStoresAgain PROVE IInv'
  OBVIOUS
<1>1. PICK b \in Stored : Append1(b)
  BY DEF NodeStoresAgain
<1>2. b \in Block /\ arrival' \in Seq(Block)
  BY StoredBlocks DEF IInv, NodeOK, NodeStoresAgain
<1> QED
  BY <1>1, <1>2, FilesAppended DEF NodeStoresAgain

\* When only bitcoind's best chain moves.
LEMMA BestMoves ==
    ASSUME IInv, UNCHANGED <<arrival, files, storeVars, pc, client, indexVars, pending, latest, batch>>,
           UNCHANGED <<cacheVars, layout>>,
           best' \in Seq(Block), Len(best') >= 1, IsChain(best'), FollowOK'
    PROVE  IInv'
<1> USE DEF IInv, storeVars, indexVars, cacheVars
<1>1. NodeOK'
  BY DEF NodeOK
<1>2. CacheOK' /\ LayoutOK' /\ StoreOK' /\ IndexOK' /\ LedgerOK' /\ FetchOK'
  BY KeepCache, KeepLayout, KeepStore, KeepIndex, KeepLedger, KeepFetch DEF Up, IndexInUse
<1> QED
  BY <1>1, <1>2

LEMMA NodeExtendsStep == IInv /\ NodeExtends => IInv'
<1> SUFFICES ASSUME IInv, NodeExtends PROVE IInv'
  OBVIOUS
<1> DEFINE n == Len(best)
<1>1. PICK b \in Stored : Parent[b] = best[n] /\ best' = Append(best, b)
  BY DEF NodeExtends
<1>2. b \in Block /\ best \in Seq(Block) /\ n \in Nat /\ n >= 1 /\ IsChain(best)
  BY StoredBlocks DEF IInv, NodeOK
<1>3. /\ best' \in Seq(Block) /\ Len(best') = n + 1 /\ best'[n + 1] = b
      /\ \A i \in 1..n : best'[i] = best[i]
  BY <1>1, <1>2
<1>4. IsChain(best')
  <2> SUFFICES ASSUME NEW i \in 1..(n + 1) PROVE Parent[best'[i]] = IF i = 1 THEN Zero ELSE best'[i - 1]
    BY <1>2, <1>3 DEF IsChain
  <2>1. CASE i = n + 1
    BY <2>1, <1>1, <1>2, <1>3
  <2>2. CASE i \in 1..n
    BY <2>2, <1>2, <1>3 DEF IsChain
  <2> QED
    BY <1>2, <2>1, <2>2
<1>5. FollowOK'
  <2> SUFFICES ASSUME layout.mem # None, ~moved
               PROVE  /\ \A i \in DOMAIN sorted : Leaves(i)' => best'[i] \notin DOMAIN idx
                      /\ \A i \in DOMAIN sorted : i > Len(best') =>
                            \A c \in DOMAIN idx : Parent[c] = Parent[sorted[i]] => c = sorted[i]
    BY DEF FollowOK, NodeExtends, indexVars, Leaves
  <2>1. /\ \A i \in DOMAIN sorted : Leaves(i) => best[i] \notin DOMAIN idx
        /\ \A i \in DOMAIN sorted : i > n =>
              \A c \in DOMAIN idx : Parent[c] = Parent[sorted[i]] => c = sorted[i]
    BY DEF IInv, FollowOK
  <2>2. sorted \in Seq(Block) /\ IsChain(sorted) /\ sorted' = sorted
    BY DEF IInv, IndexOK, NodeExtends, indexVars
  <2>3. ASSUME NEW i \in DOMAIN sorted, Leaves(i)' PROVE best'[i] \notin DOMAIN idx
    <3>1. i \in Nat /\ i >= 1 /\ i <= n + 1 /\ sorted[i] # best'[i] /\ \A j \in 1..(i - 1) : sorted[j] = best'[j]
      BY <2>2, <2>3, <1>3 DEF Leaves
    <3>2. CASE i <= n
      <4>1. Leaves(i) /\ best'[i] = best[i]
        BY <3>1, <3>2, <1>2, <1>3 DEF Leaves
      <4> QED
        BY <4>1, <2>1
    <3>3. CASE i = n + 1
      <4>1. n \in 1..(i - 1) /\ sorted[n] = best[n]
        BY <3>1, <3>3, <1>2, <1>3
      <4>2. Parent[sorted[i]] = sorted[n]
        BY <2>2, <3>3, <1>2 DEF IsChain
      <4>3. i > n
        BY <3>3, <1>2
      <4> QED
        BY <4>1, <4>2, <4>3, <2>1, <3>1, <3>3, <1>1, <1>3
    <3> QED
      BY <3>1, <3>2, <3>3, <1>2
  <2>4. ASSUME NEW i \in DOMAIN sorted, i > Len(best') PROVE i > n
    BY <2>2, <2>4, <1>2, <1>3
  <2> QED
    BY <2>1, <2>3, <2>4
<1> QED
  BY <1>3, <1>4, <1>5, <1>2, BestMoves DEF NodeExtends

LEMMA Joined ==
    ASSUME NEW S, NEW a \in Seq(S), NEW b \in Seq(S)
    PROVE  /\ a \o b \in Seq(S) /\ Len(a \o b) = Len(a) + Len(b)
           /\ \A i \in 1..Len(a) : (a \o b)[i] = a[i]
           /\ \A i \in 1..Len(b) : (a \o b)[Len(a) + i] = b[i]
OBVIOUS

LEMMA NodeReorgsStep == IInv /\ NodeReorgs => IInv'
<1> SUFFICES ASSUME IInv, NodeReorgs PROVE IInv'
  OBVIOUS
<1>1. best \in Seq(Block) /\ Len(best) \in Nat /\ Len(best) >= 1 /\ IsChain(best)
  BY DEF IInv, NodeOK
<1>0. PICK k \in 1..TipHeight : \E branch \in [1..(Len(best) - k + 1) -> Stored] :
         /\ Parent[branch[1]] = best[k]
         /\ \A i \in 2..Len(branch) : Parent[branch[i]] = branch[i - 1]
         /\ best' = SubSeq(best, 1, k) \o branch
  BY DEF NodeReorgs
<1>2. PICK branch \in [1..(Len(best) - k + 1) -> Stored] :
         /\ Parent[branch[1]] = best[k]
         /\ \A i \in 2..Len(branch) : Parent[branch[i]] = branch[i - 1]
         /\ best' = SubSeq(best, 1, k) \o branch
  BY <1>0
<1> DEFINE n == Len(best) - k + 1
           low == SubSeq(best, 1, k)
<1>3. k \in Nat /\ k >= 1 /\ k < Len(best) /\ n \in Nat /\ n >= 1
  BY <1>1 DEF TipHeight
<1>4. branch \in Seq(Block) /\ Len(branch) = n
  BY <1>3, StoredBlocks DEF IInv
<1>5. low \in Seq(Block) /\ Len(low) = k /\ \A i \in 1..k : low[i] = best[i]
  BY <1>1, <1>3
<1> HIDE DEF low, n
<1>6. /\ best' \in Seq(Block) /\ Len(best') = k + n
      /\ \A i \in 1..k : best'[i] = best[i]
      /\ \A i \in 1..n : best'[k + i] = branch[i]
  <2>1. best' = low \o branch
    BY <1>2 DEF low
  <2>2. /\ low \o branch \in Seq(Block) /\ Len(low \o branch) = Len(low) + Len(branch)
        /\ \A i \in 1..Len(low) : (low \o branch)[i] = low[i]
        /\ \A i \in 1..Len(branch) : (low \o branch)[Len(low) + i] = branch[i]
    <3>1. low \in Seq(Block) /\ branch \in Seq(Block)
      BY <1>4, <1>5
    <3> QED
      BY ONLY <3>1, Joined
  <2> QED
    BY <2>1, <2>2, <1>4, <1>5
<1>7. IsChain(best')
  <2> SUFFICES ASSUME NEW i \in 1..(k + n) PROVE Parent[best'[i]] = IF i = 1 THEN Zero ELSE best'[i - 1]
    BY <1>6 DEF IsChain
  <2>1. CASE i \in 1..k
    <3>1. Parent[best[i]] = IF i = 1 THEN Zero ELSE best[i - 1]
      BY <2>1, <1>1, <1>3 DEF IsChain
    <3>2. best'[i] = best[i] /\ (i # 1 => best'[i - 1] = best[i - 1])
      BY <2>1, <1>3, <1>6
    <3> QED
      BY <3>1, <3>2
  <2>2. CASE i = k + 1
    BY <2>2, <1>2, <1>3, <1>6
  <2>3. CASE i \in (k + 2)..(k + n)
    <3>1. i - k \in 2..n /\ i - k - 1 \in 1..n /\ k + (i - k) = i /\ k + (i - k - 1) = i - 1 /\ i # 1
      BY <2>3, <1>3
    <3>2. best'[i] = branch[i - k] /\ best'[i - 1] = branch[i - k - 1]
      BY <3>1, <1>6
    <3>3. Parent[branch[i - k]] = branch[i - k - 1]
      BY <3>1, <1>2, <1>4
    <3> QED
      BY <3>1, <3>2, <3>3
  <2> QED
    BY <1>3, <2>1, <2>2, <2>3
<1>8. FollowOK'
  BY DEF FollowOK, NodeReorgs
<1>9. Len(best') >= 1
  BY <1>3, <1>6
<1> QED
  BY <1>6, <1>7, <1>8, <1>9, BestMoves DEF NodeReorgs

-----------------------------------------------------------------------------
(* The process starts and ends *)

\* The end of a process, with bitcoind's files as they are.
LEMMA EndsStep ==
    ASSUME IInv, ProcessEnds, UNCHANGED <<nodeVars, storeVars, moved, layout>>
    PROVE  IInv'
<1> USE DEF IInv, nodeVars, storeVars
<1>1. pc' = "down" /\ idx' = << >> /\ sorted' = << >> /\ NewFileCache
  BY DEF ProcessEnds, EmptyIndex
<1>2. CacheOK' /\ FetchOK'
  BY <1>1, NewFileCacheOK DEF FetchOK
<1>3. IndexOK' /\ FollowOK'
  BY <1>1, EmptyIndexOK DEF BeforeBuild, Serving
<1>4. LayoutOK'
  BY <1>1, NoIndex DEF LayoutOK
<1> QED
  BY <1>1, <1>2, <1>3, <1>4, KeepNode, KeepStore, KeepLedger

LEMMA EndingSteps ==
    ASSUME IInv, Crash \/ Shutdown \/ DuplicateRefused \/ ForkUnresolved
    PROVE  IInv'
BY EndsStep DEF Crash, Shutdown, DuplicateRefused, ForkUnresolved, InitFails

LEMMA NodeResyncsStep == IInv /\ NodeResyncs => IInv'
<1> SUFFICES ASSUME IInv, NodeResyncs PROVE IInv'
  OBVIOUS
<1> USE DEF IInv, storeVars
<1>1. /\ pc' = "down" /\ idx' = << >> /\ sorted' = << >> /\ NewFileCache
      /\ files' = <<<<Genesis>>>> /\ best' = <<Genesis>> /\ arrival' \in Arrivals
      /\ layout' = [layout EXCEPT !.now = @ + 1] /\ moved' = TRUE
      /\ UNCHANGED <<dbBlocks, dbHeights, dbLast, ledger, commits>>
  BY DEF NodeResyncs, ProcessEnds, EmptyIndex
<1>2. NodeOK'
  <2>1. /\ <<Genesis>> \in Seq(Block) /\ Len(<<Genesis>>) = 1 /\ DOMAIN <<Genesis>> = {1} /\ <<Genesis>>[1] = Genesis
        /\ arrival' \in Seq(Block) /\ Parent[Genesis] = Zero
    BY <1>1, BlockAssumption
  <2>2. /\ files' \in Seq(Seq(Block)) /\ Len(files') = 1 /\ DOMAIN files' = {1} /\ files'[1] = <<Genesis>>
    BY <1>1, <2>1
  <2>3. IsChain(best')
    BY <1>1, <2>1 DEF IsChain
  <2>4. best' \in Seq(Block) /\ Len(best') >= 1
    BY <1>1, <2>1
  <2>5. \A i \in DOMAIN files' : Len(files'[i]) <= RecordsPerFile
    BY <2>1, <2>2, Bounds
  <2> QED
    BY <2>1, <2>2, <2>3, <2>4, <2>5 DEF NodeOK
<1>3. CacheOK' /\ FetchOK'
  BY <1>1, NewFileCacheOK DEF FetchOK, Up
<1>4. IndexOK' /\ FollowOK'
  BY <1>1, EmptyIndexOK DEF BeforeBuild, Serving
<1>5. /\ layout' \in [now : Nat, db : Nat \cup {None}, mem : Nat \cup {None}]
      /\ layout'.now = layout.now + 1 /\ layout'.db = layout.db /\ layout'.mem = layout.mem
      /\ layout'.db < layout'.now /\ layout'.mem < layout'.now
  BY <1>1 DEF LayoutOK, None
<1>6. LayoutOK'
  BY <1>5 DEF LayoutOK, None
<1>7. StoreOK'
  BY <1>1, <1>5 DEF StoreOK
<1> QED
  BY <1>1, <1>2, <1>3, <1>4, <1>6, <1>7, KeepLedger

LEMMA StartStep == IInv /\ Start => IInv'
<1> SUFFICES ASSUME IInv, Start PROVE IInv'
  OBVIOUS
<1> USE DEF IInv, nodeVars, storeVars
<1>1. /\ pc' \in {"build_index", "idle"} /\ idx' = << >> /\ sorted' = << >> /\ NewFileCache
      /\ UNCHANGED <<nodeVars, storeVars, moved, layout>>
  BY DEF Start, EmptyIndex
<1>2. CacheOK' /\ FetchOK'
  BY <1>1, NewFileCacheOK DEF FetchOK
<1>3. IndexOK' /\ FollowOK'
  BY <1>1, EmptyIndexOK DEF BeforeBuild, Serving
<1>4. LayoutOK'
  BY <1>1, NoIndex DEF LayoutOK
<1>5. StoreOK'
  BY <1>1, KeepStore
<1>6. LedgerOK'
  BY <1>1, KeepLedger
<1> QED
  BY <1>1, <1>2, <1>3, <1>4, <1>5, <1>6, KeepNode

-----------------------------------------------------------------------------
(* Restoring and clearing the index *)

\* Steps of the loader from one pc before a build to another that leave what
\* the parts of the invariant outside the store read.
LEMMA LoaderMoves ==
    ASSUME IInv, pc \in BeforeBuild, pc' \in BeforeBuild, Up' => Up,
           UNCHANGED <<nodeVars, ledger, indexVars, cacheVars, moved, layout>>, commits' \subseteq commits,
           StoreOK', layout.db = layout.now => EntriesRight(dbBlocks', files)
    PROVE  IInv'
<1> USE DEF IInv, nodeVars, indexVars, cacheVars
<1>1. idx' = << >> /\ sorted' = << >>
  BY DEF IndexOK
<1>2. IndexOK' /\ FollowOK'
  BY <1>1, EmptyIndexOK DEF Serving
<1>3. CacheOK'
  BY KeepCache DEF Up
<1>4. LayoutOK'
  BY <1>1 DEF LayoutOK
<1>5. LedgerOK'
  BY DEF LedgerOK, BeforeBuild
<1>6. FetchOK'
  BY DEF FetchOK, IndexInUse, BeforeBuild
<1> QED
  BY <1>2, <1>3, <1>4, <1>5, <1>6, KeepNode

LEMMA RestartStep == IInv /\ Restart => IInv'
<1> SUFFICES ASSUME IInv, Restart PROVE IInv'
  OBVIOUS
<1>1. StoreOK'
  BY KeepStore DEF IInv, Restart, storeVars, nodeVars
<1> QED
  BY <1>1, LoaderMoves DEF Restart, BeforeBuild, storeVars, nodeVars, IInv, LayoutOK, Up

LEMMA BuildIndexStep == IInv /\ BuildIndex => IInv'
<1> SUFFICES ASSUME IInv, BuildIndex PROVE IInv'
  OBVIOUS
<1> USE DEF storeVars, nodeVars
<1>1. dbLast \in Nat \cup {None} /\ LatestFile \in Nat
  BY DEF IInv, StoreOK, NodeOK, LatestFile
<1>2. /\ pc' \in {"list_files", "clear_meta", "restore"}
      /\ pc' = "restore" => dbLast # None /\ dbLast <= LatestFile
  BY <1>1, Bounds DEF BuildIndex
<1>3. StoreOK'
  BY <1>2 DEF IInv, StoreOK, BuildIndex, LatestFile
<1> QED
  BY <1>2, <1>3, LoaderMoves DEF BuildIndex, BeforeBuild, IInv, LayoutOK, Up

LEMMA RejectIndexStep == IInv /\ RejectIndex => IInv'
<1> SUFFICES ASSUME IInv, RejectIndex PROVE IInv'
  OBVIOUS
<1> USE DEF storeVars, nodeVars
<1>1. StoreOK'
  BY KeepStore DEF IInv, RejectIndex
<1>2. UNCHANGED indexVars
  BY DEF RejectIndex, EmptyIndex, IInv, IndexOK, BeforeBuild, indexVars
<1> QED
  BY <1>1, <1>2, LoaderMoves DEF RejectIndex, BeforeBuild, IInv, LayoutOK, Up

LEMMA ClearMetaStep == IInv /\ ClearMeta => IInv'
<1> SUFFICES ASSUME IInv, ClearMeta PROVE IInv'
  OBVIOUS
<1>1. StoreOK'
  BY DEF IInv, StoreOK, ClearMeta
<1> QED
  BY <1>1, LoaderMoves DEF ClearMeta, BeforeBuild, IInv, LayoutOK, Up, nodeVars

LEMMA ClearBlocksStep == IInv /\ ClearBlocks => IInv'
<1> SUFFICES ASSUME IInv, ClearBlocks PROVE IInv'
  OBVIOUS
<1>1. /\ DOMAIN dbBlocks' = {} /\ dbBlocks' \in [DOMAIN dbBlocks' -> Entries]
      /\ EntriesRight(dbBlocks', files)
  BY NoIndex DEF ClearBlocks
<1>2. StoreOK'
  BY <1>1 DEF IInv, StoreOK, ClearBlocks
<1> QED
  BY <1>1, <1>2, LoaderMoves DEF ClearBlocks, BeforeBuild, IInv, Up, nodeVars

LEMMA ClearHeightsStep == IInv /\ ClearHeights => IInv'
<1> SUFFICES ASSUME IInv, ClearHeights PROVE IInv'
  OBVIOUS
<1>1. DOMAIN dbHeights' = {} /\ dbHeights' \in [DOMAIN dbHeights' -> Block] /\ IsFiniteSet(DOMAIN dbHeights')
  BY FS_EmptySet DEF ClearHeights
<1>2. StoreOK'
  BY <1>1 DEF IInv, StoreOK, ClearHeights
<1> QED
  BY <1>2, LoaderMoves DEF ClearHeights, BeforeBuild, IInv, LayoutOK, Up, nodeVars

LEMMA ClearCommitsStep == IInv /\ ClearCommits => IInv'
<1> SUFFICES ASSUME IInv, ClearCommits PROVE IInv'
  OBVIOUS
<1>1. StoreOK'
  BY KeepStore DEF IInv, ClearCommits, nodeVars
<1> QED
  BY <1>1, LoaderMoves DEF ClearCommits, BeforeBuild, IInv, LayoutOK, Up, nodeVars

\* Two chains with the same block at one height have the same blocks below it.
LEMMA ChainsMeet ==
    ASSUME NEW S, NEW a \in Seq(S), NEW b \in Seq(S), IsChain(a), IsChain(b),
           NEW n \in Nat, n >= 1, n <= Len(a), n <= Len(b), a[n] = b[n]
    PROVE  \A i \in 1..n : a[i] = b[i]
<1> DEFINE good == {m \in Nat : m < n => a[n - m] = b[n - m]}
<1>1. ASSUME NEW m \in Nat, \A k \in Nat : k < m => k \in good PROVE m \in good
  <2> SUFFICES ASSUME m < n PROVE a[n - m] = b[n - m]
    OBVIOUS
  <2>1. CASE m = 0
    BY <2>1
  <2>2. CASE m > 0
    <3>1. m - 1 \in Nat /\ m - 1 < m /\ m - 1 < n /\ n - (m - 1) = (n - m) + 1
      BY <2>2
    <3>2. m - 1 \in good
      BY <1>1, <3>1
    <3>3. a[(n - m) + 1] = b[(n - m) + 1]
      BY <3>1, <3>2
    <3> DEFINE j == (n - m) + 1
    <3>4. j \in 2..n /\ j - 1 = n - m /\ Len(a) \in Nat /\ Len(b) \in Nat
      BY <2>2
    <3> HIDE DEF j
    <3>5. j \in DOMAIN a /\ j \in DOMAIN b /\ j # 1
      BY <3>4
    <3>6. Parent[a[j]] = a[j - 1] /\ Parent[b[j]] = b[j - 1]
      BY <3>5 DEF IsChain
    <3>7. a[j] = b[j]
      BY <3>3 DEF j
    <3> QED
      BY <3>4, <3>6, <3>7
  <2> QED
    BY <2>1, <2>2
<1> HIDE DEF good
<1>2. \A m \in Nat : m \in good
  BY <1>1, StrongInduction
<1>3. ASSUME NEW i \in 1..n PROVE a[i] = b[i]
  <2>1. n - i \in Nat /\ n - i < n /\ n - (n - i) = i
    OBVIOUS
  <2>2. n - i \in good
    BY <1>2, <2>1
  <2> QED
    BY <2>1, <2>2 DEF good
<1> QED
  BY <1>3

LEMMA RestoreIndexStep == IInv /\ RestoreIndex => IInv'
<1> SUFFICES ASSUME IInv, RestoreIndex PROVE IInv'
  OBVIOUS
<1> USE DEF nodeVars, storeVars, cacheVars
<1> DEFINE n == Cardinality(DOMAIN dbHeights)
<1>1. /\ pc = "restore" /\ pc' = "idle" /\ moved' = FALSE
      /\ layout' = [layout EXCEPT !.mem = layout.db]
      /\ idx' = dbBlocks /\ sorted' = [i \in 1..((n - 1) + 1) |-> dbHeights[i - 1]]
      /\ UNCHANGED <<arrival, files, best, dbBlocks, dbHeights, dbLast, ledger, commits, pending, batch>>
      /\ UNCHANGED <<fileCache, queue, fetched, prefetch, channel>>
  BY DEF RestoreIndex, load_from_db, get_all_block_heights, IndexTip
<1>2. /\ DOMAIN dbHeights = 0..(n - 1) /\ n \in Nat
      /\ \A b \in DOMAIN dbBlocks : dbBlocks[b][1] <= dbLast
      /\ n - 1 <= TipHeight /\ RpcHash(n - 1) = dbHeights[n - 1]
      /\ \A h \in DOMAIN dbHeights : dbHeights[h] \in Block /\ dbHeights[h] \in DOMAIN dbBlocks
      /\ dbHeights # << >>
  BY FS_CardinalityType DEF RestoreIndex, validate_loaded_block_index, ContinuousIndex, IndexTip, IInv, StoreOK
<1>3. n >= 1
  <2>1. CASE n = 0
    <3>1. DOMAIN dbHeights = {}
      BY <1>2, <2>1
    <3>2. dbHeights = << >>
      BY <3>1 DEF IInv, StoreOK
    <3> QED
      BY <3>2, <1>2
  <2> QED
    BY <2>1, <1>2
<1> HIDE DEF n
<1>4. /\ sorted' \in Seq(Block) /\ Len(sorted') = n /\ DOMAIN sorted' = 1..n
      /\ \A i \in 1..n : sorted'[i] = dbHeights[i - 1]
  <2>1. (n - 1) + 1 = n /\ \A i \in 1..n : i - 1 \in DOMAIN dbHeights
    BY <1>2, <1>3
  <2>2. sorted' = [i \in 1..n |-> dbHeights[i - 1]] /\ \A i \in 1..n : dbHeights[i - 1] \in Block
    BY <1>1, <1>2, <2>1
  <2> QED
    BY <1>2, <2>2
<1>5. /\ dbLast \in Nat /\ dbLast + 1 <= Len(files)
      /\ DOMAIN dbBlocks \subseteq Block /\ dbBlocks \in [DOMAIN dbBlocks -> Entries]
  BY <1>1 DEF IInv, StoreOK, LatestFile, NodeOK
<1>6. layout' \in [now : Nat, db : Nat \cup {None}, mem : Nat \cup {None}]
      /\ layout'.now = layout.now /\ layout'.db = layout.db /\ layout'.mem = layout.db /\ layout.db <= layout.now
  BY <1>1 DEF IInv, LayoutOK
<1>7. LayoutOK'
  BY <1>1, <1>6 DEF IInv, LayoutOK
<1>8. ASSUME layout.db # None
      PROVE  IsChain(sorted') /\ \A i \in 1..n : sorted'[i] \in DOMAIN dbBlocks
  <2>1. \A h \in DOMAIN dbHeights : Parent[dbHeights[h]] = IF h = 0 THEN Zero ELSE dbHeights[h - 1]
    BY <1>5, <1>8, Bounds DEF IInv, StoreOK
  <2>2. ASSUME NEW i \in 1..n PROVE Parent[sorted'[i]] = IF i = 1 THEN Zero ELSE sorted'[i - 1]
    <3>1. i - 1 \in DOMAIN dbHeights /\ (i # 1 => i - 1 \in 1..n) /\ (i = 1 <=> i - 1 = 0)
      BY <1>2, <1>3
    <3>2. Parent[dbHeights[i - 1]] = IF i = 1 THEN Zero ELSE dbHeights[i - 2]
      BY <2>1, <3>1
    <3>3. sorted'[i] = dbHeights[i - 1] /\ (i # 1 => sorted'[i - 1] = dbHeights[i - 2])
      BY <1>4, <3>1
    <3> QED
      BY <3>2, <3>3
  <2>3. \A i \in 1..n : sorted'[i] \in DOMAIN dbBlocks
    BY <1>2, <1>3, <1>4
  <2> QED
    BY <2>2, <2>3, <1>4 DEF IsChain
<1>9. IndexOK'
  <2>1. \A b \in DOMAIN idx' : idx'[b][1] + 1 <= Len(files')
    <3> SUFFICES ASSUME NEW b \in DOMAIN dbBlocks PROVE dbBlocks[b][1] + 1 <= Len(files)
      BY <1>1
    <3>1. dbBlocks[b][1] \in Nat /\ dbBlocks[b][1] <= dbLast /\ Len(files) \in Nat
      BY <1>2, <1>5 DEF Entries, IInv, NodeOK
    <3> QED
      BY <3>1, <1>5
  <2>2. layout'.mem # None => IsChain(sorted') /\ \A i \in DOMAIN sorted' : sorted'[i] \in DOMAIN idx'
    BY <1>1, <1>4, <1>6, <1>8
  <2> QED
    BY <1>1, <1>4, <1>5, <2>1, <2>2 DEF IndexOK, BeforeBuild, Building, Serving
<1>10. FollowOK'
  <2> SUFFICES ASSUME layout.db # None
               PROVE  \A i \in DOMAIN sorted' : i <= Len(best) /\ sorted'[i] = best[i]
    BY <1>1, <1>4, <1>6 DEF FollowOK, Leaves, IInv, NodeOK
  <2>1. best \in Seq(Block) /\ Len(best) \in Nat /\ IsChain(best)
    BY DEF IInv, NodeOK
  <2>2. n <= Len(best) /\ best[n] = sorted'[n]
    BY <1>2, <1>3, <1>4, <2>1 DEF TipHeight, RpcHash
  <2>3. IsChain(sorted')
    BY <1>8
  <2>4. PICK s : s = sorted'
    OBVIOUS
  <2>5. \A i \in 1..n : s[i] = best[i]
    <3>1. s \in Seq(Block) /\ IsChain(s) /\ n <= Len(s) /\ s[n] = best[n]
      BY <1>2, <1>4, <2>2, <2>3, <2>4
    <3> QED
      BY ONLY <3>1, <2>1, <2>2, <1>2, <1>3, ChainsMeet
  <2> QED
    BY <1>2, <1>4, <2>1, <2>2, <2>4, <2>5
<1>11. CacheOK'
  BY <1>1, KeepCache DEF IInv, Up
<1>12. StoreOK'
  BY <1>1, <1>6 DEF IInv, StoreOK
<1>13. LedgerOK'
  BY <1>1, KeepLedger DEF IInv
<1>14. FetchOK'
  BY <1>1 DEF IInv, FetchOK, IndexInUse
<1>15. NodeOK'
  BY <1>1, KeepNode DEF IInv
<1> QED
  BY <1>7, <1>9, <1>10, <1>11, <1>12, <1>13, <1>14, <1>15 DEF IInv

-----------------------------------------------------------------------------
(* Building and saving the index *)

\* A step of the build leaves bitcoind, the store, the ledger and the file cache alone.
LEMMA BuildMoves ==
    ASSUME IInv, pc \in Building \cup {"list_files"}, pc' \in Building,
           UNCHANGED <<nodeVars, storeVars, cacheVars>>,
           LayoutOK', layout'.db = layout.db, IndexOK', FollowOK'
    PROVE  IInv'
<1> USE DEF IInv, nodeVars, storeVars, cacheVars
<1>1. CacheOK'
  BY KeepCache DEF Up, Building
<1>2. StoreOK'
  BY DEF StoreOK, Building
<1>3. LedgerOK'
  BY KeepLedger DEF Building
<1>4. FetchOK'
  BY DEF FetchOK, IndexInUse, Building
<1> QED
  BY <1>1, <1>2, <1>3, <1>4, KeepNode

LEMMA ListFilesStep == IInv /\ ListFiles => IInv'
<1> SUFFICES ASSUME IInv, ListFiles PROVE IInv'
  OBVIOUS
<1>1. /\ pc = "list_files" /\ pc' = "index_files" /\ idx' = << >> /\ sorted' = << >>
      /\ pending' = 0..(LatestFile - 1) /\ layout' = [layout EXCEPT !.mem = layout.now]
      /\ UNCHANGED <<nodeVars, storeVars, cacheVars>>
  BY DEF IInv, IndexOK, BeforeBuild, ListFiles, indexVars, last_complete_blk_file_index
<1>2. /\ DOMAIN idx' = {} /\ idx' \in [DOMAIN idx' -> Entries] /\ EntriesRight(idx', files')
      /\ sorted' \in Seq(Block) /\ DOMAIN sorted' = {} /\ IsChain(sorted')
  BY <1>1, NoIndex
<1>3. /\ layout' \in [now : Nat, db : Nat \cup {None}, mem : Nat \cup {None}]
      /\ layout'.now = layout.now /\ layout'.db = layout.db /\ layout'.mem = layout.now /\ layout.now \in Nat
  BY <1>1 DEF IInv, LayoutOK
<1>4. LayoutOK'
  BY <1>1, <1>2, <1>3 DEF IInv, LayoutOK, nodeVars, storeVars
<1>5. IndexOK'
  <2>1. pending' \subseteq 0..(Len(files') - 2)
    BY <1>1 DEF LatestFile, nodeVars, IInv, NodeOK
  <2> QED
    BY <1>1, <1>2, <1>3, <2>1 DEF IndexOK, BeforeBuild, Building, Serving
<1>6. FollowOK'
  BY <1>2 DEF FollowOK
<1> QED
  BY <1>1, <1>3, <1>4, <1>5, <1>6, BuildMoves DEF Building

LEMMA FilesIndexedStep == IInv /\ FilesIndexed => IInv'
<1> SUFFICES ASSUME IInv, FilesIndexed PROVE IInv'
  OBVIOUS
<1> USE DEF IInv, FilesIndexed, indexVars, nodeVars, storeVars
<1>1. LayoutOK' /\ FollowOK'
  BY KeepLayout, KeepFollow
<1>2. IndexOK'
  BY DEF IndexOK, BeforeBuild, Building, Serving
<1> QED
  BY <1>1, <1>2, BuildMoves DEF Building

\* merge_build_result: the entries of one more file.
LEMMA IndexFileStep == IInv /\ IndexFile => IInv'
<1> SUFFICES ASSUME IInv, IndexFile PROVE IInv'
  OBVIOUS
<1> USE DEF nodeVars, storeVars
<1>1. PICK f \in pending : idx' = Put(idx, FileEntries(f)) /\ pending' = pending \ {f}
  BY DEF IndexFile
<1>2. /\ pc = "index_files" /\ pc' = pc /\ sorted = << >> /\ layout.mem = layout.now
      /\ UNCHANGED <<nodeVars, storeVars, cacheVars, sorted, layout, moved>>
      /\ pending \subseteq 0..(Len(files) - 2)
      /\ DOMAIN idx \subseteq Block /\ idx \in [DOMAIN idx -> Entries] /\ EntriesRight(idx, files)
  BY DEF IInv, IndexOK, IndexFile, Building, LayoutOK
<1>3. f \in Nat /\ f + 1 \in 1..Len(files) /\ Len(files) \in Nat
  BY <1>2 DEF IInv, NodeOK
<1> DEFINE rec == files[f + 1]
           new == FileEntries(f)
<1>4. rec \in Seq(Block) /\ Len(rec) \in Nat /\ Len(rec) <= RecordsPerFile /\ DOMAIN rec = 1..Len(rec)
  BY <1>3 DEF IInv, NodeOK
<1>5. new = [b \in Range(rec) |-> <<f, CHOOSE r \in DOMAIN rec : rec[r] = b>>]
  BY DEF FileEntries, Records
<1>6. ASSUME NEW b \in Range(rec)
      PROVE  /\ b \in Block /\ new[b] \in Entries /\ new[b][1] = f
             /\ new[b][2] \in 1..Len(rec) /\ rec[new[b][2]] = b
  <2> DEFINE r == CHOOSE x \in DOMAIN rec : rec[x] = b
  <2>1. r \in DOMAIN rec /\ rec[r] = b
    <3>1. \E x \in DOMAIN rec : rec[x] = b
      BY DEF Range
    <3> QED
      BY <3>1
  <2>2. new[b] = <<f, r>>
    BY <1>5
  <2> HIDE DEF r
  <2>3. r \in 1..RecordsPerFile
    BY <2>1, <1>4, Bounds
  <2> QED
    BY <2>1, <2>2, <2>3, <1>3, <1>4 DEF Entries
<1>7. DOMAIN new = Range(rec)
  BY <1>5
<1> HIDE DEF new
<1>8. /\ DOMAIN idx' = DOMAIN idx \cup Range(rec)
      /\ \A b \in DOMAIN idx' : idx'[b] = IF b \in Range(rec) THEN new[b] ELSE idx[b]
  BY <1>1, <1>7 DEF Put, new
<1>9. idx' \in [DOMAIN idx' -> Entries] /\ DOMAIN idx' \subseteq Block
  <2>1. \A b \in DOMAIN idx' : idx'[b] \in Entries /\ b \in Block
    BY <1>2, <1>6, <1>8
  <2>2. idx' = [b \in DOMAIN idx' |-> idx'[b]]
    BY <1>1 DEF Put
  <2> QED
    BY <2>1, <2>2
<1>10. EntriesRight(idx', files)
  <2> SUFFICES ASSUME NEW b \in DOMAIN idx'
               PROVE  /\ idx'[b][1] + 1 <= Len(files)
                      /\ idx'[b][2] <= Len(files[idx'[b][1] + 1])
                      /\ files[idx'[b][1] + 1][idx'[b][2]] = b
    BY DEF EntriesRight
  <2>1. CASE b \in Range(rec)
    <3>1. idx'[b] = new[b] /\ new[b][1] = f /\ new[b][2] \in 1..Len(rec) /\ rec[new[b][2]] = b
      BY <2>1, <1>6, <1>8
    <3> QED
      BY <3>1, <1>3, <1>4
  <2>2. CASE b \notin Range(rec)
    BY <2>2, <1>2, <1>8 DEF EntriesRight
  <2> QED
    BY <2>1, <2>2
<1>11. LayoutOK'
  BY <1>2, <1>10 DEF IInv, LayoutOK
<1>12. sorted' \in Seq(Block) /\ DOMAIN sorted' = {} /\ IsChain(sorted')
  BY <1>2, NoIndex
<1>13. \A b \in DOMAIN idx' : idx'[b][1] + 1 <= Len(files')
  BY <1>2, <1>10 DEF EntriesRight
<1>14. IndexOK'
  BY <1>1, <1>2, <1>9, <1>12, <1>13 DEF IndexOK, BeforeBuild, Building, Serving
<1>15. FollowOK'
  BY <1>12 DEF FollowOK
<1> QED
  BY <1>2, <1>11, <1>14, <1>15, BuildMoves DEF Building

\* One more block of the walk: it is a child of the last one, bitcoind's choice
\* at its height or the only one.
LEMMA WalkStep ==
    ASSUME IInv, pc = "sort", NEW b \in Children, sorted' = Append(sorted, b),
           (Len(sorted) + 1 <= Len(best) /\ best[Len(sorted) + 1] = b) \/ Children = {b},
           UNCHANGED <<nodeVars, storeVars, pc, client, idx, pending, latest, batch, cacheVars, moved, layout>>
    PROVE  IInv'
<1> USE DEF nodeVars, storeVars
<1>0. PICK n : n = Len(sorted) + 1
  OBVIOUS
<1>1. /\ sorted \in Seq(Block) /\ n \in Nat /\ n >= 1 /\ layout.mem = layout.now /\ layout.mem # None
      /\ IsChain(sorted) /\ \A i \in DOMAIN sorted : sorted[i] \in DOMAIN idx
      /\ DOMAIN idx \subseteq Block
  BY <1>0, Bounds DEF IInv, IndexOK, Building, LayoutOK
<1>2. b \in DOMAIN idx /\ b \in Block /\ Parent[b] = IF n = 1 THEN Zero ELSE sorted[n - 1]
  BY <1>0, <1>1 DEF Children, Walked
<1>3. /\ sorted' \in Seq(Block) /\ Len(sorted') = n /\ DOMAIN sorted' = 1..n /\ sorted'[n] = b
      /\ \A i \in 1..(n - 1) : sorted'[i] = sorted[i] /\ i \in DOMAIN sorted
  BY <1>0, <1>1, <1>2
<1>4. IsChain(sorted') /\ \A i \in DOMAIN sorted' : sorted'[i] \in DOMAIN idx
  <2> SUFFICES ASSUME NEW i \in 1..n
               PROVE  sorted'[i] \in DOMAIN idx /\ Parent[sorted'[i]] = IF i = 1 THEN Zero ELSE sorted'[i - 1]
    BY <1>3 DEF IsChain
  <2>1. CASE i = n
    <3>1. n # 1 => n - 1 \in 1..(n - 1)
      BY <1>1
    <3> QED
      BY <2>1, <3>1, <1>2, <1>3
  <2>2. CASE i \in 1..(n - 1)
    <3>1. i \in DOMAIN sorted /\ sorted'[i] = sorted[i] /\ (i # 1 => sorted'[i - 1] = sorted[i - 1])
      BY <2>2, <1>1, <1>3
    <3> QED
      BY <3>1, <1>1 DEF IsChain
  <2>3. i = n \/ i \in 1..(n - 1)
    BY <1>1
  <2> QED
    BY <2>1, <2>2, <2>3
<1>5. IndexOK'
  BY <1>1, <1>3, <1>4 DEF IInv, IndexOK, Building, BeforeBuild
<1>6. FollowOK'
  <2> SUFFICES ASSUME ~moved, NEW i \in 1..n
               PROVE  /\ Leaves(i)' => best[i] \notin DOMAIN idx
                      /\ i > Len(best) => \A c \in DOMAIN idx : Parent[c] = Parent[sorted'[i]] => c = sorted'[i]
    BY <1>3 DEF FollowOK, Leaves
  <2>1. CASE i \in 1..(n - 1)
    <3>1. i \in DOMAIN sorted /\ sorted'[i] = sorted[i] /\ \A j \in 1..(i - 1) : sorted'[j] = sorted[j]
      BY <2>1, <1>1, <1>3
    <3>2. Leaves(i)' => Leaves(i)
      BY <3>1 DEF Leaves
    <3> QED
      BY <3>1, <3>2, <1>1 DEF IInv, FollowOK
  <2>2. CASE i = n
    <3>1. CASE n <= Len(best) /\ best[n] = b
      BY <3>1, <2>2, <1>1, <1>3 DEF Leaves, IInv, NodeOK
    <3>2. CASE Children = {b}
      <4>1. ASSUME NEW c \in DOMAIN idx, Parent[c] = Parent[b] PROVE c = b
        <5>1. c \in Children
          BY <4>1 DEF Children
        <5> QED
          BY <5>1, <3>2
      <4>2. ASSUME Leaves(n)' PROVE best[n] \notin DOMAIN idx
        <5>1. n <= Len(best) /\ best[n] # b /\ \A j \in 1..(n - 1) : sorted'[j] = best[j]
          BY <4>2, <1>3 DEF Leaves
        <5>2. best \in Seq(Block) /\ IsChain(best) /\ Len(best) \in Nat
          BY DEF IInv, NodeOK
        <5>3. Parent[best[n]] = IF n = 1 THEN Zero ELSE best[n - 1]
          BY <5>1, <5>2, <1>1 DEF IsChain
        <5>4. n # 1 => n - 1 \in 1..(n - 1) /\ best[n - 1] = sorted[n - 1]
          BY <5>1, <1>1, <1>3
        <5>5. Parent[best[n]] = Parent[b]
          BY <5>3, <5>4, <1>2
        <5> QED
          BY <5>1, <5>5, <4>1
      <4> QED
        BY <4>1, <4>2, <2>2, <1>3
    <3> QED
      BY <3>1, <3>2, <1>0
  <2>3. i = n \/ i \in 1..(n - 1)
    BY <1>1
  <2> QED
    BY <2>1, <2>2, <2>3
<1>7. LayoutOK'
  BY KeepLayout DEF IInv
<1> QED
  BY <1>5, <1>6, <1>7, BuildMoves DEF Building

LEMMA FiniteChildren ==
    ASSUME IInv
    PROVE  IsFiniteSet(Children)
<1>1. Children \subseteq Block
  BY DEF Children, IInv, IndexOK
<1> QED
  BY <1>1, BlockAssumption, FS_Subset

LEMMA SortLoneChildStep == IInv /\ SortLoneChild => IInv'
<1> SUFFICES ASSUME IInv, SortLoneChild PROVE IInv'
  OBVIOUS
<1>1. PICK b : Children = {b}
  BY FiniteChildren, FS_Singleton DEF SortLoneChild
<1>2. sorted' = Append(sorted, b)
  <2>1. (CHOOSE x \in Children : TRUE) = b
    BY <1>1
  <2> QED
    BY <2>1 DEF SortLoneChild
<1> QED
  BY <1>1, <1>2, WalkStep DEF SortLoneChild

LEMMA SortForkStep == IInv /\ SortFork => IInv'
<1> SUFFICES ASSUME IInv, SortFork PROVE IInv'
  OBVIOUS
<1> DEFINE b == RpcHash(Len(sorted))
<1>1. b \in Children /\ sorted' = Append(sorted, b) /\ Len(sorted) <= TipHeight
  BY DEF SortFork, RpcNamesChild
<1>2. Len(sorted) + 1 <= Len(best) /\ best[Len(sorted) + 1] = b
  BY <1>1 DEF RpcHash, TipHeight, IInv, NodeOK, IndexOK
<1> HIDE DEF b
<1> QED
  BY <1>1, <1>2, WalkStep DEF SortFork

\* A set of naturals with a bound has a greatest element.
LEMMA Greatest ==
    ASSUME NEW S, S \subseteq Nat, S # {}, NEW n \in Nat, \A x \in S : x <= n
    PROVE  \E m \in S : \A x \in S : x <= m
<1> DEFINE D == {n - x : x \in S}
<1>1. D \subseteq Nat /\ D # {}
  <2>1. \A x \in S : x \in Nat /\ n - x \in Nat
    OBVIOUS
  <2>2. PICK x \in S : TRUE
    OBVIOUS
  <2>3. D \subseteq Nat
    BY ONLY <2>1
  <2>4. n - x \in D
    BY ONLY <2>2
  <2> QED
    BY <2>3, <2>4
<1>2. PICK d \in D : \A e \in D : d <= e
  <2> HIDE DEF D
  <2> QED
    BY <1>1, LeastNat
<1>3. PICK m \in S : d = n - m
  OBVIOUS
<1>4. ASSUME NEW x \in S PROVE x <= m
  <2>1. n - x \in D
    OBVIOUS
  <2>2. d <= n - x
    BY <1>2, <2>1
  <2> HIDE DEF D
  <2> QED
    BY <1>3, <2>2
<1> QED
  BY <1>4

\* The highest blk file of the index.
LEMMA LastFile ==
    ASSUME IInv, idx # << >>
    PROVE  calc_latest_block_file_index \in Nat
<1> DEFINE F == {idx[b][1] : b \in DOMAIN idx}
           n == Len(files)
<1>1. n \in Nat /\ F \subseteq Nat /\ \A f \in F : f <= n
  BY DEF IInv, NodeOK, IndexOK, Entries
<1>2. F # {}
  <2>1. CASE DOMAIN idx = {}
    <3>1. idx = << >>
      BY <2>1 DEF IInv, IndexOK
    <3> QED
      BY <3>1
  <2> QED
    BY <2>1
<1> HIDE DEF F, n
<1>3. PICK f \in F : \A g \in F : g <= f
  BY <1>1, <1>2, Greatest
<1>4. \E x \in {idx[b][1] : b \in DOMAIN idx} : \A b \in DOMAIN idx : idx[b][1] <= x
  BY <1>3 DEF F
<1>5. calc_latest_block_file_index \in {idx[b][1] : b \in DOMAIN idx}
  BY <1>4 DEF calc_latest_block_file_index
<1> QED
  BY <1>1, <1>5 DEF F

\* What every branch of SaveIndex leaves alone.
LEMMA SaveMoves ==
    ASSUME IInv, pc = "sort", pc' = "idle",
           UNCHANGED <<nodeVars, ledger, commits, indexVars, cacheVars, moved>>,
           LayoutOK', layout'.mem = layout.mem, StoreOK'
    PROVE  IInv'
<1> USE DEF IInv, nodeVars, indexVars, cacheVars
<1>1. CacheOK'
  BY KeepCache DEF Up
<1>2. IndexOK'
  BY DEF IndexOK, BeforeBuild, Building, Serving
<1>3. FollowOK'
  BY DEF FollowOK, Leaves
<1>4. LedgerOK'
  BY KeepLedger
<1>5. FetchOK'
  BY DEF FetchOK, IndexInUse
<1> QED
  BY <1>1, <1>2, <1>3, <1>4, <1>5, KeepNode

LEMMA SaveIndexStep == IInv /\ SaveIndex => IInv'
<1> SUFFICES ASSUME IInv, SaveIndex PROVE IInv'
  OBVIOUS
<1> USE DEF nodeVars, indexVars
<1>1. pc = "sort" /\ pc' = "idle" /\ UNCHANGED <<nodeVars, ledger, commits, indexVars, cacheVars, moved>>
  BY DEF SaveIndex
<1>2. CASE idx = << >>
  <2>1. UNCHANGED <<dbBlocks, dbHeights, dbLast, layout>>
    BY <1>2 DEF SaveIndex
  <2>2. LayoutOK' /\ StoreOK'
    BY <1>1, <2>1, KeepLayout, KeepStore DEF IInv
  <2> QED
    BY <1>1, <2>1, <2>2, SaveMoves
<1>3. CASE idx # << >>
  <2> DEFINE n == Len(sorted)
             top == [h \in 0..(n - 1) |-> sorted[h + 1]]
  <2>1. /\ dbBlocks' = Put(dbBlocks, idx) /\ dbHeights' = Put(dbHeights, top)
        /\ dbLast' = calc_latest_block_file_index
        /\ layout' = [layout EXCEPT !.db = IF OneBuild THEN layout.mem ELSE None]
    BY <1>3 DEF SaveIndex, save_to_db, put_blocks_sync
  <2>2. /\ DOMAIN idx \subseteq Block /\ idx \in [DOMAIN idx -> Entries]
        /\ sorted \in Seq(Block) /\ n \in Nat
        /\ layout.mem = layout.now /\ layout.mem # None /\ EntriesRight(idx, files)
        /\ IsChain(sorted) /\ \A i \in DOMAIN sorted : sorted[i] \in DOMAIN idx
    BY <1>1, Bounds DEF IInv, IndexOK, Building, LayoutOK
  <2>3. /\ DOMAIN dbBlocks \subseteq Block /\ dbBlocks \in [DOMAIN dbBlocks -> Entries]
        /\ DOMAIN dbHeights \subseteq Nat /\ dbHeights \in [DOMAIN dbHeights -> Block]
        /\ IsFiniteSet(DOMAIN dbHeights)
    BY DEF IInv, StoreOK
  <2>4. /\ DOMAIN dbBlocks' = DOMAIN dbBlocks \cup DOMAIN idx
        /\ \A b \in DOMAIN dbBlocks' : dbBlocks'[b] = IF b \in DOMAIN idx THEN idx[b] ELSE dbBlocks[b]
        /\ dbBlocks' = [b \in DOMAIN dbBlocks' |-> dbBlocks'[b]]
    BY <2>1 DEF Put
  <2>5. DOMAIN dbBlocks' \subseteq Block /\ dbBlocks' \in [DOMAIN dbBlocks' -> Entries]
    <3>1. \A b \in DOMAIN dbBlocks' : b \in Block /\ dbBlocks'[b] \in Entries
      BY <2>2, <2>3, <2>4
    <3> QED
      BY <3>1, <2>4
  <2>6. DOMAIN top = 0..(n - 1) /\ \A h \in 0..(n - 1) : top[h] = sorted[h + 1] /\ top[h] \in Block
    BY <2>2
  <2> HIDE DEF top
  <2>7. /\ DOMAIN dbHeights' = DOMAIN dbHeights \cup 0..(n - 1)
        /\ \A h \in DOMAIN dbHeights' : dbHeights'[h] = IF h \in 0..(n - 1) THEN top[h] ELSE dbHeights[h]
        /\ dbHeights' = [h \in DOMAIN dbHeights' |-> dbHeights'[h]]
    BY <2>1, <2>6 DEF Put
  <2>8. /\ DOMAIN dbHeights' \subseteq Nat /\ dbHeights' \in [DOMAIN dbHeights' -> Block]
        /\ IsFiniteSet(DOMAIN dbHeights')
    <3>1. \A h \in DOMAIN dbHeights' : h \in Nat /\ dbHeights'[h] \in Block
      BY <2>2, <2>3, <2>6, <2>7
    <3>2. IsFiniteSet(0..(n - 1))
      <4>1. 0 \in Int /\ n - 1 \in Int
        BY <2>2
      <4> QED
        BY ONLY <4>1, FS_Interval
    <3>3. IsFiniteSet(DOMAIN dbHeights')
      <4>1. IsFiniteSet(DOMAIN dbHeights \cup 0..(n - 1))
        BY ONLY <2>3, <3>2, FS_Union
      <4> QED
        BY <4>1, <2>7
    <3> QED
      BY <3>1, <3>3, <2>7
  <2>9. dbLast' \in Nat
    BY <1>3, <2>1, LastFile
  <2>10. /\ layout' \in [now : Nat, db : Nat \cup {None}, mem : Nat \cup {None}]
         /\ layout'.now = layout.now /\ layout'.mem = layout.mem /\ layout.now \in Nat
         /\ layout'.db = IF OneBuild THEN layout.now ELSE None
    BY <2>1, <2>2 DEF IInv, LayoutOK
  <2>11. ASSUME OneBuild PROVE EntriesRight(dbBlocks', files)
    <3> SUFFICES ASSUME NEW b \in DOMAIN dbBlocks'
                 PROVE  /\ dbBlocks'[b][1] + 1 <= Len(files)
                        /\ dbBlocks'[b][2] <= Len(files[dbBlocks'[b][1] + 1])
                        /\ files[dbBlocks'[b][1] + 1][dbBlocks'[b][2]] = b
      BY DEF EntriesRight
    <3>1. CASE b \in DOMAIN idx
      BY <3>1, <2>2, <2>4 DEF EntriesRight
    <3>2. CASE b \notin DOMAIN idx
      <4>1. b \in DOMAIN dbBlocks /\ dbBlocks'[b] = dbBlocks[b]
        BY <3>2, <2>4
      <4>2. layout.db = layout.now
        BY <3>2, <4>1, <2>11, <2>2 DEF OneBuild
      <4>3. EntriesRight(dbBlocks, files)
        BY <4>2 DEF IInv, LayoutOK
      <4> QED
        BY <4>1, <4>3 DEF EntriesRight
    <3> QED
      BY <3>1, <3>2
  <2>12. LayoutOK'
    <3>1. layout'.db = layout'.now => EntriesRight(dbBlocks', files')
      BY <1>1, <2>10, <2>11, Bounds
    <3>2. layout'.mem = layout'.now => EntriesRight(idx', files')
      BY <1>1, <2>2
    <3>3. layout'.db <= layout'.now /\ layout'.mem <= layout'.now
      BY <2>2, <2>10 DEF None
    <3> QED
      BY <2>10, <3>1, <3>2, <3>3 DEF LayoutOK
  <2>13. ASSUME OneBuild, NEW h \in DOMAIN dbHeights'
         PROVE  /\ dbHeights'[h] \in DOMAIN dbBlocks'
                /\ Parent[dbHeights'[h]] = IF h = 0 THEN Zero ELSE dbHeights'[h - 1]
    <3>1. h \in 0..(n - 1) /\ DOMAIN dbHeights' = 0..(n - 1)
      BY <2>2, <2>3, <2>7, <2>13 DEF OneBuild
    <3>2. dbHeights'[h] = sorted[h + 1] /\ h + 1 \in DOMAIN sorted
      BY <2>2, <2>6, <2>7, <3>1
    <3>3. h # 0 => h - 1 \in 0..(n - 1) /\ dbHeights'[h - 1] = sorted[h]
      <4>1. h # 0 => h - 1 \in 0..(n - 1) /\ (h - 1) + 1 = h
        BY <2>2, <3>1
      <4> QED
        BY <4>1, <2>6, <2>7, <3>1
    <3>4. Parent[sorted[h + 1]] = IF h + 1 = 1 THEN Zero ELSE sorted[(h + 1) - 1]
      BY <2>2, <3>2 DEF IsChain
    <3>5. (h + 1 = 1 <=> h = 0) /\ (h + 1) - 1 = h
      BY <2>2, <3>1
    <3> QED
      BY <2>2, <2>4, <3>2, <3>3, <3>4, <3>5
  <2>14. StoreOK'
    BY <1>1, <2>5, <2>8, <2>9, <2>10, <2>13, Bounds DEF StoreOK
  <2> QED
    BY <1>1, <2>10, <2>12, <2>14, SaveMoves
<1> QED
  BY <1>2, <1>3

-----------------------------------------------------------------------------
(* The file cache and its prefetch thread *)

\* When only the file cache moves, and the block fetched last stays.
LEMMA CacheMoves ==
    ASSUME IInv, CacheOK',
           UNCHANGED <<nodeVars, storeVars, pc, indexVars, pending, latest, batch>>, UNCHANGED <<fetched, moved, layout>>
    PROVE  IInv'
<1> USE DEF IInv, nodeVars, storeVars, indexVars
<1> QED
  BY KeepNode, KeepLayout, KeepStore, KeepIndex, KeepFollow, KeepLedger, KeepFetch DEF IndexInUse

LEMMA PrefetchReceivesStep == IInv /\ PrefetchReceives => IInv'
<1> SUFFICES ASSUME IInv, PrefetchReceives PROVE IInv'
  OBVIOUS
<1>1. channel \in Seq(Nat) /\ channel # << >> /\ prefetch' = [prefetch EXCEPT !.request = Head(channel)]
      /\ channel' = Tail(channel) /\ UNCHANGED <<files, pc, fileCache, queue>>
  BY DEF PrefetchReceives, IInv, CacheOK, nodeVars
<1>2. Head(channel) \in Nat /\ Tail(channel) \in Seq(Nat)
  BY <1>1
<1>3. PrefetchOK'
  BY <1>1, <1>2 DEF IInv, CacheOK, PrefetchOK, Up
<1>4. CacheOK'
  BY <1>1, <1>2, <1>3 DEF IInv, CacheOK
<1> QED
  BY <1>4, CacheMoves DEF PrefetchReceives

LEMMA PrefetchChoosesStep == IInv /\ Up /\ PrefetchChooses => IInv'
<1> SUFFICES ASSUME IInv, Up, PrefetchChooses PROVE IInv'
  OBVIOUS
<1>1. /\ PrefetchOK /\ queue \in Seq(FileCopies) /\ Len(queue) < PrefetchCapacity
      /\ prefetch.request # None /\ UNCHANGED <<files, pc, fileCache, queue, channel>>
      /\ prefetch' = IF NextPrefetch > prefetch.latest
                     THEN [prefetch EXCEPT !.alive = FALSE]
                     ELSE [prefetch EXCEPT !.load = NextPrefetch]
  BY DEF PrefetchChooses, IInv, CacheOK, CopiesOK, nodeVars
<1>2. NextPrefetch \in Nat
  <2>1. CASE queue = << >>
    BY <1>1, <2>1 DEF NextPrefetch, PrefetchOK
  <2>2. CASE queue # << >>
    <3>1. queue[Len(queue)] \in FileCopies
      BY <1>1, <2>2
    <3> QED
      BY <2>2, <3>1, CopyFields DEF NextPrefetch
  <2> QED
    BY <2>1, <2>2
<1>3. Len(files) \in Nat
  BY DEF IInv, NodeOK
<1>4. PrefetchOK'
  <2> HIDE DEF NextPrefetch
  <2>1. CASE NextPrefetch > prefetch.latest
    BY <1>1, <2>1 DEF PrefetchOK, Up
  <2>2. CASE ~(NextPrefetch > prefetch.latest)
    <3>1. prefetch' = [prefetch EXCEPT !.load = NextPrefetch]
      BY <1>1, <2>2
    <3>2. prefetch.latest \in Nat /\ prefetch.latest + 1 <= Len(files)
      BY <1>1 DEF PrefetchOK
    <3>3. NextPrefetch + 1 <= Len(files)
      BY <1>2, <1>3, <2>2, <3>2
    <3> QED
      BY <1>1, <1>2, <3>1, <3>3 DEF PrefetchOK, Up
  <2> QED
    BY <2>1, <2>2
<1>5. CacheOK'
  BY <1>1, <1>4 DEF IInv, CacheOK
<1> QED
  BY <1>5, CacheMoves DEF PrefetchChooses

\* A file read from disk is a copy of itself.
LEMMA ReadFromDisk ==
    ASSUME NodeOK, NEW f \in Nat, f + 1 <= Len(files)
    PROVE  <<f, Records(f)>> \in FileCopies /\ CopyOK(<<f, Records(f)>>, files)
<1>1. Records(f) \in Seq(Block) /\ Len(Records(f)) \in Nat
  BY DEF NodeOK, Records
<1> QED
  BY <1>1 DEF FileCopies, CopyOK, Records

LEMMA AppendCopy ==
    ASSUME NEW q, CopiesOK(q, files), NEW e \in FileCopies, CopyOK(e, files)
    PROVE  CopiesOK(Append(q, e), files) /\ Len(Append(q, e)) = Len(q) + 1 /\ Len(q) \in Nat
<1>1. q \in Seq(FileCopies) /\ \A i \in DOMAIN q : CopyOK(q[i], files)
  BY DEF CopiesOK
<1>2. Append(q, e) \in Seq(FileCopies) /\ Len(Append(q, e)) = Len(q) + 1 /\ Len(q) \in Nat
  BY <1>1
<1>3. ASSUME NEW i \in DOMAIN Append(q, e) PROVE CopyOK(Append(q, e)[i], files)
  <2>1. i = Len(q) + 1 \/ i \in 1..Len(q)
    BY <1>2
  <2>2. CASE i = Len(q) + 1
    <3>1. Append(q, e)[i] = e
      BY <1>1, <2>2
    <3> QED
      BY <3>1
  <2>3. CASE i \in 1..Len(q)
    <3>1. Append(q, e)[i] = q[i] /\ i \in DOMAIN q
      BY <1>1, <2>3
    <3> QED
      BY <3>1, <1>1
  <2> QED
    BY <2>1, <2>2, <2>3
<1> QED
  BY <1>2, <1>3 DEF CopiesOK

LEMMA PrefetchLoadsStep == IInv /\ PrefetchLoads => IInv'
<1> SUFFICES ASSUME IInv, PrefetchLoads PROVE IInv'
  OBVIOUS
<1> DEFINE f == prefetch.load
<1>1. /\ PrefetchOK /\ CopiesOK(queue, files) /\ f \in Nat /\ f + 1 <= Len(files) /\ Len(queue) < PrefetchCapacity
      /\ queue' = Append(queue, <<f, Records(f)>>) /\ prefetch' = [prefetch EXCEPT !.load = None]
      /\ UNCHANGED <<files, pc, fileCache, channel>> /\ NodeOK
  BY DEF PrefetchLoads, IInv, CacheOK, PrefetchOK, nodeVars
<1>2. CopiesOK(queue', files) /\ Len(queue') = Len(queue) + 1 /\ Len(queue) \in Nat
  BY <1>1, ReadFromDisk, AppendCopy
<1>3. PrefetchOK'
  BY <1>1, Bounds DEF PrefetchOK, Up
<1>4. CacheOK'
  BY <1>1, <1>2, <1>3, Bounds DEF IInv, CacheOK
<1> QED
  BY <1>4, CacheMoves DEF PrefetchLoads

LEMMA PrefetchLoadFailsStep == IInv /\ PrefetchLoadFails => IInv'
<1> SUFFICES ASSUME IInv, PrefetchLoadFails PROVE IInv'
  OBVIOUS
<1>1. PrefetchOK'
  BY Bounds DEF PrefetchLoadFails, IInv, CacheOK, PrefetchOK, Up, nodeVars
<1>2. CacheOK'
  BY <1>1 DEF IInv, CacheOK, PrefetchLoadFails, nodeVars
<1> QED
  BY <1>2, CacheMoves DEF PrefetchLoadFails

\* Part of a sequence of copies, and two of them joined.
LEMMA SubCopies ==
    ASSUME NEW q, CopiesOK(q, files), NEW a \in Nat, NEW b \in Nat, a >= 1, b <= Len(q), a <= b + 1
    PROVE  /\ CopiesOK(SubSeq(q, a, b), files) /\ Len(SubSeq(q, a, b)) = b + 1 - a
           /\ Len(q) \in Nat
<1>1. q \in Seq(FileCopies) /\ Len(q) \in Nat /\ \A i \in 1..Len(q) : CopyOK(q[i], files) /\ q[i] \in FileCopies
  BY DEF CopiesOK
<1> DEFINE s == SubSeq(q, a, b)
<1>2. /\ s \in Seq(FileCopies) /\ Len(s) = b + 1 - a
      /\ \A i \in 1..(b + 1 - a) : s[i] = q[a + i - 1] /\ a + i - 1 \in 1..Len(q)
  <2>1. \A i \in a..b : q[i] \in FileCopies
    BY <1>1
  <2>2. Len(s) = b + 1 - a
    BY <1>1
  <2>3. s \in Seq(FileCopies)
    BY <1>1, <2>1
  <2>4. \A i \in 1..(b + 1 - a) : s[i] = q[a + i - 1]
    BY <1>1, <2>2
  <2>5. \A i \in 1..(b + 1 - a) : a + i - 1 \in 1..Len(q)
    BY <1>1
  <2> QED
    BY <2>2, <2>3, <2>4, <2>5
<1> HIDE DEF s
<1>3. DOMAIN s = 1..(b + 1 - a)
  BY <1>2
<1>4. CopiesOK(s, files)
  BY <1>1, <1>2, <1>3 DEF CopiesOK
<1> QED
  BY <1>1, <1>2, <1>4 DEF s

LEMMA JoinCopies ==
    ASSUME NEW p, CopiesOK(p, files), NEW q, CopiesOK(q, files)
    PROVE  CopiesOK(p \o q, files) /\ Len(p \o q) = Len(p) + Len(q) /\ Len(p) \in Nat /\ Len(q) \in Nat
<1>1. /\ p \in Seq(FileCopies) /\ Len(p) \in Nat /\ \A i \in 1..Len(p) : CopyOK(p[i], files)
      /\ q \in Seq(FileCopies) /\ Len(q) \in Nat /\ \A i \in 1..Len(q) : CopyOK(q[i], files)
  BY DEF CopiesOK
<1> DEFINE s == p \o q
<1>2. s \in Seq(FileCopies) /\ Len(s) = Len(p) + Len(q)
  BY <1>1
<1>3. ASSUME NEW i \in 1..Len(s) PROVE CopyOK(s[i], files)
  <2>1. i \in 1..Len(p) \/ (i - Len(p) \in 1..Len(q) /\ i > Len(p))
    BY <1>1, <1>2
  <2>2. CASE i \in 1..Len(p)
    <3>1. s[i] = p[i]
      BY <1>1, <2>2
    <3> QED
      BY <1>1, <2>2, <3>1
  <2>3. CASE i - Len(p) \in 1..Len(q) /\ i > Len(p)
    <3>1. s[i] = q[i - Len(p)]
      BY <1>1, <1>2, <2>3
    <3> QED
      BY <1>1, <2>3, <3>1
  <2> QED
    BY <2>1, <2>2, <2>3
<1> HIDE DEF s
<1>4. CopiesOK(s, files)
  BY <1>2, <1>3 DEF CopiesOK
<1> QED
  BY <1>1, <1>2, <1>4 DEF s

\* What the queue holds from file f on.
LEMMA AtLeastCopies ==
    ASSUME CopiesOK(queue, files), NEW f
    PROVE  /\ CopiesOK(AtLeast(f), files) /\ Len(AtLeast(f)) \in Nat
           /\ Len(queue) \in Nat /\ Len(AtLeast(f)) <= Len(queue)
<1> DEFINE n == Len(queue)
           k == Cardinality(Older(f))
<1>1. n \in Nat /\ Older(f) \subseteq 1..n
  BY DEF CopiesOK, Older
<1>2. k \in Nat /\ k <= n
  <2>1. 1 \in Int /\ n \in Int
    BY <1>1
  <2>2. IsFiniteSet(1..n) /\ Cardinality(1..n) = IF 1 > n THEN 0 ELSE n - 1 + 1
    BY ONLY <2>1, FS_Interval
  <2>3. Cardinality(1..n) = n
    BY <1>1, <2>2
  <2>4. IsFiniteSet(Older(f)) /\ Cardinality(Older(f)) <= Cardinality(1..n)
    BY <1>1, <2>2, FS_Subset
  <2> QED
    BY <2>3, <2>4, FS_CardinalityType
<1> HIDE DEF k
<1>3. k + 1 \in Nat /\ k + 1 >= 1 /\ n <= Len(queue) /\ k + 1 <= n + 1
  BY <1>1, <1>2
<1>4. CopiesOK(SubSeq(queue, k + 1, n), files) /\ Len(SubSeq(queue, k + 1, n)) = n + 1 - (k + 1)
  BY <1>1, <1>3, SubCopies
<1>5. AtLeast(f) = SubSeq(queue, k + 1, n)
  BY DEF AtLeast, k
<1> QED
  BY <1>1, <1>2, <1>4, <1>5

LEMMA FetchByIndex ==
    ASSUME CopiesOK(queue, files), NEW f, fetch_by_index(f)
    PROVE  CopiesOK(queue', files) /\ Len(queue') \in Nat /\ Len(queue) \in Nat /\ Len(queue') <= Len(queue)
<1> DEFINE s == AtLeast(f)
<1>1. /\ CopiesOK(s, files) /\ Len(s) \in Nat /\ Len(queue) \in Nat /\ Len(s) <= Len(queue)
  BY AtLeastCopies
<1>2. CASE ~PrefetchHit(f)
  BY <1>1, <1>2 DEF fetch_by_index
<1>3. CASE PrefetchHit(f)
  <2>1. queue' = Tail(s) /\ s # << >> /\ s \in Seq(FileCopies)
    BY <1>1, <1>3 DEF fetch_by_index, PrefetchHit, CopiesOK
  <2> HIDE DEF s
  <2>2. Tail(s) = SubSeq(s, 2, Len(s)) /\ Len(s) >= 1
    BY <2>1
  <2>3. 2 \in Nat /\ 2 >= 1 /\ Len(s) \in Nat /\ Len(s) <= Len(s) /\ 2 <= Len(s) + 1
    BY <1>1, <2>2
  <2>4. CopiesOK(SubSeq(s, 2, Len(s)), files) /\ Len(SubSeq(s, 2, Len(s))) = Len(s) + 1 - 2
    BY ONLY <1>1, <2>3, SubCopies
  <2>5. CopiesOK(queue', files) /\ Len(queue') = Len(s) + 1 - 2
    BY <2>1, <2>2, <2>4
  <2> QED
    BY <1>1, <2>2, <2>5
<1> QED
  BY <1>2, <1>3

\* What is read for file f is a copy of it, wherever it comes from.
LEMMA ContentIsCopy ==
    ASSUME IInv, NEW f \in Nat, f + 1 <= Len(files)
    PROVE  <<f, FileContent(f)>> \in FileCopies /\ CopyOK(<<f, FileContent(f)>>, files)
<1>1. NodeOK /\ CopiesOK(queue, files) /\ CopiesOK(fileCache, files)
  BY DEF IInv, CacheOK
<1>2. ASSUME NEW e \in FileCopies, CopyOK(e, files), e[1] = f
      PROVE  <<f, e[2]>> \in FileCopies /\ CopyOK(<<f, e[2]>>, files)
  BY <1>2, CopyFields DEF FileCopies, CopyOK
<1>3. CASE CachedAt(f) # {}
  <2>1. PICK i \in CachedAt(f) : FileContent(f) = fileCache[i][2]
    BY <1>3 DEF FileContent
  <2>2. fileCache[i] \in FileCopies /\ CopyOK(fileCache[i], files) /\ fileCache[i][1] = f
    BY <1>1 DEF CachedAt, CopiesOK
  <2> QED
    BY <1>2, <2>1, <2>2
<1>4. CASE CachedAt(f) = {} /\ PrefetchHit(f)
  <2>1. CopiesOK(AtLeast(f), files) /\ AtLeast(f) # << >> /\ AtLeast(f)[1][1] = f /\ FileContent(f) = AtLeast(f)[1][2]
    BY <1>1, <1>4, AtLeastCopies DEF FileContent, PrefetchHit
  <2>2. AtLeast(f)[1] \in FileCopies /\ CopyOK(AtLeast(f)[1], files)
    BY <2>1 DEF CopiesOK
  <2> QED
    BY <1>2, <2>1, <2>2
<1>5. CASE CachedAt(f) = {} /\ ~PrefetchHit(f)
  BY <1>1, <1>5, ReadFromDisk DEF FileContent
<1> QED
  BY <1>3, <1>4, <1>5

LEMMA LruPutCopies ==
    ASSUME IInv, NEW e \in FileCopies, CopyOK(e, files)
    PROVE  CopiesOK(LruPut(e), files) /\ Len(LruPut(e)) <= CacheCapacity
<1> DEFINE f == e[1]
           rest == CachedElsewhere(f)
           n == Len(fileCache)
<1>1. CopiesOK(fileCache, files) /\ n \in Nat
  BY DEF IInv, CacheOK, CopiesOK
<1>2. CopiesOK(rest, files) /\ Len(rest) \in Nat
  <2>1. CASE CachedAt(f) = {}
    BY <1>1, <2>1 DEF CachedElsewhere
  <2>2. CASE CachedAt(f) # {}
    <3>1. PICK i \in CachedAt(f) : rest = RemoveAt(fileCache, i)
      BY <2>2 DEF CachedElsewhere
    <3>2. i \in 1..n
      BY <1>1 DEF CachedAt, CopiesOK
    <3>3. CopiesOK(SubSeq(fileCache, 1, i - 1), files)
      <4>1. i - 1 \in Nat /\ i - 1 <= n /\ 1 <= (i - 1) + 1
        BY <1>1, <3>2
      <4> QED
        BY <1>1, <4>1, SubCopies
    <3>4. CopiesOK(SubSeq(fileCache, i + 1, n), files)
      <4>1. i + 1 \in Nat /\ i + 1 >= 1 /\ i + 1 <= n + 1 /\ n <= n
        BY <1>1, <3>2
      <4> QED
        BY <1>1, <4>1, SubCopies
    <3> QED
      BY <3>1, <3>3, <3>4, JoinCopies DEF RemoveAt, CopiesOK
  <2> QED
    BY <2>1, <2>2
<1>3. CopiesOK(<<e>>, files) /\ Len(<<e>>) = 1
  BY DEF CopiesOK
<1>4. CopiesOK(<<e>> \o rest, files) /\ Len(<<e>> \o rest) = 1 + Len(rest)
  BY <1>2, <1>3, JoinCopies
<1> HIDE DEF rest
<1>5. PICK k : k = IF Len(rest) < CacheCapacity THEN Len(rest) + 1 ELSE CacheCapacity
  OBVIOUS
<1>6. k \in Nat /\ k <= 1 + Len(rest) /\ k <= CacheCapacity /\ 1 <= k + 1 /\ k + 1 - 1 = k
  BY <1>2, <1>5, Bounds
<1>7. LruPut(e) = SubSeq(<<e>> \o rest, 1, k)
  BY <1>5 DEF LruPut, rest
<1>8. PICK w : w = <<e>> \o rest
  OBVIOUS
<1>9. CopiesOK(w, files) /\ 1 \in Nat /\ 1 >= 1 /\ k \in Nat /\ k <= Len(w) /\ 1 <= k + 1
  BY <1>4, <1>6, <1>8
<1>10. CopiesOK(SubSeq(w, 1, k), files) /\ Len(SubSeq(w, 1, k)) = k + 1 - 1
  BY ONLY <1>9, SubCopies
<1> QED
  BY <1>6, <1>7, <1>8, <1>10

\* get_block_by_file_index keeps the file cache and the queue.
LEMMA FileRead ==
    ASSUME IInv, NEW f \in Nat, f + 1 <= Len(files), get_block_by_file_index(f),
           UNCHANGED <<files, prefetch, pc>> \/ (UNCHANGED <<files, prefetch>> /\ pc = "load" /\ pc' = "idle")
    PROVE  CacheOK'
<1>1. CopiesOK(fileCache', files) /\ Len(fileCache') <= CacheCapacity
  BY ContentIsCopy, LruPutCopies DEF get_block_by_file_index
<1>2. /\ CopiesOK(queue', files) /\ Len(queue') \in Nat /\ Len(queue) \in Nat /\ Len(queue') <= Len(queue)
  <2>0. CopiesOK(queue, files) /\ Len(queue) \in Nat
    BY DEF IInv, CacheOK, CopiesOK
  <2>1. CASE CachedAt(f) # {}
    BY <2>0, <2>1 DEF get_block_by_file_index
  <2>2. CASE CachedAt(f) = {}
    BY <2>0, <2>2, FetchByIndex DEF get_block_by_file_index
  <2> QED
    BY <2>1, <2>2
<1>3. channel' \in Seq(Nat)
  <2>1. CASE UNCHANGED channel
    BY <2>1 DEF IInv, CacheOK
  <2>2. CASE notify_prefetch(f + 1)
    BY <2>2 DEF IInv, CacheOK, notify_prefetch
  <2> QED
    BY <2>1, <2>2 DEF get_block_by_file_index
<1>4. PrefetchOK' /\ files' = files
  BY <1>2, Bounds DEF IInv, CacheOK, PrefetchOK, Up
<1> QED
  BY <1>1, <1>2, <1>3, <1>4, Bounds DEF IInv, CacheOK

-----------------------------------------------------------------------------
(* The sync loop *)

\* What a step of the sync loop leaves alone.
LEMMA ConsumerMoves ==
    ASSUME IInv, pc \in Serving, pc' \in Serving,
           UNCHANGED <<nodeVars, dbBlocks, dbHeights, dbLast, indexVars, moved, layout>>,
           CacheOK', LedgerOK', FetchOK'
    PROVE  IInv'
<1> USE DEF IInv, nodeVars, indexVars
<1>1. IndexOK'
  BY DEF IndexOK, BeforeBuild, Building, Serving
<1>2. StoreOK'
  BY KeepStore DEF Serving
<1> QED
  BY <1>1, <1>2, KeepNode, KeepLayout, KeepFollow

LEMMA NodeHeights ==
    ASSUME NodeOK
    PROVE  TipHeight \in Nat /\ StableTarget \in Nat /\ TipHeight + 1 = Len(best) /\ Len(best) \in Nat
<1>1. TipHeight \in Nat /\ TipHeight + 1 = Len(best) /\ Len(best) \in Nat
  BY DEF NodeOK, TipHeight
<1>2. StableTarget \in Nat
  BY <1>1, Bounds DEF StableTarget
<1> QED
  BY <1>1, <1>2

LEMMA AncestorInLedger ==
    ASSUME IInv
    PROVE  CommonAncestor \in 0..Len(ledger) /\ Len(ledger) \in Nat
<1>1. Len(ledger) \in Nat /\ Agreeing \subseteq 1..Len(ledger)
  BY DEF IInv, LedgerOK, Agreeing, Searched
<1>2. CASE Agreeing = {}
  BY <1>1, <1>2 DEF CommonAncestor
<1>3. CASE Agreeing # {}
  <2>1. Agreeing \subseteq Nat /\ \A h \in Agreeing : h <= Len(ledger)
    BY <1>1
  <2>2. PICK m \in Agreeing : \A g \in Agreeing : g <= m
    BY <1>1, <1>3, <2>1, Greatest
  <2>3. CommonAncestor \in Agreeing
    BY <1>3, <2>2 DEF CommonAncestor
  <2> QED
    BY <1>1, <2>3
<1> QED
  BY <1>2, <1>3

\* A batch is the next heights, at most BatchSize of them.
LEMMA BatchIsNext ==
    ASSUME NEW h \in Nat, NEW t \in Nat
    PROVE  \E n \in 0..BatchSize : BatchAbove(h, t) = (h + 1)..(h + n)
<1>1. CASE t >= h + BatchSize
  <2>1. BatchAbove(h, t) = (h + 1)..(h + BatchSize)
    BY <1>1, Bounds DEF BatchAbove
  <2>2. BatchSize \in 0..BatchSize
    BY Bounds
  <2> QED
    BY <2>1, <2>2
<1>2. CASE t < h + BatchSize /\ t > h
  <2>1. BatchAbove(h, t) = (h + 1)..t /\ h + (t - h) = t /\ t - h \in 0..BatchSize
    BY <1>2, Bounds DEF BatchAbove
  <2> QED
    BY <2>1
<1>3. CASE t <= h
  <2>1. BatchAbove(h, t) = {} /\ (h + 1)..(h + 0) = {} /\ 0 \in 0..BatchSize
    BY <1>3, Bounds DEF BatchAbove
  <2> QED
    BY <2>1
<1> QED
  BY <1>1, <1>2, <1>3, Bounds

LEMMA PassBeginsStep == IInv /\ PassBegins => IInv'
<1> SUFFICES ASSUME IInv, PassBegins PROVE IInv'
  OBVIOUS
<1>1. PICK ca : ca = CommonAncestor
  OBVIOUS
<1>2. PICK t : t = StableTarget
  OBVIOUS
<1>3. /\ ca \in Nat /\ ca <= Len(ledger) /\ Len(ledger) \in Nat /\ t \in Nat
      /\ ledger \in Seq(Block) /\ commits \subseteq 1..Len(ledger)
  BY <1>1, <1>2, AncestorInLedger, NodeHeights DEF IInv, LedgerOK
<1>4. /\ pc = "idle" /\ pc' \in {"load", "complete"} /\ ledger' = SubSeq(ledger, 1, ca)
      /\ commits' = {h \in commits : h <= ca} /\ batch' = << >>
      /\ pending' = BatchAbove(ca, t) /\ latest' = t
      /\ UNCHANGED <<nodeVars, dbBlocks, dbHeights, dbLast, indexVars, cacheVars, moved, layout>>
  BY <1>1, <1>2 DEF PassBegins
<1>5. ledger' \in Seq(Block) /\ Len(ledger') = ca
  <2>1. \A i \in 1..ca : ledger[i] \in Block
    BY <1>3
  <2> QED
    BY <1>3, <1>4, <2>1
<1>6. commits' \subseteq 1..ca
  <2> SUFFICES ASSUME NEW h \in commits' PROVE h \in 1..ca
    OBVIOUS
  <2>1. h \in commits /\ h <= ca
    BY <1>4
  <2>2. h \in 1..Len(ledger)
    BY <1>3, <2>1
  <2> QED
    BY <1>3, <2>1, <2>2
<1>7. DOMAIN batch' = {}
  BY <1>4
<1>8. \E n \in 0..BatchSize : pending' = (ca + 1)..(ca + n)
  BY <1>3, <1>4, BatchIsNext
<1>9. LedgerOK'
  BY <1>3, <1>4, <1>5, <1>6, <1>7, <1>8 DEF LedgerOK
<1>10. CacheOK' /\ FetchOK'
  BY <1>4, KeepCache, KeepFetch DEF IInv, Up, IndexInUse, nodeVars, cacheVars
<1> QED
  BY <1>4, <1>9, <1>10, ConsumerMoves DEF Serving

LEMMA NextBatchStep == IInv /\ NextBatch => IInv'
<1> SUFFICES ASSUME IInv, NextBatch PROVE IInv'
  OBVIOUS
<1>1. /\ pc = "next" /\ pc' \in {"load", "complete"} /\ pending' = BatchAbove(Len(ledger), latest)
      /\ UNCHANGED <<ledger, commits, batch, latest, cacheVars>>
      /\ UNCHANGED <<nodeVars, dbBlocks, dbHeights, dbLast, indexVars, moved, layout>>
  BY DEF NextBatch, storeVars
<1>2. Len(ledger) \in Nat /\ latest \in Nat /\ batch = << >>
  BY <1>1 DEF IInv, LedgerOK
<1>3. DOMAIN batch = {}
  BY <1>2
<1>4. \E n \in 0..BatchSize : pending' = (Len(ledger) + 1)..(Len(ledger) + n)
  BY <1>1, <1>2, BatchIsNext
<1>5. LedgerOK'
  BY <1>1, <1>2, <1>3, <1>4 DEF IInv, LedgerOK
<1>6. CacheOK' /\ FetchOK'
  BY <1>1, KeepCache, KeepFetch DEF IInv, Up, IndexInUse, nodeVars, cacheVars
<1> QED
  BY <1>1, <1>5, <1>6, ConsumerMoves DEF Serving

LEMMA WakeUpStep == IInv /\ WakeUp => IInv'
<1> SUFFICES ASSUME IInv, WakeUp PROVE IInv'
  OBVIOUS
<1>1. /\ pc = "wait" /\ pc' = "idle" /\ UNCHANGED <<ledger, commits, cacheVars>>
      /\ UNCHANGED <<nodeVars, dbBlocks, dbHeights, dbLast, indexVars, moved, layout>>
  BY DEF WakeUp, storeVars
<1>2. CacheOK' /\ LedgerOK' /\ FetchOK'
  BY <1>1, KeepCache, KeepLedger, KeepFetch DEF IInv, IndexInUse, Up, nodeVars, cacheVars
<1> QED
  BY <1>1, <1>2, ConsumerMoves DEF Serving

\* A hash the loader names is a block's; its entry points into a blk file.
LEMMA NamedBlock ==
    ASSUME IInv, pc = "load", NEW h \in pending, KnownHeight(h)
    PROVE  h \in Nat /\ get_block_hash(h) \in Block
<1>1. h \in Nat
  BY DEF IInv, LedgerOK
<1>2. sorted \in Seq(Block) /\ best \in Seq(Block) /\ TipHeight \in Nat /\ TipHeight + 1 = Len(best) /\ Len(best) \in Nat
  BY NodeHeights DEF IInv, IndexOK, NodeOK
<1>3. CASE h < Len(sorted)
  <2>1. h + 1 \in 1..Len(sorted)
    BY <1>1, <1>2, <1>3
  <2>2. sorted[h + 1] \in Block
    BY <1>2, <2>1
  <2> QED
    BY <1>1, <1>3, <2>2 DEF get_block_hash
<1>4. CASE ~(h < Len(sorted))
  <2>1. h <= TipHeight
    BY <1>4 DEF KnownHeight
  <2>2. h + 1 \in 1..Len(best)
    BY <1>1, <1>2, <2>1
  <2>3. best[h + 1] \in Block
    BY <1>2, <2>2
  <2> QED
    BY <1>1, <1>4, <2>3 DEF get_block_hash, RpcHash
<1> QED
  BY <1>3, <1>4

LEMMA EntryFields ==
    ASSUME IInv, NEW b \in DOMAIN idx
    PROVE  /\ idx[b][1] \in Nat /\ idx[b][1] + 1 <= Len(files)
           /\ idx[b][2] \in Nat /\ idx[b][2] >= 1
BY Bounds DEF IInv, IndexOK, Entries

\* One more block of the batch.
LEMMA BatchGrows ==
    ASSUME IInv, pc = "load", pc' = "load", UNCHANGED <<ledger, commits, latest>>,
           NEW h \in pending, NEW b \in Block,
           batch' = Put(batch, [x \in {h} |-> b]), pending' = pending \ {h}
    PROVE  LedgerOK'
<1>1. /\ DOMAIN batch' = DOMAIN batch \cup {h}
      /\ \A g \in DOMAIN batch' : batch'[g] = IF g = h THEN b ELSE batch[g]
  BY DEF Put
<1>2. \A g \in DOMAIN batch' : batch'[g] \in Block
  BY <1>1 DEF IInv, LedgerOK
<1>3. DOMAIN batch' \cup pending' = DOMAIN batch \cup pending
  BY <1>1
<1> QED
  BY <1>2, <1>3 DEF IInv, LedgerOK

LEMMA LoadBlockStep == IInv /\ LoadBlock => IInv'
<1> SUFFICES ASSUME IInv, LoadBlock PROVE IInv'
  OBVIOUS
<1>1. /\ pc = "load" /\ pc' = "load" /\ UNCHANGED <<ledger, commits, latest, prefetch>>
      /\ UNCHANGED <<nodeVars, dbBlocks, dbHeights, dbLast, indexVars, moved, layout>>
  BY DEF LoadBlock, storeVars
<1>2. PICK h \in pending : KnownHeight(h) /\ (LoadFromFile(h) \/ LoadFromRpc(h)) /\ pending' = pending \ {h}
  BY DEF LoadBlock
<1>3. PICK hash : hash = get_block_hash(h)
  OBVIOUS
<1>4. hash \in Block /\ h \in Nat
  BY <1>1, <1>2, <1>3, NamedBlock
<1>5. CASE LoadFromRpc(h)
  <2>1. batch' = Put(batch, [x \in {h} |-> hash]) /\ UNCHANGED <<fileCache, queue, channel, fetched>>
    BY <1>3, <1>5 DEF LoadFromRpc
  <2>2. LedgerOK'
    BY <1>1, <1>2, <1>4, <2>1, BatchGrows
  <2>3. CacheOK' /\ FetchOK'
    BY <1>1, <2>1, KeepCache, KeepFetch DEF IInv, Up, IndexInUse, nodeVars
  <2> QED
    BY <1>1, <2>2, <2>3, ConsumerMoves DEF Serving
<1>6. CASE LoadFromFile(h)
  <2>1. PICK f : f = idx[hash][1]
    OBVIOUS
  <2>2. PICK r : r = idx[hash][2]
    OBVIOUS
  <2>3. PICK c : c = FileContent(f)
    OBVIOUS
  <2>4. /\ hash \in DOMAIN idx /\ r <= Len(c) /\ get_block_by_file_index(f)
        /\ batch' = Put(batch, [x \in {h} |-> c[r]])
        /\ fetched' = [asked |-> hash, got |-> c[r]]
    BY <1>3, <1>6, <2>1, <2>2, <2>3 DEF LoadFromFile
  <2>5. f \in Nat /\ f + 1 <= Len(files) /\ r \in Nat /\ r >= 1
    BY <2>1, <2>2, <2>4, EntryFields
  <2>6. <<f, c>> \in FileCopies /\ CopyOK(<<f, c>>, files)
    BY <2>3, <2>5, ContentIsCopy
  <2>7. c \in Seq(Block) /\ Len(c) \in Nat /\ \A i \in 1..Len(c) : c[i] = files[f + 1][i]
    BY <2>6 DEF FileCopies, CopyOK
  <2>8. r \in 1..Len(c) /\ c[r] \in Block /\ c[r] = files[f + 1][r]
    BY <2>4, <2>5, <2>7
  <2>9. LedgerOK'
    BY <1>1, <1>2, <2>4, <2>8, BatchGrows
  <2>10. CacheOK'
    BY <1>1, <2>4, <2>5, FileRead DEF nodeVars
  <2>11. FetchOK'
    <3>1. IndexInUse'
      BY <1>1 DEF IndexInUse
    <3>2. layout.mem = layout.now => files[f + 1][r] = hash
      BY <2>1, <2>2, <2>4 DEF IInv, LayoutOK, EntriesRight
    <3>3. fetched'.asked = hash /\ fetched'.got = c[r]
      BY <2>4
    <3> QED
      BY <1>1, <2>8, <3>1, <3>2, <3>3 DEF FetchOK
  <2> QED
    BY <1>1, <2>9, <2>10, <2>11, ConsumerMoves DEF Serving
<1> QED
  BY <1>2, <1>5, <1>6

LEMMA RecordOutOfBoundsStep == IInv /\ RecordOutOfBounds => IInv'
<1> SUFFICES ASSUME IInv, RecordOutOfBounds PROVE IInv'
  OBVIOUS
<1>1. /\ pc = "load" /\ pc' = "idle" /\ UNCHANGED <<ledger, commits, prefetch, fetched>>
      /\ UNCHANGED <<nodeVars, dbBlocks, dbHeights, dbLast, indexVars, moved, layout>>
  BY DEF RecordOutOfBounds, PassFails, storeVars
<1>2. PICK h \in pending : get_block_hash(h) \in DOMAIN idx /\ get_block_by_file_index(idx[get_block_hash(h)][1])
  BY DEF RecordOutOfBounds, PastFileEnd
<1>3. PICK f : f = idx[get_block_hash(h)][1]
  OBVIOUS
<1>4. f \in Nat /\ f + 1 <= Len(files) /\ get_block_by_file_index(f)
  BY <1>2, <1>3, EntryFields
<1>5. CacheOK'
  BY <1>1, <1>4, FileRead DEF nodeVars
<1>6. LedgerOK' /\ FetchOK'
  BY <1>1, KeepLedger, KeepFetch DEF IInv, IndexInUse
<1> QED
  BY <1>1, <1>5, <1>6, ConsumerMoves DEF Serving

LEMMA AbandonBatchStep == IInv /\ AbandonBatch => IInv'
<1> SUFFICES ASSUME IInv, AbandonBatch PROVE IInv'
  OBVIOUS
<1>1. /\ pc = "load" /\ pc' = "idle" /\ UNCHANGED <<ledger, commits, cacheVars>>
      /\ UNCHANGED <<nodeVars, dbBlocks, dbHeights, dbLast, indexVars, moved, layout>>
  BY DEF AbandonBatch, PassFails, storeVars
<1>2. CacheOK' /\ LedgerOK' /\ FetchOK'
  BY <1>1, KeepCache, KeepLedger, KeepFetch DEF IInv, IndexInUse, Up, nodeVars, cacheVars
<1> QED
  BY <1>1, <1>2, ConsumerMoves DEF Serving

LEMMA CommitBatchStep == IInv /\ CommitBatch => IInv'
<1> SUFFICES ASSUME IInv, CommitBatch PROVE IInv'
  OBVIOUS
<1>1. PICK k : k = Len(ledger)
  OBVIOUS
<1>2. /\ pc = "load" /\ pc' = "next" /\ pending = {} /\ batch' = << >> /\ latest' = latest
      /\ ledger' = ledger \o [i \in 1..Cardinality(DOMAIN batch) |-> batch[k + i]]
      /\ commits' = commits \cup DOMAIN batch
      /\ UNCHANGED <<nodeVars, dbBlocks, dbHeights, dbLast, indexVars, cacheVars, moved, layout>>
  BY <1>1 DEF CommitBatch
<1>3. PICK n \in 0..BatchSize : DOMAIN batch \cup pending = (k + 1)..(k + n)
  BY <1>1, <1>2 DEF IInv, LedgerOK
<1>4. /\ DOMAIN batch = (k + 1)..(k + n) /\ k \in Nat /\ n \in Nat
      /\ ledger \in Seq(Block) /\ commits \subseteq 1..k /\ \A h \in DOMAIN batch : batch[h] \in Block
  BY <1>1, <1>2, <1>3, Bounds DEF IInv, LedgerOK
<1>5. Cardinality((k + 1)..(k + n)) = n
  <2>1. k + 1 \in Int /\ k + n \in Int
    BY <1>4
  <2>2. PICK a \in Int : a = k + 1
    BY <2>1
  <2>3. PICK b \in Int : b = k + n
    BY <2>1
  <2>4. Cardinality(a..b) = IF a > b THEN 0 ELSE b - a + 1
    BY ONLY <2>2, <2>3, FS_Interval
  <2>5. (IF a > b THEN 0 ELSE b - a + 1) = n
    BY <1>4, <2>2, <2>3
  <2> QED
    BY <2>2, <2>3, <2>4, <2>5
<1> DEFINE s == [i \in 1..n |-> batch[k + i]]
<1>6. s \in Seq(Block) /\ Len(s) = n
  <2>1. \A i \in 1..n : batch[k + i] \in Block
    BY <1>4
  <2> QED
    BY <1>4, <2>1
<1>7. ledger' = ledger \o s
  BY <1>2, <1>4, <1>5
<1> HIDE DEF s
<1>8. ledger' \in Seq(Block) /\ Len(ledger') = k + n
  <2>1. ledger \in Seq(Block) /\ s \in Seq(Block)
    BY <1>4, <1>6
  <2>2. (ledger \o s) \in Seq(Block) /\ Len(ledger \o s) = Len(ledger) + Len(s)
    BY ONLY <2>1
  <2> QED
    BY <1>1, <1>6, <1>7, <2>2
<1>9. commits' \subseteq 1..(k + n)
  BY <1>2, <1>4
<1>10. LedgerOK'
  BY <1>2, <1>8, <1>9 DEF IInv, LedgerOK
<1>11. CacheOK' /\ FetchOK'
  BY <1>2, KeepCache, KeepFetch DEF IInv, IndexInUse, Up, nodeVars, cacheVars
<1> QED
  BY <1>2, <1>10, <1>11, ConsumerMoves DEF Serving

LEMMA SyncCompleteStep == IInv /\ SyncComplete => IInv'
<1> SUFFICES ASSUME IInv, SyncComplete PROVE IInv'
  OBVIOUS
<1>1. /\ pc = "complete" /\ pc' = "wait" /\ idx' = << >> /\ sorted' = << >> /\ fileCache' = << >>
      /\ UNCHANGED <<nodeVars, storeVars, queue, fetched, prefetch, channel, layout>>
  BY DEF SyncComplete, EmptyIndex
<1> USE DEF IInv, nodeVars, storeVars
<1>2. IndexOK' /\ FollowOK'
  BY <1>1, EmptyIndexOK DEF Serving
<1>3. CopiesOK(fileCache', files) /\ Len(fileCache') = 0
  BY <1>1, NoCopies
<1>4. CacheOK'
  BY <1>1, <1>3, Bounds DEF CacheOK, PrefetchOK, Up
<1>5. EntriesRight(idx', files)
  BY <1>1, NoIndex
<1>6. LayoutOK'
  BY <1>1, <1>5 DEF LayoutOK
<1> QED
  BY <1>1, <1>2, <1>4, <1>6, KeepNode, KeepStore, KeepLedger, KeepFetch DEF IndexInUse

-----------------------------------------------------------------------------
(* The theorems *)

LEMMA InitIInv == Init => IInv
<1> SUFFICES ASSUME Init PROVE IInv
  OBVIOUS
<1> USE DEF Init
<1>0. Genesis \in Block /\ Parent[Genesis] = Zero /\ arrival \in Seq(Block)
  BY BlockAssumption
<1>1. NodeOK
  <2>1. <<Genesis>> \in Seq(Block) /\ Len(<<Genesis>>) = 1
    BY <1>0
  <2>2. files \in Seq(Seq(Block)) /\ Len(files) = 1 /\ files[1] = <<Genesis>> /\ DOMAIN files = {1}
    BY <2>1
  <2>3. best \in Seq(Block) /\ Len(best) = 1 /\ DOMAIN best = {1} /\ best[1] = Genesis
    BY <2>1
  <2>4. IsChain(best)
    BY <1>0, <2>3 DEF IsChain
  <2>5. \A i \in DOMAIN files : Len(files[i]) <= RecordsPerFile
    BY <2>1, <2>2, Bounds
  <2> HIDE DEF Init
  <2> QED
    BY <1>0, <2>2, <2>3, <2>4, <2>5 DEF NodeOK
<1>2. CacheOK
  <2>1. PrefetchOK
    BY DEF PrefetchOK, Up
  <2> QED
    BY <2>1, NoCopies, Bounds DEF CacheOK
<1>3. /\ DOMAIN idx = {} /\ idx \in [DOMAIN idx -> Entries] /\ EntriesRight(idx, files)
      /\ sorted \in Seq(Block) /\ DOMAIN sorted = {} /\ IsChain(sorted)
  BY NoIndex
<1>4. DOMAIN dbBlocks = {} /\ dbBlocks \in [DOMAIN dbBlocks -> Entries] /\ EntriesRight(dbBlocks, files)
  BY NoIndex
<1>5. LayoutOK
  BY <1>3, <1>4 DEF LayoutOK
<1>6. StoreOK
  <2>1. DOMAIN dbHeights = {} /\ dbHeights \in [DOMAIN dbHeights -> Block]
    OBVIOUS
  <2>2. IsFiniteSet(DOMAIN dbHeights)
    BY <2>1, FS_EmptySet
  <2> QED
    BY <1>4, <2>1, <2>2 DEF StoreOK
<1>7. IndexOK
  BY <1>3 DEF IndexOK, BeforeBuild, Building, Serving
<1>8. FollowOK
  BY <1>3 DEF FollowOK
<1>9. LedgerOK
  BY DEF LedgerOK
<1>10. FetchOK
  BY DEF FetchOK
<1> QED
  BY <1>1, <1>2, <1>5, <1>6, <1>7, <1>8, <1>9, <1>10 DEF IInv

LEMMA StutterStep == IInv /\ UNCHANGED vars => IInv'
<1> SUFFICES ASSUME IInv, UNCHANGED vars PROVE IInv'
  OBVIOUS
<1> USE DEF IInv, vars, nodeVars, storeVars, indexVars, cacheVars
<1> QED
  BY KeepNode, KeepCache, KeepLayout, KeepStore, KeepIndex, KeepFollow, KeepLedger, KeepFetch DEF Up, IndexInUse

LEMMA NextStep == IInv /\ [Next]_vars => IInv'
<1> SUFFICES ASSUME IInv, [Next]_vars PROVE IInv'
  OBVIOUS
<1>1. CASE Node
  BY <1>1, NodeStoresStep, NodeStoresAgainStep, NodeExtendsStep, NodeReorgsStep, NodeResyncsStep DEF Node
<1>2. CASE Process
  BY <1>2, StartStep, BuildIndexStep, RestoreIndexStep, RejectIndexStep, ListFilesStep DEF Process
<1>3. CASE Clearing
  BY <1>3, ClearMetaStep, ClearBlocksStep, ClearHeightsStep, ClearCommitsStep DEF Clearing
<1>4. CASE Indexing
  BY <1>4, IndexFileStep, EndingSteps, FilesIndexedStep DEF Indexing
<1>5. CASE Sorting
  BY <1>5, SortLoneChildStep, SortForkStep, EndingSteps, SaveIndexStep DEF Sorting
<1>6. CASE Consumer
  BY <1>6, PassBeginsStep, LoadBlockStep, RecordOutOfBoundsStep, AbandonBatchStep, CommitBatchStep,
     NextBatchStep, SyncCompleteStep, WakeUpStep DEF Consumer
<1>7. CASE Prefetcher
  BY <1>7, PrefetchReceivesStep, PrefetchChoosesStep, PrefetchLoadsStep, PrefetchLoadFailsStep DEF Prefetcher
<1>8. CASE Crash \/ Shutdown \/ Restart
  BY <1>8, EndingSteps, RestartStep
<1>9. CASE UNCHANGED vars
  BY <1>9, StutterStep
<1> QED
  BY <1>1, <1>2, <1>3, <1>4, <1>5, <1>6, <1>7, <1>8, <1>9 DEF Next

\* The invariant the theorems below are read off from is inductive.
THEOREM Inductive == Spec => []IInv
<1>1. Init => IInv
  BY InitIInv
<1>2. IInv /\ [Next]_vars => IInv'
  BY NextStep
<1> QED
  BY <1>1, <1>2, PTL DEF Spec

LEMMA InvImpliesTypes == IInv => TypeOK
<1> SUFFICES ASSUME IInv PROVE TypeOK
  OBVIOUS
<1>1. Range(best) \subseteq Block
  BY DEF IInv, NodeOK, Range
<1>2. Stored \subseteq Block
  BY StoredBlocks DEF IInv
<1>3. Range(dbBlocks) \cup Range(idx) \subseteq Nat \X (1..RecordsPerFile)
  <2>1. dbBlocks \in [DOMAIN dbBlocks -> Entries] /\ idx \in [DOMAIN idx -> Entries]
    BY DEF IInv, StoreOK, IndexOK
  <2>2. Range(dbBlocks) \subseteq Entries /\ Range(idx) \subseteq Entries
    BY <2>1 DEF Range
  <2> QED
    BY <2>2 DEF Entries
<1>4. Range(dbHeights) \cup Range(ledger) \cup Range(sorted) \subseteq Block
  BY DEF IInv, StoreOK, IndexOK, LedgerOK, Range
<1> QED
  BY <1>1, <1>2, <1>3, <1>4 DEF TypeOK, IInv, StoreOK, LedgerOK, CacheOK

\* Every variable keeps its type, the commits stay within the ledger, and the
\* prefetch queue and the file cache never exceed their capacities.
THEOREM TypeCorrect == Spec => []TypeOK
<1>1. IInv => TypeOK
  BY InvImpliesTypes
<1> QED
  BY <1>1, Inductive, PTL

\* The index the loader serves from is a chain of headers from the genesis
\* block whose every block has an entry, through crashes in any of the writes of
\* clear_blocks, restores, rebuilds and the files growing meanwhile.
THEOREM IndexIsAChain == Spec => []SortedIsAChain
<1>1. IInv => SortedIsAChain
  BY DEF IInv, IndexOK, IsChain, SortedIsAChain
<1> QED
  BY <1>1, Inductive, PTL

\* Until bitcoind replaces its chain the index leaves it only at a block that
\* the complete blk files did not hold: generate_sort_blocks and the tip hash
\* validate_loaded_block_index compares leave no other way.
THEOREM IndexFollows == Spec => []IndexFollowsTheNode
<1>1. IInv => IndexFollowsTheNode
  BY DEF IInv, FollowOK, IndexFollowsTheNode
<1> QED
  BY <1>1, Inductive, PTL

\* The block read through the file cache and the prefetch queue is the one asked
\* for: what is cached or queued of a file is a prefix of it, and the entry of
\* the index lies within that prefix or the read fails.
THEOREM FetchesRightBlock == Spec => []FetchedIsAsked
<1>1. IInv => FetchedIsAsked
  BY DEF IInv, FetchOK, FetchedIsAsked
<1> QED
  BY <1>1, Inductive, PTL

=============================================================================
