------------------------------ MODULE PassStore ------------------------------
(***************************************************************************)
(* What usdb-indexer's SQLite store promises to whoever reads it after a   *)
(* restart: a log of blocks with one entry per height, appended one block  *)
(* at a time, cut back only by a rollback that leaves a recovery marker,   *)
(* and never appended to while the marker stands.  The current pass table  *)
(* is always the projection of the log, the adopted balance-history anchor *)
(* is that of the tip, and the anchor history is written once per height.  *)
(*                                                                         *)
(* It is the specification InscriptionIndexer's durable database is shown  *)
(* to implement; savepoints, energy, tracker and failures are not visible. *)
(***************************************************************************)
EXTENDS Integers, Sequences, FiniteSetsExt

CONSTANTS Passes, MaxHeight, Genesis,
          NoRow,        \* a pass without a row
          NoEntry,      \* a height without a block
          NoHeight      \* no marker

VARIABLES
    synced,             \* the synced height, 0 before the first block
    pending,            \* the recovery marker
    log,                \* log[h]: the block's commit and settlement, log[h].rows its pass rows
    view,               \* the current row of each pass
    anchor, anchors     \* the adopted snapshot and the snapshot history, by height

vars == <<synced, pending, log, view, anchor, anchors>>

Heights == 0..MaxHeight

Tip == IF synced >= Genesis THEN synced ELSE Genesis - 1

Init ==
    /\ synced = 0
    /\ pending = NoHeight
    /\ log = [h \in Heights |-> NoEntry]
    /\ view = [p \in Passes |-> NoRow]
    /\ anchor = <<>>
    /\ anchors = [h \in Heights |-> <<>>]

\* The last row of each pass in a log.
Written(l, p) == {h \in Heights : l[h] # NoEntry /\ l[h].rows[p] # NoRow}

Current(l) ==
    [p \in Passes |-> IF Written(l, p) = {} THEN NoRow ELSE l[Max(Written(l, p))].rows[p]]

Cut(f, t, none) == [h \in Heights |-> IF h > t THEN none ELSE f[h]]

\* One more block, with whatever it contains.
AppendBlock ==
    /\ pending = NoHeight
    /\ synced' = Tip + 1
    /\ log[synced'] = NoEntry
    /\ log'[synced'] # NoEntry
    /\ log' = [log EXCEPT ![synced'] = log'[synced']]
    /\ view' = Current(log')
    /\ UNCHANGED <<pending, anchor, anchors>>

\* Everything above the target goes at once and the marker remembers the target.
Rollback ==
    /\ pending = NoHeight
    /\ \E t \in (Genesis - 1)..Tip :
          /\ synced' = t
          /\ pending' = t
          /\ log' = Cut(log, t, NoEntry)
          /\ view' = Current(log')
          /\ anchor' = <<>>
          /\ anchors' = Cut(anchors, t, <<>>)

FinishRecovery ==
    /\ pending = synced
    /\ pending' = NoHeight
    /\ UNCHANGED <<synced, log, view, anchor, anchors>>

\* The anchor of the tip is adopted.
Adopt ==
    /\ pending = NoHeight
    /\ Len(anchor') = synced
    /\ anchors' = [anchors EXCEPT ![synced] = anchor']
    /\ UNCHANGED <<synced, pending, log, view>>

\* A missing height of the anchor history is filled in, never overwritten.
Backfill ==
    /\ pending = NoHeight
    /\ \E h \in Genesis..Tip :
          /\ anchors[h] = <<>>
          /\ Len(anchors'[h]) = h
          /\ anchors' = [anchors EXCEPT ![h] = anchors'[h]]
    /\ UNCHANGED <<synced, pending, log, view, anchor>>

Next == AppendBlock \/ Rollback \/ FinishRecovery \/ Adopt \/ Backfill

Spec == Init /\ [][Next]_vars
=============================================================================
