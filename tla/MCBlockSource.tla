--------------------------- MODULE MCBlockSource ---------------------------
(***************************************************************************)
(* A small block tree for BlockSource: two branches a1 a2 and b1 b2 b3     *)
(* above the genesis block, in blk files of two records.  With one block   *)
(* to a batch a pass has up to three of them, and bitcoind may replace its *)
(* chain between two.                                                      *)
(***************************************************************************)
EXTENDS BlockSource

MCBlock == {"g", "a1", "a2", "b1", "b2", "b3"}
MCParent == [g |-> "0", a1 |-> "g", a2 |-> "a1", b1 |-> "g", b2 |-> "b1", b3 |-> "b2"]

\* In chain order, or mixed with a child before its parent: a data directory that is
\* replaced by one of the other order has other blk files for the same blocks.
MCArrivals == {<<"a1", "a2", "b1">>, <<"b2", "b1", "a1", "a2", "b3">>}

=============================================================================
