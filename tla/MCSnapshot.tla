----------------------------- MODULE MCSnapshot -----------------------------
(* A source node at height 2 with three scripts, one of them emptied at the  *)
(* tip: its unspent outputs and its commits fill a page each, its registered *)
(* scripts one and a half.                                                   *)
EXTENDS Snapshot, TLC

MCSource ==
    [height |-> 2,
     rows   |-> <<1, 1>> :> 5 @@ <<1, 2>> :> 0 @@ <<2, 1>> :> 3 @@ <<4, 2>> :> 7,
     utxo   |-> 2 :> "u2" @@ 3 :> "u3",
     commit |-> 1 :> "c1" @@ 2 :> "c2",
     script |-> 1 :> "s1" @@ 2 :> "s2" @@ 4 :> "s4"]
=============================================================================
