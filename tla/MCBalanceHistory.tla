-------------------------- MODULE MCBalanceHistory --------------------------
(***************************************************************************)
(* Small instances of BalanceHistoryIndexer.  Four outputs, two scripts    *)
(* and block bodies that create an output, spend one of an earlier block   *)
(* (same or other batch), and create and spend within one block; the       *)
(* chains are all the valid orders of up to MaxLength distinct bodies.     *)
(***************************************************************************)
EXTENDS BalanceHistoryIndexer, TLC

CONSTANTS a, b, o1, o2, o3, o4, MaxLength

MCOutpoint == {o1, o2, o3, o4}
MCScript == {a, b}
MCScriptOf == (o1 :> a) @@ (o2 :> b) @@ (o3 :> a) @@ (o4 :> b)
MCValueOf == (o1 :> 2) @@ (o2 :> 1) @@ (o3 :> 2) @@ (o4 :> 1)

MCBody == {[created |-> {o1}, spent |-> {}],
           [created |-> {o2}, spent |-> {o1}],
           [created |-> {o3, o4}, spent |-> {o4}]}

MCChains == {c \in UNION {[1..n -> MCBody] : n \in 0..MaxLength} : ValidChain(c)}

AnyPC == PCs

\* The pcs between two tip checks: no block of the pass has been read yet.
BeforeCheck == {"sync_once", "latest", "check", "search", "wait", "panic"}
=============================================================================
