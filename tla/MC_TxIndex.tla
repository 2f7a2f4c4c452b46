------------------------------ MODULE MC_TxIndex ------------------------------
(***************************************************************************)
(* Instances of TxIndex for TLC.  Block 1 has two rows, block 2 is empty   *)
(* (its row is the marker m2), blocks 3 and 5 have one row each, block 4   *)
(* has an empty array and so no row at all; a5 is ahead of a3 wherever the *)
(* thread looks at them.                                                   *)
(***************************************************************************)
EXTENDS TxIndex, TLC

CONSTANTS a1, b1, m2, a3, a5

SmallRows == {a1, b1, m2, a3}
SmallBlockOf == a1 :> 1 @@ b1 :> 1 @@ m2 :> 2 @@ a3 :> 3

GapRows == {a1, m2, a3, a5}
GapBlockOf == a1 :> 1 @@ m2 :> 2 @@ a3 :> 3 @@ a5 :> 5

===============================================================================
