------------------------------- MODULE BlockLog -------------------------------
(***************************************************************************)
(* What the block index promises its readers: the table `blocks` is an     *)
(* append-only log of the chain without holes.  get-block-history-state    *)
(* answers "count" = largest block-id + 1 and get-block-history pages      *)
(* through the ids below it, so every id below the count has to be there.  *)
(***************************************************************************)
EXTENDS Naturals

CONSTANT Indexed0       \* the blocks indexed before the program starts

VARIABLE indexed        \* ids of the blocks a reader can get

Init == indexed = Indexed0

(* The only step: the block right after the newest indexed one is added. *)
Append == \E n \in indexed : /\ indexed = 0..n
                             /\ indexed' = indexed \cup {n + 1}

Spec == Init /\ [][Append]_indexed
===============================================================================
