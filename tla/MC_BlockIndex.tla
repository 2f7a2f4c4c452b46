----------------------------- MODULE MC_BlockIndex -----------------------------
(* Instances of BlockIndex for TLC: the slots for fetch jobs are interchangeable. *)
EXTENDS BlockIndex, TLC

JobSymmetry == Permutations(Jobs)
===============================================================================
