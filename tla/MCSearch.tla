------------------------------ MODULE MCSearch ------------------------------
(* Two batches, pages of two, two pages at most. *)
EXTENDS Search, TLC

ItemSymmetry == Permutations(Items \ Unsafe)
=============================================================================
