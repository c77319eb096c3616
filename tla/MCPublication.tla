---------------------------- MODULE MCPublication ----------------------------
(* A small instance of Publication for TLC; no property names a branch. *)
EXTENDS Publication, TLC
CONSTANTS b1, b2
Symmetry == Permutations(Branches)
=============================================================================
