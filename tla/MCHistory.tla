----------------------------- MODULE MCHistory -----------------------------
(* Small instances of History for TLC. *)
EXTENDS History, TLC
CONSTANTS f1, f2
Symmetry == Permutations(Files)
=============================================================================
