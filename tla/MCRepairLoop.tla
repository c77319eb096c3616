---------------------------- MODULE MCRepairLoop ----------------------------
(* A small instance of RepairLoop for TLC.  No property names a provenance
   or an edit. *)
EXTENDS RepairLoop, TLC
CONSTANTS a, b, e1, e2
Symmetry == Permutations(Provs) \cup Permutations(Edits)
=============================================================================
