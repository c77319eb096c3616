----------------------------- MODULE MCExecution -----------------------------
(* Small instances of Execution for TLC.  No property names a file or a worker,
   so both sets are symmetric; liveness runs use no symmetry. *)
EXTENDS ExecutionInvariant, TLC
CONSTANTS f1, f2, w1, w2, c0, c1, c2
Symmetry == Permutations(Files) \cup Permutations(Workers)
FileSymmetry == Permutations(Files)
=============================================================================
