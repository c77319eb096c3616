----------------------------- MODULE MCSolution -----------------------------
(* Small instances of Solution for TLC: two solutions A and B, taken in this
   order; A is made of g, B of g and, if there is one, of f. *)
EXTENDS Solution
CONSTANTS A, B, f, g
InOrder == <<A, B>>
Parts == [s \in {A, B} |-> IF s = A THEN {g} ELSE Files]
=============================================================================
