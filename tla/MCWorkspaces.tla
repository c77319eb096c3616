---------------------------- MODULE MCWorkspaces ----------------------------
(* A small instance of Workspaces for TLC.  No property names a process, a
   workspace, a rule or a revision. *)
EXTENDS Workspaces, TLC
CONSTANTS p1, p2, w1, w2, r1, v1, v2
Symmetry == Permutations(Procs) \cup Permutations(Ids)
              \cup Permutations(Revisions)
=============================================================================
