---------------------------- MODULE MCConnections ----------------------------
(* A small instance of Connections for TLC.  No property names a process, a
   connection, a name or an account. *)
EXTENDS Connections, TLC
CONSTANTS p1, p2, i1, i2, n1, n2, e1, e2, t1, a1, a2
Symmetry == Permutations(Procs) \cup Permutations(Ids)
              \cup Permutations(Names) \cup Permutations(Accounts)
              \cup Permutations(Endpoints)
=============================================================================
