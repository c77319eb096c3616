------------------------------- MODULE Ledger -------------------------------
(***************************************************************************)
(* What the private branch and the durable queue promise each other.  The  *)
(* branch is a log of commits; the queue on disk records commits it knows  *)
(* (Attempt.Commit, DiscardChange.Commit) and holds intents: changes that  *)
(* were journaled before Git was asked to commit them.  An observer who    *)
(* sees only the branch and the queue file sees exactly these steps, with  *)
(* crashes, failed saves and parallel workers in between.                  *)
(***************************************************************************)
EXTENDS Naturals, Sequences

CONSTANT Change          \* the changes a commit may carry

VARIABLES log,           \* the commits of the branch after the session base
          recorded,      \* positions of log the durable queue knows about
          intents        \* changes journaled on disk and not yet recorded

lvars == <<log, recorded, intents>>

LInit == log = <<>> /\ recorded = {} /\ intents = {}

(* Journal a change, withdraw one, or replace one: the branch stands still. *)
Intend == /\ intents' \subseteq Change
          /\ UNCHANGED <<log, recorded>>

(* A commit is made of a journaled change, and only when the queue already
   records every earlier commit. *)
Extend == /\ recorded = 1..Len(log)
          /\ \E c \in intents : log' = Append(log, c)
          /\ UNCHANGED <<recorded, intents>>

(* The queue learns of commits that are on the branch; it forgets none. *)
Note == /\ recorded \subseteq recorded'
        /\ recorded' \subseteq 1..Len(log)
        /\ intents' \subseteq Change
        /\ UNCHANGED log

LNext == Intend \/ Extend \/ Note

LSpec == LInit /\ [][LNext]_lvars
=============================================================================
