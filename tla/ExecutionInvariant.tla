-------------------------- MODULE ExecutionInvariant --------------------------
(***************************************************************************)
(* The inductive invariants behind the theorems of Execution_proofs (IInv) *)
(* and Ledger_proofs (LInv): what memory, disk, branch and worktree have   *)
(* to do with each other at every call a worker or an operation may be     *)
(* stopped in.                                                             *)
(***************************************************************************)
EXTENDS Execution

(* Each worker works on a file no other worker holds and no job names; the
   snapshot of the run is on the branch. *)
FilesHeld ==
    /\ run.ref \in 0..HEAD
    /\ op.stage # "run" => wk = [w \in Workers |-> AtRest]
    /\ op.stage \in {"drestore", "dcommit", "dverify"} => op.cur \in Files
    /\ \A w \in Workers :
           /\ wk[w].pc \notin {"idle", "exit"} => wk[w].file \in Files
           /\ wk[w].file \notin run.jobs
           /\ wk[w].pc \in InApply => mem[wk[w].file].att.output # None
           /\ \A v \in Workers \ {w} : wk[w].file # None => wk[v].file # wk[w].file

(* The shapes, and who holds which file. *)
TypeInv == TypeOK /\ FilesHeld

(* A queue accounts for the branch. *)
Accounts(q) == \A n \in 1..HEAD : \/ n \in Known(q)
                                  \/ n = HEAD /\ \E f \in Files : InFlight(q, f)
QueuesAccount == /\ Known(disk) \subseteq Known(mem)
                 /\ Accounts(mem) /\ Accounts(disk)

(* A prepared discard is in both queues, and no attempt runs beside it. *)
DiscardsSaved ==
    /\ Prepared(mem) # {} \/ Prepared(disk) # {} => mem = disk
    /\ op.stage \in {"tree", "reset", "mark", "retry", "launch", "run"} =>
           Prepared(mem) = {}
    /\ op.stage \in {"drestore", "dcommit", "dverify"} => op.cur \in Prepared(mem)
    /\ op.stage \in {"drestore", "dcommit"} => /\ AllKnown(mem)
                                               /\ mem[op.cur].discard.base = HEAD

(* After recovery nothing is left open. *)
RecoverySettles ==
    op.stage \in {"retry", "launch"} =>
        mem = disk /\ AllKnown(mem) /\ Running(mem) = {}

(* While one closure is executed no other is, no write has failed, and until
   it commits both queues know the whole branch. *)
WriterAlone ==
    op.stage = "run" =>
        /\ \A w \in Workers : wk[w].pc \in InApply =>
               /\ ~ run.failure
               /\ \A v \in Workers \ {w} : wk[v].pc \notin InApply
        /\ (~ run.failure /\ \A w \in Workers : wk[w].pc # "record") =>
               AllKnown(mem) /\ AllKnown(disk)

(* An attempt under way, before its journal entry. *)
Attempted(t) == t.status = "running" /\ t.att.outcome # "validated"

(* Which attempts are journaled as validated, and which commit is whose. *)
AttemptsTracked ==
    op.stage = "run" =>
        /\ \A f \in run.jobs : mem[f].status # "running"
        /\ \A w \in Workers :
               LET t == mem[wk[w].file]
               IN  /\ wk[w].pc = "begin" => t.status # "running"
                   /\ wk[w].pc \in {"input", "repair", "think", "verify", "write",
                                    "check", "journal"} => Attempted(t)
                   /\ wk[w].pc = "restore" => t.status = "running"
                   /\ wk[w].pc \in {"commit", "record"} => mem = disk /\ Validated(t)
                   /\ wk[w].pc = "record" =>
                          /\ HeadNames("attempt", wk[w].file, t.att.num)
                          /\ 1..(HEAD - 1) \subseteq Known(mem)

(* Inductive: it holds at first and every action of Execution keeps it.  It
   contains TypeOK and implies LedgerComplete. *)
IInv == /\ TypeInv
        /\ QueuesAccount
        /\ DiscardsSaved
        /\ RecoverySettles
        /\ WriterAlone
        /\ AttemptsTracked
-----------------------------------------------------------------------------
(* The branch b, the numbers of its commits, and what a task t says of file
   f: what the refinement of Ledger and the properties of the worktree need. *)

BytesAt(b, n, f) == IF n = 0 THEN Baseline ELSE b[n].tree[f]
BytesNow(b, f) == BytesAt(b, Len(b), f)

(* The change t journaled is the newest commit of the branch. *)
Names(b, kind, f, num) == /\ Len(b) > 0
                          /\ b[Len(b)].kind = kind
                          /\ b[Len(b)].file = f
                          /\ b[Len(b)].num = num
Found(b, t, f) == /\ Validated(t)
                  /\ t.att.output # None
                  /\ Names(b, "attempt", f, t.att.num)
Restored(b, t, f) == /\ t.discard.state = "prepared"
                     /\ Names(b, "discard", f, t.discard.num)
                     /\ Len(b) - 1 = t.discard.base
Flying(b, t, f) == Found(b, t, f) \/ Restored(b, t, f)

(* Each attempt read its input from the tree it is based on, and HEAD still
   has that input while the attempt is open; an attempt found at HEAD was
   journaled on HEAD's parent. *)
AttemptBased(b, t, f) ==
    /\ t.att.base \in 0..Len(b)
    /\ t.att.input \in {None, BytesAt(b, t.att.base, f)}
    /\ t.status = "running" =>
           /\ t.att.commit = None
           /\ t.att.outcome \in {"", "validated"}
           /\ t.att.output # Foreign
           /\ Flying(b, t, f) \/ BytesAt(b, t.att.base, f) = BytesNow(b, f)
    /\ t.att.partial /\ t.att.commit # None => t.status # "done"
    /\ Found(b, t, f) => AttemptCommitBase(t.att) = Len(b) - 1

(* The commits of a file carry numbers its records have reached; the number
   of the last record is on the branch only if it is recorded, or at HEAD. *)
AttemptsNumbered(b, t, f) ==
    \A n \in 1..Len(b) : b[n].kind = "attempt" /\ b[n].file = f =>
        /\ b[n].num <= t.att.num
        /\ b[n].num = t.att.num => Adopted(t.att) \/ (n = Len(b) /\ Found(b, t, f))
DiscardsNumbered(b, t, f) ==
    \A n \in 1..Len(b) : b[n].kind = "discard" /\ b[n].file = f =>
        /\ b[n].num <= t.discard.num
        /\ b[n].num = t.discard.num => \/ t.discard.state = "done"
                                       \/ n = Len(b) /\ Restored(b, t, f)

(* The bytes of a file at HEAD are the adopted ones, or a change in flight
   put them there; an attempt found at HEAD changed its own file only. *)
ContentFollows(b, t, f) ==
    /\ t.adopted \in {None, BytesNow(b, f)} \/ Flying(b, t, f)
    /\ Found(b, t, f) =>
           /\ t.att.output = BytesNow(b, f)
           /\ \A g \in Files : BytesNow(b, g) # BytesAt(b, Len(b) - 1, g) <=> g = f

TaskTracked(b, e, t, f) == /\ AttemptBased(b, t, f)
                           /\ AttemptsNumbered(b, t, f)
                           /\ DiscardsNumbered(b, t, f)
                           /\ e = 0 => ContentFollows(b, t, f)
(* What is in flight is not recorded. *)
QueueTracked(b, e, q) == \A f \in Files :
                             /\ TaskTracked(b, e, q[f], f)
                             /\ Flying(b, q[f], f) => Len(b) \notin Known(q)
BranchTracked == /\ Known(mem) \subseteq 1..HEAD
                 /\ QueueTracked(branch, env.edits, mem)
                 /\ QueueTracked(branch, env.edits, disk)

(* What a run has not committed yet is what its snapshot holds, and an
   attempt in the writer is journaled on HEAD. *)
SameSince(n, f) == BytesAt(branch, n, f) = BytesNow(branch, f)
Afoot == {"input", "repair", "think", "verify", "write", "check", "journal",
          "commit", "restore"}
Journaled == {"verify", "write", "check", "journal", "commit", "restore"}
SnapshotHeld ==
    op.stage = "run" =>
        /\ \A f \in run.jobs : SameSince(run.ref, f)
        /\ \A w \in Workers :
               LET f == wk[w].file
                   a == mem[f].att
               IN  /\ wk[w].pc = "begin" => SameSince(run.ref, f)
                   /\ wk[w].pc \in Afoot => a.base = run.ref
                   /\ wk[w].pc \in Afoot \ {"commit", "restore"} => a.outcome = ""
                   /\ wk[w].pc \in Journaled => mem = disk /\ a.commitBase = HEAD

(* While nobody else edits it, the worktree x differs from HEAD in one file
   at most, and the queue says why. *)
Dirty(b, x) == {f \in Files : x[f] # BytesNow(b, f)}
Explained(b, x, t, f) ==
    \/ /\ t.status = "running"
       /\ AttemptCommitBase(t.att) = Len(b)
       /\ x[f] \in {t.att.input, t.att.output}
    \/ /\ t.discard.state = "prepared"
       /\ t.discard.base = Len(b)
       /\ x[f] = Baseline
Explains(b, x, q) == \A f \in Dirty(b, x) : /\ Dirty(b, x) = {f}
                                            /\ Explained(b, x, q[f], f)
(* The files of a worker's attempt that may differ at each of its calls. *)
HandsOff(b, x, t, f, pc) ==
    /\ pc \in {"begin", "input", "repair", "think", "record"} => f \notin Dirty(b, x)
    /\ pc \in {"verify", "write"} => Dirty(b, x) = {}
    /\ pc \in {"restore", "undo"} => Dirty(b, x) \subseteq {f}
    /\ pc \in {"check", "journal", "commit"} => /\ Dirty(b, x) \subseteq {f}
                                               /\ x[f] = t.att.output
    /\ pc \in {"journal", "commit"} => f \in Dirty(b, x)
WorktreeKept ==
    env.edits = 0 =>
        /\ Explains(branch, work, mem) /\ Explains(branch, work, disk)
        /\ op.stage \in {"mark", "retry", "launch"} => Dirty(branch, work) = {}
        /\ op.stage \in {"drestore", "dcommit"} => Dirty(branch, work) \subseteq {op.cur}
        /\ op.stage = "dcommit" => work[op.cur] = Baseline
        /\ op.stage = "run" =>
               /\ run.jobs \cap Dirty(branch, work) = {}
               /\ \A w \in Workers :
                      HandsOff(branch, work, mem[wk[w].file], wk[w].file, wk[w].pc)

(* Inductive on top of IInv: what the refinement of Ledger, CommittedOnce,
   AdoptedIsHead, RecoveryAccepts and ForeignEditsSurvive rest on. *)
LInv == /\ IInv
        /\ CommittedOnce
        /\ BranchTracked
        /\ SnapshotHeld
        /\ WorktreeKept
=============================================================================
