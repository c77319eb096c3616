------------------------------ MODULE Execution ------------------------------
(***************************************************************************)
(* One workspace of the engine in file mode: parallel workers propose      *)
(* changes, a single writer adopts them into the private Git worktree, and *)
(* the queue journal on disk lets the next start tell a finished commit    *)
(* from an interrupted one.  Modelled from internal/engine: runner.go,     *)
(* parallel_run.go, parallel_recovery.go, git.go, discard_changes.go and   *)
(* the Start, Stop, RetryTasks, load and persist operations of service.go. *)
(*                                                                         *)
(* Abstractions.  A file's bytes (and their digest) are one of Contents.   *)
(* A commit is the tree it leaves and the message that names its maker; a  *)
(* commit id is its position on the branch, 0 being the session base.      *)
(* Index and working file are one: work.  Everything a Go call may fail    *)
(* with is a fault, of which at most MaxFaults happen.                     *)
(***************************************************************************)
EXTENDS Naturals, Sequences, FiniteSets

CONSTANTS Files,         \* the files of the queue
          Workers,       \* EffectiveConcurrency goroutines of runFiles
          Contents,      \* the bytes a source file may hold
          Baseline,      \* the bytes of every file at the session base
          Foreign,       \* bytes nobody in the program produced
          None,          \* an empty digest or an absent commit id
          MaxAttempts,   \* bound: attempts per file
          MaxDiscards,   \* bound: discards per file
          MaxFaults,     \* bound: failing calls
          MaxCrashes,    \* bound: process deaths
          MaxEdits       \* bound: edits of the worktree from outside

ASSUME ContentAssumption == /\ Baseline \in Contents
                            /\ Foreign \notin Contents
                            /\ None \notin Contents \cup Files \cup {Foreign}
                            /\ None \notin Nat
ASSUME BoundAssumption == /\ MaxAttempts \in Nat /\ MaxDiscards \in Nat
                          /\ MaxFaults \in Nat /\ MaxCrashes \in Nat
                          /\ MaxEdits \in Nat

VARIABLES mem,           \* s.state.Tasks, the queue in memory
          disk,          \* queue.jsonl, the queue on disk
          branch,        \* commits of the private branch after the base
          work,          \* the files of the worktree
          op,            \* the service operation in progress
          run,           \* context, executionWriter and jobs of runFiles
          wk,            \* where each worker goroutine is in processOne
          env            \* how many faults, crashes and edits happened

vars == <<mem, disk, branch, work, op, run, wk, env>>

-----------------------------------------------------------------------------
(* Types: the records of model.Attempt, model.DiscardChange and model.Task,
   with the fields that decide control. *)
Bytes == Contents \cup {Foreign}
Digest == Bytes \cup {None}
CommitId == Nat \cup {None}

Attempt == [num : Nat, base : Nat, commitBase : CommitId, input : Digest,
            output : Digest, partial : BOOLEAN, repair : BOOLEAN,
            outcome : {"", "validated", "done", "skipped", "failed",
                       "needs_human", "interrupted"},
            commit : CommitId]
Discard == [num : Nat, state : {"none", "prepared", "done"}, base : Nat,
            input : Digest]
Statuses == {"pending", "running", "done", "skipped", "failed", "needs_human"}
(* att is the last entry of Task.History (num = 0: none), discard the last
   entry of Task.Discards, commits the ids their entries recorded, adopted
   the OutputHash of the latest adopted attempt after the discard cutoff. *)
Task == [status : Statuses, resume : BOOLEAN, input : Digest, att : Attempt,
         discard : Discard, cutoff : Nat, commits : SUBSET Nat,
         adopted : Digest]
Commit == [kind : {"attempt", "discard"}, file : Files, num : Nat,
           tree : [Files -> Bytes]]

NoAttempt == [num |-> 0, base |-> 0, commitBase |-> None, input |-> None,
              output |-> None, partial |-> FALSE, repair |-> FALSE,
              outcome |-> "", commit |-> None]
NewTask == [status |-> "pending", resume |-> FALSE, input |-> Baseline,
            att |-> NoAttempt,
            discard |-> [num |-> 0, state |-> "none", base |-> 0,
                         input |-> None],
            cutoff |-> 0, commits |-> {}, adopted |-> None]

-----------------------------------------------------------------------------
(* Git. *)
HEAD == Len(branch)
TreeAt(n) == IF n = 0 THEN [f \in Files |-> Baseline] ELSE branch[n].tree
HeadTree == TreeAt(HEAD)
ChangedFiles == {f \in Files : work[f] # HeadTree[f]}
Clean == ChangedFiles = {}
CommitFile(kind, f, num) ==
    branch' = Append(branch, [kind |-> kind, file |-> f, num |-> num,
                              tree |-> [HeadTree EXCEPT ![f] = work[f]]])
(* diff-tree of HEAD against its parent *)
HeadTouches == {f \in Files : TreeAt(HEAD)[f] # TreeAt(HEAD - 1)[f]}

(* The message of HEAD names this attempt or this discard. *)
HeadNames(kind, f, num) == /\ HEAD > 0
                           /\ branch[HEAD].kind = kind
                           /\ branch[HEAD].file = f
                           /\ branch[HEAD].num = num

-----------------------------------------------------------------------------
(* Readings of the queue. *)
Known(q) == UNION {q[f].commits : f \in Files}
AllKnown(q) == 1..HEAD \subseteq Known(q)
(* validateDiscardHistory: nothing unknown on the branch, nothing lost. *)
HistoryExact(q, recovering) == Known(q) \cup recovering = 1..HEAD
Prepared(q) == {f \in Files : q[f].discard.state = "prepared"}
Running(q) == {f \in Files : q[f].status = "running"}
Runnable(q) == {f \in Files : q[f].status \in {"pending", "failed"}}
Validated(t) == t.status = "running" /\ t.att.outcome = "validated"
(* A variant a plausible slip would give: the parallel base is forgotten. *)
BaseOfRun(a) == a.base
AttemptCommitBase(a) == IF a.commitBase # None THEN a.commitBase ELSE a.base
Adopted(a) == /\ a.commit # None
              /\ a.outcome = "done" \/ (a.outcome = "needs_human" /\ a.partial)
CanDiscard(t) == /\ t.discard.state # "prepared"
                 /\ t.adopted \notin {None, Baseline}
UnfinishedRepair(t) == /\ t.att.num > t.cutoff
                       /\ t.att.repair
                       /\ ~ Adopted(t.att)
                       /\ t.att.outcome \notin {"done", "skipped"}

(* persist(): the memory queue replaces queue.jsonl; a failure comes before
   the rename, or after it from the session file or the run snapshot. *)
SaveResults == {"ok", "before", "after"}
Save(q, r) == /\ mem' = q
              /\ disk' = IF r = "before" THEN disk ELSE q

Fault(r) == /\ r # "ok" => env.faults < MaxFaults
            /\ env' = [env EXCEPT !.faults = IF r = "ok" THEN @ ELSE @ + 1]

-----------------------------------------------------------------------------
(* Workers.  pc says which call of processOne comes next; the calls from
   "verify" to "record", and the "restore" or "undo" that may end them, are
   one closure given to executionWriter.apply. *)
PCs == {"idle", "begin", "input", "repair", "think", "verify", "write", "check",
        "journal", "commit", "record", "restore", "undo", "exit"}
InApply == {"verify", "write", "check", "journal", "commit", "record",
            "restore", "undo"}
AtRest == [pc |-> "idle", file |-> None]
NoRun == [ref |-> 0, accepted |-> 0, failure |-> FALSE, cancelled |-> FALSE,
          jobs |-> {}]

(* Variant: the closures run where they are given, beside each other. *)
WriterShared == TRUE
(* One consumer runs the closures: apply waits while another holds it. *)
WriterFree == \A w \in Workers : wk[w].pc \notin InApply

At(w, pc) == op.stage = "run" /\ wk[w].pc = pc
Goto(w, pc) == wk' = [wk EXCEPT ![w].pc = pc]
(* The goroutine of runFiles asks for the next attempt or for the next job. *)
Looped(t) == IF t.status = "failed" THEN "begin" ELSE "idle"

(* processOne returned an error: cancel(), and the worker ends.  An error of
   a closure is also kept as the writer's failure. *)
Abort(w, inApply) == /\ Goto(w, "exit")
                     /\ run' = [run EXCEPT !.cancelled = TRUE,
                                           !.failure = @ \/ inApply]

(* A closure that ends in persist(): on success the worker goes on. *)
SaveOr(w, t, pc) ==
    \E r \in SaveResults :
        /\ Fault(r)
        /\ Save([mem EXCEPT ![wk[w].file] = t], r)
        /\ IF r = "ok" THEN Goto(w, pc) /\ UNCHANGED run ELSE Abort(w, TRUE)

(* finishNow: the attempt and the task take their final status. *)
Finished(t, s) ==
    LET a == [t.att EXCEPT !.outcome = s]
        u == [t EXCEPT !.att = a, !.status = s,
                       !.adopted = IF Adopted(a) THEN a.output ELSE @]
    IN  IF s = "skipped" /\ CanDiscard(u) THEN [u EXCEPT !.status = "done"] ELSE u
Finish(w, t, s) == SaveOr(w, Finished(t, s), Looped(Finished(t, s)))

(* Variant: whatever was asked to resume is resumed. *)
MayResumeAnything(t) == t.resume
(* An unadopted attempt is resumed only from the same snapshot and input. *)
MayResume(t) == /\ t.resume
                /\ UnfinishedRepair(t)
                /\ t.att.base = run.ref
                /\ t.att.input = t.input
Resumed(t) == [t.att EXCEPT !.base = run.ref, !.commitBase = None,
                            !.output = None, !.partial = FALSE,
                            !.outcome = "", !.commit = None]
Fresh(t) == [NoAttempt EXCEPT !.num = t.att.num + 1, !.base = run.ref]
CanBegin(t) == MayResume(t) \/ t.att.num < MaxAttempts

TakeJob(w) ==
    /\ At(w, "idle") /\ ~ run.cancelled
    /\ \E f \in run.jobs : /\ run' = [run EXCEPT !.jobs = @ \ {f}]
                           /\ wk' = [wk EXCEPT ![w] = [pc |-> "begin", file |-> f]]
    /\ UNCHANGED <<mem, disk, branch, work, op, env>>

(* The loop ends on cancellation; at MaxAttempts the model ends it too. *)
LeaveFile(w) ==
    /\ At(w, "begin")
    /\ run.cancelled \/ ~ CanBegin(mem[wk[w].file])
    /\ Goto(w, "idle")
    /\ UNCHANGED <<mem, disk, branch, work, op, run, env>>

(* A changed rule set or setting forbids resuming at any time: \E a.  The
   saved plan may be unreadable: the last disjunct. *)
Begin(w) ==
    LET t == mem[wk[w].file]
    IN  /\ At(w, "begin") /\ ~ run.cancelled
        /\ \/ \E a \in {Resumed(t), Fresh(t)} :
                  /\ WriterFree
                  /\ a = Resumed(t) => MayResume(t)
                  /\ a = Fresh(t) => t.att.num < MaxAttempts
                  /\ SaveOr(w, [t EXCEPT !.att = a, !.status = "running",
                                         !.resume = FALSE], "input")
           \/ Fault("before") /\ Abort(w, FALSE) /\ UNCHANGED <<mem, disk>>
        /\ UNCHANGED <<branch, work, op>>

(* The source is read from the run's snapshot, never from the worktree. *)
ReadInput(w) ==
    LET f == wk[w].file
        t == mem[f]
        seen == TreeAt(run.ref)[f]
        u == [t EXCEPT !.att.input = seen]
    IN  /\ At(w, "input")
        /\ \/ WriterFree /\ run.cancelled /\ Finish(w, t, "needs_human")
           \/ /\ WriterFree /\ ~ run.cancelled /\ t.input \notin {None, seen}
              /\ Finish(w, u, "needs_human")
           \/ /\ WriterFree /\ ~ run.cancelled /\ t.input \in {None, seen}
              /\ SaveOr(w, [u EXCEPT !.input = seen], "repair")
           \/ Fault("before") /\ Abort(w, FALSE) /\ UNCHANGED <<mem, disk>>
        /\ UNCHANGED <<branch, work, op>>

(* The repair sidecar is saved each turn; the queue only when it is new. *)
OpenRepair(w) ==
    LET f == wk[w].file
        u == [mem[f] EXCEPT !.att.repair = TRUE]
    IN  /\ At(w, "repair") /\ WriterFree
        /\ \/ ~ mem[f].att.repair /\ SaveOr(w, u, "think")
           \/ mem[f].att.repair /\ Goto(w, "think") /\ UNCHANGED <<mem, disk, run, env>>
           \/ Fault("before") /\ Abort(w, TRUE) /\ UNCHANGED <<mem, disk>>
        /\ UNCHANGED <<branch, work, op>>

(* ValidateCandidate journals the digest of a candidate before and after its
   checks; the agent may try another one.  A failed save is the agent's to
   report, the worker goes on. *)
Validate(w) ==
    LET f == wk[w].file
    IN  /\ At(w, "think") /\ WriterFree
        /\ \E c \in Contents \ {mem[f].att.input}, r \in SaveResults :
               /\ mem[f].att.output # c
               /\ Fault(r)
               /\ Save([mem EXCEPT ![f].att.output = c], r)
               /\ run' = [run EXCEPT !.failure = @ \/ r # "ok"]
        /\ UNCHANGED <<branch, work, op, wk>>

(* The agent failed, gave up, or proposed what the gates refuse: the file is
   held, or tried again when no turn was spent.  A fatal error stops all. *)
Decline(w) ==
    LET t == mem[wk[w].file]
    IN  /\ At(w, "think") /\ WriterFree
        /\ \/ Finish(w, t, "needs_human")
           \/ ~ run.cancelled /\ Finish(w, t, "failed")
           \/ \E r \in SaveResults :
                  /\ Fault(r)
                  /\ Save([mem EXCEPT ![wk[w].file] = Finished(t, "needs_human")], r)
                  /\ Abort(w, r # "ok")
        /\ UNCHANGED <<branch, work, op>>

(* Variant: the writer's earlier failure does not forbid the next adoption. *)
MayAdoptAfterFailure == ~ run.cancelled /\ HEAD = run.accepted /\ Clean
(* Before anything is adopted: no stop, no earlier failed write, and the
   worktree is exactly what this writer left. *)
MayAdopt == /\ ~ run.cancelled
            /\ ~ run.failure
            /\ HEAD = run.accepted
            /\ Clean

(* A reviewed "no change" answer. *)
Skip(w) ==
    LET f == wk[w].file
        t == mem[f]
    IN  /\ At(w, "think") /\ WriterFree /\ MayAdopt
        /\ work[f] = t.att.input
        /\ \/ Finish(w, [t EXCEPT !.att.output = t.att.input], "skipped")
           \/ Fault("before") /\ Abort(w, TRUE) /\ UNCHANGED <<mem, disk>>
        /\ UNCHANGED <<branch, work, op>>

(* A reviewed candidate enters the writer: first its journal entry. *)
Adopt(w) ==
    LET t == mem[wk[w].file]
    IN  /\ At(w, "think") /\ WriterFree /\ MayAdopt
        /\ t.att.output # None
        /\ \/ \E p \in BOOLEAN :
                  SaveOr(w, [t EXCEPT !.att.commitBase = run.accepted,
                                      !.att.partial = p], "verify")
           \/ Fault("before") /\ Abort(w, TRUE) /\ UNCHANGED <<mem, disk>>
        /\ UNCHANGED <<branch, work, op>>

(* The source is read once more and compared with what the attempt read. *)
VerifySource(w) ==
    LET f == wk[w].file
        t == mem[f]
    IN  /\ At(w, "verify")
        /\ \/ work[f] # t.att.input /\ Finish(w, t, "needs_human")
           \/ /\ work[f] = t.att.input
              /\ Goto(w, "write") /\ UNCHANGED <<mem, disk, run, env>>
           \/ Fault("before") /\ Abort(w, TRUE) /\ UNCHANGED <<mem, disk>>
        /\ UNCHANGED <<branch, work, op>>

(* The candidate replaces it, whatever it holds by then. *)
WriteSource(w) ==
    LET f == wk[w].file
    IN  /\ At(w, "write")
        /\ \/ /\ work' = [work EXCEPT ![f] = mem[f].att.output]
              /\ Goto(w, "check") /\ UNCHANGED <<run, env>>
           \/ Fault("before") /\ Abort(w, TRUE) /\ UNCHANGED work
        /\ UNCHANGED <<mem, disk, branch, op>>

(* Variant: the bytes in the worktree are not looked at. *)
RollsBackAnything(f, a) == HEAD = a.commitBase
(* rollbackAdoption: this file only, and only from bytes this attempt knows. *)
CanRollBack(f, a) == HEAD = a.commitBase /\ work[f] \in {a.input, a.output}

(* cleanup() looks at HEAD and at the file before it restores; its error ends
   the run. *)
CleanUp(w) ==
    LET f == wk[w].file
        a == mem[f].att
    IN  /\ \/ CanRollBack(f, a) /\ Goto(w, "restore") /\ UNCHANGED <<run, env>>
           \/ ~ CanRollBack(f, a) /\ Abort(w, TRUE) /\ UNCHANGED env
           \/ Fault("before") /\ Abort(w, TRUE)
        /\ UNCHANGED <<mem, disk, work>>
(* _ = cleanup(): the run ends with the error that came before. *)
Undo(w) == LET f == wk[w].file
           IN  \/ CanRollBack(f, mem[f].att) /\ Goto(w, "undo") /\ UNCHANGED run
               \/ Abort(w, TRUE)

(* git restore, and then the attempt fails; or the run ends anyway. *)
RollBack(w) ==
    LET f == wk[w].file
        restored == work' = [work EXCEPT ![f] = HeadTree[f]]
    IN  /\ \/ At(w, "restore") /\ restored /\ Finish(w, mem[f], "failed")
           \/ /\ At(w, "restore") /\ UNCHANGED <<mem, disk, work>>
              /\ Fault("before") /\ Abort(w, TRUE)
           \/ /\ At(w, "undo") /\ UNCHANGED <<mem, disk, env>>
              /\ restored \/ UNCHANGED work
              /\ Abort(w, TRUE)
        /\ UNCHANGED <<branch, op>>

InScope(w) == LET f == wk[w].file
              IN  ChangedFiles = {f} /\ work[f] = mem[f].att.output

(* diff, scopeCheck and the bytes about to be committed; the error of the
   artifact write (the last disjunct) ignores the outcome of cleanup(). *)
CheckAdoption(w) ==
    LET f == wk[w].file
    IN  /\ At(w, "check")
        /\ \/ /\ InScope(w) /\ ~ run.cancelled
              /\ Goto(w, "journal") /\ UNCHANGED <<mem, disk, run, env, work>>
           \/ ~ (InScope(w) /\ ~ run.cancelled) /\ CleanUp(w)
           \/ Fault("before") /\ Undo(w) /\ UNCHANGED <<mem, disk, work>>
        /\ UNCHANGED <<branch, op>>

(* The validated bytes are durable before Git is asked to commit them. *)
JournalValidated(w) ==
    LET f == wk[w].file
        q == [mem EXCEPT ![f].att.outcome = "validated"]
    IN  /\ At(w, "journal")
        /\ \E r \in SaveResults :
               /\ Fault(r)
               /\ Save(q, r)
               /\ IF r = "ok" THEN Goto(w, "commit") /\ UNCHANGED run
                              ELSE Undo(w)
        /\ UNCHANGED <<branch, work, op>>

(* git add and git commit.  A commit that reports an error, canceled or not,
   may have completed. *)
CommitAdoption(w) ==
    LET f == wk[w].file
        a == mem[f].att
    IN  /\ At(w, "commit")
        /\ \/ /\ ~ run.cancelled
              /\ CommitFile("attempt", f, a.num)
              /\ Goto(w, "record") /\ UNCHANGED <<mem, disk, work, run, env>>
           \/ /\ run.cancelled \/ env.faults < MaxFaults
              /\ CleanUp(w) /\ UNCHANGED branch
           \/ /\ IF run.cancelled THEN UNCHANGED env ELSE Fault("after")
              /\ Abort(w, TRUE)
              /\ CommitFile("attempt", f, a.num) \/ UNCHANGED branch
              /\ UNCHANGED <<mem, disk, work>>
        /\ UNCHANGED op

(* rev-parse HEAD, and the attempt records its commit. *)
RecordCommit(w) ==
    LET f == wk[w].file
        t == mem[f]
        u == [t EXCEPT !.att.commit = HEAD, !.commits = @ \cup {HEAD}]
        v == Finished(u, IF t.att.partial THEN "needs_human" ELSE "done")
    IN  /\ At(w, "record")
        /\ \/ /\ ~ run.cancelled
              /\ \E r \in SaveResults :
                     /\ Fault(r)
                     /\ Save([mem EXCEPT ![f] = v], r)
                     /\ Goto(w, IF r = "ok" THEN "idle" ELSE "exit")
                     /\ run' = [run EXCEPT !.accepted = HEAD,
                                           !.cancelled = @ \/ r # "ok",
                                           !.failure = @ \/ r # "ok"]
           \/ /\ IF run.cancelled THEN UNCHANGED env ELSE Fault("after")
              /\ Abort(w, TRUE) /\ UNCHANGED <<mem, disk>>
        /\ UNCHANGED <<branch, work, op>>

(* What the agent returns ends its work on an attempt; the rest is ours. *)
Answer(w) == Decline(w) \/ Skip(w) \/ Adopt(w)
Handle(w) ==
    \/ TakeJob(w) \/ LeaveFile(w) \/ Begin(w) \/ ReadInput(w) \/ OpenRepair(w)
    \/ VerifySource(w) \/ WriteSource(w) \/ CheckAdoption(w)
    \/ JournalValidated(w) \/ CommitAdoption(w) \/ RecordCommit(w) \/ RollBack(w)
WorkerStep(w) == Handle(w) \/ Validate(w) \/ Answer(w)

-----------------------------------------------------------------------------
(* Operations.  Service.op lets one run at a time; stage says how far it is. *)
NoOp == [name |-> "none", stage |-> "", files |-> {}, cur |-> None]
Down == [NoOp EXCEPT !.name = "down"]
OpNames == {"none", "down", "open", "discard", "start", "retry"}
Stages == {"", "discards", "drestore", "dcommit", "dverify", "tree", "reset",
           "mark", "retry", "launch", "run"}

Idle == op = NoOp
Begins(name, stage, S) == op' = [NoOp EXCEPT !.name = name, !.stage = stage,
                                             !.files = S]
GoOn(stage) == op' = [op EXCEPT !.stage = stage]
(* The operation returns an error, or returns. *)
EndOp == op' = NoOp /\ run' = NoRun
         /\ wk' = [w \in Workers |-> AtRest]
EndOpIf(failed, stage) == IF failed THEN EndOp
                          ELSE GoOn(stage) /\ UNCHANGED <<run, wk>>

(* A call under the context of the operation fails: it was stopped, or the
   machine failed it.  Nothing is saved. *)
Fails == /\ \/ run.cancelled /\ UNCHANGED env
            \/ ~ run.cancelled /\ Fault("before")
         /\ EndOp

(* Start: the manifest is saved by prepareWorktree before anything else.  A
   limit makes the run target some of the files only. *)
Start ==
    /\ Idle
    /\ Runnable(mem) \cup Running(mem) # {}
    /\ \E S \in SUBSET (Runnable(mem) \cup Running(mem)), r \in SaveResults :
           /\ S # {}
           /\ Fault(r)
           /\ Save(mem, r)
           /\ IF r = "ok" THEN Begins("start", "discards", S) ELSE UNCHANGED op
    /\ UNCHANGED <<branch, work, run, wk>>

(* Stop cancels the context of a run; closures already given to the writer
   are still executed. *)
Stop == /\ op.name = "start" /\ ~ run.cancelled
        /\ run' = [run EXCEPT !.cancelled = TRUE]
        /\ UNCHANGED <<mem, disk, branch, work, op, wk, env>>

Retry == /\ Idle
         /\ \E S \in SUBSET Files : S # {} /\ Begins("retry", "discards", S)
         /\ UNCHANGED <<mem, disk, branch, work, run, wk, env>>

(* load(): the queue on disk replaces the one in memory. *)
Reload == /\ Idle
          /\ mem' = disk
          /\ UNCHANGED <<disk, branch, work, op, run, wk, env>>

Crash == /\ op # Down /\ env.crashes < MaxCrashes
         /\ env' = [env EXCEPT !.crashes = @ + 1]
         /\ mem' = disk /\ op' = Down /\ run' = NoRun
         /\ wk' = [w \in Workers |-> AtRest]
         /\ UNCHANGED <<disk, branch, work>>

(* restoreWorkspace: load the queue, then finish prepared discards. *)
Open == /\ op = Down
        /\ mem' = disk
        /\ IF Prepared(disk) = {} THEN op' = NoOp ELSE Begins("open", "discards", {})
        /\ UNCHANGED <<disk, branch, work, run, wk, env>>

-----------------------------------------------------------------------------
(* DiscardFileChanges and recoverDiscards. *)

(* The prepared record is the write-ahead journal of the restoring commit. *)
PrepareDiscard(f) ==
    LET t == mem[f]
        d == [num |-> t.discard.num + 1, state |-> "prepared", base |-> HEAD,
              input |-> work[f]]
        q == [mem EXCEPT ![f].discard = d]
    IN  /\ Idle
        /\ t.discard.num < MaxDiscards
        /\ CanDiscard(t) /\ Clean /\ HistoryExact(mem, {})
        /\ work[f] # Baseline
        /\ mem' = q /\ disk' = q
        /\ Begins("discard", "discards", {})
        /\ UNCHANGED <<branch, work, run, wk, env>>

Discarding == op.stage = "discards" /\ Prepared(mem) # {}

(* HEAD is still the commit the discard was prepared on: the bytes of the
   session base are put back, if the file held nothing unknown. *)
MayRestore(f) == /\ HistoryExact(mem, {})
                 /\ HeadTree[f] = mem[f].discard.input
                 /\ ChangedFiles \subseteq {f}
                 /\ work[f] \in {mem[f].discard.input, Baseline}
CheckDiscard(f) ==
    /\ Discarding /\ f \in Prepared(mem)
    /\ HEAD = mem[f].discard.base
    /\ \/ /\ MayRestore(f) /\ ~ run.cancelled
          /\ op' = [op EXCEPT !.stage = "drestore", !.cur = f]
          /\ UNCHANGED <<run, wk, env>>
       \/ ~ MayRestore(f) /\ EndOp /\ UNCHANGED env
       \/ Fails
    /\ UNCHANGED <<mem, disk, branch, work>>
RestoreSource ==
    /\ op.stage = "drestore"
    /\ \/ /\ work' = [work EXCEPT ![op.cur] = Baseline]
          /\ GoOn("dcommit") /\ UNCHANGED <<run, wk, env>>
       \/ Fault("before") /\ EndOp /\ UNCHANGED work
    /\ UNCHANGED <<mem, disk, branch>>

(* commit --only; an error may hide a completed commit. *)
CommitDiscard ==
    LET f == op.cur
    IN  /\ op.stage = "dcommit"
        /\ \/ /\ ~ run.cancelled
              /\ CommitFile("discard", f, mem[f].discard.num)
              /\ GoOn("dverify") /\ UNCHANGED <<run, wk, env>>
           \/ /\ Fails
              /\ CommitFile("discard", f, mem[f].discard.num) \/ UNCHANGED branch
        /\ UNCHANGED <<mem, disk, work>>

(* A commit was completed by an earlier call: go straight to its check. *)
FindDiscard(f) ==
    /\ Discarding /\ f \in Prepared(mem)
    /\ HEAD # mem[f].discard.base
    /\ op' = [op EXCEPT !.stage = "dverify", !.cur = f]
    /\ UNCHANGED <<mem, disk, branch, work, run, wk, env>>

IsDiscardCommit(f) == /\ HeadNames("discard", f, mem[f].discard.num)
                      /\ HEAD - 1 = mem[f].discard.base
                      /\ HeadTouches = {f}
                      /\ HeadTree[f] = Baseline
                      /\ Clean
                      /\ HistoryExact(mem, {HEAD})
(* Variant: the adopted content is not forgotten with the discard. *)
DiscardedKeeping(t) == [t EXCEPT !.discard.state = "done", !.cutoff = t.att.num,
                                 !.commits = @ \cup {HEAD}, !.status = "pending",
                                 !.resume = TRUE, !.input = Baseline]
Discarded(t) == [t EXCEPT !.discard.state = "done", !.cutoff = t.att.num,
                          !.commits = @ \cup {HEAD}, !.adopted = None,
                          !.status = "pending", !.resume = TRUE,
                          !.input = Baseline]
FinishDiscard ==
    LET f == op.cur
        q == [mem EXCEPT ![f] = Discarded(mem[f])]
    IN  /\ op.stage = "dverify"
        /\ \/ /\ IsDiscardCommit(f) /\ ~ run.cancelled
              /\ mem' = q /\ disk' = q
              /\ op' = [op EXCEPT !.stage = "discards", !.cur = None]
              /\ UNCHANGED <<run, wk, env>>
           \/ /\ ~ IsDiscardCommit(f) /\ EndOp /\ UNCHANGED <<mem, disk, env>>
           \/ Fails /\ UNCHANGED <<mem, disk>>
        /\ UNCHANGED <<branch, work>>

(* Nothing left to finish: a start or a retry goes on to recover(). *)
DiscardsDone ==
    /\ op.stage = "discards" /\ Prepared(mem) = {}
    /\ IF op.name \in {"start", "retry"} THEN GoOn("tree") /\ UNCHANGED <<run, wk>>
                                         ELSE EndOp
    /\ UNCHANGED <<mem, disk, branch, work, env>>

-----------------------------------------------------------------------------
(* recover() and the operations that follow it. *)

(* HEAD carries the message of an interrupted attempt that journaled the
   bytes it was about to commit. *)
OwnsHead(q, f) == /\ Validated(q[f])
                  /\ q[f].att.output # None
                  /\ HeadNames("attempt", f, q[f].att.num)
HistoryExplained(q) ==
    1..HEAD \subseteq Known(q) \cup {n \in {HEAD} : \E f \in Files : OwnsHead(q, f)}
(* The only file that differs belongs to an attempt based on HEAD, with its
   bytes before or after. *)
PendingWrite(q, f) == /\ ChangedFiles = {f}
                      /\ q[f].status = "running"
                      /\ AttemptCommitBase(q[f].att) = HEAD
                      /\ work[f] \in {q[f].att.input, q[f].att.output}
TreeExplained(q) == Clean \/ \E f \in Files : PendingWrite(q, f)

(* recoverPendingWrite: the branch and the worktree are accounted for before
   reset --hard and clean, which a clean worktree does not need. *)
RecoverTree ==
    /\ op.stage = "tree"
    /\ \/ /\ HistoryExplained(mem) /\ TreeExplained(mem) /\ ~ run.cancelled
          /\ GoOn(IF Clean THEN "mark" ELSE "reset")
          /\ UNCHANGED <<run, wk, env>>
       \/ /\ ~ (HistoryExplained(mem) /\ TreeExplained(mem))
          /\ EndOp /\ UNCHANGED env
       \/ Fails
    /\ UNCHANGED <<mem, disk, branch, work>>
ResetTree ==
    /\ op.stage = "reset"
    /\ \/ /\ ~ run.cancelled
          /\ work' = HeadTree
          /\ GoOn("mark") /\ UNCHANGED <<run, wk, env>>
       \/ Fails /\ (UNCHANGED work \/ work' = HeadTree)
    /\ UNCHANGED <<mem, disk, branch>>

(* What recover makes of a task it finds running. *)
MarkedDone(t) ==
    LET a == [t.att EXCEPT !.commit = HEAD,
                           !.outcome = IF t.att.partial THEN "needs_human" ELSE "done"]
    IN  [t EXCEPT !.att = a, !.status = a.outcome,
                  !.commits = @ \cup {HEAD}, !.adopted = a.output]
MarkedInterrupted(t) == [t EXCEPT !.att.outcome = "interrupted",
                                  !.status = "needs_human",
                                  !.resume = IF t.att.repair THEN FALSE ELSE @]
Marked(f) == IF OwnsHead(mem, f) THEN MarkedDone(mem[f])
                                 ELSE MarkedInterrupted(mem[f])
Mark(S) == [f \in Files |-> IF f \in S THEN Marked(f) ELSE mem[f]]

(* The commit found is the one that was validated; the file an interrupted
   attempt read is still the one at HEAD. *)
MayMark(f) == IF OwnsHead(mem, f)
              THEN /\ HEAD - 1 = AttemptCommitBase(mem[f].att)
                   /\ HeadTouches = {f}
                   /\ work[f] = mem[f].att.output
              ELSE mem[f].att.input \in {None, HeadTree[f]}
Settled(q) == AllKnown(q) /\ Clean

(* A refusal or a failure in the middle leaves earlier tasks marked in
   memory only. *)
RecoverTasks ==
    /\ op.stage = "mark"
    /\ \/ /\ \A f \in Running(mem) : MayMark(f)
          /\ Settled(Mark(Running(mem))) /\ ~ run.cancelled
          /\ \E r \in SaveResults :
                 /\ Fault(r)
                 /\ Save(Mark(Running(mem)), r)
                 /\ EndOpIf(r # "ok", IF op.name = "start" THEN "launch" ELSE "retry")
       \/ \E S \in SUBSET Running(mem) :
              /\ \A f \in S : MayMark(f)
              /\ \/ \E f \in Running(mem) \ S : ~ MayMark(f)
                 \/ S = Running(mem) /\ ~ Settled(Mark(S))
              /\ mem' = Mark(S)
              /\ EndOp /\ UNCHANGED <<disk, env>>
       \/ \E S \in SUBSET Running(mem) :
              /\ \A f \in S : MayMark(f)
              /\ Fails /\ mem' = Mark(S) /\ UNCHANGED disk
    /\ UNCHANGED <<branch, work>>

(* Variant: the retried task starts from a new record. *)
RequeuedAnew(t, f) == [NewTask EXCEPT !.resume = TRUE, !.input = work[f]]
(* RetryTasks after recover: the chosen files are queued again, from the
   bytes they hold in the worktree now. *)
Requeued(t, f) == [t EXCEPT !.status = "pending", !.resume = TRUE,
                            !.input = work[f]]
RetryTasks ==
    /\ op.stage = "retry"
    /\ \E r \in SaveResults :
           /\ Fault(r)
           /\ Save([f \in Files |-> IF f \in op.files THEN Requeued(mem[f], f)
                                                      ELSE mem[f]], r)
    /\ EndOp
    /\ UNCHANGED <<branch, work>>

(* runFiles: the snapshot and the accepted head are HEAD, and the targeted
   files that are pending or failed are the jobs. *)
RunFiles ==
    /\ op.stage = "launch"
    /\ \/ /\ ~ run.cancelled
          /\ run' = [run EXCEPT !.ref = HEAD, !.accepted = HEAD,
                                !.jobs = op.files \cap Runnable(mem)]
          /\ GoOn("run") /\ UNCHANGED <<wk, env>>
       \/ Fails
    /\ UNCHANGED <<mem, disk, branch, work>>

(* Variant: the queue of jobs must be drained even after a stop. *)
JobsDone == /\ run.jobs = {}
            /\ \A w \in Workers : wk[w].pc \in {"idle", "exit"}
(* wg.Wait, and the writer saves the queue once more. *)
WorkersDone == \A w \in Workers :
                   \/ wk[w].pc = "exit"
                   \/ wk[w].pc = "idle" /\ (run.cancelled \/ run.jobs = {})
FinishRun ==
    /\ op.stage = "run" /\ WorkersDone
    /\ \E r \in SaveResults : Fault(r) /\ Save(mem, r)
    /\ EndOp
    /\ UNCHANGED <<branch, work>>

-----------------------------------------------------------------------------
(* Somebody edits a file of the worktree with another program. *)
Edit(f) == /\ env.edits < MaxEdits
           /\ work[f] # Foreign
           /\ work' = [work EXCEPT ![f] = Foreign]
           /\ env' = [env EXCEPT !.edits = @ + 1]
           /\ UNCHANGED <<mem, disk, branch, op, run, wk>>

Init == /\ mem = [f \in Files |-> NewTask]
        /\ disk = mem
        /\ branch = <<>>
        /\ work = [f \in Files |-> Baseline]
        /\ op = NoOp
        /\ run = NoRun
        /\ wk = [w \in Workers |-> AtRest]
        /\ env = [faults |-> 0, crashes |-> 0, edits |-> 0]

(* What the program does by itself once it was asked to. *)
Operate ==
    \/ \E f \in Files : CheckDiscard(f) \/ FindDiscard(f)
    \/ RestoreSource \/ CommitDiscard \/ FinishDiscard \/ DiscardsDone
    \/ RecoverTree \/ ResetTree \/ RecoverTasks \/ RetryTasks
    \/ RunFiles \/ FinishRun
Progress == Operate \/ \E w \in Workers : WorkerStep(w)
User == Start \/ Stop \/ Retry \/ Reload \/ Open \/ \E f \in Files : PrepareDiscard(f)
Next == Progress \/ User \/ Crash \/ \E f \in Files : Edit(f)

Spec == Init /\ [][Next]_vars

(* Goroutines are scheduled, closures wait for the writer in FIFO order, and
   Git and the file system return.  A stopped agent returns: its requests run
   under the context.  Nothing bounds how long an agent goes on otherwise. *)
Scheduled == /\ WF_vars(Operate)
             /\ \A w \in Workers : /\ WF_vars(Handle(w))
                                   /\ WF_vars(run.cancelled /\ Answer(w))
StopSpec == Spec /\ Scheduled

-----------------------------------------------------------------------------
(* Properties. *)

(* Every variable keeps the shape of the Go records it stands for. *)
TypeOK ==
    /\ mem \in [Files -> Task] /\ disk \in [Files -> Task]
    /\ branch \in Seq(Commit)
    /\ work \in [Files -> Bytes]
    /\ op \in [name : OpNames, stage : Stages, files : SUBSET Files,
               cur : Files \cup {None}]
    /\ run \in [ref : Nat, accepted : Nat, failure : BOOLEAN,
                cancelled : BOOLEAN, jobs : SUBSET Files]
    /\ wk \in [Workers -> [pc : PCs, file : Files \cup {None}]]
    /\ env \in [faults : Nat, crashes : Nat, edits : Nat]

OwnsDiscard(q, f) == /\ q[f].discard.state = "prepared"
                     /\ HeadNames("discard", f, q[f].discard.num)
                     /\ HEAD - 1 = q[f].discard.base
InFlight(q, f) == OwnsHead(q, f) \/ OwnsDiscard(q, f)

(* Whatever crashes or fails, the queue on disk alone accounts for every
   commit of the private branch: it records it, or it is HEAD and the journal
   of an attempt or of a discard says whose it is.  recover() and
   validateDiscardHistory refuse the workspace otherwise. *)
LedgerComplete ==
    \A n \in 1..HEAD : \/ n \in Known(disk)
                       \/ n = HEAD /\ \E f \in Files : InFlight(disk, f)

(* What the queue calls the adopted content of a file is what the branch
   holds, unless the newest commit of that file is still being recorded, and
   a file adopted in part is not reported as done, also when its commit was
   recovered after a crash.  Results, discard and publication are computed
   from it. *)
AdoptedIsHead ==
    /\ \A q \in {mem, disk} : \A f \in Files :
         \/ q[f].adopted \in {None, HeadTree[f]}
         \/ InFlight(q, f)
    /\ \A f \in Files : LET a == disk[f].att IN
         a.partial /\ a.commit # None => disk[f].status # "done"

(* No attempt and no discard is committed twice: a retry after a commit whose
   outcome was unknown must find it instead of repeating it. *)
CommittedOnce ==
    \A m, n \in 1..HEAD : \/ m = n
                          \/ branch[m].kind # branch[n].kind
                          \/ branch[m].file # branch[n].file
                          \/ branch[m].num # branch[n].num

(* Nobody but the program touched the worktree: recover() accepts what any
   crash, stop or failure left behind. *)
RecoveryAccepts ==
    env.edits = 0 =>
        /\ op.stage = "tree" => HistoryExplained(mem) /\ TreeExplained(mem)
        /\ op.stage = "mark" => /\ \A f \in Running(mem) : MayMark(f)
                                /\ Settled(Mark(Running(mem)))

(* A commit the queue once recorded stays recorded, through reloads, crashes
   and failed saves. *)
NothingForgotten == [][Known(disk) \subseteq Known(disk')]_vars

(* The program looked at f and is about to overwrite it: WriteFile after the
   digest check (runner.go:425), git restore (parallel_recovery.go:43), the
   session base put back (discard_changes.go:349), reset --hard and clean. *)
Overwriting(f) ==
    \/ \E w \in Workers : /\ wk[w].pc \in {"write", "restore", "undo"}
                          /\ wk[w].file = f
    \/ op.stage = "drestore" /\ op.cur = f
    \/ op.stage = "reset"
(* Bytes somebody else left uncommitted stop the program, which looks before
   each overwrite (docs/design.md:264): no adoption, rollback, discard or
   recovery starts to overwrite a file that holds them, and they stay there.
   Only an edit that comes between the look and the overwrite is lost. *)
ForeignEditsSurvive ==
    [][\A f \in Files : work[f] = Foreign /\ HeadTree[f] # Foreign /\ ~ Overwriting(f)
                            => work'[f] = Foreign /\ ~ Overwriting(f)']_vars

(* A discard that was journaled can be completed: its commit is HEAD, or HEAD
   is still the commit it was prepared on (docs/design.md:262). *)
PreparedDiscardRecoverable ==
    \A f \in Prepared(disk) : disk[f].discard.base = HEAD \/ OwnsDiscard(disk, f)

(* The branch and the queue file implement Ledger: commits are made one at a
   time, from a journaled change, when all earlier ones are recorded. *)
ChangeOf(kind, f, num, bytes) ==
    [kind |-> kind, file |-> f, num |-> num, bytes |-> bytes]
Change == [kind : {"attempt", "discard"}, file : Files, num : Nat, bytes : Digest]
Log == [n \in 1..HEAD |-> ChangeOf(branch[n].kind, branch[n].file, branch[n].num,
                                   branch[n].tree[branch[n].file])]
Intents == {ChangeOf("attempt", f, disk[f].att.num, disk[f].att.output) :
                f \in {g \in Files : Validated(disk[g])}}
           \cup {ChangeOf("discard", f, disk[f].discard.num, Baseline) :
                f \in Prepared(disk)}
L == INSTANCE Ledger WITH log <- Log, recorded <- Known(disk), intents <- Intents
LedgerSpec == L!LSpec

(* A stopped run ends although the agent never answers by itself: the workers
   leave, the closures drain, the queue is saved once more. *)
StopDrains == run.cancelled ~> op.name # "start"
(* Every operation returns, a run only if its agents answer in the end: no
   wait on the writer, on a job or on a prepared discard lasts forever. *)
OperationsEnd ==
    (\A w \in Workers : WF_vars(Answer(w))) =>
        \A n \in {"discard", "start", "retry"} : op.name = n ~> op.name # n
=============================================================================
