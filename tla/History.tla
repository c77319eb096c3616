------------------------------ MODULE History ------------------------------
(***************************************************************************)
(* The records of runs: engine/execution_history.go, with the steps of     *)
(* runner.go, git.go and service.go that change what a record is made of.  *)
(*                                                                         *)
(* A run's record is a snapshot beside the queue.  It is rewritten with    *)
(* every save of the queue, completed and frozen when the run ends, and    *)
(* completed by the next process when the run was cut off.  Two books      *)
(* exist: the usage in the queue over all runs, and the usage charged to   *)
(* each record, which is the growth of the first during the run.  A        *)
(* resumed attempt keeps its id and overwrites its artifacts, so a         *)
(* finished run owns copies of what it showed.                             *)
(*                                                                         *)
(* Abstractions.  Usage is a number of turns.  The content of an attempt's *)
(* artifacts is the number of times they were written.  What a record      *)
(* shows while its run is under way is not kept: it is read from memory,   *)
(* and taken from the queue again after a crash.  The branch belongs to    *)
(* Execution, what a turn leads to to RepairLoop.                          *)
(***************************************************************************)
EXTENDS Naturals, Sequences, FiniteSets

CONSTANTS Files,        \* files in the queue
          MaxRuns,      \* bound: runs
          MaxAttempts,  \* bound: attempts at a file
          MaxTurns,     \* bound: turns spent in all
          MaxWrites,    \* bound: versions of an attempt's artifacts
          MaxFaults,    \* bound: failing saves
          MaxCrashes    \* bound: process ends

ASSUME FilesAssumption == IsFiniteSet(Files)
ASSUME BoundAssumption ==
    {MaxRuns, MaxAttempts, MaxTurns, MaxWrites, MaxFaults, MaxCrashes}
      \subseteq Nat

VARIABLES mem,    \* the process: where it is, the queue in memory, its run
          queue,  \* the queue on disk
          side,   \* beside the queue: checkpoints and artifacts of attempts
          rec,    \* the record of each run: snapshot.json and summary.json
          evid,   \* the copies of artifacts that each record owns
          log     \* history and bounds

vars == <<mem, queue, side, rec, evid, log>>

-----------------------------------------------------------------------------
(* Types. *)
NoRun == 0
Runs == 1 .. MaxRuns
Ids == Files \X (1 .. MaxAttempts)
Attempt == [exec : Runs, path : BOOLEAN, usage : Nat,
            outcome : {"open", "done", "unfinished"}]
Task == [status : {"pending", "running", "failed", "held", "done"},
         resume : BOOLEAN, history : Seq(Attempt)]
NewTask == [status |-> "pending", resume |-> FALSE, history |-> <<>>]

(* A run ends by itself, by the user or with an error, or the next process
   finds that it was cut off: "stopped" too, with a message of its own. *)
Final == {"completed", "stopped", "failed"}
ActiveRun == [id : {NoRun} \cup Runs, status : {"running"} \cup Final,
              start : Nat]
NoActive == [id |-> NoRun, status |-> "running", start |-> 0]
Process == [pc : {"closed", "load", "idle", "retry", "begun", "files",
                  "archive"},
            tasks : [Files -> Task], active : ActiveRun,
            live : SUBSET Files, err : BOOLEAN]
Closed == [pc |-> "closed", tasks |-> [f \in Files |-> NewTask],
           active |-> NoActive, live |-> {}, err |-> FALSE]

(* Checkpoints count the turns of the file, and those of the attempts
   before.  Zero stands for no checkpoint as well. *)
Point == [prior : Nat, total : Nat]
NoPoint == [prior |-> 0, total |-> 0]

(* "empty": the directory was made and nothing written into it. *)
Record == [status : {"none", "empty", "running"} \cup Final,
           summary : {"none", "running"} \cup Final, start : Nat,
           usage : Nat, ready : BOOLEAN, owner : [Ids -> {NoRun} \cup Runs]]
NoRecord == [status |-> "none", summary |-> "none", start |-> 0, usage |-> 0,
             ready |-> FALSE, owner |-> [i \in Ids |-> NoRun]]

Init == /\ mem = [Closed EXCEPT !.pc = "idle"]
        /\ queue = Closed.tasks
        /\ side = [point |-> [i \in Ids |-> NoPoint],
                   version |-> [i \in Ids |-> 0]]
        /\ rec = [r \in Runs |-> NoRecord]
        /\ evid = [r \in Runs |-> [i \in Ids |-> 0]]
        /\ log = [spent |-> [r \in Runs |-> 0], late |-> [r \in Runs |-> 0],
                  shown |-> [r \in Runs |-> [i \in Ids |-> 0]],
                  mixed |-> {}, faults |-> 0, crashes |-> 0]

-----------------------------------------------------------------------------
(* The books. *)
Last(t) == t.history[Len(t.history)]
LastId(f, tasks) == <<f, Len(tasks[f].history)>>
IdsIn(tasks) == {i \in Ids : i[2] <= Len(tasks[i[1]].history)}
At(tasks, i) == tasks[i[1]].history[i[2]]
(* sumUsage and recountLocked: every turn that is recorded, once. *)
TurnsOf(history) ==
    UNION {{n} \X (1 .. history[n].usage) : n \in DOMAIN history}
SumUsage(history) == Cardinality(TurnsOf(history))
Total(tasks) ==
    Cardinality(UNION {{f} \X TurnsOf(tasks[f].history) : f \in Files})
SpentInAll == Cardinality(UNION {{r} \X (1 .. log.spent[r]) : r \in Runs})
Earlier(history) == SubSeq(history, 1, Len(history) - 1)
Since(n, prior) == IF n > prior THEN n - prior ELSE 0
Larger(m, n) == IF m > n THEN m ELSE n
(* What a checkpoint says of the attempt it belongs to. *)
Recorded(i) == Since(side.point[i].total, side.point[i].prior)

-----------------------------------------------------------------------------
(* Saves.  A save of several files stops after some of them when one cannot
   be written, which the process survives, or when the process ends. *)
Survive(next, l) == /\ log.faults < MaxFaults
                    /\ mem' = next
                    /\ log' = [l EXCEPT !.faults = @ + 1]

(* What the artifacts are when a run is over. *)
Seen(l, r) == IF r = NoRun THEN l ELSE [l EXCEPT !.shown[r] = side'.version]
UnderWay == IF mem.active.status = "running" THEN mem.active.id ELSE NoRun
Die(l, r) == /\ log.crashes < MaxCrashes
             /\ mem' = Closed
             /\ log' = [Seen(l, r) EXCEPT !.crashes = @ + 1]

(* captureExecution without freezing: the record of a run under way, or of a
   finished one that owns no copies. *)
Snapshot(active, tasks) ==
    [NoRecord EXCEPT
       !.status = active.status, !.start = active.start,
       !.usage = IF active.status = "running" THEN 0
                 ELSE Since(Total(tasks), active.start)]
Written(record, old) == [record EXCEPT !.summary = old.summary]
Summarised(record) == [record EXCEPT !.summary = record.status]

(* persist: the queue, then the snapshot and the summary of the active run. *)
Saved(t, steps) ==
    LET r == mem.active.id
        s == Snapshot(mem.active, t)
    IN /\ queue' = IF steps > 0 THEN t ELSE queue
       /\ rec' = IF r = NoRun \/ steps < 2 THEN rec
                 ELSE [rec EXCEPT ![r] = IF steps = 2 THEN Written(s, @)
                                         ELSE Summarised(s)]
Persist(t, l, next, failed) ==
    \/ Saved(t, 3) /\ mem' = next /\ log' = l
    \/ \E steps \in 0 .. 2 :
         Saved(t, steps) /\ (Survive(failed, l) \/ Die(l, UnderWay))

-----------------------------------------------------------------------------
(* Completing a record, at the end of its run or by the next process. *)

(* freezeExecutionEvidence: an attempt that another run made or resumed last
   is read from that run's copy, if there is one. *)
Owner(r, tasks, i) ==
    LET e == At(tasks, i).exec
    IN IF e # r /\ evid[e][i] # 0 THEN e ELSE r
Owned(r, tasks) == {i \in IdsIn(tasks) : Owner(r, tasks, i) = r}
(* Zero is no copy, n + 1 a copy of version n. *)
Copied(r, ids) ==
    [evid EXCEPT ![r] = [i \in Ids |-> IF i \in ids
                                       THEN side.version[i] + 1 ELSE @[i]]]
Frozen(r, status, start, tasks) ==
    [NoRecord EXCEPT
       !.status = status, !.start = start, !.ready = TRUE,
       !.usage = Since(Total(tasks), start),
       !.owner = [i \in Ids |-> IF i \in IdsIn(tasks)
                                THEN Owner(r, tasks, i) ELSE NoRun]]

(* saveExecutionSnapshot(true): the copies one by one, the snapshot, the
   summary.  Some of it is done when it fails or the process ends. *)
Complete(r, record, ids) ==
    /\ evid' = Copied(r, ids)
    /\ rec' = [rec EXCEPT ![r] = Summarised(record)]
Partly(r, record, ids) ==
    \/ \E part \in SUBSET ids : evid' = Copied(r, part) /\ rec' = rec
    \/ /\ evid' = Copied(r, ids)
       /\ rec' = [rec EXCEPT ![r] = Written(record, @)]

(* finishExecution once the status is set, and flushFinishedExecution, with
   which every later operation begins: until the record is saved nothing
   else may change the queue or the artifacts. *)
Flushed == mem.active.id = NoRun
Archive ==
    LET r == mem.active.id
        record == Frozen(r, mem.active.status, mem.active.start, mem.tasks)
        ids == Owned(r, mem.tasks)
        idle == [mem EXCEPT !.pc = "idle"]
    IN /\ mem.pc = "archive" \/ (mem.pc = "idle" /\ r # NoRun)
       /\ \/ /\ Complete(r, record, ids)
             /\ mem' = [idle EXCEPT !.active = NoActive]
             /\ UNCHANGED log
          \/ Partly(r, record, ids) /\ (Survive(idle, log) \/ Die(log, NoRun))
       /\ UNCHANGED <<queue, side>>

-----------------------------------------------------------------------------
(* The next process: load and loadExecutionRuns. *)
Open == /\ mem.pc \in {"closed", "idle"} /\ Flushed
        /\ mem' = [Closed EXCEPT !.pc = "load", !.tasks = queue]
        /\ UNCHANGED <<queue, side, rec, evid, log>>

(* Which records are listed as running, and which of them really are: the
   snapshot is published before the summary. *)
Listed(record) == IF record.summary # "none" THEN record.summary
                  ELSE record.status
(* Variant: the summary is taken at its word. *)
ListedAsRunning(record) == Listed(record) = "running"
Unsettled(record) == Listed(record) = "running" /\ record.status = "running"
UnsettledIn(records) == {r \in Runs : Unsettled(records[r])}

(* Variant: the queue is taken at its word. *)
AsQueued(r, tasks) == tasks
(* recoverExecutionAccounting: the checkpoints of the run's attempts are
   newer than the queue. *)
Accounted(r, tasks) ==
    [f \in Files |-> [tasks[f] EXCEPT !.history = [n \in DOMAIN @ |->
       IF @[n].exec = r /\ @[n].path
       THEN [@[n] EXCEPT !.usage = Recorded(<<f, n>>)] ELSE @[n]]]]

Idle == [mem EXCEPT !.pc = "idle"]
(* The queue is loaded although its records are not: the workspace can be
   edited, and what is still unsettled is settled with later attempts. *)
WithLoadError(records) ==
    [log EXCEPT !.mixed = @ \cup UnsettledIn(records)]
Settle(r) ==
    LET tasks == Accounted(r, mem.tasks)
        record == Frozen(r, "stopped", rec[r].start, tasks)
        ids == Owned(r, tasks)
    IN /\ mem.pc = "load" /\ Unsettled(rec[r])
       /\ \/ Complete(r, record, ids) /\ UNCHANGED <<mem, log>>
          \/ /\ Partly(r, record, ids)
             /\ Survive(Idle, WithLoadError(rec')) \/ Die(log, NoRun)
       /\ UNCHANGED <<queue, side>>

LoadDone ==
    /\ mem.pc = "load"
    /\ UnsettledIn(rec) = {} /\ \A r \in Runs : rec[r].status # "empty"
    /\ mem' = Idle
    /\ UNCHANGED <<queue, side, rec, evid, log>>
(* A directory without a snapshot makes every load fail, in the middle of
   the records. *)
LoadFails ==
    /\ mem.pc = "load" /\ \E r \in Runs : rec[r].status = "empty"
    /\ mem' = Idle
    /\ log' = WithLoadError(rec)
    /\ UNCHANGED <<queue, side, rec, evid>>

-----------------------------------------------------------------------------
(* A run: Start, run, and the attempts of its workers. *)

(* beginExecution: the record is made before anything else.  When it cannot
   be saved the run does not start, but what was written of it stays. *)
Fresh == {r \in Runs : \A n \in Runs : rec[n].status = "none" <=> n >= r}
Begin ==
    \E r \in Fresh :
      LET active == [id |-> r, status |-> "running",
                     start |-> Total(mem.tasks)]
          s == Snapshot(active, mem.tasks)
          Made(record) == rec' = [rec EXCEPT ![r] = record]
      IN /\ UNCHANGED <<queue, side, evid>>
         /\ mem.pc = "idle" /\ Flushed
         /\ \E f \in Files :
              mem.tasks[f].status \in {"pending", "failed", "running"}
         /\ \/ /\ Made(Summarised(s))
               /\ mem' = [mem EXCEPT !.pc = "begun", !.active = active]
               /\ UNCHANGED log
            \/ /\ \/ UNCHANGED rec
                  \/ Made([NoRecord EXCEPT !.status = "empty"])
                  \/ Made(Written(s, rec[r]))
               /\ \/ Survive(mem, WithLoadError(rec'))
                  \/ Die(log, r)

(* How an attempt ends, and what becomes of its file. *)
Endings == {<<"done", "done">>, <<"done", "held">>,
            <<"unfinished", "held">>, <<"unfinished", "failed">>}
Ended(t, ending, usage) ==
    [t EXCEPT !.status = ending[2],
              !.history[Len(t.history)] = [@ EXCEPT !.outcome = ending[1],
                                                    !.usage = usage]]

(* recover: a file that is marked as running was cut off.  Its attempt is
   recognised as committed, or interrupted, and gets the usage of its
   checkpoint. *)
Running(tasks) == {f \in Files : tasks[f].status = "running"}
KnownUsage(tasks, f) == IF Last(tasks[f]).path
                        THEN Recorded(LastId(f, tasks))
                        ELSE Last(tasks[f]).usage
Recovered(tasks, ending) ==
    [f \in Files |-> IF f \in Running(tasks)
                     THEN Ended(tasks[f], ending[f], KnownUsage(tasks, f))
                     ELSE tasks[f]]
Recoveries(tasks) ==
    {Recovered(tasks, e) :
       e \in {e \in [Running(tasks) -> Endings \ {<<"unfinished", "failed">>}] :
                \A f \in DOMAIN e :
                  e[f][1] = "done" => Last(tasks[f]).path}}

(* What recovery adds during a run was spent in the run that was cut off. *)
Late(l, tasks) == [l EXCEPT !.late[mem.active.id] =
                              @ + Since(Total(tasks), Total(mem.tasks))]
EndsAs(status) == [mem EXCEPT !.pc = "archive", !.active.status = status]
RecoverRun ==
    /\ UNCHANGED <<side, evid>>
    /\ mem.pc = "begun"
    /\ \E t \in Recoveries(mem.tasks) :
         Persist(t, Late(Seen(log, mem.active.id), t),
                 [mem EXCEPT !.pc = "files", !.tasks = t],
                 [EndsAs("failed") EXCEPT !.tasks = t])

(* The rules or the worktree cannot be made ready, or Stop comes first. *)
PrepareFails ==
    /\ UNCHANGED <<queue, side, rec, evid>>
    /\ mem.pc = "begun"
    /\ \E status \in {"stopped", "failed"} : mem' = EndsAs(status)
    /\ log' = Seen(log, mem.active.id)

(* unfinishedRepair: what a retry may go on with, under the same id. *)
CanResume(t) == /\ t.resume /\ Len(t.history) > 0
                /\ Last(t).path /\ Last(t).outcome # "done"
(* Variant: the resumed attempt stays with the run that made it. *)
ResumedAsBefore(t, r) ==
    [t EXCEPT !.status = "running", !.resume = FALSE,
              !.history[Len(t.history)].outcome = "open"]
Resumed(t, r) == [t EXCEPT !.status = "running", !.resume = FALSE,
                           !.history[Len(t.history)] =
                             [@ EXCEPT !.exec = r, !.outcome = "open"]]
Added(t, r) ==
    [t EXCEPT !.status = "running", !.resume = FALSE,
              !.history = Append(@, [exec |-> r, path |-> FALSE, usage |-> 0,
                                     outcome |-> "open"])]

(* processOne begins an attempt: in memory, then in the queue.  A worker that
   fails ends the run when the others are done; its file stays running. *)
With(f, t) == [mem.tasks EXCEPT ![f] = t]
Broken(f, tasks) == [mem EXCEPT !.tasks = tasks, !.err = TRUE,
                                !.live = @ \ {f}]
BeginAttempt(f) ==
    /\ UNCHANGED <<side, evid>>
    /\ mem.pc = "files" /\ ~mem.err /\ f \notin mem.live
    /\ mem.tasks[f].status \in {"pending", "failed"}
    /\ \E t \in (IF CanResume(mem.tasks[f])
                 THEN {Resumed(mem.tasks[f], mem.active.id)} ELSE {})
               \cup (IF Len(mem.tasks[f].history) < MaxAttempts
                     THEN {Added(mem.tasks[f], mem.active.id)} ELSE {}) :
         LET tasks == With(f, t)
         IN Persist(tasks, log,
                    [mem EXCEPT !.tasks = tasks, !.live = @ \cup {f}],
                    Broken(f, tasks))

(* The source, a candidate and its difference are written in place, and the
   queue is saved after each (saveTask). *)
Stage(f) ==
    /\ f \in mem.live
    /\ side.version[LastId(f, mem.tasks)] < MaxWrites
    /\ side' = [side EXCEPT !.version[LastId(f, mem.tasks)] = @ + 1]
    /\ Persist(mem.tasks, log, mem, Broken(f, mem.tasks))
    /\ UNCHANGED evid

(* The first persistRepair of a new attempt: its checkpoint counts all turns
   known so far, then its path goes into the queue.  A resumed attempt has
   both. *)
PriorTotal(f, history) ==
    LET known == {n \in DOMAIN Earlier(history) : history[n].path}
    IN IF known = {} THEN 0
       ELSE side.point[<<f, CHOOSE n \in known : \A k \in known : k <= n>>].total
Attach(f) ==
    /\ f \in mem.live /\ ~Last(mem.tasks[f]).path
    /\ LET h == mem.tasks[f].history
           prior == SumUsage(Earlier(h))
           total == Larger(PriorTotal(f, h), SumUsage(h))
           tasks == With(f, [mem.tasks[f] EXCEPT
                               !.history[Len(h)] =
                                 [@ EXCEPT !.path = TRUE,
                                           !.usage = Since(total, prior)]])
       IN \/ /\ side' = [side EXCEPT !.point[LastId(f, mem.tasks)] =
                                       [prior |-> prior, total |-> total]]
             /\ Persist(tasks, log, [mem EXCEPT !.tasks = tasks],
                        Broken(f, tasks))
          \/ /\ Survive(Broken(f, mem.tasks), log)
             /\ UNCHANGED <<side, queue, rec>>
    /\ UNCHANGED evid

(* A request: its checkpoint is saved, the queue is not. *)
Spend(f) ==
    /\ f \in mem.live /\ Last(mem.tasks[f]).path
    /\ SpentInAll < MaxTurns
    /\ LET i == LastId(f, mem.tasks) IN
       /\ side' = [side EXCEPT !.point[i].total = @ + 1]
       /\ mem' = [mem EXCEPT !.tasks[f].history[i[2]].usage =
                     Since(side.point[i].total + 1, side.point[i].prior)]
    /\ log' = [log EXCEPT !.spent[mem.active.id] = @ + 1]
    /\ UNCHANGED <<queue, rec, evid>>

(* finishNow *)
FinishAttempt(f) ==
    /\ UNCHANGED <<side, evid>>
    /\ f \in mem.live
    /\ \E ending \in Endings :
         LET t == mem.tasks[f]
             tasks == With(f, Ended(t, ending, Last(t).usage))
         IN Persist(tasks, log,
                    [mem EXCEPT !.tasks = tasks, !.live = @ \ {f}],
                    Broken(f, tasks))

(* runFiles saves once more when its workers are done, and finishExecution
   sets how the run ended. *)
EndRun ==
    /\ UNCHANGED <<side, evid>>
    /\ mem.pc = "files" /\ mem.live = {}
    /\ \E status \in {"stopped", IF mem.err THEN "failed" ELSE "completed"} :
         Persist(mem.tasks, Seen(log, mem.active.id),
                 [EndsAs(status) EXCEPT !.err = FALSE],
                 [EndsAs(IF status = "completed" THEN "failed" ELSE status)
                    EXCEPT !.err = FALSE])

-----------------------------------------------------------------------------
(* Between runs. *)

(* RetryTasks: recovery and its save, then the file is pending again and may
   be resumed. *)
Retry == /\ UNCHANGED <<side, evid>>
         /\ mem.pc = "idle" /\ Flushed
         /\ \E t \in Recoveries(mem.tasks) :
              Persist(t, log, [mem EXCEPT !.pc = "retry", !.tasks = t],
                      [mem EXCEPT !.tasks = t])
Retried(f) ==
    /\ UNCHANGED <<side, evid>>
    /\ mem.pc = "retry"
    /\ LET tasks == With(f, [mem.tasks[f] EXCEPT !.status = "pending",
                                                 !.resume = TRUE])
           idle == [Idle EXCEPT !.tasks = tasks]
       IN Persist(tasks, log, idle, idle)

(* The window is closed between runs, or the process ends. *)
Close == /\ mem.pc = "idle"
         /\ mem' = Closed
         /\ UNCHANGED <<queue, side, rec, evid, log>>
Crash == /\ UNCHANGED <<queue, side, rec, evid>>
         /\ mem.pc # "closed"
         /\ Die(log, UnderWay)

Next == \/ Open \/ (\E r \in Runs : Settle(r)) \/ LoadDone \/ LoadFails
        \/ Begin \/ RecoverRun \/ PrepareFails
        \/ \E f \in Files : \/ BeginAttempt(f) \/ Stage(f)
                             \/ Attach(f) \/ Spend(f)
                             \/ FinishAttempt(f)
        \/ EndRun \/ Archive
        \/ Retry \/ (\E f \in Files : Retried(f))
        \/ Close \/ Crash

Spec == Init /\ [][Next]_vars

-----------------------------------------------------------------------------
(* Properties. *)
TypeOK ==
    /\ mem \in Process /\ queue \in [Files -> Task]
    /\ side \in [point : [Ids -> Point], version : [Ids -> Nat]]
    /\ rec \in [Runs -> Record] /\ evid \in [Runs -> [Ids -> Nat]]
    /\ log \in [spent : [Runs -> Nat], late : [Runs -> Nat],
                shown : [Runs -> [Ids -> Nat]], mixed : SUBSET Runs,
                faults : 0 .. MaxFaults, crashes : 0 .. MaxCrashes]

(* The record of a finished run never changes again, and neither do the
   copies it owns, whatever is retried, resumed, interrupted or run later
   (execution_history.go:17). *)
Finished(r) == rec[r].status \in Final /\ rec[r].ready
FinishedKept ==
    [][\A r \in Runs : Finished(r) =>
          /\ rec'[r] = [rec[r] EXCEPT !.summary = rec'[r].summary]
          /\ evid'[r] = evid[r]]_vars

(* What a finished record shows of an attempt is what there was when its run
   ended, although the attempt may have been resumed since.  Copies of a run
   that was settled late may have been replaced. *)
EvidenceOfTheRun ==
    \A r \in Runs \ log.mixed : Finished(r) =>
      \A i \in Ids : rec[r].owner[i] \in Runs \ log.mixed =>
        evid[rec[r].owner[i]][i] = log.shown[r][i] + 1

(* A finished record is charged with the turns of its run, saved in the
   queue or not; a run that had to recover an earlier one is charged with
   what that one left unsaved as well, and never with less. *)
ChargedToItsRun ==
    \A r \in Runs \ log.mixed : Finished(r) =>
      rec[r].usage \in {log.spent[r], log.spent[r] + log.late[r]}
TotalKept ==
    mem.pc = "files" /\ Running(mem.tasks) = {} =>
      Total(mem.tasks) = SpentInAll
(* Both books agree with what was spent: each record with its run, and, when
   no file is under way, the queue with all runs together, after any number
   of crashes, retries and resumed attempts. *)
BooksAgree == ChargedToItsRun /\ TotalKept
=============================================================================
