------------------------------ MODULE Solution ------------------------------
(***************************************************************************)
(* Solution mode: engine/solution.go and solution_batch.go around          *)
(* agent/solution.go.  The selected solutions are taken one after another: *)
(* built, edited by a language model, reviewed by another conversation,    *)
(* built again, and committed to the private branch together with every    *)
(* file they touch.                                                        *)
(*                                                                         *)
(* Whether a tree of files builds is any fact about the files a solution   *)
(* uses; editor and reviewer answer anything.  A save, a build, a git call *)
(* or a request may fail, and the process may die between any two steps.   *)
(*                                                                         *)
(* Abstractions.  A tree gives each file its content.  A session is one    *)
(* request.  An adoption makes one attempt per file, the first of which    *)
(* carries the usage and the changed ones the commit: here one entry.      *)
(* The attempts of all files are one sequence.  Rules and what the scratch *)
(* copy is checked for are left out, and nobody else moves the branch.     *)
(***************************************************************************)
EXTENDS Naturals, Sequences, FiniteSets

CONSTANTS Order,         \* the selected solutions, in their order
          Files,         \* the files of all of them
          Contents,      \* what a file may hold
          Blank,         \* what every file holds at first
          Uses,          \* the files each solution is made of
          None,          \* nothing
          MaxIterations, \* repairs per solution; 0 is without limit
          MaxStarts,     \* bound: executions
          MaxSent,       \* bound: requests
          MaxFaults,     \* bound: failing saves, git calls, requests
          MaxCrashes     \* bound: process ends

Places == DOMAIN Order
Solutions == {Order[i] : i \in Places}
Trees == [Files -> Contents]

ASSUME SolutionAssumption == /\ Order \in Seq(Solutions) /\ Order # <<>>
                             /\ Uses \in [Solutions -> SUBSET Files]
                             /\ Blank \in Contents
ASSUME BoundAssumption == {MaxIterations, MaxStarts, MaxSent, MaxFaults,
                            MaxCrashes} \subseteq Nat

VARIABLES compiles, \* which trees build, for each solution
          branch,   \* the commits of the private branch
          journal,  \* the adoption on disk
          disk,     \* the queue and the session on disk
          mem,      \* the same in memory
          call,     \* the call under way
          log       \* history: bills, approvals, bounds

vars == <<compiles, branch, journal, disk, mem, call, log>>

-----------------------------------------------------------------------------
(* Types. *)
Ids == (1 .. MaxStarts) \X Places
Commit == [run : Ids, tree : Trees]
Entry == [run : Ids, adopted : BOOLEAN, commit : BOOLEAN, usage : Nat,
          uncertain : BOOLEAN]
SolutionRun == [status : {"pending", "running", "completed", "needs_human",
                          "failed", "stopped", "not_run"},
                usage : Nat, pending : BOOLEAN, uncertain : BOOLEAN]
SolutionBatch == [start : 1 .. MaxStarts, current : Places,
                  status : {"running", "completed", "needs_human", "failed",
                            "stopped"},
                  runs : [Places -> SolutionRun]]
SolutionAdoption == [base : Nat, commit : Commit, tasks : Seq(Entry),
                     batch : SolutionBatch]
State == [tasks : Seq(Entry), batch : SolutionBatch \cup {None}]
ASSUME RecordAssumption == None \notin SolutionBatch \cup SolutionAdoption
Errors == {"none", "hold", "error"}
Call == [pc : {"down", "idle", "restore", "replay", "scan", "batch", "next",
               "inner", "build", "edit", "proposed", "review", "judged",
               "adopt", "journal", "merge", "record", "leave", "end"},
         then : {"idle", "scan"}, i : 1 .. Len(Order) + 1, iter : Nat,
         tree : Trees, cand : Trees, seen : SUBSET Trees,
         rejected : SUBSET Trees, err : Errors, held : BOOLEAN,
         stop : BOOLEAN]

Original == [f \in Files |-> Blank]
Idle == [pc |-> "idle", then |-> "idle", i |-> 1, iter |-> 0,
         tree |-> Original, cand |-> Original, seen |-> {}, rejected |-> {},
         err |-> "none", held |-> FALSE, stop |-> FALSE]
PendingRun == [status |-> "pending", usage |-> 0, pending |-> FALSE,
               uncertain |-> FALSE]

(* A build sees only the files the solution uses. *)
SameInputs(s, t, u) == \A f \in Uses[s] : t[f] = u[f]
Init == /\ compiles \in [Solutions -> SUBSET Trees]
        /\ \A s \in Solutions, t, u \in Trees :
              SameInputs(s, t, u) => (t \in compiles[s] <=> u \in compiles[s])
        /\ branch = <<>>
        /\ journal = None
        /\ disk = [tasks |-> <<>>, batch |-> None]
        /\ mem = disk
        /\ call = Idle
        /\ log = [billed |-> [id \in Ids |-> 0], approved |-> {},
                  starts |-> 0, sent |-> 0, faults |-> 0, crashes |-> 0]

Builds(s, tree) == tree \in compiles[s]

At(pcs) == call.pc \in pcs
Goto(pc) == [call EXCEPT !.pc = pc]
Leaving(err) == [call EXCEPT !.pc = "leave", !.err = err]
Ending(err) == [call EXCEPT !.pc = "end", !.err = err]
MayFail == log.faults < MaxFaults
Faulted(l) == [l EXCEPT !.faults = @ + 1]

HeadTree == IF branch = <<>> THEN Original ELSE branch[Len(branch)].tree
BranchRuns == {branch[k].run : k \in DOMAIN branch}
Entries(tasks) == {tasks[k] : k \in DOMAIN tasks}
Recorded(tasks) == {e.run : e \in Entries(tasks)}
Known(tasks) == {e.run : e \in {e \in Entries(tasks) : e.commit}}

(* persist: m is in memory; the queue is written, then the session, then the
   snapshot of the execution, and each of them may fail. *)
QueueOnly(m) == [disk EXCEPT !.tasks = m.tasks]
Saves(m) == disk' = m
HalfSaves(m) == MayFail /\ disk' \in {disk, QueueOnly(m), m}
Persist(m, next, failed, l) ==
    /\ mem' = m
    /\ \/ Saves(m) /\ call' = next /\ log' = l
       \/ HalfSaves(m) /\ call' = failed /\ log' = Faulted(l)

-----------------------------------------------------------------------------
(* The record of one solution, and what is left of it when it fails. *)
Here == <<mem.batch.start, mem.batch.current>>
Now == mem.batch.runs[mem.batch.current]
WithRun(r) == [mem EXCEPT !.batch.runs[mem.batch.current] = r]
Billed(l) == [l EXCEPT !.billed[Here] = @ + 1]
EntryOf(id, r, adopted, commit) ==
    [run |-> id, adopted |-> adopted, commit |-> commit, usage |-> r.usage,
     uncertain |-> r.uncertain]

(* recordSolutionFailureLocked: one entry per run, whatever it says. *)
FailureEntry(tasks, id, r) == Append(tasks, EntryOf(id, r, FALSE, FALSE))
RecordFailure(tasks, id, r) ==
    IF id \in Recorded(tasks) THEN tasks ELSE FailureEntry(tasks, id, r)
FailedAs(m, status) ==
    LET b == m.batch
        old == b.runs[b.current]
        r == [old EXCEPT !.status = status, !.uncertain = @ \/ old.pending]
    IN  [tasks |-> RecordFailure(m.tasks, <<b.start, b.current>>, r),
         batch |-> [b EXCEPT !.runs[b.current] = r]]

(* finishSolutionBatch.  (Variant: AsItIs closes nothing.) *)
AsItIs(r) == r
Closed(r) == IF r.status \in {"pending", "running"}
             THEN [r EXCEPT !.status = "not_run"] ELSE r
Summary(statuses) ==
    CASE "failed" \in statuses -> "failed"
      [] "failed" \notin statuses /\ statuses \cap {"stopped", "not_run"} # {}
            -> "stopped"
      [] statuses = {"completed"} -> "completed"
      [] OTHER -> "needs_human"
Finished(b, interrupted) ==
    LET runs == [i \in Places |-> Closed(b.runs[i])]
    IN  [b EXCEPT !.runs = runs,
                  !.status = IF interrupted THEN "stopped"
                             ELSE Summary({runs[i].status : i \in Places})]

(* load: what was running has stopped. *)
Interrupted(m) == m.batch # None
                  /\ m.batch.runs[m.batch.current].status = "running"
Loaded(m) ==
    LET n == IF Interrupted(m) THEN FailedAs(m, "stopped") ELSE m
    IN  IF m.batch # None /\ m.batch.status = "running"
        THEN [n EXCEPT !.batch = Finished(n.batch, FALSE)] ELSE n

-----------------------------------------------------------------------------
(* recoverSolutionAdoption: a journal whose commit the queue knows is old.
   (Variant: AnyJournal.) *)
AnyJournal(tasks) == journal # None
Unfinished(tasks) == journal # None /\ journal.commit.run \notin Known(tasks)
Replayed == [tasks |-> journal.tasks, batch |-> Finished(journal.batch, FALSE)]

Forgotten ==
    /\ At({"restore"})
    /\ ~ Unfinished(mem.tasks)
    /\ call' = Goto(call.then)
    /\ UNCHANGED <<compiles, branch, journal, disk, mem, log>>
Landed == branch # <<>> /\ branch[Len(branch)] = journal.commit
FastForward == branch' = Append(branch, journal.commit)
Recover ==
    /\ At({"restore"})
    /\ Unfinished(mem.tasks)
    /\ \/ Len(branch) = journal.base /\ FastForward
       \/ Landed /\ UNCHANGED branch
    /\ call' = Goto("replay")
    /\ UNCHANGED <<compiles, journal, disk, mem, log>>
(* The merge may fail, or have been made all the same. *)
NotRecovered ==
    /\ At({"restore"})
    /\ Unfinished(mem.tasks)
    /\ MayFail
    /\ UNCHANGED branch \/ (Len(branch) = journal.base /\ FastForward)
    /\ call' = Idle
    /\ log' = Faulted(log)
    /\ UNCHANGED <<compiles, journal, disk, mem>>
Replay ==
    /\ At({"replay"})
    /\ Persist(Replayed, Goto(call.then), Idle, log)
    /\ UNCHANGED <<compiles, branch, journal>>

Crash ==
    /\ ~ At({"down"})
    /\ log.crashes < MaxCrashes
    /\ call' = [Idle EXCEPT !.pc = "down"]
    /\ mem' = disk
    /\ LET died == [log EXCEPT !.crashes = @ + 1]
       IN  \/ log' = died
           \/ At({"proposed", "judged"}) /\ log' = Billed(died)
    /\ UNCHANGED <<compiles, branch, journal, disk>>
Open ==
    /\ At({"down"})
    /\ mem' = Loaded(disk)
    /\ call' = [Idle EXCEPT !.pc = "restore"]
    /\ UNCHANGED <<compiles, branch, journal, disk, log>>

-----------------------------------------------------------------------------
(* startSolution and runSolutionBatch. *)
Start ==
    /\ At({"idle"})
    /\ log.starts < MaxStarts
    /\ call' = [Idle EXCEPT !.pc = "restore", !.then = "scan"]
    /\ log' = [log EXCEPT !.starts = @ + 1]
    /\ UNCHANGED <<compiles, branch, journal, disk, mem>>
Scan ==
    /\ At({"scan"})
    /\ Persist(mem, Goto("batch"), Idle, log)
    /\ UNCHANGED <<compiles, branch, journal>>
NewBatch == [start |-> log.starts, current |-> 1, status |-> "running",
             runs |-> [i \in Places |-> PendingRun]]
Batch ==
    /\ At({"batch"})
    /\ Persist([mem EXCEPT !.batch = NewBatch], Goto("next"),
               Ending("error"), log)
    /\ UNCHANGED <<compiles, branch, journal>>

TakeNext ==
    /\ At({"next"})
    /\ ~ call.stop
    /\ call.i \in Places
    /\ Persist([mem EXCEPT !.batch.current = call.i,
                           !.batch.runs[call.i].status = "running"],
               Goto("inner"), Ending("error"), log)
    /\ UNCHANGED <<compiles, branch, journal>>
NoMore ==
    /\ At({"next"})
    /\ call.stop \/ call.i \notin Places
    /\ call' = Ending(IF call.stop THEN "error"
                      ELSE IF call.held THEN "hold" ELSE "none")
    /\ UNCHANGED <<compiles, branch, journal, disk, mem, log>>

(* Only an answer for a human lets the next solution have its turn. *)
Leave ==
    /\ At({"leave"})
    /\ LET status == IF call.stop THEN "stopped"
                     ELSE IF call.err = "hold" THEN "needs_human" ELSE "failed"
           m == IF call.err = "none" THEN mem ELSE FailedAs(mem, status)
           on == [Idle EXCEPT !.pc = "next", !.i = call.i + 1,
                              !.held = call.held \/ call.err = "hold",
                              !.stop = call.stop]
           goesOn == call.err = "none" \/ (call.err = "hold" /\ ~ call.stop)
       IN  Persist(m, IF goesOn THEN on ELSE Ending("error"),
                   Ending("error"), log)
    /\ UNCHANGED <<compiles, branch, journal>>
End ==
    /\ At({"end"})
    /\ call' = Idle
    /\ LET b == Finished(mem.batch, call.stop)
           failed == [mem EXCEPT !.batch = [b EXCEPT !.status = "failed"]]
           m == IF call.err = "error" /\ ~ call.stop THEN failed
                ELSE [mem EXCEPT !.batch = b]
       IN  \/ Saves(m) /\ mem' = m /\ UNCHANGED log
           \/ HalfSaves(m) /\ mem' = failed /\ log' = Faulted(log)
    /\ UNCHANGED <<compiles, branch, journal>>

Working == {"next", "inner", "build", "edit", "proposed", "review", "judged",
            "adopt", "journal", "merge", "record", "leave", "end"}
Stop ==
    /\ At(Working)
    /\ ~ call.stop
    /\ call' = [call EXCEPT !.stop = TRUE]
    /\ UNCHANGED <<compiles, branch, journal, disk, mem, log>>

-----------------------------------------------------------------------------
(* runSolution: what the branch holds is what is built first. *)
Inner ==
    /\ At({"inner"})
    /\ Known(mem.tasks) = BranchRuns
    /\ \/ call' = [Goto("build") EXCEPT !.tree = HeadTree]
       \/ call' = Leaving("hold")  \* not a solution that can be read
    /\ UNCHANGED <<compiles, branch, journal, disk, mem, log>>
(* Git, the build, a save or a check fails, or is cancelled. *)
Fails ==
    /\ At({"inner", "build", "edit", "review", "adopt", "journal"})
    /\ call' = Leaving("error")
    /\ \/ call.stop /\ UNCHANGED log
       \/ MayFail /\ ~ call.stop /\ log' = Faulted(log)
    /\ UNCHANGED <<compiles, branch, journal, disk, mem>>

(* verifyEarlierSolutions.  (Variant: EarlierButOne stops one too early.) *)
Changed == {f \in Files : call.tree[f] # HeadTree[f]}
EarlierButOne(i) ==
    i + 1 < mem.batch.current /\ mem.batch.runs[i].status = "completed"
Earlier(i) == i < mem.batch.current /\ mem.batch.runs[i].status = "completed"
Affected(i) == Earlier(i) /\ Uses[Order[i]] \cap Changed # {}
Built == /\ Builds(Order[mem.batch.current], call.tree)
         /\ call.iter > 0 =>
               \A i \in Places : Affected(i) => Builds(Order[i], call.tree)
AtLimit == MaxIterations > 0 /\ call.iter >= MaxIterations
Build ==
    /\ At({"build"})
    /\ ~ call.stop
    /\ \/ Built /\ call.iter > 0 /\ call' = Goto("adopt")
       \/ ~ (Built /\ call.iter > 0) /\ AtLimit /\ call' = Leaving("hold")
       \/ /\ ~ (Built /\ call.iter > 0)
          /\ ~ AtLimit
          /\ call' = [Goto("edit") EXCEPT !.rejected = {}]
    /\ UNCHANGED <<compiles, branch, journal, disk, mem, log>>

(* RunSolution: a request is pending on disk before it is sent. *)
Ask ==
    /\ At({"edit", "review"})
    /\ ~ call.stop
    /\ log.sent < MaxSent
    /\ Persist(WithRun([Now EXCEPT !.pending = TRUE]),
               Goto(IF At({"edit"}) THEN "proposed" ELSE "judged"),
               Leaving("error"), [log EXCEPT !.sent = @ + 1])
    /\ UNCHANGED <<compiles, branch, journal>>
Paid == [Now EXCEPT !.pending = FALSE, !.usage = @ + 1]

Editable == {t \in Trees : \A f \in Files \ Uses[Order[mem.batch.current]] :
                              t[f] = call.tree[f]}
(* The edits of a rejected candidate are refused; other edits may make the
   same tree, and no edits are no others. *)
Resubmits == call.rejected \cap Editable # {}
Propose ==
    /\ At({"proposed"})
    /\ \E next \in
          {Leaving("hold")}
          \cup (IF Resubmits THEN {Leaving("error")} ELSE {})
          \cup {[Goto("review") EXCEPT !.cand = t] :
                   t \in Editable \ (call.rejected \cap {call.tree})} :
         Persist(WithRun(Paid), next, Leaving("error"), Billed(log))
    /\ UNCHANGED <<compiles, branch, journal>>

(* An approved candidate without edits is adopted when the build stands; one
   with edits is built, unless it was built before.  (Variant: NotRefused.) *)
Repaired(tree) == [Goto("build") EXCEPT !.tree = tree, !.iter = @ + 1,
                                        !.seen = @ \cup {tree}]
Decided ==
    CASE call.cand = call.tree /\ Built -> Goto("adopt")
      [] call.cand # call.tree /\ call.cand \notin call.seen
            -> Repaired(call.cand)
      [] OTHER -> Leaving("hold")
NotRefused(verdict) == verdict # "needs_human"
Accepted(verdict) == verdict = "passed"
Judgement(verdict) ==
    CASE Accepted(verdict) -> Decided
      [] verdict = "needs_human" -> Leaving("hold")
      [] OTHER -> [Goto("edit") EXCEPT !.rejected = @ \cup {call.cand}]
Judge ==
    /\ At({"judged"})
    /\ \E verdict \in {"passed", "needs_changes", "needs_human"} :
         LET l == IF verdict # "passed" THEN log
                  ELSE [log EXCEPT !.approved = @ \cup {<<Here, call.cand>>}]
         IN  Persist(WithRun(Paid), Judgement(verdict), Leaving("error"),
                     Billed(l))
    /\ UNCHANGED <<compiles, branch, journal>>
(* No answer: it may have been billed, which is then uncertain. *)
NoAnswer ==
    /\ At({"proposed", "judged"})
    /\ call.stop \/ MayFail
    /\ \E uncertain \in BOOLEAN, l \in {log, Billed(log)} :
         /\ l # log => uncertain
         /\ Persist(WithRun([Now EXCEPT !.pending = FALSE,
                                        !.uncertain = @ \/ uncertain]),
                    Leaving("error"), Leaving("error"),
                    IF call.stop THEN l ELSE Faulted(l))
    /\ UNCHANGED <<compiles, branch, journal>>

-----------------------------------------------------------------------------
(* adoptSolution: completed in memory, journaled, merged, recorded.
   (Variant: NotWritten forgets the journal.) *)
Adopt ==
    /\ At({"adopt"})
    /\ ~ call.stop
    /\ mem' = WithRun([Now EXCEPT !.status = "completed"])
    /\ call' = Goto(IF Changed = {} THEN "record" ELSE "journal")
    /\ UNCHANGED <<compiles, branch, journal, disk, log>>
Adopting(commit) == Append(mem.tasks, EntryOf(Here, Now, TRUE, commit))
Adoption == [base |-> Len(branch), commit |-> [run |-> Here,
                                               tree |-> call.tree],
             tasks |-> Adopting(TRUE), batch |-> mem.batch]
NotWritten == UNCHANGED journal
Written == journal' = Adoption
Journal ==
    /\ At({"journal"})
    /\ Written
    /\ call' = Goto("merge")
    /\ UNCHANGED <<compiles, branch, disk, mem, log>>
Merged == branch' = Append(branch, Adoption.commit)
Merge ==
    /\ At({"merge"})
    /\ Merged
    /\ call' = Goto("record")
    /\ UNCHANGED <<compiles, journal, disk, mem, log>>
NotMerged ==
    /\ At({"merge"})
    /\ call.stop \/ MayFail
    /\ Merged \/ UNCHANGED branch
    /\ call' = Leaving("error")
    /\ log' = IF call.stop THEN log ELSE Faulted(log)
    /\ UNCHANGED <<compiles, journal, disk, mem>>
Record ==
    /\ At({"record"})
    /\ Persist([mem EXCEPT !.tasks = Adopting(Here \in BranchRuns)],
               Leaving("none"), Leaving("error"), log)
    /\ UNCHANGED <<compiles, branch, journal>>

Next == \/ Forgotten \/ Recover \/ NotRecovered \/ Replay \/ Crash \/ Open
        \/ Start \/ Scan \/ Batch \/ TakeNext \/ NoMore \/ Leave \/ End \/ Stop
        \/ Inner \/ Fails \/ Build \/ Ask \/ Propose \/ Judge \/ NoAnswer
        \/ Adopt \/ Journal \/ Merge \/ NotMerged \/ Record

Spec == Init /\ [][Next]_vars

-----------------------------------------------------------------------------
(* Every variable has its type, and in the results on disk a solution runs
   only while its batch does (finishSolutionBatch leaves none behind). *)
Orderly(b) == b.status # "running" =>
                 \A i \in Places : b.runs[i].status \notin {"pending", "running"}
TypeOK == /\ compiles \in [Solutions -> SUBSET Trees]
          /\ branch \in Seq(Commit)
          /\ journal \in SolutionAdoption \cup {None}
          /\ {disk, mem} \subseteq State
          /\ call \in Call
          /\ log.billed \in [Ids -> Nat] /\ log.approved \subseteq Ids \X Trees
          /\ disk.batch # None => Orderly(disk.batch)

(* The queue on disk names no commit the branch lacks, and the branch holds
   at most the one commit of the journal beyond those the queue names; while
   a solution is built and edited there is none (validateDiscardHistory
   would refuse to go on). *)
LedgerSettled ==
    /\ Known(disk.tasks) \subseteq BranchRuns
    /\ \A id \in BranchRuns \ Known(disk.tasks) :
          journal # None /\ journal.commit.run = id
    /\ At({"inner", "build", "edit", "proposed", "review", "judged", "adopt"})
          => Known(mem.tasks) = BranchRuns

(* A run is charged once: whatever fails or dies, no queue holds two entries
   of it; when nothing is under way every run that was billed has an entry
   whose usage is right or marked uncertain, so no old journal replaces newer
   history; and every outcome the results show is backed by an entry
   (recordSolutionFailureLocked, the order of persist). *)
OnceIn(tasks) == \A k, l \in DOMAIN tasks :
                    tasks[k].run = tasks[l].run => k = l
AccountedOnce ==
    /\ OnceIn(disk.tasks) /\ OnceIn(mem.tasks)
    /\ At({"idle"}) =>
          \A id \in Ids : log.billed[id] > 0 =>
             \E e \in Entries(mem.tasks) :
                e.run = id /\ (e.usage = log.billed[id] \/ e.uncertain)
    /\ disk.batch # None =>
          \A i \in Places :
             disk.batch.runs[i].status \in {"completed", "needs_human",
                                            "failed", "stopped"}
                => <<disk.batch.start, i>> \in Recorded(disk.tasks)

(* Every solution the results show as completed builds at the head of the
   branch, whatever a later solution changed in the files they share
   (verifyEarlierSolutions), and across failures and recovery. *)
CompletedStillBuild ==
    disk.batch # None =>
       \A i \in Places : disk.batch.runs[i].status = "completed"
                            => Builds(Order[i], HeadTree)

(* Every commit of the branch is exactly the tree that the reviewer approved
   in the run that made it, and its own solution builds it: no rejected,
   stale or partial candidate is adopted, by the run or by recovery. *)
AdoptedAsApproved ==
    \A k \in DOMAIN branch :
       /\ <<branch[k].run, branch[k].tree>> \in log.approved
       /\ Builds(Order[branch[k].run[2]], branch[k].tree)
=============================================================================
