----------------------------- MODULE RepairLoop -----------------------------
(***************************************************************************)
(* The attempts at one file: engine/runner.go around agent/repair_loop.go, *)
(* the independent review of agent/review_gate.go, review.go and           *)
(* review_recovery.go, and the durable state of                            *)
(* engine/repair_checkpoint.go.                                            *)
(*                                                                         *)
(* The editor and the reviewer are language models behind one provider:    *)
(* they answer anything, late, twice or never.  The program may stop, fail *)
(* to save or die between any two steps, and the user may ask again.       *)
(*                                                                         *)
(* Abstractions.  A provenance stands for the source, the rules and the    *)
(* settings together.  A plan is its revision and its kind.  A set of      *)
(* edits is a value; None is no edit.  A candidate's id stands for the     *)
(* candidate.  Reading, rollover of the conversation and the reviewer's    *)
(* partial records change no decision and are left out.                    *)
(* Journal, commit and other files belong to Execution.                    *)
(***************************************************************************)
EXTENDS Naturals, FiniteSets

CONSTANTS Provs,      \* source, rules and settings an attempt works from
          Edits,      \* what the editor may stage
          None,       \* nothing
          MaxSent,    \* bound: requests
          MaxTries,   \* bound: times one request is sent
          MaxRev,     \* bound: revisions of a plan
          MaxAsked,   \* bound: executions and retries asked for
          MaxFaults,  \* bound: failing saves
          MaxCrashes  \* bound: process ends within a call

ASSUME NoneAssumption == None \notin Provs \cup Edits
ASSUME BoundAssumption == {MaxSent, MaxTries, MaxRev, MaxAsked, MaxFaults,
                            MaxCrashes} \subseteq Nat

VARIABLES prov,  \* what the source, the rules and the settings are now
          task,  \* the file in the queue
          disk,  \* the checkpoint the queue names
          run,   \* the call under way
          log    \* history: requests, verdicts, bounds

vars == <<prov, task, disk, run, log>>

-----------------------------------------------------------------------------
(* Types. *)
Plans == {"none", "open", "unchanged", "change", "held", "stuck"}
Finished == {"passed", "held", "changes", "localized", "human"}
Verdicts == Finished \cup {"running", "error"}
Candidate == [unchanged : BOOLEAN, rev : Nat, edits : Edits \cup {None},
              passed : BOOLEAN, requested : BOOLEAN,
              review : Verdicts \cup {None}]
RepairState == [rev : Nat, plan : Plans, staged : Edits \cup {None},
                cand : Candidate \cup {None}, reviews : Verdicts \cup {None},
                turns : Nat, known : Nat, pending : BOOLEAN,
                uncertain : BOOLEAN]
Checkpoint == [prov : Provs, state : RepairState]
Result == [prov : Provs, edits : Edits \cup {None}, partial : BOOLEAN]
Usage == [turns : Nat, known : Nat, uncertain : BOOLEAN]
Task == [status : {"pending", "running", "failed", "needs_human", "done",
                   "skipped"},
         resume : BOOLEAN, open : BOOLEAN, usage : Usage,
         result : Result \cup {None}]
Outcomes == {"error", "modified", "skipped", "needs_human"}
Run == [pc : {"idle", "attach", "enter", "loop", "answered", "calls",
              "validate", "final", "review", "sent", "verdict", "judged",
              "leave", "adopt", "finish"},
        prov : Provs \cup {None}, allowed : BOOLEAN, state : RepairState,
        edits : Edits \cup {None}, who : {"editor", "review"}, tries : Nat,
        doubt : BOOLEAN, outcome : Outcomes]

ASSUME RecordAssumption ==
    None \notin Verdicts \cup Candidate \cup Checkpoint \cup Result

NewState == [rev |-> 0, plan |-> "none", staged |-> None, cand |-> None,
             reviews |-> None, turns |-> 0, known |-> 0, pending |-> FALSE,
             uncertain |-> FALSE]
Idle == [pc |-> "idle", prov |-> None, allowed |-> FALSE, state |-> NewState,
         edits |-> None, who |-> "editor", tries |-> 0, doubt |-> FALSE,
         outcome |-> "error"]

NoUsage == [turns |-> 0, known |-> 0, uncertain |-> FALSE]

Init == /\ prov \in Provs
        /\ task = [status |-> "pending", resume |-> FALSE, open |-> FALSE,
                   usage |-> NoUsage, result |-> None]
        /\ disk = None
        /\ run = Idle
        /\ log = [sent |-> 0, billed |-> 0, approved |-> {},
                  demanded |-> FALSE, asked |-> 0, faults |-> 0,
                  crashes |-> 0]

State == run.state
At(pcs) == run.pc \in pcs
Goto(pc) == [run EXCEPT !.pc = pc]
Give(outcome) == [run EXCEPT !.pc = "leave", !.outcome = outcome]
Faulted(l) == [l EXCEPT !.faults = @ + 1]

(* persist: the state s changes in memory and is saved, with l for the
   history; when it cannot be saved the call is on its way out, where it is
   saved once more. *)
Persist(s, next, l) ==
    \/ /\ run' = [next EXCEPT !.state = s]
       /\ disk' = [prov |-> run.prov, state |-> s]
       /\ log' = l
    \/ /\ log.faults < MaxFaults
       /\ run' = [Give("error") EXCEPT !.state = s]
       /\ log' = Faulted(l)
       /\ UNCHANGED disk

-----------------------------------------------------------------------------
(* processOne up to the call of the agent. *)
AnyProvenance(c) == c # None
Provenance(c) == c # None /\ c.prov = prov
MayResume == task.resume /\ task.open /\ Provenance(disk)

(* A fresh attempt keeps what was spent and nothing that was planned. *)
Spent(s) == [NewState EXCEPT !.turns = s.turns, !.known = s.known,
                             !.pending = s.pending, !.uncertain = s.uncertain]
Carried == CASE disk = None -> NewState
             [] MayResume -> disk.state
             [] OTHER -> Spent(disk.state)
(* The history of the file may know more than its checkpoint. *)
Larger(m, n) == IF m > n THEN m ELSE n
Retained(s) ==
    [s EXCEPT !.turns = Larger(@, task.usage.turns),
              !.known = Larger(@, task.usage.known),
              !.uncertain = @ \/ s.pending \/ task.usage.uncertain]
UsageOf(s) == [turns |-> s.turns, known |-> s.known,
               uncertain |-> s.uncertain]

Begin ==
    /\ At({"idle"})
    /\ task.status \in {"pending", "failed"}
    /\ run' = [Idle EXCEPT !.pc = "attach", !.prov = prov,
                           !.allowed = task.resume, !.state = Retained(Carried)]
    /\ task' = [task EXCEPT !.status = "running", !.resume = FALSE,
                            !.open = MayResume]
    /\ log' = [log EXCEPT !.demanded = @ /\ MayResume]
    /\ UNCHANGED <<prov, disk>>

(* The first save attaches the checkpoint to the attempt in the queue. *)
Attached == /\ disk' = [prov |-> run.prov, state |-> State]
            /\ task' = [task EXCEPT !.open = TRUE]
Attach ==
    /\ At({"attach"})
    /\ Attached
    /\ run' = Goto("enter")
    /\ UNCHANGED <<prov, log>>
NotAttached ==
    /\ At({"attach"})
    /\ log.faults < MaxFaults
    /\ Attached \/ UNCHANGED <<disk, task>>
    /\ run' = Idle
    /\ log' = Faulted(log)
    /\ UNCHANGED prov
(* The file is gone, or no longer what was extracted. *)
Refuse ==
    /\ At({"attach"})
    /\ task' = [task EXCEPT !.status = "needs_human"]
    /\ run' = Idle
    /\ UNCHANGED <<prov, disk, log>>

(* Run: an unanswered request needs the user's word, and stays in doubt.
   A review that was asked for is taken up before the editor is. *)
Forgotten(s) == [s EXCEPT !.pending = FALSE, !.uncertain = FALSE]
Acknowledged(s) == [s EXCEPT !.pending = FALSE, !.uncertain = TRUE]
Known(s) == IF s.pending \/ s.uncertain THEN Acknowledged(s) ELSE s
Restaged(s) ==
    IF s.staged = None /\ s.cand # None /\ ~ s.cand.unchanged
    THEN [s EXCEPT !.staged = s.cand.edits] ELSE s
Requested(s) == s.cand # None /\ s.cand.requested
Reviewing(s) == s.cand # None /\ s.cand.requested /\ s.cand.rev = s.rev
Enter ==
    /\ At({"enter"})
    /\ \/ /\ State.pending \/ State.uncertain
          /\ ~ run.allowed
          /\ run' = [Goto("finish") EXCEPT !.state.uncertain = TRUE]
       \/ /\ State.pending \/ State.uncertain => run.allowed
          /\ ~ Reviewing(State)
          /\ run' = [Goto("loop") EXCEPT !.state = Restaged(Known(State))]
       \/ /\ State.pending \/ State.uncertain => run.allowed
          /\ Reviewing(State)
          /\ run' = [Goto("final") EXCEPT
                       !.state = Restaged(Known(State)),
                       !.outcome = IF State.cand.unchanged THEN "skipped"
                                   ELSE "modified"]
    /\ UNCHANGED <<prov, task, disk, log>>

-----------------------------------------------------------------------------
(* One request of the editor or of the reviewer.  It is reserved on disk
   before anything is sent. *)
Published(s, verdict) ==
    [s EXCEPT !.cand = [@ EXCEPT !.review = verdict], !.reviews = verdict]
AsSeen(s, verdict) == IF run.who = "review" THEN Published(s, verdict) ELSE s
Reserved(s) == [s EXCEPT !.turns = @ + 1, !.pending = TRUE]
Ask(who, s) ==
    /\ log.sent < MaxSent
    /\ \/ /\ disk' = [prov |-> run.prov, state |-> s]
          /\ run' = [run EXCEPT !.pc = "sent", !.who = who, !.tries = 1,
                                !.doubt = FALSE, !.state = s]
          /\ log' = [log EXCEPT !.sent = @ + 1]
       \/ /\ log.faults < MaxFaults
          /\ run' = [Give("error") EXCEPT
               !.state = IF who = "review" THEN Published(s, "error") ELSE s]
          /\ log' = Faulted(log)
          /\ UNCHANGED disk
    /\ UNCHANGED <<prov, task>>
AskEditor == /\ At({"loop", "answered", "calls"})
             /\ Ask("editor", Reserved(State))
AskReviewer == /\ At({"review", "verdict"})
               /\ Ask("review", Published(Reserved(State), "running"))

(* request: one that was throttled is sent again, and so is one that was
   interrupted, although it may have been billed. *)
Resend ==
    /\ At({"sent"})
    /\ log.sent < MaxSent
    /\ run.tries < MaxTries
    /\ \E throttled \in BOOLEAN, billed \in 0 .. 1 :
         /\ throttled => billed = 0
         /\ run' = [run EXCEPT !.tries = @ + 1, !.doubt = @ \/ ~ throttled]
         /\ log' = [log EXCEPT !.sent = @ + 1, !.billed = @ + billed]
    /\ UNCHANGED <<prov, task, disk>>

Settled(s, served, unknown) ==
    [s EXCEPT !.turns = @ + (run.tries - 1), !.known = @ + served,
              !.pending = unknown, !.uncertain = @ \/ unknown \/ run.doubt]
(* A response may come without its usage. *)
Measured(measured) ==
    IF measured THEN Settled(State, 1, FALSE)
    ELSE [Settled(State, 0, FALSE) EXCEPT !.uncertain = TRUE]
Answer ==
    /\ At({"sent"})
    /\ \E measured \in BOOLEAN :
         Persist(Measured(measured),
                 Goto(IF run.who = "editor" THEN "answered" ELSE "verdict"),
                 [log EXCEPT !.billed = @ + 1])
    /\ UNCHANGED <<prov, task>>

(* The request is too long for the provider, which bills nothing. *)
ContextLimit ==
    /\ At({"sent"})
    /\ Persist(Settled(State, 0, run.who = "review" /\ run.doubt),
               Goto(IF run.who = "editor" THEN "loop" ELSE "review"), log)
    /\ UNCHANGED <<prov, task>>

(* Refused, or given up by the user while it was on its way. *)
Fail ==
    /\ At({"sent"})
    /\ \E lost \in BOOLEAN, billed \in 0 .. 1 :
         /\ billed = 1 => lost
         /\ run' = [Give("error") EXCEPT !.state =
               AsSeen(Settled(State, 0, lost \/ run.doubt), "error")]
         /\ log' = [log EXCEPT !.billed = @ + billed]
    /\ UNCHANGED <<prov, task, disk>>

(* An answer no attempt can go on from, or a stop between two requests. *)
GiveUp ==
    /\ At({"loop", "answered", "calls", "final", "review", "verdict"})
    /\ run' = [Give("error") EXCEPT !.state =
                 IF At({"review", "verdict"}) THEN Published(State, "error")
                 ELSE State]
    /\ UNCHANGED <<prov, task, disk, log>>

-----------------------------------------------------------------------------
(* What the editor may do with an answer: any number of tool calls. *)
Calling == At({"answered", "calls"}) /\ UNCHANGED <<prov, task>>

(* update_state.  Decisions are kept, so a complete plan stays complete. *)
UpdatePlan ==
    /\ Calling
    /\ State.rev < MaxRev
    /\ \E plan \in Plans \ {"none"} :
         /\ plan = "open" => State.plan \in {"none", "open", "stuck"}
         /\ Persist([State EXCEPT !.rev = @ + 1, !.plan = plan],
                    Goto("calls"), log)

(* stage_edits: the last candidate is no longer what was staged. *)
Staged(s, edits) == [s EXCEPT !.staged = edits, !.cand = None]
Stage ==
    /\ Calling
    /\ State.rev > 0
    /\ \E edits \in {State.staged, None} \cup
          (IF State.plan \in {"open", "change", "held"} THEN Edits ELSE {}) :
         Persist(Staged(State, edits), Goto("calls"), log)

(* validate_candidate brings its edits, validate_staged_candidate takes the
   staged ones.  The last candidate is dropped before the new one exists. *)
Validate ==
    /\ Calling
    /\ State.plan \in {"change", "held"}
    /\ \E edits \in Edits :
         Persist([State EXCEPT !.cand = None],
                 [Goto("validate") EXCEPT !.edits = edits], log)
Validated ==
    /\ At({"validate"})
    /\ \/ \E passed \in BOOLEAN :
            Persist([State EXCEPT !.staged = run.edits, !.cand =
                       [unchanged |-> FALSE, rev |-> State.rev,
                        edits |-> run.edits, passed |-> passed,
                        requested |-> FALSE, review |-> None]],
                    Goto("calls"), log)
       \/ /\ run' = Give("error")
          /\ UNCHANGED <<disk, log>>
    /\ UNCHANGED <<prov, task>>

(* parseCandidateFinal; an answer it rejects is followed by another request.
   A review that did not pass cannot be evaded by declaring no change. *)
OfCandidate(s) == s.cand # None /\ s.cand.review \notin {None, "passed"}
Unresolved(s) == IF s.reviews # None THEN s.reviews # "passed"
                 ELSE OfCandidate(s)
CurrentUnchanged(s) == s.cand # None /\ s.cand.unchanged /\ s.cand.rev = s.rev
NoChange(s) ==
    IF CurrentUnchanged(s) THEN s
    ELSE [s EXCEPT !.cand = [unchanged |-> TRUE, rev |-> s.rev,
                             edits |-> None, passed |-> TRUE,
                             requested |-> FALSE, review |-> None]]
Final ==
    /\ At({"answered"})
    /\ \/ /\ State.cand # None
          /\ ~ State.cand.unchanged
          /\ State.cand.passed
          /\ State.cand.rev = State.rev
          /\ run' = [Goto("final") EXCEPT !.outcome = "modified"]
       \/ /\ State.plan = "unchanged"
          /\ ~ Unresolved(State)
          /\ run' = [Goto("final") EXCEPT !.outcome = "skipped",
                                          !.state = NoChange(State)]
       \/ /\ State.plan \in {"none", "stuck"}
          /\ run' = Give("needs_human")
    /\ UNCHANGED <<prov, task, disk, log>>

-----------------------------------------------------------------------------
(* reviewFinal: a candidate is judged once; an interrupted or failed review
   starts again with what was recorded. *)
Review ==
    /\ At({"final"})
    /\ \/ /\ State.cand.review \in Finished
          /\ run' = Goto("judged")
          /\ UNCHANGED <<disk, log>>
       \/ /\ State.cand.review \notin Finished
          /\ Persist([State EXCEPT !.cand.requested = TRUE],
                     Goto("review"), log)
    /\ UNCHANGED <<prov, task>>

ResultOf(s) == [prov |-> run.prov, edits |-> s.cand.edits,
                partial |-> s.cand.review = "held"]
Accepting == {"passed", "held"}
Conclude ==
    /\ At({"verdict"})
    /\ \E verdict \in Finished :
         /\ verdict = "passed" => State.plan # "held"
         /\ verdict = "held" => State.plan = "held"
         /\ LET s == Published(State, verdict) IN
            Persist(s, Goto("judged"), [log EXCEPT !.approved =
              IF verdict \in Accepting THEN @ \cup {ResultOf(s)} ELSE @])
    /\ UNCHANGED <<prov, task>>

(* reviewedOutcome *)
Judge ==
    /\ At({"judged"})
    /\ LET verdict == State.cand.review IN
       /\ run' = CASE verdict \in Accepting -> Goto("leave")
                   [] verdict = "human" -> Give("needs_human")
                   [] OTHER -> Goto("loop")
       /\ log' = [log EXCEPT !.demanded = @ \/ verdict \notin Accepting]
    /\ UNCHANGED <<prov, task, disk>>

-----------------------------------------------------------------------------
(* The deferred save of Run, and the rest of processOne. *)
Leave ==
    /\ At({"leave"})
    /\ \/ /\ disk' = [prov |-> run.prov, state |-> State]
          /\ run' = Goto(IF run.outcome \in {"modified", "skipped"}
                         THEN "adopt" ELSE "finish")
          /\ UNCHANGED log
       \/ /\ log.faults < MaxFaults
          /\ run' = [Goto("finish") EXCEPT !.outcome = "error"]
          /\ log' = Faulted(log)
          /\ UNCHANGED disk
    /\ UNCHANGED <<prov, task>>

(* A person decides, but for an error before any request of the attempt: the
   worker begins again.  A stop and an unknown usage are for a person. *)
UnspentError == /\ run.outcome = "error"
                /\ State.turns <= task.usage.turns
                /\ ~ State.pending
                /\ State.uncertain => run.allowed
Finish ==
    /\ At({"finish"})
    /\ \E status \in {"needs_human", "failed"} :
         /\ status = "failed" => UnspentError
         /\ task' = [task EXCEPT !.status = status, !.usage = UsageOf(State)]
    /\ run' = Idle
    /\ UNCHANGED <<prov, disk, log>>

(* The adoption gate: the reviewed candidate of the plan, and rules and
   source as they were. *)
PassedReview(s) ==
    /\ s.cand # None
    /\ s.cand.passed
    /\ s.cand.rev = s.rev
    /\ s.cand.unchanged <=> run.outcome = "skipped"
    /\ s.cand.review = IF s.plan = "held" THEN "held" ELSE "passed"
Adopt ==
    /\ At({"adopt"})
    /\ PassedReview(State)
    /\ prov = run.prov
    /\ task' = [task EXCEPT !.open = FALSE, !.result = ResultOf(State),
         !.usage = UsageOf(State),
         !.status = CASE run.outcome = "skipped" -> "skipped"
                      [] State.cand.review = "held" -> "needs_human"
                      [] OTHER -> "done"]
    /\ run' = Idle
    /\ UNCHANGED <<prov, disk, log>>
(* Stopped, or the worktree is not as it was; or the check of the written
   file fails, after which the worker begins again by itself. *)
Reject ==
    /\ At({"adopt"})
    /\ \E status \in {"needs_human", "failed"} :
         /\ status = "failed" => /\ run.outcome = "modified"
                                 /\ PassedReview(State)
                                 /\ prov = run.prov
         /\ task' = [task EXCEPT !.status = status,
                                 !.usage = UsageOf(State)]
    /\ run' = Idle
    /\ UNCHANGED <<prov, disk, log>>

(* recover, once the run or the process ended in the middle. *)
Interrupted(s) ==
    [s EXCEPT !.uncertain = @ \/ s.pending,
              !.reviews = IF @ = "running" THEN "error" ELSE @,
              !.cand = IF @ # None /\ @.review = "running"
                       THEN [@ EXCEPT !.review = "error"] ELSE @]
Recover ==
    /\ At({"idle"})
    /\ task.status = "running"
    /\ IF task.open
       THEN /\ disk' = [disk EXCEPT !.state = Interrupted(@)]
            /\ task' = [task EXCEPT !.status = "needs_human",
                          !.usage = UsageOf(Interrupted(disk.state))]
       ELSE /\ task' = [task EXCEPT !.status = "needs_human",
                                    !.usage.uncertain = TRUE]
            /\ UNCHANGED disk
    /\ UNCHANGED <<prov, run, log>>

(* RetryTasks *)
Retry ==
    /\ At({"idle"})
    /\ task.status # "running"
    /\ log.asked < MaxAsked
    /\ task' = [task EXCEPT !.status = "pending", !.resume = TRUE]
    /\ log' = [log EXCEPT !.asked = @ + 1]
    /\ UNCHANGED <<prov, disk, run>>

(* The user edits the source, the rules or the settings. *)
ChangeProv == /\ prov' \in Provs \ {prov}
              /\ UNCHANGED <<task, disk, run, log>>

Crash ==
    /\ ~ At({"idle"})
    /\ log.crashes < MaxCrashes
    /\ \E billed \in 0 .. 1 :
         /\ billed = 1 => At({"sent"})
         /\ log' = [log EXCEPT !.crashes = @ + 1, !.billed = @ + billed]
    /\ run' = Idle
    /\ UNCHANGED <<prov, task, disk>>

Next == \/ Begin \/ Attach \/ NotAttached \/ Refuse \/ Enter
        \/ AskEditor \/ AskReviewer \/ Resend \/ Answer \/ ContextLimit
        \/ Fail \/ GiveUp
        \/ UpdatePlan \/ Stage \/ Validate \/ Validated \/ Final
        \/ Review \/ Conclude \/ Judge
        \/ Leave \/ Finish \/ Adopt \/ Reject
        \/ Recover \/ Retry \/ ChangeProv \/ Crash

Spec == Init /\ [][Next]_vars

-----------------------------------------------------------------------------
(* Properties. *)

(* Every variable has its shape, a checkpoint in use exists, and only a
   candidate of the current plan is reviewed or adopted. *)
TypeOK ==
    /\ prov \in Provs
    /\ task \in Task
    /\ disk \in Checkpoint \cup {None}
    /\ run \in Run
    /\ log.approved \subseteq Result
    /\ task.open => disk # None
    /\ ~ At({"idle"}) => task.status = "running"
    /\ At({"final", "review", "verdict", "judged", "adopt"}) =>
         State.cand # None /\ State.cand.rev = State.rev

(* What is adopted, an edit or the claim that nothing needs one, is exactly
   what a reviewer approved of this source under these rules, with the same
   reservation: however often the attempt was interrupted, resumed,
   replanned or had its candidate replaced in between. *)
ReviewedAsAdopted == task.result # None => task.result \in log.approved

(* Once a review of the attempt asked for a change or for a human, the file
   is not skipped: not by a new plan, a dropped candidate, a failed review,
   or a restart in between. *)
NoSkipAfterDemand ==
    [][task'.status = "skipped" /\ task.status # "skipped"
         => ~ log.demanded]_vars

(* While the books claim to be complete they count every request sent and
   every answer billed: over retries, lost answers, failed saves, restarts
   and fresh attempts. *)
UsageCounted ==
    disk # None /\ task.status # "running" =>
      \/ disk.state.pending \/ disk.state.uncertain \/ task.usage.uncertain
      \/ /\ Larger(disk.state.turns, task.usage.turns) >= log.sent
         /\ Larger(disk.state.known, task.usage.known) = log.billed
=============================================================================
