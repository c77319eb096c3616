-------------------------- MODULE RepairLoop_proofs --------------------------
(***************************************************************************)
(* Proofs about RepairLoop for every value of its constants: what is       *)
(* adopted is what a reviewer approved, a demanded change is not skipped,  *)
(* and the books that claim to be complete are.                            *)
(***************************************************************************)
EXTENDS RepairLoop, TLAPS

-----------------------------------------------------------------------------
(* The inductive invariant.  The state s of an attempt at the source p, in
   memory or in a checkpoint, beside the history l. *)

(* What is marked as approved was approved of this source. *)
Approved(p, s, l) ==
    s.cand # None /\ s.cand.review \in Accepting =>
        [prov |-> p, edits |-> s.cand.edits, partial |-> s.cand.review = "held"]
            \in l.approved
(* The last review is the candidate's, if it has one. *)
Matches(s) == s.cand # None => s.cand.review \in {None, s.reviews}
(* Once a change was demanded, the plan without one is not open any more, and
   the review only passes with the candidate it passed, which is final. *)
Demands(s) ==
    /\ s.reviews # None
    /\ s.cand # None /\ s.cand.unchanged => s.cand.review \in Finished \ Accepting
    /\ s.reviews = "passed" => /\ Reviewing(s)
                               /\ ~ s.cand.unchanged
                               /\ s.cand.review = "passed"
Sound(p, s, l) == /\ Approved(p, s, l)
                  /\ Matches(s)
                  /\ l.demanded => Demands(s)
                  /\ s.known <= l.billed

(* The books of s, to which n turns are added, count everything. *)
Counts(s, n, l) == s.turns + n >= l.sent /\ s.known = l.billed
(* The checkpoint d: when it lags behind, a request is still open in it. *)
Saved(d, l) == d # None => /\ Sound(d.prov, d.state, l)
                           /\ \/ d.state.pending \/ d.state.uncertain
                              \/ Counts(d.state, 0, l)
SameReview(s, z) == s.cand = z.cand /\ s.reviews = z.reviews
Current(s) == s.cand # None /\ s.cand.rev = s.rev

(* What a call r relies on: in the state it works with, in the checkpoint. *)
Editing(r) == \/ r.pc \in {"loop", "answered", "calls", "validate"}
              \/ r.pc = "sent" /\ r.who = "editor"
Judging(r) == \/ r.pc \in {"review", "verdict"}
              \/ r.pc = "sent" /\ r.who = "review"
Booked(r, l) ==
    IF r.pc = "sent"
    THEN r.state.uncertain \/ r.doubt \/ Counts(r.state, r.tries - 1, l)
    ELSE r.state.uncertain \/ Counts(r.state, 0, l)
Where(r, d, l) ==
    /\ Editing(r) /\ l.demanded => r.state.reviews # "passed"
    /\ Judging(r) => /\ Current(r.state)
                     /\ r.state.cand.requested
                     /\ ~ (l.demanded /\ r.state.cand.unchanged)
    /\ r.pc \in {"final", "judged", "adopt"} => Current(r.state)
    /\ r.pc = "leave" /\ r.outcome \in {"modified", "skipped"} => Current(r.state)
    /\ r.pc = "sent" => d # None /\ d.state.pending /\ r.tries > 0
    /\ r.pc \in {"enter", "answered", "calls", "validate"} =>
           d # None /\ d.state = r.state
    /\ r.pc \in {"final", "judged"} /\ r.state.cand.review \in Finished =>
           d # None /\ SameReview(d.state, r.state)
    /\ r.pc = "judged" => r.state.cand.review \in Finished
CallOK(r, d, l) == r.pc # "idle" => /\ r.prov \in Provs
                                    /\ Sound(r.prov, r.state, l)
                                    /\ Booked(r, l)
                                    /\ Where(r, d, l)
TaskOK(t, d, l) == /\ t.result # None => t.result \in l.approved
                   /\ t.usage.known <= l.billed
                   /\ d = None => l.sent = 0 /\ l.billed = 0
LogOK(l) == l \in [sent : Nat, billed : Nat, approved : SUBSET Result,
                   demanded : BOOLEAN, asked : Nat, faults : Nat, crashes : Nat]
IInv == /\ TypeOK
        /\ LogOK(log)
        /\ Saved(disk, log)
        /\ CallOK(run, disk, log)
        /\ TaskOK(task, disk, log)

-----------------------------------------------------------------------------
(* Nothing is none of the records, and no verdict. *)
LEMMA Some == /\ None \notin Candidate /\ None \notin Checkpoint
              /\ None \notin Result /\ None \notin Verdicts
  BY RecordAssumption

(* A history that only grew, and does not demand more. *)
Grown(l, m) == /\ LogOK(m)
               /\ l.approved \subseteq m.approved
               /\ m.demanded => l.demanded
               /\ l.billed <= m.billed

(* It keeps what was sound. *)
LEMMA StillSound ==
    ASSUME NEW p, NEW s \in RepairState, NEW l, NEW m, LogOK(l), Grown(l, m),
           Sound(p, s, l)
    PROVE  Sound(p, s, m)
<1>1. s.known \in Nat /\ l.billed \in Nat /\ m.billed \in Nat
  BY DEF RepairState, LogOK, Grown
<1> QED
  BY <1>1 DEF Sound, Approved, Grown

(* A checkpoint stays sound when no request is sent or answered, or while it
   has one open. *)
LEMMA StillSaved ==
    ASSUME NEW d \in Checkpoint \cup {None}, NEW l, NEW m, LogOK(l), Grown(l, m),
           Saved(d, l),
           (d # None /\ d.state.pending) \/ (m.sent = l.sent /\ m.billed = l.billed)
    PROVE  Saved(d, m)
<1> SUFFICES ASSUME d # None PROVE Saved(d, m)
  BY DEF Saved
<1>1. d.state \in RepairState
  BY DEF Checkpoint
<1>2. Sound(d.prov, d.state, m)
  BY <1>1, StillSound DEF Saved
<1> QED
  BY <1>2 DEF Saved, Counts

(* The parts of IInv after a step. *)
LEMMA Kept ==
    ASSUME prov' \in Provs, task' \in Task, disk' \in Checkpoint \cup {None},
           run' \in Run, LogOK(log'), task'.open => disk' # None,
           run'.pc # "idle" => task'.status = "running",
           Saved(disk', log'), CallOK(run', disk', log'), TaskOK(task', disk', log')
    PROVE  IInv'
<1>1. log'.approved \subseteq Result
  BY DEF LogOK
<1>2. run'.pc \in {"final", "review", "verdict", "judged", "adopt"} => Current(run'.state)
  BY DEF CallOK, Where, Judging
<1>3. TypeOK'
  BY <1>1, <1>2 DEF TypeOK, At, State, Current
<1> QED
  BY <1>3 DEF IInv

(* A step of the call that leaves the queue and the checkpoint alone. *)
LEMMA CallMoved ==
    ASSUME IInv, run.pc # "idle", UNCHANGED <<prov, task, disk>>,
           run' \in Run, Grown(log, log'), log'.sent = log.sent,
           log'.billed = log.billed \/ run.pc = "sent",
           CallOK(run', disk, log')
    PROVE  IInv'
<1>1. /\ prov \in Provs /\ task \in Task /\ disk \in Checkpoint \cup {None}
      /\ task.open => disk # None
      /\ task.status = "running"
  BY DEF IInv, TypeOK, At
<1>2. LogOK(log) /\ LogOK(log')
  BY DEF IInv, Grown
<1>3. run.pc = "sent" => disk # None /\ disk.state.pending
  BY DEF IInv, CallOK, Where
<1>4. Saved(disk, log')
  BY <1>1, <1>2, <1>3, StillSaved DEF IInv
<1>5. task.usage.known \in Nat /\ log.billed \in Nat /\ log'.billed \in Nat
  BY <1>1, <1>2 DEF Task, Usage, LogOK
<1>6. TaskOK(task, disk, log')
  BY <1>2, <1>3, <1>5 DEF IInv, TaskOK, Grown
<1> QED
  BY <1>1, <1>2, <1>4, <1>6, Kept

(* A step that tries to save the state s, with l for the history. *)
LEMMA Persisted ==
    ASSUME IInv, run.pc # "idle", UNCHANGED <<prov, task>>,
           NEW s \in RepairState, NEW next \in Run, NEW l, Persist(s, next, l),
           next.pc \notin {"idle", "sent"}, next.prov = run.prov,
           Sound(run.prov, s, l), s.uncertain \/ Counts(s, 0, l),
           Grown(log, l), l.sent = log.sent, l.billed = log.billed \/ run.pc = "sent",
           Where([next EXCEPT !.state = s], [prov |-> run.prov, state |-> s], l)
    PROVE  IInv'
<1>1. /\ prov \in Provs /\ task \in Task /\ disk \in Checkpoint \cup {None}
      /\ run \in Run /\ run.prov \in Provs
      /\ task.status = "running"
  BY DEF IInv, TypeOK, At, CallOK
<1>2. LogOK(log) /\ LogOK(l)
  BY DEF IInv, Grown
<1>3. CASE /\ run' = [next EXCEPT !.state = s]
           /\ disk' = [prov |-> run.prov, state |-> s]
           /\ log' = l
  <2>1. disk' \in Checkpoint /\ disk' # None
    BY <1>1, <1>3, Some DEF Checkpoint
  <2>2. /\ run' \in Run /\ run'.pc = next.pc /\ run'.prov = run.prov /\ run'.state = s
    BY <1>3 DEF Run
  <2>3. Saved(disk', log')
    BY <1>3 DEF Saved
  <2>4. CallOK(run', disk', log')
    BY <1>1, <1>3, <2>2 DEF CallOK, Booked
  <2>5. task.usage.known \in Nat /\ log.billed \in Nat /\ l.billed \in Nat
    BY <1>1, <1>2 DEF Task, Usage, LogOK
  <2>6. TaskOK(task, disk', log')
    BY <1>3, <2>1, <2>5 DEF IInv, TaskOK, Grown
  <2> QED
    BY <1>1, <1>2, <1>3, <2>1, <2>2, <2>3, <2>4, <2>6, Kept
<1>4. CASE /\ run' = [Give("error") EXCEPT !.state = s]
           /\ log' = Faulted(l)
           /\ UNCHANGED disk
  <2>1. /\ run' \in Run /\ run'.pc = "leave" /\ run'.prov = run.prov /\ run'.state = s
        /\ run'.outcome = "error"
    BY <1>1, <1>4 DEF Run, Give, Outcomes
  <2>2. /\ LogOK(log') /\ log'.sent = l.sent /\ log'.billed = l.billed
        /\ log'.approved = l.approved /\ log'.demanded = l.demanded
    BY <1>2, <1>4 DEF LogOK, Faulted
  <2>3. Sound(run.prov, s, log') /\ (s.uncertain \/ Counts(s, 0, log')) /\ Grown(log, log')
    BY <2>2 DEF Sound, Approved, Counts, Grown
  <2>4. CallOK(run', disk, log')
    BY <1>1, <2>1, <2>3 DEF CallOK, Booked, Where, Editing, Judging
  <2> QED
    BY <1>4, <2>1, <2>2, <2>3, <2>4, CallMoved
<1> QED
  BY <1>3, <1>4 DEF Persist

(* The call ends, or is cut off. *)
LEMMA Gone ==
    ASSUME IInv, UNCHANGED prov, run' = Idle, disk' \in Checkpoint \cup {None},
           task' \in Task, task'.open => disk' # None, Saved(disk', log'), LogOK(log'),
           TaskOK(task', disk', log')
    PROVE  IInv'
<1>1. run' \in Run /\ run'.pc = "idle"
  BY DEF Idle, Run, NewState, RepairState, Outcomes, Plans
<1>2. prov' \in Provs /\ CallOK(run', disk', log')
  BY <1>1 DEF IInv, TypeOK, CallOK
<1> QED
  BY <1>1, <1>2, Kept

(* What a call may rely on. *)
LEMMA Working ==
    ASSUME IInv, run.pc # "idle"
    PROVE  /\ run \in Run /\ run.state \in RepairState /\ run.prov \in Provs
           /\ task \in Task /\ disk \in Checkpoint \cup {None}
           /\ Sound(run.prov, run.state, log) /\ Booked(run, log)
           /\ Where(run, disk, log)
           /\ LogOK(log) /\ Grown(log, log)
<1>1. LogOK(log) => Grown(log, log)
  BY DEF LogOK, Grown
<1> QED
  BY <1>1 DEF IInv, TypeOK, CallOK, Run

-----------------------------------------------------------------------------
(* The steps that save the state. *)

(* Only the books change: sent, answered or refused. *)
LEMMA Rebooked ==
    ASSUME NEW p, NEW s \in RepairState, NEW l, NEW z \in RepairState, LogOK(l),
           NEW m, Grown(l, m), Sound(p, s, l),
           z.cand = s.cand, z.reviews = s.reviews, z.rev = s.rev, z.known <= m.billed
    PROVE  Sound(p, z, m)
  BY DEF Sound, Approved, Matches, Demands, Reviewing, Grown

LEMMA SettledBooks ==
    ASSUME IInv, At({"sent"}), NEW served \in Nat, NEW unknown \in BOOLEAN,
           NEW z, z = Settled(run.state, served, unknown)
    PROVE  /\ z \in RepairState
           /\ z.cand = run.state.cand /\ z.reviews = run.state.reviews
           /\ z.rev = run.state.rev /\ z.known = run.state.known + served
           /\ run.state.known <= log.billed
           /\ unknown => z.uncertain
           /\ \/ z.uncertain
              \/ z.turns >= log.sent /\ run.state.known = log.billed
<1>1. run.pc = "sent"
  BY DEF At
<1>2. run.tries \in Nat \ {0} /\ run.state \in RepairState /\ run.doubt \in BOOLEAN
  BY <1>1, Working DEF Where, Run
<1> DEFINE doubted == run.state.uncertain \/ unknown \/ run.doubt
<1>3. /\ z.cand = run.state.cand /\ z.reviews = run.state.reviews
      /\ z.rev = run.state.rev /\ z.known = run.state.known + served
      /\ z.turns = run.state.turns + (run.tries - 1)
  BY <1>2 DEF Settled, RepairState
<1>6. /\ z.plan = run.state.plan /\ z.staged = run.state.staged
      /\ z.pending = unknown
  BY <1>2 DEF Settled, RepairState
<1>7. z.uncertain = doubted
  BY <1>2, Zenon DEF Settled, RepairState
<1>8. z.turns \in Nat /\ z.known \in Nat
  BY <1>2, <1>3 DEF RepairState
<1>9. doubted \in BOOLEAN
  OBVIOUS
<1>10. z \in RepairState
  <2>1. z = [rev |-> z.rev, plan |-> z.plan, staged |-> z.staged, cand |-> z.cand,
             reviews |-> z.reviews, turns |-> z.turns, known |-> z.known,
             pending |-> z.pending, uncertain |-> z.uncertain]
    BY <1>2 DEF Settled, RepairState
  <2> QED
    BY <1>2, <1>3, <1>6, <1>7, <1>8, <1>9, <2>1 DEF RepairState
<1>4. run.state.uncertain \/ run.doubt \/ Counts(run.state, run.tries - 1, log)
  BY <1>1, Working DEF Booked
<1>5. run.state.known <= log.billed
  BY <1>1, Working DEF Sound
<1> QED
  BY <1>2, <1>3, <1>4, <1>5, <1>7, <1>10 DEF Counts, RepairState

LEMMA AnswerKept == ASSUME IInv, Answer PROVE IInv'
<1>1. /\ run.pc = "sent" /\ run.pc # "idle" /\ At({"sent"}) /\ UNCHANGED <<prov, task>>
  BY DEF Answer, At
<1>2. PICK measured \in BOOLEAN :
          Persist(Measured(measured),
                  Goto(IF run.who = "editor" THEN "answered" ELSE "verdict"),
                  [log EXCEPT !.billed = @ + 1])
  BY DEF Answer
<1> DEFINE l == [log EXCEPT !.billed = @ + 1]
           s == Measured(measured)
           next == Goto(IF run.who = "editor" THEN "answered" ELSE "verdict")
<1>3. /\ LogOK(l) /\ Grown(log, l) /\ l.sent = log.sent /\ l.billed = log.billed + 1
      /\ log.billed \in Nat /\ l.demanded = log.demanded
  BY <1>1, Working DEF LogOK, Grown
<1>4. /\ s \in RepairState /\ s.cand = run.state.cand /\ s.reviews = run.state.reviews
      /\ s.rev = run.state.rev /\ s.known <= l.billed
      /\ s.uncertain \/ Counts(s, 0, l)
  <2>1. CASE measured
    <3>1. s = Settled(run.state, 1, FALSE)
      BY <2>1 DEF Measured, State
    <3>2. /\ s \in RepairState /\ s.cand = run.state.cand /\ s.rev = run.state.rev
          /\ s.reviews = run.state.reviews /\ s.known = run.state.known + 1
          /\ run.state.known <= log.billed
          /\ s.uncertain \/ (s.turns >= log.sent /\ run.state.known = log.billed)
      BY <1>1, <3>1, SettledBooks
    <3>3. run.state.known \in Nat /\ s.turns \in Nat
      BY <1>1, <3>2, Working DEF RepairState
    <3> HIDE DEF s, l
    <3> QED
      BY <1>3, <3>2, <3>3 DEF Counts
  <2>2. CASE ~ measured
    <3> DEFINE z == Settled(run.state, 0, FALSE)
    <3>1. s = [z EXCEPT !.uncertain = TRUE]
      BY <2>2 DEF Measured, State
    <3>2. /\ z \in RepairState /\ z.cand = run.state.cand /\ z.rev = run.state.rev
          /\ z.reviews = run.state.reviews /\ z.known = run.state.known + 0
          /\ run.state.known <= log.billed
      BY <1>1, SettledBooks
    <3>5. run.state.known \in Nat
      BY <1>1, Working DEF RepairState
    <3>3. s.cand = z.cand /\ s.rev = z.rev /\ s.reviews = z.reviews /\ s.known = z.known
      BY <3>1, <3>2 DEF RepairState
    <3>4. s \in RepairState /\ s.uncertain
      BY <3>1, <3>2 DEF RepairState
    <3> HIDE DEF z, s, l
    <3> QED
      BY <1>3, <3>2, <3>3, <3>4, <3>5
  <2> QED
    BY <2>1, <2>2
<1>5. /\ next \in Run /\ next.prov = run.prov /\ next.who = run.who
      /\ next.pc = IF run.who = "editor" THEN "answered" ELSE "verdict"
  BY <1>1, Working DEF Goto, Run
<1>6. Sound(run.prov, s, l)
  <2>1. /\ run.state \in RepairState /\ LogOK(log) /\ Sound(run.prov, run.state, log)
    BY <1>1, Working
  <2> HIDE DEF s, l
  <2> QED
    BY <1>3, <1>4, <2>1, Rebooked
<1>7. Where([next EXCEPT !.state = s], [prov |-> run.prov, state |-> s], l)
  <2>1. [prov |-> run.prov, state |-> s] # None
    BY <1>1, <1>4, Working, Some DEF Checkpoint
  <2>2. Where(run, disk, log) /\ run.who \in {"editor", "review"}
    BY <1>1, Working DEF Run
  <2> HIDE DEF l, s, next
  <2> QED
    BY <1>1, <1>3, <1>4, <1>5, <2>1, <2>2 DEF Where, Editing, Judging, Current, Run
<1> HIDE DEF l, s, next
<1>8. next.pc \notin {"idle", "sent"}
  BY <1>5
<1>9. Persist(s, next, l)
  BY <1>2 DEF l, s, next
<1> QED
  BY <1>1, <1>3, <1>4, <1>5, <1>6, <1>7, <1>8, <1>9, Persisted

LEMMA ContextLimitKept == ASSUME IInv, ContextLimit PROVE IInv'
<1>1. /\ run.pc = "sent" /\ run.pc # "idle" /\ At({"sent"}) /\ UNCHANGED <<prov, task>>
  BY DEF ContextLimit, At
<1> DEFINE s == Settled(run.state, 0, run.who = "review" /\ run.doubt)
           next == Goto(IF run.who = "editor" THEN "loop" ELSE "review")
<1>2. Persist(s, next, log)
  BY DEF ContextLimit, State
<1>3. /\ next \in Run /\ next.prov = run.prov /\ next.who = run.who
      /\ next.pc = IF run.who = "editor" THEN "loop" ELSE "review"
  BY <1>1, Working DEF Goto, Run
<1>4. /\ s \in RepairState /\ s.cand = run.state.cand /\ s.reviews = run.state.reviews
      /\ s.rev = run.state.rev /\ s.known = run.state.known + 0
      /\ run.state.known <= log.billed
      /\ s.uncertain \/ (s.turns >= log.sent /\ run.state.known = log.billed)
  BY <1>1, SettledBooks
<1>5. /\ run.state \in RepairState /\ run.state.known \in Nat /\ LogOK(log)
      /\ Grown(log, log) /\ Sound(run.prov, run.state, log) /\ Where(run, disk, log)
      /\ run.who \in {"editor", "review"}
  BY <1>1, Working DEF RepairState, Run
<1> HIDE DEF s, next
<1>6. s.uncertain \/ Counts(s, 0, log)
  BY <1>4, <1>5 DEF Counts, RepairState
<1>7. Sound(run.prov, s, log)
  BY <1>4, <1>5, Rebooked
<1>8. Where([next EXCEPT !.state = s], [prov |-> run.prov, state |-> s], log)
  BY <1>1, <1>3, <1>4, <1>5 DEF Where, Editing, Judging, Current, Run
<1>9. next.pc \notin {"idle", "sent"}
  BY <1>3
<1> QED
  BY <1>1, <1>2, <1>3, <1>4, <1>5, <1>6, <1>7, <1>8, <1>9, Persisted

(* A change of the state that leaves the books alone, saved in a call that
   is not waiting for an answer. *)
LEMMA ChangeSaved ==
    ASSUME IInv, run.pc \notin {"idle", "sent"}, UNCHANGED <<prov, task>>,
           NEW s \in RepairState, NEW next \in Run, NEW l, Persist(s, next, l),
           next.pc \notin {"idle", "sent"}, next.prov = run.prov,
           Sound(run.prov, s, l),
           s.uncertain = run.state.uncertain, s.turns = run.state.turns,
           s.known = run.state.known,
           Grown(log, l), l.sent = log.sent, l.billed = log.billed,
           Where([next EXCEPT !.state = s], [prov |-> run.prov, state |-> s], l)
    PROVE  IInv'
<1>1. s.uncertain \/ Counts(s, 0, l)
  BY Working DEF Booked, Counts
<1> QED
  BY <1>1, Persisted

LEMMA UpdatePlanKept == ASSUME IInv, UpdatePlan PROVE IInv'
<1>1. /\ run.pc \in {"answered", "calls"} /\ UNCHANGED <<prov, task>>
  BY DEF UpdatePlan, Calling, At
<1>2. PICK plan \in Plans \ {"none"} :
          Persist([run.state EXCEPT !.rev = @ + 1, !.plan = plan], Goto("calls"), log)
  BY DEF UpdatePlan, State
<1> DEFINE s == [run.state EXCEPT !.rev = @ + 1, !.plan = plan]
           next == Goto("calls")
<1>3. /\ run.state \in RepairState /\ run \in Run /\ run.prov \in Provs
      /\ LogOK(log) /\ Grown(log, log)
      /\ Sound(run.prov, run.state, log) /\ Where(run, disk, log)
  BY <1>1, Working
<1>4. /\ s \in RepairState /\ s.cand = run.state.cand /\ s.reviews = run.state.reviews
      /\ s.turns = run.state.turns /\ s.known = run.state.known
      /\ s.uncertain = run.state.uncertain
  <2>1. run.state.rev + 1 \in Nat /\ plan \in Plans
    BY <1>3 DEF RepairState
  <2> QED
    BY <1>3, <2>1 DEF RepairState
<1>5. next \in Run /\ next.prov = run.prov /\ next.pc = "calls"
  BY <1>3 DEF Goto, Run
<1>6. log.demanded => run.state.reviews # "passed"
  BY <1>1, <1>3 DEF Where, Editing
<1> HIDE DEF s, next
<1>7. Sound(run.prov, s, log)
  BY <1>3, <1>4, <1>6 DEF Sound, Approved, Matches, Demands
<1>8. [prov |-> run.prov, state |-> s] # None
  BY <1>3, <1>4, Some DEF Checkpoint
<1>9. Where([next EXCEPT !.state = s], [prov |-> run.prov, state |-> s], log)
  BY <1>4, <1>5, <1>6, <1>8 DEF Where, Editing, Judging, Run
<1>10. Persist(s, next, log) /\ run.pc \notin {"idle", "sent"}
  BY <1>1, <1>2 DEF s, next
<1> QED
  BY <1>1, <1>3, <1>4, <1>5, <1>7, <1>9, <1>10, ChangeSaved

(* Dropping the candidate. *)
LEMMA Dropped ==
    ASSUME NEW p, NEW s \in RepairState, NEW l, NEW z \in RepairState, LogOK(l),
           Sound(p, s, l), l.demanded => s.reviews # "passed",
           z.cand = None, z.reviews = s.reviews, z.known = s.known
    PROVE  Sound(p, z, l)
  BY DEF Sound, Approved, Matches, Demands

LEMMA StageKept == ASSUME IInv, Stage PROVE IInv'
<1>1. /\ run.pc \in {"answered", "calls"} /\ UNCHANGED <<prov, task>>
  BY DEF Stage, Calling, At
<1>2. /\ run.state \in RepairState /\ run \in Run /\ run.prov \in Provs
      /\ LogOK(log) /\ Grown(log, log)
      /\ Sound(run.prov, run.state, log) /\ Where(run, disk, log)
  BY <1>1, Working
<1>3. PICK edits \in Edits \cup {None} :
          Persist(Staged(run.state, edits), Goto("calls"), log)
  BY <1>2 DEF Stage, State, RepairState
<1> DEFINE s == Staged(run.state, edits)
           next == Goto("calls")
<1>4. /\ s \in RepairState /\ s.cand = None /\ s.reviews = run.state.reviews
      /\ s.turns = run.state.turns /\ s.known = run.state.known
      /\ s.uncertain = run.state.uncertain
  BY <1>2 DEF RepairState, Staged
<1>5. next \in Run /\ next.prov = run.prov /\ next.pc = "calls"
  BY <1>2 DEF Goto, Run
<1>6. log.demanded => run.state.reviews # "passed"
  BY <1>1, <1>2 DEF Where, Editing
<1> HIDE DEF s, next
<1>7. Sound(run.prov, s, log)
  BY <1>2, <1>4, <1>6, Dropped
<1>8. [prov |-> run.prov, state |-> s] # None
  BY <1>2, <1>4, Some DEF Checkpoint
<1>9. Where([next EXCEPT !.state = s], [prov |-> run.prov, state |-> s], log)
  BY <1>4, <1>5, <1>6, <1>8 DEF Where, Editing, Judging, Run
<1>10. Persist(s, next, log) /\ run.pc \notin {"idle", "sent"}
  BY <1>1, <1>3 DEF s, next
<1> QED
  BY <1>1, <1>2, <1>4, <1>5, <1>7, <1>9, <1>10, ChangeSaved

LEMMA ValidateKept == ASSUME IInv, Validate PROVE IInv'
<1>1. /\ run.pc \in {"answered", "calls"} /\ UNCHANGED <<prov, task>>
  BY DEF Validate, Calling, At
<1>2. /\ run.state \in RepairState /\ run \in Run /\ run.prov \in Provs
      /\ LogOK(log) /\ Grown(log, log)
      /\ Sound(run.prov, run.state, log) /\ Where(run, disk, log)
  BY <1>1, Working
<1>3. PICK edits \in Edits :
          Persist([run.state EXCEPT !.cand = None],
                  [Goto("validate") EXCEPT !.edits = edits], log)
  BY DEF Validate, State
<1> DEFINE s == [run.state EXCEPT !.cand = None]
           next == [Goto("validate") EXCEPT !.edits = edits]
<1>4. /\ s \in RepairState /\ s.cand = None /\ s.reviews = run.state.reviews
      /\ s.turns = run.state.turns /\ s.known = run.state.known
      /\ s.uncertain = run.state.uncertain
  BY <1>2 DEF RepairState
<1>5. next \in Run /\ next.prov = run.prov /\ next.pc = "validate"
  BY <1>2 DEF Goto, Run
<1>6. log.demanded => run.state.reviews # "passed"
  BY <1>1, <1>2 DEF Where, Editing
<1> HIDE DEF s, next
<1>7. Sound(run.prov, s, log)
  BY <1>2, <1>4, <1>6, Dropped
<1>8. [prov |-> run.prov, state |-> s] # None
  BY <1>2, <1>4, Some DEF Checkpoint
<1>9. Where([next EXCEPT !.state = s], [prov |-> run.prov, state |-> s], log)
  BY <1>4, <1>5, <1>6, <1>8 DEF Where, Editing, Judging, Run
<1>10. Persist(s, next, log) /\ run.pc \notin {"idle", "sent"}
  BY <1>1, <1>3 DEF s, next
<1> QED
  BY <1>1, <1>2, <1>4, <1>5, <1>7, <1>9, <1>10, ChangeSaved

LEMMA ValidatedKept == ASSUME IInv, Validated PROVE IInv'
<1>1. run.pc = "validate" /\ UNCHANGED <<prov, task>>
  BY DEF Validated, At
<1>2. /\ run.state \in RepairState /\ run \in Run /\ run.prov \in Provs
      /\ LogOK(log) /\ Grown(log, log)
      /\ Sound(run.prov, run.state, log) /\ Where(run, disk, log)
      /\ run.edits \in Edits \cup {None}
  BY <1>1, Working DEF Run
<1>3. log.demanded => run.state.reviews # "passed"
  BY <1>1, <1>2 DEF Where, Editing
<1>4. ASSUME NEW passed \in BOOLEAN,
             Persist([run.state EXCEPT !.staged = run.edits, !.cand =
                        [unchanged |-> FALSE, rev |-> run.state.rev,
                         edits |-> run.edits, passed |-> passed,
                         requested |-> FALSE, review |-> None]],
                     Goto("calls"), log)
      PROVE  IInv'
  <2> DEFINE c == [unchanged |-> FALSE, rev |-> run.state.rev,
                   edits |-> run.edits, passed |-> passed,
                   requested |-> FALSE, review |-> None]
             s == [run.state EXCEPT !.staged = run.edits, !.cand = c]
             next == Goto("calls")
  <2>1. /\ c \in Candidate /\ c.review = None /\ ~ c.unchanged
    BY <1>2 DEF Candidate, RepairState
  <2> HIDE DEF c
  <2>2. /\ s \in RepairState /\ s.cand = c /\ s.reviews = run.state.reviews
        /\ s.turns = run.state.turns /\ s.known = run.state.known
        /\ s.uncertain = run.state.uncertain
    BY <1>2, <2>1 DEF RepairState
  <2>3. next \in Run /\ next.prov = run.prov /\ next.pc = "calls"
    BY <1>2 DEF Goto, Run
  <2> HIDE DEF s, next
  <2>4. None \notin Accepting
    BY Some DEF Accepting, Verdicts, Finished
  <2>5. Sound(run.prov, s, log)
    BY <1>2, <1>3, <2>1, <2>2, <2>4 DEF Sound, Approved, Matches, Demands
  <2>6. [prov |-> run.prov, state |-> s] # None
    BY <1>2, <2>2, Some DEF Checkpoint
  <2>7. Where([next EXCEPT !.state = s], [prov |-> run.prov, state |-> s], log)
    BY <1>3, <2>2, <2>3, <2>6 DEF Where, Editing, Judging, Run
  <2>8. Persist(s, next, log) /\ run.pc \notin {"idle", "sent"}
    BY <1>1, <1>4 DEF s, next, c
  <2> QED
    BY <1>1, <1>2, <2>2, <2>3, <2>5, <2>7, <2>8, ChangeSaved
<1>5. ASSUME run' = Give("error"), UNCHANGED <<disk, log>>
      PROVE  IInv'
  <2>1. /\ run' \in Run /\ run'.pc = "leave" /\ run'.prov = run.prov
        /\ run'.state = run.state /\ run'.outcome = "error"
    BY <1>2, <1>5 DEF Give, Run, Outcomes
  <2>2. run.state.uncertain \/ Counts(run.state, 0, log)
    BY <1>1, Working DEF Booked
  <2>3. CallOK(run', disk, log)
    BY <1>2, <2>1, <2>2 DEF CallOK, Booked, Where, Editing, Judging
  <2> QED
    BY <1>1, <1>2, <1>5, <2>1, <2>3, CallMoved
<1> QED
  BY <1>4, <1>5 DEF Validated, State

(* The review of the candidate begins. *)
LEMMA ReviewKept == ASSUME IInv, Review PROVE IInv'
<1>1. run.pc = "final" /\ UNCHANGED <<prov, task>>
  BY DEF Review, At
<1>2. /\ run.state \in RepairState /\ run \in Run /\ run.prov \in Provs
      /\ LogOK(log) /\ Grown(log, log)
      /\ Sound(run.prov, run.state, log) /\ Where(run, disk, log)
  BY <1>1, Working
<1>3. Current(run.state) /\ run.state.cand \in Candidate
  BY <1>1, <1>2 DEF Where, Current, RepairState
<1>4. ASSUME run.state.cand.review \in Finished, run' = Goto("judged"),
             UNCHANGED <<disk, log>>
      PROVE  IInv'
  <2>1. /\ run' \in Run /\ run'.pc = "judged" /\ run'.prov = run.prov
        /\ run'.state = run.state
    BY <1>2, <1>4 DEF Goto, Run
  <2>2. run.state.uncertain \/ Counts(run.state, 0, log)
    BY <1>1, Working DEF Booked
  <2>3. disk # None /\ SameReview(disk.state, run.state)
    BY <1>1, <1>2, <1>4 DEF Where
  <2>4. CallOK(run', disk, log)
    BY <1>2, <1>3, <1>4, <2>1, <2>2, <2>3 DEF CallOK, Booked, Where, Editing, Judging
  <2> QED
    BY <1>1, <1>2, <1>4, <2>1, <2>4, CallMoved
<1>5. ASSUME run.state.cand.review \notin Finished,
             Persist([run.state EXCEPT !.cand.requested = TRUE], Goto("review"), log)
      PROVE  IInv'
  <2> DEFINE c == [run.state.cand EXCEPT !.requested = TRUE]
             s == [run.state EXCEPT !.cand.requested = TRUE]
             next == Goto("review")
  <2>1. /\ c \in Candidate /\ c.review = run.state.cand.review
        /\ c.unchanged = run.state.cand.unchanged /\ c.edits = run.state.cand.edits
        /\ c.rev = run.state.cand.rev /\ c.requested
    BY <1>3 DEF Candidate
  <2>2. s = [run.state EXCEPT !.cand = c]
    BY <1>2 DEF RepairState
  <2> HIDE DEF c, s
  <2>3. /\ s \in RepairState /\ s.cand = c /\ s.reviews = run.state.reviews
        /\ s.turns = run.state.turns /\ s.known = run.state.known
        /\ s.uncertain = run.state.uncertain /\ s.rev = run.state.rev
    BY <1>2, <2>1, <2>2 DEF RepairState
  <2>4. next \in Run /\ next.prov = run.prov /\ next.pc = "review"
    BY <1>2 DEF Goto, Run
  <2> HIDE DEF next
  <2>5. c # None
    BY <2>1, Some
  <2>6. Sound(run.prov, s, log)
    BY <1>2, <1>3, <2>1, <2>3, <2>5 DEF Sound, Approved, Matches, Demands, Current, Reviewing
  <2>7. ~ (log.demanded /\ c.unchanged)
    BY <1>2, <1>3, <1>5, <2>1 DEF Sound, Demands, Current
  <2>8. Where([next EXCEPT !.state = s], [prov |-> run.prov, state |-> s], log)
    BY <1>3, <2>1, <2>3, <2>4, <2>5, <2>7 DEF Where, Editing, Judging, Current, Run
  <2>9. Persist(s, next, log) /\ run.pc \notin {"idle", "sent"}
    BY <1>1, <1>5 DEF s, next
  <2> QED
    BY <1>1, <1>2, <2>3, <2>4, <2>6, <2>8, <2>9, ChangeSaved
<1> QED
  BY <1>4, <1>5 DEF Review, State

(* A review's progress or verdict in the state. *)
LEMMA PublishedType ==
    ASSUME NEW s \in RepairState, s.cand # None, NEW verdict \in Verdicts,
           NEW z, z = Published(s, verdict)
    PROVE  /\ z \in RepairState /\ z.cand \in Candidate /\ z.cand # None
           /\ z.cand.review = verdict /\ z.reviews = verdict
           /\ z.cand.unchanged = s.cand.unchanged /\ z.cand.edits = s.cand.edits
           /\ z.cand.rev = s.cand.rev /\ z.cand.requested = s.cand.requested
           /\ z.cand.passed = s.cand.passed
           /\ z.rev = s.rev /\ z.plan = s.plan /\ z.turns = s.turns
           /\ z.known = s.known /\ z.uncertain = s.uncertain
           /\ z.pending = s.pending
<1> DEFINE c == [s.cand EXCEPT !.review = verdict]
<1>1. s.cand \in Candidate
  BY DEF RepairState
<1>2. /\ c \in Candidate /\ c.review = verdict /\ c.unchanged = s.cand.unchanged
      /\ c.edits = s.cand.edits /\ c.rev = s.cand.rev
      /\ c.requested = s.cand.requested /\ c.passed = s.cand.passed
  BY <1>1 DEF Candidate
<1>3. c # None
  BY <1>2, Some
<1>4. z = [s EXCEPT !.cand = c, !.reviews = verdict]
  BY DEF Published
<1> HIDE DEF c
<1>5. /\ z.cand = c /\ z.reviews = verdict
      /\ z.rev = s.rev /\ z.plan = s.plan /\ z.turns = s.turns
      /\ z.known = s.known /\ z.uncertain = s.uncertain /\ z.pending = s.pending
  BY <1>4 DEF RepairState
<1>6. z \in RepairState
  BY <1>2, <1>4 DEF RepairState
<1> QED
  BY <1>2, <1>3, <1>5, <1>6

(* One that neither passes nor reserves anything. *)
LEMMA PublishedSound ==
    ASSUME NEW p, NEW s \in RepairState, s.cand # None, NEW l, LogOK(l), Sound(p, s, l),
           ~ (l.demanded /\ s.cand.unchanged), NEW verdict \in Verdicts \ Accepting
    PROVE  Sound(p, Published(s, verdict), l)
<1> DEFINE z == Published(s, verdict)
<1>1. /\ z.cand \in Candidate /\ z.cand # None /\ z.cand.review = verdict
      /\ z.reviews = verdict /\ z.cand.unchanged = s.cand.unchanged
      /\ z.known = s.known
  BY PublishedType
<1>2. verdict # None /\ verdict # "passed"
  BY Some DEF Accepting
<1> HIDE DEF z
<1>3. Sound(p, z, l)
  BY <1>1, <1>2 DEF Sound, Approved, Matches, Demands
<1> QED
  BY <1>3 DEF z

LEMMA ConcludeKept == ASSUME IInv, Conclude PROVE IInv'
<1>1. run.pc = "verdict" /\ UNCHANGED <<prov, task>>
  BY DEF Conclude, At
<1>2. /\ run.state \in RepairState /\ run \in Run /\ run.prov \in Provs
      /\ LogOK(log) /\ Grown(log, log)
      /\ Sound(run.prov, run.state, log) /\ Where(run, disk, log)
  BY <1>1, Working
<1>3. /\ Current(run.state) /\ run.state.cand.requested /\ run.state.cand # None
      /\ ~ (log.demanded /\ run.state.cand.unchanged)
  BY <1>1, <1>2 DEF Where, Judging, Current
<1>4. PICK verdict \in Finished :
          LET s == Published(run.state, verdict) IN
          Persist(s, Goto("judged"), [log EXCEPT !.approved =
            IF verdict \in Accepting THEN @ \cup {ResultOf(s)} ELSE @])
  BY DEF Conclude, State
<1> DEFINE s == Published(run.state, verdict)
           next == Goto("judged")
           l == [log EXCEPT !.approved =
                   IF verdict \in Accepting THEN @ \cup {ResultOf(s)} ELSE @]
<1>5. verdict \in Verdicts
  BY DEF Verdicts
<1>6. /\ s \in RepairState /\ s.cand \in Candidate /\ s.cand # None
      /\ s.cand.review = verdict /\ s.reviews = verdict
      /\ s.cand.unchanged = run.state.cand.unchanged
      /\ s.cand.rev = run.state.cand.rev
      /\ s.cand.requested = run.state.cand.requested
      /\ s.rev = run.state.rev /\ s.turns = run.state.turns
      /\ s.known = run.state.known /\ s.uncertain = run.state.uncertain
  <2>1. PICK r : r = run.state
    OBVIOUS
  <2>2. s = Published(r, verdict) /\ r.cand # None /\ r \in RepairState
    BY <1>2, <1>3, <2>1
  <2> HIDE DEF s
  <2>3. /\ s \in RepairState /\ s.cand \in Candidate /\ s.cand # None
        /\ s.cand.review = verdict /\ s.reviews = verdict
        /\ s.cand.unchanged = r.cand.unchanged
        /\ s.cand.rev = r.cand.rev
        /\ s.cand.requested = r.cand.requested
        /\ s.rev = r.rev /\ s.turns = r.turns
        /\ s.known = r.known /\ s.uncertain = r.uncertain
    BY <1>5, <2>2, PublishedType
  <2> QED
    BY <2>1, <2>3
<1>7. next \in Run /\ next.prov = run.prov /\ next.pc = "judged"
  BY <1>2 DEF Goto, Run
<1> HIDE DEF s, next
<1>8. ResultOf(s) = [prov |-> run.prov, edits |-> s.cand.edits,
                     partial |-> s.cand.review = "held"]
  BY DEF ResultOf
<1>9. ResultOf(s) \in Result
  <2>1. s.cand.edits \in Edits \cup {None} /\ (s.cand.review = "held") \in BOOLEAN
    BY <1>6 DEF Candidate
  <2> QED
    BY <1>2, <1>8, <2>1 DEF Result
<1>10. /\ Grown(log, l) /\ l.sent = log.sent /\ l.billed = log.billed
       /\ l.demanded = log.demanded
       /\ verdict \in Accepting => ResultOf(s) \in l.approved
  BY <1>2, <1>9 DEF LogOK, Grown
<1> HIDE DEF l
<1>11. Sound(run.prov, s, l)
  <2>1. verdict # None
    BY <1>5, Some
  <2>2. Approved(run.prov, s, l)
    BY <1>6, <1>8, <1>10 DEF Approved
  <2>3. Matches(s)
    BY <1>6 DEF Matches
  <2>4. l.demanded => Demands(s)
    BY <1>3, <1>6, <1>10, <2>1 DEF Demands, Reviewing, Current
  <2>5. s.known <= l.billed
    BY <1>2, <1>6, <1>10 DEF Sound
  <2> QED
    BY <2>2, <2>3, <2>4, <2>5 DEF Sound
<1>12. [prov |-> run.prov, state |-> s] # None
  BY <1>2, <1>6, Some DEF Checkpoint
<1>13. Where([next EXCEPT !.state = s], [prov |-> run.prov, state |-> s], l)
  BY <1>3, <1>6, <1>7, <1>12 DEF Where, Editing, Judging, Current, SameReview, Run
<1>14. Persist(s, next, l) /\ run.pc \notin {"idle", "sent"}
  BY <1>1, <1>4 DEF s, next, l
<1> QED
  BY <1>1, <1>2, <1>6, <1>7, <1>10, <1>11, <1>13, <1>14, ChangeSaved

-----------------------------------------------------------------------------
(* Requests. *)

LEMMA ReservedType ==
    ASSUME NEW s \in RepairState, NEW z, z = Reserved(s)
    PROVE  /\ z \in RepairState /\ z.cand = s.cand /\ z.reviews = s.reviews
           /\ z.rev = s.rev /\ z.turns = s.turns + 1 /\ z.known = s.known
           /\ z.uncertain = s.uncertain /\ z.pending = TRUE
<1>1. s.turns + 1 \in Nat
  BY DEF RepairState
<1> QED
  BY <1>1 DEF Reserved, RepairState

(* A request of who, with the state s reserved. *)
LEMMA Asked ==
    ASSUME IInv, run.pc \notin {"idle", "sent"}, NEW who \in {"editor", "review"},
           NEW s \in RepairState, Ask(who, s), s.pending = TRUE,
           s.uncertain = run.state.uncertain, s.turns = run.state.turns + 1,
           s.known = run.state.known, Sound(run.prov, s, log),
           who = "editor" /\ log.demanded => s.reviews # "passed",
           who = "review" => /\ Current(s) /\ s.cand.requested
                             /\ ~ (log.demanded /\ s.cand.unchanged)
    PROVE  IInv'
<1>1. /\ run.state \in RepairState /\ run \in Run /\ run.prov \in Provs
      /\ LogOK(log) /\ Grown(log, log) /\ Booked(run, log)
      /\ disk \in Checkpoint \cup {None}
  BY Working
<1>2. /\ prov' \in Provs /\ task' \in Task /\ task' = task /\ prov' = prov
      /\ task.status = "running"
  BY DEF Ask, IInv, TypeOK, At
<1>3. /\ run.state.turns \in Nat /\ run.state.known \in Nat
      /\ log.sent \in Nat /\ log.billed \in Nat
  BY <1>1 DEF RepairState, LogOK
<1>4. CASE /\ disk' = [prov |-> run.prov, state |-> s]
           /\ run' = [run EXCEPT !.pc = "sent", !.who = who, !.tries = 1,
                                 !.doubt = FALSE, !.state = s]
           /\ log' = [log EXCEPT !.sent = @ + 1]
  <2>1. disk' \in Checkpoint /\ disk' # None /\ disk'.prov = run.prov /\ disk'.state = s
    BY <1>1, <1>4, Some DEF Checkpoint
  <2>2. /\ run' \in Run /\ run'.pc = "sent" /\ run'.prov = run.prov /\ run'.state = s
        /\ run'.who = who /\ run'.tries = 1
    BY <1>1, <1>4 DEF Run
  <2>3. /\ LogOK(log') /\ log'.sent = log.sent + 1 /\ log'.billed = log.billed
        /\ log'.approved = log.approved /\ log'.demanded = log.demanded
    BY <1>1, <1>4 DEF LogOK
  <2>4. Sound(run.prov, s, log')
    BY <2>3 DEF Sound, Approved
  <2>5. Saved(disk', log')
    BY <2>1, <2>4 DEF Saved
  <2>6. s.uncertain \/ Counts(s, 0, log')
    BY <1>3, <2>3 DEF Booked, Counts, Working, IInv, CallOK
  <2>7. Booked(run', log')
    BY <1>3, <2>2, <2>6 DEF Booked, Counts
  <2>8. Where(run', disk', log')
    BY <2>1, <2>2, <2>3 DEF Where, Editing, Judging
  <2>9. CallOK(run', disk', log')
    BY <1>1, <2>2, <2>4, <2>7, <2>8 DEF CallOK
  <2>10. TaskOK(task', disk', log')
    BY <1>2, <2>1, <2>3 DEF IInv, TaskOK
  <2> QED
    BY <1>2, <2>1, <2>2, <2>3, <2>5, <2>9, <2>10, Kept
<1>5. CASE /\ run' = [Give("error") EXCEPT
                !.state = IF who = "review" THEN Published(s, "error") ELSE s]
           /\ log' = Faulted(log)
           /\ UNCHANGED disk
  <2> DEFINE z == IF who = "review" THEN Published(s, "error") ELSE s
  <2>1. /\ z \in RepairState /\ z.uncertain = s.uncertain /\ z.turns = s.turns
        /\ z.known = s.known
    BY PublishedType DEF Current, Verdicts, Finished
  <2>2. Sound(run.prov, z, log)
    <3>1. "error" \in Verdicts \ Accepting
      BY DEF Verdicts, Finished, Accepting
    <3> QED
      BY <1>1, <3>1, PublishedSound DEF Current
  <2> HIDE DEF z
  <2>3. /\ run' \in Run /\ run'.pc = "leave" /\ run'.prov = run.prov
        /\ run'.state = z /\ run'.outcome = "error"
    BY <1>1, <1>5, <2>1 DEF Give, Run, Outcomes, z
  <2>4. /\ LogOK(log') /\ log'.sent = log.sent /\ log'.billed = log.billed
        /\ log'.approved = log.approved /\ log'.demanded = log.demanded
    BY <1>1, <1>5 DEF LogOK, Faulted
  <2>5. Sound(run.prov, z, log') /\ Grown(log, log')
    BY <2>2, <2>4 DEF Sound, Approved, Grown, LogOK
  <2>6. z.uncertain \/ Counts(z, 0, log')
    BY <1>1, <1>3, <2>1, <2>4 DEF Booked, Counts
  <2>7. CallOK(run', disk, log')
    BY <1>1, <2>3, <2>5, <2>6 DEF CallOK, Booked, Where, Editing, Judging
  <2> QED
    BY <1>2, <1>5, <2>3, <2>4, <2>5, <2>7, CallMoved
<1> QED
  BY <1>4, <1>5 DEF Ask

LEMMA AskEditorKept == ASSUME IInv, AskEditor PROVE IInv'
<1>1. run.pc \in {"loop", "answered", "calls"} /\ Ask("editor", Reserved(run.state))
  BY DEF AskEditor, At, State
<1>2. /\ run.state \in RepairState /\ LogOK(log) /\ Grown(log, log)
      /\ Sound(run.prov, run.state, log) /\ Where(run, disk, log)
  BY <1>1, Working
<1> DEFINE s == Reserved(run.state)
<1>3. /\ s \in RepairState /\ s.cand = run.state.cand /\ s.reviews = run.state.reviews
      /\ s.rev = run.state.rev /\ s.turns = run.state.turns + 1
      /\ s.known = run.state.known
      /\ s.uncertain = run.state.uncertain /\ s.pending = TRUE
  BY <1>2, ReservedType
<1>4. Ask("editor", s)
  BY <1>1
<1> HIDE DEF s
<1>5. s.known <= log.billed
  BY <1>2, <1>3 DEF Sound
<1>6. Sound(run.prov, s, log)
  BY <1>2, <1>3, <1>5, Rebooked
<1>7. log.demanded => s.reviews # "passed"
  BY <1>1, <1>2, <1>3 DEF Where, Editing
<1> QED
  BY <1>1, <1>3, <1>4, <1>6, <1>7, Asked

LEMMA AskReviewerKept == ASSUME IInv, AskReviewer PROVE IInv'
<1>1. /\ run.pc \in {"review", "verdict"}
      /\ Ask("review", Published(Reserved(run.state), "running"))
  BY DEF AskReviewer, At, State
<1>2. /\ run.state \in RepairState /\ LogOK(log) /\ Grown(log, log)
      /\ Sound(run.prov, run.state, log) /\ Where(run, disk, log)
  BY <1>1, Working
<1>3. /\ Current(run.state) /\ run.state.cand # None /\ run.state.cand.requested
      /\ ~ (log.demanded /\ run.state.cand.unchanged)
  BY <1>1, <1>2 DEF Where, Judging, Current
<1> DEFINE r == Reserved(run.state)
           s == Published(r, "running")
<1>4. /\ r \in RepairState /\ r.cand = run.state.cand /\ r.reviews = run.state.reviews
      /\ r.rev = run.state.rev /\ r.turns = run.state.turns + 1
      /\ r.known = run.state.known
      /\ r.uncertain = run.state.uncertain /\ r.pending = TRUE
  BY <1>2, ReservedType
<1>5. Ask("review", s)
  BY <1>1
<1>6. "running" \in Verdicts \ Accepting
  BY DEF Verdicts, Finished, Accepting
<1> HIDE DEF r
<1>7. r.known <= log.billed
  BY <1>2, <1>4 DEF Sound
<1>8. Sound(run.prov, r, log)
  BY <1>2, <1>4, <1>7, Rebooked
<1>9. Sound(run.prov, s, log)
  BY <1>2, <1>3, <1>4, <1>6, <1>8, PublishedSound
<1>10. /\ s \in RepairState /\ s.cand # None
       /\ s.cand.unchanged = run.state.cand.unchanged
       /\ s.cand.rev = run.state.cand.rev
       /\ s.cand.requested = run.state.cand.requested
       /\ s.rev = run.state.rev /\ s.turns = run.state.turns + 1
       /\ s.known = run.state.known
       /\ s.uncertain = run.state.uncertain /\ s.pending = TRUE
  <2>1. s = Published(r, "running") /\ r.cand # None /\ "running" \in Verdicts
    BY <1>3, <1>4, <1>6
  <2> HIDE DEF s
  <2>2. /\ s \in RepairState /\ s.cand # None
        /\ s.cand.unchanged = r.cand.unchanged
        /\ s.cand.rev = r.cand.rev
        /\ s.cand.requested = r.cand.requested
        /\ s.rev = r.rev /\ s.turns = r.turns
        /\ s.known = r.known /\ s.uncertain = r.uncertain
        /\ s.pending = r.pending
    BY <1>4, <2>1, PublishedType
  <2> QED
    BY <1>4, <2>2
<1> HIDE DEF s
<1>11. /\ Current(s) /\ s.cand.requested
       /\ ~ (log.demanded /\ s.cand.unchanged)
  BY <1>3, <1>10 DEF Current
<1> QED
  BY <1>1, <1>5, <1>9, <1>10, <1>11, Asked

(* Sent again: what was billed unseen stays in doubt. *)
LEMMA ResendKept == ASSUME IInv, Resend PROVE IInv'
<1>1. run.pc = "sent" /\ UNCHANGED <<prov, task, disk>>
  BY DEF Resend, At
<1>2. /\ run.state \in RepairState /\ run \in Run /\ run.prov \in Provs
      /\ LogOK(log) /\ Grown(log, log)
      /\ Sound(run.prov, run.state, log) /\ Where(run, disk, log)
      /\ Booked(run, log) /\ disk \in Checkpoint \cup {None}
  BY <1>1, Working
<1>3. PICK throttled \in BOOLEAN, billed \in 0 .. 1 :
         /\ throttled => billed = 0
         /\ run' = [run EXCEPT !.tries = @ + 1, !.doubt = @ \/ ~ throttled]
         /\ log' = [log EXCEPT !.sent = @ + 1, !.billed = @ + billed]
  BY DEF Resend
<1>4. /\ log.sent \in Nat /\ log.billed \in Nat /\ billed \in Nat
      /\ run.tries \in Nat /\ run.state.turns \in Nat /\ run.state.known \in Nat
  BY <1>2 DEF LogOK, Run, RepairState
<1>5. /\ LogOK(log') /\ log'.sent = log.sent + 1 /\ log'.billed = log.billed + billed
      /\ log'.approved = log.approved /\ log'.demanded = log.demanded
  <2>1. log.sent + 1 \in Nat /\ log.billed + billed \in Nat
    BY <1>4
  <2> QED
    BY <1>2, <1>3, <2>1 DEF LogOK
<1>6. Grown(log, log')
  BY <1>4, <1>5 DEF Grown
<1>7. /\ run' = [run EXCEPT !.tries = run.tries + 1, !.doubt = run'.doubt]
      /\ run'.doubt \in BOOLEAN /\ (run'.doubt <=> run.doubt \/ ~ throttled)
  <2> DEFINE d == run.doubt \/ ~ throttled
  <2>1. run' = [run EXCEPT !.tries = run.tries + 1, !.doubt = d]
    BY <1>3
  <2>2. d \in BOOLEAN /\ (d <=> run.doubt \/ ~ throttled)
    OBVIOUS
  <2> HIDE DEF d
  <2>3. run'.doubt = d
    BY <1>2, <2>1 DEF Run
  <2> QED
    BY <2>1, <2>2, <2>3
<1>8. /\ run' \in Run /\ run'.pc = "sent" /\ run'.prov = run.prov
      /\ run'.state = run.state /\ run'.who = run.who /\ run'.tries = run.tries + 1
  <2>1. run.tries + 1 \in Nat
    BY <1>4
  <2> QED
    BY <1>1, <1>2, <1>7, <2>1 DEF Run
<1>9. disk # None /\ disk.state.pending
  BY <1>1, <1>2 DEF Where
<1>10. Saved(disk, log')
  BY <1>2, <1>6, <1>9, StillSaved DEF IInv
<1>11. Sound(run.prov, run.state, log')
  BY <1>2, <1>6, StillSound
<1>12. Booked(run', log')
  <2>1. run.state.uncertain \/ run.doubt \/ Counts(run.state, run.tries - 1, log)
    BY <1>1, <1>2 DEF Booked
  <2>2. ASSUME throttled, Counts(run.state, run.tries - 1, log)
        PROVE  Counts(run.state, run'.tries - 1, log')
    BY <1>3, <1>4, <1>5, <1>8, <2>2 DEF Counts
  <2> QED
    BY <1>7, <1>8, <2>1, <2>2 DEF Booked
<1>13. Where(run', disk, log')
  BY <1>1, <1>2, <1>4, <1>5, <1>8 DEF Where, Editing, Judging
<1>14. CallOK(run', disk, log')
  BY <1>2, <1>8, <1>11, <1>12, <1>13 DEF CallOK
<1>15. /\ task.usage.known \in Nat /\ task \in Task /\ prov \in Provs
       /\ task.status = "running" /\ (task.open => disk # None)
  BY <1>1 DEF IInv, TypeOK, At, Task, Usage
<1>16. TaskOK(task, disk, log')
  BY <1>4, <1>5, <1>9, <1>15 DEF IInv, TaskOK
<1> QED
  BY <1>1, <1>2, <1>5, <1>8, <1>10, <1>14, <1>15, <1>16, Kept

(* The state a call leaves with, after a step that only adds to what was
   billed, is kept for the deferred save. *)
LEMMA LeftWith ==
    ASSUME IInv, run.pc # "idle", UNCHANGED <<prov, task, disk>>,
           NEW outcome \in {"error", "needs_human"}, NEW s \in RepairState,
           run' = [Give(outcome) EXCEPT !.state = s],
           Grown(log, log'), log'.sent = log.sent,
           log'.billed = log.billed \/ run.pc = "sent",
           Sound(run.prov, s, log'), s.uncertain \/ Counts(s, 0, log')
    PROVE  IInv'
<1>1. /\ run \in Run /\ run.prov \in Provs
  BY Working
<1>2. /\ run' \in Run /\ run'.pc = "leave" /\ run'.prov = run.prov
      /\ run'.state = s /\ run'.outcome = outcome
  BY <1>1 DEF Give, Run, Outcomes
<1>3. CallOK(run', disk, log')
  BY <1>1, <1>2 DEF CallOK, Booked, Where, Editing, Judging
<1> QED
  BY <1>2, <1>3, CallMoved

LEMMA FailKept == ASSUME IInv, Fail PROVE IInv'
<1>1. /\ run.pc = "sent" /\ run.pc # "idle" /\ At({"sent"})
      /\ UNCHANGED <<prov, task, disk>>
  BY DEF Fail, At
<1>2. /\ run.state \in RepairState /\ run \in Run
      /\ LogOK(log) /\ Grown(log, log)
      /\ Sound(run.prov, run.state, log) /\ Where(run, disk, log)
  BY <1>1, Working
<1>3. PICK lost \in BOOLEAN, billed \in 0 .. 1 :
         /\ billed = 1 => lost
         /\ run' = [Give("error") EXCEPT !.state =
               AsSeen(Settled(run.state, 0, lost \/ run.doubt), "error")]
         /\ log' = [log EXCEPT !.billed = @ + billed]
  BY DEF Fail, State
<1> DEFINE z == Settled(run.state, 0, lost \/ run.doubt)
           s == AsSeen(z, "error")
<1>4. run' = [Give("error") EXCEPT !.state = s]
  BY <1>3
<1>5. /\ z \in RepairState /\ z.cand = run.state.cand /\ z.reviews = run.state.reviews
      /\ z.rev = run.state.rev /\ z.known = run.state.known + 0
      /\ run.state.known <= log.billed
      /\ lost \/ run.doubt => z.uncertain
      /\ z.uncertain \/ (z.turns >= log.sent /\ run.state.known = log.billed)
  <2>1. (lost \/ run.doubt) \in BOOLEAN
    OBVIOUS
  <2> QED
    BY <1>1, <2>1, SettledBooks
<1> HIDE DEF z
<1>6. /\ log.billed \in Nat /\ run.state.known \in Nat /\ z.turns \in Nat
      /\ log.billed + billed \in Nat
  BY <1>2, <1>5 DEF LogOK, RepairState
<1>7. /\ LogOK(log') /\ log'.billed = log.billed + billed /\ log'.sent = log.sent
      /\ log'.approved = log.approved /\ log'.demanded = log.demanded
  BY <1>2, <1>3, <1>6 DEF LogOK
<1>8. Grown(log, log')
  BY <1>6, <1>7 DEF Grown
<1>9. z.known <= log'.billed
  BY <1>5, <1>6, <1>7
<1>10. Sound(run.prov, z, log')
  BY <1>2, <1>5, <1>8, <1>9, Rebooked
<1>11. z.uncertain \/ Counts(z, 0, log')
  BY <1>3, <1>5, <1>6, <1>7 DEF Counts
<1>12. /\ s \in RepairState
       /\ Sound(run.prov, s, log')
       /\ s.uncertain \/ Counts(s, 0, log')
  <2>1. CASE run.who = "review"
    <3>1. /\ z.cand # None /\ ~ (log'.demanded /\ z.cand.unchanged)
      BY <1>1, <1>2, <1>5, <1>7, <2>1 DEF Where, Judging, Current
    <3>2. "error" \in Verdicts \ Accepting
      BY DEF Verdicts, Finished, Accepting
    <3>3. s = Published(z, "error")
      BY <2>1 DEF AsSeen
    <3> HIDE DEF s
    <3>4. Sound(run.prov, s, log')
      BY <1>5, <1>7, <1>10, <3>1, <3>2, <3>3, PublishedSound
    <3>5. /\ s \in RepairState /\ s.turns = z.turns
          /\ s.known = z.known /\ s.uncertain = z.uncertain
      BY <1>5, <3>1, <3>2, <3>3, PublishedType
    <3> QED
      BY <1>11, <3>4, <3>5 DEF Counts
  <2>2. CASE run.who # "review"
    BY <1>5, <1>10, <1>11, <2>2 DEF AsSeen
  <2> QED
    BY <2>1, <2>2
<1> HIDE DEF s
<1> QED
  BY <1>1, <1>4, <1>7, <1>8, <1>12, LeftWith

LEMMA GiveUpKept == ASSUME IInv, GiveUp PROVE IInv'
<1>1. /\ run.pc \notin {"idle", "sent"} /\ UNCHANGED <<prov, task, disk, log>>
  BY DEF GiveUp, At
<1>2. /\ run.state \in RepairState /\ run \in Run
      /\ LogOK(log) /\ Grown(log, log)
      /\ Sound(run.prov, run.state, log) /\ Where(run, disk, log)
      /\ run.state.uncertain \/ Counts(run.state, 0, log)
  BY <1>1, Working DEF Booked
<1> DEFINE s == IF At({"review", "verdict"}) THEN Published(run.state, "error")
                ELSE run.state
<1>3. run' = [Give("error") EXCEPT !.state = s]
  BY DEF GiveUp, State
<1>4. /\ s \in RepairState
      /\ Sound(run.prov, s, log)
      /\ s.uncertain \/ Counts(s, 0, log)
  <2>1. CASE At({"review", "verdict"})
    <3>1. PICK z : z = run.state
      OBVIOUS
    <3>2. /\ z.cand # None /\ ~ (log.demanded /\ z.cand.unchanged)
          /\ z \in RepairState
      BY <1>2, <2>1, <3>1 DEF Where, Judging, Current, At
    <3>3. "error" \in Verdicts \ Accepting
      BY DEF Verdicts, Finished, Accepting
    <3>4. s = Published(z, "error")
      BY <2>1, <3>1
    <3> HIDE DEF s
    <3>5. Sound(run.prov, s, log)
      BY <1>2, <3>1, <3>2, <3>3, <3>4, PublishedSound
    <3>6. /\ s \in RepairState /\ s.turns = z.turns
          /\ s.known = z.known /\ s.uncertain = z.uncertain
      BY <3>2, <3>3, <3>4, PublishedType
    <3> QED
      BY <1>2, <3>1, <3>5, <3>6 DEF Counts
  <2>2. CASE ~ At({"review", "verdict"})
    BY <1>2, <2>2
  <2> QED
    BY <2>1, <2>2
<1> HIDE DEF s
<1> QED
  BY <1>1, <1>2, <1>3, <1>4, LeftWith

(* A candidate of no change is only made while no review is unresolved. *)
LEMMA FinalKept == ASSUME IInv, Final PROVE IInv'
<1>1. run.pc = "answered" /\ UNCHANGED <<prov, task, disk, log>>
  BY DEF Final, At
<1>2. /\ run.state \in RepairState /\ run \in Run /\ run.prov \in Provs
      /\ LogOK(log) /\ Grown(log, log)
      /\ Sound(run.prov, run.state, log) /\ Where(run, disk, log)
      /\ run.state.uncertain \/ Counts(run.state, 0, log)
  BY <1>1, Working DEF Booked
<1>3. disk # None /\ SameReview(disk.state, run.state)
  BY <1>1, <1>2 DEF Where, SameReview
<1>4. ASSUME NEW s \in RepairState, NEW outcome \in {"modified", "skipped"},
             run' = [Goto("final") EXCEPT !.outcome = outcome, !.state = s],
             Current(s), Sound(run.prov, s, log),
             s.cand.review \in Finished => SameReview(s, run.state),
             s.uncertain = run.state.uncertain, s.turns = run.state.turns,
             s.known = run.state.known
      PROVE  IInv'
  <2>1. /\ run' \in Run /\ run'.pc = "final" /\ run'.prov = run.prov
        /\ run'.state = s
    BY <1>2, <1>4 DEF Goto, Run, Outcomes
  <2>2. s.uncertain \/ Counts(s, 0, log)
    BY <1>2, <1>4 DEF Counts
  <2>3. CallOK(run', disk, log)
    BY <1>2, <1>3, <1>4, <2>1, <2>2
       DEF CallOK, Booked, Where, Editing, Judging, SameReview
  <2> QED
    BY <1>1, <1>2, <2>1, <2>3, CallMoved
<1>5. CASE /\ run.state.cand # None
           /\ run.state.cand.rev = run.state.rev
           /\ run' = [Goto("final") EXCEPT !.outcome = "modified"]
  <2>1. run' = [Goto("final") EXCEPT !.outcome = "modified", !.state = run.state]
    BY <1>2, <1>5 DEF Goto, Run
  <2>2. Current(run.state) /\ SameReview(run.state, run.state)
    BY <1>5 DEF Current, SameReview
  <2> QED
    BY <1>2, <1>4, <2>1, <2>2
<1>6. CASE /\ ~ Unresolved(run.state)
           /\ run' = [Goto("final") EXCEPT !.outcome = "skipped",
                                           !.state = NoChange(run.state)]
  <2>1. CASE CurrentUnchanged(run.state)
    <3>1. NoChange(run.state) = run.state
      BY <2>1 DEF NoChange
    <3>2. Current(run.state) /\ SameReview(run.state, run.state)
      BY <2>1 DEF Current, SameReview, CurrentUnchanged
    <3> QED
      BY <1>2, <1>4, <1>6, <3>1, <3>2
  <2>2. CASE ~ CurrentUnchanged(run.state)
    <3> DEFINE c == [unchanged |-> TRUE, rev |-> run.state.rev,
                     edits |-> None, passed |-> TRUE,
                     requested |-> FALSE, review |-> None]
               s == [run.state EXCEPT !.cand = c]
    <3>1. c \in Candidate /\ c.review = None /\ c.rev = run.state.rev
      BY <1>2 DEF Candidate, RepairState
    <3>2. NoChange(run.state) = s
      BY <2>2 DEF NoChange
    <3> HIDE DEF c
    <3>3. /\ s \in RepairState /\ s.cand = c /\ s.reviews = run.state.reviews
          /\ s.turns = run.state.turns /\ s.known = run.state.known
          /\ s.uncertain = run.state.uncertain /\ s.rev = run.state.rev
      BY <1>2, <3>1 DEF RepairState
    <3>4. run' = [Goto("final") EXCEPT !.outcome = "skipped", !.state = s]
      BY <1>6, <3>2
    <3> HIDE DEF s
    <3>5. c # None /\ None \notin Finished /\ None \notin Accepting
      BY <3>1, Some DEF Accepting, Verdicts, Finished
    <3>6. ~ log.demanded
      BY <1>1, <1>2, <1>6 DEF Unresolved, Sound, Demands, Where, Editing
    <3>7. Sound(run.prov, s, log)
      BY <1>2, <3>1, <3>3, <3>5, <3>6 DEF Sound, Approved, Matches
    <3>8. Current(s) /\ s.cand.review \notin Finished
      BY <3>1, <3>3, <3>5 DEF Current
    <3> QED
      BY <1>4, <3>3, <3>4, <3>7, <3>8
  <2> QED
    BY <2>1, <2>2
<1>7. CASE run' = Give("needs_human")
  <2>1. run' = [Give("needs_human") EXCEPT !.state = run.state]
    BY <1>2, <1>7 DEF Give, Run
  <2> QED
    BY <1>1, <1>2, <2>1, LeftWith
<1> QED
  BY <1>5, <1>6, <1>7 DEF Final, State

(* A demand is in the state and in the checkpoint before it counts. *)
LEMMA JudgeKept == ASSUME IInv, Judge PROVE IInv'
<1>1. run.pc = "judged" /\ UNCHANGED <<prov, task, disk>>
  BY DEF Judge, At
<1>2. /\ run.state \in RepairState /\ run \in Run /\ run.prov \in Provs
      /\ LogOK(log) /\ Grown(log, log)
      /\ Sound(run.prov, run.state, log) /\ Where(run, disk, log)
      /\ run.state.uncertain \/ Counts(run.state, 0, log)
      /\ disk \in Checkpoint \cup {None}
  BY <1>1, Working DEF Booked
<1> DEFINE verdict == run.state.cand.review
<1>3. /\ Current(run.state) /\ verdict \in Finished
      /\ disk # None /\ SameReview(disk.state, run.state)
  BY <1>1, <1>2 DEF Where
<1>4. /\ run' = CASE verdict \in Accepting -> Goto("leave")
                  [] verdict = "human" -> Give("needs_human")
                  [] OTHER -> Goto("loop")
      /\ log' = [log EXCEPT !.demanded = @ \/ verdict \notin Accepting]
  BY DEF Judge, State
<1>5. CASE verdict \in Accepting
  <2>1. log' = [log EXCEPT !.demanded = log.demanded]
    BY <1>2, <1>4, <1>5 DEF LogOK
  <2>2. log' = log
    BY <1>2, <2>1 DEF LogOK
  <2>3. run' = Goto("leave")
    BY <1>4, <1>5 DEF Accepting
  <2>4. /\ run' \in Run /\ run'.pc = "leave" /\ run'.prov = run.prov
        /\ run'.state = run.state
    BY <1>2, <2>3 DEF Goto, Run
  <2>5. CallOK(run', disk, log')
    BY <1>2, <1>3, <2>2, <2>4 DEF CallOK, Booked, Where, Editing, Judging
  <2> QED
    BY <1>1, <1>2, <2>2, <2>4, <2>5, CallMoved
<1>6. CASE verdict \notin Accepting
  <2>1. /\ LogOK(log') /\ log'.sent = log.sent /\ log'.billed = log.billed
        /\ log'.approved = log.approved
    BY <1>2, <1>4, <1>6 DEF LogOK
  <2>2. /\ run.state.reviews = verdict /\ verdict # None /\ verdict # "passed"
    BY <1>2, <1>3, <1>6, Some
       DEF Sound, Matches, Current, Verdicts, Accepting
  <2>3. /\ Demands(run.state)
        /\ Demands(disk.state)
    BY <1>3, <1>6, <2>2 DEF Demands, SameReview
  <2>4. Sound(run.prov, run.state, log')
    BY <1>2, <2>1, <2>3 DEF Sound, Approved
  <2>5. Saved(disk, log')
    BY <1>3, <2>1, <2>3 DEF IInv, Saved, Sound, Approved, Counts
  <2>6. /\ run' \in Run /\ run'.prov = run.prov /\ run'.state = run.state
        /\ \/ run'.pc = "leave" /\ run'.outcome = "needs_human"
           \/ run'.pc = "loop"
    <3>1. CASE verdict = "human"
      <4>1. run' = Give("needs_human")
        BY <1>4, <1>6, <3>1
      <4> QED
        BY <1>2, <4>1 DEF Give, Run, Outcomes
    <3>2. CASE verdict # "human"
      <4>1. run' = Goto("loop")
        BY <1>4, <1>6, <3>2
      <4> QED
        BY <1>2, <4>1 DEF Goto, Run
    <3> QED
      BY <3>1, <3>2
  <2>7. CallOK(run', disk, log')
    BY <1>2, <2>1, <2>2, <2>4, <2>6
       DEF CallOK, Booked, Where, Editing, Judging, Counts
  <2>8. TaskOK(task, disk, log')
    BY <2>1 DEF IInv, TaskOK
  <2>9. /\ prov \in Provs /\ task \in Task /\ task.status = "running"
        /\ task.open => disk # None
    BY <1>1 DEF IInv, TypeOK, At
  <2> QED
    BY <1>1, <1>2, <2>1, <2>5, <2>6, <2>7, <2>8, <2>9, Kept
<1> QED
  BY <1>5, <1>6

-----------------------------------------------------------------------------
(* The beginning and the end of a call. *)

LEMMA SpentSound ==
    ASSUME NEW p, NEW q, NEW s \in RepairState, NEW l, ~ l.demanded, Sound(p, s, l)
    PROVE  /\ Spent(s) \in RepairState /\ Sound(q, Spent(s), l)
           /\ Spent(s).turns = s.turns /\ Spent(s).known = s.known
           /\ Spent(s).pending = s.pending /\ Spent(s).uncertain = s.uncertain
<1> DEFINE z == Spent(s)
<1>1. /\ z \in RepairState /\ z.cand = None /\ z.turns = s.turns
      /\ z.known = s.known
      /\ z.pending = s.pending /\ z.uncertain = s.uncertain
  BY DEF Spent, NewState, RepairState, Plans
<1> HIDE DEF z
<1>2. Sound(q, z, l)
  BY <1>1 DEF Sound, Approved, Matches
<1> QED
  BY <1>1, <1>2 DEF z

(* The books of an attempt begin with the larger of what the checkpoint and
   the history of the file know. *)
LEMMA RetainedSound ==
    ASSUME IInv, NEW p, NEW s \in RepairState, NEW l, LogOK(l), Sound(p, s, l),
           l.sent = log.sent, l.billed = log.billed,
           s.pending \/ s.uncertain \/ Counts(s, 0, log)
    PROVE  /\ Retained(s) \in RepairState /\ Sound(p, Retained(s), l)
           /\ Retained(s).uncertain \/ Counts(Retained(s), 0, l)
<1> DEFINE z == Retained(s)
           turns == Larger(s.turns, task.usage.turns)
           known == Larger(s.known, task.usage.known)
           unsure == s.uncertain \/ s.pending \/ task.usage.uncertain
<1>1. /\ task.usage \in Usage /\ task.usage.known <= log.billed
      /\ s.known <= log.billed /\ l.billed \in Nat /\ l.sent \in Nat
  BY DEF IInv, TypeOK, Task, TaskOK, Sound, LogOK
<1>2. /\ task.usage.turns \in Nat /\ task.usage.known \in Nat
      /\ s.turns \in Nat /\ s.known \in Nat
  BY <1>1 DEF Usage, RepairState
<1>3. turns \in Nat /\ known \in Nat /\ turns >= s.turns /\ known >= s.known
      /\ known <= log.billed
  BY <1>1, <1>2 DEF Larger
<1>4. unsure \in BOOLEAN
  OBVIOUS
<1>5. z = [s EXCEPT !.turns = turns, !.known = known, !.uncertain = unsure]
  BY DEF Retained
<1> HIDE DEF z, turns, known
<1>6. unsure \/ Counts(s, 0, log)
  OBVIOUS
<1> HIDE DEF unsure
<1>7. /\ z.turns = turns /\ z.known = known /\ z.uncertain = unsure
      /\ z.cand = s.cand /\ z.reviews = s.reviews /\ z.rev = s.rev
  BY <1>5 DEF RepairState
<1>8. z \in RepairState
  BY <1>3, <1>4, <1>5 DEF RepairState
<1>9. Sound(p, z, l)
  BY <1>3, <1>7, <1>8 DEF Sound, Approved, Matches, Demands, Reviewing
<1>10. z.uncertain \/ Counts(z, 0, l)
  BY <1>1, <1>2, <1>3, <1>6, <1>7 DEF Counts
<1> QED
  BY <1>8, <1>9, <1>10 DEF z

LEMMA BeginKept == ASSUME IInv, Begin PROVE IInv'
<1>1. /\ run.pc = "idle" /\ UNCHANGED <<prov, disk>>
      /\ run' = [Idle EXCEPT !.pc = "attach", !.prov = prov,
                             !.allowed = task.resume, !.state = Retained(Carried)]
      /\ task' = [task EXCEPT !.status = "running", !.resume = FALSE,
                              !.open = MayResume]
  BY DEF Begin, At
<1>2. /\ prov \in Provs /\ task \in Task /\ disk \in Checkpoint \cup {None}
      /\ task.open => disk # None
      /\ LogOK(log) /\ Saved(disk, log) /\ TaskOK(task, disk, log)
  BY DEF IInv, TypeOK
<1>3. /\ LogOK(log') /\ log'.sent = log.sent /\ log'.billed = log.billed
      /\ log'.approved = log.approved
      /\ log'.demanded => log.demanded /\ MayResume
      /\ Grown(log, log')
  <2> DEFINE d == log.demanded /\ MayResume
  <2>1. log' = [log EXCEPT !.demanded = d] /\ d \in BOOLEAN
    BY DEF Begin
  <2>2. d => log.demanded /\ MayResume
    OBVIOUS
  <2> HIDE DEF d
  <2>3. /\ LogOK(log') /\ log'.sent = log.sent /\ log'.billed = log.billed
        /\ log'.approved = log.approved /\ log'.demanded = d
    BY <1>2, <2>1 DEF LogOK
  <2> QED
    BY <1>2, <2>2, <2>3 DEF Grown, LogOK
<1>4. Saved(disk, log')
  BY <1>2, <1>3, StillSaved
<1>5. /\ Carried \in RepairState /\ Sound(prov, Carried, log')
      /\ Carried.pending \/ Carried.uncertain \/ Counts(Carried, 0, log)
  <2>1. CASE disk = None
    <3>1. Carried = NewState /\ ~ log'.demanded
      BY <1>3, <2>1 DEF Carried, MayResume, Provenance
    <3>2. /\ NewState \in RepairState /\ NewState.cand = None
          /\ NewState.turns = 0 /\ NewState.known = 0
      BY DEF NewState, RepairState, Plans
    <3>3. log'.sent = 0 /\ log'.billed = 0
      BY <1>2, <1>3, <2>1 DEF TaskOK
    <3> HIDE DEF NewState
    <3> QED
      BY <1>3, <3>1, <3>2, <3>3 DEF Sound, Approved, Matches, Counts
  <2>2. CASE disk # None
    <3>1. /\ disk.state \in RepairState /\ Sound(disk.prov, disk.state, log')
          /\ disk.state.pending \/ disk.state.uncertain \/ Counts(disk.state, 0, log)
      BY <1>2, <1>4, <2>2 DEF Checkpoint, Saved
    <3>2. CASE MayResume
      BY <2>2, <3>1, <3>2 DEF Carried, MayResume, Provenance
    <3>3. CASE ~ MayResume
      <4>1. Carried = Spent(disk.state) /\ ~ log'.demanded
        BY <1>3, <2>2, <3>3 DEF Carried
      <4>2. /\ Spent(disk.state) \in RepairState
            /\ Sound(prov, Spent(disk.state), log')
            /\ Spent(disk.state).turns = disk.state.turns
            /\ Spent(disk.state).known = disk.state.known
            /\ Spent(disk.state).pending = disk.state.pending
            /\ Spent(disk.state).uncertain = disk.state.uncertain
        BY <3>1, <4>1, SpentSound
      <4> QED
        BY <3>1, <4>1, <4>2 DEF Counts
    <3> QED
      BY <3>2, <3>3
  <2> QED
    BY <2>1, <2>2
<1> DEFINE s == Retained(Carried)
<1>6. /\ s \in RepairState /\ Sound(prov, s, log')
      /\ s.uncertain \/ Counts(s, 0, log')
  BY <1>3, <1>5, RetainedSound
<1>7. run' = [Idle EXCEPT !.pc = "attach", !.prov = prov,
                          !.allowed = task.resume, !.state = s]
  BY <1>1
<1> HIDE DEF s
<1>8. /\ run' \in Run /\ run'.pc = "attach" /\ run'.prov = prov /\ run'.state = s
  BY <1>2, <1>6, <1>7 DEF Idle, Run, Task, Outcomes
<1>9. CallOK(run', disk, log')
  BY <1>2, <1>6, <1>8 DEF CallOK, Booked, Where, Editing, Judging
<1>10. /\ task' \in Task /\ task'.status = "running" /\ task'.result = task.result
       /\ task'.usage = task.usage /\ (task'.open => MayResume)
  <2> DEFINE o == MayResume
  <2>1. o \in BOOLEAN
    BY <1>2 DEF Task, MayResume, Provenance
  <2>2. task' = [task EXCEPT !.status = "running", !.resume = FALSE, !.open = o]
    BY <1>1
  <2>3. o => MayResume
    OBVIOUS
  <2> HIDE DEF o
  <2> QED
    BY <1>2, <2>1, <2>2, <2>3 DEF Task
<1>11. TaskOK(task', disk, log') /\ (task'.open => disk # None)
  BY <1>2, <1>3, <1>10 DEF TaskOK, MayResume, Provenance
<1> QED
  BY <1>1, <1>2, <1>3, <1>4, <1>8, <1>9, <1>10, <1>11, Kept

(* The checkpoint of the attempt is made before anything else. *)
LEMMA AttachedDisk ==
    ASSUME IInv, run.pc = "attach", Attached
    PROVE  /\ disk' \in Checkpoint /\ disk' # None /\ disk'.state = run.state
           /\ Saved(disk', log)
           /\ task' \in Task /\ task'.status = "running" /\ task'.result = task.result
           /\ task'.usage = task.usage
<1>1. /\ run.state \in RepairState /\ run.prov \in Provs /\ task \in Task
      /\ Sound(run.prov, run.state, log)
      /\ run.state.uncertain \/ Counts(run.state, 0, log)
  BY Working DEF Booked
<1>2. disk' = [prov |-> run.prov, state |-> run.state]
  BY DEF Attached, State
<1>3. disk' \in Checkpoint /\ disk' # None
  BY <1>1, <1>2, Some DEF Checkpoint
<1>4. Saved(disk', log)
  BY <1>1, <1>2 DEF Saved
<1>5. task.status = "running"
  BY DEF IInv, TypeOK, At
<1>6. /\ task' \in Task /\ task'.status = "running" /\ task'.result = task.result
      /\ task'.usage = task.usage
  BY <1>1, <1>5 DEF Attached, Task
<1> QED
  BY <1>2, <1>3, <1>4, <1>6

LEMMA AttachKept == ASSUME IInv, Attach PROVE IInv'
<1>1. /\ run.pc = "attach" /\ Attached /\ run' = Goto("enter")
      /\ UNCHANGED <<prov, log>>
  BY DEF Attach, At
<1>2. /\ run \in Run /\ run.prov \in Provs /\ LogOK(log)
      /\ Sound(run.prov, run.state, log)
      /\ run.state.uncertain \/ Counts(run.state, 0, log)
  BY <1>1, Working DEF Booked
<1>3. /\ disk' \in Checkpoint /\ disk' # None /\ disk'.state = run.state
      /\ Saved(disk', log)
      /\ task' \in Task /\ task'.status = "running" /\ task'.result = task.result
      /\ task'.usage = task.usage
  BY <1>1, AttachedDisk
<1>4. /\ run' \in Run /\ run'.pc = "enter" /\ run'.prov = run.prov
      /\ run'.state = run.state
  BY <1>1, <1>2 DEF Goto, Run
<1>5. CallOK(run', disk', log)
  BY <1>2, <1>3, <1>4 DEF CallOK, Booked, Where, Editing, Judging
<1>6. TaskOK(task', disk', log) /\ prov \in Provs
  BY <1>3 DEF IInv, TypeOK, TaskOK
<1> QED
  BY <1>1, <1>2, <1>3, <1>4, <1>5, <1>6, Kept

(* The call ends and the history grows by a fault or a crash at most. *)
LEMMA Quits ==
    ASSUME IInv, UNCHANGED prov, run' = Idle,
           Grown(log, log'), log'.sent = log.sent,
           log'.billed = log.billed \/ (disk # None /\ disk.state.pending),
           \/ UNCHANGED disk
           \/ disk' \in Checkpoint /\ disk' # None /\ Saved(disk', log),
           disk' = disk \/ log'.billed = log.billed,
           task' \in Task, task'.open => disk' # None,
           task'.result # None => task'.result \in log.approved,
           task'.usage.known <= log.billed
    PROVE  IInv'
<1>1. /\ disk \in Checkpoint \cup {None} /\ LogOK(log) /\ LogOK(log')
      /\ Saved(disk, log) /\ TaskOK(task, disk, log)
  BY DEF IInv, TypeOK, Grown
<1>2. disk' \in Checkpoint \cup {None} /\ Saved(disk', log)
  BY <1>1
<1>3. Saved(disk', log')
  BY <1>1, <1>2, StillSaved
<1>4. log.billed \in Nat /\ log'.billed \in Nat /\ task'.usage.known \in Nat
  BY <1>1 DEF LogOK, Task, Usage
<1>5. task'.usage.known <= log'.billed
  BY <1>4 DEF Grown
<1>6. disk' = None => log'.sent = 0 /\ log'.billed = 0
  BY <1>1 DEF TaskOK
<1>7. TaskOK(task', disk', log')
  BY <1>5, <1>6 DEF TaskOK, Grown
<1> QED
  BY <1>1, <1>2, <1>3, <1>7, Gone

LEMMA FaultedLog ==
    ASSUME LogOK(log)
    PROVE  /\ LogOK(Faulted(log)) /\ Grown(log, Faulted(log))
           /\ Faulted(log).sent = log.sent /\ Faulted(log).billed = log.billed
           /\ Faulted(log).approved = log.approved
           /\ Faulted(log).demanded = log.demanded
<1>1. /\ LogOK(Faulted(log))
      /\ Faulted(log).sent = log.sent /\ Faulted(log).billed = log.billed
      /\ Faulted(log).approved = log.approved
      /\ Faulted(log).demanded = log.demanded
  BY DEF LogOK, Faulted
<1> QED
  BY <1>1 DEF Grown, LogOK

LEMMA NotAttachedKept == ASSUME IInv, NotAttached PROVE IInv'
<1>1. /\ run.pc = "attach" /\ (Attached \/ UNCHANGED <<disk, task>>)
      /\ run' = Idle /\ log' = Faulted(log) /\ UNCHANGED prov
  BY DEF NotAttached, At
<1>2. /\ Grown(log, log') /\ log'.sent = log.sent /\ log'.billed = log.billed
  BY <1>1, Working, FaultedLog
<1>3. /\ task \in Task /\ (task.open => disk # None)
      /\ task.result # None => task.result \in log.approved
      /\ task.usage.known <= log.billed
  BY DEF IInv, TypeOK, TaskOK
<1>4. CASE Attached
  BY <1>1, <1>2, <1>3, <1>4, AttachedDisk, Quits
<1>5. CASE UNCHANGED <<disk, task>>
  BY <1>1, <1>2, <1>3, <1>5, Quits
<1> QED
  BY <1>1, <1>4, <1>5

LEMMA RefuseKept == ASSUME IInv, Refuse PROVE IInv'
<1>1. /\ run' = Idle /\ UNCHANGED <<prov, disk, log>>
      /\ task' = [task EXCEPT !.status = "needs_human"]
  BY DEF Refuse
<1>2. /\ task \in Task /\ (task.open => disk # None) /\ LogOK(log)
      /\ task.result # None => task.result \in log.approved
      /\ task.usage.known <= log.billed
  BY DEF IInv, TypeOK, TaskOK
<1>3. /\ task' \in Task /\ task'.open = task.open /\ task'.result = task.result
      /\ task'.usage = task.usage
  BY <1>1, <1>2 DEF Task
<1>4. Grown(log, log')
  BY <1>1, <1>2 DEF Grown, LogOK
<1> QED
  BY <1>1, <1>2, <1>3, <1>4, Quits

(* The user's word, and the edits of the last candidate. *)
LEMMA Resumed ==
    ASSUME NEW p, NEW s \in RepairState, NEW l, Sound(p, s, l),
           s.uncertain \/ Counts(s, 0, l),
           NEW z, z = Restaged(Known(s))
    PROVE  /\ z \in RepairState /\ Sound(p, z, l) /\ SameReview(s, z) /\ z.rev = s.rev
           /\ z.uncertain \/ Counts(z, 0, l)
<1> DEFINE y == Known(s)
<1>1. /\ y \in RepairState /\ y.cand = s.cand /\ y.reviews = s.reviews
      /\ y.rev = s.rev /\ y.turns = s.turns /\ y.known = s.known
      /\ s.uncertain => y.uncertain
  <2>1. CASE s.pending \/ s.uncertain
    <3>1. y = [s EXCEPT !.pending = FALSE, !.uncertain = TRUE]
      BY <2>1 DEF Known, Acknowledged
    <3> HIDE DEF y
    <3> QED
      BY <3>1 DEF RepairState
  <2>2. CASE ~ (s.pending \/ s.uncertain)
    BY <2>2 DEF Known
  <2> QED
    BY <2>1, <2>2
<1> HIDE DEF y
<1>2. /\ z \in RepairState /\ z.cand = y.cand /\ z.reviews = y.reviews
      /\ z.rev = y.rev /\ z.turns = y.turns /\ z.known = y.known
      /\ y.uncertain => z.uncertain
  <2>1. CASE y.cand # None /\ z = [y EXCEPT !.staged = y.cand.edits]
    <3>1. y.cand.edits \in Edits \cup {None}
      BY <1>1, <2>1 DEF RepairState, Candidate
    <3> QED
      BY <1>1, <2>1, <3>1 DEF RepairState
  <2>2. CASE z = y
    BY <1>1, <2>2
  <2> QED
    BY <2>1, <2>2 DEF Restaged, y
<1>3. Sound(p, z, l)
  BY <1>1, <1>2 DEF Sound, Approved, Matches, Demands, Reviewing
<1> QED
  BY <1>1, <1>2, <1>3 DEF SameReview, Counts

(* A review that was asked for is taken up before the editor is. *)
LEMMA EnterKept == ASSUME IInv, Enter PROVE IInv'
<1>1. run.pc = "enter" /\ UNCHANGED <<prov, task, disk, log>>
  BY DEF Enter, At
<1>2. /\ run.state \in RepairState /\ run \in Run /\ run.prov \in Provs
      /\ LogOK(log) /\ Grown(log, log)
      /\ Sound(run.prov, run.state, log)
      /\ run.state.uncertain \/ Counts(run.state, 0, log)
      /\ disk # None /\ disk.state = run.state
  BY <1>1, Working DEF Booked, Where
<1> DEFINE s == Restaged(Known(run.state))
<1>3. /\ s \in RepairState /\ Sound(run.prov, s, log) /\ SameReview(run.state, s)
      /\ s.rev = run.state.rev
      /\ s.uncertain \/ Counts(s, 0, log)
  BY <1>2, Resumed
<1>4. CASE run' = [Goto("finish") EXCEPT !.state.uncertain = TRUE]
  <2> DEFINE z == [run.state EXCEPT !.uncertain = TRUE]
  <2>1. /\ z \in RepairState /\ z.cand = run.state.cand /\ z.reviews = run.state.reviews
        /\ z.rev = run.state.rev /\ z.known = run.state.known /\ z.uncertain
    BY <1>2 DEF RepairState
  <2>2. run' = [Goto("finish") EXCEPT !.state = z]
    BY <1>2, <1>4 DEF Goto, Run
  <2> HIDE DEF z
  <2>3. /\ run' \in Run /\ run'.pc = "finish" /\ run'.prov = run.prov
        /\ run'.state = z
    BY <1>2, <2>1, <2>2 DEF Goto, Run
  <2>4. Sound(run.prov, z, log)
    BY <1>2, <2>1 DEF Sound, Approved, Matches, Demands, Reviewing
  <2>5. CallOK(run', disk, log)
    BY <1>2, <2>1, <2>3, <2>4 DEF CallOK, Booked, Where, Editing, Judging
  <2> QED
    BY <1>1, <1>2, <2>3, <2>5, CallMoved
<1>5. CASE /\ ~ Reviewing(run.state)
           /\ run' = [Goto("loop") EXCEPT !.state = s]
  <2> HIDE DEF s
  <2>1. /\ run' \in Run /\ run'.pc = "loop" /\ run'.prov = run.prov
        /\ run'.state = s
    BY <1>2, <1>3, <1>5 DEF Goto, Run
  <2>2. log.demanded => s.reviews # "passed"
    BY <1>2, <1>3, <1>5 DEF Sound, Demands, SameReview
  <2>3. CallOK(run', disk, log)
    BY <1>2, <1>3, <2>1, <2>2 DEF CallOK, Booked, Where, Editing, Judging
  <2> QED
    BY <1>1, <1>2, <2>1, <2>3, CallMoved
<1>6. CASE /\ Reviewing(run.state)
           /\ run' = [Goto("final") EXCEPT !.state = s,
                        !.outcome = IF run.state.cand.unchanged THEN "skipped"
                                    ELSE "modified"]
  <2> HIDE DEF s
  <2>1. /\ run' \in Run /\ run'.pc = "final" /\ run'.prov = run.prov
        /\ run'.state = s
    BY <1>2, <1>3, <1>6 DEF Goto, Run, Outcomes
  <2>2. Current(s) /\ SameReview(disk.state, s)
    BY <1>2, <1>3, <1>6 DEF SameReview, Current, Reviewing
  <2>3. CallOK(run', disk, log)
    BY <1>2, <1>3, <2>1, <2>2 DEF CallOK, Booked, Where, Editing, Judging
  <2> QED
    BY <1>1, <1>2, <2>1, <2>3, CallMoved
<1> QED
  BY <1>4, <1>5, <1>6 DEF Enter, State

LEMMA LeaveKept == ASSUME IInv, Leave PROVE IInv'
<1>1. run.pc = "leave" /\ UNCHANGED <<prov, task>>
  BY DEF Leave, At
<1>2. /\ run.state \in RepairState /\ run \in Run /\ run.prov \in Provs
      /\ LogOK(log) /\ Grown(log, log)
      /\ Sound(run.prov, run.state, log) /\ Where(run, disk, log)
      /\ run.state.uncertain \/ Counts(run.state, 0, log)
      /\ disk \in Checkpoint \cup {None}
  BY <1>1, Working DEF Booked
<1>3. CASE /\ disk' = [prov |-> run.prov, state |-> run.state]
           /\ run' = Goto(IF run.outcome \in {"modified", "skipped"}
                          THEN "adopt" ELSE "finish")
           /\ UNCHANGED log
  <2>1. disk' \in Checkpoint /\ disk' # None
    BY <1>2, <1>3, Some DEF Checkpoint
  <2>2. Saved(disk', log)
    BY <1>2, <1>3 DEF Saved
  <2>3. /\ run' \in Run /\ run'.pc \in {"adopt", "finish"} /\ run'.prov = run.prov
        /\ run'.state = run.state
        /\ run'.pc = "adopt" => run.outcome \in {"modified", "skipped"}
    BY <1>2, <1>3 DEF Goto, Run
  <2>4. CallOK(run', disk', log)
    BY <1>1, <1>2, <2>3 DEF CallOK, Booked, Where, Editing, Judging
  <2>5. /\ prov \in Provs /\ task \in Task /\ task.status = "running"
        /\ TaskOK(task, disk', log)
    BY <1>1, <2>1 DEF IInv, TypeOK, At, TaskOK
  <2> QED
    BY <1>1, <1>2, <1>3, <2>1, <2>2, <2>3, <2>4, <2>5, Kept
<1>4. CASE /\ run' = [Goto("finish") EXCEPT !.outcome = "error"]
           /\ log' = Faulted(log)
           /\ UNCHANGED disk
  <2>1. /\ LogOK(log') /\ Grown(log, log')
        /\ log'.sent = log.sent /\ log'.billed = log.billed
        /\ log'.approved = log.approved /\ log'.demanded = log.demanded
    BY <1>2, <1>4, FaultedLog
  <2>2. /\ run' \in Run /\ run'.pc = "finish" /\ run'.prov = run.prov
        /\ run'.state = run.state
    BY <1>2, <1>4 DEF Goto, Run, Outcomes
  <2>3. Sound(run.prov, run.state, log')
    BY <1>2, <2>1, StillSound
  <2>4. CallOK(run', disk, log')
    BY <1>2, <2>1, <2>2, <2>3 DEF CallOK, Booked, Where, Editing, Judging, Counts
  <2> QED
    BY <1>1, <1>4, <2>1, <2>2, <2>4, CallMoved
<1> QED
  BY <1>3, <1>4 DEF Leave, State

(* The file takes over what its last attempt spent. *)
LEMMA UsageTaken ==
    ASSUME NEW p, NEW s \in RepairState, Sound(p, s, log)
    PROVE  UsageOf(s) \in Usage /\ UsageOf(s).known <= log.billed
  BY DEF UsageOf, Usage, Sound, RepairState

LEMMA FinishKept == ASSUME IInv, Finish PROVE IInv'
<1>1. PICK status \in {"needs_human", "failed"} :
        /\ run.pc = "finish" /\ run' = Idle /\ UNCHANGED <<prov, disk, log>>
        /\ task' = [task EXCEPT !.status = status, !.usage = UsageOf(run.state)]
  BY DEF Finish, At, State
<1>2. /\ task \in Task /\ (task.open => disk # None)
      /\ task.result # None => task.result \in log.approved
      /\ Grown(log, log)
      /\ UsageOf(run.state) \in Usage /\ UsageOf(run.state).known <= log.billed
  BY <1>1, Working, UsageTaken DEF IInv, TypeOK, TaskOK
<1> DEFINE u == UsageOf(run.state)
<1> HIDE DEF u
<1>3. /\ task' \in Task /\ task'.open = task.open /\ task'.result = task.result
      /\ task'.usage = u
  BY <1>1, <1>2 DEF Task, u
<1> QED
  BY <1>1, <1>2, <1>3, Quits DEF u

(* What passes the gate was approved of the source as it is. *)
LEMMA AdoptKept == ASSUME IInv, Adopt PROVE IInv'
<1>1. /\ run.pc = "adopt" /\ run' = Idle /\ UNCHANGED <<prov, disk, log>>
      /\ PassedReview(run.state)
  BY DEF Adopt, At, State
<1>2. /\ task \in Task /\ (task.open => disk # None)
      /\ Grown(log, log) /\ run.state \in RepairState /\ run.prov \in Provs
      /\ Sound(run.prov, run.state, log)
      /\ UsageOf(run.state) \in Usage /\ UsageOf(run.state).known <= log.billed
  BY <1>1, Working, UsageTaken DEF IInv, TypeOK
<1> DEFINE u == UsageOf(run.state)
           r == ResultOf(run.state)
           status == CASE run.outcome = "skipped" -> "skipped"
                       [] run.state.cand.review = "held" -> "needs_human"
                       [] OTHER -> "done"
<1>3. r \in log.approved /\ r \in Result
  <2>1. run.state.cand # None /\ run.state.cand.review \in Accepting
    BY <1>1 DEF PassedReview, Accepting
  <2>2. r \in log.approved
    BY <1>2, <2>1 DEF Sound, Approved, ResultOf
  <2> QED
    BY <2>2 DEF IInv, LogOK
<1>4. status \in {"skipped", "needs_human", "done"}
  OBVIOUS
<1>5. task' = [task EXCEPT !.open = FALSE, !.result = r, !.usage = u, !.status = status]
  BY DEF Adopt, State
<1> HIDE DEF u, r, status
<1>6. /\ task' \in Task /\ ~ task'.open /\ task'.result = r /\ task'.usage = u
  BY <1>2, <1>3, <1>4, <1>5 DEF Task, u
<1> QED
  BY <1>1, <1>2, <1>3, <1>6, Quits DEF u

LEMMA RejectKept == ASSUME IInv, Reject PROVE IInv'
<1>1. /\ run.pc = "adopt" /\ run' = Idle /\ UNCHANGED <<prov, disk, log>>
  BY DEF Reject, At
<1>2. /\ task \in Task /\ (task.open => disk # None)
      /\ task.result # None => task.result \in log.approved
      /\ Grown(log, log)
      /\ UsageOf(run.state) \in Usage /\ UsageOf(run.state).known <= log.billed
  BY <1>1, Working, UsageTaken DEF IInv, TypeOK, TaskOK
<1>3. PICK status \in {"needs_human", "failed"} :
          task' = [task EXCEPT !.status = status, !.usage = UsageOf(run.state)]
  BY DEF Reject, State
<1> DEFINE u == UsageOf(run.state)
<1> HIDE DEF u
<1>4. /\ task' \in Task /\ task'.open = task.open /\ task'.result = task.result
      /\ task'.usage = u
  BY <1>2, <1>3 DEF Task, u
<1> QED
  BY <1>1, <1>2, <1>4, Quits DEF u

-----------------------------------------------------------------------------
(* Between two calls. *)

(* An interrupted review did not pass, and an open request may have been
   billed. *)
LEMMA InterruptedSound ==
    ASSUME NEW p, NEW s \in RepairState, NEW l, Sound(p, s, l),
           NEW z, z = Interrupted(s)
    PROVE  /\ z \in RepairState /\ Sound(p, z, l)
           /\ s.pending \/ s.uncertain => z.uncertain
           /\ z.turns = s.turns /\ z.known = s.known
<1> DEFINE unsure == s.uncertain \/ s.pending
           reviews == IF s.reviews = "running" THEN "error" ELSE s.reviews
           cand == IF s.cand # None /\ s.cand.review = "running"
                   THEN [s.cand EXCEPT !.review = "error"] ELSE s.cand
<1>1. z = [s EXCEPT !.uncertain = unsure, !.reviews = reviews, !.cand = cand]
  BY DEF Interrupted
<1>2. unsure \in BOOLEAN /\ (s.pending \/ s.uncertain => unsure)
  OBVIOUS
<1>3. reviews \in Verdicts \cup {None}
  BY DEF RepairState, Verdicts
<1>4. s.cand # None => s.cand \in Candidate
  BY DEF RepairState
<1>5. /\ cand \in Candidate \cup {None} /\ (cand = None <=> s.cand = None)
      /\ s.cand # None => /\ cand.rev = s.cand.rev /\ cand.edits = s.cand.edits
                          /\ cand.unchanged = s.cand.unchanged
                          /\ cand.requested = s.cand.requested
                          /\ cand.review = IF s.cand.review = "running" THEN "error"
                                           ELSE s.cand.review
  <2>1. CASE s.cand # None /\ s.cand.review = "running"
    <3>1. cand = [s.cand EXCEPT !.review = "error"]
      BY <2>1
    <3> HIDE DEF cand
    <3>2. /\ cand \in Candidate /\ cand.rev = s.cand.rev /\ cand.edits = s.cand.edits
          /\ cand.unchanged = s.cand.unchanged
          /\ cand.requested = s.cand.requested /\ cand.review = "error"
      BY <1>4, <2>1, <3>1 DEF Candidate, Verdicts
    <3> QED
      BY <2>1, <3>2, Some
  <2>2. CASE ~ (s.cand # None /\ s.cand.review = "running")
    <3>1. cand = s.cand
      BY <2>2
    <3> HIDE DEF cand
    <3> QED
      BY <1>4, <2>2, <3>1
  <2> QED
    BY <2>1, <2>2
<1> HIDE DEF unsure, reviews, cand
<1>6. /\ z.uncertain = unsure /\ z.reviews = reviews /\ z.cand = cand
      /\ z.rev = s.rev /\ z.turns = s.turns /\ z.known = s.known
  BY <1>1 DEF RepairState
<1>7. z \in RepairState
  BY <1>1, <1>2, <1>3, <1>5 DEF RepairState
<1>8. None # "running" /\ None # "error"
  BY Some DEF Verdicts
<1>9. Approved(p, z, l)
  BY <1>5, <1>6 DEF Sound, Approved, Accepting
<1>10. Matches(z)
  BY <1>5, <1>6, <1>8 DEF Sound, Matches, reviews
<1>11. l.demanded => Demands(z)
  BY <1>5, <1>6, <1>8 DEF Sound, Demands, Reviewing, Finished, reviews
<1> QED
  BY <1>2, <1>6, <1>7, <1>9, <1>10, <1>11 DEF Sound

(* The queue and its checkpoint change while no call is under way. *)
LEMMA Resting ==
    ASSUME IInv, run.pc = "idle", UNCHANGED <<prov, run>>, task' \in Task,
           disk' \in Checkpoint \cup {None}, task'.open => disk' # None,
           LogOK(log'), Saved(disk', log'), TaskOK(task', disk', log')
    PROVE  IInv'
<1>1. prov \in Provs /\ run \in Run /\ CallOK(run', disk', log')
  BY DEF IInv, TypeOK, CallOK
<1> QED
  BY <1>1, Kept

LEMMA RecoverKept == ASSUME IInv, Recover PROVE IInv'
<1>1. run.pc = "idle" /\ UNCHANGED <<prov, run, log>>
  BY DEF Recover, At
<1>2. /\ task \in Task /\ disk \in Checkpoint \cup {None} /\ (task.open => disk # None)
      /\ LogOK(log) /\ Saved(disk, log) /\ TaskOK(task, disk, log)
  BY DEF IInv, TypeOK
<1>3. CASE task.open
  <2> DEFINE z == Interrupted(disk.state)
             u == UsageOf(z)
  <2>1. /\ disk' = [disk EXCEPT !.state = z]
        /\ task' = [task EXCEPT !.status = "needs_human", !.usage = u]
    BY <1>3 DEF Recover
  <2>2. /\ disk \in Checkpoint /\ disk # None /\ disk.state \in RepairState
        /\ Sound(disk.prov, disk.state, log)
        /\ disk.state.pending \/ disk.state.uncertain \/ Counts(disk.state, 0, log)
    BY <1>2, <1>3 DEF Saved, Checkpoint
  <2>3. /\ z \in RepairState /\ Sound(disk.prov, z, log)
        /\ disk.state.pending \/ disk.state.uncertain => z.uncertain
        /\ z.turns = disk.state.turns /\ z.known = disk.state.known
    BY <2>2, InterruptedSound
  <2> HIDE DEF z
  <2>4. u \in Usage /\ u.known <= log.billed
    BY <2>3, UsageTaken
  <2> HIDE DEF u
  <2>5. disk' \in Checkpoint /\ disk'.prov = disk.prov /\ disk'.state = z
    BY <2>1, <2>2, <2>3 DEF Checkpoint
  <2>6. disk' # None
    BY <2>5, Some
  <2>7. Saved(disk', log)
    BY <2>2, <2>3, <2>5 DEF Saved, Counts
  <2>8. /\ task' \in Task /\ task'.result = task.result /\ task'.usage = u
    BY <1>2, <2>1, <2>4 DEF Task
  <2>9. TaskOK(task', disk', log)
    BY <1>2, <2>4, <2>6, <2>8 DEF TaskOK
  <2> QED
    BY <1>1, <1>2, <2>5, <2>6, <2>7, <2>8, <2>9, Resting
<1>4. CASE ~ task.open
  <2> DEFINE u == [task.usage EXCEPT !.uncertain = TRUE]
  <2>1. /\ UNCHANGED disk
        /\ task' = [task EXCEPT !.status = "needs_human", !.usage.uncertain = TRUE]
    BY <1>4 DEF Recover
  <2>2. u \in Usage /\ u.known = task.usage.known
    BY <1>2 DEF Usage, Task
  <2>3. task' = [task EXCEPT !.status = "needs_human", !.usage = u]
    BY <1>2, <2>1 DEF Task
  <2> HIDE DEF u
  <2>4. /\ task' \in Task /\ task'.open = task.open /\ task'.result = task.result
        /\ task'.usage = u
    BY <1>2, <2>2, <2>3 DEF Task
  <2>5. TaskOK(task', disk, log)
    BY <1>2, <2>2, <2>4 DEF TaskOK
  <2> QED
    BY <1>1, <1>2, <2>1, <2>4, <2>5, Resting
<1> QED
  BY <1>3, <1>4

LEMMA RetryKept == ASSUME IInv, Retry PROVE IInv'
<1>1. /\ run.pc = "idle" /\ UNCHANGED <<prov, disk, run>>
      /\ task' = [task EXCEPT !.status = "pending", !.resume = TRUE]
      /\ log' = [log EXCEPT !.asked = @ + 1]
  BY DEF Retry, At
<1>2. /\ task \in Task /\ disk \in Checkpoint \cup {None} /\ (task.open => disk # None)
      /\ LogOK(log) /\ Saved(disk, log) /\ TaskOK(task, disk, log)
  BY DEF IInv, TypeOK
<1>3. /\ task' \in Task /\ task'.open = task.open /\ task'.result = task.result
      /\ task'.usage = task.usage
  BY <1>1, <1>2 DEF Task
<1>4. /\ LogOK(log') /\ log'.sent = log.sent /\ log'.billed = log.billed
      /\ log'.approved = log.approved /\ log'.demanded = log.demanded
  <2>1. log.asked + 1 \in Nat
    BY <1>2 DEF LogOK
  <2> QED
    BY <1>1, <1>2, <2>1 DEF LogOK
<1>5. Grown(log, log')
  BY <1>2, <1>4 DEF Grown, LogOK
<1>6. Saved(disk, log')
  BY <1>2, <1>4, <1>5, StillSaved
<1>7. TaskOK(task', disk, log')
  BY <1>2, <1>3, <1>4 DEF TaskOK
<1> QED
  BY <1>1, <1>2, <1>3, <1>4, <1>6, <1>7, Resting

LEMMA ChangeProvKept == ASSUME IInv, ChangeProv PROVE IInv'
<1>1. prov' \in Provs /\ UNCHANGED <<task, disk, run, log>>
  BY DEF ChangeProv
<1>2. /\ task \in Task /\ disk \in Checkpoint \cup {None} /\ (task.open => disk # None)
      /\ run \in Run /\ (run.pc # "idle" => task.status = "running")
      /\ LogOK(log) /\ Saved(disk, log) /\ TaskOK(task, disk, log)
      /\ CallOK(run, disk, log)
  BY DEF IInv, TypeOK, At
<1> QED
  BY <1>1, <1>2, Kept

LEMMA CrashKept == ASSUME IInv, Crash PROVE IInv'
<1>1. run.pc # "idle" /\ run' = Idle /\ UNCHANGED <<prov, task, disk>>
  BY DEF Crash, At
<1>2. /\ task \in Task /\ (task.open => disk # None) /\ LogOK(log)
      /\ task.result # None => task.result \in log.approved
      /\ task.usage.known <= log.billed
  BY DEF IInv, TypeOK, TaskOK
<1>3. PICK billed \in 0 .. 1 :
         /\ billed = 1 => At({"sent"})
         /\ log' = [log EXCEPT !.crashes = @ + 1, !.billed = @ + billed]
  BY DEF Crash
<1>4. /\ log.billed \in Nat /\ log.billed + billed \in Nat /\ log.crashes + 1 \in Nat
      /\ log.billed <= log.billed + billed
      /\ billed = 1 \/ log.billed + billed = log.billed
  BY <1>2 DEF LogOK
<1>5. /\ LogOK(log') /\ log'.sent = log.sent /\ log'.billed = log.billed + billed
      /\ log'.approved = log.approved /\ log'.demanded = log.demanded
  BY <1>2, <1>3, <1>4 DEF LogOK
<1>6. Grown(log, log')
  BY <1>4, <1>5 DEF Grown
<1>7. billed = 1 => disk # None /\ disk.state.pending
  BY <1>1, <1>3, Working DEF Where, At
<1> QED
  BY <1>1, <1>2, <1>4, <1>5, <1>6, <1>7, Quits

-----------------------------------------------------------------------------
LEMMA InitKept == Init => IInv
<1> SUFFICES ASSUME Init PROVE IInv
  OBVIOUS
<1>1. run = Idle /\ disk = None /\ prov \in Provs
  BY DEF Init
<1>2. run \in Run /\ run.pc = "idle"
  BY <1>1 DEF Idle, Run, NewState, RepairState, Outcomes, Plans
<1>3. task \in Task /\ task.result = None /\ ~ task.open /\ task.usage.known = 0
  BY DEF Init, Task, Usage, NoUsage
<1>4. LogOK(log) /\ log.approved = {} /\ log.sent = 0 /\ log.billed = 0
  BY DEF Init, LogOK
<1>5. TypeOK
  BY <1>1, <1>2, <1>3, <1>4 DEF TypeOK, At
<1> QED
  BY <1>1, <1>2, <1>3, <1>4, <1>5 DEF IInv, Saved, CallOK, TaskOK

LEMMA StepKept == IInv /\ [Next]_vars => IInv'
<1> SUFFICES ASSUME IInv, [Next]_vars PROVE IInv'
  OBVIOUS
<1>1. CASE \/ Begin \/ Attach \/ NotAttached \/ Refuse \/ Enter
  BY <1>1, BeginKept, AttachKept, NotAttachedKept, RefuseKept, EnterKept
<1>2. CASE \/ AskEditor \/ AskReviewer \/ Resend \/ Answer \/ ContextLimit
           \/ Fail \/ GiveUp
  BY <1>2, AskEditorKept, AskReviewerKept, ResendKept, AnswerKept, ContextLimitKept,
     FailKept, GiveUpKept
<1>3. CASE \/ UpdatePlan \/ Stage \/ Validate \/ Validated \/ Final
           \/ Review \/ Conclude \/ Judge
  BY <1>3, UpdatePlanKept, StageKept, ValidateKept, ValidatedKept, FinalKept,
     ReviewKept, ConcludeKept, JudgeKept
<1>4. CASE Leave \/ Finish \/ Adopt \/ Reject
  BY <1>4, LeaveKept, FinishKept, AdoptKept, RejectKept
<1>5. CASE Recover \/ Retry \/ ChangeProv \/ Crash
  BY <1>5, RecoverKept, RetryKept, ChangeProvKept, CrashKept
<1>6. CASE UNCHANGED vars
  BY <1>6 DEF vars, IInv, TypeOK, At, State
<1> QED
  BY <1>1, <1>2, <1>3, <1>4, <1>5, <1>6 DEF Next

(* IInv holds in every state of every behaviour. *)
THEOREM Invariance == Spec => []IInv
  BY InitKept, StepKept, PTL DEF Spec

(* Queue, checkpoint, call and history keep their shape, and what is reviewed
   or adopted is a candidate of the current plan. *)
THEOREM TypeCorrect == Spec => []TypeOK
<1>1. IInv => TypeOK
  BY DEF IInv
<1> QED
  BY <1>1, Invariance, PTL

(* What was adopted is what a reviewer approved of the same source under the
   same rules, with the same reservation: over interrupted, resumed and
   replanned attempts, failed saves and restarts. *)
THEOREM AdoptsTheReviewed == Spec => []ReviewedAsAdopted
<1>1. IInv => ReviewedAsAdopted
  BY DEF IInv, TaskOK, ReviewedAsAdopted
<1> QED
  BY <1>1, Invariance, PTL

(* Once a review of the attempt asked for a change, the file is not skipped. *)
THEOREM DemandStands == Spec => NoSkipAfterDemand
<1> DEFINE Stands == task'.status = "skipped" /\ task.status # "skipped"
                         => ~ log.demanded
<1>1. ASSUME IInv, [Next]_vars PROVE Stands
  <2>1. CASE Adopt
    <3>1. /\ run.pc = "adopt" /\ PassedReview(run.state)
          /\ task' = [task EXCEPT !.open = FALSE, !.result = ResultOf(run.state),
               !.usage = UsageOf(run.state),
               !.status = CASE run.outcome = "skipped" -> "skipped"
                            [] run.state.cand.review = "held" -> "needs_human"
                            [] OTHER -> "done"]
      BY <2>1 DEF Adopt, At, State
    <3>2. task'.status = "skipped" => run.outcome = "skipped"
      BY <1>1, <3>1 DEF IInv, TypeOK, Task
    <3>3. run.outcome = "skipped" =>
            /\ run.state.cand # None /\ run.state.cand.unchanged
            /\ run.state.cand.review \in Accepting
      BY <3>1 DEF PassedReview, Accepting
    <3>4. Sound(run.prov, run.state, log)
      BY <1>1, <3>1, Working
    <3> QED
      BY <3>2, <3>3, <3>4 DEF Sound, Demands
  <2>2. CASE \/ Begin \/ Attach \/ NotAttached \/ Refuse \/ Finish \/ Reject
             \/ Recover \/ Retry
    <3>1. task \in Task
      BY <1>1 DEF IInv, TypeOK
    <3>2. task'.status \in {task.status, "running", "needs_human", "failed", "pending"}
      BY <2>2, <3>1 DEF Begin, Attach, NotAttached, Attached, Refuse, Finish, Reject,
                        Recover, Retry, Task
    <3> QED
      BY <3>2
  <2>3. CASE \/ Enter \/ AskEditor \/ AskReviewer \/ Resend \/ Answer \/ ContextLimit
             \/ Fail \/ GiveUp \/ UpdatePlan \/ Stage \/ Validate \/ Validated \/ Final
             \/ Review \/ Conclude \/ Judge \/ Leave \/ ChangeProv \/ Crash
    <3>1. UNCHANGED task
      BY <2>3 DEF Enter, AskEditor, AskReviewer, Ask, Resend, Answer, ContextLimit, Fail,
                  GiveUp, UpdatePlan, Stage, Validate, Calling, Validated, Final, Review,
                  Conclude, Judge, Leave, ChangeProv, Crash
    <3> QED
      BY <3>1
  <2>4. CASE UNCHANGED vars
    BY <2>4 DEF vars
  <2> QED
    BY <1>1, <2>1, <2>2, <2>3, <2>4 DEF Next
<1>2. IInv /\ [Next]_vars => [task'.status = "skipped" /\ task.status # "skipped"
                                 => ~ log.demanded]_vars
  BY <1>1
<1> QED
  BY <1>2, Invariance, PTL DEF Spec, NoSkipAfterDemand

(* The books that claim to be complete count every request sent and every
   answer billed. *)
THEOREM BooksComplete == Spec => []UsageCounted
<1>1. ASSUME IInv PROVE UsageCounted
  <2> SUFFICES ASSUME disk # None, ~ disk.state.pending, ~ disk.state.uncertain
               PROVE  /\ Larger(disk.state.turns, task.usage.turns) >= log.sent
                      /\ Larger(disk.state.known, task.usage.known) = log.billed
    BY DEF UsageCounted
  <2>1. Counts(disk.state, 0, log)
    BY <1>1 DEF IInv, Saved
  <2>2. /\ disk.state \in RepairState /\ task.usage \in Usage /\ LogOK(log)
        /\ task.usage.known <= log.billed
    BY <1>1 DEF IInv, TypeOK, Task, TaskOK, Checkpoint
  <2>3. /\ disk.state.turns \in Nat /\ disk.state.known \in Nat
        /\ task.usage.turns \in Nat /\ task.usage.known \in Nat
        /\ log.sent \in Nat /\ log.billed \in Nat
    BY <2>2 DEF RepairState, Usage, LogOK
  <2> QED
    BY <2>1, <2>2, <2>3 DEF Counts, Larger
<1> QED
  BY <1>1, Invariance, PTL
=============================================================================
