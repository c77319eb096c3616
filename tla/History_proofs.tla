---------------------------- MODULE History_proofs ----------------------------
(***************************************************************************)
(* Proofs about History for every value of its constants: every variable   *)
(* keeps its shape, the record of a finished run never changes, what it    *)
(* shows of an attempt is what there was when its run ended, and the books *)
(* of the runs and of the queue agree with what was spent.                 *)
(*                                                                         *)
(* Three invariants are built on each other: IInv (the shapes and what     *)
(* makes a record final), Course (which runs are open, and where the       *)
(* attempts of workers stand), and on both Evidence (copies against        *)
(* artifacts) and Books (checkpoints against usage).                       *)
(***************************************************************************)
EXTENDS History, FiniteSetTheorems, SequenceTheorems, WellFoundedInduction, TLAPS

USE FilesAssumption, BoundAssumption

-----------------------------------------------------------------------------
(* The inductive invariant. *)

(* A task whose attempts are within the bound, and which has one when it is
   under way. *)
Entry == {t \in Task : /\ Len(t.history) \in 0 .. MaxAttempts
                       /\ t.status = "running" => t.history # <<>>}
Queue == [Files -> Entry]
Side == [point : [Ids -> Point], version : [Ids -> Nat]]
Log == [spent : [Runs -> Nat], late : [Runs -> Nat],
        shown : [Runs -> [Ids -> Nat]], mixed : SUBSET Runs,
        faults : 0 .. MaxFaults, crashes : 0 .. MaxCrashes]

Shapes == /\ mem \in Process /\ mem.tasks \in Queue /\ queue \in Queue
          /\ side \in Side /\ log \in Log
          /\ rec \in [Runs -> Record] /\ evid \in [Runs -> [Ids -> Nat]]

(* A record that cannot be written again with another content: it says what
   the next attempt to archive it would say, and owns the same copies. *)
Settled(record) == record.status \in Final /\ record.ready
Archived(r) ==
    /\ rec[r] = [Frozen(r, mem.active.status, mem.active.start, mem.tasks)
                   EXCEPT !.summary = rec[r].summary]
    /\ \A i \in Owned(r, mem.tasks) : evid[r][i] = side.version[i] + 1

(* Which runs and files are active where the process is. *)
Stages ==
    /\ mem.pc # "files" => mem.live = {}
    /\ \A f \in mem.live : mem.tasks[f].status = "running"
    /\ mem.pc \in {"closed", "load", "retry"} => mem.active.id = NoRun
    /\ mem.pc \in {"begun", "files"} =>
         /\ mem.active.id \in Runs /\ mem.active.status = "running"
         /\ ~ Settled(rec[mem.active.id])
    /\ mem.pc = "archive" => mem.active.id \in Runs
    /\ mem.pc \in {"idle", "archive"} /\ mem.active.id # NoRun =>
         (Settled(rec[mem.active.id]) => Archived(mem.active.id))

IInv == Shapes /\ Stages

(* What a step may do to the records. *)
Kept == \A r \in Runs : Finished(r) =>
          /\ rec'[r] = [rec[r] EXCEPT !.summary = rec'[r].summary]
          /\ evid'[r] = evid[r]

-----------------------------------------------------------------------------
(* Numbers. *)

LEMMA Bounds == MaxAttempts \in Nat /\ MaxFaults \in Nat /\ MaxCrashes \in Nat
  BY DEF BoundAssumption

LEMMA SinceType == ASSUME NEW n \in Nat, NEW p \in Nat PROVE Since(n, p) \in Nat
  BY DEF Since

LEMMA LargerType == ASSUME NEW m \in Nat, NEW n \in Nat PROVE Larger(m, n) \in Nat
  BY DEF Larger

LEMMA UpToFinite == ASSUME NEW n \in Nat PROVE IsFiniteSet(1 .. n)
  BY FS_Interval

(* The pairs of a key and the members of a finite set are finitely many. *)
LEMMA PairsFinite ==
    ASSUME NEW x, NEW S, IsFiniteSet(S) PROVE IsFiniteSet({x} \X S)
  BY FS_Singleton, FS_Product

(* What a list of attempts records are finitely many turns. *)
LEMMA TurnsFinite ==
    ASSUME NEW h \in Seq(Attempt) PROVE IsFiniteSet(TurnsOf(h))
<1> DEFINE Of(n) == {n} \X (1 .. h[n].usage)
           parts == {Of(n) : n \in DOMAIN h}
           f == [n \in DOMAIN h |-> Of(n)]
<1>0. /\ Len(h) \in Nat /\ DOMAIN h = 1 .. Len(h)
      /\ \A n \in DOMAIN h : h[n] \in Attempt
  OBVIOUS
<1>1. IsFiniteSet(DOMAIN h)
  BY <1>0, FS_Interval
<1>2. f \in Surjection(DOMAIN h, parts)
  BY DEF Surjection
<1>3. IsFiniteSet(parts)
  BY <1>1, <1>2, FS_Surjection
<1>4. \A p \in parts : IsFiniteSet(p)
  <2>1. ASSUME NEW n \in DOMAIN h PROVE IsFiniteSet(Of(n))
    <3>1. h[n].usage \in Nat
      BY <1>0 DEF Attempt
    <3>2. IsFiniteSet(1 .. h[n].usage)
      BY <3>1, UpToFinite
    <3> QED
      BY <3>2, PairsFinite
  <2> QED
    BY <2>1
<1> QED
  BY <1>3, <1>4, FS_UNION DEF TurnsOf

LEMMA SumUsageType ==
    ASSUME NEW h \in Seq(Attempt) PROVE SumUsage(h) \in Nat
  BY TurnsFinite, FS_CardinalityType DEF SumUsage

LEMMA TotalType == ASSUME NEW t \in Queue PROVE Total(t) \in Nat
<1> DEFINE Of(f) == {f} \X TurnsOf(t[f].history)
           parts == {Of(f) : f \in Files}
           g == [f \in Files |-> Of(f)]
<1>1. g \in Surjection(Files, parts)
  BY DEF Surjection
<1>2. IsFiniteSet(parts)
  BY <1>1, FS_Surjection
<1>3. \A p \in parts : IsFiniteSet(p)
  <2>1. ASSUME NEW f \in Files PROVE IsFiniteSet(Of(f))
    <3>1. t[f].history \in Seq(Attempt)
      BY DEF Queue, Entry, Task
    <3> QED
      BY <3>1, TurnsFinite, PairsFinite
  <2> QED
    BY <2>1
<1> QED
  BY <1>2, <1>3, FS_UNION, FS_CardinalityType DEF Total

-----------------------------------------------------------------------------
(* Tasks and attempts. *)

LEMMA ReplacedAttempt ==
    ASSUME NEW h \in Seq(Attempt), NEW n \in DOMAIN h, NEW a \in Attempt
    PROVE  /\ [h EXCEPT ![n] = a] \in Seq(Attempt)
           /\ Len([h EXCEPT ![n] = a]) = Len(h)
  OBVIOUS

LEMMA EntryFields ==
    ASSUME NEW t \in Entry
    PROVE  /\ t \in Task /\ t.history \in Seq(Attempt)
           /\ Len(t.history) \in 0 .. MaxAttempts
           /\ t.status \in {"pending", "running", "failed", "held", "done"}
           /\ t.resume \in BOOLEAN
  BY DEF Entry, Task

(* A task whose attempt begins. *)
Begun(t, h) == [t EXCEPT !.status = "running", !.resume = FALSE, !.history = h]
LEMMA BegunType ==
    ASSUME NEW t \in Entry, NEW h \in Seq(Attempt),
           h # <<>>, Len(h) \in 0 .. MaxAttempts
    PROVE  Begun(t, h) \in Entry /\ Begun(t, h).status = "running"
<1>1. /\ Begun(t, h) \in Task
      /\ Begun(t, h).status = "running" /\ Begun(t, h).history = h
  BY EntryFields DEF Task, Begun
<1> QED
  BY <1>1 DEF Entry

LEMMA QueueType ==
    ASSUME NEW q \in Queue PROVE q \in [Files -> Task]
  BY DEF Queue, Entry

LEMMA NewEntry == NewTask \in Entry
<1>1. <<>> \in Seq(Attempt) /\ Len(<<>>) = 0
  OBVIOUS
<1>2. 0 \in 0 .. MaxAttempts
  OBVIOUS
<1> QED
  BY <1>1, <1>2 DEF NewTask, Entry, Task

(* The last attempt is one of the bounded ones. *)
LEMMA LastAttempt ==
    ASSUME NEW t \in Entry, t.history # <<>>
    PROVE  /\ Len(t.history) \in 1 .. MaxAttempts
           /\ Len(t.history) \in DOMAIN t.history
           /\ Last(t) \in Attempt
<1>1. t.history \in Seq(Attempt) /\ Len(t.history) \in 0 .. MaxAttempts
  BY EntryFields
<1>2. Len(t.history) # 0
  BY <1>1
<1> QED
  BY <1>1, <1>2 DEF Last

(* Replacing the last attempt keeps a task a task. *)
LEMMA ReplacedLast ==
    ASSUME NEW t \in Entry, t.history # <<>>, NEW a \in Attempt,
           NEW s \in {"pending", "running", "failed", "held", "done"},
           NEW b \in BOOLEAN
    PROVE  LET u == [status |-> s, resume |-> b,
                     history |-> [t.history EXCEPT ![Len(t.history)] = a]]
           IN u \in Entry /\ u.history # <<>>
<1> DEFINE h == [t.history EXCEPT ![Len(t.history)] = a]
<1>1. /\ t.history \in Seq(Attempt)
      /\ Len(t.history) \in 1 .. MaxAttempts /\ Len(t.history) \in DOMAIN t.history
  BY EntryFields, LastAttempt
<1>2. h \in Seq(Attempt) /\ Len(h) = Len(t.history)
  BY <1>1, ReplacedAttempt
<1>3. h # <<>>
  BY <1>1, <1>2
<1> HIDE DEF h
<1>4. Len(h) \in 0 .. MaxAttempts
  BY <1>1, <1>2
<1> QED
  BY <1>2, <1>3, <1>4 DEF Entry, Task, h

LEMMA EndedType ==
    ASSUME NEW t \in Entry, t.history # <<>>, NEW e \in Endings, NEW u \in Nat
    PROVE  Ended(t, e, u) \in Entry /\ Ended(t, e, u).status # "running"
<1> DEFINE a == [Last(t) EXCEPT !.outcome = e[1], !.usage = u]
<1>1. Last(t) \in Attempt
  BY LastAttempt
<1>2. e[1] \in {"done", "unfinished"} /\ e[2] \in {"done", "held", "failed"}
  BY DEF Endings
<1>3. a \in Attempt
  BY <1>1, <1>2 DEF Attempt
<1>4. Ended(t, e, u) = [status |-> e[2], resume |-> t.resume,
                        history |-> [t.history EXCEPT ![Len(t.history)] = a]]
  <2>1. t \in Task
    BY EntryFields
  <2>2. Ended(t, e, u) = [t EXCEPT !.status = e[2],
                           !.history = [t.history EXCEPT ![Len(t.history)] = a]]
    BY <2>1 DEF Ended, Last, Task
  <2> HIDE DEF a
  <2> QED
    BY <2>1, <2>2 DEF Task
<1> HIDE DEF a
<1>5. Ended(t, e, u) \in Entry
  BY <1>2, <1>3, <1>4, ReplacedLast, EntryFields
<1> QED
  BY <1>2, <1>4, <1>5

LEMMA ResumedType ==
    ASSUME NEW t \in Entry, t.history # <<>>, NEW r \in Runs
    PROVE  Resumed(t, r) \in Entry /\ Resumed(t, r).status = "running"
<1> DEFINE a == [Last(t) EXCEPT !.exec = r, !.outcome = "open"]
           h == [t.history EXCEPT ![Len(t.history)] = a]
<1>1. /\ t \in Task /\ t.history \in Seq(Attempt) /\ Last(t) \in Attempt
      /\ Len(t.history) \in 1 .. MaxAttempts /\ Len(t.history) \in DOMAIN t.history
  BY EntryFields, LastAttempt
<1>2. a \in Attempt
  BY <1>1 DEF Attempt
<1>3. Resumed(t, r) = Begun(t, h)
  BY <1>1 DEF Resumed, Begun, Last, Task
<1> HIDE DEF a
<1>4. h \in Seq(Attempt) /\ Len(h) = Len(t.history)
  BY <1>1, <1>2, ReplacedAttempt
<1> HIDE DEF h
<1>5. h # <<>> /\ Len(h) \in 0 .. MaxAttempts
  BY <1>1, <1>4, Bounds
<1> QED
  BY <1>3, <1>4, <1>5, BegunType

LEMMA AddedType ==
    ASSUME NEW t \in Entry, Len(t.history) < MaxAttempts, NEW r \in Runs
    PROVE  Added(t, r) \in Entry /\ Added(t, r).status = "running"
<1> DEFINE a == [exec |-> r, path |-> FALSE, usage |-> 0, outcome |-> "open"]
           h == Append(t.history, a)
<1>1. a \in Attempt
  BY DEF Attempt
<1>2. /\ t \in Task /\ t.history \in Seq(Attempt)
      /\ Len(t.history) \in 0 .. MaxAttempts
  BY EntryFields
<1>3. Added(t, r) = Begun(t, h)
  BY <1>2 DEF Added, Begun, Task
<1> HIDE DEF a
<1>4. h \in Seq(Attempt) /\ Len(h) = Len(t.history) + 1
  BY <1>1, <1>2
<1> HIDE DEF h
<1>5. h # <<>> /\ Len(h) \in 0 .. MaxAttempts
  BY <1>2, <1>4, Bounds
<1> QED
  BY <1>3, <1>4, <1>5, BegunType

LEMMA WithType ==
    ASSUME mem.tasks \in Queue, NEW f \in Files, NEW t \in Entry
    PROVE  /\ With(f, t) \in Queue /\ With(f, t)[f] = t
           /\ \A g \in Files \ {f} : With(f, t)[g] = mem.tasks[g]
  BY DEF With, Queue

(* Retried *)
LEMMA RequeuedType ==
    ASSUME NEW t \in Entry
    PROVE  [t EXCEPT !.status = "pending", !.resume = TRUE] \in Entry
  BY EntryFields DEF Entry, Task

-----------------------------------------------------------------------------
(* What is read from the checkpoints. *)

LEMMA RecordedType ==
    ASSUME side \in Side, NEW i \in Ids PROVE Recorded(i) \in Nat
<1>1. side.point[i] \in Point
  BY DEF Side
<1> QED
  BY <1>1, SinceType DEF Recorded, Point

LEMMA LastIdType ==
    ASSUME NEW tasks \in Queue, NEW f \in Files, tasks[f].history # <<>>
    PROVE  LastId(f, tasks) \in Ids
<1>1. tasks[f] \in Entry
  BY DEF Queue
<1> QED
  BY <1>1, LastAttempt DEF LastId, Ids

LEMMA SeqOfAttempts ==
    ASSUME NEW n \in Nat, NEW h \in [1 .. n -> Attempt]
    PROVE  h \in Seq(Attempt) /\ Len(h) = n
  OBVIOUS

LEMMA AccountedType ==
    ASSUME side \in Side, NEW r \in Runs, NEW tasks \in Queue
    PROVE  Accounted(r, tasks) \in Queue
<1> DEFINE a(f, n) ==
             IF tasks[f].history[n].exec = r /\ tasks[f].history[n].path
             THEN [tasks[f].history[n] EXCEPT !.usage = Recorded(<<f, n>>)]
             ELSE tasks[f].history[n]
           Charged(f) == [n \in DOMAIN tasks[f].history |-> a(f, n)]
           u(f) == [tasks[f] EXCEPT !.history = Charged(f)]
<1>1. ASSUME NEW f \in Files PROVE u(f) \in Entry
  <2>1. /\ tasks[f] \in Entry /\ tasks[f].history \in Seq(Attempt)
        /\ Len(tasks[f].history) \in 0 .. MaxAttempts
    BY EntryFields DEF Queue
  <2>2. \A n \in DOMAIN tasks[f].history : <<f, n>> \in Ids
    BY <2>1, Bounds DEF Ids
  <2>3. \A n \in DOMAIN tasks[f].history : a(f, n) \in Attempt
    <3>1. ASSUME NEW n \in DOMAIN tasks[f].history
          PROVE  a(f, n) \in Attempt
      <4>1. tasks[f].history[n] \in Attempt /\ Recorded(<<f, n>>) \in Nat
        BY <2>1, <2>2, RecordedType
      <4> QED
        BY <4>1 DEF Attempt
    <3> QED
      BY <3>1
  <2> HIDE DEF a
  <2>4. Charged(f) \in [1 .. Len(tasks[f].history) -> Attempt]
    BY <2>1, <2>3
  <2> HIDE DEF Charged
  <2>5. Charged(f) \in Seq(Attempt) /\ Len(Charged(f)) = Len(tasks[f].history)
    BY <2>1, <2>4, SeqOfAttempts, SMTT(30)
  <2>6. tasks[f].history # <<>> => Charged(f) # <<>>
    BY <2>1, <2>5
  <2> QED
    BY <2>1, <2>5, <2>6 DEF Entry, Task
<1>2. Accounted(r, tasks) = [f \in Files |-> u(f)]
  BY DEF Accounted
<1> HIDE DEF u
<1> QED
  BY <1>1, <1>2 DEF Queue

LEMMA RecoveryType ==
    ASSUME side \in Side, NEW tasks \in Queue, NEW t \in Recoveries(tasks)
    PROVE  t \in Queue
<1>1. PICK e \in [Running(tasks) -> Endings] : t = Recovered(tasks, e)
  BY DEF Recoveries
<1> DEFINE u(f) == IF f \in Running(tasks)
                   THEN Ended(tasks[f], e[f], KnownUsage(tasks, f))
                   ELSE tasks[f]
<1>2. ASSUME NEW f \in Files PROVE u(f) \in Entry
  <2>1. tasks[f] \in Entry
    BY DEF Queue
  <2>2. ASSUME f \in Running(tasks) PROVE u(f) \in Entry
    <3>1. tasks[f].history # <<>>
      BY <2>1, <2>2 DEF Running, Entry
    <3>2. e[f] \in Endings
      BY <2>2
    <3>3. KnownUsage(tasks, f) \in Nat
      <4>1. LastId(f, tasks) \in Ids
        BY <3>1, LastIdType
      <4>2. Last(tasks[f]).usage \in Nat
        BY <2>1, <3>1, LastAttempt DEF Attempt
      <4> QED
        BY <4>1, <4>2, RecordedType DEF KnownUsage
    <3> QED
      BY <2>1, <2>2, <3>1, <3>2, <3>3, EndedType
  <2> QED
    BY <2>1, <2>2
<1>3. t = [f \in Files |-> u(f)]
  BY <1>1 DEF Recovered
<1> HIDE DEF u
<1> QED
  BY <1>2, <1>3 DEF Queue

-----------------------------------------------------------------------------
(* Records. *)

LEMMA NoRecordType == NoRecord \in Record
<1>1. [i \in Ids |-> NoRun] \in [Ids -> {NoRun} \cup Runs]
  OBVIOUS
<1> QED
  BY <1>1 DEF NoRecord, Record, NoRun

(* A record of a run that is not over can be written again. *)
LEMMA SnapshotType ==
    ASSUME NEW active \in ActiveRun, NEW tasks \in Queue
    PROVE  LET s == Snapshot(active, tasks)
           IN s \in Record /\ ~ s.ready /\ s.status = active.status
<1>1. /\ NoRecord \in Record /\ ~ NoRecord.ready
  BY NoRecordType DEF NoRecord
<1> DEFINE n == IF active.status = "running" THEN 0
                ELSE Since(Total(tasks), active.start)
<1>2. n \in Nat
  BY TotalType, SinceType DEF ActiveRun
<1>3. Snapshot(active, tasks)
        = [NoRecord EXCEPT !.status = active.status, !.start = active.start,
                           !.usage = n]
  BY DEF Snapshot
<1> HIDE DEF n
<1> QED
  BY <1>1, <1>2, <1>3 DEF ActiveRun, Record

LEMMA FrozenType ==
    ASSUME NEW r \in Runs, NEW status \in {"running"} \cup Final, NEW start \in Nat,
           NEW tasks \in Queue
    PROVE  LET s == Frozen(r, status, start, tasks)
           IN s \in Record /\ s.ready /\ s.status = status
<1> DEFINE owner == [i \in Ids |-> IF i \in IdsIn(tasks)
                                   THEN Owner(r, tasks, i) ELSE NoRun]
<1>1. NoRecord \in Record
  BY NoRecordType
<1>2. Since(Total(tasks), start) \in Nat
  BY TotalType, SinceType
<1>3. ASSUME NEW i \in IdsIn(tasks) PROVE Owner(r, tasks, i) \in Runs
  <2>1. /\ i[1] \in Files /\ i[2] \in 1 .. MaxAttempts
        /\ i[2] <= Len(tasks[i[1]].history)
    BY DEF IdsIn, Ids
  <2>2. /\ tasks[i[1]].history \in Seq(Attempt)
        /\ Len(tasks[i[1]].history) \in 0 .. MaxAttempts
    BY <2>1, EntryFields DEF Queue
  <2>3. i[2] \in DOMAIN tasks[i[1]].history
    BY <2>1, <2>2, Bounds
  <2>4. At(tasks, i) \in Attempt
    BY <2>2, <2>3 DEF At
  <2> QED
    BY <2>4 DEF Owner, Attempt
<1>4. owner \in [Ids -> {NoRun} \cup Runs]
  BY <1>3
<1>5. Frozen(r, status, start, tasks)
        = [NoRecord EXCEPT !.status = status, !.start = start, !.ready = TRUE,
                           !.usage = Since(Total(tasks), start), !.owner = owner]
  BY DEF Frozen
<1> HIDE DEF owner
<1> QED
  BY <1>1, <1>2, <1>4, <1>5 DEF Record

LEMMA WrittenType ==
    ASSUME NEW x \in Record, NEW old \in Record
    PROVE  /\ Written(x, old) \in Record
           /\ Written(x, old).status = x.status /\ Written(x, old).ready = x.ready
  BY DEF Written, Record

LEMMA SummarisedType ==
    ASSUME NEW x \in Record, x.status \in {"running"} \cup Final
    PROVE  /\ Summarised(x) \in Record
           /\ Summarised(x).status = x.status /\ Summarised(x).ready = x.ready
  BY DEF Summarised, Record, Final

LEMMA SameRecord ==
    ASSUME NEW x \in Record PROVE x = [x EXCEPT !.summary = x.summary]
  BY DEF Record

LEMMA CopiedType ==
    ASSUME side \in Side, evid \in [Runs -> [Ids -> Nat]], NEW r \in Runs, NEW ids
    PROVE  /\ Copied(r, ids) \in [Runs -> [Ids -> Nat]]
           /\ \A e \in Runs \ {r} : Copied(r, ids)[e] = evid[e]
           /\ \A i \in Ids : Copied(r, ids)[r][i]
                              = IF i \in ids THEN side.version[i] + 1 ELSE evid[r][i]
<1>1. \A i \in Ids : side.version[i] + 1 \in Nat /\ evid[r][i] \in Nat
  BY DEF Side
<1> QED
  BY <1>1 DEF Copied

-----------------------------------------------------------------------------
(* Saves. *)

LEMMA ClosedType ==
    /\ Closed \in Process /\ Closed.tasks \in Queue /\ Closed.pc = "closed"
    /\ Closed.live = {} /\ Closed.active.id = NoRun
<1>1. Closed.tasks \in Queue /\ NewTask \in Task
  BY NewEntry, EntryFields DEF Closed, Queue
<1> QED
  BY <1>1 DEF Closed, Process, ActiveRun, NoActive, NoRun

(* A process that ended leaves nothing to be said. *)
LEMMA ClosedStages == ASSUME mem' = Closed PROVE Stages'
  BY ClosedType DEF Stages

(* What a save or the end of the process adds to the history. *)
LogNow == {l \in Log : l.faults = log.faults /\ l.crashes = log.crashes}

LEMMA SeenType ==
    ASSUME NEW l \in LogNow, NEW r \in {NoRun} \cup Runs, side' \in Side
    PROVE  Seen(l, r) \in LogNow
<1>1. side'.version \in [Ids -> Nat]
  BY DEF Side
<1> QED
  BY <1>1 DEF Seen, Log, LogNow

LEMMA DieType ==
    ASSUME NEW l \in LogNow, NEW r \in {NoRun} \cup Runs, side' \in Side, Die(l, r)
    PROVE  mem' = Closed /\ log' \in Log
<1> DEFINE k == Seen(l, r)
<1>1. k \in LogNow
  BY SeenType
<1>2. /\ mem' = Closed /\ log.crashes < MaxCrashes
      /\ log' = [k EXCEPT !.crashes = k.crashes + 1]
  BY DEF Die
<1> HIDE DEF k
<1>3. k.crashes + 1 \in 0 .. MaxCrashes
  BY <1>1, <1>2, Bounds DEF Log, LogNow
<1>4. log' \in Log
  BY <1>1, <1>2, <1>3 DEF Log, LogNow
<1> QED
  BY <1>2, <1>4

LEMMA SurviveType ==
    ASSUME NEW l \in LogNow, NEW next, Survive(next, l)
    PROVE  mem' = next /\ log' \in Log
<1>1. /\ mem' = next /\ log.faults < MaxFaults
      /\ log' = [l EXCEPT !.faults = l.faults + 1]
  BY DEF Survive
<1> QED
  BY <1>1, Bounds DEF Log, LogNow

(* A save changes the record of the active run, which stays unfinished. *)
LEMMA SavedType ==
    ASSUME Shapes, NEW t \in Queue, NEW steps \in 0 .. 3, Saved(t, steps)
    PROVE  /\ queue' \in Queue /\ rec' \in [Runs -> Record]
           /\ \A r \in Runs \ {mem.active.id} : rec'[r] = rec[r]
           /\ mem.active.id \in Runs /\ ~ Settled(rec[mem.active.id])
                => ~ Settled(rec'[mem.active.id])
<1> DEFINE r == mem.active.id
           s == Snapshot(mem.active, t)
<1>1. /\ mem.active \in ActiveRun /\ queue \in Queue /\ rec \in [Runs -> Record]
      /\ r \in {NoRun} \cup Runs /\ mem.active.status \in {"running"} \cup Final
  BY DEF Shapes, Process, ActiveRun
<1>2. s \in Record /\ ~ s.ready /\ s.status \in {"running"} \cup Final
  BY <1>1, SnapshotType
<1>3. /\ queue' = IF steps > 0 THEN t ELSE queue
      /\ rec' = IF r = NoRun \/ steps < 2 THEN rec
                ELSE [rec EXCEPT ![r] = IF steps = 2 THEN Written(s, rec[r])
                                        ELSE Summarised(s)]
  BY DEF Saved
<1> HIDE DEF s
<1>4. CASE r = NoRun \/ steps < 2
  BY <1>1, <1>3, <1>4
<1>5. CASE r \in Runs /\ steps = 2
  <2>1. Written(s, rec[r]) \in Record /\ ~ Written(s, rec[r]).ready
    BY <1>1, <1>2, <1>5, WrittenType
  <2>2. rec' = [rec EXCEPT ![r] = Written(s, rec[r])]
    BY <1>3, <1>5 DEF NoRun, Runs
  <2> HIDE DEF r
  <2> QED
    BY <1>1, <1>3, <1>5, <2>1, <2>2 DEF Settled, r
<1>6. CASE r \in Runs /\ steps = 3
  <2>1. Summarised(s) \in Record /\ ~ Summarised(s).ready
    BY <1>2, SummarisedType
  <2>2. rec' = [rec EXCEPT ![r] = Summarised(s)]
    BY <1>3, <1>6 DEF NoRun, Runs
  <2> QED
    BY <1>1, <1>3, <1>6, <2>1, <2>2 DEF Settled
<1> QED
  BY <1>1, <1>4, <1>5, <1>6

LEMMA PersistType ==
    ASSUME Shapes, NEW t \in Queue, NEW l \in LogNow, NEW next, NEW failed,
           side' \in Side, Persist(t, l, next, failed)
    PROVE  /\ queue' \in Queue /\ rec' \in [Runs -> Record] /\ log' \in Log
           /\ mem' \in {next, failed, Closed}
           /\ \A r \in Runs \ {mem.active.id} : rec'[r] = rec[r]
           /\ mem.active.id \in Runs /\ ~ Settled(rec[mem.active.id])
                => ~ Settled(rec'[mem.active.id])
<1>1. UnderWay \in {NoRun} \cup Runs
  BY DEF UnderWay, Shapes, Process, ActiveRun
<1>2. CASE Saved(t, 3) /\ mem' = next /\ log' = l
  BY <1>2, SavedType DEF LogNow
<1>3. ASSUME NEW steps \in 0 .. 2, Saved(t, steps), Survive(failed, l)
      PROVE  Saved(t, steps) /\ mem' = failed /\ log' \in Log
  BY <1>3, SurviveType
<1>4. ASSUME NEW steps \in 0 .. 2, Saved(t, steps), Die(l, UnderWay)
      PROVE  Saved(t, steps) /\ mem' = Closed /\ log' \in Log
  BY <1>1, <1>4, DieType
<1>5. CASE \E steps \in 0 .. 2 :
             Saved(t, steps) /\ (Survive(failed, l) \/ Die(l, UnderWay))
  <2>1. PICK steps \in 0 .. 2 :
          Saved(t, steps) /\ mem' \in {failed, Closed} /\ log' \in Log
    BY <1>3, <1>4, <1>5
  <2> QED
    BY <2>1, SavedType
<1> QED
  BY <1>2, <1>5 DEF Persist

-----------------------------------------------------------------------------
(* The steps.  Each keeps the invariant and the finished records. *)

LEMMA Parts ==
    ASSUME IInv
    PROVE  /\ mem \in Process /\ mem.tasks \in Queue /\ queue \in Queue
           /\ side \in Side /\ log \in Log /\ log \in LogNow
           /\ rec \in [Runs -> Record] /\ evid \in [Runs -> [Ids -> Nat]]
           /\ mem.active \in ActiveRun /\ mem.active.id \in {NoRun} \cup Runs
           /\ mem.active.start \in Nat
           /\ mem.active.status \in {"running"} \cup Final
  BY DEF IInv, Shapes, Process, ActiveRun, LogNow

(* The records of runs that are not the active one stay as they are. *)
LEMMA OthersKept ==
    ASSUME rec \in [Runs -> Record],
           NEW a, \A r \in Runs \ {a} : rec'[r] = rec[r] /\ evid'[r] = evid[r],
           a \in Runs => ~ Settled(rec[a])
    PROVE  Kept
<1>1. ASSUME NEW r \in Runs, Finished(r)
      PROVE  /\ rec'[r] = [rec[r] EXCEPT !.summary = rec'[r].summary]
             /\ evid'[r] = evid[r]
  <2>1. r # a
    BY <1>1 DEF Finished, Settled
  <2>2. rec'[r] = rec[r] /\ evid'[r] = evid[r] /\ rec[r] \in Record
    BY <1>1, <2>1
  <2> QED
    BY <2>2, SameRecord
<1> QED
  BY <1>1 DEF Kept

(* A save while the run is under way, or between runs. *)
LEMMA SaveStep ==
    ASSUME IInv, NEW t \in Queue, NEW l \in LogNow, NEW next, NEW failed,
           side' \in Side, evid' = evid, Persist(t, l, next, failed),
           mem.active.id = NoRun \/ mem.pc \in {"begun", "files"},
           next \in Process, next.tasks \in Queue,
           failed \in Process, failed.tasks \in Queue
    PROVE  /\ Shapes' /\ Kept /\ mem' \in {next, failed, Closed}
           /\ mem.pc \in {"begun", "files"} => ~ Settled(rec'[mem.active.id])
<1>1. mem.active.id \in Runs => ~ Settled(rec[mem.active.id])
  BY DEF IInv, Stages, NoRun, Runs
<1>2. /\ queue' \in Queue /\ rec' \in [Runs -> Record] /\ log' \in Log
      /\ mem' \in {next, failed, Closed}
      /\ \A r \in Runs \ {mem.active.id} : rec'[r] = rec[r]
      /\ mem.active.id \in Runs => ~ Settled(rec'[mem.active.id])
  BY <1>1, PersistType DEF IInv
<1>3. Shapes'
  BY <1>2, ClosedType, Parts DEF Shapes
<1>4. Kept
  BY <1>1, <1>2, Parts, OthersKept
<1>5. mem.pc \in {"begun", "files"} => mem.active.id \in Runs
  BY DEF IInv, Stages
<1> QED
  BY <1>2, <1>3, <1>4, <1>5

LEMMA UnchangedKept ==
    ASSUME rec \in [Runs -> Record], rec' = rec, evid' = evid PROVE Kept
  BY SameRecord DEF Kept

LEMMA OpenStep == ASSUME IInv, Open PROVE IInv' /\ Kept
<1>1. mem' = [Closed EXCEPT !.pc = "load", !.tasks = queue]
  BY DEF Open
<1>2. /\ mem' \in Process /\ mem'.tasks = queue /\ mem'.pc = "load"
      /\ mem'.live = {} /\ mem'.active.id = NoRun
  BY <1>1, ClosedType, Parts, QueueType DEF Process
<1>3. Shapes' /\ Kept
  BY <1>2, Parts, UnchangedKept DEF Open, Shapes
<1>4. Stages'
  BY <1>2 DEF Stages
<1> QED
  BY <1>3, <1>4 DEF IInv

(* A record that is completed, or partly so, is the only one that changes. *)
LEMMA CompletedType ==
    ASSUME IInv, NEW r \in Runs, NEW x \in Record,
           x.status \in {"running"} \cup Final, NEW ids, Complete(r, x, ids) \/ Partly(r, x, ids)
    PROVE  /\ rec' \in [Runs -> Record] /\ evid' \in [Runs -> [Ids -> Nat]]
           /\ \A e \in Runs \ {r} : rec'[e] = rec[e] /\ evid'[e] = evid[e]
<1>1. PICK part : evid' = Copied(r, part)
  BY DEF Complete, Partly
<1>2. rec' \in {rec, [rec EXCEPT ![r] = Summarised(x)],
                [rec EXCEPT ![r] = Written(x, rec[r])]}
  BY DEF Complete, Partly
<1>3. Summarised(x) \in Record /\ Written(x, rec[r]) \in Record
  BY SummarisedType, WrittenType, Parts
<1>4. /\ rec' \in [Runs -> Record]
      /\ \A e \in Runs \ {r} : rec'[e] = rec[e]
  BY <1>2, <1>3, Parts
<1>5. /\ evid' \in [Runs -> [Ids -> Nat]]
      /\ \A e \in Runs \ {r} : evid'[e] = evid[e]
  BY <1>1, CopiedType, Parts
<1> QED
  BY <1>4, <1>5

LEMMA LoadErrorType ==
    ASSUME log \in LogNow, NEW records PROVE WithLoadError(records) \in LogNow
  BY DEF WithLoadError, LogNow, Log, UnsettledIn

LEMMA IdleType ==
    ASSUME IInv
    PROVE  /\ Idle \in Process /\ Idle.tasks = mem.tasks /\ Idle.pc = "idle"
           /\ Idle.live = mem.live /\ Idle.active = mem.active
  BY Parts DEF Idle, Process

LEMMA SettleStep == ASSUME IInv, NEW r \in Runs, Settle(r) PROVE IInv' /\ Kept
<1> DEFINE tasks == Accounted(r, mem.tasks)
           record == Frozen(r, "stopped", rec[r].start, tasks)
           ids == Owned(r, tasks)
<1>1. /\ mem.pc = "load" /\ ~ Settled(rec[r]) /\ queue' = queue /\ side' = side
      /\ Complete(r, record, ids) \/ Partly(r, record, ids)
      /\ \/ mem' = mem /\ log' = log
         \/ Survive(Idle, WithLoadError(rec')) \/ Die(log, NoRun)
  BY DEF Settle, Unsettled, Settled, Final
<1>2. tasks \in Queue /\ rec[r].start \in Nat
  BY AccountedType, Parts DEF Record
<1>3. record \in Record /\ record.status \in {"running"} \cup Final
  BY <1>2, FrozenType DEF Final
<1> HIDE DEF record, ids, tasks
<1>4. /\ rec' \in [Runs -> Record] /\ evid' \in [Runs -> [Ids -> Nat]]
      /\ \A e \in Runs \ {r} : rec'[e] = rec[e] /\ evid'[e] = evid[e]
  BY <1>1, <1>3, CompletedType
<1>5. mem' \in {mem, Idle, Closed} /\ log' \in Log
  BY <1>1, SurviveType, DieType, LoadErrorType, Parts
<1>6. Shapes'
  BY <1>1, <1>4, <1>5, IdleType, ClosedType, Parts DEF Shapes
<1>7. Kept
  BY <1>1, <1>4, OthersKept, Parts
<1>8. Stages'
  <2>1. mem.live = {} /\ mem.active.id = NoRun
    BY <1>1 DEF IInv, Stages
  <2> QED
    BY <1>1, <1>5, <2>1, IdleType, ClosedType DEF Stages
<1> QED
  BY <1>6, <1>7, <1>8 DEF IInv

LEMMA LoadStep == ASSUME IInv, LoadDone \/ LoadFails PROVE IInv' /\ Kept
<1>1. /\ mem.pc = "load" /\ mem' = Idle /\ UNCHANGED <<queue, side, rec, evid>>
      /\ log' = log \/ log' = WithLoadError(rec)
  BY DEF LoadDone, LoadFails
<1>2. log' \in Log
  BY <1>1, LoadErrorType, Parts DEF LogNow
<1>3. mem.live = {} /\ mem.active.id = NoRun
  BY <1>1 DEF IInv, Stages
<1>4. Shapes' /\ Kept
  BY <1>1, <1>2, IdleType, Parts, UnchangedKept DEF Shapes
<1>5. Stages'
  BY <1>1, <1>3, IdleType DEF Stages
<1> QED
  BY <1>4, <1>5 DEF IInv

LEMMA BeginStep == ASSUME IInv, Begin PROVE IInv' /\ Kept
<1>1. PICK r \in Fresh :
        LET active == [id |-> r, status |-> "running", start |-> Total(mem.tasks)]
            s == Snapshot(active, mem.tasks)
            Made(record) == rec' = [rec EXCEPT ![r] = record]
        IN /\ UNCHANGED <<queue, side, evid>>
           /\ mem.pc = "idle" /\ Flushed
           /\ \/ /\ Made(Summarised(s))
                 /\ mem' = [mem EXCEPT !.pc = "begun", !.active = active]
                 /\ UNCHANGED log
              \/ /\ \/ UNCHANGED rec
                    \/ Made([NoRecord EXCEPT !.status = "empty"])
                    \/ Made(Written(s, rec[r]))
                 /\ \/ Survive(mem, WithLoadError(rec'))
                    \/ Die(log, r)
  BY DEF Begin
<1> DEFINE active == [id |-> r, status |-> "running", start |-> Total(mem.tasks)]
           s == Snapshot(active, mem.tasks)
           empty == [NoRecord EXCEPT !.status = "empty"]
           begun == [mem EXCEPT !.pc = "begun", !.active = active]
<1>2. r \in Runs /\ rec[r].status = "none"
  BY DEF Fresh, Runs
<1>3. active \in ActiveRun /\ active.id = r /\ active.status = "running"
  BY <1>2, TotalType, Parts DEF ActiveRun
<1> HIDE DEF active
<1>4. s \in Record /\ ~ s.ready /\ s.status = "running"
  BY <1>3, SnapshotType, Parts
<1>5. /\ empty \in Record
      /\ Summarised(s) \in Record /\ ~ Summarised(s).ready
      /\ Written(s, rec[r]) \in Record
  BY <1>2, <1>4, SummarisedType, WrittenType, NoRecordType, Parts DEF Record
<1>6. /\ begun \in Process /\ begun.tasks = mem.tasks /\ begun.pc = "begun"
      /\ begun.live = mem.live /\ begun.active = active
  BY <1>3, Parts DEF Process
<1>7. /\ UNCHANGED <<queue, side, evid>> /\ mem.pc = "idle" /\ mem.active.id = NoRun
      /\ \/ /\ rec' = [rec EXCEPT ![r] = Summarised(s)] /\ mem' = begun /\ log' = log
         \/ /\ rec' \in {rec, [rec EXCEPT ![r] = empty],
                         [rec EXCEPT ![r] = Written(s, rec[r])]}
            /\ Survive(mem, WithLoadError(rec')) \/ Die(log, r)
  BY <1>1 DEF Flushed, active
<1> HIDE DEF s, empty, begun
<1>8. /\ rec' \in [Runs -> Record]
      /\ \A e \in Runs \ {r} : rec'[e] = rec[e] /\ evid'[e] = evid[e]
  BY <1>2, <1>5, <1>7, Parts
<1>9. log' \in Log
  BY <1>2, <1>7, SurviveType, DieType, LoadErrorType, Parts
<1>10. \/ mem' = begun /\ ~ Settled(rec'[r])
       \/ mem' \in {mem, Closed}
  BY <1>2, <1>5, <1>7, SurviveType, DieType, LoadErrorType, Parts DEF Settled
<1>11. Shapes'
  BY <1>6, <1>7, <1>8, <1>9, <1>10, ClosedType, Parts DEF Shapes
<1>12. Kept
  BY <1>2, <1>8, OthersKept, Parts DEF Settled, Final
<1>13. Stages'
  <2>1. mem.live = {}
    BY <1>7 DEF IInv, Stages
  <2>2. CASE mem' = begun /\ ~ Settled(rec'[r])
    BY <1>2, <1>3, <1>6, <2>1, <2>2 DEF Stages
  <2>3. CASE mem' \in {mem, Closed}
    BY <1>7, <2>1, <2>3, ClosedType DEF Stages
  <2> QED
    BY <1>10, <2>2, <2>3
<1> QED
  BY <1>11, <1>12, <1>13 DEF IInv

LEMMA LateType ==
    ASSUME mem.active.id \in Runs, mem.tasks \in Queue,
           NEW l \in LogNow, NEW t \in Queue
    PROVE  Late(l, t) \in LogNow
<1> DEFINE n == Since(Total(t), Total(mem.tasks))
<1>1. n \in Nat
  BY TotalType, SinceType
<1> DEFINE k == [l.late EXCEPT ![mem.active.id] = @ + n]
<1>2. Late(l, t) = [l EXCEPT !.late = k]
  BY DEF Late, LogNow, Log
<1> HIDE DEF n
<1>3. k \in [Runs -> Nat]
  BY <1>1 DEF LogNow, Log
<1> HIDE DEF k
<1> QED
  BY <1>2, <1>3 DEF LogNow, Log

LEMMA EndsAsType ==
    ASSUME IInv, NEW status \in Final
    PROVE  LET m == EndsAs(status)
           IN /\ m \in Process /\ m.tasks = mem.tasks /\ m.pc = "archive"
              /\ m.live = mem.live
  BY Parts DEF EndsAs, Process, ActiveRun

LEMMA RecoverRunStep == ASSUME IInv, RecoverRun PROVE IInv' /\ Kept
<1> DEFINE next(t) == [mem EXCEPT !.pc = "files", !.tasks = t]
           failed(t) == [EndsAs("failed") EXCEPT !.tasks = t]
           l(t) == Late(Seen(log, mem.active.id), t)
<1>1. mem.pc = "begun" /\ mem.live = {} /\ side' = side /\ evid' = evid
  BY DEF RecoverRun, IInv, Stages
<1>2. mem.active.id \in Runs /\ mem.active.status = "running"
  BY <1>1 DEF IInv, Stages
<1>3. PICK t \in Recoveries(mem.tasks) : Persist(t, l(t), next(t), failed(t))
  BY DEF RecoverRun
<1>4. t \in Queue
  BY RecoveryType, Parts
<1>5. l(t) \in LogNow
  BY <1>1, <1>2, <1>4, SeenType, LateType, Parts
<1>6. /\ next(t) \in Process /\ next(t).tasks = t /\ next(t).pc = "files"
      /\ next(t).live = {} /\ next(t).active = mem.active
  BY <1>1, <1>4, QueueType, Parts DEF Process
<1>7. /\ failed(t) \in Process /\ failed(t).tasks = t /\ failed(t).pc = "archive"
      /\ failed(t).live = {}
  <2> DEFINE m == EndsAs("failed")
  <2>1. m \in Process /\ m.pc = "archive" /\ m.live = {}
    BY <1>1, EndsAsType DEF Final
  <2> HIDE DEF m
  <2>2. failed(t) = [m EXCEPT !.tasks = t]
    BY DEF m
  <2> QED
    BY <1>4, <2>1, <2>2, QueueType DEF Process
<1> HIDE DEF next, failed, l
<1>8. /\ Shapes' /\ Kept /\ mem' \in {next(t), failed(t), Closed}
      /\ ~ Settled(rec'[mem.active.id])
  BY <1>1, <1>3, <1>4, <1>5, <1>6, <1>7, SaveStep, Parts
<1>9. Stages'
  <2>1. CASE mem' = next(t)
    BY <1>2, <1>6, <1>8, <2>1 DEF Stages
  <2>2. CASE mem' = failed(t)
    <3>1. mem'.active.id = mem.active.id
      BY <1>1, <2>2, Parts DEF failed, EndsAs, Process, ActiveRun
    <3> QED
      BY <1>2, <1>7, <1>8, <2>2, <3>1 DEF Stages
  <2> QED
    BY <1>8, <2>1, <2>2, ClosedStages
<1> QED
  BY <1>8, <1>9 DEF IInv

LEMMA PrepareFailsStep == ASSUME IInv, PrepareFails PROVE IInv' /\ Kept
<1>1. PICK status \in Final : mem' = EndsAs(status)
  BY DEF PrepareFails, Final
<1>2. /\ mem.pc = "begun" /\ log' = Seen(log, mem.active.id)
      /\ UNCHANGED <<queue, side, rec, evid>>
  BY DEF PrepareFails
<1>3. /\ mem.active.id \in Runs /\ ~ Settled(rec[mem.active.id]) /\ mem.live = {}
  BY <1>2 DEF IInv, Stages
<1>4. /\ mem' \in Process /\ mem'.tasks = mem.tasks /\ mem'.pc = "archive"
      /\ mem'.live = {} /\ mem'.active.id = mem.active.id
  <2>1. mem'.active.id = mem.active.id
    BY <1>1, Parts DEF EndsAs, Process, ActiveRun
  <2> QED
    BY <1>1, <1>3, <2>1, EndsAsType
<1>5. log' \in Log
  BY <1>2, SeenType, Parts DEF LogNow
<1>6. Shapes' /\ Kept
  BY <1>2, <1>4, <1>5, Parts, UnchangedKept DEF Shapes
<1>7. Stages'
  BY <1>2, <1>3, <1>4 DEF Stages
<1> QED
  BY <1>6, <1>7 DEF IInv

-----------------------------------------------------------------------------
(* The steps of the workers. *)

LEMMA LiveTask ==
    ASSUME IInv, NEW f \in mem.live
    PROVE  /\ f \in Files /\ mem.pc = "files"
           /\ mem.tasks[f] \in Entry /\ mem.tasks[f].status = "running"
           /\ mem.tasks[f].history # <<>> /\ LastId(f, mem.tasks) \in Ids
<1>1. f \in Files /\ mem.pc = "files" /\ mem.tasks[f].status = "running"
  BY Parts DEF IInv, Stages, Process
<1>2. mem.tasks[f] \in Entry
  BY <1>1, Parts DEF Queue
<1>3. mem.tasks[f].history # <<>>
  BY <1>1, <1>2 DEF Entry
<1> QED
  BY <1>1, <1>2, <1>3, LastIdType, Parts

LEMMA BrokenType ==
    ASSUME IInv, NEW f, NEW tasks \in Queue
    PROVE  LET m == Broken(f, tasks)
           IN /\ m \in Process /\ m.tasks = tasks /\ m.pc = mem.pc
              /\ m.active = mem.active /\ m.live = mem.live \ {f}
  BY Parts, QueueType DEF Broken, Process

(* The process goes on with the run, and the files of its live workers are
   marked as running. *)
LEMMA GoesOn ==
    ASSUME IInv, mem.pc = "files", ~ Settled(rec'[mem.active.id]),
           mem'.pc = "files", mem'.active = mem.active,
           \A g \in mem'.live : mem'.tasks[g].status = "running"
    PROVE  Stages'
<1>1. mem.active.id \in Runs /\ mem.active.status = "running"
  BY DEF IInv, Stages
<1> QED
  BY <1>1 DEF Stages

(* A worker saves the queue: then its file is as it says, or it is broken. *)
LEMMA WorkerStep ==
    ASSUME IInv, mem.pc = "files", NEW f, NEW tasks \in Queue, NEW next \in Process,
           next.tasks = tasks, next.pc = "files", next.active = mem.active,
           \A g \in next.live \cup (mem.live \ {f}) : tasks[g].status = "running",
           side' \in Side, evid' = evid,
           Persist(tasks, log, next, Broken(f, tasks))
    PROVE  IInv' /\ Kept
<1> DEFINE failed == Broken(f, tasks)
<1>1. /\ failed \in Process /\ failed.tasks = tasks /\ failed.pc = "files"
      /\ failed.active = mem.active /\ failed.live = mem.live \ {f}
  BY BrokenType
<1> HIDE DEF failed
<1>2. Persist(tasks, log, next, failed)
  BY DEF failed
<1>3. /\ Shapes' /\ Kept /\ mem' \in {next, failed, Closed}
      /\ ~ Settled(rec'[mem.active.id])
  BY <1>1, <1>2, SaveStep, Parts
<1>4. CASE mem' = Closed
  BY <1>3, <1>4, ClosedStages DEF IInv
<1>5. CASE mem' \in {next, failed}
  <2>1. /\ mem'.pc = "files" /\ mem'.active = mem.active
        /\ \A g \in mem'.live : mem'.tasks[g].status = "running"
    BY <1>1, <1>5
  <2> QED
    BY <1>3, <2>1, GoesOn DEF IInv
<1> QED
  BY <1>3, <1>4, <1>5

LEMMA BeginAttemptStep ==
    ASSUME IInv, NEW f \in Files, BeginAttempt(f) PROVE IInv' /\ Kept
<1> DEFINE tasks(t) == With(f, t)
           next(t) == [mem EXCEPT !.tasks = tasks(t), !.live = @ \cup {f}]
<1>1. mem.pc = "files" /\ side' = side /\ evid' = evid
  BY DEF BeginAttempt
<1>2. PICK t \in (IF CanResume(mem.tasks[f])
                  THEN {Resumed(mem.tasks[f], mem.active.id)} ELSE {})
                \cup (IF Len(mem.tasks[f].history) < MaxAttempts
                      THEN {Added(mem.tasks[f], mem.active.id)} ELSE {}) :
        Persist(tasks(t), log, next(t), Broken(f, tasks(t)))
  BY DEF BeginAttempt
<1>3. t \in Entry /\ t.status = "running"
  <2>1. mem.tasks[f] \in Entry /\ mem.active.id \in Runs
    BY <1>1, Parts DEF Queue, IInv, Stages
  <2>2. CASE CanResume(mem.tasks[f]) /\ t = Resumed(mem.tasks[f], mem.active.id)
    <3>1. mem.tasks[f].history # <<>>
      BY <2>2 DEF CanResume
    <3> QED
      BY <2>1, <2>2, <3>1, ResumedType
  <2>3. CASE /\ Len(mem.tasks[f].history) < MaxAttempts
             /\ t = Added(mem.tasks[f], mem.active.id)
    BY <2>1, <2>3, AddedType
  <2> QED
    BY <1>2, <2>2, <2>3
<1>4. /\ tasks(t) \in Queue /\ tasks(t)[f] = t
      /\ \A g \in Files \ {f} : tasks(t)[g] = mem.tasks[g]
  BY <1>3, WithType, Parts
<1> HIDE DEF tasks
<1>5. /\ next(t) \in Process /\ next(t).tasks = tasks(t) /\ next(t).pc = "files"
      /\ next(t).active = mem.active /\ next(t).live = mem.live \cup {f}
  BY <1>1, <1>4, Parts, QueueType DEF Process
<1> HIDE DEF next
<1>6. \A g \in mem.live \cup {f} : tasks(t)[g].status = "running"
  BY <1>3, <1>4, LiveTask
<1> QED
  BY <1>1, <1>2, <1>4, <1>5, <1>6, WorkerStep, Parts

LEMMA StageStep ==
    ASSUME IInv, NEW f \in Files, Stage(f) PROVE IInv' /\ Kept
<1> DEFINE i == LastId(f, mem.tasks)
<1>1. /\ f \in mem.live /\ evid' = evid
      /\ side' = [side EXCEPT !.version[i] = side.version[i] + 1]
      /\ Persist(mem.tasks, log, mem, Broken(f, mem.tasks))
  BY DEF Stage
<1>2. i \in Ids /\ mem.pc = "files"
  BY <1>1, LiveTask
<1> HIDE DEF i
<1>3. side' \in Side
  <2> DEFINE v == side.version[i] + 1
  <2>1. side \in Side /\ v \in Nat
    BY <1>2, Parts DEF Side
  <2>2. side' = [side EXCEPT !.version[i] = v]
    BY <1>1
  <2> HIDE DEF v
  <2> QED
    BY <1>2, <2>1, <2>2 DEF Side
<1>4. \A g \in mem.live : mem.tasks[g].status = "running"
  BY LiveTask
<1> QED
  BY <1>1, <1>2, <1>3, <1>4, WorkerStep, Parts

(* The last attempt is changed and its file stays under way. *)
LEMMA ChangedLast ==
    ASSUME NEW t \in Entry, t.history # <<>>, NEW a \in Attempt,
           NEW u, u = [t EXCEPT !.history = [t.history EXCEPT ![Len(t.history)] = a]]
    PROVE  u \in Entry /\ u.status = t.status
<1> DEFINE h == [t.history EXCEPT ![Len(t.history)] = a]
<1>1. /\ t \in Task /\ t.history \in Seq(Attempt)
      /\ Len(t.history) \in 1 .. MaxAttempts /\ Len(t.history) \in DOMAIN t.history
  BY EntryFields, LastAttempt
<1>2. h \in Seq(Attempt) /\ Len(h) = Len(t.history)
  BY <1>1, ReplacedAttempt
<1> HIDE DEF h
<1>3. h # <<>> /\ Len(h) \in 0 .. MaxAttempts
  BY <1>1, <1>2, Bounds
<1>4. u = [t EXCEPT !.history = h]
  BY DEF h
<1>5. u \in Task /\ u.status = t.status /\ u.history = h
  BY <1>1, <1>2, <1>4 DEF Task
<1> QED
  BY <1>3, <1>5 DEF Entry

LEMMA SpendStep ==
    ASSUME IInv, NEW f \in Files, Spend(f) PROVE IInv' /\ Kept
<1> DEFINE i == LastId(f, mem.tasks)
           t == mem.tasks[f]
           n == Since(side.point[i].total + 1, side.point[i].prior)
           a == [Last(t) EXCEPT !.usage = n]
           u == [t EXCEPT !.history = [t.history EXCEPT ![Len(t.history)] = a]]
<1>1. /\ f \in mem.live /\ UNCHANGED <<queue, rec, evid>>
      /\ side' = [side EXCEPT !.point[i].total = side.point[i].total + 1]
      /\ mem' = [mem EXCEPT !.tasks[f].history[i[2]].usage = n]
      /\ log' = [log EXCEPT !.spent[mem.active.id] = log.spent[mem.active.id] + 1]
  BY DEF Spend
<1>2. /\ mem.pc = "files" /\ t \in Entry /\ t.status = "running" /\ t.history # <<>>
      /\ i \in Ids /\ i[2] = Len(t.history)
  BY <1>1, LiveTask DEF LastId
<1>3. /\ side.point[i] \in Point
      /\ side.point[i].total + 1 \in Nat /\ side.point[i].prior \in Nat
  BY <1>2, Parts DEF Side, Point
<1>4. side' \in Side
  <2> DEFINE q == [side.point[i] EXCEPT !.total = side.point[i].total + 1]
  <2>1. q \in Point
    BY <1>3 DEF Point
  <2>2. side' = [side EXCEPT !.point = [side.point EXCEPT ![i] = q]]
    BY <1>1, <1>2, Parts DEF Side
  <2> HIDE DEF q, i
  <2> QED
    BY <1>2, <2>1, <2>2, Parts DEF Side
<1>5. n \in Nat
  BY <1>3, SinceType
<1>6. mem' = [mem EXCEPT !.tasks = With(f, u)]
  BY <1>1, <1>2, Parts DEF With, Last, Process, Task
<1> HIDE DEF n
<1>7. a \in Attempt
  BY <1>2, <1>5, LastAttempt DEF Attempt
<1> HIDE DEF a
<1>8. u \in Entry /\ u.status = "running"
  BY <1>2, <1>7, ChangedLast
<1> HIDE DEF u
<1>9. /\ With(f, u) \in Queue /\ With(f, u)[f] = u
      /\ \A g \in Files \ {f} : With(f, u)[g] = mem.tasks[g]
  BY <1>8, WithType, Parts
<1>10. /\ mem' \in Process /\ mem'.tasks = With(f, u) /\ mem'.pc = "files"
       /\ mem'.active = mem.active /\ mem'.live = mem.live
  BY <1>2, <1>6, <1>9, QueueType, Parts DEF Process
<1>11. log' \in Log
  <2> DEFINE k == [log.spent EXCEPT ![mem.active.id] = @ + 1]
  <2>1. log' = [log EXCEPT !.spent = k]
    BY <1>1, Parts DEF Log
  <2>2. log.spent \in [Runs -> Nat] /\ mem.active.id \in Runs
    BY <1>2, Parts DEF Log, IInv, Stages
  <2>3. k \in [Runs -> Nat]
    BY <2>2
  <2> HIDE DEF k
  <2> QED
    BY <2>1, <2>3, Parts DEF Log
<1>12. Shapes' /\ Kept
  BY <1>1, <1>4, <1>9, <1>10, <1>11, Parts, UnchangedKept DEF Shapes
<1>13. \A g \in mem'.live : mem'.tasks[g].status = "running"
  BY <1>8, <1>9, <1>10, LiveTask
<1>14. ~ Settled(rec'[mem.active.id])
  BY <1>1, <1>2 DEF IInv, Stages
<1> QED
  BY <1>2, <1>10, <1>12, <1>13, <1>14, GoesOn DEF IInv

LEMMA FinishAttemptStep ==
    ASSUME IInv, NEW f \in Files, FinishAttempt(f) PROVE IInv' /\ Kept
<1> DEFINE t == mem.tasks[f]
           u(e) == Ended(t, e, Last(t).usage)
           tasks(e) == With(f, u(e))
           next(e) == [mem EXCEPT !.tasks = tasks(e), !.live = @ \ {f}]
<1>1. f \in mem.live /\ side' = side /\ evid' = evid
  BY DEF FinishAttempt
<1>2. PICK e \in Endings : Persist(tasks(e), log, next(e), Broken(f, tasks(e)))
  BY DEF FinishAttempt
<1>3. mem.pc = "files" /\ t \in Entry /\ t.history # <<>>
  BY <1>1, LiveTask
<1>4. u(e) \in Entry
  <2>1. Last(t).usage \in Nat
    BY <1>3, LastAttempt DEF Attempt
  <2> QED
    BY <1>3, <2>1, EndedType
<1> HIDE DEF u
<1>5. tasks(e) \in Queue /\ \A g \in Files \ {f} : tasks(e)[g] = mem.tasks[g]
  BY <1>4, WithType, Parts
<1> HIDE DEF tasks
<1>6. /\ next(e) \in Process /\ next(e).tasks = tasks(e) /\ next(e).pc = "files"
      /\ next(e).active = mem.active /\ next(e).live = mem.live \ {f}
  BY <1>3, <1>5, Parts, QueueType DEF Process
<1> HIDE DEF next
<1>7. \A g \in mem.live \ {f} : tasks(e)[g].status = "running"
  BY <1>5, LiveTask
<1> QED
  BY <1>1, <1>2, <1>3, <1>5, <1>6, <1>7, WorkerStep, Parts

(* A set of numbers below a bound has a largest one: the last of the sets of
   its members from some member on. *)
LEMMA LargestBelow ==
    ASSUME NEW m \in Nat, NEW S \in SUBSET (0 .. m), S # {}
    PROVE  \E n \in S : \A k \in S : k <= n
<1> DEFINE From(n) == {k \in S : n <= k}
           T == {From(n) : n \in S}
<1>1. IsFiniteSet(0 .. m)
  BY FS_Interval
<1>2. FiniteSubsetsOf(S) = SUBSET S
  BY <1>1, FS_Subset, FS_FiniteSubsetsOfFinite
<1>3. T \subseteq FiniteSubsetsOf(S) /\ T # {}
  <2>1. \A n \in S : From(n) \in SUBSET S
    OBVIOUS
  <2> HIDE DEF From
  <2>2. T \subseteq SUBSET S
    BY <2>1
  <2>3. PICK n : n \in S
    OBVIOUS
  <2>4. From(n) \in T
    BY <2>3
  <2> QED
    BY <1>2, <2>2, <2>4
<1>4. PICK x \in T : \A y \in T : ~ (<<y, x>> \in StrictSubsetOrdering(S))
  <2> HIDE DEF T
  <2> QED
    BY <1>3, WFMin, FS_StrictSubsetOrderingWellFounded
<1>5. PICK n \in S : x = From(n)
  OBVIOUS
<1>6. ASSUME NEW k \in S, ~ (k <= n) PROVE FALSE
  <2>0. S \subseteq Int /\ n \in Int /\ k \in Int
    OBVIOUS
  <2>1. From(k) \subseteq From(n)
    <3>1. ASSUME NEW j \in S, k <= j PROVE n <= j
      BY <1>6, <2>0, <3>1
    <3> QED
      BY <3>1
  <2>2. n \in From(n) /\ n \notin From(k)
    BY <1>6, <2>0
  <2>3. From(k) \in SUBSET S /\ From(n) \in SUBSET S /\ From(k) \in T
    OBVIOUS
  <2> HIDE DEF From, T
  <2>4. <<From(k), From(n)>> \in StrictSubsetOrdering(S)
    BY <2>1, <2>2, <2>3 DEF StrictSubsetOrdering
  <2> QED
    BY <1>4, <1>5, <2>3, <2>4
<1> QED
  BY <1>6

LEMMA PriorTotalType ==
    ASSUME side \in Side, NEW f \in Files, NEW h \in Seq(Attempt),
           Len(h) \in 1 .. MaxAttempts
    PROVE  PriorTotal(f, h) \in Nat /\ SumUsage(Earlier(h)) \in Nat
<1> DEFINE known == {n \in DOMAIN Earlier(h) : h[n].path}
<1>1. Earlier(h) \in Seq(Attempt) /\ Len(Earlier(h)) = Len(h) - 1
  <2> DEFINE n == Len(h) - 1
  <2>1. n \in Nat
    BY Bounds
  <2>2. \A k \in 1 .. n : h[k] \in Attempt
    OBVIOUS
  <2> HIDE DEF n
  <2>3. /\ SubSeq(h, 1, n) \in Seq(Attempt)
        /\ Len(SubSeq(h, 1, n)) = IF 1 <= n THEN n - 1 + 1 ELSE 0
    BY <2>1, <2>2, SubSeqProperties
  <2>4. (IF 1 <= n THEN n - 1 + 1 ELSE 0) = n
    BY <2>1
  <2> QED
    BY <2>3, <2>4 DEF Earlier, n
<1>2. known \subseteq 1 .. Len(h) - 1
  BY <1>1
<1> HIDE DEF known
<1>3. CASE known # {}
  <2> DEFINE n == CHOOSE n \in known : \A k \in known : k <= n
  <2>1. \E x \in known : \A k \in known : k <= x
    <3>1. Len(h) \in Nat /\ known \in SUBSET (0 .. Len(h))
      BY <1>2
    <3> QED
      BY <1>3, <3>1, LargestBelow
  <2>2. n \in known
    BY <2>1
  <2> HIDE DEF n
  <2>3. <<f, n>> \in Ids
    BY <1>2, <2>2, Bounds DEF Ids
  <2>4. PriorTotal(f, h) = side.point[<<f, n>>].total
    BY <1>3 DEF PriorTotal, known, n
  <2>5. side.point[<<f, n>>] \in Point
    BY <2>3 DEF Side
  <2> QED
    BY <1>1, <2>4, <2>5, SumUsageType DEF Point
<1>4. CASE known = {}
  BY <1>1, <1>4, SumUsageType DEF PriorTotal, known
<1> QED
  BY <1>3, <1>4

LEMMA AttachStep ==
    ASSUME IInv, NEW f \in Files, Attach(f) PROVE IInv' /\ Kept
<1> DEFINE i == LastId(f, mem.tasks)
           t == mem.tasks[f]
           h == mem.tasks[f].history
           prior == SumUsage(Earlier(h))
           total == Larger(PriorTotal(f, h), SumUsage(h))
           a == [Last(t) EXCEPT !.path = TRUE, !.usage = Since(total, prior)]
           u == [t EXCEPT !.history = [t.history EXCEPT ![Len(t.history)] = a]]
           point == [prior |-> prior, total |-> total]
           next == [mem EXCEPT !.tasks = With(f, u)]
<1>1. f \in mem.live /\ evid' = evid
  BY DEF Attach
<1>2. /\ mem.pc = "files" /\ t \in Entry /\ t.status = "running" /\ h # <<>>
      /\ i \in Ids
  BY <1>1, LiveTask
<1>3. /\ t \in Task /\ h \in Seq(Attempt) /\ Len(h) \in 1 .. MaxAttempts
      /\ Last(t) \in Attempt
  BY <1>2, EntryFields, LastAttempt
<1>4. \/ /\ side' = [side EXCEPT !.point[i] = point]
         /\ Persist(With(f, u), log, next, Broken(f, With(f, u)))
      \/ /\ Survive(Broken(f, mem.tasks), log)
         /\ UNCHANGED <<side, queue, rec>>
  BY <1>3 DEF Attach, Last, Task
<1>5. prior \in Nat /\ total \in Nat
  BY <1>3, PriorTotalType, SumUsageType, LargerType, Parts
<1> HIDE DEF prior, total
<1>6. point \in Point /\ a \in Attempt
  BY <1>3, <1>5, SinceType DEF Point, Attempt
<1> HIDE DEF point, a
<1>7. u \in Entry /\ u.status = "running"
  BY <1>2, <1>6, ChangedLast
<1> HIDE DEF u, i
<1>8. /\ With(f, u) \in Queue /\ With(f, u)[f] = u
      /\ \A g \in Files \ {f} : With(f, u)[g] = mem.tasks[g]
  BY <1>7, WithType, Parts
<1>9. /\ next \in Process /\ next.tasks = With(f, u) /\ next.pc = "files"
      /\ next.active = mem.active /\ next.live = mem.live
  BY <1>2, <1>8, QueueType, Parts DEF Process
<1> HIDE DEF next
<1>10. CASE /\ side' = [side EXCEPT !.point[i] = point]
            /\ Persist(With(f, u), log, next, Broken(f, With(f, u)))
  <2>1. side' \in Side
    BY <1>2, <1>6, <1>10, Parts DEF Side
  <2>2. \A g \in mem.live : With(f, u)[g].status = "running"
    BY <1>7, <1>8, LiveTask
  <2> QED
    BY <1>1, <1>2, <1>8, <1>9, <1>10, <2>1, <2>2, WorkerStep
<1>11. CASE /\ Survive(Broken(f, mem.tasks), log)
            /\ UNCHANGED <<side, queue, rec>>
  <2>1. mem' = Broken(f, mem.tasks) /\ log' \in Log
    BY <1>11, SurviveType, Parts
  <2>2. /\ mem' \in Process /\ mem'.tasks = mem.tasks /\ mem'.pc = "files"
        /\ mem'.active = mem.active /\ mem'.live = mem.live \ {f}
    BY <1>2, <2>1, BrokenType, Parts
  <2>3. Shapes' /\ Kept
    BY <1>1, <1>11, <2>1, <2>2, Parts, UnchangedKept DEF Shapes
  <2>4. ~ Settled(rec'[mem.active.id])
    BY <1>2, <1>11 DEF IInv, Stages
  <2> QED
    BY <1>2, <2>2, <2>3, <2>4, GoesOn, LiveTask DEF IInv
<1> QED
  BY <1>4, <1>10, <1>11

-----------------------------------------------------------------------------
(* The steps of the run as a whole, and those between runs. *)

LEMMA EndRunStep == ASSUME IInv, EndRun PROVE IInv' /\ Kept
<1> DEFINE m(status) == EndsAs(status)
           ended(status) == [m(status) EXCEPT !.err = FALSE]
<1>1. mem.pc = "files" /\ mem.live = {} /\ side' = side /\ evid' = evid
  BY DEF EndRun
<1>2. mem.active.id \in Runs
  BY <1>1 DEF IInv, Stages
<1>3. PICK status \in {"stopped", IF mem.err THEN "failed" ELSE "completed"} :
        Persist(mem.tasks, Seen(log, mem.active.id), ended(status),
                ended(IF status = "completed" THEN "failed" ELSE status))
  BY DEF EndRun
<1>4. PICK other \in Final :
        Persist(mem.tasks, Seen(log, mem.active.id), ended(status), ended(other))
  BY <1>3 DEF Final
<1>5. status \in Final
  BY <1>3 DEF Final
<1>6. ASSUME NEW x \in Final
      PROVE  /\ ended(x) \in Process /\ ended(x).tasks = mem.tasks
             /\ ended(x).pc = "archive" /\ ended(x).live = {}
             /\ ended(x).active.id = mem.active.id
  <2>1. /\ m(x) \in Process /\ m(x).tasks = mem.tasks /\ m(x).pc = "archive"
        /\ m(x).live = {}
    BY <1>1, EndsAsType
  <2>2. m(x).active.id = mem.active.id
    BY <1>1, Parts DEF EndsAs, Process, ActiveRun
  <2> HIDE DEF m
  <2> QED
    BY <2>1, <2>2 DEF Process
<1> HIDE DEF ended
<1>7. Seen(log, mem.active.id) \in LogNow
  BY <1>1, SeenType, Parts
<1>8. /\ Shapes' /\ Kept /\ mem' \in {ended(status), ended(other), Closed}
      /\ ~ Settled(rec'[mem.active.id])
  BY <1>1, <1>4, <1>5, <1>6, <1>7, SaveStep, Parts
<1>9. Stages'
  <2>1. ASSUME NEW x \in Final, mem' = ended(x) PROVE Stages'
    BY <1>2, <1>6, <1>8, <2>1 DEF Stages
  <2> QED
    BY <1>5, <1>8, <2>1, ClosedStages
<1> QED
  BY <1>8, <1>9 DEF IInv

LEMMA RetryStep == ASSUME IInv, Retry PROVE IInv' /\ Kept
<1> DEFINE next(t) == [mem EXCEPT !.pc = "retry", !.tasks = t]
           failed(t) == [mem EXCEPT !.tasks = t]
<1>1. mem.pc = "idle" /\ mem.active.id = NoRun /\ side' = side /\ evid' = evid
  BY DEF Retry, Flushed
<1>2. PICK t \in Recoveries(mem.tasks) : Persist(t, log, next(t), failed(t))
  BY DEF Retry
<1>3. t \in Queue /\ mem.live = {}
  BY <1>1, RecoveryType, Parts DEF IInv, Stages
<1>4. /\ next(t) \in Process /\ next(t).tasks = t /\ next(t).pc = "retry"
      /\ next(t).live = {} /\ next(t).active = mem.active
      /\ failed(t) \in Process /\ failed(t).tasks = t /\ failed(t).pc = "idle"
      /\ failed(t).live = {} /\ failed(t).active = mem.active
  BY <1>1, <1>3, QueueType, Parts DEF Process
<1> HIDE DEF next, failed
<1>5. Shapes' /\ Kept /\ mem' \in {next(t), failed(t), Closed}
  BY <1>1, <1>2, <1>3, <1>4, SaveStep, Parts
<1>6. Stages'
  <2>1. CASE mem' \in {next(t), failed(t)}
    BY <1>1, <1>4, <2>1 DEF Stages
  <2> QED
    BY <1>5, <2>1, ClosedStages
<1> QED
  BY <1>5, <1>6 DEF IInv

LEMMA RetriedStep == ASSUME IInv, NEW f \in Files, Retried(f) PROVE IInv' /\ Kept
<1> DEFINE u == [mem.tasks[f] EXCEPT !.status = "pending", !.resume = TRUE]
           tasks == With(f, u)
           idle == [Idle EXCEPT !.tasks = tasks]
<1>1. /\ mem.pc = "retry" /\ side' = side /\ evid' = evid
      /\ Persist(tasks, log, idle, idle)
  BY DEF Retried
<1>2. mem.active.id = NoRun /\ mem.live = {}
  BY <1>1 DEF IInv, Stages
<1>3. u \in Entry
  BY RequeuedType, Parts DEF Queue
<1> HIDE DEF u
<1>4. tasks \in Queue
  BY <1>3, WithType, Parts
<1> HIDE DEF tasks
<1>5. /\ idle \in Process /\ idle.tasks = tasks /\ idle.pc = "idle"
      /\ idle.live = {} /\ idle.active = mem.active
  BY <1>2, <1>4, QueueType, Parts DEF Process, Idle
<1> HIDE DEF idle
<1>6. Shapes' /\ Kept /\ mem' \in {idle, Closed}
  BY <1>1, <1>2, <1>4, <1>5, SaveStep, Parts
<1>7. Stages'
  <2>1. CASE mem' = idle
    BY <1>2, <1>5, <2>1 DEF Stages
  <2> QED
    BY <1>6, <2>1, ClosedStages
<1> QED
  BY <1>6, <1>7 DEF IInv

LEMMA CloseStep == ASSUME IInv, Close \/ Crash PROVE IInv' /\ Kept
<1>1. /\ mem' = Closed /\ log' \in Log /\ UNCHANGED <<queue, side, rec, evid>>
  <2>1. CASE Close
    BY <2>1, Parts DEF Close
  <2>2. CASE Crash
    <3>1. UnderWay \in {NoRun} \cup Runs
      BY Parts DEF UnderWay
    <3> QED
      BY <2>2, <3>1, DieType, Parts DEF Crash
  <2> QED
    BY <2>1, <2>2
<1>2. Shapes' /\ Kept
  BY <1>1, ClosedType, Parts, UnchangedKept DEF Shapes
<1> QED
  BY <1>1, <1>2, ClosedStages DEF IInv

(* Who owns an attempt's copies is not changed by copies of the run itself. *)
LEMMA OwnersStay ==
    ASSUME NEW r \in Runs, NEW tasks \in Queue, mem'.tasks = mem.tasks,
           \A e \in Runs \ {r} : evid'[e] = evid[e],
           mem.tasks = tasks, mem'.active = mem.active
    PROVE  /\ Owned(r, mem.tasks)' = Owned(r, mem.tasks)
           /\ Frozen(r, mem.active.status, mem.active.start, mem.tasks)'
                = Frozen(r, mem.active.status, mem.active.start, mem.tasks)
<1>1. ASSUME NEW i \in IdsIn(tasks)
      PROVE  Owner(r, mem.tasks, i)' = Owner(r, mem.tasks, i)
  <2>1. At(tasks, i) \in Attempt
    <3>1. /\ i[1] \in Files /\ i[2] \in 1 .. MaxAttempts
          /\ i[2] <= Len(tasks[i[1]].history)
      BY DEF IdsIn, Ids
    <3>2. /\ tasks[i[1]].history \in Seq(Attempt)
          /\ Len(tasks[i[1]].history) \in 0 .. MaxAttempts
      BY <3>1, EntryFields DEF Queue
    <3>3. i[2] \in DOMAIN tasks[i[1]].history
      BY <3>1, <3>2, Bounds
    <3> QED
      BY <3>2, <3>3 DEF At
  <2>2. At(tasks, i).exec \in Runs
    BY <2>1 DEF Attempt
  <2> QED
    BY <2>2 DEF Owner, At
<1>2. IdsIn(mem.tasks)' = IdsIn(tasks) /\ IdsIn(mem.tasks) = IdsIn(tasks)
  BY DEF IdsIn
<1>3. Total(mem.tasks)' = Total(mem.tasks)
  BY DEF Total, TurnsOf
<1> QED
  BY <1>1, <1>2, <1>3 DEF Owned, Frozen, NoRecord

(* Completing the record again, and any part of it, leaves a finished record
   as it was. *)
LEMMA ArchiveStep == ASSUME IInv, Archive PROVE IInv' /\ Kept
<1> DEFINE r == mem.active.id
           record == Frozen(r, mem.active.status, mem.active.start, mem.tasks)
           ids == Owned(r, mem.tasks)
           idle == [mem EXCEPT !.pc = "idle"]
           over == [idle EXCEPT !.active = NoActive]
<1>1. /\ mem.pc = "archive" \/ (mem.pc = "idle" /\ r # NoRun)
      /\ \/ Complete(r, record, ids) /\ mem' = over /\ log' = log
         \/ Partly(r, record, ids) /\ (Survive(idle, log) \/ Die(log, NoRun))
      /\ queue' = queue /\ side' = side
  BY DEF Archive
<1>2. /\ r \in Runs /\ mem.live = {}
      /\ Settled(rec[r]) => Archived(r)
  BY <1>1, Parts DEF IInv, Stages, NoRun, Runs
<1>3. record \in Record /\ record.status \in {"running"} \cup Final
  <2>1. /\ mem.active.status \in {"running"} \cup Final /\ mem.active.start \in Nat
        /\ mem.tasks \in Queue
    BY Parts
  <2>2. record \in Record /\ record.status = mem.active.status
    BY <1>2, <2>1, FrozenType
  <2> QED
    BY <2>1, <2>2
<1>4. /\ idle \in Process /\ idle.tasks = mem.tasks /\ idle.pc = "idle"
      /\ idle.live = {} /\ idle.active = mem.active
  BY <1>2, Parts DEF Process
<1>5. /\ over \in Process /\ over.tasks = mem.tasks /\ over.pc = "idle"
      /\ over.live = {} /\ over.active.id = NoRun
  <2>1. NoActive \in ActiveRun /\ NoActive.id = NoRun
    BY DEF NoActive, ActiveRun, NoRun
  <2> HIDE DEF idle
  <2> QED
    BY <1>4, <2>1 DEF Process
<1>6. (Settled(rec[r]) => Archived(r)) <=>
        (Settled(rec[r]) => /\ rec[r] = [record EXCEPT !.summary = rec[r].summary]
                            /\ \A i \in ids : evid[r][i] = side.version[i] + 1)
  BY DEF Archived
<1>7. /\ rec' \in [Runs -> Record] /\ evid' \in [Runs -> [Ids -> Nat]]
      /\ \A e \in Runs \ {r} : rec'[e] = rec[e] /\ evid'[e] = evid[e]
  BY <1>1, <1>2, <1>3, CompletedType
<1>8. ids \subseteq Ids
  BY DEF Owned, IdsIn
<1>9. PICK part \in SUBSET ids :
        /\ evid' = Copied(r, part)
        /\ rec'[r] # rec[r] => part = ids
        /\ rec'[r] \in {rec[r], Summarised(record), Written(record, rec[r])}
  <2>1. \/ evid' = Copied(r, ids) /\ rec' = [rec EXCEPT ![r] = Summarised(record)]
        \/ evid' = Copied(r, ids)
           /\ rec' = [rec EXCEPT ![r] = Written(record, rec[r])]
        \/ \E part \in SUBSET ids : evid' = Copied(r, part) /\ rec' = rec
    BY <1>1 DEF Complete, Partly
  <2> HIDE DEF record, ids, r
  <2> QED
    BY <1>2, <2>1, Parts
<1>10. mem' \in {idle, over, Closed} /\ log' \in Log
  BY <1>1, SurviveType, DieType, Parts
<1>11. Shapes'
  BY <1>1, <1>4, <1>5, <1>7, <1>10, ClosedType, Parts DEF Shapes
<1> HIDE DEF record, ids, idle, over
<1>12. \A i \in Ids : evid'[r][i] = IF i \in part THEN side.version[i] + 1
                                                  ELSE evid[r][i]
  BY <1>2, <1>9, CopiedType, Parts
<1>13. \E x : rec'[r] = [record EXCEPT !.summary = x]
                \/ rec'[r] = rec[r]
  BY <1>9 DEF Summarised, Written
<1>14. Settled(rec[r]) => /\ rec'[r] = [rec[r] EXCEPT !.summary = rec'[r].summary]
                          /\ evid'[r] = evid[r]
  <2> SUFFICES ASSUME Settled(rec[r])
               PROVE  /\ rec'[r] = [rec[r] EXCEPT !.summary = rec'[r].summary]
                      /\ evid'[r] = evid[r]
    OBVIOUS
  <2>1. /\ rec[r] = [record EXCEPT !.summary = rec[r].summary]
        /\ \A i \in ids : evid[r][i] = side.version[i] + 1
    BY <1>2, <1>6
  <2>2. evid'[r] = evid[r]
    <3>1. evid[r] \in [Ids -> Nat] /\ evid'[r] \in [Ids -> Nat]
      BY <1>2, <1>7, Parts
    <3>2. \A i \in Ids : evid'[r][i] = evid[r][i]
      BY <1>9, <1>12, <2>1
    <3> HIDE DEF r
    <3> QED
      BY <3>1, <3>2
  <2>3. rec'[r] = [rec[r] EXCEPT !.summary = rec'[r].summary]
    <3>1. rec[r] \in Record /\ rec'[r] \in Record
      BY <1>2, <1>7, Parts
    <3> QED
      BY <1>3, <1>13, <2>1, <3>1 DEF Record
  <2> QED
    BY <2>2, <2>3
<1>15. Kept
  BY <1>2, <1>7, <1>14, Parts, SameRecord DEF Kept, Finished, Settled
<1>16. ASSUME Settled(rec'[r])
       PROVE  /\ rec'[r] = [record EXCEPT !.summary = rec'[r].summary]
              /\ \A i \in ids : evid'[r][i] = side.version[i] + 1
  <2>1. CASE rec'[r] = rec[r]
    BY <1>2, <1>6, <1>8, <1>12, <1>16, <2>1
  <2>2. CASE rec'[r] # rec[r]
    <3>1. part = ids /\ \E x : rec'[r] = [record EXCEPT !.summary = x]
      BY <1>9, <1>13, <2>2
    <3>2. rec'[r] = [record EXCEPT !.summary = rec'[r].summary]
      BY <1>3, <3>1 DEF Record
    <3> QED
      BY <1>8, <1>12, <3>1, <3>2
  <2> QED
    BY <2>1, <2>2
<1>17. Stages'
  <2>1. CASE mem' = idle
    <3>1. mem'.tasks = mem.tasks /\ mem'.active = mem.active
      BY <1>4, <2>1
    <3>2. ids' = ids /\ record' = record
      BY <1>2, <1>7, <3>1, OwnersStay, Parts DEF ids, record
    <3>3. Settled(rec'[r]) => Archived(r)'
      BY <1>1, <1>16, <3>1, <3>2 DEF Archived, ids, record
    <3> QED
      BY <1>4, <2>1, <3>1, <3>3 DEF Stages
  <2>2. CASE mem' = over
    BY <1>5, <2>2 DEF Stages
  <2> QED
    BY <1>10, <2>1, <2>2, ClosedStages
<1> QED
  BY <1>11, <1>15, <1>17 DEF IInv

-----------------------------------------------------------------------------
(* Where the runs stand. *)

Numbers(t) == 1 .. Len(t.history)
Busy == mem.pc \in {"begun", "files"}
Down == mem.pc \in {"closed", "load"}

(* What a record says agrees with how far it was written. *)
Kinds == \A r \in Runs :
    /\ rec[r].ready <=> rec[r].status \in Final
    /\ rec[r].status \notin Final => rec[r].summary \in {"none", "running"}

(* The runs whose records still wait for their end. *)
OpenRuns == {r \in Runs \ log.mixed : rec[r].status = "running"}
Alone == /\ \A r, s \in OpenRuns : r = s
         /\ ~ Down => OpenRuns \subseteq {mem.active.id}

Starts == mem.active.id \in Runs =>
    \/ rec[mem.active.id].status \in Final
    \/ /\ rec[mem.active.id].status = "running"
       /\ rec[mem.active.id].start = mem.active.start
Ends == mem.pc \in {"idle", "archive"} /\ mem.active.id # NoRun =>
    mem.active.status \in Final
Loaded == /\ mem.pc = "load" => mem.tasks = queue
          /\ mem.pc = "retry" => Running(mem.tasks) = {}
          /\ mem.pc = "closed" => mem = Closed

(* Attempts belong to runs that have begun. *)
Named(t) == \A n \in Numbers(t) : rec[t.history[n].exec].status # "none"
NamedIn(q) == \A f \in Files : Named(q[f])

(* The attempt of a worker is that of its run, in the queue as in memory. *)
SameLast(t, q, r) ==
    LET n == Len(t.history)
    IN /\ q.status = "running" /\ Len(q.history) = n
       /\ t.history[n].exec = r /\ q.history[n].exec = r
       /\ q.history[n].path = t.history[n].path
Levels == \A f \in mem.live : SameLast(mem.tasks[f], queue[f], mem.active.id)

Course == /\ Kinds /\ Alone /\ Starts /\ Ends /\ Loaded
          /\ NamedIn(queue) /\ NamedIn(mem.tasks) /\ Levels

-----------------------------------------------------------------------------
(* The copies. *)

(* The run of an attempt owns a copy of what there is now, if any. *)
FitsTask(f, t) ==
    \A n \in Numbers(t) :
      LET e == t.history[n].exec
          i == <<f, n>>
      IN e \notin log.mixed /\ evid[e][i] # 0 => evid[e][i] = side.version[i] + 1
Fits(q) == \A f \in Files : FitsTask(f, q[f])

NoCopies == \A r \in Runs :
    rec[r].status \in {"none", "empty"} \/ (Busy /\ r = mem.active.id) =>
      \A i \in Ids : evid[r][i] = 0
Partial == \A r \in OpenRuns : \A i \in Ids :
    evid[r][i] # 0 => evid[r][i] = side.version[i] + 1
Shown == \A r \in OpenRuns :
    Busy \/ \A i \in Ids : log.shown[r][i] = side.version[i]

Evidence == /\ Fits(queue) /\ Fits(mem.tasks) /\ NoCopies /\ Partial /\ Shown
            /\ EvidenceOfTheRun

-----------------------------------------------------------------------------
(* The books. *)

Turns(u) == UNION {{f} \X UNION {{n} \X (1 .. u[<<f, n>>]) :
                                 n \in 1 .. MaxAttempts} : f \in Files}
Size(u) == Cardinality(Turns(u))
Checkpoints == [i \in Ids |-> Recorded(i)]
Used(q) == [i \in Ids |-> IF i \in IdsIn(q) THEN At(q, i).usage ELSE 0]

(* The usage of an attempt is that of its checkpoint, or behind it while the
   file is under way; turns are spent in attempts that the queue knows. *)
Booked(f, t) ==
    /\ \A n \in Numbers(t) :
         /\ t.history[n].usage <= Recorded(<<f, n>>)
         /\ \/ t.status = "running" /\ n = Len(t.history)
            \/ t.history[n].usage = Recorded(<<f, n>>)
    /\ \A n \in 1 .. MaxAttempts : Recorded(<<f, n>>) # 0 =>
         n \in Numbers(t) /\ t.history[n].path
BookedIn(q) == \A f \in Files : Booked(f, q[f])

Balance == Size(Checkpoints) = SpentInAll

(* A checkpoint starts with what the attempts before had spent, or less. *)
Before(f, n) == Cardinality(UNION {{k} \X (1 .. Recorded(<<f, k>>)) :
                                   k \in 1 .. n - 1})
Priors == \A f \in Files : \A n \in 1 .. MaxAttempts :
    LET p == side.point[<<f, n>>]
    IN p.prior <= p.total /\ p.prior <= Before(f, n)

BehindTask(q, t) == /\ Len(q.history) <= Len(t.history)
                    /\ \A n \in Numbers(q) :
                         q.history[n].usage <= t.history[n].usage
Behind == \A f \in Files : BehindTask(queue[f], mem.tasks[f])

Unspent == \A r \in Runs :
    rec[r].status = "none" \/ (mem.pc = "begun" /\ r = mem.active.id) =>
      log.spent[r] = 0 /\ log.late[r] = 0
Charge(r) == {log.spent[r], log.spent[r] + log.late[r]}
Foreign(q, r) == \A f \in Files : \A n \in Numbers(q[f]) : q[f].history[n].exec # r

Began == mem.pc = "begun" => /\ mem.active.start = Total(mem.tasks)
                             /\ Foreign(queue, mem.active.id)
(* While its workers run, every turn that is not of the run itself is in the
   queue, and all turns are in memory. *)
Current(f, t) == \A n \in Numbers(t) : t.history[n].usage = Recorded(<<f, n>>)
OwnOrCurrent(f, t, r) == \A n \in Numbers(t) :
    \/ t.history[n].exec = r /\ t.history[n].path
    \/ t.history[n].usage = Recorded(<<f, n>>)
Works == mem.pc = "files" =>
    /\ mem.active.start + log.spent[mem.active.id] + log.late[mem.active.id]
         = SpentInAll
    /\ \A f \in Files : /\ Current(f, mem.tasks[f])
                        /\ OwnOrCurrent(f, queue[f], mem.active.id)
Over == mem.pc \in {"idle", "archive"} /\ mem.active.id # NoRun =>
    Since(Total(mem.tasks), mem.active.start) \in Charge(mem.active.id)
Due == \A r \in OpenRuns :
    Busy \/ Since(Total(Accounted(r, queue)), rec[r].start) \in Charge(r)

Books == /\ BookedIn(queue) /\ (mem.pc # "closed" => BookedIn(mem.tasks) /\ Behind)
         /\ Balance /\ Priors /\ Unspent /\ Began /\ Works /\ Over /\ Due
         /\ ChargedToItsRun

-----------------------------------------------------------------------------
(* What a save does.  A record of a run under way may be written again, and
   says the same of it; the others are not touched. *)
StaysAs(x, y) ==
    \/ y = x
    \/ /\ x.status = "running" /\ y.status = "running" /\ y.start = x.start
       /\ ~ y.ready /\ y.summary \in {"none", "running"}
RecordsStay == \A r \in Runs : StaysAs(rec[r], rec'[r])

(* The history of a save or of the end of the process. *)
LogsAs(l) == log'.spent = l.spent /\ log'.late = l.late /\ log'.mixed = l.mixed
EndsSeen(l) ==
    /\ mem' = Closed
    /\ \A r \in Runs : log'.shown[r] = IF r = UnderWay THEN side'.version ELSE l.shown[r]

Saves(t, l, next, failed) ==
    /\ queue' \in {queue, t} /\ RecordsStay /\ LogsAs(l)
    /\ \/ mem' = next /\ queue' = t /\ log'.shown = l.shown
       \/ mem' = failed /\ log'.shown = l.shown
       \/ EndsSeen(l)

LEMMA LogFields ==
    ASSUME NEW l \in LogNow
    PROVE  /\ l \in Log /\ l.spent \in [Runs -> Nat] /\ l.late \in [Runs -> Nat]
           /\ l.shown \in [Runs -> [Ids -> Nat]] /\ l.mixed \subseteq Runs
  BY DEF LogNow, Log

LEMMA SurviveFields ==
    ASSUME NEW l \in LogNow, NEW next, Survive(next, l)
    PROVE  mem' = next /\ LogsAs(l) /\ log'.shown = l.shown
<1> DEFINE n == l.faults + 1
<1>1. mem' = next /\ log' = [l EXCEPT !.faults = n]
  BY DEF Survive
<1> HIDE DEF n
<1> QED
  BY <1>1 DEF LogNow, Log, LogsAs

LEMMA SeenFields ==
    ASSUME NEW l \in LogNow, NEW r \in {NoRun} \cup Runs
    PROVE  LET s == Seen(l, r)
           IN /\ s.spent = l.spent /\ s.late = l.late /\ s.mixed = l.mixed
              /\ \A k \in Runs : s.shown[k] = IF k = r THEN side'.version
                                                     ELSE l.shown[k]
<1> DEFINE v == side'.version
           x == [l.shown EXCEPT ![r] = v]
<1>1. CASE r = NoRun
  BY <1>1 DEF Seen, NoRun, Runs
<1>2. CASE r # NoRun
  <2>1. Seen(l, r) = [l EXCEPT !.shown = x]
    BY <1>2 DEF Seen
  <2>2. \A k \in Runs : x[k] = IF k = r THEN v ELSE l.shown[k]
    BY LogFields
  <2> HIDE DEF x, v
  <2>3. LET s == [l EXCEPT !.shown = x]
        IN s.spent = l.spent /\ s.late = l.late /\ s.mixed = l.mixed /\ s.shown = x
    BY DEF LogNow, Log
  <2> QED
    BY <2>1, <2>2, <2>3 DEF v
<1> QED
  BY <1>1, <1>2

LEMMA DieFields ==
    ASSUME NEW l \in LogNow, NEW r \in {NoRun} \cup Runs, Die(l, r), side' \in Side
    PROVE  /\ mem' = Closed /\ LogsAs(l)
           /\ \A k \in Runs : log'.shown[k] = IF k = r THEN side'.version
                                                     ELSE l.shown[k]
<1> DEFINE s == Seen(l, r)
           n == s.crashes + 1
<1>1. mem' = Closed /\ log' = [s EXCEPT !.crashes = n]
  BY DEF Die
<1>2. s \in LogNow
  BY SeenType
<1>3. /\ s.spent = l.spent /\ s.late = l.late /\ s.mixed = l.mixed
      /\ \A k \in Runs : s.shown[k] = IF k = r THEN side'.version ELSE l.shown[k]
  BY SeenFields
<1> HIDE DEF s, n
<1>4. /\ log'.spent = s.spent /\ log'.late = s.late /\ log'.mixed = s.mixed
      /\ log'.shown = s.shown
  BY <1>1, <1>2 DEF LogNow, Log
<1> QED
  BY <1>1, <1>3, <1>4 DEF LogsAs

LEMMA UnderWayIs ==
    ASSUME IInv
    PROVE  /\ UnderWay \in {NoRun} \cup Runs
           /\ Busy => UnderWay = mem.active.id /\ mem.active.id \in Runs
           /\ mem.active.id = NoRun => UnderWay = NoRun
           /\ mem.active.status \in Final => UnderWay = NoRun
  BY Parts DEF UnderWay, IInv, Stages, Busy, Final

(* The record of a run under way says that it is. *)
LEMMA OpenRecord ==
    ASSUME IInv, Kinds, Starts, Busy
    PROVE  /\ mem.active.id \in Runs /\ mem.active.status = "running"
           /\ rec[mem.active.id].status = "running"
           /\ rec[mem.active.id].start = mem.active.start
           /\ rec[mem.active.id].summary \in {"none", "running"}
<1>1. /\ mem.active.id \in Runs /\ mem.active.status = "running"
      /\ ~ Settled(rec[mem.active.id])
  BY DEF IInv, Stages, Busy
<1>2. rec[mem.active.id].status \notin Final
  BY <1>1 DEF Kinds, Settled
<1> QED
  BY <1>1, <1>2 DEF Kinds, Starts, Final

LEMMA SnapshotFields ==
    ASSUME NEW active \in ActiveRun, NEW tasks \in Queue
    PROVE  LET s == Snapshot(active, tasks)
           IN /\ s \in Record /\ ~ s.ready /\ s.status = active.status
              /\ s.start = active.start /\ s.summary = "none"
<1> DEFINE n == IF active.status = "running" THEN 0
                ELSE Since(Total(tasks), active.start)
<1>1. Snapshot(active, tasks)
        = [NoRecord EXCEPT !.status = active.status, !.start = active.start,
                           !.usage = n]
  BY DEF Snapshot
<1> HIDE DEF n
<1> QED
  BY <1>1, SnapshotType DEF NoRecord

LEMMA RecordAs ==
    ASSUME NEW x \in Record, NEW old \in Record, x.status \in {"running"} \cup Final
    PROVE  /\ Written(x, old).summary = old.summary
           /\ Written(x, old).start = x.start /\ Written(x, old).usage = x.usage
           /\ Written(x, old).owner = x.owner
           /\ Summarised(x).summary = x.status
           /\ Summarised(x).start = x.start /\ Summarised(x).usage = x.usage
           /\ Summarised(x).owner = x.owner
  BY DEF Written, Summarised, Record

LEMMA SavedEffect ==
    ASSUME IInv, Kinds, Starts, mem.active.id = NoRun \/ Busy,
           NEW t \in Queue, NEW steps \in 0 .. 3, Saved(t, steps)
    PROVE  /\ queue' \in {queue, t} /\ RecordsStay
           /\ steps = 3 => queue' = t
<1> DEFINE r == mem.active.id
           s == Snapshot(mem.active, t)
<1>1. /\ queue' = IF steps > 0 THEN t ELSE queue
      /\ rec' = IF r = NoRun \/ steps < 2 THEN rec
                ELSE [rec EXCEPT ![r] = IF steps = 2 THEN Written(s, rec[r])
                                        ELSE Summarised(s)]
  BY DEF Saved
<1>2. CASE rec' = rec
  BY <1>1, <1>2 DEF RecordsStay, StaysAs
<1>3. CASE rec' # rec
  <2>1. Busy /\ r # NoRun
    BY <1>1, <1>3
  <2>2. /\ r \in Runs /\ mem.active.status = "running" /\ rec[r].status = "running"
        /\ rec[r].start = mem.active.start /\ rec[r].summary \in {"none", "running"}
    BY <2>1, OpenRecord
  <2>3. /\ s \in Record /\ ~ s.ready /\ s.status = "running"
        /\ s.start = mem.active.start
    BY <2>2, SnapshotFields, Parts
  <2>4. rec[r] \in Record
    BY <2>2, Parts
  <2> HIDE DEF s
  <2> DEFINE y == IF steps = 2 THEN Written(s, rec[r]) ELSE Summarised(s)
  <2>5. /\ y.status = "running" /\ y.start = rec[r].start /\ ~ y.ready
        /\ y.summary \in {"none", "running"}
    <3> DEFINE w == Written(s, rec[r])
               z == Summarised(s)
    <3>1. w.status = s.status /\ w.ready = s.ready
      BY <2>3, <2>4, WrittenType
    <3>2. z.status = s.status /\ z.ready = s.ready
      BY <2>3, SummarisedType
    <3>3. /\ w.summary = rec[r].summary /\ w.start = s.start
          /\ z.summary = s.status /\ z.start = s.start
      BY <2>3, <2>4, RecordAs
    <3>4. y \in {w, z}
      OBVIOUS
    <3> HIDE DEF y, w, z
    <3> QED
      BY <2>2, <2>3, <3>1, <3>2, <3>3, <3>4
  <2>6. rec' = [rec EXCEPT ![r] = y]
    BY <1>1, <1>3
  <2> HIDE DEF y
  <2>7. RecordsStay
    BY <2>2, <2>5, <2>6, Parts DEF RecordsStay, StaysAs
  <2> QED
    BY <1>1, <2>7
<1> QED
  BY <1>2, <1>3

LEMMA SaveEffect ==
    ASSUME IInv, Kinds, Starts, mem.active.id = NoRun \/ Busy,
           NEW t \in Queue, NEW l \in LogNow, NEW next, NEW failed,
           side' \in Side, Persist(t, l, next, failed)
    PROVE  Saves(t, l, next, failed)
<1>1. CASE Saved(t, 3) /\ mem' = next /\ log' = l
  <2>1. queue' = t /\ RecordsStay
    BY <1>1, SavedEffect
  <2> QED
    BY <1>1, <2>1 DEF Saves, LogsAs
<1>2. ASSUME NEW steps \in 0 .. 2, Saved(t, steps), Survive(failed, l)
      PROVE  Saves(t, l, next, failed)
  <2>1. queue' \in {queue, t} /\ RecordsStay
    BY <1>2, SavedEffect
  <2> QED
    BY <1>2, <2>1, SurviveFields DEF Saves
<1>3. ASSUME NEW steps \in 0 .. 2, Saved(t, steps), Die(l, UnderWay)
      PROVE  Saves(t, l, next, failed)
  <2>1. queue' \in {queue, t} /\ RecordsStay
    BY <1>3, SavedEffect
  <2>2. /\ mem' = Closed /\ LogsAs(l)
        /\ \A k \in Runs : log'.shown[k] = IF k = UnderWay THEN side'.version
                                                  ELSE l.shown[k]
    BY <1>3, DieFields, UnderWayIs
  <2> QED
    BY <2>1, <2>2 DEF Saves, EndsSeen
<1> QED
  BY <1>1, <1>2, <1>3 DEF Persist

(* Where the process stands, with the queue t in memory. *)
Stands(m, t, pc, live) ==
    /\ m.tasks = t /\ m.pc = pc /\ m.live = live
    /\ m.active.id = mem.active.id /\ m.active.start = mem.active.start
    /\ pc \in {"idle", "archive"} /\ m.active.id # NoRun => m.active.status \in Final

(* What comes of a save: the process goes on, or stands elsewhere when the
   save failed, or has ended. *)
Outcome(t, l, pc, live, pc2, live2) ==
    /\ queue' \in {queue, t} /\ RecordsStay /\ LogsAs(l)
    /\ \/ Stands(mem', t, pc, live) /\ queue' = t /\ log'.shown = l.shown
       \/ Stands(mem', t, pc2, live2) /\ log'.shown = l.shown
       \/ EndsSeen(l)

LEMMA SaveOutcome ==
    ASSUME IInv, Kinds, Starts, mem.active.id = NoRun \/ Busy,
           NEW t \in Queue, NEW l \in LogNow, NEW next, NEW failed,
           side' \in Side, Persist(t, l, next, failed),
           NEW pc, NEW live, Stands(next, t, pc, live),
           NEW pc2, NEW live2, Stands(failed, t, pc2, live2)
    PROVE  Outcome(t, l, pc, live, pc2, live2)
<1>1. Saves(t, l, next, failed)
  BY SaveEffect
<1> QED
  BY <1>1 DEF Saves, Outcome, Stands

-----------------------------------------------------------------------------
(* Where the runs stand after a save. *)

LEMMA StayFields ==
    ASSUME RecordsStay
    PROVE  \A r \in Runs : /\ rec'[r].status = rec[r].status
                           /\ rec'[r].start = rec[r].start
                           /\ rec[r].status # "running" => rec'[r] = rec[r]
  BY DEF RecordsStay, StaysAs

LEMMA KindsStay == ASSUME Kinds, RecordsStay PROVE Kinds'
<1>1. ASSUME NEW r \in Runs
      PROVE  /\ rec'[r].ready <=> rec'[r].status \in Final
             /\ rec'[r].status \notin Final => rec'[r].summary \in {"none", "running"}
  <2>1. CASE rec'[r] = rec[r]
    BY <2>1 DEF Kinds
  <2>2. CASE /\ rec'[r].status = "running" /\ ~ rec'[r].ready
             /\ rec'[r].summary \in {"none", "running"}
    BY <2>2 DEF Final
  <2> QED
    BY <2>1, <2>2 DEF RecordsStay, StaysAs
<1> QED
  BY <1>1 DEF Kinds

LEMMA OpenStay ==
    ASSUME RecordsStay, log'.mixed = log.mixed PROVE OpenRuns' = OpenRuns
  BY StayFields DEF OpenRuns

(* Attempts stay with their runs, or go over to the run under way. *)
GrowsTask(m, t, r) ==
    /\ Len(m.history) <= Len(t.history)
    /\ \A n \in Numbers(t) :
         \/ t.history[n].exec = r
         \/ n \in Numbers(m) /\ t.history[n].exec = m.history[n].exec
Grows(q, t, r) == \A f \in Files : GrowsTask(q[f], t[f], r)

LEMMA TaskFacts ==
    ASSUME NEW t \in Entry
    PROVE  /\ t.history \in Seq(Attempt) /\ Len(t.history) \in 0 .. MaxAttempts
           /\ Numbers(t) = DOMAIN t.history /\ Numbers(t) \subseteq 1 .. MaxAttempts
           /\ \A n \in Numbers(t) :
                /\ t.history[n] \in Attempt /\ t.history[n].exec \in Runs
                /\ t.history[n].usage \in Nat /\ t.history[n].path \in BOOLEAN
<1>1. t.history \in Seq(Attempt) /\ Len(t.history) \in 0 .. MaxAttempts
  BY EntryFields
<1>2. /\ Numbers(t) = DOMAIN t.history /\ Numbers(t) \subseteq 1 .. MaxAttempts
      /\ \A n \in Numbers(t) : t.history[n] \in Attempt
  BY <1>1, Bounds DEF Numbers
<1> QED
  BY <1>1, <1>2 DEF Attempt

LEMMA FileFacts ==
    ASSUME NEW q \in Queue, NEW f \in Files
    PROVE  /\ q[f] \in Entry /\ Len(q[f].history) \in 0 .. MaxAttempts
           /\ \A n \in Numbers(q[f]) :
                /\ <<f, n>> \in Ids /\ n \in 1 .. MaxAttempts
                /\ q[f].history[n] \in Attempt /\ q[f].history[n].exec \in Runs
                /\ q[f].history[n].usage \in Nat /\ q[f].history[n].path \in BOOLEAN
<1>1. q[f] \in Entry
  BY DEF Queue
<1> QED
  BY <1>1, TaskFacts DEF Ids

LEMMA SameGrows == ASSUME NEW q \in Queue, NEW r PROVE Grows(q, q, r)
<1>1. ASSUME NEW f \in Files PROVE GrowsTask(q[f], q[f], r)
  <2>1. Len(q[f].history) \in Nat
    BY FileFacts, Bounds
  <2> QED
    BY <2>1 DEF GrowsTask
<1> QED
  BY <1>1 DEF Grows

LEMMA NamedGrows ==
    ASSUME RecordsStay, NEW q \in Queue, NEW t \in Queue, NEW r, NamedIn(q),
           Grows(q, t, r), r \in Runs => rec[r].status # "none"
    PROVE  NamedIn(t)'
<1>1. ASSUME NEW f \in Files, NEW n \in Numbers(t[f])
      PROVE  rec'[t[f].history[n].exec].status # "none"
  <2>1. t[f].history[n].exec \in Runs
    BY FileFacts
  <2>2. rec[t[f].history[n].exec].status # "none"
    BY <2>1 DEF NamedIn, Named, Grows, GrowsTask
  <2> QED
    BY <2>1, <2>2, StayFields
<1> QED
  BY <1>1 DEF NamedIn, Named, Numbers

LEMMA ClosedNamed == NamedIn(Closed.tasks)
<1>1. \A f \in Files : Closed.tasks[f] = NewTask
  BY DEF Closed
<1>2. Numbers(NewTask) = {}
  BY DEF Numbers, NewTask
<1> QED
  BY <1>1, <1>2 DEF NamedIn, Named

(* The process ends: only what is on disk counts. *)
LEMMA ClosedCourse ==
    ASSUME IInv, Kinds', NamedIn(queue)', mem' = Closed,
           \A r, s \in OpenRuns' : r = s
    PROVE  Course'
<1>1. NamedIn(Closed.tasks)'
  <2>1. \A f \in Files : Closed.tasks[f] = NewTask
    BY DEF Closed
  <2>2. Numbers(NewTask) = {}
    BY DEF Numbers, NewTask
  <2> QED
    BY <2>1, <2>2 DEF NamedIn, Named, Numbers
<1>2. NamedIn(mem.tasks)'
  BY <1>1 DEF NamedIn, Named, Numbers
<1> QED
  BY <1>2, ClosedType DEF Course, Alone, Down, Starts, Ends, Loaded, Levels, NoRun, Runs

LEMMA SaveCourse ==
    ASSUME IInv, Course, ~ Down, mem.active.id = NoRun \/ Busy,
           NEW t \in Queue, NEW l \in LogNow, l.mixed = log.mixed,
           NEW pc \in {"files", "archive", "retry", "idle"}, NEW live,
           NEW pc2 \in {"files", "archive", "idle"}, NEW live2,
           Outcome(t, l, pc, live, pc2, live2), Grows(mem.tasks, t, mem.active.id),
           pc = "retry" => Running(t) = {},
           \A f \in live : SameLast(t[f], t[f], mem.active.id),
           \A f \in live2 : /\ SameLast(t[f], t[f], mem.active.id)
                            /\ SameLast(t[f], queue[f], mem.active.id)
    PROVE  Course'
<1>1. RecordsStay /\ log'.mixed = log.mixed /\ queue' \in {queue, t}
  BY DEF Outcome, LogsAs
<1>2. Kinds' /\ OpenRuns' = OpenRuns
  BY <1>1, KindsStay, OpenStay DEF Course
<1>3. /\ \A r, s \in OpenRuns' : r = s
      /\ OpenRuns' \subseteq {mem.active.id}
  BY <1>2 DEF Course, Alone
<1>4. mem.active.id \in Runs => rec[mem.active.id].status # "none"
  BY DEF Course, Starts, Final
<1>5. NamedIn(queue)' /\ NamedIn(t)'
  <2>1. NamedIn(t)'
    BY <1>1, <1>4, NamedGrows, Parts DEF Course
  <2>2. NamedIn(queue) /\ queue \in Queue /\ Grows(queue, queue, NoRun)
    BY SameGrows, Parts DEF Course
  <2>3. CASE queue' = t
    BY <2>1, <2>3 DEF NamedIn, Named, Numbers
  <2>4. CASE queue' = queue
    <3>1. ASSUME NEW f \in Files, NEW n \in Numbers(queue[f])
          PROVE  rec'[queue[f].history[n].exec].status # "none"
      <4> DEFINE e == queue[f].history[n].exec
      <4>1. e \in Runs
        BY <2>2, FileFacts
      <4>2. rec[e].status # "none"
        BY <2>2 DEF NamedIn, Named
      <4> HIDE DEF e
      <4>3. rec'[e].status = rec[e].status
        BY <1>1, <4>1, StayFields
      <4> QED
        BY <4>2, <4>3 DEF e
    <3>2. ASSUME NEW f \in Files PROVE Named(queue[f])'
      BY <2>4, <3>1 DEF Named, Numbers
    <3> QED
      BY <2>1, <3>2 DEF NamedIn
  <2> QED
    BY <1>1, <2>1, <2>3, <2>4
<1>6. CASE mem' = Closed
  BY <1>2, <1>3, <1>5, <1>6, ClosedCourse
<1>7. ASSUME NEW p \in {"files", "archive", "retry", "idle"}, NEW w,
             Stands(mem', t, p, w), p = "retry" => Running(t) = {},
             \A f \in w : SameLast(t[f], queue'[f], mem.active.id)
      PROVE  Course'
  <2>1. /\ mem'.tasks = t /\ mem'.active.id = mem.active.id /\ mem'.live = w
        /\ mem'.active.start = mem.active.start /\ mem'.pc \notin {"closed", "load"}
        /\ mem'.pc \in {"idle", "archive"} /\ mem'.active.id # NoRun
             => mem'.active.status \in Final
        /\ mem'.pc = "retry" => Running(t) = {}
    BY <1>7 DEF Stands
  <2>2. Alone'
    BY <1>3, <2>1 DEF Alone
  <2>3. Starts'
    BY <1>1, <2>1, StayFields DEF Course, Starts
  <2>4. Ends'
    BY <2>1 DEF Ends
  <2>5. Loaded'
    BY <2>1 DEF Loaded, Running
  <2>6. Levels'
    BY <1>7, <2>1 DEF Levels, SameLast
  <2>7. NamedIn(mem.tasks)'
    BY <1>5, <2>1 DEF NamedIn, Named, Numbers
  <2> QED
    BY <1>2, <1>5, <2>2, <2>3, <2>4, <2>5, <2>6, <2>7 DEF Course
<1>8. CASE Stands(mem', t, pc, live) /\ queue' = t
  BY <1>7, <1>8
<1>9. CASE Stands(mem', t, pc2, live2)
  <2>1. \A f \in live2 : SameLast(t[f], queue'[f], mem.active.id)
    BY <1>1
  <2> QED
    BY <1>7, <1>9, <2>1
<1> QED
  BY <1>6, <1>8, <1>9 DEF Outcome, EndsSeen

-----------------------------------------------------------------------------
(* What the steps do to the attempts of a file. *)

(* The last attempt becomes a, the others stay as they are. *)
LastAs(m, u, a) ==
    /\ m.history # <<>> /\ Len(u.history) = Len(m.history)
    /\ u.history[Len(m.history)] = a
    /\ \A n \in Numbers(m) : n # Len(m.history) => u.history[n] = m.history[n]

LEMMA LastReplaced ==
    ASSUME NEW m \in Entry, m.history # <<>>, NEW a, NEW u,
           u.history = [m.history EXCEPT ![Len(m.history)] = a]
    PROVE  LastAs(m, u, a)
<1>1. m.history \in Seq(Attempt) /\ Len(m.history) \in DOMAIN m.history
  BY EntryFields, LastAttempt
<1> QED
  BY <1>1 DEF LastAs, Numbers

LEMMA LastGrows ==
    ASSUME NEW m \in Entry, NEW u, NEW a, NEW r, LastAs(m, u, a),
           a.exec \in {Last(m).exec, r}
    PROVE  GrowsTask(m, u, r)
<1>1. Len(m.history) \in Nat /\ Last(m) = m.history[Len(m.history)]
  BY TaskFacts, Bounds DEF Last
<1>2. Numbers(u) = Numbers(m)
  BY DEF LastAs, Numbers
<1> QED
  BY <1>1, <1>2 DEF LastAs, GrowsTask

LEMMA EndedLast ==
    ASSUME NEW m \in Entry, m.history # <<>>, NEW e \in Endings, NEW n \in Nat
    PROVE  \E a \in Attempt :
             /\ LastAs(m, Ended(m, e, n), a)
             /\ a.exec = Last(m).exec /\ a.path = Last(m).path /\ a.usage = n
<1> DEFINE a == [Last(m) EXCEPT !.outcome = e[1], !.usage = n]
<1>1. Last(m) \in Attempt /\ m \in Task
  BY LastAttempt, EntryFields
<1>2. e[1] \in {"done", "unfinished"}
  BY DEF Endings
<1>3. /\ a \in Attempt /\ a.exec = Last(m).exec /\ a.path = Last(m).path
      /\ a.usage = n
  BY <1>1, <1>2 DEF Attempt
<1>4. Ended(m, e, n).history = [m.history EXCEPT ![Len(m.history)] = a]
  <2>1. Ended(m, e, n) = [m EXCEPT !.status = e[2],
                           !.history = [m.history EXCEPT ![Len(m.history)] = a]]
    BY <1>1 DEF Ended, Last, Task
  <2> HIDE DEF a
  <2> QED
    BY <1>1, <2>1 DEF Task
<1> HIDE DEF a
<1> QED
  BY <1>3, <1>4, LastReplaced

LEMMA ResumedLast ==
    ASSUME NEW m \in Entry, m.history # <<>>, NEW r \in Runs
    PROVE  \E a \in Attempt :
             /\ LastAs(m, Resumed(m, r), a)
             /\ a.exec = r /\ a.path = Last(m).path /\ a.usage = Last(m).usage
<1> DEFINE a == [Last(m) EXCEPT !.exec = r, !.outcome = "open"]
           h == [m.history EXCEPT ![Len(m.history)] = a]
<1>1. Last(m) \in Attempt /\ m \in Task
  BY LastAttempt, EntryFields
<1>2. /\ a \in Attempt /\ a.exec = r /\ a.path = Last(m).path
      /\ a.usage = Last(m).usage
  BY <1>1 DEF Attempt
<1>3. Resumed(m, r) = Begun(m, h)
  BY <1>1 DEF Resumed, Begun, Last, Task
<1> HIDE DEF a
<1>4. Resumed(m, r).history = [m.history EXCEPT ![Len(m.history)] = a]
  <2> HIDE DEF h
  <2>1. Begun(m, h).history = h
    BY <1>1 DEF Begun, Task
  <2> QED
    BY <1>3, <2>1 DEF h
<1> QED
  BY <1>2, <1>4, LastReplaced

(* A new attempt: not spent, not known to have a checkpoint. *)
OneMore(m, u, r) ==
    /\ Len(u.history) = Len(m.history) + 1 /\ u.status = "running"
    /\ \A n \in Numbers(m) : u.history[n] = m.history[n]
    /\ u.history[Len(u.history)].exec = r
    /\ u.history[Len(u.history)].usage = 0
    /\ ~ u.history[Len(u.history)].path

LEMMA AddedOne ==
    ASSUME NEW m \in Entry, NEW r \in Runs
    PROVE  OneMore(m, Added(m, r), r)
<1> DEFINE a == [exec |-> r, path |-> FALSE, usage |-> 0, outcome |-> "open"]
           h == Append(m.history, a)
<1>1. m \in Task /\ m.history \in Seq(Attempt)
  BY EntryFields
<1>2. a \in Attempt /\ a.exec = r /\ a.usage = 0 /\ ~ a.path
  BY DEF Attempt
<1> HIDE DEF a
<1>3. /\ Len(h) = Len(m.history) + 1 /\ h[Len(h)] = a
      /\ \A n \in Numbers(m) : h[n] = m.history[n]
  BY <1>1, <1>2 DEF Numbers
<1> HIDE DEF h
<1>4. Added(m, r).history = h /\ Added(m, r).status = "running"
  <2>1. Added(m, r) = Begun(m, h)
    BY <1>1 DEF Added, Begun, Task, h, a
  <2> QED
    BY <1>1, <2>1 DEF Begun, Task
<1> QED
  BY <1>2, <1>3, <1>4 DEF OneMore

LEMMA OneMoreGrows ==
    ASSUME NEW m \in Entry, NEW u, NEW r, OneMore(m, u, r)
    PROVE  GrowsTask(m, u, r)
<1>1. Len(m.history) \in Nat
  BY TaskFacts, Bounds
<1>2. \A n \in Numbers(u) : n = Len(u.history) \/ n \in Numbers(m)
  BY <1>1 DEF Numbers, OneMore
<1>3. Len(m.history) <= Len(u.history)
  BY <1>1 DEF OneMore
<1>4. ASSUME NEW n \in Numbers(u), n # Len(u.history)
      PROVE  n \in Numbers(m) /\ u.history[n].exec = m.history[n].exec
  BY <1>2, <1>4 DEF OneMore
<1>5. u.history[Len(u.history)].exec = r
  BY DEF OneMore
<1> QED
  BY <1>3, <1>4, <1>5 DEF GrowsTask

LEMMA WithGrows ==
    ASSUME mem.tasks \in Queue, NEW f \in Files, NEW u \in Entry, NEW r,
           GrowsTask(mem.tasks[f], u, r)
    PROVE  Grows(mem.tasks, With(f, u), r)
<1>1. ASSUME NEW g \in Files PROVE GrowsTask(mem.tasks[g], With(f, u)[g], r)
  <2>1. CASE g = f
    BY <2>1, WithType
  <2>2. CASE g # f
    <3>1. With(f, u)[g] = mem.tasks[g]
      BY <2>2, WithType
    <3> QED
      BY <3>1, SameGrows DEF Grows
  <2> QED
    BY <2>1, <2>2
<1> QED
  BY <1>1 DEF Grows

(* What recovery makes of a file that was marked as running. *)
Mended(f, q, u) ==
    \/ q[f].status # "running" /\ u = q[f]
    \/ /\ q[f].status = "running" /\ u.status # "running"
       /\ \E a \in Attempt : /\ LastAs(q[f], u, a)
                             /\ a.exec = Last(q[f]).exec
                             /\ a.path = Last(q[f]).path
                             /\ a.usage = KnownUsage(q, f)

LEMMA RecoveryMends ==
    ASSUME side \in Side, NEW q \in Queue, NEW t \in Recoveries(q)
    PROVE  t \in Queue /\ Running(t) = {} /\ \A f \in Files : Mended(f, q, t[f])
<1>1. PICK e \in [Running(q) -> Endings \ {<<"unfinished", "failed">>}] :
        t = Recovered(q, e)
  BY DEF Recoveries
<1>2. \A f \in Files : t[f] = IF f \in Running(q)
                              THEN Ended(q[f], e[f], KnownUsage(q, f)) ELSE q[f]
  BY <1>1 DEF Recovered
<1>3. ASSUME NEW f \in Files PROVE Mended(f, q, t[f]) /\ t[f].status # "running"
  <2>1. q[f] \in Entry
    BY DEF Queue
  <2>2. CASE f \notin Running(q)
    BY <1>2, <2>2 DEF Running, Mended
  <2>3. CASE f \in Running(q)
    <3>1. q[f].history # <<>> /\ q[f].status = "running"
      BY <2>1, <2>3 DEF Running, Entry
    <3>2. e[f] \in Endings
      BY <2>3
    <3>3. KnownUsage(q, f) \in Nat
      <4>1. LastId(f, q) \in Ids
        BY <3>1, LastIdType
      <4>2. Last(q[f]).usage \in Nat
        BY <2>1, <3>1, LastAttempt DEF Attempt
      <4> QED
        BY <4>1, <4>2, RecordedType DEF KnownUsage
    <3>4. t[f] = Ended(q[f], e[f], KnownUsage(q, f))
      BY <1>2, <2>3
    <3>5. t[f].status # "running"
      BY <2>1, <3>1, <3>2, <3>3, <3>4, EndedType
    <3>6. \E a \in Attempt : /\ LastAs(q[f], t[f], a)
                             /\ a.exec = Last(q[f]).exec
                             /\ a.path = Last(q[f]).path
                             /\ a.usage = KnownUsage(q, f)
      BY <2>1, <3>1, <3>2, <3>3, <3>4, EndedLast
    <3> QED
      BY <3>1, <3>5, <3>6 DEF Mended
  <2> QED
    BY <2>2, <2>3
<1>4. t \in Queue
  BY RecoveryType
<1> QED
  BY <1>3, <1>4 DEF Running

LEMMA MendedGrows ==
    ASSUME NEW q \in Queue, NEW t \in Queue, NEW r,
           \A f \in Files : Mended(f, q, t[f])
    PROVE  Grows(q, t, r)
<1>1. ASSUME NEW f \in Files PROVE GrowsTask(q[f], t[f], r)
  <2>1. q[f] \in Entry
    BY FileFacts
  <2>2. CASE t[f] = q[f]
    BY <2>2, SameGrows DEF Grows
  <2>3. CASE \E a \in Attempt : LastAs(q[f], t[f], a) /\ a.exec = Last(q[f]).exec
    BY <2>1, <2>3, LastGrows
  <2> QED
    BY <2>2, <2>3 DEF Mended
<1> QED
  BY <1>1 DEF Grows

-----------------------------------------------------------------------------
(* The steps that save the queue, one by one. *)

LEMMA RunFacts ==
    ASSUME IInv, mem.pc = "files" \/ mem.pc = "begun"
    PROVE  /\ Busy /\ ~ Down /\ mem.active.id \in Runs /\ mem.active.status = "running"
           /\ mem.active.id # NoRun
           /\ mem.pc = "begun" => mem.live = {}
  BY DEF IInv, Stages, Busy, Down, NoRun, Runs


(* The run goes on after a worker's save, or without the worker. *)
LEMMA WorkerStands ==
    ASSUME IInv, mem.pc = "files", NEW f, NEW t \in Queue, NEW live \in SUBSET Files
    PROVE  /\ Stands([mem EXCEPT !.tasks = t, !.live = live], t, "files", live)
           /\ Stands(Broken(f, t), t, "files", mem.live \ {f})
<1>1. Stands([mem EXCEPT !.tasks = t, !.live = live], t, "files", live)
  BY Parts DEF Stands, Process
<1>2. Stands(Broken(f, t), t, "files", mem.live \ {f})
  BY BrokenType DEF Stands
<1> QED
  BY <1>1, <1>2

LEMMA WorkerOutcome ==
    ASSUME IInv, Kinds, Starts, mem.pc = "files", side' \in Side,
           NEW f, NEW t \in Queue, NEW live \in SUBSET Files,
           Persist(t, log, [mem EXCEPT !.tasks = t, !.live = live], Broken(f, t))
    PROVE  Outcome(t, log, "files", live, "files", mem.live \ {f})
<1> DEFINE next == [mem EXCEPT !.tasks = t, !.live = live]
           failed == Broken(f, t)
<1>1. Stands(next, t, "files", live) /\ Stands(failed, t, "files", mem.live \ {f})
  BY WorkerStands
<1>2. Persist(t, log, next, failed) /\ log \in LogNow /\ Busy
  BY Parts, RunFacts
<1> HIDE DEF next, failed
<1> QED
  BY <1>1, <1>2, SaveOutcome

(* processOne begins an attempt: the last one again, or one more. *)
Restarted(m, u, r) ==
    /\ u.status = "running"
    /\ \/ \E a \in Attempt : /\ LastAs(m, u, a) /\ a.exec = r
                             /\ a.path = Last(m).path /\ a.usage = Last(m).usage
       \/ OneMore(m, u, r)

LEMMA RestartedGrows ==
    ASSUME NEW m \in Entry, NEW u, NEW r, Restarted(m, u, r)
    PROVE  GrowsTask(m, u, r)
<1>1. CASE \E a \in Attempt : LastAs(m, u, a) /\ a.exec = r
  BY <1>1, LastGrows
<1> QED
  BY <1>1, OneMoreGrows DEF Restarted

LEMMA BeginAttemptEffect ==
    ASSUME IInv, Kinds, Starts, NEW f \in Files, BeginAttempt(f)
    PROVE  /\ mem.pc = "files" /\ f \notin mem.live /\ side' = side /\ evid' = evid
           /\ mem.tasks[f].status # "running"
           /\ \E u \in Entry :
                /\ Restarted(mem.tasks[f], u, mem.active.id)
                /\ With(f, u) \in Queue
                /\ Outcome(With(f, u), log, "files", mem.live \cup {f},
                           "files", mem.live \ {f})
<1> DEFINE m == mem.tasks[f]
           live == mem.live \cup {f}
<1>1. /\ mem.pc = "files" /\ f \notin mem.live /\ side' = side /\ evid' = evid
      /\ m.status \in {"pending", "failed"}
  BY DEF BeginAttempt
<1>2. PICK u \in (IF CanResume(m) THEN {Resumed(m, mem.active.id)} ELSE {})
               \cup (IF Len(m.history) < MaxAttempts
                     THEN {Added(m, mem.active.id)} ELSE {}) :
        Persist(With(f, u), log, [mem EXCEPT !.tasks = With(f, u), !.live = live],
                Broken(f, With(f, u)))
  BY DEF BeginAttempt
<1>3. m \in Entry /\ mem.active.id \in Runs
  BY <1>1, Parts, RunFacts DEF Queue
<1>4. u \in Entry /\ Restarted(m, u, mem.active.id)
  <2>1. CASE CanResume(m) /\ u = Resumed(m, mem.active.id)
    <3>1. m.history # <<>>
      BY <2>1 DEF CanResume
    <3>2. u \in Entry /\ u.status = "running"
      BY <1>3, <2>1, <3>1, ResumedType
    <3>3. \E a \in Attempt : /\ LastAs(m, u, a) /\ a.exec = mem.active.id
                             /\ a.path = Last(m).path /\ a.usage = Last(m).usage
      BY <1>3, <2>1, <3>1, ResumedLast
    <3> QED
      BY <3>2, <3>3 DEF Restarted
  <2>2. CASE Len(m.history) < MaxAttempts /\ u = Added(m, mem.active.id)
    <3>1. u \in Entry /\ u.status = "running"
      BY <1>3, <2>2, AddedType
    <3>2. OneMore(m, u, mem.active.id)
      BY <1>3, <2>2, AddedOne
    <3> QED
      BY <3>1, <3>2 DEF Restarted
  <2> QED
    BY <1>2, <2>1, <2>2
<1>5. With(f, u) \in Queue
  BY <1>4, WithType, Parts
<1>6. live \in SUBSET Files
  BY Parts DEF Process
<1> HIDE DEF m, live
<1>7. Outcome(With(f, u), log, "files", live, "files", mem.live \ {f})
  BY <1>1, <1>2, <1>5, <1>6, WorkerOutcome, Parts
<1> QED
  BY <1>1, <1>4, <1>5, <1>7 DEF m, live

LEMMA StageEffect ==
    ASSUME IInv, Kinds, Starts, NEW f \in Files, Stage(f)
    PROVE  LET i == LastId(f, mem.tasks)
           IN /\ mem.pc = "files" /\ f \in mem.live /\ i \in Ids /\ evid' = evid
              /\ side'.point = side.point /\ side' \in Side
              /\ \A j \in Ids \ {i} : side'.version[j] = side.version[j]
              /\ Outcome(mem.tasks, log, "files", mem.live, "files", mem.live \ {f})
<1> DEFINE i == LastId(f, mem.tasks)
<1>1. /\ f \in mem.live /\ evid' = evid
      /\ side' = [side EXCEPT !.version[i] = side.version[i] + 1]
      /\ Persist(mem.tasks, log, mem, Broken(f, mem.tasks))
  BY DEF Stage
<1>2. i \in Ids /\ mem.pc = "files"
  BY <1>1, LiveTask
<1> HIDE DEF i
<1>3. /\ side' \in Side /\ side'.point = side.point
      /\ \A j \in Ids \ {i} : side'.version[j] = side.version[j]
  BY <1>1, <1>2, Parts DEF Side
<1>4. /\ mem = [mem EXCEPT !.tasks = mem.tasks, !.live = mem.live]
      /\ mem.live \in SUBSET Files
  BY Parts DEF Process
<1>5. Persist(mem.tasks, log, [mem EXCEPT !.tasks = mem.tasks, !.live = mem.live],
              Broken(f, mem.tasks))
  BY <1>1, <1>4
<1>6. Outcome(mem.tasks, log, "files", mem.live, "files", mem.live \ {f})
  BY <1>2, <1>3, <1>4, <1>5, WorkerOutcome, Parts
<1> QED
  BY <1>1, <1>2, <1>3, <1>6 DEF i

LEMMA FinishAttemptEffect ==
    ASSUME IInv, Kinds, Starts, NEW f \in Files, FinishAttempt(f)
    PROVE  /\ mem.pc = "files" /\ f \in mem.live /\ side' = side /\ evid' = evid
           /\ \E u \in Entry :
                /\ u.status # "running" /\ With(f, u) \in Queue
                /\ \E a \in Attempt :
                     /\ LastAs(mem.tasks[f], u, a)
                     /\ a.exec = Last(mem.tasks[f]).exec
                     /\ a.path = Last(mem.tasks[f]).path
                     /\ a.usage = Last(mem.tasks[f]).usage
                /\ Outcome(With(f, u), log, "files", mem.live \ {f},
                           "files", mem.live \ {f})
<1> DEFINE m == mem.tasks[f]
           u(e) == Ended(m, e, Last(m).usage)
           live == mem.live \ {f}
<1>1. f \in mem.live /\ side' = side /\ evid' = evid
  BY DEF FinishAttempt
<1>2. PICK e \in Endings :
        Persist(With(f, u(e)), log, [mem EXCEPT !.tasks = With(f, u(e)), !.live = live],
                Broken(f, With(f, u(e))))
  BY DEF FinishAttempt
<1>3. mem.pc = "files" /\ m \in Entry /\ m.history # <<>>
  BY <1>1, LiveTask
<1>4. Last(m).usage \in Nat
  BY <1>3, LastAttempt DEF Attempt
<1>5. u(e) \in Entry /\ u(e).status # "running"
  BY <1>3, <1>4, EndedType
<1>6. \E a \in Attempt : /\ LastAs(m, u(e), a) /\ a.exec = Last(m).exec
                         /\ a.path = Last(m).path /\ a.usage = Last(m).usage
  BY <1>3, <1>4, EndedLast
<1> HIDE DEF u
<1>7. With(f, u(e)) \in Queue
  BY <1>5, WithType, Parts
<1>8. live \in SUBSET Files
  BY Parts DEF Process
<1> HIDE DEF live
<1>9. Outcome(With(f, u(e)), log, "files", live, "files", mem.live \ {f})
  BY <1>1, <1>2, <1>3, <1>7, <1>8, WorkerOutcome, Parts
<1> QED
  BY <1>1, <1>3, <1>5, <1>6, <1>7, <1>9 DEF live

(* The first checkpoint of an attempt. *)
Attached(f) ==
    \E u \in Entry : \E a \in Attempt :
      LET h == mem.tasks[f].history
          i == LastId(f, mem.tasks)
          prior == SumUsage(Earlier(h))
          total == Larger(PriorTotal(f, h), SumUsage(h))
      IN /\ prior \in Nat /\ total \in Nat
         /\ LastAs(mem.tasks[f], u, a) /\ u.status = "running"
         /\ a.exec = Last(mem.tasks[f]).exec /\ a.path
         /\ a.usage = Since(total, prior)
         /\ side'.version = side.version
         /\ side'.point[i] = [prior |-> prior, total |-> total]
         /\ \A j \in Ids \ {i} : side'.point[j] = side.point[j]
         /\ With(f, u) \in Queue
         /\ Outcome(With(f, u), log, "files", mem.live, "files", mem.live \ {f})

LEMMA AttachEffect ==
    ASSUME IInv, Kinds, Starts, NEW f \in Files, Attach(f)
    PROVE  /\ mem.pc = "files" /\ f \in mem.live /\ evid' = evid
           /\ ~ Last(mem.tasks[f]).path /\ LastId(f, mem.tasks) \in Ids
           /\ side' \in Side
           /\ \/ Attached(f)
              \/ /\ side' = side
                 /\ Outcome(mem.tasks, log, "files", mem.live \ {f},
                            "files", mem.live \ {f})
<1> DEFINE i == LastId(f, mem.tasks)
           t == mem.tasks[f]
           h == mem.tasks[f].history
           prior == SumUsage(Earlier(h))
           total == Larger(PriorTotal(f, h), SumUsage(h))
           a == [Last(t) EXCEPT !.path = TRUE, !.usage = Since(total, prior)]
           u == [t EXCEPT !.history = [t.history EXCEPT ![Len(t.history)] = a]]
           point == [prior |-> prior, total |-> total]
           next == [mem EXCEPT !.tasks = With(f, u)]
<1>1. f \in mem.live /\ evid' = evid /\ ~ Last(mem.tasks[f]).path
  BY DEF Attach
<1>2. /\ mem.pc = "files" /\ t \in Entry /\ t.status = "running" /\ h # <<>>
      /\ i \in Ids
  BY <1>1, LiveTask
<1>3. /\ t \in Task /\ h \in Seq(Attempt) /\ Len(h) \in 1 .. MaxAttempts
      /\ Last(t) \in Attempt
  BY <1>2, EntryFields, LastAttempt
<1>4. \/ /\ side' = [side EXCEPT !.point[i] = point]
         /\ Persist(With(f, u), log, next, Broken(f, With(f, u)))
      \/ /\ Survive(Broken(f, mem.tasks), log)
         /\ UNCHANGED <<side, queue, rec>>
  BY <1>3 DEF Attach, Last, Task
<1>5. prior \in Nat /\ total \in Nat
  BY <1>3, PriorTotalType, SumUsageType, LargerType, Parts
<1> HIDE DEF prior, total
<1>6. /\ point \in Point /\ a \in Attempt /\ a.exec = Last(t).exec /\ a.path
      /\ a.usage = Since(total, prior)
  BY <1>3, <1>5, SinceType DEF Point, Attempt
<1> HIDE DEF a
<1>7. u \in Entry /\ u.status = "running"
  BY <1>2, <1>6, ChangedLast
<1>8. LastAs(t, u, a)
  <2>1. u.history = [t.history EXCEPT ![Len(t.history)] = a]
    BY <1>3 DEF Task
  <2> HIDE DEF u
  <2> QED
    BY <1>2, <1>6, <2>1, LastReplaced
<1> HIDE DEF u, i
<1>9. With(f, u) \in Queue
  BY <1>7, WithType, Parts
<1>10. mem.live \in SUBSET Files /\ next = [mem EXCEPT !.tasks = With(f, u), !.live = mem.live]
  BY Parts DEF Process
<1> HIDE DEF next
<1>11. CASE /\ side' = [side EXCEPT !.point[i] = point]
            /\ Persist(With(f, u), log, next, Broken(f, With(f, u)))
  <2> HIDE DEF point, t
  <2>1. /\ side' \in Side /\ side'.version = side.version
        /\ side'.point[i] = point
        /\ \A j \in Ids \ {i} : side'.point[j] = side.point[j]
    BY <1>2, <1>6, <1>11, Parts DEF Side
  <2>2. Persist(With(f, u), log, [mem EXCEPT !.tasks = With(f, u), !.live = mem.live],
                Broken(f, With(f, u)))
    BY <1>10, <1>11
  <2>3. Outcome(With(f, u), log, "files", mem.live, "files", mem.live \ {f})
    BY <1>2, <1>9, <1>10, <2>1, <2>2, WorkerOutcome
  <2>4. side'.point[i] = [prior |-> prior, total |-> total]
    BY <2>1 DEF point
  <2>5. Attached(f)
    BY <1>5, <1>6, <1>7, <1>8, <1>9, <2>1, <2>3, <2>4
       DEF Attached, i, t, prior, total
  <2> QED
    BY <1>1, <1>2, <2>1, <2>5 DEF i
<1>12. CASE /\ Survive(Broken(f, mem.tasks), log)
            /\ UNCHANGED <<side, queue, rec>>
  <2>1. /\ mem' = Broken(f, mem.tasks) /\ LogsAs(log) /\ log'.shown = log.shown
    BY <1>12, SurviveFields, Parts
  <2>2. Stands(mem', mem.tasks, "files", mem.live \ {f})
    BY <1>2, <2>1, WorkerStands, Parts, <1>10
  <2>3. RecordsStay
    BY <1>12 DEF RecordsStay, StaysAs
  <2> QED
    BY <1>1, <1>2, <1>12, <2>1, <2>2, <2>3, Parts DEF Outcome, i
<1> QED
  BY <1>4, <1>11, <1>12

-----------------------------------------------------------------------------
(* The steps of the run as a whole, and of a retry. *)

LEMMA EndsAsStands ==
    ASSUME IInv, NEW status \in Final, mem.live = {}
    PROVE  /\ EndsAs(status) \in Process
           /\ Stands(EndsAs(status), mem.tasks, "archive", {})
           /\ EndsAs(status).active.status = status
<1>1. /\ EndsAs(status) \in Process /\ EndsAs(status).tasks = mem.tasks
      /\ EndsAs(status).pc = "archive" /\ EndsAs(status).live = mem.live
  BY EndsAsType
<1>2. /\ EndsAs(status).active.id = mem.active.id
      /\ EndsAs(status).active.start = mem.active.start
      /\ EndsAs(status).active.status = status
  BY Parts DEF EndsAs, Process, ActiveRun
<1> QED
  BY <1>1, <1>2 DEF Stands

(* What the artifacts are is noted for the active run. *)
SeenAs(l) ==
    /\ l.spent = log.spent /\ l.mixed = log.mixed
    /\ \A k \in Runs : l.shown[k] = IF k = mem.active.id THEN side'.version
                                                         ELSE log.shown[k]

LEMMA SeenIs ==
    ASSUME IInv, side' \in Side
    PROVE  LET l == Seen(log, mem.active.id)
           IN l \in LogNow /\ SeenAs(l) /\ l.late = log.late
  BY SeenFields, SeenType, Parts DEF SeenAs

LateAs(l, n) ==
    \A k \in Runs : l.late[k] = IF k = mem.active.id THEN log.late[k] + n
                                                     ELSE log.late[k]

LEMMA LateIs ==
    ASSUME IInv, mem.active.id \in Runs, side' \in Side, NEW t \in Queue
    PROVE  LET l == Late(Seen(log, mem.active.id), t)
           IN /\ l \in LogNow /\ SeenAs(l)
              /\ LateAs(l, Since(Total(t), Total(mem.tasks)))
<1> DEFINE s == Seen(log, mem.active.id)
           n == Since(Total(t), Total(mem.tasks))
           k == [s.late EXCEPT ![mem.active.id] = @ + n]
           l == Late(s, t)
<1>1. s \in LogNow /\ SeenAs(s) /\ s.late = log.late
  BY SeenIs
<1> HIDE DEF s
<1>2. l = [s EXCEPT !.late = k]
  BY <1>1 DEF Late, LogNow, Log
<1>3. l \in LogNow
  BY <1>1, LateType, Parts
<1> HIDE DEF n
<1>4. \A j \in Runs : k[j] = IF j = mem.active.id THEN log.late[j] + n ELSE log.late[j]
  BY <1>1, LogFields
<1> HIDE DEF k
<1>5. l.late = k /\ l.spent = s.spent /\ l.mixed = s.mixed /\ l.shown = s.shown
  BY <1>1, <1>2 DEF LogNow, Log
<1> HIDE DEF l
<1>6. SeenAs(l) /\ LateAs(l, n)
  BY <1>1, <1>4, <1>5 DEF SeenAs, LateAs
<1> QED
  BY <1>3, <1>6 DEF l, s, n

LEMMA RecoverRunEffect ==
    ASSUME IInv, Kinds, Starts, RecoverRun
    PROVE  /\ mem.pc = "begun" /\ side' = side /\ evid' = evid
           /\ \E t \in Queue : \E l \in LogNow :
                /\ Running(t) = {} /\ \A f \in Files : Mended(f, mem.tasks, t[f])
                /\ SeenAs(l) /\ LateAs(l, Since(Total(t), Total(mem.tasks)))
                /\ Outcome(t, l, "files", {}, "archive", {})
<1>1. mem.pc = "begun" /\ side' = side /\ evid' = evid
  BY DEF RecoverRun
<1> DEFINE next(t) == [mem EXCEPT !.pc = "files", !.tasks = t]
           failed(t) == [EndsAs("failed") EXCEPT !.tasks = t]
           l(t) == Late(Seen(log, mem.active.id), t)
<1>2. PICK t \in Recoveries(mem.tasks) : Persist(t, l(t), next(t), failed(t))
  BY DEF RecoverRun
<1>3. t \in Queue /\ Running(t) = {} /\ \A f \in Files : Mended(f, mem.tasks, t[f])
  BY RecoveryMends, Parts
<1>4. /\ mem.active.id \in Runs /\ mem.live = {} /\ Busy /\ mem.active.id # NoRun
  BY <1>1, RunFacts
<1>5. l(t) \in LogNow /\ SeenAs(l(t)) /\ LateAs(l(t), Since(Total(t), Total(mem.tasks)))
  BY <1>1, <1>3, <1>4, LateIs, Parts
<1>6. Stands(next(t), t, "files", {})
  BY <1>4, Parts DEF Stands, Process
<1>7. Stands(failed(t), t, "archive", {})
  <2> DEFINE m == EndsAs("failed")
  <2>1. m \in Process /\ Stands(m, mem.tasks, "archive", {}) /\ m.active.status \in Final
    BY <1>4, EndsAsStands DEF Final
  <2> HIDE DEF m
  <2>2. failed(t) = [m EXCEPT !.tasks = t]
    BY DEF m
  <2> QED
    BY <2>1, <2>2 DEF Stands, Process
<1> HIDE DEF next, failed, l
<1>8. Outcome(t, l(t), "files", {}, "archive", {})
  BY <1>1, <1>2, <1>3, <1>4, <1>5, <1>6, <1>7, SaveOutcome, Parts
<1> QED
  BY <1>1, <1>3, <1>5, <1>8

LEMMA PrepareFailsEffect ==
    ASSUME IInv, PrepareFails
    PROVE  /\ mem.pc = "begun" /\ side' = side /\ evid' = evid
           /\ \E l \in LogNow :
                /\ SeenAs(l) /\ l.late = log.late
                /\ Outcome(mem.tasks, l, "archive", {}, "archive", {})
<1>1. /\ mem.pc = "begun" /\ side' = side /\ evid' = evid
      /\ queue' = queue /\ rec' = rec /\ log' = Seen(log, mem.active.id)
  BY DEF PrepareFails
<1>2. PICK status \in Final : mem' = EndsAs(status)
  BY DEF PrepareFails, Final
<1>3. mem.live = {}
  BY <1>1, RunFacts
<1>4. Stands(mem', mem.tasks, "archive", {})
  BY <1>2, <1>3, EndsAsStands
<1>5. log' \in LogNow /\ SeenAs(log') /\ log'.late = log.late
  BY <1>1, SeenIs, Parts
<1>6. RecordsStay
  BY <1>1 DEF RecordsStay, StaysAs
<1>7. Outcome(mem.tasks, log', "archive", {}, "archive", {})
  BY <1>1, <1>4, <1>6 DEF Outcome, LogsAs
<1> QED
  BY <1>1, <1>5, <1>7

LEMMA EndRunEffect ==
    ASSUME IInv, Kinds, Starts, EndRun
    PROVE  /\ mem.pc = "files" /\ side' = side /\ evid' = evid
           /\ \E l \in LogNow :
                /\ SeenAs(l) /\ l.late = log.late
                /\ Outcome(mem.tasks, l, "archive", {}, "archive", {})
<1> DEFINE m(status) == EndsAs(status)
           ended(status) == [m(status) EXCEPT !.err = FALSE]
           l == Seen(log, mem.active.id)
<1>1. mem.pc = "files" /\ mem.live = {} /\ side' = side /\ evid' = evid
  BY DEF EndRun
<1>2. PICK status \in {"stopped", IF mem.err THEN "failed" ELSE "completed"} :
        Persist(mem.tasks, Seen(log, mem.active.id), ended(status),
                ended(IF status = "completed" THEN "failed" ELSE status))
  BY DEF EndRun
<1>3. PICK other \in Final :
        Persist(mem.tasks, l, ended(status), ended(other))
  BY <1>2 DEF Final
<1>4. status \in Final
  BY <1>2 DEF Final
<1>5. ASSUME NEW x \in Final PROVE Stands(ended(x), mem.tasks, "archive", {})
  <2>1. m(x) \in Process /\ Stands(m(x), mem.tasks, "archive", {})
    BY <1>1, EndsAsStands
  <2> HIDE DEF m
  <2> QED
    BY <2>1 DEF Stands, Process
<1> HIDE DEF ended
<1>6. l \in LogNow /\ SeenAs(l) /\ l.late = log.late
  BY <1>1, SeenIs, Parts
<1> HIDE DEF l
<1>7. Stands(ended(status), mem.tasks, "archive", {})
      /\ Stands(ended(other), mem.tasks, "archive", {})
  BY <1>4, <1>5
<1>8. Outcome(mem.tasks, l, "archive", {}, "archive", {})
  BY <1>1, <1>3, <1>6, <1>7, SaveOutcome, Parts, RunFacts
<1> QED
  BY <1>1, <1>6, <1>8

LEMMA RetryEffect ==
    ASSUME IInv, Kinds, Starts, Retry
    PROVE  /\ mem.pc = "idle" /\ mem.active.id = NoRun /\ side' = side /\ evid' = evid
           /\ \E t \in Queue :
                /\ Running(t) = {} /\ \A f \in Files : Mended(f, mem.tasks, t[f])
                /\ Outcome(t, log, "retry", {}, "idle", {})
<1> DEFINE next(t) == [mem EXCEPT !.pc = "retry", !.tasks = t]
           failed(t) == [mem EXCEPT !.tasks = t]
<1>1. mem.pc = "idle" /\ mem.active.id = NoRun /\ side' = side /\ evid' = evid
  BY DEF Retry, Flushed
<1>2. PICK t \in Recoveries(mem.tasks) : Persist(t, log, next(t), failed(t))
  BY DEF Retry
<1>3. /\ t \in Queue /\ Running(t) = {} /\ \A f \in Files : Mended(f, mem.tasks, t[f])
      /\ mem.live = {}
  BY <1>1, RecoveryMends, Parts DEF IInv, Stages
<1>4. Stands(next(t), t, "retry", {}) /\ Stands(failed(t), t, "idle", {})
  BY <1>1, <1>3, Parts DEF Stands, Process
<1> HIDE DEF next, failed
<1>5. Outcome(t, log, "retry", {}, "idle", {})
  BY <1>1, <1>2, <1>3, <1>4, SaveOutcome, Parts
<1> QED
  BY <1>1, <1>3, <1>5

LEMMA RetriedEffect ==
    ASSUME IInv, Kinds, Starts, NEW f \in Files, Retried(f)
    PROVE  /\ mem.pc = "retry" /\ mem.active.id = NoRun /\ side' = side /\ evid' = evid
           /\ \E u \in Entry :
                /\ u.status # "running" /\ u.history = mem.tasks[f].history
                /\ With(f, u) \in Queue
                /\ Outcome(With(f, u), log, "idle", {}, "idle", {})
<1> DEFINE u == [mem.tasks[f] EXCEPT !.status = "pending", !.resume = TRUE]
           t == With(f, u)
           idle == [Idle EXCEPT !.tasks = t]
<1>1. /\ mem.pc = "retry" /\ side' = side /\ evid' = evid
      /\ Persist(t, log, idle, idle)
  BY DEF Retried
<1>2. mem.active.id = NoRun /\ mem.live = {} /\ mem.tasks[f] \in Entry
  BY <1>1, Parts DEF IInv, Stages, Queue
<1>3. /\ u \in Entry /\ u.status # "running" /\ u.history = mem.tasks[f].history
  BY <1>2, RequeuedType, EntryFields DEF Task
<1> HIDE DEF u
<1>4. t \in Queue
  BY <1>3, WithType, Parts
<1> HIDE DEF t
<1>5. Stands(idle, t, "idle", {})
  BY <1>2, IdleType DEF Stands, Process
<1> HIDE DEF idle
<1>6. Outcome(t, log, "idle", {}, "idle", {})
  BY <1>1, <1>2, <1>4, <1>5, SaveOutcome, Parts
<1> QED
  BY <1>1, <1>2, <1>3, <1>4, <1>6 DEF t

(* The process ends. *)
LEMMA LeaveEffect ==
    ASSUME IInv, Ends, Close \/ Crash
    PROVE  EndsSeen(log) /\ LogsAs(log) /\ UNCHANGED <<queue, side, rec, evid>>
<1>1. CASE Close
  <2>1. /\ mem.pc = "idle" /\ mem' = Closed /\ UNCHANGED <<queue, side, rec, evid, log>>
    BY <1>1 DEF Close
  <2>2. UnderWay = NoRun
    BY <2>1, UnderWayIs DEF Ends
  <2> QED
    BY <2>1, <2>2 DEF EndsSeen, LogsAs, NoRun, Runs
<1>2. CASE Crash
  <2>1. Die(log, UnderWay) /\ UNCHANGED <<queue, side, rec, evid>>
    BY <1>2 DEF Crash
  <2>2. /\ mem' = Closed /\ LogsAs(log)
        /\ \A k \in Runs : log'.shown[k] = IF k = UnderWay THEN side'.version
                                                  ELSE log.shown[k]
    BY <2>1, DieFields, UnderWayIs, Parts
  <2> QED
    BY <2>1, <2>2 DEF EndsSeen
<1> QED
  BY <1>1, <1>2

-----------------------------------------------------------------------------
(* The steps that complete records, begin runs or load them. *)

LEMMA LoadErrorFields ==
    ASSUME log \in LogNow, NEW records
    PROVE  LET l == WithLoadError(records)
           IN /\ l \in LogNow /\ l.spent = log.spent /\ l.late = log.late
              /\ l.shown = log.shown
              /\ l.mixed = log.mixed \cup UnsettledIn(records)
  BY LoadErrorType DEF WithLoadError, LogNow, Log

(* Every run that is not over is left to be settled late. *)
LoadErrorLogged ==
    /\ log'.spent = log.spent /\ log'.late = log.late /\ log'.shown = log.shown
    /\ log'.mixed = log.mixed \cup UnsettledIn(rec')

LEMMA LoadErrorSurvived ==
    ASSUME IInv, NEW next, Survive(next, WithLoadError(rec'))
    PROVE  mem' = next /\ LoadErrorLogged
<1> DEFINE l == WithLoadError(rec')
<1>1. /\ l \in LogNow /\ l.spent = log.spent /\ l.late = log.late
      /\ l.shown = log.shown /\ l.mixed = log.mixed \cup UnsettledIn(rec')
  BY LoadErrorFields, Parts
<1>2. Survive(next, l)
  OBVIOUS
<1> HIDE DEF l
<1>3. mem' = next /\ LogsAs(l) /\ log'.shown = l.shown
  BY <1>1, <1>2, SurviveFields
<1> QED
  BY <1>1, <1>3 DEF LoadErrorLogged, LogsAs

LEMMA LoadErrorCloses ==
    ASSUME Kinds', LoadErrorLogged \/ (log'.mixed = log.mixed /\ UnsettledIn(rec') = {})
    PROVE  OpenRuns' = {}
<1>1. ASSUME NEW r \in Runs, rec'[r].status = "running" PROVE r \in UnsettledIn(rec')
  <2>1. rec'[r].summary \in {"none", "running"}
    BY <1>1 DEF Kinds, Final
  <2> QED
    BY <1>1, <2>1 DEF UnsettledIn, Unsettled, Listed
<1> QED
  BY <1>1 DEF OpenRuns, LoadErrorLogged

LEMMA OpenEffect ==
    ASSUME IInv, Open
    PROVE  /\ mem.pc \in {"closed", "idle"} /\ mem.active.id = NoRun
           /\ mem'.pc = "load" /\ mem'.tasks = queue /\ mem'.live = {}
           /\ mem'.active.id = NoRun
           /\ UNCHANGED <<queue, side, rec, evid, log>>
<1>1. mem' = [Closed EXCEPT !.pc = "load", !.tasks = queue]
  BY DEF Open
<1>2. /\ mem'.tasks = queue /\ mem'.pc = "load"
      /\ mem'.live = {} /\ mem'.active.id = NoRun
  BY <1>1, ClosedType, Parts, QueueType DEF Process
<1> QED
  BY <1>2 DEF Open, Flushed

LEMMA LoadEffect ==
    ASSUME IInv, Kinds, LoadDone \/ LoadFails
    PROVE  /\ mem.pc = "load" /\ mem'.pc = "idle" /\ mem'.tasks = mem.tasks
           /\ mem'.live = {} /\ mem'.active.id = NoRun
           /\ UNCHANGED <<queue, side, rec, evid>> /\ OpenRuns' = {}
           /\ log'.spent = log.spent /\ log'.late = log.late
           /\ log'.shown = log.shown /\ log.mixed \subseteq log'.mixed
<1>1. /\ mem.pc = "load" /\ mem' = Idle /\ UNCHANGED <<queue, side, rec, evid>>
      /\ \/ log' = WithLoadError(rec)
         \/ log' = log /\ UnsettledIn(rec) = {}
  BY DEF LoadDone, LoadFails
<1>2. mem.live = {} /\ mem.active.id = NoRun
  BY <1>1 DEF IInv, Stages
<1>3. Kinds'
  BY <1>1 DEF Kinds
<1>4. CASE log' = WithLoadError(rec)
  <2>1. LoadErrorLogged
    BY <1>1, <1>4, LoadErrorFields, Parts DEF LoadErrorLogged
  <2>2. OpenRuns' = {}
    BY <1>3, <2>1, LoadErrorCloses
  <2> QED
    BY <1>1, <1>2, <2>1, <2>2, IdleType DEF LoadErrorLogged
<1>5. CASE log' = log /\ UnsettledIn(rec) = {}
  <2>1. OpenRuns' = {}
    BY <1>1, <1>3, <1>5, LoadErrorCloses
  <2> QED
    BY <1>1, <1>2, <1>5, <2>1, IdleType
<1> QED
  BY <1>1, <1>4, <1>5

(* A record is completed, or some part of that is done. *)
Becomes(r, x, status, start, tasks) ==
    /\ x.status = status /\ x.ready /\ x.start = start
    /\ x.usage = Since(Total(tasks), start)
    /\ \A i \in Ids : x.owner[i] = IF i \in IdsIn(tasks) THEN Owner(r, tasks, i)
                                                         ELSE NoRun
Completes(r, status, start, tasks) ==
    /\ \A e \in Runs \ {r} : rec'[e] = rec[e] /\ evid'[e] = evid[e]
    /\ \E part \in SUBSET Owned(r, tasks) :
         /\ \A i \in Ids : evid'[r][i] = IF i \in part THEN side.version[i] + 1
                                                       ELSE evid[r][i]
         /\ \/ rec'[r] = rec[r]
            \/ /\ part = Owned(r, tasks)
               /\ Becomes(r, rec'[r], status, start, tasks)

LEMMA FrozenBecomes ==
    ASSUME NEW r \in Runs, NEW status \in Final, NEW start \in Nat, NEW tasks \in Queue
    PROVE  LET s == Frozen(r, status, start, tasks)
           IN s \in Record /\ s.ready /\ s.status = status
              /\ Becomes(r, s, status, start, tasks)
<1> DEFINE owner == [i \in Ids |-> IF i \in IdsIn(tasks)
                                   THEN Owner(r, tasks, i) ELSE NoRun]
           n == Since(Total(tasks), start)
           s == Frozen(r, status, start, tasks)
<1>1. s = [NoRecord EXCEPT !.status = status, !.start = start, !.ready = TRUE,
                           !.usage = n, !.owner = owner]
  BY DEF Frozen
<1>2. \A i \in Ids : owner[i] = IF i \in IdsIn(tasks) THEN Owner(r, tasks, i)
                                                      ELSE NoRun
  OBVIOUS
<1>3. s \in Record /\ s.ready /\ s.status = status
  BY FrozenType, ZenonT(60)
<1> HIDE DEF owner, s
<1>4. n = Since(Total(tasks), start)
  OBVIOUS
<1> HIDE DEF n
<1>5. s.start = start /\ s.usage = n /\ s.owner = owner
  BY <1>1 DEF NoRecord
<1> HIDE <1>1
<1> QED
  BY <1>2, <1>3, <1>4, <1>5 DEF Becomes, s

LEMMA BecomesSame ==
    ASSUME NEW r, NEW x, NEW y, NEW status, NEW start, NEW tasks,
           Becomes(r, x, status, start, tasks), y.status = status, y.ready,
           y.start = x.start, y.usage = x.usage, y.owner = x.owner
    PROVE  Becomes(r, y, status, start, tasks)
  BY DEF Becomes

LEMMA CompletesAs ==
    ASSUME IInv, NEW r \in Runs, NEW status \in Final, NEW start \in Nat,
           NEW tasks \in Queue, NEW x, x = Frozen(r, status, start, tasks),
           NEW ids, ids = Owned(r, tasks)
    PROVE  /\ Complete(r, x, ids) => /\ Completes(r, status, start, tasks)
                                     /\ rec'[r].status = status
           /\ Partly(r, x, ids) => Completes(r, status, start, tasks)
<1>1. /\ x \in Record /\ x.ready /\ x.status = status
      /\ Becomes(r, x, status, start, tasks)
  BY FrozenBecomes
<1>3. /\ Becomes(r, Summarised(x), status, start, tasks)
      /\ Summarised(x).status = status
  <2>1. Summarised(x) \in Record /\ Summarised(x).status = x.status
    BY <1>1, SummarisedType
  <2>2. Summarised(x).ready
    <3>1. Summarised(x).ready = x.ready
      BY <1>1, SummarisedType
    <3> QED
      BY <1>1, <3>1
  <2>3. /\ Summarised(x).start = x.start /\ Summarised(x).usage = x.usage
        /\ Summarised(x).owner = x.owner
    BY <1>1, RecordAs, NoRecordType
  <2>4. Summarised(x).status = status
    BY <1>1, <2>1
  <2>5. Becomes(r, Summarised(x), status, start, tasks)
    BY <1>1, <2>2, <2>3, <2>4, BecomesSame
  <2> QED
    BY <2>4, <2>5
<1>4. Becomes(r, Written(x, rec[r]), status, start, tasks)
  <2>0. rec[r] \in Record
    BY Parts
  <2>1. Written(x, rec[r]) \in Record /\ Written(x, rec[r]).status = x.status
    BY <1>1, <2>0, WrittenType
  <2>2. Written(x, rec[r]).ready
    <3>1. Written(x, rec[r]).ready = x.ready
      BY <1>1, <2>0, WrittenType
    <3> QED
      BY <1>1, <3>1
  <2>3. /\ Written(x, rec[r]).start = x.start /\ Written(x, rec[r]).usage = x.usage
        /\ Written(x, rec[r]).owner = x.owner
    BY <1>1, <2>0, RecordAs
  <2>4. Written(x, rec[r]).status = status
    BY <1>1, <2>1
  <2> QED
    BY <1>1, <2>2, <2>3, <2>4, BecomesSame
<1>5. ASSUME NEW part \in SUBSET ids, evid' = Copied(r, part)
      PROVE  /\ \A e \in Runs \ {r} : evid'[e] = evid[e]
             /\ \A i \in Ids : evid'[r][i] = IF i \in part THEN side.version[i] + 1
                                                           ELSE evid[r][i]
  BY <1>5, CopiedType, Parts
<1>6. ASSUME NEW y, rec' = [rec EXCEPT ![r] = y], evid' = Copied(r, ids),
             Becomes(r, y, status, start, tasks)
      PROVE  Completes(r, status, start, tasks) /\ rec'[r] = y
  BY <1>5, <1>6, Parts DEF Completes
<1>7. ASSUME NEW part \in SUBSET ids, evid' = Copied(r, part), rec' = rec
      PROVE  Completes(r, status, start, tasks)
  BY <1>5, <1>7 DEF Completes
<1>8. ASSUME Complete(r, x, ids)
      PROVE  Completes(r, status, start, tasks) /\ rec'[r].status = status
  BY <1>3, <1>6, <1>8 DEF Complete
<1>9. ASSUME Partly(r, x, ids) PROVE Completes(r, status, start, tasks)
  BY <1>4, <1>6, <1>7, <1>9 DEF Partly
<1> QED
  BY <1>8, <1>9

LEMMA SettleEffect ==
    ASSUME IInv, NEW r \in Runs, Settle(r)
    PROVE  /\ mem.pc = "load" /\ mem.active.id = NoRun /\ mem.live = {}
           /\ queue' = queue /\ side' = side
           /\ rec[r].status = "running" /\ Accounted(r, mem.tasks) \in Queue
           /\ rec[r].start \in Nat
           /\ Completes(r, "stopped", rec[r].start, Accounted(r, mem.tasks))
           /\ \/ mem' = mem /\ log' = log
              \/ mem' = Idle /\ LoadErrorLogged
              \/ EndsSeen(log) /\ LogsAs(log)
<1> DEFINE tasks == Accounted(r, mem.tasks)
           record == Frozen(r, "stopped", rec[r].start, tasks)
           ids == Owned(r, tasks)
<1>1. /\ mem.pc = "load" /\ rec[r].status = "running" /\ queue' = queue /\ side' = side
      /\ Complete(r, record, ids) \/ Partly(r, record, ids)
      /\ \/ mem' = mem /\ log' = log
         \/ Survive(Idle, WithLoadError(rec')) \/ Die(log, NoRun)
  BY DEF Settle, Unsettled
<1>2. tasks \in Queue /\ rec[r].start \in Nat
  BY AccountedType, Parts DEF Record
<1>3. Completes(r, "stopped", rec[r].start, tasks)
  <2>1. Complete(r, record, ids) => Completes(r, "stopped", rec[r].start, tasks)
    BY <1>2, CompletesAs DEF Final
  <2>2. Partly(r, record, ids) => Completes(r, "stopped", rec[r].start, tasks)
    BY <1>2, CompletesAs DEF Final
  <2> QED
    BY <1>1, <2>1, <2>2
<1>4. mem.active.id = NoRun /\ mem.live = {} /\ UnderWay = NoRun
  BY <1>1, UnderWayIs DEF IInv, Stages
<1> HIDE DEF tasks, record, ids
<1>5. \/ mem' = mem /\ log' = log
      \/ mem' = Idle /\ LoadErrorLogged
      \/ EndsSeen(log) /\ LogsAs(log)
  <2>1. CASE mem' = mem /\ log' = log
    BY <2>1
  <2>2. CASE Survive(Idle, WithLoadError(rec'))
    BY <2>2, LoadErrorSurvived
  <2>3. CASE Die(log, NoRun)
    <3>1. /\ mem' = Closed /\ LogsAs(log)
          /\ \A k \in Runs : log'.shown[k] = IF k = NoRun THEN side'.version
                                                          ELSE log.shown[k]
      BY <1>1, <2>3, DieFields, Parts
    <3> QED
      BY <1>4, <3>1 DEF EndsSeen
  <2> QED
    BY <1>1, <2>1, <2>2, <2>3
<1> QED
  BY <1>1, <1>2, <1>3, <1>4, <1>5 DEF tasks

LEMMA ArchiveEffect ==
    ASSUME IInv, Starts, Ends, Archive
    PROVE  /\ mem.pc \in {"idle", "archive"} /\ mem.active.id \in Runs
           /\ mem.live = {} /\ queue' = queue /\ side' = side
           /\ mem.active.status \in Final
           /\ Completes(mem.active.id, mem.active.status, mem.active.start, mem.tasks)
           /\ \/ /\ mem'.pc = "idle" /\ mem'.tasks = mem.tasks /\ mem'.live = {}
                 /\ mem'.active.id = NoRun
                 /\ rec'[mem.active.id].status \in Final /\ log' = log
              \/ /\ Stands(mem', mem.tasks, "idle", {})
                 /\ LogsAs(log) /\ log'.shown = log.shown
              \/ EndsSeen(log) /\ LogsAs(log)
<1> DEFINE r == mem.active.id
           record == Frozen(r, mem.active.status, mem.active.start, mem.tasks)
           ids == Owned(r, mem.tasks)
           idle == [mem EXCEPT !.pc = "idle"]
           over == [idle EXCEPT !.active = NoActive]
<1>1. /\ mem.pc = "archive" \/ (mem.pc = "idle" /\ r # NoRun)
      /\ \/ Complete(r, record, ids) /\ mem' = over /\ log' = log
         \/ Partly(r, record, ids) /\ (Survive(idle, log) \/ Die(log, NoRun))
      /\ queue' = queue /\ side' = side
  BY DEF Archive
<1>2. r \in Runs /\ mem.live = {} /\ r # NoRun
  BY <1>1, Parts DEF IInv, Stages, NoRun, Runs
<1>3. /\ mem.active.status \in Final /\ mem.active.start \in Nat /\ mem.tasks \in Queue
  BY <1>1, <1>2, Parts DEF Ends
<1>4. /\ Complete(r, record, ids) =>
           Completes(r, mem.active.status, mem.active.start, mem.tasks)
      /\ Complete(r, record, ids) => rec'[r].status = mem.active.status
      /\ Partly(r, record, ids) =>
           Completes(r, mem.active.status, mem.active.start, mem.tasks)
  BY <1>2, <1>3, CompletesAs
<1>5. /\ idle \in Process /\ idle.tasks = mem.tasks /\ idle.pc = "idle"
      /\ idle.live = {} /\ idle.active = mem.active
  BY <1>2, Parts DEF Process
<1>6. /\ over.tasks = mem.tasks /\ over.pc = "idle"
      /\ over.live = {} /\ over.active.id = NoRun
  <2>1. NoActive.id = NoRun
    BY DEF NoActive
  <2> HIDE DEF idle
  <2> QED
    BY <1>5, <2>1 DEF Process
<1> HIDE DEF record, ids, idle, over
<1>7. Completes(r, mem.active.status, mem.active.start, mem.tasks)
  BY <1>1, <1>4
<1>8. CASE Complete(r, record, ids) /\ mem' = over /\ log' = log
  BY <1>1, <1>2, <1>3, <1>4, <1>6, <1>7, <1>8
<1>9. CASE Survive(idle, log)
  <2>1. mem' = idle /\ LogsAs(log) /\ log'.shown = log.shown
    BY <1>9, SurviveFields, Parts
  <2>2. Stands(mem', mem.tasks, "idle", {})
    BY <1>3, <1>5, <2>1 DEF Stands
  <2> QED
    BY <1>1, <1>2, <1>3, <1>7, <2>1, <2>2
<1>10. CASE Die(log, NoRun)
  <2>1. /\ mem' = Closed /\ LogsAs(log)
        /\ \A k \in Runs : log'.shown[k] = IF k = NoRun THEN side'.version
                                                        ELSE log.shown[k]
    BY <1>1, <1>10, DieFields, Parts
  <2>2. UnderWay = NoRun
    BY <1>3, UnderWayIs
  <2>3. EndsSeen(log)
    BY <2>1, <2>2 DEF EndsSeen
  <2> QED
    BY <1>1, <1>2, <1>3, <1>7, <2>1, <2>3
<1> QED
  BY <1>1, <1>8, <1>9, <1>10

(* The record of a new run is made: all of it, or nothing, or only its
   directory or its snapshot, and then the run does not start. *)
BeginsRun(r) ==
    /\ rec'[r].status = "running" /\ rec'[r].start = Total(mem.tasks)
    /\ mem'.pc = "begun" /\ mem'.tasks = mem.tasks /\ mem'.live = {}
    /\ mem'.active.id = r /\ mem'.active.start = Total(mem.tasks)
    /\ log' = log
BeginBreaks(r) ==
    /\ \/ rec'[r].status \in {"none", "empty"}
       \/ rec'[r].status = "running" /\ rec'[r].start = Total(mem.tasks)
    /\ \/ mem' = mem /\ LoadErrorLogged
       \/ /\ mem' = Closed /\ LogsAs(log)
          /\ \A k \in Runs : log'.shown[k] = IF k = r THEN side.version
                                                      ELSE log.shown[k]

LEMMA BeginEffect ==
    ASSUME IInv, Begin
    PROVE  /\ mem.pc = "idle" /\ mem.active.id = NoRun /\ mem.live = {}
           /\ UNCHANGED <<queue, side, evid>>
           /\ \E r \in Runs :
                /\ rec[r].status = "none"
                /\ \A e \in Runs \ {r} : rec'[e] = rec[e]
                /\ rec'[r] = rec[r]
                   \/ (~ rec'[r].ready /\ rec'[r].summary \in {"none", "running"}
                         \cup {rec[r].summary})
                /\ BeginsRun(r) \/ BeginBreaks(r)
<1>1. PICK r \in Fresh :
        LET active == [id |-> r, status |-> "running", start |-> Total(mem.tasks)]
            s == Snapshot(active, mem.tasks)
            Made(record) == rec' = [rec EXCEPT ![r] = record]
        IN /\ UNCHANGED <<queue, side, evid>>
           /\ mem.pc = "idle" /\ Flushed
           /\ \/ /\ Made(Summarised(s))
                 /\ mem' = [mem EXCEPT !.pc = "begun", !.active = active]
                 /\ UNCHANGED log
              \/ /\ \/ UNCHANGED rec
                    \/ Made([NoRecord EXCEPT !.status = "empty"])
                    \/ Made(Written(s, rec[r]))
                 /\ \/ Survive(mem, WithLoadError(rec'))
                    \/ Die(log, r)
  BY DEF Begin
<1> DEFINE n == Total(mem.tasks)
           active == [id |-> r, status |-> "running", start |-> n]
           s == Snapshot(active, mem.tasks)
           empty == [NoRecord EXCEPT !.status = "empty"]
           begun == [mem EXCEPT !.pc = "begun", !.active = active]
           w == Written(s, rec[r])
           z == Summarised(s)
<1>2. r \in Runs /\ rec[r].status = "none" /\ rec[r] \in Record
  <2>1. r \in Runs
    BY DEF Fresh
  <2>2. rec[r].status = "none"
    BY <2>1 DEF Fresh, Runs
  <2> QED
    BY <2>1, <2>2, Parts
<1>0. n \in Nat
  BY TotalType, Parts
<1>3. active \in ActiveRun /\ active.id = r /\ active.status = "running" /\ active.start = n
  BY <1>0, <1>2 DEF ActiveRun
<1>7. /\ UNCHANGED <<queue, side, evid>> /\ mem.pc = "idle" /\ mem.active.id = NoRun
      /\ \/ /\ rec' = [rec EXCEPT ![r] = z] /\ mem' = begun /\ log' = log
         \/ /\ rec' \in {rec, [rec EXCEPT ![r] = empty], [rec EXCEPT ![r] = w]}
            /\ Survive(mem, WithLoadError(rec')) \/ Die(log, r)
  BY <1>1 DEF Flushed
<1> HIDE DEF n, active
<1>4. s \in Record /\ ~ s.ready /\ s.status = "running" /\ s.start = n
  BY <1>3, SnapshotFields, Parts
<1>6. /\ begun.tasks = mem.tasks /\ begun.pc = "begun"
      /\ begun.live = mem.live /\ begun.active = active
  BY <1>3, Parts DEF Process
<1>8. empty.status = "empty" /\ ~ empty.ready /\ empty.summary = "none"
  BY DEF NoRecord
<1> HIDE DEF s, empty, begun
<1>9. /\ w.status = "running" /\ ~ w.ready /\ w.start = n /\ w.summary = rec[r].summary
  <2>1. w.status = s.status
    BY <1>2, <1>4, WrittenType
  <2>2. w.ready = s.ready
    BY <1>2, <1>4, WrittenType
  <2>3. w.start = s.start /\ w.summary = rec[r].summary
    BY <1>2, <1>4, RecordAs
  <2> QED
    BY <1>4, <2>1, <2>2, <2>3
<1>10. /\ z.status = "running" /\ ~ z.ready /\ z.start = n /\ z.summary = "running"
  <2>1. z.status = s.status
    BY <1>4, SummarisedType
  <2>2. z.ready = s.ready
    BY <1>4, SummarisedType
  <2>3. z.start = s.start /\ z.summary = s.status
    BY <1>2, <1>4, RecordAs
  <2> QED
    BY <1>4, <2>1, <2>2, <2>3
<1> HIDE DEF w, z
<1>11. mem.live = {}
  BY <1>7 DEF IInv, Stages
<1>12. \A e \in Runs \ {r} : rec'[e] = rec[e]
  BY <1>2, <1>7, Parts
<1>13. rec'[r] \in {rec[r], empty, w, z}
  BY <1>2, <1>7, Parts
<1>14. rec'[r] = rec[r]
       \/ (~ rec'[r].ready /\ rec'[r].summary \in {"none", "running"}
              \cup {rec[r].summary})
  BY <1>8, <1>9, <1>10, <1>13
<1>15. BeginsRun(r) \/ BeginBreaks(r)
  <2>1. CASE rec' = [rec EXCEPT ![r] = z] /\ mem' = begun /\ log' = log
    <3>1. rec'[r] = z
      BY <1>2, <2>1, Parts
    <3> QED
      BY <1>3, <1>6, <1>10, <1>11, <2>1, <3>1 DEF BeginsRun, n
  <2>2. CASE /\ rec' \in {rec, [rec EXCEPT ![r] = empty], [rec EXCEPT ![r] = w]}
             /\ Survive(mem, WithLoadError(rec')) \/ Die(log, r)
    <3>1. rec'[r] \in {rec[r], empty, w}
      BY <1>2, <2>2, Parts
    <3>2. CASE Survive(mem, WithLoadError(rec'))
      <4>1. mem' = mem /\ LoadErrorLogged
        BY <3>2, LoadErrorSurvived
      <4> QED
        BY <1>2, <1>8, <1>9, <3>1, <4>1 DEF BeginBreaks, n
    <3>3. CASE Die(log, r)
      <4>1. /\ mem' = Closed /\ LogsAs(log)
            /\ \A k \in Runs : log'.shown[k] = IF k = r THEN side'.version
                                                        ELSE log.shown[k]
        BY <1>2, <1>7, <3>3, DieFields, Parts
      <4> QED
        BY <1>2, <1>7, <1>8, <1>9, <3>1, <4>1 DEF BeginBreaks, n
    <3> QED
      BY <2>2, <3>2, <3>3
  <2> QED
    BY <1>7, <2>1, <2>2
<1> QED
  BY <1>2, <1>7, <1>11, <1>12, <1>14, <1>15

LEMMA SpendEffect ==
    ASSUME IInv, NEW f \in Files, Spend(f)
    PROVE  LET i == LastId(f, mem.tasks)
               r == mem.active.id
           IN /\ mem.pc = "files" /\ f \in mem.live /\ i \in Ids /\ r \in Runs
              /\ Last(mem.tasks[f]).path
              /\ UNCHANGED <<queue, rec, evid>> /\ side'.version = side.version
              /\ side'.point[i].prior = side.point[i].prior
              /\ side'.point[i].total = side.point[i].total + 1
              /\ \A j \in Ids \ {i} : side'.point[j] = side.point[j]
              /\ \E u \in Entry : \E a \in Attempt :
                   /\ LastAs(mem.tasks[f], u, a) /\ u.status = "running"
                   /\ a.exec = Last(mem.tasks[f]).exec /\ a.path
                   /\ a.usage = Since(side.point[i].total + 1, side.point[i].prior)
                   /\ With(f, u) \in Queue
                   /\ Stands(mem', With(f, u), "files", mem.live)
              /\ log'.spent[r] = log.spent[r] + 1
              /\ \A k \in Runs \ {r} : log'.spent[k] = log.spent[k]
              /\ log'.late = log.late /\ log'.mixed = log.mixed
              /\ log'.shown = log.shown
<1> DEFINE i == LastId(f, mem.tasks)
           t == mem.tasks[f]
           r == mem.active.id
           n == Since(side.point[i].total + 1, side.point[i].prior)
           a == [Last(t) EXCEPT !.usage = n]
           h == [t.history EXCEPT ![Len(t.history)] = a]
           u == [t EXCEPT !.history = h]
<1>1. /\ f \in mem.live /\ UNCHANGED <<queue, rec, evid>> /\ Last(t).path
      /\ side' = [side EXCEPT !.point[i].total = side.point[i].total + 1]
      /\ mem' = [mem EXCEPT !.tasks[f].history[i[2]].usage = n]
      /\ log' = [log EXCEPT !.spent[r] = log.spent[r] + 1]
  BY DEF Spend
<1>2. /\ mem.pc = "files" /\ t \in Entry /\ t.status = "running" /\ t.history # <<>>
      /\ i \in Ids /\ i[2] = Len(t.history)
  BY <1>1, LiveTask DEF LastId
<1>3. /\ side.point[i] \in Point
      /\ side.point[i].total + 1 \in Nat /\ side.point[i].prior \in Nat
  BY <1>2, Parts DEF Side, Point
<1>4. /\ side'.version = side.version
      /\ side'.point[i].prior = side.point[i].prior
      /\ side'.point[i].total = side.point[i].total + 1
      /\ \A j \in Ids \ {i} : side'.point[j] = side.point[j]
  <2> DEFINE m == side.point[i].total + 1
             q == [side.point[i] EXCEPT !.total = m]
             p == [side.point EXCEPT ![i] = q]
  <2>1. side' = [side EXCEPT !.point = p]
    BY <1>1, <1>2, Parts DEF Side
  <2>2. q.prior = side.point[i].prior /\ q.total = m
    <3> HIDE DEF m
    <3> QED
      BY <1>3 DEF Point
  <2> HIDE DEF q
  <2>3. p[i] = q /\ \A j \in Ids \ {i} : p[j] = side.point[j]
    <3> HIDE DEF i
    <3> QED
      BY <1>2, Parts DEF Side
  <2> HIDE DEF p
  <2>4. side'.version = side.version /\ side'.point = p
    BY <2>1, Parts DEF Side
  <2> QED
    BY <2>2, <2>3, <2>4
<1>5. n \in Nat
  BY <1>3, SinceType
<1>6. mem' = [mem EXCEPT !.tasks = With(f, u)]
  BY <1>1, <1>2, Parts DEF With, Last, Process, Task
<1>14. Last(t) \in Attempt
  BY <1>2, LastAttempt
<1> HIDE DEF n
<1>7. a \in Attempt /\ a.usage = n /\ a.exec = Last(t).exec
  BY <1>5, <1>14 DEF Attempt
<1>15. a.path
  <2>1. a.path = Last(t).path
    BY <1>14 DEF Attempt
  <2> QED
    BY <1>1, <2>1
<1> HIDE DEF a
<1>8. u \in Entry /\ u.status = "running"
  BY <1>2, <1>7, ChangedLast
<1>16. LastAs(t, u, a)
  <2>1. u.history = h
    <3> HIDE DEF h
    <3> QED
      BY <1>2, EntryFields DEF Task
  <2> HIDE DEF u
  <2> QED
    BY <1>2, <2>1, LastReplaced
<1> HIDE DEF u
<1>9. With(f, u) \in Queue
  BY <1>8, WithType, Parts
<1>10. Stands(mem', With(f, u), "files", mem.live)
  BY <1>2, <1>6, <1>9, QueueType, Parts DEF Process, Stands
<1>11. r \in Runs
  BY <1>2, RunFacts
<1>12. /\ log'.spent[r] = log.spent[r] + 1
       /\ \A k \in Runs \ {r} : log'.spent[k] = log.spent[k]
       /\ log'.late = log.late /\ log'.mixed = log.mixed /\ log'.shown = log.shown
  <2> DEFINE m == log.spent[r] + 1
             k == [log.spent EXCEPT ![r] = m]
  <2>1. log' = [log EXCEPT !.spent = k]
    BY <1>1, Parts DEF Log
  <2>2. log.spent \in [Runs -> Nat]
    BY Parts DEF Log
  <2>3. k[r] = m /\ \A x \in Runs \ {r} : k[x] = log.spent[x]
    <3> HIDE DEF m, r
    <3> QED
      BY <1>11, <2>2
  <2> HIDE DEF k
  <2>4. /\ log'.spent = k /\ log'.late = log.late /\ log'.mixed = log.mixed
        /\ log'.shown = log.shown
    BY <2>1, Parts DEF Log
  <2> QED
    BY <2>3, <2>4
<1>13. \E v \in Entry : \E b \in Attempt :
         /\ LastAs(t, v, b) /\ v.status = "running"
         /\ b.exec = Last(t).exec /\ b.path /\ b.usage = n
         /\ With(f, v) \in Queue
         /\ Stands(mem', With(f, v), "files", mem.live)
  BY <1>7, <1>8, <1>9, <1>10, <1>15, <1>16
<1> QED
  BY <1>1, <1>2, <1>4, <1>11, <1>12, <1>13 DEF n

-----------------------------------------------------------------------------
(* Where the runs stand, step by step. *)

LEMMA CourseParts ==
    ASSUME Course
    PROVE  /\ Kinds /\ Alone /\ Starts /\ Ends /\ Loaded
           /\ NamedIn(queue) /\ NamedIn(mem.tasks) /\ Levels
  BY DEF Course

(* The files of the other workers. *)
LEMMA OthersLevel ==
    ASSUME IInv, Levels, NEW f \in Files, NEW u \in Entry
    PROVE  \A g \in mem.live \ {f} :
             /\ SameLast(With(f, u)[g], With(f, u)[g], mem.active.id)
             /\ SameLast(With(f, u)[g], queue[g], mem.active.id)
<1>1. ASSUME NEW g \in mem.live \ {f}
      PROVE  /\ SameLast(With(f, u)[g], With(f, u)[g], mem.active.id)
             /\ SameLast(With(f, u)[g], queue[g], mem.active.id)
  <2>1. /\ g \in Files /\ With(f, u)[g] = mem.tasks[g]
        /\ SameLast(mem.tasks[g], queue[g], mem.active.id)
        /\ mem.tasks[g].status = "running"
    BY Parts DEF With, Queue, Levels, IInv, Stages, Process
  <2> QED
    BY <2>1 DEF SameLast
<1> QED
  BY <1>1

LEMMA BeginAttemptCourse ==
    ASSUME IInv, Course, NEW f \in Files, BeginAttempt(f) PROVE Course'
<1>1. /\ mem.pc = "files" /\ f \notin mem.live
      /\ \E u \in Entry :
           /\ Restarted(mem.tasks[f], u, mem.active.id)
           /\ With(f, u) \in Queue
           /\ Outcome(With(f, u), log, "files", mem.live \cup {f},
                      "files", mem.live \ {f})
  BY CourseParts, BeginAttemptEffect
<1>2. PICK u \in Entry :
        /\ Restarted(mem.tasks[f], u, mem.active.id)
        /\ With(f, u) \in Queue
        /\ Outcome(With(f, u), log, "files", mem.live \cup {f},
                   "files", mem.live \ {f})
  BY <1>1
<1>3. Busy /\ ~ Down /\ mem.active.id \in Runs
  BY <1>1, RunFacts
<1>4. Grows(mem.tasks, With(f, u), mem.active.id)
  <2>1. mem.tasks[f] \in Entry
    BY Parts DEF Queue
  <2> QED
    BY <1>2, <2>1, RestartedGrows, WithGrows, Parts
<1>5. SameLast(With(f, u)[f], With(f, u)[f], mem.active.id)
  <2>1. With(f, u)[f] = u
    BY Parts DEF With, Queue
  <2>2. u.history[Len(u.history)].exec = mem.active.id /\ u.status = "running"
    BY <1>2 DEF Restarted, LastAs, OneMore
  <2> QED
    BY <2>1, <2>2 DEF SameLast
<1>6. \A g \in mem.live \ {f} :
        /\ SameLast(With(f, u)[g], With(f, u)[g], mem.active.id)
        /\ SameLast(With(f, u)[g], queue[g], mem.active.id)
  BY CourseParts, OthersLevel
<1> DEFINE t == With(f, u)
           live == mem.live \cup {f}
           live2 == mem.live \ {f}
<1>7. /\ t \in Queue /\ Outcome(t, log, "files", live, "files", live2)
      /\ Grows(mem.tasks, t, mem.active.id)
      /\ \A g \in live : SameLast(t[g], t[g], mem.active.id)
      /\ \A g \in live2 : /\ SameLast(t[g], t[g], mem.active.id)
                          /\ SameLast(t[g], queue[g], mem.active.id)
  BY <1>2, <1>4, <1>5, <1>6
<1> HIDE DEF t, live, live2
<1> QED
  BY <1>3, <1>7, SaveCourse, Parts

(* A worker's file with the last attempt changed. *)
LEMMA WorkerCourse ==
    ASSUME IInv, Course, NEW f \in Files, NEW u \in Entry, NEW a \in Attempt,
           f \in mem.live, mem.pc = "files",
           LastAs(mem.tasks[f], u, a), a.exec = Last(mem.tasks[f]).exec,
           NEW live, live \subseteq mem.live,
           f \in live => u.status = "running",
           With(f, u) \in Queue,
           Outcome(With(f, u), log, "files", live, "files", mem.live \ {f})
    PROVE  Course'
<1>1. Busy /\ ~ Down
  BY RunFacts
<1>2. mem.tasks[f] \in Entry
  BY Parts DEF Queue
<1>3. Grows(mem.tasks, With(f, u), mem.active.id)
  <2>1. GrowsTask(mem.tasks[f], u, mem.active.id)
    BY <1>2, LastGrows
  <2> QED
    BY <2>1, WithGrows, Parts
<1>4. f \in live => SameLast(With(f, u)[f], With(f, u)[f], mem.active.id)
  <2>1. With(f, u)[f] = u
    BY Parts DEF With, Queue
  <2>2. SameLast(mem.tasks[f], queue[f], mem.active.id)
    BY CourseParts DEF Levels
  <2>3. u.history[Len(u.history)].exec = mem.active.id
    BY <2>2 DEF LastAs, SameLast, Last
  <2> QED
    BY <2>1, <2>3 DEF SameLast
<1>5. \A g \in mem.live \ {f} :
        /\ SameLast(With(f, u)[g], With(f, u)[g], mem.active.id)
        /\ SameLast(With(f, u)[g], queue[g], mem.active.id)
  BY CourseParts, OthersLevel
<1> DEFINE t == With(f, u)
           live2 == mem.live \ {f}
<1>6. /\ t \in Queue /\ Outcome(t, log, "files", live, "files", live2)
      /\ Grows(mem.tasks, t, mem.active.id)
      /\ \A g \in live : SameLast(t[g], t[g], mem.active.id)
      /\ \A g \in live2 : /\ SameLast(t[g], t[g], mem.active.id)
                          /\ SameLast(t[g], queue[g], mem.active.id)
  BY <1>3, <1>4, <1>5
<1> HIDE DEF t, live2
<1> QED
  BY <1>1, <1>6, SaveCourse, Parts

(* The queue is saved as it is. *)
LEMMA SameCourse ==
    ASSUME IInv, Course, mem.pc \in {"begun", "files"},
           NEW l \in LogNow, l.mixed = log.mixed,
           NEW pc \in {"files", "archive"}, NEW pc2 \in {"files", "archive"},
           NEW live, live \subseteq mem.live, NEW live2, live2 \subseteq mem.live,
           Outcome(mem.tasks, l, pc, live, pc2, live2)
    PROVE  Course'
<1>1. Busy /\ ~ Down
  BY RunFacts
<1>2. Grows(mem.tasks, mem.tasks, mem.active.id)
  BY SameGrows, Parts
<1>3. \A g \in mem.live :
        /\ SameLast(mem.tasks[g], mem.tasks[g], mem.active.id)
        /\ SameLast(mem.tasks[g], queue[g], mem.active.id)
  BY CourseParts DEF Levels, SameLast, IInv, Stages
<1> DEFINE t == mem.tasks
<1>4. /\ t \in Queue /\ Outcome(t, l, pc, live, pc2, live2)
      /\ Grows(mem.tasks, t, mem.active.id)
      /\ \A g \in live : SameLast(t[g], t[g], mem.active.id)
      /\ \A g \in live2 : /\ SameLast(t[g], t[g], mem.active.id)
                          /\ SameLast(t[g], queue[g], mem.active.id)
  BY <1>2, <1>3, Parts
<1> HIDE DEF t
<1> QED
  BY <1>1, <1>4, SaveCourse

LEMMA StageCourse ==
    ASSUME IInv, Course, NEW f \in Files, Stage(f) PROVE Course'
<1>1. /\ mem.pc = "files"
      /\ Outcome(mem.tasks, log, "files", mem.live, "files", mem.live \ {f})
  BY CourseParts, StageEffect
<1> QED
  BY <1>1, SameCourse, Parts

LEMMA AttachCourse ==
    ASSUME IInv, Course, NEW f \in Files, Attach(f) PROVE Course'
<1>1. /\ mem.pc = "files" /\ f \in mem.live
      /\ \/ Attached(f)
         \/ Outcome(mem.tasks, log, "files", mem.live \ {f}, "files", mem.live \ {f})
  BY CourseParts, AttachEffect
<1>2. CASE Attached(f)
  <2>1. PICK u \in Entry, a \in Attempt :
          /\ LastAs(mem.tasks[f], u, a) /\ u.status = "running"
          /\ a.exec = Last(mem.tasks[f]).exec
          /\ With(f, u) \in Queue
          /\ Outcome(With(f, u), log, "files", mem.live, "files", mem.live \ {f})
    BY <1>2 DEF Attached
  <2> QED
    BY <1>1, <2>1, WorkerCourse
<1>3. CASE Outcome(mem.tasks, log, "files", mem.live \ {f}, "files", mem.live \ {f})
  BY <1>1, <1>3, SameCourse, Parts
<1> QED
  BY <1>1, <1>2, <1>3

LEMMA FinishAttemptCourse ==
    ASSUME IInv, Course, NEW f \in Files, FinishAttempt(f) PROVE Course'
<1>1. /\ mem.pc = "files" /\ f \in mem.live
      /\ \E u \in Entry :
           /\ With(f, u) \in Queue
           /\ \E a \in Attempt :
                /\ LastAs(mem.tasks[f], u, a)
                /\ a.exec = Last(mem.tasks[f]).exec
           /\ Outcome(With(f, u), log, "files", mem.live \ {f},
                      "files", mem.live \ {f})
  BY CourseParts, FinishAttemptEffect
<1>2. PICK u \in Entry :
        /\ With(f, u) \in Queue
        /\ \E a \in Attempt :
             /\ LastAs(mem.tasks[f], u, a)
             /\ a.exec = Last(mem.tasks[f]).exec
        /\ Outcome(With(f, u), log, "files", mem.live \ {f},
                   "files", mem.live \ {f})
  BY <1>1
<1>3. PICK a \in Attempt : /\ LastAs(mem.tasks[f], u, a)
                           /\ a.exec = Last(mem.tasks[f]).exec
  BY <1>2
<1> DEFINE live == mem.live \ {f}
<1>4. live \subseteq mem.live /\ f \notin live
      /\ Outcome(With(f, u), log, "files", live, "files", mem.live \ {f})
  BY <1>2
<1> HIDE DEF live
<1> QED
  BY <1>1, <1>2, <1>3, <1>4, WorkerCourse

LEMMA RecoverRunCourse ==
    ASSUME IInv, Course, RecoverRun PROVE Course'
<1>1. /\ mem.pc = "begun"
      /\ \E t \in Queue : \E l \in LogNow :
           /\ Running(t) = {} /\ \A f \in Files : Mended(f, mem.tasks, t[f])
           /\ SeenAs(l) /\ Outcome(t, l, "files", {}, "archive", {})
  BY CourseParts, RecoverRunEffect
<1>2. PICK t \in Queue, l \in LogNow :
        /\ Running(t) = {} /\ \A f \in Files : Mended(f, mem.tasks, t[f])
        /\ SeenAs(l) /\ Outcome(t, l, "files", {}, "archive", {})
  BY <1>1
<1>3. Grows(mem.tasks, t, mem.active.id)
  BY <1>2, MendedGrows, Parts
<1>4. Busy /\ ~ Down
  BY <1>1, RunFacts
<1>5. l.mixed = log.mixed
  BY <1>2 DEF SeenAs
<1> QED
  BY <1>2, <1>3, <1>4, <1>5, SaveCourse

LEMMA PrepareFailsCourse ==
    ASSUME IInv, Course, PrepareFails PROVE Course'
<1>1. /\ mem.pc = "begun"
      /\ \E l \in LogNow : SeenAs(l) /\ Outcome(mem.tasks, l, "archive", {}, "archive", {})
  BY CourseParts, PrepareFailsEffect
<1>2. PICK l \in LogNow :
        SeenAs(l) /\ Outcome(mem.tasks, l, "archive", {}, "archive", {})
  BY <1>1
<1>3. l.mixed = log.mixed
  BY <1>2 DEF SeenAs
<1> QED
  BY <1>1, <1>2, <1>3, SameCourse

LEMMA EndRunCourse ==
    ASSUME IInv, Course, EndRun PROVE Course'
<1>1. /\ mem.pc = "files"
      /\ \E l \in LogNow : SeenAs(l) /\ Outcome(mem.tasks, l, "archive", {}, "archive", {})
  BY CourseParts, EndRunEffect
<1>2. PICK l \in LogNow :
        SeenAs(l) /\ Outcome(mem.tasks, l, "archive", {}, "archive", {})
  BY <1>1
<1>3. l.mixed = log.mixed
  BY <1>2 DEF SeenAs
<1> QED
  BY <1>1, <1>2, <1>3, SameCourse

LEMMA RetryCourse ==
    ASSUME IInv, Course, Retry PROVE Course'
<1>1. /\ mem.pc = "idle" /\ mem.active.id = NoRun
      /\ \E t \in Queue :
           /\ Running(t) = {} /\ \A f \in Files : Mended(f, mem.tasks, t[f])
           /\ Outcome(t, log, "retry", {}, "idle", {})
  BY CourseParts, RetryEffect
<1>2. PICK t \in Queue :
        /\ Running(t) = {} /\ \A f \in Files : Mended(f, mem.tasks, t[f])
        /\ Outcome(t, log, "retry", {}, "idle", {})
  BY <1>1
<1>3. Grows(mem.tasks, t, mem.active.id) /\ ~ Down
  BY <1>1, <1>2, MendedGrows, Parts DEF Down
<1> QED
  BY <1>1, <1>2, <1>3, SaveCourse, Parts

LEMMA RequeuedGrows ==
    ASSUME IInv, NEW f \in Files, NEW u \in Entry, u.history = mem.tasks[f].history
    PROVE  Grows(mem.tasks, With(f, u), mem.active.id)
<1>1. mem.tasks[f] \in Entry /\ Len(mem.tasks[f].history) \in Nat
  BY FileFacts, Bounds, Parts
<1>2. GrowsTask(mem.tasks[f], u, mem.active.id)
  BY <1>1 DEF GrowsTask, Numbers
<1> QED
  BY <1>2, WithGrows, Parts

LEMMA RetriedCourse ==
    ASSUME IInv, Course, NEW f \in Files, Retried(f) PROVE Course'
<1>1. /\ mem.pc = "retry" /\ mem.active.id = NoRun
      /\ \E u \in Entry :
           /\ u.history = mem.tasks[f].history
           /\ With(f, u) \in Queue
           /\ Outcome(With(f, u), log, "idle", {}, "idle", {})
  BY CourseParts, RetriedEffect
<1>2. PICK u \in Entry :
        /\ u.history = mem.tasks[f].history
        /\ With(f, u) \in Queue
        /\ Outcome(With(f, u), log, "idle", {}, "idle", {})
  BY <1>1
<1>3. Grows(mem.tasks, With(f, u), mem.active.id)
  BY <1>2, RequeuedGrows
<1>4. ~ Down
  BY <1>1 DEF Down
<1> DEFINE t == With(f, u)
<1>5. /\ t \in Queue /\ Outcome(t, log, "idle", {}, "idle", {})
      /\ Grows(mem.tasks, t, mem.active.id)
  BY <1>2, <1>3
<1>6. mem.active.id = NoRun /\ log \in LogNow
  BY <1>1, Parts
<1> HIDE DEF t
<1> QED
  BY <1>4, <1>5, <1>6, SaveCourse

LEMMA LeaveCourse ==
    ASSUME IInv, Course, Close \/ Crash PROVE Course'
<1>1. EndsSeen(log) /\ LogsAs(log) /\ UNCHANGED <<queue, side, rec, evid>>
  BY CourseParts, LeaveEffect
<1>2. /\ mem' = Closed /\ Kinds' /\ NamedIn(queue)' /\ OpenRuns' = OpenRuns
  BY <1>1, CourseParts DEF EndsSeen, LogsAs, Kinds, NamedIn, Named, Numbers, OpenRuns
<1>3. \A r, s \in OpenRuns' : r = s
  BY <1>2, CourseParts DEF Alone
<1> QED
  BY <1>2, <1>3, ClosedCourse

(* Runs that have begun stay so, and their attempts with them. *)
LEMMA NamedStays ==
    ASSUME NEW q \in Queue, NamedIn(q),
           \A e \in Runs : rec[e].status # "none" => rec'[e].status # "none"
    PROVE  /\ NamedIn(q)'
           /\ \A f \in Files : \A n \in Numbers(q[f]) :
                rec'[q[f].history[n].exec].status # "none"
<1>1. ASSUME NEW f \in Files, NEW n \in Numbers(q[f])
      PROVE  rec'[q[f].history[n].exec].status # "none"
  <2>1. q[f].history[n].exec \in Runs
    BY FileFacts
  <2> QED
    BY <2>1 DEF NamedIn, Named
<1> QED
  BY <1>1 DEF NamedIn, Named, Numbers

LEMMA QueueNamedStays ==
    ASSUME IInv, Course,
           \A e \in Runs : rec[e].status # "none" => rec'[e].status # "none"
    PROVE  /\ queue' = queue => NamedIn(queue)'
           /\ mem'.tasks = mem.tasks => NamedIn(mem.tasks)'
           /\ mem'.tasks = queue => NamedIn(mem.tasks)'
<1>1. /\ \A f \in Files : \A n \in Numbers(queue[f]) :
           rec'[queue[f].history[n].exec].status # "none"
      /\ \A f \in Files : \A n \in Numbers(mem.tasks[f]) :
           rec'[mem.tasks[f].history[n].exec].status # "none"
  BY CourseParts, NamedStays, Parts
<1> QED
  BY <1>1 DEF NamedIn, Named, Numbers

(* A process that is up, without workers. *)
LEMMA IdleCourse ==
    ASSUME Kinds', NamedIn(queue)', NamedIn(mem.tasks)',
           mem'.pc \in {"idle", "begun"}, mem'.live = {},
           OpenRuns' \subseteq {mem'.active.id}, Starts', Ends'
    PROVE  Course'
BY DEF Course, Alone, Loaded, Levels

LEMMA OpenCourse == ASSUME IInv, Course, Open PROVE Course'
<1>1. /\ mem'.pc = "load" /\ mem'.tasks = queue /\ mem'.live = {}
      /\ mem'.active.id = NoRun
      /\ UNCHANGED <<queue, side, rec, evid, log>>
  BY OpenEffect
<1>2. Kinds' /\ OpenRuns' = OpenRuns
  BY <1>1, CourseParts DEF Kinds, OpenRuns
<1>3. NamedIn(queue)' /\ NamedIn(mem.tasks)'
  BY <1>1, QueueNamedStays
<1>4. Alone'
  BY <1>1, <1>2, CourseParts DEF Alone, Down
<1> QED
  BY <1>1, <1>2, <1>3, <1>4
  DEF Course, Starts, Ends, Loaded, Levels, NoRun, Runs

LEMMA LoadCourse == ASSUME IInv, Course, LoadDone \/ LoadFails PROVE Course'
<1>1. /\ mem'.pc = "idle" /\ mem'.tasks = mem.tasks
      /\ mem'.live = {} /\ mem'.active.id = NoRun
      /\ UNCHANGED <<queue, side, rec, evid>> /\ OpenRuns' = {}
  BY CourseParts, LoadEffect
<1>2. Kinds' /\ NamedIn(queue)' /\ NamedIn(mem.tasks)'
  BY <1>1, CourseParts, QueueNamedStays DEF Kinds
<1> QED
  BY <1>1, <1>2, IdleCourse DEF Starts, Ends, NoRun, Runs

LEMMA CompletesKinds ==
    ASSUME Kinds, NEW r \in Runs, NEW status \in Final, NEW start, NEW tasks,
           Completes(r, status, start, tasks), rec[r].status # "none",
           log.mixed \subseteq log'.mixed
    PROVE  /\ Kinds' /\ OpenRuns' \subseteq OpenRuns
           /\ \A e \in Runs : rec[e].status # "none" => rec'[e].status # "none"
           /\ rec'[r] = rec[r] \/ rec'[r].status = status
<1>1. /\ \A e \in Runs \ {r} : rec'[e] = rec[e]
      /\ rec'[r] = rec[r] \/ (rec'[r].status = status /\ rec'[r].ready)
  BY DEF Completes, Becomes
<1>2. Kinds'
  <2>1. ASSUME NEW e \in Runs
        PROVE  /\ rec'[e].ready <=> rec'[e].status \in Final
               /\ rec'[e].status \notin Final => rec'[e].summary \in {"none", "running"}
    BY <1>1 DEF Kinds
  <2> QED
    BY <2>1 DEF Kinds
<1>3. \A e \in Runs : rec'[e].status = "running" => rec[e].status = "running"
  BY <1>1 DEF Final
<1> QED
  BY <1>1, <1>2, <1>3 DEF OpenRuns, Final

LEMMA SettleCourse ==
    ASSUME IInv, Course, NEW r \in Runs, Settle(r) PROVE Course'
<1>1. /\ mem.pc = "load" /\ mem.active.id = NoRun /\ mem.live = {}
      /\ queue' = queue /\ rec[r].status = "running"
      /\ Completes(r, "stopped", rec[r].start, Accounted(r, mem.tasks))
      /\ \/ mem' = mem /\ log' = log
         \/ mem' = Idle /\ LoadErrorLogged
         \/ EndsSeen(log) /\ LogsAs(log)
  BY SettleEffect
<1>2. log.mixed \subseteq log'.mixed
  BY <1>1 DEF LoadErrorLogged, LogsAs
<1>3. /\ Kinds' /\ OpenRuns' \subseteq OpenRuns
      /\ \A e \in Runs : rec[e].status # "none" => rec'[e].status # "none"
  BY <1>1, <1>2, CourseParts, CompletesKinds DEF Final
<1>4. NamedIn(queue)'
  BY <1>1, <1>3, QueueNamedStays
<1>5. \A e, k \in OpenRuns' : e = k
  BY <1>3, CourseParts DEF Alone
<1>6. CASE mem' = mem /\ log' = log
  <2>1. NamedIn(mem.tasks)'
    BY <1>3, <1>6, QueueNamedStays
  <2>2. mem'.pc = "load" /\ mem'.tasks = queue'
    BY <1>1, <1>6, CourseParts DEF Loaded
  <2> QED
    BY <1>1, <1>3, <1>4, <1>5, <1>6, <2>1, <2>2
    DEF Course, Alone, Down, Starts, Ends, Loaded, Levels, NoRun, Runs
<1>7. CASE mem' = Idle /\ LoadErrorLogged
  <2>1. OpenRuns' = {}
    BY <1>3, <1>7, LoadErrorCloses
  <2>2. /\ mem'.pc = "idle" /\ mem'.tasks = mem.tasks /\ mem'.live = {}
        /\ mem'.active.id = NoRun
    BY <1>1, <1>7, IdleType, Parts
  <2>3. NamedIn(mem.tasks)'
    BY <1>3, <2>2, QueueNamedStays
  <2> QED
    BY <1>3, <1>4, <2>1, <2>2, <2>3, IdleCourse DEF Starts, Ends, NoRun, Runs
<1>8. CASE EndsSeen(log)
  BY <1>3, <1>4, <1>5, <1>8, ClosedCourse DEF EndsSeen
<1> QED
  BY <1>1, <1>6, <1>7, <1>8

LEMMA ArchiveCourse == ASSUME IInv, Course, Archive PROVE Course'
<1> DEFINE r == mem.active.id
<1>1. /\ mem.pc \in {"idle", "archive"} /\ r \in Runs
      /\ queue' = queue /\ mem.active.status \in Final
      /\ Completes(r, mem.active.status, mem.active.start, mem.tasks)
      /\ \/ /\ mem'.pc = "idle" /\ mem'.tasks = mem.tasks /\ mem'.live = {}
            /\ mem'.active.id = NoRun /\ rec'[r].status \in Final /\ log' = log
         \/ /\ Stands(mem', mem.tasks, "idle", {}) /\ LogsAs(log)
         \/ EndsSeen(log) /\ LogsAs(log)
  BY CourseParts, ArchiveEffect
<1>2. rec[r].status # "none" /\ log'.mixed = log.mixed
  BY <1>1, CourseParts DEF Starts, Final, LogsAs
<1>3. /\ Kinds' /\ OpenRuns' \subseteq OpenRuns
      /\ \A e \in Runs : rec[e].status # "none" => rec'[e].status # "none"
      /\ rec'[r] = rec[r] \/ rec'[r].status \in Final
  BY <1>1, <1>2, CourseParts, CompletesKinds
<1>4. NamedIn(queue)' /\ OpenRuns' \subseteq {r}
  BY <1>1, <1>3, CourseParts, QueueNamedStays DEF Alone, Down
<1>5. CASE /\ mem'.pc = "idle" /\ mem'.tasks = mem.tasks /\ mem'.live = {}
           /\ mem'.active.id = NoRun /\ rec'[r].status \in Final
  <2>1. NamedIn(mem.tasks)'
    BY <1>3, <1>5, QueueNamedStays
  <2>2. OpenRuns' = {}
    BY <1>4, <1>5 DEF OpenRuns, Final
  <2> QED
    BY <1>3, <1>4, <1>5, <2>1, <2>2, IdleCourse DEF Starts, Ends, NoRun, Runs
<1>6. CASE Stands(mem', mem.tasks, "idle", {})
  <2>1. /\ mem'.pc = "idle" /\ mem'.tasks = mem.tasks /\ mem'.live = {}
        /\ mem'.active.id = r /\ mem'.active.start = mem.active.start
        /\ Ends'
    BY <1>6 DEF Stands, Ends
  <2>2. NamedIn(mem.tasks)'
    BY <1>3, <2>1, QueueNamedStays
  <2>3. Starts'
    BY <1>1, <1>3, <2>1, CourseParts DEF Starts
  <2> QED
    BY <1>3, <1>4, <2>1, <2>2, <2>3, IdleCourse
<1>7. CASE EndsSeen(log)
  <2>1. \A e, k \in OpenRuns' : e = k
    BY <1>4
  <2> QED
    BY <1>3, <1>4, <1>7, <2>1, ClosedCourse DEF EndsSeen
<1> QED
  BY <1>1, <1>5, <1>6, <1>7

LEMMA BeginCourse == ASSUME IInv, Course, Begin PROVE Course'
<1>1. mem.pc = "idle" /\ mem.active.id = NoRun /\ mem.live = {} /\ queue' = queue
  BY BeginEffect
<1>2. PICK r \in Runs :
        /\ rec[r].status = "none"
        /\ \A e \in Runs \ {r} : rec'[e] = rec[e]
        /\ rec'[r] = rec[r]
           \/ (~ rec'[r].ready /\ rec'[r].summary \in {"none", "running"}
                 \cup {rec[r].summary})
        /\ BeginsRun(r) \/ BeginBreaks(r)
  BY BeginEffect
<1>3. \A e \in Runs : rec[e].status # "none" => rec'[e].status # "none"
  BY <1>2
<1>4. NamedIn(queue)'
  BY <1>1, <1>3, QueueNamedStays
<1>5. Kinds'
  <2>1. rec'[r].status \in {"none", "empty", "running"}
    BY <1>2 DEF BeginsRun, BeginBreaks
  <2>2. rec[r].summary \in {"none", "running"}
    BY <1>2, CourseParts DEF Kinds, Final
  <2>3. ASSUME NEW e \in Runs
        PROVE  /\ rec'[e].ready <=> rec'[e].status \in Final
               /\ rec'[e].status \notin Final => rec'[e].summary \in {"none", "running"}
    <3>1. CASE rec'[e] = rec[e]
      BY <3>1, CourseParts DEF Kinds
    <3>2. CASE e = r /\ ~ rec'[r].ready
               /\ rec'[r].summary \in {"none", "running"} \cup {rec[r].summary}
      BY <2>1, <2>2, <3>2 DEF Final
    <3> QED
      BY <1>2, <3>1, <3>2
  <2> QED
    BY <2>3 DEF Kinds
<1>6. OpenRuns = {}
  BY <1>1, CourseParts DEF Alone, Down, OpenRuns, NoRun, Runs
<1>7. CASE BeginsRun(r)
  <2>1. /\ rec'[r].status = "running" /\ rec'[r].start = mem'.active.start
        /\ mem'.pc = "begun" /\ mem'.tasks = mem.tasks /\ mem'.live = {}
        /\ mem'.active.id = r /\ log' = log
    BY <1>7 DEF BeginsRun
  <2>2. OpenRuns' \subseteq {r}
    BY <1>2, <1>6, <2>1 DEF OpenRuns
  <2>3. NamedIn(mem.tasks)'
    BY <1>3, <2>1, QueueNamedStays
  <2> QED
    BY <1>4, <1>5, <2>1, <2>2, <2>3, IdleCourse DEF Starts, Ends
<1>8. CASE BeginBreaks(r)
  <2>1. CASE mem' = mem /\ LoadErrorLogged
    <3>1. OpenRuns' = {}
      BY <1>5, <2>1, LoadErrorCloses
    <3>2. NamedIn(mem.tasks)'
      BY <1>3, <2>1, QueueNamedStays
    <3> QED
      BY <1>1, <1>4, <1>5, <2>1, <3>1, <3>2, IdleCourse DEF Starts, Ends, NoRun, Runs
  <2>2. CASE mem' = Closed /\ LogsAs(log)
    <3>1. OpenRuns' \subseteq {r}
      BY <1>2, <1>6, <2>2 DEF OpenRuns, LogsAs
    <3>2. \A e, k \in OpenRuns' : e = k
      BY <3>1
    <3> QED
      BY <1>4, <1>5, <2>2, <3>2, ClosedCourse
  <2> QED
    BY <1>8, <2>1, <2>2 DEF BeginBreaks
<1> QED
  BY <1>2, <1>7, <1>8

LEMMA MemoryNamed ==
    ASSUME RecordsStay, NEW q \in Queue, NEW t \in Queue, NEW r, NamedIn(q),
           Grows(q, t, r), r \in Runs => rec[r].status # "none", mem'.tasks = t
    PROVE  NamedIn(mem.tasks)'
<1>1. NamedIn(t)'
  BY NamedGrows
<1> QED
  BY <1>1 DEF NamedIn, Named, Numbers

LEMMA MemoryLevels ==
    ASSUME NEW t, mem'.tasks = t,
           \A g \in mem'.live : SameLast(t[g], queue'[g], mem'.active.id)
    PROVE  Levels'
  BY DEF Levels, SameLast

LEMMA SpendCourse ==
    ASSUME IInv, Course, NEW f \in Files, Spend(f) PROVE Course'
<1>1. /\ mem.pc = "files" /\ f \in mem.live /\ Last(mem.tasks[f]).path
      /\ UNCHANGED <<queue, rec, evid>> /\ log'.mixed = log.mixed
      /\ \E u \in Entry : \E a \in Attempt :
           /\ LastAs(mem.tasks[f], u, a) /\ u.status = "running"
           /\ a.exec = Last(mem.tasks[f]).exec /\ a.path
           /\ With(f, u) \in Queue
           /\ Stands(mem', With(f, u), "files", mem.live)
  BY SpendEffect
<1>2. PICK u \in Entry, a \in Attempt :
        /\ LastAs(mem.tasks[f], u, a) /\ u.status = "running"
        /\ a.exec = Last(mem.tasks[f]).exec /\ a.path
        /\ With(f, u) \in Queue
        /\ Stands(mem', With(f, u), "files", mem.live)
  BY <1>1
<1>3. RecordsStay /\ Kinds' /\ OpenRuns' = OpenRuns
  BY <1>1, CourseParts, KindsStay, OpenStay DEF RecordsStay, StaysAs
<1>4. /\ mem'.tasks = With(f, u) /\ mem'.pc = "files" /\ mem'.live = mem.live
      /\ mem'.active.id = mem.active.id /\ mem'.active.start = mem.active.start
  BY <1>2 DEF Stands
<1>5. mem.tasks[f] \in Entry
  BY Parts DEF Queue
<1>6. NamedIn(mem.tasks)'
  <2>1. Grows(mem.tasks, With(f, u), mem.active.id)
    <3>1. GrowsTask(mem.tasks[f], u, mem.active.id)
      BY <1>2, <1>5, LastGrows
    <3> QED
      BY <3>1, WithGrows, Parts
  <2>2. mem.active.id \in Runs => rec[mem.active.id].status # "none"
    BY CourseParts DEF Starts, Final
  <2>3. NamedIn(mem.tasks) /\ With(f, u) \in Queue /\ mem'.tasks = With(f, u)
    BY <1>2, <1>4, CourseParts
  <2> QED
    BY <1>3, <2>1, <2>2, <2>3, MemoryNamed, Parts
<1>7. NamedIn(queue)'
  BY <1>1, QueueNamedStays
<1>8. Levels'
  <2>1. SameLast(mem.tasks[f], queue[f], mem.active.id)
    BY <1>1, CourseParts DEF Levels
  <2>2. a.path = Last(mem.tasks[f]).path
    <3>1. a.path \in BOOLEAN /\ Last(mem.tasks[f]).path \in BOOLEAN
      BY <1>2, <1>5, LastAttempt DEF Attempt, LastAs
    <3> QED
      BY <1>1, <1>2, <3>1
  <2>3. SameLast(With(f, u)[f], queue[f], mem.active.id)
    <3>1. With(f, u)[f] = u
      BY Parts DEF With, Queue
    <3> QED
      BY <1>2, <2>1, <2>2, <3>1 DEF SameLast, LastAs, Last
  <2>4. \A g \in mem.live \ {f} : SameLast(With(f, u)[g], queue[g], mem.active.id)
    BY CourseParts, OthersLevel
  <2>5. \A g \in mem'.live : SameLast(With(f, u)[g], queue'[g], mem'.active.id)
    BY <1>1, <1>4, <2>3, <2>4
  <2> QED
    BY <1>4, <2>5, MemoryLevels
<1>9. Alone' /\ Starts' /\ Ends' /\ Loaded'
  BY <1>1, <1>3, <1>4, CourseParts DEF Alone, Starts, Ends, Loaded, Down
<1> QED
  BY <1>3, <1>6, <1>7, <1>8, <1>9 DEF Course

LEMMA InitCourse == Init => Course
<1> SUFFICES ASSUME Init PROVE Course
  OBVIOUS
<1>1. /\ mem.pc = "idle" /\ mem.tasks = Closed.tasks /\ mem.live = {}
      /\ mem.active.id = NoRun /\ queue = Closed.tasks
  BY DEF Init, Closed, NoActive
<1>2. \A r \in Runs : rec[r].status = "none" /\ ~ rec[r].ready /\ rec[r].summary = "none"
  BY DEF Init, NoRecord
<1>3. NamedIn(queue) /\ NamedIn(mem.tasks)
  BY <1>1, ClosedNamed
<1>4. Kinds
  BY <1>2 DEF Kinds, Final
<1>5. OpenRuns = {}
  BY <1>2 DEF OpenRuns
<1> QED
  BY <1>1, <1>3, <1>4, <1>5 DEF Course, Alone, Starts, Ends, Loaded, Levels, NoRun, Runs

LEMMA NextCourse == ASSUME IInv, Course, [Next]_vars PROVE Course'
<1>1. CASE UNCHANGED vars
  <2>1. UNCHANGED <<mem, queue, side, rec, evid, log>>
    BY <1>1 DEF vars
  <2>2. Kinds' /\ Alone'
    BY <2>1 DEF Course, Kinds, Alone, OpenRuns, Down
  <2>3. Starts' /\ Ends' /\ Loaded'
    BY <2>1 DEF Course, Starts, Ends, Loaded, Running
  <2>4. NamedIn(queue)' /\ NamedIn(mem.tasks)'
    BY <2>1 DEF Course, NamedIn, Named, Numbers
  <2>5. Levels'
    BY <2>1 DEF Course, Levels, SameLast
  <2> QED
    BY <2>2, <2>3, <2>4, <2>5 DEF Course
<1>2. CASE Next
  BY <1>2, OpenCourse, SettleCourse, LoadCourse, BeginCourse, RecoverRunCourse,
     PrepareFailsCourse, BeginAttemptCourse, StageCourse, AttachCourse, SpendCourse,
     FinishAttemptCourse, EndRunCourse, ArchiveCourse, RetryCourse, RetriedCourse,
     LeaveCourse DEF Next
<1> QED
  BY <1>1, <1>2

-----------------------------------------------------------------------------
(* The copies, step by step. *)

LEMMA EvidenceParts ==
    ASSUME Evidence
    PROVE  /\ Fits(queue) /\ Fits(mem.tasks) /\ NoCopies /\ Partial /\ Shown
           /\ EvidenceOfTheRun
  BY DEF Evidence

(* The copies fit the attempts of q after the step. *)
FitsThen(q) == \A f \in Files : \A n \in Numbers(q[f]) :
    LET e == q[f].history[n].exec
        i == <<f, n>>
    IN e \notin log'.mixed /\ evid'[e][i] # 0 => evid'[e][i] = side'.version[i] + 1

LEMMA ThenFits ==
    ASSUME NEW q, FitsThen(q)
    PROVE  /\ queue' = q => Fits(queue)'
           /\ mem'.tasks = q => Fits(mem.tasks)'
  BY DEF FitsThen, Fits, FitsTask, Numbers

LEMMA ClosedFits == FitsThen(Closed.tasks)
<1>1. \A f \in Files : Closed.tasks[f] = NewTask
  BY DEF Closed
<1>2. Numbers(NewTask) = {}
  BY DEF Numbers, NewTask
<1> QED
  BY <1>1, <1>2 DEF FitsThen

(* No copy is made and no artifact replaced. *)
LEMMA FitsStays ==
    ASSUME NEW q, Fits(q), evid' = evid, side'.version = side.version,
           log.mixed \subseteq log'.mixed
    PROVE  FitsThen(q)
  BY DEF Fits, FitsTask, FitsThen

(* A run under way is the active one, or cut off. *)
LEMMA OpenIsActive ==
    ASSUME IInv, Course, ~ Down
    PROVE  /\ Busy => OpenRuns \subseteq {UnderWay} /\ UnderWay = mem.active.id
           /\ mem.active.id = NoRun => OpenRuns = {} /\ UnderWay = NoRun
<1>1. OpenRuns \subseteq {mem.active.id}
  BY CourseParts DEF Alone
<1>2. NoRun \notin OpenRuns
  BY DEF OpenRuns, NoRun, Runs
<1> QED
  BY <1>1, <1>2, UnderWayIs

(* What finished records show is as it was when nothing is said of their
   runs and no copy changes. *)
LEMMA ShowsAsBefore ==
    ASSUME EvidenceOfTheRun, evid' = evid, log.mixed \subseteq log'.mixed,
           \A r \in Runs : Finished(r)' => /\ Finished(r) /\ rec'[r] = rec[r]
                                           /\ log'.shown[r] = log.shown[r]
    PROVE  EvidenceOfTheRun'
<1> SUFFICES ASSUME NEW r \in Runs \ log'.mixed, Finished(r)', NEW i \in Ids,
                    rec'[r].owner[i] \in Runs \ log'.mixed
             PROVE  evid'[rec'[r].owner[i]][i] = log'.shown[r][i] + 1
  BY DEF EvidenceOfTheRun
<1> QED
  BY DEF EvidenceOfTheRun

LEMMA SaveEvidence ==
    ASSUME IInv, Course, Evidence, ~ Down, mem.active.id = NoRun \/ Busy,
           NEW t \in Queue, NEW l \in LogNow, l.mixed = log.mixed,
           NEW pc, NEW live, NEW pc2, NEW live2,
           pc = "files" \/ pc2 = "files" => Busy, pc # "begun", pc2 # "begun",
           Outcome(t, l, pc, live, pc2, live2), Grows(mem.tasks, t, mem.active.id),
           evid' = evid, side' \in Side, Busy \/ side' = side,
           \A f \in Files : \A n \in Numbers(queue[f]) :
             \/ queue[f].history[n].exec = mem.active.id
             \/ side'.version[<<f, n>>] = side.version[<<f, n>>],
           \A f \in Files : \A n \in Numbers(t[f]) :
             \/ t[f].history[n].exec = mem.active.id
             \/ side'.version[<<f, n>>] = side.version[<<f, n>>],
           pc # "files" /\ Busy => SeenAs(l), pc2 # "files" /\ Busy => SeenAs(l),
           l.shown = log.shown \/ SeenAs(l)
    PROVE  Evidence'
<1>1. RecordsStay /\ log'.mixed = log.mixed /\ queue' \in {queue, t}
  BY DEF Outcome, LogsAs
<1>2. /\ OpenRuns' = OpenRuns
      /\ \A r \in Runs : /\ rec'[r].status = rec[r].status
                         /\ rec[r].status # "running" => rec'[r] = rec[r]
  BY <1>1, OpenStay, StayFields
<1>3. Busy => \A i \in Ids : evid[mem.active.id][i] = 0
  <2>1. Busy => mem.active.id \in Runs
    BY UnderWayIs
  <2> QED
    BY <2>1, EvidenceParts DEF NoCopies
<1>4. \A k \in Runs : k # mem.active.id => l.shown[k] = log.shown[k]
  BY DEF SeenAs
<1>5. FitsThen(queue)
  <2>1. ASSUME NEW f \in Files, NEW n \in Numbers(queue[f]),
               queue[f].history[n].exec \notin log'.mixed,
               evid'[queue[f].history[n].exec][<<f, n>>] # 0
        PROVE  evid'[queue[f].history[n].exec][<<f, n>>] = side'.version[<<f, n>>] + 1
    <3>1. <<f, n>> \in Ids /\ queue[f].history[n].exec \in Runs
      BY FileFacts, Parts
    <3>2. side'.version[<<f, n>>] = side.version[<<f, n>>]
      BY <1>3, <2>1, <3>1
    <3>3. evid[queue[f].history[n].exec][<<f, n>>] = side.version[<<f, n>>] + 1
      BY <1>1, <2>1, EvidenceParts DEF Fits, FitsTask
    <3> QED
      BY <3>2, <3>3
  <2> QED
    BY <2>1 DEF FitsThen
<1>6. FitsThen(t)
  <2>1. ASSUME NEW f \in Files, NEW n \in Numbers(t[f]),
               t[f].history[n].exec \notin log'.mixed,
               evid'[t[f].history[n].exec][<<f, n>>] # 0
        PROVE  evid'[t[f].history[n].exec][<<f, n>>] = side'.version[<<f, n>>] + 1
    <3>1. <<f, n>> \in Ids /\ t[f].history[n].exec \in Runs
      BY FileFacts
    <3>2. t[f].history[n].exec # mem.active.id
      BY <1>3, <2>1, <3>1 DEF NoRun, Runs
    <3>3. side'.version[<<f, n>>] = side.version[<<f, n>>]
      BY <3>2
    <3>4. n \in Numbers(mem.tasks[f])
          /\ t[f].history[n].exec = mem.tasks[f].history[n].exec
      BY <3>2 DEF Grows, GrowsTask
    <3>5. evid[t[f].history[n].exec][<<f, n>>] = side.version[<<f, n>>] + 1
      BY <1>1, <2>1, <3>4, EvidenceParts DEF Fits, FitsTask
    <3> QED
      BY <3>3, <3>5
  <2> QED
    BY <2>1 DEF FitsThen
<1>7. Fits(queue)'
  BY <1>1, <1>5, <1>6, ThenFits
<1>8. mem'.tasks \in {t, Closed.tasks}
      /\ (Busy' => Busy /\ mem'.active.id = mem.active.id)
  BY ClosedType DEF Outcome, Stands, EndsSeen, Busy
<1>9. Fits(mem.tasks)'
  BY <1>6, <1>8, ClosedFits, ThenFits
<1>10. NoCopies'
  BY <1>2, <1>8, EvidenceParts DEF NoCopies
<1>11. Partial'
  <2>1. CASE Busy
    <3>1. \A r \in OpenRuns : \A i \in Ids : evid[r][i] = 0
      BY <1>3, <2>1, OpenIsActive
    <3> QED
      BY <1>2, <3>1 DEF Partial
  <2>2. CASE mem.active.id = NoRun
    BY <1>2, <2>2, OpenIsActive DEF Partial
  <2> QED
    BY <2>1, <2>2
<1>12. Shown'
  <2>1. CASE Busy
    <3>0. mem.active.id \in Runs /\ OpenRuns \subseteq {mem.active.id}
          /\ UnderWay = mem.active.id
      BY <2>1, UnderWayIs, OpenIsActive
    <3>1. CASE Busy'
      BY <3>1 DEF Shown
    <3>2. CASE SeenAs(l) /\ log'.shown = l.shown
      BY <1>2, <3>0, <3>2 DEF SeenAs, Shown
    <3>3. CASE EndsSeen(l)
      BY <1>2, <3>0, <3>3 DEF EndsSeen, Shown
    <3> QED
      BY <2>1, <3>1, <3>2, <3>3 DEF Outcome, Stands, Busy
  <2>2. CASE mem.active.id = NoRun
    BY <1>2, <2>2, OpenIsActive DEF Shown
  <2> QED
    BY <2>1, <2>2
<1>13. EvidenceOfTheRun'
  <2>1. ASSUME NEW r \in Runs, Finished(r)'
        PROVE  /\ Finished(r) /\ rec'[r] = rec[r] /\ log'.shown[r] = log.shown[r]
    <3>1. rec[r].status \in Final
      BY <1>2, <2>1 DEF Finished
    <3>2. rec'[r] = rec[r]
      BY <1>2, <3>1 DEF Final
    <3>3. r # UnderWay /\ r # mem.active.id
      <4>1. Busy => rec[mem.active.id].status = "running"
        BY CourseParts, OpenRecord
      <4>2. Busy \/ mem.active.id = NoRun
        OBVIOUS
      <4> QED
        BY <3>1, <4>1, <4>2, OpenIsActive DEF Final, NoRun, Runs
    <3>4. log'.shown[r] = l.shown[r]
      BY <3>3 DEF Outcome, EndsSeen
    <3> QED
      BY <1>4, <2>1, <3>2, <3>3, <3>4 DEF Finished
  <2> QED
    BY <1>1, <2>1, ShowsAsBefore, EvidenceParts
<1> QED
  BY <1>7, <1>9, <1>10, <1>11, <1>12, <1>13 DEF Evidence

(* A save that leaves the artifacts alone. *)
LEMMA QuietEvidence ==
    ASSUME IInv, Course, Evidence, ~ Down, mem.active.id = NoRun \/ Busy,
           NEW t \in Queue, NEW l \in LogNow, l.mixed = log.mixed,
           NEW pc, NEW live, NEW pc2, NEW live2,
           pc = "files" \/ pc2 = "files" => Busy, pc # "begun", pc2 # "begun",
           Outcome(t, l, pc, live, pc2, live2), Grows(mem.tasks, t, mem.active.id),
           evid' = evid, side' = side,
           pc # "files" /\ Busy => SeenAs(l), pc2 # "files" /\ Busy => SeenAs(l),
           l.shown = log.shown \/ SeenAs(l)
    PROVE  Evidence'
<1>1. /\ \A f \in Files : \A n \in Numbers(queue[f]) :
           side'.version[<<f, n>>] = side.version[<<f, n>>]
      /\ \A f \in Files : \A n \in Numbers(t[f]) :
           side'.version[<<f, n>>] = side.version[<<f, n>>]
      /\ side' \in Side
  BY Parts
<1> QED
  BY <1>1, SaveEvidence

(* A worker's save. *)
LEMMA WorkerEvidence ==
    ASSUME IInv, Course, Evidence, mem.pc = "files", NEW t \in Queue, NEW live, NEW live2,
           Outcome(t, log, "files", live, "files", live2),
           Grows(mem.tasks, t, mem.active.id), evid' = evid,
           side'.version = side.version, side' \in Side
    PROVE  Evidence'
<1>1. Busy /\ ~ Down /\ log \in LogNow
  BY RunFacts, Parts
<1>2. /\ \A f \in Files : \A n \in Numbers(queue[f]) :
           side'.version[<<f, n>>] = side.version[<<f, n>>]
      /\ \A f \in Files : \A n \in Numbers(t[f]) :
           side'.version[<<f, n>>] = side.version[<<f, n>>]
  OBVIOUS
<1> DEFINE pc == "files"
           l == log
<1>3. /\ Outcome(t, l, pc, live, pc, live2) /\ pc = "files" /\ l \in LogNow
      /\ l.mixed = log.mixed /\ l.shown = log.shown
  BY <1>1
<1> HIDE DEF pc, l
<1> QED
  BY <1>1, <1>2, <1>3, SaveEvidence

LEMMA BeginAttemptEvidence ==
    ASSUME IInv, Course, Evidence, NEW f \in Files, BeginAttempt(f) PROVE Evidence'
<1>1. /\ mem.pc = "files" /\ side' = side /\ evid' = evid
      /\ \E u \in Entry :
           /\ Restarted(mem.tasks[f], u, mem.active.id)
           /\ With(f, u) \in Queue
           /\ Outcome(With(f, u), log, "files", mem.live \cup {f},
                      "files", mem.live \ {f})
  BY CourseParts, BeginAttemptEffect
<1>2. PICK u \in Entry :
        /\ Restarted(mem.tasks[f], u, mem.active.id)
        /\ With(f, u) \in Queue
        /\ Outcome(With(f, u), log, "files", mem.live \cup {f},
                   "files", mem.live \ {f})
  BY <1>1
<1>3. Grows(mem.tasks, With(f, u), mem.active.id)
  <2>1. mem.tasks[f] \in Entry
    BY Parts DEF Queue
  <2> QED
    BY <1>2, <2>1, RestartedGrows, WithGrows, Parts
<1> QED
  BY <1>1, <1>2, <1>3, WorkerEvidence, Parts

LEMMA ChangedGrows ==
    ASSUME IInv, NEW f \in Files, NEW u \in Entry, NEW a \in Attempt,
           LastAs(mem.tasks[f], u, a), a.exec = Last(mem.tasks[f]).exec
    PROVE  Grows(mem.tasks, With(f, u), mem.active.id)
<1>1. mem.tasks[f] \in Entry
  BY Parts DEF Queue
<1>2. GrowsTask(mem.tasks[f], u, mem.active.id)
  BY <1>1, LastGrows
<1> QED
  BY <1>2, WithGrows, Parts

LEMMA AttachEvidence ==
    ASSUME IInv, Course, Evidence, NEW f \in Files, Attach(f) PROVE Evidence'
<1>1. /\ mem.pc = "files" /\ evid' = evid /\ side' \in Side
      /\ \/ Attached(f)
         \/ /\ side' = side
            /\ Outcome(mem.tasks, log, "files", mem.live \ {f}, "files", mem.live \ {f})
  BY CourseParts, AttachEffect
<1>2. CASE Attached(f)
  <2>1. PICK u \in Entry, a \in Attempt :
          /\ LastAs(mem.tasks[f], u, a)
          /\ a.exec = Last(mem.tasks[f]).exec
          /\ side'.version = side.version
          /\ With(f, u) \in Queue
          /\ Outcome(With(f, u), log, "files", mem.live, "files", mem.live \ {f})
    BY <1>2 DEF Attached
  <2>2. Grows(mem.tasks, With(f, u), mem.active.id)
    BY <2>1, ChangedGrows
  <2> QED
    BY <1>1, <2>1, <2>2, WorkerEvidence
<1>3. CASE /\ side' = side
           /\ Outcome(mem.tasks, log, "files", mem.live \ {f}, "files", mem.live \ {f})
  <2>1. Grows(mem.tasks, mem.tasks, mem.active.id)
    BY SameGrows, Parts
  <2> QED
    BY <1>1, <1>3, <2>1, WorkerEvidence, Parts
<1> QED
  BY <1>1, <1>2, <1>3

LEMMA FinishAttemptEvidence ==
    ASSUME IInv, Course, Evidence, NEW f \in Files, FinishAttempt(f) PROVE Evidence'
<1>1. /\ mem.pc = "files" /\ side' = side /\ evid' = evid
      /\ \E u \in Entry :
           /\ With(f, u) \in Queue
           /\ \E a \in Attempt :
                /\ LastAs(mem.tasks[f], u, a)
                /\ a.exec = Last(mem.tasks[f]).exec
           /\ Outcome(With(f, u), log, "files", mem.live \ {f},
                      "files", mem.live \ {f})
  BY CourseParts, FinishAttemptEffect
<1>2. PICK u \in Entry :
        /\ With(f, u) \in Queue
        /\ \E a \in Attempt :
             /\ LastAs(mem.tasks[f], u, a)
             /\ a.exec = Last(mem.tasks[f]).exec
        /\ Outcome(With(f, u), log, "files", mem.live \ {f},
                   "files", mem.live \ {f})
  BY <1>1
<1>3. Grows(mem.tasks, With(f, u), mem.active.id)
  BY <1>2, ChangedGrows
<1> QED
  BY <1>1, <1>2, <1>3, WorkerEvidence, Parts

(* The artifacts of an attempt of the run under way, which has no copies. *)
LEMMA StageEvidence ==
    ASSUME IInv, Course, Evidence, NEW f \in Files, Stage(f) PROVE Evidence'
<1> DEFINE i == LastId(f, mem.tasks)
<1>1. /\ mem.pc = "files" /\ f \in mem.live /\ i \in Ids /\ evid' = evid
      /\ side' \in Side /\ \A j \in Ids \ {i} : side'.version[j] = side.version[j]
      /\ Outcome(mem.tasks, log, "files", mem.live, "files", mem.live \ {f})
  BY CourseParts, StageEffect
<1>2. Busy /\ ~ Down /\ log \in LogNow
  BY <1>1, RunFacts, Parts
<1>3. SameLast(mem.tasks[f], queue[f], mem.active.id)
  BY <1>1, CourseParts DEF Levels
<1>4. \A g \in Files : \A n \in Numbers(queue[g]) :
        \/ queue[g].history[n].exec = mem.active.id
        \/ side'.version[<<g, n>>] = side.version[<<g, n>>]
  <2>1. ASSUME NEW g \in Files, NEW n \in Numbers(queue[g]), <<g, n>> = i
        PROVE  queue[g].history[n].exec = mem.active.id
    BY <1>3, <2>1 DEF SameLast, LastId
  <2>2. \A g \in Files : \A n \in Numbers(queue[g]) : <<g, n>> \in Ids
    BY FileFacts, Parts
  <2> QED
    BY <1>1, <2>1, <2>2
<1>5. \A g \in Files : \A n \in Numbers(mem.tasks[g]) :
        \/ mem.tasks[g].history[n].exec = mem.active.id
        \/ side'.version[<<g, n>>] = side.version[<<g, n>>]
  <2>1. ASSUME NEW g \in Files, NEW n \in Numbers(mem.tasks[g]), <<g, n>> = i
        PROVE  mem.tasks[g].history[n].exec = mem.active.id
    BY <1>3, <2>1 DEF SameLast, LastId
  <2>2. \A g \in Files : \A n \in Numbers(mem.tasks[g]) : <<g, n>> \in Ids
    BY FileFacts, Parts
  <2> QED
    BY <1>1, <2>1, <2>2
<1>6. Grows(mem.tasks, mem.tasks, mem.active.id) /\ mem.tasks \in Queue
  BY SameGrows, Parts
<1> DEFINE pc == "files"
           l == log
           live == mem.live
           live2 == mem.live \ {f}
           t == mem.tasks
<1>7. /\ Outcome(t, l, pc, live, pc, live2) /\ pc = "files" /\ l \in LogNow
      /\ l.mixed = log.mixed /\ l.shown = log.shown /\ t \in Queue
      /\ Grows(mem.tasks, t, mem.active.id)
      /\ \A g \in Files : \A n \in Numbers(t[g]) :
           \/ t[g].history[n].exec = mem.active.id
           \/ side'.version[<<g, n>>] = side.version[<<g, n>>]
  BY <1>1, <1>2, <1>5, <1>6
<1>8. evid' = evid /\ side' \in Side
  BY <1>1
<1> HIDE DEF pc, l, live, live2, t, i
<1> QED
  BY <1>2, <1>4, <1>7, <1>8, SaveEvidence

(* The steps after which the workers are not at work. *)
LEMMA RecoverRunEvidence ==
    ASSUME IInv, Course, Evidence, RecoverRun PROVE Evidence'
<1>1. /\ mem.pc = "begun" /\ side' = side /\ evid' = evid
      /\ \E t \in Queue : \E l \in LogNow :
           /\ \A f \in Files : Mended(f, mem.tasks, t[f])
           /\ SeenAs(l) /\ Outcome(t, l, "files", {}, "archive", {})
  BY CourseParts, RecoverRunEffect
<1>2. PICK t \in Queue, l \in LogNow :
        /\ \A f \in Files : Mended(f, mem.tasks, t[f])
        /\ SeenAs(l) /\ Outcome(t, l, "files", {}, "archive", {})
  BY <1>1
<1>3. Grows(mem.tasks, t, mem.active.id)
  BY <1>2, MendedGrows, Parts
<1>4. Busy /\ ~ Down
  BY <1>1, RunFacts
<1>5. l.mixed = log.mixed
  BY <1>2 DEF SeenAs
<1> QED
  BY <1>1, <1>2, <1>3, <1>4, <1>5, QuietEvidence

LEMMA EndsEvidence ==
    ASSUME IInv, Course, Evidence, mem.pc \in {"begun", "files"}, NEW l \in LogNow,
           SeenAs(l), Outcome(mem.tasks, l, "archive", {}, "archive", {}),
           side' = side, evid' = evid
    PROVE  Evidence'
<1>1. Grows(mem.tasks, mem.tasks, mem.active.id) /\ mem.tasks \in Queue
  BY SameGrows, Parts
<1>2. Busy /\ ~ Down
  BY RunFacts
<1>3. l.mixed = log.mixed
  BY DEF SeenAs
<1> QED
  BY <1>1, <1>2, <1>3, QuietEvidence

LEMMA PrepareFailsEvidence ==
    ASSUME IInv, Course, Evidence, PrepareFails PROVE Evidence'
<1>1. /\ mem.pc = "begun" /\ side' = side /\ evid' = evid
      /\ \E l \in LogNow : SeenAs(l) /\ Outcome(mem.tasks, l, "archive", {}, "archive", {})
  BY CourseParts, PrepareFailsEffect
<1> QED
  BY <1>1, EndsEvidence

LEMMA EndRunEvidence ==
    ASSUME IInv, Course, Evidence, EndRun PROVE Evidence'
<1>1. /\ mem.pc = "files" /\ side' = side /\ evid' = evid
      /\ \E l \in LogNow : SeenAs(l) /\ Outcome(mem.tasks, l, "archive", {}, "archive", {})
  BY CourseParts, EndRunEffect
<1> QED
  BY <1>1, EndsEvidence

LEMMA RetryEvidence ==
    ASSUME IInv, Course, Evidence, Retry PROVE Evidence'
<1>1. /\ mem.pc = "idle" /\ mem.active.id = NoRun /\ side' = side /\ evid' = evid
      /\ \E t \in Queue :
           /\ \A f \in Files : Mended(f, mem.tasks, t[f])
           /\ Outcome(t, log, "retry", {}, "idle", {})
  BY CourseParts, RetryEffect
<1>2. PICK t \in Queue :
        /\ \A f \in Files : Mended(f, mem.tasks, t[f])
        /\ Outcome(t, log, "retry", {}, "idle", {})
  BY <1>1
<1>3. Grows(mem.tasks, t, mem.active.id) /\ ~ Down /\ ~ Busy
  BY <1>1, <1>2, MendedGrows, Parts DEF Down, Busy
<1> QED
  BY <1>1, <1>2, <1>3, QuietEvidence, Parts

LEMMA RetriedEvidence ==
    ASSUME IInv, Course, Evidence, NEW f \in Files, Retried(f) PROVE Evidence'
<1>1. /\ mem.pc = "retry" /\ mem.active.id = NoRun /\ side' = side /\ evid' = evid
      /\ \E u \in Entry :
           /\ u.history = mem.tasks[f].history
           /\ With(f, u) \in Queue
           /\ Outcome(With(f, u), log, "idle", {}, "idle", {})
  BY CourseParts, RetriedEffect
<1>2. PICK u \in Entry :
        /\ u.history = mem.tasks[f].history
        /\ With(f, u) \in Queue
        /\ Outcome(With(f, u), log, "idle", {}, "idle", {})
  BY <1>1
<1>3. Grows(mem.tasks, With(f, u), mem.active.id)
  BY <1>2, RequeuedGrows
<1>4. ~ Down /\ ~ Busy
  BY <1>1 DEF Down, Busy
<1> DEFINE t == With(f, u)
<1>5. /\ t \in Queue /\ Outcome(t, log, "idle", {}, "idle", {})
      /\ Grows(mem.tasks, t, mem.active.id)
  BY <1>2, <1>3
<1>6. /\ mem.active.id = NoRun /\ log \in LogNow /\ evid' = evid /\ side' = side
  BY <1>1, Parts
<1> HIDE DEF t
<1> QED
  BY <1>4, <1>5, <1>6, QuietEvidence

(* Nothing of a run, an attempt or a copy changes, but the memory may be that
   of another process, and more runs may be given up. *)
LEMMA SameEvidence ==
    ASSUME IInv, Evidence, UNCHANGED <<queue, side, rec, evid>>,
           log.mixed \subseteq log'.mixed, ~ Busy,
           \A k \in Runs : log'.shown[k] = log.shown[k],
           mem'.tasks \in {mem.tasks, queue, Closed.tasks},
           ~ Busy'
    PROVE  Evidence'
<1>1. Fits(queue)' /\ Fits(mem.tasks)'
  BY EvidenceParts, FitsStays, ClosedFits, ThenFits
<1>2. NoCopies'
  BY EvidenceParts DEF NoCopies
<1>3. OpenRuns' \subseteq OpenRuns
  BY DEF OpenRuns
<1>4. Partial' /\ Shown'
  <2>1. OpenRuns \subseteq Runs
    BY DEF OpenRuns
  <2> QED
    BY <1>3, <2>1, EvidenceParts DEF Partial, Shown
<1>5. EvidenceOfTheRun'
  BY EvidenceParts, ShowsAsBefore DEF Finished
<1> QED
  BY <1>1, <1>2, <1>4, <1>5 DEF Evidence

LEMMA OpenEvidence == ASSUME IInv, Course, Evidence, Open PROVE Evidence'
<1>1. /\ mem.pc \in {"closed", "idle"} /\ mem'.pc = "load" /\ mem'.tasks = queue
      /\ UNCHANGED <<queue, side, rec, evid, log>>
  BY OpenEffect
<1> QED
  BY <1>1, SameEvidence DEF Busy

LEMMA LoadEvidence ==
    ASSUME IInv, Course, Evidence, LoadDone \/ LoadFails PROVE Evidence'
<1>1. /\ mem.pc = "load" /\ mem'.pc = "idle" /\ mem'.tasks = mem.tasks
      /\ UNCHANGED <<queue, side, rec, evid>>
      /\ log'.shown = log.shown /\ log.mixed \subseteq log'.mixed
  BY CourseParts, LoadEffect
<1> QED
  BY <1>1, SameEvidence DEF Busy

(* The process ends: what the artifacts are is noted for the run under way. *)
LEMMA LeaveEvidence ==
    ASSUME IInv, Course, Evidence, Close \/ Crash PROVE Evidence'
<1>1. EndsSeen(log) /\ LogsAs(log) /\ UNCHANGED <<queue, side, rec, evid>>
  BY CourseParts, LeaveEffect
<1>2. CASE ~ Busy /\ UnderWay = NoRun
  <2>1. \A k \in Runs : log'.shown[k] = log.shown[k]
    BY <1>1, <1>2 DEF EndsSeen, NoRun, Runs
  <2>2. mem' = Closed /\ ~ Busy'
    BY <1>1, ClosedType DEF EndsSeen, Busy
  <2> QED
    BY <1>1, <1>2, <2>1, <2>2, SameEvidence DEF LogsAs
<1>3. CASE UnderWay # NoRun
  <2>1. mem' = Closed /\ log'.mixed = log.mixed /\ mem'.tasks = Closed.tasks
        /\ ~ Busy' /\ OpenRuns' = OpenRuns
    BY <1>1, ClosedType DEF EndsSeen, LogsAs, Busy, OpenRuns
  <2>2. Fits(queue)' /\ Fits(mem.tasks)'
    BY <1>1, <2>1, EvidenceParts, FitsStays, ClosedFits, ThenFits
  <2>3. NoCopies' /\ Partial'
    BY <1>1, <2>1, EvidenceParts DEF NoCopies, Partial
  <2>4. mem.active.id = UnderWay /\ mem.active.status = "running"
    BY <1>3 DEF UnderWay
  <2>5. Busy
    <3>1. mem.pc \notin {"closed", "load", "retry"}
      BY <1>3, <2>4 DEF IInv, Stages
    <3>2. mem.pc \notin {"idle", "archive"}
      BY <1>3, <2>4, CourseParts DEF Ends, Final
    <3>3. mem.pc \in {"closed", "load", "idle", "retry", "begun", "files", "archive"}
      BY Parts DEF Process
    <3> QED
      BY <3>1, <3>2, <3>3 DEF Busy
  <2>6. Shown'
    <3>1. OpenRuns \subseteq {UnderWay}
      BY <2>5, OpenIsActive DEF Busy, Down
    <3>2. \A k \in OpenRuns : k \in Runs /\ k = UnderWay
      BY <3>1 DEF OpenRuns
    <3>3. \A k \in OpenRuns : log'.shown[k] = side'.version
      BY <1>1, <3>2 DEF EndsSeen
    <3> QED
      BY <2>1, <3>3 DEF Shown
  <2>7. EvidenceOfTheRun'
    <3>1. rec[UnderWay].status = "running"
      BY <2>4, <2>5, CourseParts, OpenRecord
    <3>2. \A k \in Runs : Finished(k) => k # UnderWay
      BY <3>1 DEF Finished, Final
    <3>3. \A k \in Runs : Finished(k)' => /\ Finished(k) /\ rec'[k] = rec[k]
                                          /\ log'.shown[k] = log.shown[k]
      BY <1>1, <3>2 DEF Finished, EndsSeen
    <3> QED
      BY <1>1, <2>1, <3>3, EvidenceParts, ShowsAsBefore
  <2> QED
    BY <2>2, <2>3, <2>6, <2>7 DEF Evidence
<1>4. Busy => UnderWay # NoRun
  BY UnderWayIs DEF NoRun, Runs
<1> QED
  BY <1>2, <1>3, <1>4

(* A record is completed with the copies of its own attempts and those that
   other runs own. *)
LEMMA CompletesEvidence ==
    ASSUME IInv, Course, Evidence, Kept, NEW r \in Runs, NEW status \in Final,
           NEW start, NEW tasks \in Queue, Completes(r, status, start, tasks),
           Fits(tasks), rec[r].status = "running" \/ Settled(rec[r]),
           queue' = queue, side' = side, ~ Busy, ~ Busy',
           log.mixed \subseteq log'.mixed,
           \A k \in Runs : log'.shown[k] = log.shown[k],
           mem'.tasks \in {mem.tasks, Closed.tasks}
    PROVE  Evidence'
<1>1. /\ \A e \in Runs \ {r} : rec'[e] = rec[e] /\ evid'[e] = evid[e]
      /\ rec'[r] = rec[r] \/ Becomes(r, rec'[r], status, start, tasks)
      /\ \A i \in Ids : evid'[r][i] \in {evid[r][i], side.version[i] + 1}
      /\ rec'[r] # rec[r] =>
           \A i \in Owned(r, tasks) : evid'[r][i] = side.version[i] + 1
  <2>1. PICK part \in SUBSET Owned(r, tasks) :
          /\ \A i \in Ids : evid'[r][i] = IF i \in part THEN side.version[i] + 1
                                                        ELSE evid[r][i]
          /\ \/ rec'[r] = rec[r]
             \/ /\ part = Owned(r, tasks)
                /\ Becomes(r, rec'[r], status, start, tasks)
    BY DEF Completes
  <2>2. Owned(r, tasks) \subseteq Ids
    BY DEF Owned, IdsIn
  <2>3. \A e \in Runs \ {r} : rec'[e] = rec[e] /\ evid'[e] = evid[e]
    BY DEF Completes
  <2> QED
    BY <2>1, <2>2, <2>3
<1>2. rec[r].status # "none"
  BY DEF Settled, Final
<1>3. /\ Kinds' /\ OpenRuns' \subseteq OpenRuns
      /\ rec'[r] = rec[r] \/ rec'[r].status = status
  BY <1>2, CourseParts, CompletesKinds
<1>4. ASSUME NEW q \in Queue, Fits(q) PROVE FitsThen(q)
  <2>1. ASSUME NEW f \in Files, NEW n \in Numbers(q[f]),
               q[f].history[n].exec \notin log'.mixed,
               evid'[q[f].history[n].exec][<<f, n>>] # 0
        PROVE  evid'[q[f].history[n].exec][<<f, n>>] = side'.version[<<f, n>>] + 1
    <3>1. <<f, n>> \in Ids /\ q[f].history[n].exec \in Runs
      BY <1>4, FileFacts
    <3>2. evid[q[f].history[n].exec][<<f, n>>] # 0 =>
            evid[q[f].history[n].exec][<<f, n>>] = side.version[<<f, n>>] + 1
      BY <1>4, <2>1 DEF Fits, FitsTask
    <3>3. evid'[q[f].history[n].exec][<<f, n>>] \in
            {evid[q[f].history[n].exec][<<f, n>>], side.version[<<f, n>>] + 1}
      BY <1>1, <3>1
    <3> QED
      BY <2>1, <3>2, <3>3
  <2> QED
    BY <2>1 DEF FitsThen
<1>5. Fits(queue)' /\ Fits(mem.tasks)'
  <2>1. FitsThen(queue) /\ FitsThen(mem.tasks)
    BY <1>4, EvidenceParts, Parts
  <2> QED
    BY <2>1, ClosedFits, ThenFits
<1>6. NoCopies'
  <2>1. rec'[r].status \notin {"none", "empty"}
    BY <1>3 DEF Final, Settled
  <2> QED
    BY <1>1, <2>1, EvidenceParts DEF NoCopies
<1>7. Partial'
  <2>1. ASSUME NEW e \in OpenRuns', NEW i \in Ids, evid'[e][i] # 0
        PROVE  evid'[e][i] = side'.version[i] + 1
    <3>1. e \in Runs /\ e \in OpenRuns
      BY <1>3 DEF OpenRuns
    <3>2. evid[e][i] # 0 => evid[e][i] = side.version[i] + 1
      BY <3>1, EvidenceParts DEF Partial
    <3>3. evid'[e][i] \in {evid[e][i], side.version[i] + 1}
      BY <1>1, <3>1
    <3> QED
      BY <2>1, <3>2, <3>3
  <2> QED
    BY <2>1 DEF Partial
<1>8. Shown'
  <2>1. OpenRuns \subseteq Runs
    BY DEF OpenRuns
  <2> QED
    BY <1>3, <2>1, EvidenceParts DEF Shown
<1>9. EvidenceOfTheRun'
  <2> SUFFICES ASSUME NEW k \in Runs \ log'.mixed, Finished(k)', NEW i \in Ids,
                      rec'[k].owner[i] \in Runs \ log'.mixed
               PROVE  evid'[rec'[k].owner[i]][i] = log'.shown[k][i] + 1
    BY DEF EvidenceOfTheRun
  <2>1. /\ log'.shown[k] = log.shown[k] /\ k \in Runs \ log.mixed
        /\ rec'[k].owner[i] \in Runs \ log.mixed
    OBVIOUS
  \* Copies that finished records show are never replaced.
  <2>2. ASSUME NEW o \in Runs \ log.mixed, evid[o][i] = log.shown[k][i] + 1
        PROVE  evid'[o][i] = log.shown[k][i] + 1
    <3>1. CASE o # r
      BY <1>1, <2>2, <3>1
    <3>2. CASE o = r /\ Settled(rec[r])
      BY <2>2, <3>2 DEF Kept, Finished, Settled
    <3>3. CASE o = r /\ ~ Settled(rec[r])
      <4>1. r \in OpenRuns
        BY <2>2, <3>3 DEF OpenRuns
      <4>2. evid[r][i] # 0
        BY <2>2, <3>3, Parts DEF Log
      <4>3. evid[r][i] = side.version[i] + 1
        BY <4>1, <4>2, EvidenceParts DEF Partial
      <4> QED
        BY <1>1, <2>2, <3>3, <4>3
    <3> QED
      BY <3>1, <3>2, <3>3
  <2>3. CASE Finished(k) /\ rec'[k].owner = rec[k].owner
    BY <2>1, <2>2, <2>3, EvidenceParts DEF EvidenceOfTheRun
  <2>4. CASE ~ (Finished(k) /\ rec'[k].owner = rec[k].owner)
    <3>1. k = r
      BY <1>1, <2>4 DEF Finished
    <3>2. ~ Settled(rec[r])
      <4>1. ASSUME Finished(r) PROVE rec'[r].owner = rec[r].owner
        <5>1. rec'[r] = [rec[r] EXCEPT !.summary = rec'[r].summary]
          BY <4>1 DEF Kept
        <5>2. rec[r] \in Record
          BY Parts
        <5> QED
          BY <5>1, <5>2 DEF Record
      <4> QED
        BY <2>4, <3>1, <4>1 DEF Finished, Settled
    <3>3. r \in OpenRuns /\ rec'[r] # rec[r]
      BY <2>1, <3>1, <3>2 DEF OpenRuns, Finished, Settled
    <3>4. rec'[r].owner[i] = IF i \in IdsIn(tasks) THEN Owner(r, tasks, i) ELSE NoRun
      BY <1>1, <3>3 DEF Becomes
    <3>5. i \in IdsIn(tasks) /\ rec'[r].owner[i] = Owner(r, tasks, i)
      BY <2>1, <3>1, <3>4 DEF NoRun, Runs
    <3>6. log.shown[r][i] = side.version[i]
      BY <3>3, EvidenceParts DEF Shown
    <3>7. CASE Owner(r, tasks, i) = r
      <4>1. i \in Owned(r, tasks)
        BY <3>5, <3>7 DEF Owned
      <4> QED
        BY <1>1, <2>1, <3>1, <3>3, <3>5, <3>6, <3>7, <4>1
    <3>8. CASE Owner(r, tasks, i) # r
      <4> DEFINE e == At(tasks, i).exec
      <4>1. e # r /\ evid[e][i] # 0 /\ rec'[r].owner[i] = e
        BY <3>5, <3>8 DEF Owner
      <4>2. PICK f \in Files, n \in 1 .. MaxAttempts : i = <<f, n>>
        BY DEF Ids
      <4>3. n \in Numbers(tasks[f]) /\ e = tasks[f].history[n].exec
        BY <3>5, <4>2 DEF IdsIn, Numbers, At
      <4>4. evid[e][i] = side.version[i] + 1
        BY <2>1, <3>1, <4>1, <4>2, <4>3 DEF Fits, FitsTask
      <4> HIDE DEF e
      <4>5. evid'[e] = evid[e]
        BY <1>1, <2>1, <3>1, <4>1
      <4> QED
        BY <2>1, <3>1, <3>6, <4>1, <4>4, <4>5
    <3> QED
      BY <3>7, <3>8
  <2> QED
    BY <2>3, <2>4
<1> QED
  BY <1>5, <1>6, <1>7, <1>8, <1>9 DEF Evidence

(* Accounting for a cut-off run changes nothing but the usage of its attempts. *)
LEMMA AccountedFields ==
    ASSUME side \in Side, NEW r \in Runs, NEW q \in Queue
    PROVE  LET u == Accounted(r, q)
           IN /\ u \in Queue
              /\ \A f \in Files :
                   /\ Len(u[f].history) = Len(q[f].history)
                   /\ \A n \in Numbers(q[f]) :
                        /\ u[f].history[n].exec = q[f].history[n].exec
                        /\ u[f].history[n].usage =
                             IF q[f].history[n].exec = r /\ q[f].history[n].path
                             THEN Recorded(<<f, n>>) ELSE q[f].history[n].usage
<1> SUFFICES ASSUME NEW f \in Files
             PROVE  LET u == Accounted(r, q)[f].history
                    IN /\ Len(u) = Len(q[f].history)
                       /\ \A n \in Numbers(q[f]) :
                            /\ u[n].exec = q[f].history[n].exec
                            /\ u[n].usage =
                                 IF q[f].history[n].exec = r /\ q[f].history[n].path
                                 THEN Recorded(<<f, n>>) ELSE q[f].history[n].usage
  BY AccountedType
<1> DEFINE h == q[f].history
           a(n) == IF h[n].exec = r /\ h[n].path
                   THEN [h[n] EXCEPT !.usage = Recorded(<<f, n>>)] ELSE h[n]
           c == [n \in DOMAIN h |-> a(n)]
           u == [q[f] EXCEPT !.history = c]
<1>1. q[f] \in Entry /\ h \in Seq(Attempt) /\ Numbers(q[f]) = DOMAIN h
      /\ \A n \in DOMAIN h : h[n] \in Attempt
  BY TaskFacts DEF Queue
<1>2. \A n \in DOMAIN h :
        /\ a(n).exec = h[n].exec
        /\ a(n).usage = IF h[n].exec = r /\ h[n].path THEN Recorded(<<f, n>>)
                                                      ELSE h[n].usage
  BY <1>1 DEF Attempt
<1>3. Accounted(r, q)[f] = u
  BY DEF Accounted
<1> HIDE DEF a
<1>4. \A n \in DOMAIN h : c[n] = a(n)
  OBVIOUS
<1>5. DOMAIN c = DOMAIN h
  OBVIOUS
<1> HIDE DEF c
<1>6. u.history = c
  BY <1>1 DEF Entry, Task
<1>7. Accounted(r, q)[f] \in Entry
  BY AccountedType DEF Queue
<1>8. Len(c) = Len(h)
  <2>1. c \in Seq(Attempt)
    BY <1>3, <1>6, <1>7, EntryFields
  <2>2. DOMAIN c = 1 .. Len(c) /\ DOMAIN h = 1 .. Len(h)
        /\ Len(c) \in Nat /\ Len(h) \in Nat
    BY <1>1, <2>1
  <2>3. ASSUME NEW m \in Nat, NEW n \in Nat, 1 .. m = 1 .. n PROVE m <= n
    <3>1. m # 0 => m \in 1 .. m
      OBVIOUS
    <3> QED
      BY <2>3, <3>1
  <2>4. 1 .. Len(c) = 1 .. Len(h) /\ 1 .. Len(h) = 1 .. Len(c)
    BY <1>5, <2>2
  <2>5. Len(c) <= Len(h) /\ Len(h) <= Len(c)
    BY <2>2, <2>3, <2>4
  <2> QED
    BY <2>2, <2>5
<1> QED
  BY <1>1, <1>2, <1>3, <1>4, <1>6, <1>8

LEMMA AccountedFits ==
    ASSUME side \in Side, NEW r \in Runs, NEW q \in Queue, Fits(q)
    PROVE  Fits(Accounted(r, q))
<1>1. ASSUME NEW f \in Files
      PROVE  /\ Numbers(Accounted(r, q)[f]) = Numbers(q[f])
             /\ \A n \in Numbers(q[f]) :
                  Accounted(r, q)[f].history[n].exec = q[f].history[n].exec
  BY AccountedFields DEF Numbers
<1> QED
  BY <1>1 DEF Fits, FitsTask

LEMMA SettleEvidence ==
    ASSUME IInv, Course, Evidence, NEW r \in Runs, Settle(r) PROVE Evidence'
<1> DEFINE tasks == Accounted(r, mem.tasks)
<1>1. /\ mem.pc = "load" /\ mem.active.id = NoRun
      /\ queue' = queue /\ side' = side
      /\ rec[r].status = "running" /\ tasks \in Queue
      /\ Completes(r, "stopped", rec[r].start, tasks)
      /\ \/ mem' = mem /\ log' = log
         \/ mem' = Idle /\ LoadErrorLogged
         \/ EndsSeen(log) /\ LogsAs(log)
  BY SettleEffect
<1>2. Kept
  BY SettleStep
<1>3. Fits(tasks)
  BY AccountedFits, EvidenceParts, Parts
<1>4. UnderWay = NoRun
  BY <1>1, UnderWayIs
<1>5. /\ log.mixed \subseteq log'.mixed /\ ~ Busy' /\ ~ Busy
      /\ mem'.tasks \in {mem.tasks, Closed.tasks}
      /\ \A k \in Runs : log'.shown[k] = log.shown[k]
  <2>1. CASE mem' = mem /\ log' = log
    BY <1>1, <2>1 DEF Busy
  <2>2. CASE mem' = Idle /\ LoadErrorLogged
    BY <1>1, <2>2, IdleType DEF Busy, LoadErrorLogged
  <2>3. CASE EndsSeen(log) /\ LogsAs(log)
    BY <1>1, <1>4, <2>3, ClosedType DEF EndsSeen, LogsAs, Busy, NoRun, Runs
  <2> QED
    BY <1>1, <2>1, <2>2, <2>3
<1> HIDE DEF tasks
<1>6. "stopped" \in Final
  BY DEF Final
<1> QED
  BY <1>1, <1>2, <1>3, <1>5, <1>6, CompletesEvidence

LEMMA ArchiveEvidence == ASSUME IInv, Course, Evidence, Archive PROVE Evidence'
<1> DEFINE r == mem.active.id
<1>1. /\ mem.pc \in {"idle", "archive"} /\ r \in Runs
      /\ queue' = queue /\ side' = side /\ mem.active.status \in Final
      /\ Completes(r, mem.active.status, mem.active.start, mem.tasks)
      /\ \/ /\ mem'.pc = "idle" /\ mem'.tasks = mem.tasks /\ log' = log
         \/ /\ Stands(mem', mem.tasks, "idle", {})
            /\ LogsAs(log) /\ log'.shown = log.shown
         \/ EndsSeen(log) /\ LogsAs(log)
  BY CourseParts, ArchiveEffect
<1>2. Kept
  BY ArchiveStep
<1>3. UnderWay = NoRun
  BY <1>1, UnderWayIs
<1>4. rec[r].status = "running" \/ Settled(rec[r])
  BY <1>1, CourseParts DEF Starts, Settled, Kinds
<1>5. /\ log.mixed \subseteq log'.mixed /\ ~ Busy' /\ ~ Busy
      /\ mem'.tasks \in {mem.tasks, Closed.tasks}
      /\ \A k \in Runs : log'.shown[k] = log.shown[k]
  <2>1. CASE mem'.pc = "idle" /\ mem'.tasks = mem.tasks /\ log' = log
    BY <1>1, <2>1 DEF Busy
  <2>2. CASE Stands(mem', mem.tasks, "idle", {}) /\ LogsAs(log) /\ log'.shown = log.shown
    BY <1>1, <2>2 DEF Busy, Stands, LogsAs
  <2>3. CASE EndsSeen(log) /\ LogsAs(log)
    BY <1>1, <1>3, <2>3, ClosedType DEF EndsSeen, LogsAs, Busy, NoRun, Runs
  <2> QED
    BY <1>1, <2>1, <2>2, <2>3
<1> QED
  BY <1>1, <1>2, <1>4, <1>5, CompletesEvidence, EvidenceParts, Parts

LEMMA BeginEvidence == ASSUME IInv, Course, Evidence, Begin PROVE Evidence'
<1>1. /\ mem.pc = "idle" /\ mem.active.id = NoRun
      /\ queue' = queue /\ side' = side /\ evid' = evid
  BY BeginEffect
<1>2. PICK r \in Runs :
        /\ rec[r].status = "none"
        /\ \A e \in Runs \ {r} : rec'[e] = rec[e]
        /\ BeginsRun(r) \/ BeginBreaks(r)
  BY BeginEffect
<1>3. /\ mem'.tasks \in {mem.tasks, Closed.tasks} /\ log.mixed \subseteq log'.mixed
      /\ rec'[r].status \in {"none", "empty", "running"}
      /\ \A k \in Runs \ {r} : log'.shown[k] = log.shown[k]
      /\ Busy' => mem'.active.id = r
  <2>1. CASE BeginsRun(r)
    BY <2>1 DEF BeginsRun
  <2>2. CASE BeginBreaks(r)
    BY <1>1, <2>2, ClosedType DEF BeginBreaks, LoadErrorLogged, LogsAs, Busy
  <2> QED
    BY <1>2, <2>1, <2>2
<1>4. Fits(queue)' /\ Fits(mem.tasks)'
  BY <1>1, <1>3, EvidenceParts, FitsStays, ClosedFits, ThenFits
<1>5. \A i \in Ids : evid[r][i] = 0
  BY <1>2, EvidenceParts DEF NoCopies
<1>6. NoCopies'
  BY <1>1, <1>2, <1>3, <1>5, EvidenceParts DEF NoCopies
<1>7. OpenRuns = {}
  BY <1>1, OpenIsActive DEF Down
<1>8. OpenRuns' \subseteq {r}
  BY <1>2, <1>3, <1>7 DEF OpenRuns
<1>9. Partial'
  BY <1>1, <1>5, <1>8 DEF Partial
<1>10. Shown'
  <2>1. CASE BeginsRun(r)
    BY <2>1 DEF BeginsRun, Shown, Busy
  <2>2. CASE mem' = mem /\ LoadErrorLogged
    <3>1. OpenRuns' = {}
      BY <2>2, BeginCourse, CourseParts, LoadErrorCloses DEF Course
    <3> QED
      BY <3>1 DEF Shown
  <2>3. CASE \A k \in Runs : log'.shown[k] = IF k = r THEN side.version
                                                      ELSE log.shown[k]
    <3>1. log'.shown[r] = side'.version
      BY <1>1, <1>2, <2>3
    <3> QED
      BY <1>8, <3>1 DEF Shown
  <2> QED
    BY <1>2, <2>1, <2>2, <2>3 DEF BeginBreaks
<1>11. EvidenceOfTheRun'
  <2>1. ASSUME NEW k \in Runs, Finished(k)'
        PROVE  /\ Finished(k) /\ rec'[k] = rec[k] /\ log'.shown[k] = log.shown[k]
    <3>1. k # r
      BY <1>3, <2>1 DEF Finished, Final
    <3> QED
      BY <1>2, <1>3, <2>1, <3>1 DEF Finished
  <2> QED
    BY <1>1, <1>3, <2>1, EvidenceParts, ShowsAsBefore
<1> QED
  BY <1>4, <1>6, <1>9, <1>10, <1>11 DEF Evidence

LEMMA SpendEvidence ==
    ASSUME IInv, Course, Evidence, NEW f \in Files, Spend(f) PROVE Evidence'
<1>1. /\ mem.pc = "files" /\ UNCHANGED <<queue, rec, evid>>
      /\ side'.version = side.version
      /\ \E u \in Entry : \E a \in Attempt :
           /\ LastAs(mem.tasks[f], u, a)
           /\ a.exec = Last(mem.tasks[f]).exec
           /\ With(f, u) \in Queue
           /\ Stands(mem', With(f, u), "files", mem.live)
      /\ log'.mixed = log.mixed /\ log'.shown = log.shown
  BY SpendEffect
<1>2. PICK u \in Entry, a \in Attempt :
        /\ LastAs(mem.tasks[f], u, a)
        /\ a.exec = Last(mem.tasks[f]).exec
        /\ With(f, u) \in Queue
        /\ Stands(mem', With(f, u), "files", mem.live)
  BY <1>1
<1>3. /\ mem'.tasks = With(f, u) /\ mem'.active.id = mem.active.id
      /\ Busy' /\ Busy /\ ~ Down /\ OpenRuns' = OpenRuns
  BY <1>1, <1>2 DEF Stands, Busy, OpenRuns, Down
<1>4. Fits(queue)'
  BY <1>1, EvidenceParts, FitsStays, ThenFits
<1>5. FitsThen(With(f, u))
  <2>1. Fits(With(f, u))
    <3>1. Grows(mem.tasks, With(f, u), mem.active.id)
      BY <1>2, ChangedGrows
    <3>2. \A i \in Ids : evid[mem.active.id][i] = 0
      BY <1>3, UnderWayIs, EvidenceParts DEF NoCopies
    <3>3. ASSUME NEW g \in Files, NEW n \in Numbers(With(f, u)[g]),
                 With(f, u)[g].history[n].exec \notin log.mixed,
                 evid[With(f, u)[g].history[n].exec][<<g, n>>] # 0
          PROVE  evid[With(f, u)[g].history[n].exec][<<g, n>>]
                   = side.version[<<g, n>>] + 1
      <4>1. <<g, n>> \in Ids
        BY <1>2, FileFacts
      <4>2. /\ n \in Numbers(mem.tasks[g])
            /\ With(f, u)[g].history[n].exec = mem.tasks[g].history[n].exec
        BY <3>1, <3>2, <3>3, <4>1 DEF Grows, GrowsTask
      <4> QED
        BY <3>3, <4>2, EvidenceParts DEF Fits, FitsTask
    <3> QED
      BY <3>3 DEF Fits, FitsTask
  <2> QED
    BY <1>1, <2>1, FitsStays
<1>6. Fits(mem.tasks)'
  BY <1>3, <1>5, ThenFits
<1>7. NoCopies' /\ Partial' /\ Shown'
  BY <1>1, <1>3, EvidenceParts DEF NoCopies, Partial, Shown
<1>8. EvidenceOfTheRun'
  BY <1>1, EvidenceParts, ShowsAsBefore DEF Finished
<1> QED
  BY <1>4, <1>6, <1>7, <1>8 DEF Evidence

LEMMA InitEvidence == Init => Evidence
<1> SUFFICES ASSUME Init PROVE Evidence
  OBVIOUS
<1>1. \A r \in Runs : rec[r].status = "none" /\ \A i \in Ids : evid[r][i] = 0
  BY DEF Init, NoRecord
<1>2. mem.tasks = Closed.tasks /\ queue = Closed.tasks
  BY DEF Init, Closed
<1>3. \A f \in Files : Closed.tasks[f] = NewTask
  BY DEF Closed
<1>4. Numbers(NewTask) = {}
  BY DEF Numbers, NewTask
<1>5. Fits(queue) /\ Fits(mem.tasks)
  BY <1>2, <1>3, <1>4 DEF Fits, FitsTask
<1>6. OpenRuns = {}
  BY <1>1 DEF OpenRuns
<1> QED
  BY <1>1, <1>5, <1>6
  DEF Evidence, NoCopies, Partial, Shown, EvidenceOfTheRun, Finished, Final

LEMMA NextEvidence == ASSUME IInv, Course, Evidence, [Next]_vars PROVE Evidence'
<1>1. CASE UNCHANGED vars
  <2>1. UNCHANGED <<mem, queue, side, rec, evid, log>>
    BY <1>1 DEF vars
  <2>2. Fits(queue)' /\ Fits(mem.tasks)'
    BY <2>1, EvidenceParts DEF Fits, FitsTask, Numbers
  <2>3. NoCopies' /\ Partial' /\ Shown'
    BY <2>1, EvidenceParts DEF NoCopies, Partial, Shown, Busy, OpenRuns
  <2>4. EvidenceOfTheRun'
    BY <2>1, EvidenceParts DEF EvidenceOfTheRun, Finished
  <2> QED
    BY <2>2, <2>3, <2>4 DEF Evidence
<1>2. CASE Next
  BY <1>2, OpenEvidence, SettleEvidence, LoadEvidence, BeginEvidence,
     RecoverRunEvidence, PrepareFailsEvidence, BeginAttemptEvidence, StageEvidence,
     AttachEvidence, SpendEvidence, FinishAttemptEvidence, EndRunEvidence,
     ArchiveEvidence, RetryEvidence, RetriedEvidence, LeaveEvidence DEF Next
<1> QED
  BY <1>1, <1>2

-----------------------------------------------------------------------------
(* Counting turns. *)

Counts == [Ids -> Nat]

LEMMA TurnsIn ==
    ASSUME NEW u \in Counts, NEW x
    PROVE  x \in Turns(u) <=>
             \E f \in Files : \E n \in 1 .. MaxAttempts : \E k \in 1 .. u[<<f, n>>] :
               x = <<f, <<n, k>>>>
<1> DEFINE D(f, n) == 1 .. u[<<f, n>>]
           all == UNION {{f} \X UNION {{n} \X D(f, n) : n \in 1 .. MaxAttempts} :
                         f \in Files}
<1>1. Turns(u) = all
  BY DEF Turns
<1>2. x \in all <=> \E f \in Files : \E n \in 1 .. MaxAttempts : \E k \in D(f, n) :
                      x = <<f, <<n, k>>>>
  <2> HIDE DEF D
  <2> QED
    OBVIOUS
<1> HIDE DEF all
<1> QED
  BY <1>1, <1>2

LEMMA TurnsAreFinite == ASSUME NEW u \in Counts PROVE IsFiniteSet(Turns(u))
<1> DEFINE Of(f, n) == {n} \X (1 .. u[<<f, n>>])
           Parted(f) == {Of(f, n) : n \in 1 .. MaxAttempts}
           Whole(f) == {f} \X UNION Parted(f)
           all == {Whole(f) : f \in Files}
<1>1. ASSUME NEW f \in Files PROVE IsFiniteSet(Whole(f))
  <2> DEFINE g == [n \in 1 .. MaxAttempts |-> Of(f, n)]
  <2>1. g \in Surjection(1 .. MaxAttempts, Parted(f))
    BY DEF Surjection
  <2>2. IsFiniteSet(Parted(f))
    BY <2>1, FS_Surjection, UpToFinite, Bounds
  <2>3. ASSUME NEW n \in 1 .. MaxAttempts PROVE IsFiniteSet(Of(f, n))
    <3>1. <<f, n>> \in Ids
      BY DEF Ids
    <3>2. u[<<f, n>>] \in Nat
      BY <3>1 DEF Counts
    <3> QED
      BY <3>2, UpToFinite, PairsFinite
  <2>4. \A p \in Parted(f) : IsFiniteSet(p)
    BY <2>3
  <2> HIDE DEF Parted
  <2>5. IsFiniteSet(UNION Parted(f))
    BY <2>2, <2>4, FS_UNION
  <2> QED
    BY <2>5, PairsFinite
<1> DEFINE g == [f \in Files |-> Whole(f)]
<1>2. g \in Surjection(Files, all)
  BY DEF Surjection
<1>3. IsFiniteSet(all)
  BY <1>2, FS_Surjection
<1>4. \A p \in all : IsFiniteSet(p)
  BY <1>1
<1> QED
  BY <1>3, <1>4, FS_UNION DEF Turns

LEMMA SizeType == ASSUME NEW u \in Counts PROVE Size(u) \in Nat
  BY TurnsAreFinite, FS_CardinalityType DEF Size

LEMMA SizeGrows ==
    ASSUME NEW u \in Counts, NEW v \in Counts, \A i \in Ids : u[i] <= v[i]
    PROVE  Size(u) <= Size(v)
<1>1. ASSUME NEW x \in Turns(u) PROVE x \in Turns(v)
  <2>1. PICK f \in Files, n \in 1 .. MaxAttempts, k \in Int :
          /\ k \in 1 .. u[<<f, n>>]
          /\ x = <<f, <<n, k>>>>
    BY TurnsIn
  <2>2. <<f, n>> \in Ids
    BY DEF Ids
  <2>3. k \in 1 .. v[<<f, n>>]
    BY <2>1, <2>2 DEF Counts
  <2> QED
    BY <2>1, <2>3, TurnsIn
<1> QED
  BY <1>1, TurnsAreFinite, FS_Subset DEF Size

LEMMA SizeMore ==
    ASSUME NEW u \in Counts, NEW v \in Counts, NEW i \in Ids,
           v[i] = u[i] + 1, \A j \in Ids \ {i} : v[j] = u[j]
    PROVE  Size(v) = Size(u) + 1
<1>1. PICK f \in Files, n \in 1 .. MaxAttempts : i = <<f, n>>
  BY DEF Ids
<1> DEFINE new == <<f, <<n, u[i] + 1>>>>
<1>2. u[i] \in Nat
  BY DEF Counts
<1>3. new \notin Turns(u)
  <2> SUFFICES ASSUME new \in Turns(u) PROVE FALSE
    OBVIOUS
  <2>1. PICK g \in Files, m \in 1 .. MaxAttempts, k \in Int :
          k \in 1 .. u[<<g, m>>] /\ new = <<g, <<m, k>>>>
    BY TurnsIn
  <2>2. g = f /\ m = n /\ k = u[i] + 1
    BY <2>1
  <2>3. k \in 1 .. u[i]
    BY <1>1, <2>1, <2>2
  <2> QED
    BY <1>2, <2>2, <2>3
<1>4. Turns(v) = Turns(u) \cup {new}
  <2>1. ASSUME NEW x \in Turns(v) PROVE x \in Turns(u) \cup {new}
    <3>1. PICK g \in Files, m \in 1 .. MaxAttempts, k \in Int :
          /\ k \in 1 .. v[<<g, m>>]
          /\ x = <<g, <<m, k>>>>
      BY TurnsIn
    <3>2. <<g, m>> \in Ids
      BY DEF Ids
    <3>3. CASE k \in 1 .. u[<<g, m>>]
      BY <3>1, <3>3, TurnsIn
    <3>4. CASE k \notin 1 .. u[<<g, m>>]
      <4>1. <<g, m>> = i
        BY <3>1, <3>2, <3>4
      <4>2. g = f /\ m = n /\ k = u[i] + 1
        BY <1>1, <1>2, <3>1, <3>4, <4>1
      <4> QED
        BY <3>1, <4>2
    <3> QED
      BY <3>3, <3>4
  <2>2. ASSUME NEW x \in Turns(u) PROVE x \in Turns(v)
    <3>1. PICK g \in Files, m \in 1 .. MaxAttempts, k \in Int :
          /\ k \in 1 .. u[<<g, m>>]
          /\ x = <<g, <<m, k>>>>
      BY TurnsIn
    <3>2. <<g, m>> \in Ids
      BY DEF Ids
    <3>3. k \in 1 .. v[<<g, m>>]
      <4>1. u[<<g, m>>] \in Nat
        BY <3>2 DEF Counts
      <4>2. v[<<g, m>>] \in {u[<<g, m>>], u[<<g, m>>] + 1}
        BY <3>2
      <4> QED
        BY <3>1, <4>1, <4>2
    <3> QED
      BY <3>1, <3>3, TurnsIn
  <2>3. new \in Turns(v)
    <3>1. u[i] + 1 \in 1 .. v[<<f, n>>]
      BY <1>1, <1>2
    <3> QED
      BY <3>1, TurnsIn
  <2> QED
    BY <2>1, <2>2, <2>3
<1> HIDE DEF new
<1> QED
  BY <1>3, <1>4, TurnsAreFinite, FS_AddElement DEF Size

(* The usage in the queue, by attempt. *)
LEMMA UsedFields ==
    ASSUME NEW q \in Queue
    PROVE  /\ Used(q) \in Counts
           /\ \A f \in Files : \A n \in 1 .. MaxAttempts :
                Used(q)[<<f, n>>] = IF n \in Numbers(q[f]) THEN q[f].history[n].usage
                                                           ELSE 0
<1>1. ASSUME NEW f \in Files, NEW n \in 1 .. MaxAttempts
      PROVE  /\ Used(q)[<<f, n>>] = IF n \in Numbers(q[f]) THEN q[f].history[n].usage
                                                           ELSE 0
             /\ Used(q)[<<f, n>>] \in Nat
  <2>1. <<f, n>> \in Ids
    BY DEF Ids
  <2>2. Len(q[f].history) \in 0 .. MaxAttempts
    BY FileFacts
  <2>3. <<f, n>> \in IdsIn(q) <=> n \in Numbers(q[f])
    BY <2>1, <2>2, Bounds DEF IdsIn, Numbers
  <2>4. Used(q)[<<f, n>>] = IF n \in Numbers(q[f]) THEN q[f].history[n].usage ELSE 0
    BY <2>1, <2>3 DEF Used, At
  <2> QED
    BY <2>4, FileFacts
<1>2. Used(q) = [i \in Ids |-> Used(q)[i]]
  BY DEF Used
<1>3. \A i \in Ids : Used(q)[i] \in Nat
  BY <1>1 DEF Ids
<1> QED
  BY <1>1, <1>2, <1>3 DEF Counts

LEMMA TotalIsSize == ASSUME NEW q \in Queue PROVE Total(q) = Size(Used(q))
<1> DEFINE all == UNION {{f} \X TurnsOf(q[f].history) : f \in Files}
<1>1. ASSUME NEW x PROVE x \in all <=> x \in Turns(Used(q))
  <2>1. x \in all <=> \E f \in Files : \E n \in DOMAIN q[f].history :
                        \E k \in 1 .. q[f].history[n].usage : x = <<f, <<n, k>>>>
    BY DEF TurnsOf
  <2>2. ASSUME NEW f \in Files
        PROVE  /\ DOMAIN q[f].history = Numbers(q[f])
               /\ Numbers(q[f]) \subseteq 1 .. MaxAttempts
    <3>1. q[f] \in Entry
      BY DEF Queue
    <3> QED
      BY <3>1, TaskFacts
  <2> HIDE DEF all
  <2>3. ASSUME x \in all PROVE x \in Turns(Used(q))
    <3>1. PICK f \in Files, n \in 1 .. MaxAttempts, k \in Int :
          /\ n \in Numbers(q[f]) /\ k \in 1 .. q[f].history[n].usage
          /\ x = <<f, <<n, k>>>>
      BY <2>1, <2>2, <2>3
    <3>2. n \in 1 .. MaxAttempts /\ k \in 1 .. Used(q)[<<f, n>>]
      BY <2>2, <3>1, UsedFields
    <3> QED
      BY <3>1, <3>2, UsedFields, TurnsIn
  <2>4. ASSUME x \in Turns(Used(q)) PROVE x \in all
    <3>1. PICK f \in Files, n \in 1 .. MaxAttempts, k \in Int :
          /\ k \in 1 .. Used(q)[<<f, n>>]
          /\ x = <<f, <<n, k>>>>
      BY <2>4, UsedFields, TurnsIn
    <3>2. n \in Numbers(q[f])
      <4>1. Used(q)[<<f, n>>] # 0
        BY <3>1
      <4> QED
        BY <4>1, UsedFields
    <3>3. k \in 1 .. q[f].history[n].usage
      BY <3>1, <3>2, UsedFields
    <3> QED
      BY <2>1, <2>2, <3>1, <3>2, <3>3
  <2> QED
    BY <2>3, <2>4
<1> HIDE DEF all
<1>2. all = Turns(Used(q))
  BY <1>1
<1> QED
  BY <1>2 DEF all, Total, Size

(* The turns spent in all. *)
LEMMA SpentFinite ==
    ASSUME NEW s \in [Runs -> Nat]
    PROVE  IsFiniteSet(UNION {{r} \X (1 .. s[r]) : r \in Runs})
<1> DEFINE Of(r) == {r} \X (1 .. s[r])
           all == {Of(r) : r \in Runs}
           g == [r \in Runs |-> Of(r)]
<1>1. IsFiniteSet(Runs)
  BY UpToFinite DEF Runs, BoundAssumption
<1>2. g \in Surjection(Runs, all)
  BY DEF Surjection
<1>3. IsFiniteSet(all)
  BY <1>1, <1>2, FS_Surjection
<1>4. \A p \in all : IsFiniteSet(p)
  <2>1. ASSUME NEW r \in Runs PROVE IsFiniteSet(Of(r))
    <3>1. s[r] \in Nat
      OBVIOUS
    <3> QED
      BY <3>1, UpToFinite, PairsFinite
  <2> QED
    BY <2>1
<1> QED
  BY <1>3, <1>4, FS_UNION

LEMMA SpentType == ASSUME log \in Log PROVE SpentInAll \in Nat
<1>1. log.spent \in [Runs -> Nat]
  BY DEF Log
<1> QED
  BY <1>1, SpentFinite, FS_CardinalityType DEF SpentInAll

LEMMA SpentMore ==
    ASSUME log \in Log, NEW r \in Runs, log'.spent[r] = log.spent[r] + 1,
           \A k \in Runs \ {r} : log'.spent[k] = log.spent[k]
    PROVE  SpentInAll' = SpentInAll + 1
<1> DEFINE old == UNION {{k} \X (1 .. log.spent[k]) : k \in Runs}
           now == UNION {{k} \X (1 .. log'.spent[k]) : k \in Runs}
           new == <<r, log.spent[r] + 1>>
<1>1. log.spent \in [Runs -> Nat] /\ log.spent[r] \in Nat
  BY DEF Log
<1>2. IsFiniteSet(old)
  BY <1>1, SpentFinite
<1>3. \A x : x \in old <=> \E k \in Runs : \E n \in 1 .. log.spent[k] : x = <<k, n>>
  OBVIOUS
<1>4. \A x : x \in now <=> \E k \in Runs : \E n \in 1 .. log'.spent[k] : x = <<k, n>>
  OBVIOUS
<1>5. SpentInAll = Cardinality(old) /\ SpentInAll' = Cardinality(now)
  BY DEF SpentInAll
<1> HIDE DEF old, now
<1>6. new \notin old
  BY <1>1, <1>3
<1>7. now = old \cup {new}
  <2>1. ASSUME NEW x \in now PROVE x \in old \cup {new}
    <3>1. PICK k \in Runs, n \in Int : n \in 1 .. log'.spent[k] /\ x = <<k, n>>
      BY <1>4
    <3>2. CASE n \in 1 .. log.spent[k]
      BY <1>3, <3>1, <3>2
    <3>3. CASE n \notin 1 .. log.spent[k]
      <4>1. k = r
        BY <3>1, <3>3
      <4>2. n = log.spent[r] + 1
        BY <1>1, <3>1, <3>3, <4>1
      <4> QED
        BY <3>1, <4>1, <4>2
    <3> QED
      BY <3>2, <3>3
  <2>2. ASSUME NEW x \in old PROVE x \in now
    <3>1. PICK k \in Runs, n \in Int : n \in 1 .. log.spent[k] /\ x = <<k, n>>
      BY <1>3
    <3>2. n \in 1 .. log'.spent[k]
      <4>1. log.spent[k] \in Nat /\ log'.spent[k] \in {log.spent[k], log.spent[k] + 1}
        BY <1>1
      <4> QED
        BY <3>1, <4>1
    <3> QED
      BY <1>4, <3>1, <3>2
  <2>3. new \in now
    BY <1>1, <1>4
  <2> QED
    BY <2>1, <2>2, <2>3
<1> HIDE DEF new
<1> QED
  BY <1>2, <1>5, <1>6, <1>7, FS_AddElement

-----------------------------------------------------------------------------
(* What the books hold. *)

LEMMA BooksParts ==
    ASSUME Books
    PROVE  /\ BookedIn(queue) /\ Balance /\ Priors /\ Unspent /\ Began /\ Works
           /\ Over /\ Due /\ ChargedToItsRun
           /\ mem.pc # "closed" => BookedIn(mem.tasks) /\ Behind
  BY DEF Books

LEMMA SinceIs ==
    ASSUME NEW n \in Nat, NEW p \in Nat
    PROVE  Since(p + n, p) = n /\ (n <= p => Since(n, p) = 0)
  BY DEF Since

LEMMA CheckpointFields ==
    ASSUME side \in Side
    PROVE  /\ Checkpoints \in Counts
           /\ \A f \in Files : \A n \in 1 .. MaxAttempts :
                /\ <<f, n>> \in Ids /\ Recorded(<<f, n>>) \in Nat
                /\ Checkpoints[<<f, n>>] = Recorded(<<f, n>>)
<1>1. \A i \in Ids : Recorded(i) \in Nat
  BY RecordedType
<1>2. Checkpoints \in Counts
  BY <1>1 DEF Checkpoints, Counts
<1> QED
  BY <1>1, <1>2 DEF Checkpoints, Ids

LEMMA EqualCounts ==
    ASSUME NEW u \in Counts, NEW v \in Counts,
           \A f \in Files : \A n \in 1 .. MaxAttempts : u[<<f, n>>] = v[<<f, n>>]
    PROVE  u = v
<1>1. \A i \in Ids : u[i] = v[i]
  BY DEF Ids
<1> QED
  BY <1>1 DEF Counts

(* A queue with the usage of every checkpoint. *)
LEMMA FullTotal ==
    ASSUME side \in Side, NEW q \in Queue, BookedIn(q),
           \A f \in Files : Current(f, q[f])
    PROVE  Total(q) = Size(Checkpoints)
<1>1. ASSUME NEW f \in Files, NEW n \in 1 .. MaxAttempts
      PROVE  Used(q)[<<f, n>>] = Checkpoints[<<f, n>>]
  <2>1. Booked(f, q[f]) /\ Current(f, q[f])
    BY DEF BookedIn
  <2>2. n \notin Numbers(q[f]) => Recorded(<<f, n>>) = 0
    BY <2>1 DEF Booked
  <2>3. n \in Numbers(q[f]) => q[f].history[n].usage = Recorded(<<f, n>>)
    BY <2>1 DEF Current
  <2> QED
    BY <2>2, <2>3, UsedFields, CheckpointFields
<1>2. Used(q) = Checkpoints
  BY <1>1, UsedFields, CheckpointFields, EqualCounts
<1> QED
  BY <1>2, TotalIsSize

LEMMA AccountedTotal ==
    ASSUME side \in Side, NEW q \in Queue, NEW r \in Runs, BookedIn(q),
           \A f \in Files : OwnOrCurrent(f, q[f], r)
    PROVE  Total(Accounted(r, q)) = Size(Checkpoints)
<1> DEFINE u == Accounted(r, q)
<1>1. ASSUME NEW f \in Files, NEW n \in 1 .. MaxAttempts
      PROVE  Used(u)[<<f, n>>] = Checkpoints[<<f, n>>]
  <2>1. Booked(f, q[f]) /\ OwnOrCurrent(f, q[f], r)
    BY DEF BookedIn
  <2>2. n \notin Numbers(q[f]) => Recorded(<<f, n>>) = 0
    BY <2>1 DEF Booked
  <2>3. u \in Queue /\ Numbers(u[f]) = Numbers(q[f])
    BY AccountedFields DEF Numbers
  <2>4. n \in Numbers(q[f]) => u[f].history[n].usage = Recorded(<<f, n>>)
    <3> SUFFICES ASSUME n \in Numbers(q[f])
                 PROVE  u[f].history[n].usage = Recorded(<<f, n>>)
      OBVIOUS
    <3> DEFINE a == q[f].history[n]
    <3>1. u[f].history[n].usage =
            IF a.exec = r /\ a.path THEN Recorded(<<f, n>>) ELSE a.usage
      BY AccountedFields
    <3>2. (a.exec = r /\ a.path) \/ a.usage = Recorded(<<f, n>>)
      BY <2>1 DEF OwnOrCurrent
    <3> HIDE DEF a, u
    <3> QED
      BY <3>1, <3>2
  <2> HIDE DEF u
  <2> QED
    BY <2>2, <2>3, <2>4, UsedFields, CheckpointFields
<1>2. u \in Queue
  BY AccountedFields
<1> HIDE DEF u
<1>3. Used(u) = Checkpoints
  BY <1>1, <1>2, UsedFields, CheckpointFields, EqualCounts
<1> QED
  BY <1>2, <1>3, TotalIsSize DEF u

(* A queue without attempts of the run that is accounted for. *)
LEMMA ForeignTotal ==
    ASSUME side \in Side, NEW q \in Queue, NEW r \in Runs, Foreign(q, r)
    PROVE  Total(Accounted(r, q)) = Total(q)
<1> DEFINE u == Accounted(r, q)
<1>1. ASSUME NEW f \in Files, NEW n \in 1 .. MaxAttempts
      PROVE  Used(u)[<<f, n>>] = Used(q)[<<f, n>>]
  <2>1. u \in Queue /\ Numbers(u[f]) = Numbers(q[f])
    BY AccountedFields DEF Numbers
  <2>2. n \in Numbers(q[f]) => u[f].history[n].usage = q[f].history[n].usage
    BY AccountedFields DEF Foreign
  <2> HIDE DEF u
  <2> QED
    BY <2>1, <2>2, UsedFields
<1>2. u \in Queue
  BY AccountedFields
<1> HIDE DEF u
<1>3. Used(u) = Used(q)
  BY <1>1, <1>2, UsedFields, EqualCounts
<1> QED
  BY <1>2, <1>3, TotalIsSize DEF u

LEMMA TotalGrows ==
    ASSUME NEW q \in Queue, NEW t \in Queue, \A f \in Files : BehindTask(q[f], t[f])
    PROVE  Total(q) <= Total(t)
<1>1. ASSUME NEW f \in Files, NEW n \in 1 .. MaxAttempts
      PROVE  Used(q)[<<f, n>>] <= Used(t)[<<f, n>>]
  <2>1. BehindTask(q[f], t[f])
    OBVIOUS
  <2>2. Len(q[f].history) \in Nat /\ Len(t[f].history) \in Nat
    BY FileFacts, Bounds
  <2>3. CASE n \in Numbers(q[f])
    <3>1. n \in Numbers(t[f])
      BY <2>1, <2>2, <2>3 DEF BehindTask, Numbers
    <3>2. q[f].history[n].usage <= t[f].history[n].usage
      BY <2>1, <2>3 DEF BehindTask
    <3> QED
      BY <2>3, <3>1, <3>2, UsedFields
  <2>4. CASE n \notin Numbers(q[f])
    <3>1. <<f, n>> \in Ids /\ Used(t) \in Counts
      BY UsedFields DEF Ids
    <3>2. Used(t)[<<f, n>>] \in Nat
      BY <3>1 DEF Counts
    <3> QED
      BY <2>4, <3>2, UsedFields
  <2> QED
    BY <2>3, <2>4
<1>2. \A i \in Ids : Used(q)[i] <= Used(t)[i]
  BY <1>1 DEF Ids
<1> QED
  BY <1>2, UsedFields, SizeGrows, TotalIsSize

-----------------------------------------------------------------------------
(* What the attempts before the n-th one have spent. *)

Ahead(c, n) == UNION {{k} \X (1 .. c[k]) : k \in 1 .. n - 1}
Rows == [1 .. MaxAttempts -> Nat]
Row(f) == [k \in 1 .. MaxAttempts |-> Recorded(<<f, k>>)]
Places == 1 .. MaxAttempts + 1

LEMMA AheadFinite ==
    ASSUME NEW c \in Rows, NEW n \in Places PROVE IsFiniteSet(Ahead(c, n))
<1> DEFINE Of(k) == {k} \X (1 .. c[k])
           K == 1 .. n - 1
           all == {Of(k) : k \in K}
           g == [k \in K |-> Of(k)]
<1>1. IsFiniteSet(K) /\ K \subseteq 1 .. MaxAttempts
  BY UpToFinite, Bounds DEF Places
<1>2. g \in Surjection(K, all)
  BY DEF Surjection
<1>3. IsFiniteSet(all)
  BY <1>1, <1>2, FS_Surjection
<1>4. \A p \in all : IsFiniteSet(p)
  <2>1. ASSUME NEW k \in K PROVE IsFiniteSet(Of(k))
    <3>1. c[k] \in Nat
      BY <1>1 DEF Rows
    <3> QED
      BY <3>1, UpToFinite, PairsFinite
  <2> QED
    BY <2>1
<1> QED
  BY <1>3, <1>4, FS_UNION DEF Ahead

LEMMA AheadGrows ==
    ASSUME NEW c \in Rows, NEW d \in Rows, NEW m \in Places, NEW n \in Places, m <= n,
           \A k \in 1 .. m - 1 : c[k] <= d[k]
    PROVE  Cardinality(Ahead(c, m)) <= Cardinality(Ahead(d, n))
<1>1. ASSUME NEW x \in Ahead(c, m) PROVE x \in Ahead(d, n)
  <2>1. PICK k \in 1 .. m - 1 : x \in {k} \X (1 .. c[k])
    BY DEF Ahead
  <2>2. k \in 1 .. n - 1 /\ k \in 1 .. MaxAttempts
    BY Bounds DEF Places
  <2>3. c[k] \in Nat /\ d[k] \in Nat /\ c[k] <= d[k]
    BY <2>2 DEF Rows
  <2>4. x \in {k} \X (1 .. d[k])
    BY <2>1, <2>3
  <2> QED
    BY <2>2, <2>4 DEF Ahead
<1> QED
  BY <1>1, AheadFinite, FS_Subset

LEMMA AheadNext ==
    ASSUME NEW c \in Rows, NEW n \in 1 .. MaxAttempts
    PROVE  Cardinality(Ahead(c, n + 1)) = Cardinality(Ahead(c, n)) + c[n]
<1> DEFINE new == {n} \X (1 .. c[n])
<1>1. n \in Places /\ n + 1 \in Places /\ n + 1 - 1 = n /\ c[n] \in Nat
  BY Bounds DEF Places, Rows
<1>2. IsFiniteSet(Ahead(c, n))
  BY <1>1, AheadFinite
<1>3. IsFiniteSet(new) /\ Cardinality(new) = c[n]
  <2>1. IsFiniteSet({n}) /\ Cardinality({n}) = 1
    BY FS_Singleton
  <2> DEFINE m == c[n]
  <2>2. IsFiniteSet(1 .. m) /\ Cardinality(1 .. m) = m
    <3>1. m \in Nat /\ m \in Int /\ 1 \in Int
      BY <1>1
    <3> HIDE DEF m
    <3>2. /\ IsFiniteSet(1 .. m)
          /\ Cardinality(1 .. m) = IF 1 > m THEN 0 ELSE m - 1 + 1
      BY <3>1, FS_Interval
    <3> QED
      BY <3>1, <3>2
  <2>3. m \in Nat
    BY <1>1
  <2> HIDE DEF m
  <2>4. /\ IsFiniteSet({n} \X (1 .. m))
        /\ Cardinality({n} \X (1 .. m)) = Cardinality({n}) * Cardinality(1 .. m)
    BY <2>1, <2>2, FS_Product
  <2>5. Cardinality({n} \X (1 .. m)) = m
    BY <2>1, <2>2, <2>3, <2>4
  <2> QED
    BY <2>4, <2>5 DEF m
<1>4. Ahead(c, n + 1) = Ahead(c, n) \cup new
  <2>1. 1 .. n + 1 - 1 = (1 .. n - 1) \cup {n}
    BY <1>1
  <2>2. Ahead(c, n + 1) = UNION {{k} \X (1 .. c[k]) : k \in (1 .. n - 1) \cup {n}}
    BY <2>1 DEF Ahead
  <2> QED
    BY <2>2 DEF Ahead
<1>5. Ahead(c, n) \cap new = {}
  BY DEF Ahead
<1> HIDE DEF new
<1>6. Cardinality(Ahead(c, n) \cup new)
        = Cardinality(Ahead(c, n)) + Cardinality(new) - Cardinality(Ahead(c, n) \cap new)
  BY <1>2, <1>3, FS_Union
<1>7. Cardinality(Ahead(c, n)) \in Nat /\ Cardinality({}) = 0
  BY <1>2, FS_CardinalityType, FS_EmptySet
<1> DEFINE a == Cardinality(Ahead(c, n))
           m == c[n]
<1>8. Cardinality(Ahead(c, n + 1)) = a + m - 0
  BY <1>3, <1>4, <1>5, <1>6, <1>7
<1>9. a \in Nat /\ m \in Nat
  BY <1>1, <1>7
<1> HIDE DEF a, m
<1>10. a + m - 0 = a + m
  BY <1>9
<1> QED
  BY <1>8, <1>10 DEF a, m

LEMMA BeforeIs ==
    ASSUME side \in Side, NEW f \in Files
    PROVE  /\ Row(f) \in Rows
           /\ \A n \in Places : /\ Before(f, n) = Cardinality(Ahead(Row(f), n))
                                /\ Before(f, n) \in Nat
<1>1. Row(f) \in Rows /\ \A k \in 1 .. MaxAttempts : Row(f)[k] = Recorded(<<f, k>>)
  BY CheckpointFields DEF Row, Rows
<1>2. ASSUME NEW n \in Places
      PROVE  Before(f, n) = Cardinality(Ahead(Row(f), n)) /\ Before(f, n) \in Nat
  <2>1. 1 .. n - 1 \subseteq 1 .. MaxAttempts
    BY Bounds DEF Places
  <2>2. \A k \in 1 .. n - 1 : Row(f)[k] = Recorded(<<f, k>>)
    BY <1>1, <2>1
  <2>3. {{k} \X (1 .. Row(f)[k]) : k \in 1 .. n - 1}
          = {{k} \X (1 .. Recorded(<<f, k>>)) : k \in 1 .. n - 1}
    BY <2>2
  <2>4. Before(f, n) = Cardinality(Ahead(Row(f), n))
    BY <2>3 DEF Before, Ahead
  <2> QED
    BY <1>1, <2>4, AheadFinite, FS_CardinalityType
<1> QED
  BY <1>1, <1>2

LEMMA BeforeNext ==
    ASSUME side \in Side, NEW f \in Files, NEW n \in 1 .. MaxAttempts
    PROVE  Before(f, n + 1) = Before(f, n) + Recorded(<<f, n>>)
<1>1. n \in Places /\ n + 1 \in Places
  BY Bounds DEF Places
<1>2. Row(f)[n] = Recorded(<<f, n>>)
  BY DEF Row
<1> QED
  BY <1>1, <1>2, BeforeIs, AheadNext

LEMMA BeforeGrows ==
    ASSUME side \in Side, NEW f \in Files, NEW m \in Places, NEW n \in Places, m <= n
    PROVE  Before(f, m) <= Before(f, n)
<1>1. \A k \in 1 .. m - 1 : Row(f)[k] <= Row(f)[k]
  <2>1. 1 .. m - 1 \subseteq 1 .. MaxAttempts
    BY Bounds DEF Places
  <2> QED
    BY <2>1, BeforeIs DEF Rows
<1> QED
  BY <1>1, BeforeIs, AheadGrows

LEMMA BeforeLater ==
    ASSUME side \in Side, side' \in Side, NEW f \in Files, NEW n \in Places,
           \A k \in 1 .. MaxAttempts : Recorded(<<f, k>>) <= Recorded(<<f, k>>)'
    PROVE  Before(f, n) <= Before(f, n)' /\ Before(f, n)' \in Nat
<1> DEFINE c == Row(f)
           d == [k \in 1 .. MaxAttempts |->
                   Since(side'.point[<<f, k>>].total, side'.point[<<f, k>>].prior)]
<1>1. \A k \in 1 .. MaxAttempts : d[k] = Recorded(<<f, k>>)' /\ d[k] \in Nat
  <2>1. ASSUME NEW k \in 1 .. MaxAttempts
        PROVE  d[k] = Recorded(<<f, k>>)' /\ d[k] \in Nat
    <3>1. <<f, k>> \in Ids
      BY DEF Ids
    <3>2. side'.point[<<f, k>>] \in Point
      BY <3>1 DEF Side
    <3> QED
      BY <3>2 DEF Recorded, Since, Point
  <2> QED
    BY <2>1
<1>2. c \in Rows /\ d \in Rows /\ n <= n
  BY <1>1, BeforeIs DEF Rows, Places
<1>3. 1 .. n - 1 \subseteq 1 .. MaxAttempts
  BY Bounds DEF Places
<1>4. \A k \in 1 .. n - 1 : c[k] <= d[k]
  <2>1. \A k \in 1 .. MaxAttempts : c[k] = Recorded(<<f, k>>)
    BY DEF Row
  <2> HIDE DEF c, d
  <2> QED
    BY <1>1, <1>3, <2>1
<1>5. Before(f, n)' = Cardinality(Ahead(d, n))
  <2>1. \A k \in 1 .. n - 1 : d[k] = Recorded(<<f, k>>)'
    BY <1>1, <1>3
  <2> HIDE DEF d
  <2>2. {{k} \X (1 .. d[k]) : k \in 1 .. n - 1}
          = {{k} \X (1 .. Recorded(<<f, k>>)') : k \in 1 .. n - 1}
    BY <2>1
  <2> QED
    BY <2>2 DEF Before, Ahead
<1>6. Before(f, n) = Cardinality(Ahead(c, n))
  BY BeforeIs
<1> HIDE DEF c, d
<1>7. Cardinality(Ahead(d, n)) \in Nat
  BY <1>2, AheadFinite, FS_CardinalityType
<1> QED
  BY <1>2, <1>4, <1>5, <1>6, <1>7, AheadGrows

(* What a history of recorded usage comes to. *)
LEMMA SumIs ==
    ASSUME side \in Side, NEW f \in Files, NEW h \in Seq(Attempt), NEW m \in Nat,
           Len(h) = m, m <= MaxAttempts,
           \A n \in 1 .. m : h[n].usage = Recorded(<<f, n>>)
    PROVE  SumUsage(h) = Before(f, m + 1)
<1>1. DOMAIN h = 1 .. m + 1 - 1
  OBVIOUS
<1>2. \A n \in 1 .. m + 1 - 1 : h[n].usage = Recorded(<<f, n>>)
  OBVIOUS
<1>3. TurnsOf(h) = UNION {{k} \X (1 .. Recorded(<<f, k>>)) : k \in 1 .. m + 1 - 1}
  BY <1>1, <1>2 DEF TurnsOf
<1> DEFINE turns == UNION {{k} \X (1 .. Recorded(<<f, k>>)) : k \in 1 .. m + 1 - 1}
<1>4. Before(f, m + 1) = Cardinality(turns)
  BY DEF Before
<1>5. TurnsOf(h) = turns
  BY <1>3
<1> HIDE DEF turns
<1>6. SumUsage(h) = Cardinality(turns)
  BY <1>5 DEF SumUsage
<1> QED
  BY <1>4, <1>6

LEMMA EarlierIs ==
    ASSUME NEW h \in Seq(Attempt), Len(h) > 0
    PROVE  /\ Earlier(h) \in Seq(Attempt) /\ Len(Earlier(h)) = Len(h) - 1
           /\ \A n \in 1 .. Len(h) - 1 : Earlier(h)[n] = h[n]
<1> DEFINE m == Len(h) - 1
<1>1. m \in Nat
  OBVIOUS
<1>2. \A k \in 1 .. m : h[k] \in Attempt
  OBVIOUS
<1> HIDE DEF m
<1>3. /\ SubSeq(h, 1, m) \in Seq(Attempt)
      /\ Len(SubSeq(h, 1, m)) = IF 1 <= m THEN m - 1 + 1 ELSE 0
      /\ \A n \in 1 .. m - 1 + 1 : SubSeq(h, 1, m)[n] = h[1 + n - 1]
  BY <1>1, <1>2, SubSeqProperties
<1>4. (IF 1 <= m THEN m - 1 + 1 ELSE 0) = m /\ m - 1 + 1 = m
  BY <1>1
<1>5. ASSUME NEW n \in 1 .. m PROVE SubSeq(h, 1, m)[n] = h[n]
  <2>1. 1 + n - 1 = n
    OBVIOUS
  <2> QED
    BY <1>3, <1>4, <2>1
<1> QED
  BY <1>3, <1>4, <1>5 DEF Earlier, m

LEMMA EarlierSum ==
    ASSUME side \in Side, NEW f \in Files, NEW h \in Seq(Attempt), NEW m \in Nat,
           Len(h) = m, m > 0, m <= MaxAttempts,
           \A n \in 1 .. m - 1 : h[n].usage = Recorded(<<f, n>>)
    PROVE  SumUsage(Earlier(h)) = Before(f, m)
<1> DEFINE e == Earlier(h)
           k == m - 1
<1>1. e \in Seq(Attempt) /\ k \in Nat /\ Len(e) = k /\ k <= MaxAttempts /\ k + 1 = m
  BY EarlierIs, Bounds
<1>2. \A n \in 1 .. k : e[n].usage = Recorded(<<f, n>>)
  BY EarlierIs
<1> HIDE DEF e, k
<1>3. SumUsage(e) = Before(f, k + 1)
  BY <1>1, <1>2, SumIs
<1> QED
  BY <1>1, <1>3 DEF e


-----------------------------------------------------------------------------
(* The books after a step that leaves the checkpoints as they count. *)

RecordedStays == \A i \in Ids : Recorded(i)' = Recorded(i)

LEMMA SameSide ==
    ASSUME side'.point = side.point PROVE RecordedStays /\ (Priors => Priors')
<1>1. RecordedStays
  BY DEF RecordedStays, Recorded
<1>2. Priors => Priors'
  <2>1. \A f \in Files : \A n \in 1 .. MaxAttempts : Before(f, n)' = Before(f, n)
    BY DEF Before, Recorded
  <2>2. ASSUME Priors, NEW f \in Files, NEW n \in 1 .. MaxAttempts
        PROVE  /\ side'.point[<<f, n>>].prior <= side'.point[<<f, n>>].total
               /\ side'.point[<<f, n>>].prior <= Before(f, n)'
    BY <2>1, <2>2 DEF Priors
  <2> QED
    BY <2>2 DEF Priors
<1> QED
  BY <1>1, <1>2

LEMMA CheckpointsStay ==
    ASSUME RecordedStays PROVE Checkpoints' = Checkpoints
  BY DEF RecordedStays, Checkpoints

LEMMA BalanceStays ==
    ASSUME RecordedStays, log'.spent = log.spent, Balance PROVE Balance'
<1>1. SpentInAll' = SpentInAll
  BY DEF SpentInAll
<1>2. Size(Checkpoints)' = Size(Checkpoints)
  BY CheckpointsStay DEF Size, Turns
<1> QED
  BY <1>1, <1>2 DEF Balance

LEMMA BookedStays ==
    ASSUME RecordedStays, NEW q \in Queue, BookedIn(q)
    PROVE  /\ queue' = q => BookedIn(queue)'
           /\ mem'.tasks = q => BookedIn(mem.tasks)'
<1>1. \A f \in Files : \A n \in 1 .. MaxAttempts : Recorded(<<f, n>>)' = Recorded(<<f, n>>)
  BY DEF RecordedStays, Ids
<1>2. \A f \in Files : \A n \in Numbers(q[f]) : n \in 1 .. MaxAttempts
  BY FileFacts
<1>3. ASSUME queue' = q PROVE BookedIn(queue)'
  <2>1. ASSUME NEW f \in Files PROVE Booked(f, queue[f])'
    <3>1. Booked(f, q[f])
      BY DEF BookedIn
    <3> QED
      BY <1>1, <1>2, <1>3, <3>1 DEF Booked, Numbers
  <2> QED
    BY <2>1 DEF BookedIn
<1>4. ASSUME mem'.tasks = q PROVE BookedIn(mem.tasks)'
  <2>1. ASSUME NEW f \in Files PROVE Booked(f, mem.tasks[f])'
    <3>1. Booked(f, q[f])
      BY DEF BookedIn
    <3> QED
      BY <1>1, <1>2, <1>4, <3>1 DEF Booked, Numbers
  <2> QED
    BY <2>1 DEF BookedIn
<1> QED
  BY <1>3, <1>4

LEMMA AccountedStays ==
    ASSUME RecordedStays, NEW q \in Queue, NEW r \in Runs, queue' = q
    PROVE  Total(Accounted(r, queue))' = Total(Accounted(r, q))
<1> DEFINE Old(f) == [n \in DOMAIN q[f].history |->
                        IF q[f].history[n].exec = r /\ q[f].history[n].path
                        THEN [q[f].history[n] EXCEPT !.usage = Recorded(<<f, n>>)]
                        ELSE q[f].history[n]]
           New(f) == [n \in DOMAIN q[f].history |->
                        IF q[f].history[n].exec = r /\ q[f].history[n].path
                        THEN [q[f].history[n] EXCEPT !.usage = Recorded(<<f, n>>)']
                        ELSE q[f].history[n]]
<1>1. ASSUME NEW f \in Files PROVE Old(f) = New(f)
  <2>1. \A n \in DOMAIN q[f].history : <<f, n>> \in Ids
    <3>1. q[f] \in Entry
      BY DEF Queue
    <3> QED
      BY <3>1, TaskFacts DEF Ids
  <2>2. \A n \in DOMAIN q[f].history : Recorded(<<f, n>>)' = Recorded(<<f, n>>)
    BY <2>1 DEF RecordedStays
  <2> QED
    BY <2>2
<1>2. Accounted(r, q) = [f \in Files |-> [q[f] EXCEPT !.history = Old(f)]]
  BY DEF Accounted
<1>3. Accounted(r, queue)' = [f \in Files |-> [q[f] EXCEPT !.history = New(f)]]
  BY DEF Accounted
<1> HIDE DEF Old, New
<1>4. Accounted(r, queue)' = Accounted(r, q)
  BY <1>1, <1>2, <1>3
<1> QED
  BY <1>4 DEF Total

LEMMA SameBehind ==
    ASSUME NEW q \in Queue PROVE \A f \in Files : BehindTask(q[f], q[f])
<1>1. ASSUME NEW f \in Files PROVE BehindTask(q[f], q[f])
  <2>1. /\ Len(q[f].history) <= Len(q[f].history)
        /\ \A n \in Numbers(q[f]) : q[f].history[n].usage <= q[f].history[n].usage
    <3>1. Len(q[f].history) \in Nat
      BY FileFacts, Bounds
    <3>2. \A n \in Numbers(q[f]) : q[f].history[n].usage \in Nat
      BY FileFacts
    <3> QED
      BY <3>1, <3>2
  <2> QED
    BY <2>1 DEF BehindTask
<1> QED
  BY <1>1

(* What a record may be charged with. *)
ChargeIn(l, r) == {l.spent[r], l.spent[r] + l.late[r]}

(* All turns are in memory, and those of other runs in the queue. *)
InFiles(q, t, l) ==
    /\ mem.active.start + l.spent[mem.active.id] + l.late[mem.active.id] = SpentInAll
    /\ \A f \in Files : Current(f, t[f]) /\ OwnOrCurrent(f, q[f], mem.active.id)

LEMMA WorksStays ==
    ASSUME RecordedStays, NEW q \in Queue, NEW t \in Queue, NEW l,
           l.spent = log.spent, LogsAs(l), queue' = q, mem'.tasks = t,
           mem'.active.id = mem.active.id, mem'.active.start = mem.active.start,
           InFiles(q, t, l)
    PROVE  Works'
<1>1. \A f \in Files : \A n \in 1 .. MaxAttempts : Recorded(<<f, n>>)' = Recorded(<<f, n>>)
  BY DEF RecordedStays, Ids
<1>2. SpentInAll' = SpentInAll
  BY DEF SpentInAll, LogsAs
<1>3. mem'.active.start + log'.spent[mem'.active.id] + log'.late[mem'.active.id]
        = SpentInAll'
  BY <1>2 DEF InFiles, LogsAs
<1>4. ASSUME NEW f \in Files
      PROVE  Current(f, mem.tasks[f])' /\ OwnOrCurrent(f, queue[f], mem.active.id)'
  <2>1. \A n \in Numbers(t[f]) : Recorded(<<f, n>>)' = t[f].history[n].usage
    BY <1>1, FileFacts DEF InFiles, Current
  <2>2. \A n \in Numbers(q[f]) :
          \/ q[f].history[n].exec = mem.active.id /\ q[f].history[n].path
          \/ q[f].history[n].usage = Recorded(<<f, n>>)'
    BY <1>1, FileFacts DEF InFiles, OwnOrCurrent
  <2>3. Current(f, mem.tasks[f])'
    BY <2>1 DEF Current, Numbers
  <2>4. OwnOrCurrent(f, queue[f], mem.active.id)'
    BY <2>2 DEF OwnOrCurrent, Numbers
  <2> QED
    BY <2>3, <2>4
<1> QED
  BY <1>3, <1>4 DEF Works

(* Finished records and their charge are left alone. *)
LEMMA ChargeStays ==
    ASSUME ChargedToItsRun, log.mixed \subseteq log'.mixed,
           \A r \in Runs : Finished(r)' => /\ Finished(r) /\ rec'[r] = rec[r]
                                           /\ log'.spent[r] = log.spent[r]
                                           /\ log'.late[r] = log.late[r]
    PROVE  ChargedToItsRun'
<1> SUFFICES ASSUME NEW r \in Runs \ log'.mixed, Finished(r)'
             PROVE  rec'[r].usage \in {log'.spent[r], log'.spent[r] + log'.late[r]}
  BY DEF ChargedToItsRun
<1> QED
  BY DEF ChargedToItsRun

LEMMA SaveBooks ==
    ASSUME IInv, Course, Books, ~ Down, mem.active.id = NoRun \/ Busy,
           NEW t \in Queue, NEW l \in LogNow, NEW q \in {queue, t}, queue' = q,
           NEW pc, NEW live, NEW pc2, NEW live2,
           Busy => pc \in {"files", "archive"} /\ pc2 \in {"files", "archive"},
           ~ Busy => pc \in {"idle", "retry"} /\ pc2 \in {"idle", "retry"},
           Outcome(t, l, pc, live, pc2, live2),
           RecordedStays, Priors', BookedIn(t),
           \A f \in Files : BehindTask(queue[f], t[f]),
           l.spent = log.spent, l.mixed = log.mixed,
           \A r \in Runs : r # mem.active.id => l.late[r] = log.late[r],
           (pc = "files" /\ q = t) \/ pc2 = "files" => InFiles(q, t, l),
           pc = "archive" \/ pc2 = "archive" =>
             Since(Total(t), mem.active.start) \in ChargeIn(l, mem.active.id),
           Busy => Since(Total(Accounted(mem.active.id, q)), mem.active.start)
                     \in ChargeIn(l, mem.active.id)
    PROVE  Books'
<1>1. /\ RecordsStay /\ log'.mixed = log.mixed /\ log'.spent = log.spent
      /\ log'.late = l.late /\ LogsAs(l)
  BY DEF Outcome, LogsAs
<1>2. /\ OpenRuns' = OpenRuns
      /\ \A r \in Runs : /\ rec'[r].status = rec[r].status
                         /\ rec'[r].start = rec[r].start
                         /\ rec[r].status # "running" => rec'[r] = rec[r]
  BY <1>1, OpenStay, StayFields
<1>3. q \in Queue /\ BookedIn(q) /\ \A f \in Files : BehindTask(q[f], t[f])
  <2>1. queue \in Queue /\ BookedIn(queue)
    BY Parts, BooksParts
  <2> QED
    BY <2>1, SameBehind
<1>4. Busy => /\ mem.active.id \in Runs /\ rec[mem.active.id].status = "running"
              /\ rec[mem.active.id].start = mem.active.start
  BY CourseParts, OpenRecord
<1>5. \/ /\ mem'.tasks = t /\ mem'.pc \in {pc, pc2}
         /\ mem'.active.id = mem.active.id /\ mem'.active.start = mem.active.start
      \/ mem' = Closed
  BY DEF Outcome, Stands, EndsSeen
<1>6. BookedIn(queue)' /\ (mem'.pc # "closed" => BookedIn(mem.tasks)')
  <2>1. mem' = Closed => mem'.pc = "closed"
    BY ClosedType
  <2> QED
    BY <1>3, <1>5, <2>1, BookedStays
<1>7. mem'.pc # "closed" => Behind'
  <2>1. mem' = Closed => mem'.pc = "closed"
    BY ClosedType
  <2> QED
    BY <1>3, <1>5, <2>1 DEF Behind, BehindTask, Numbers
<1>8. Balance'
  BY <1>1, BalanceStays, BooksParts
<1>9. Unspent'
  <2>1. mem'.pc # "begun"
    BY <1>5, ClosedType
  <2>2. ASSUME NEW r \in Runs, rec'[r].status = "none"
        PROVE  log'.spent[r] = 0 /\ log'.late[r] = 0
    <3>1. r # mem.active.id
      BY <1>2, <1>4, <2>2 DEF NoRun, Runs
    <3>2. log.spent[r] = 0 /\ log.late[r] = 0
      BY <1>2, <2>2, BooksParts DEF Unspent
    <3> QED
      BY <1>1, <3>1, <3>2
  <2> QED
    BY <2>1, <2>2 DEF Unspent
<1>10. Began'
  BY <1>5, ClosedType DEF Began
<1>11. Works'
  <2>1. CASE mem'.pc = "files"
    <3>1. mem' # Closed /\ ((pc = "files" /\ q = t) \/ pc2 = "files")
      BY <2>1, ClosedType DEF Outcome, Stands, EndsSeen
    <3> QED
      BY <1>1, <1>3, <1>5, <3>1, WorksStays
  <2> QED
    BY <2>1 DEF Works
<1>12. Over'
  <2>1. CASE mem'.pc \in {"idle", "archive"} /\ mem'.active.id # NoRun
    <3>1. mem' # Closed
      BY <2>1, ClosedType
    <3>2. Busy /\ (pc = "archive" \/ pc2 = "archive")
      BY <1>5, <2>1, <3>1
    <3>3. Since(Total(t), mem.active.start) \in ChargeIn(l, mem.active.id)
      BY <3>2
    <3>4. Total(mem.tasks)' = Total(t)
      BY <1>5, <3>1 DEF Total
    <3>5. Charge(mem.active.id)' = ChargeIn(l, mem.active.id)
      BY <1>1, <1>5, <3>1 DEF Charge, ChargeIn
    <3>6. Since(Total(mem.tasks), mem.active.start)' = Since(Total(t), mem.active.start)
      BY <1>5, <3>1, <3>4 DEF Since
    <3> QED
      BY <3>3, <3>5, <3>6 DEF Over
  <2> QED
    BY <2>1 DEF Over
<1>13. Due'
  <2>1. ASSUME NEW r \in OpenRuns'
        PROVE  Since(Total(Accounted(r, queue)), rec[r].start)' \in Charge(r)'
    <3>1. Busy /\ r = mem.active.id /\ r \in Runs
      BY <1>2, <1>4, <2>1, OpenIsActive
    <3>2. Since(Total(Accounted(r, q)), mem.active.start) \in ChargeIn(l, r)
      BY <3>1
    <3>3. Total(Accounted(r, queue))' = Total(Accounted(r, q))
      BY <1>3, <3>1, AccountedStays
    <3>4. rec'[r].start = mem.active.start
      BY <1>2, <1>4, <3>1
    <3>5. Charge(r)' = ChargeIn(l, r)
      BY <1>1 DEF Charge, ChargeIn
    <3>6. Since(Total(Accounted(r, queue)), rec[r].start)'
            = Since(Total(Accounted(r, q)), mem.active.start)
      BY <3>3, <3>4 DEF Since
    <3> QED
      BY <3>2, <3>5, <3>6
  <2> QED
    BY <2>1 DEF Due
<1>14. ChargedToItsRun'
  <2>1. ASSUME NEW r \in Runs, Finished(r)'
        PROVE  /\ Finished(r) /\ rec'[r] = rec[r] /\ log'.spent[r] = log.spent[r]
               /\ log'.late[r] = log.late[r]
    <3>1. rec[r].status \in Final
      BY <1>2, <2>1 DEF Finished
    <3>2. rec'[r] = rec[r]
      BY <1>2, <3>1 DEF Final
    <3>3. r # mem.active.id
      BY <1>4, <3>1 DEF Final, NoRun, Runs
    <3> QED
      BY <1>1, <2>1, <3>2, <3>3 DEF Finished
  <2> QED
    BY <1>1, <2>1, ChargeStays, BooksParts
<1> QED
  BY <1>6, <1>7, <1>8, <1>9, <1>10, <1>11, <1>12, <1>13, <1>14 DEF Books


-----------------------------------------------------------------------------
(* The books while files are under way. *)

LEMMA OwnIsCurrent ==
    ASSUME NEW q, NEW r, \A f \in Files : Current(f, q[f])
    PROVE  \A f \in Files : OwnOrCurrent(f, q[f], r)
  BY DEF Current, OwnOrCurrent

(* What an open record would be charged with, from the queue or from memory. *)
LEMMA InFilesTotals ==
    ASSUME IInv, Books, mem.active.id \in Runs, NEW l \in LogNow,
           mem.active.start + l.spent[mem.active.id] + l.late[mem.active.id] = SpentInAll,
           NEW q \in Queue, BookedIn(q)
    PROVE  /\ (\A f \in Files : OwnOrCurrent(f, q[f], mem.active.id)) =>
                Since(Total(Accounted(mem.active.id, q)), mem.active.start)
                  \in ChargeIn(l, mem.active.id)
           /\ (\A f \in Files : Current(f, q[f])) =>
                Since(Total(q), mem.active.start) \in ChargeIn(l, mem.active.id)
<1> DEFINE a == mem.active.id
           s == mem.active.start
           n == l.spent[a] + l.late[a]
<1>1. l.spent[a] \in Nat /\ l.late[a] \in Nat
  BY LogFields
<1>2. s \in Nat /\ n \in Nat /\ SpentInAll = s + n
  BY <1>1, Parts DEF Process, ActiveRun
<1>3. Size(Checkpoints) = s + n /\ side \in Side
  BY <1>2, BooksParts, Parts DEF Balance
<1>4. n \in ChargeIn(l, a)
  BY DEF ChargeIn
<1> HIDE DEF n
<1>5. Since(s + n, s) = n
  BY <1>2, SinceIs
<1> HIDE DEF s, a
<1>6. ASSUME \A f \in Files : OwnOrCurrent(f, q[f], a)
      PROVE  Since(Total(Accounted(a, q)), s) \in ChargeIn(l, a)
  <2>1. a \in Runs
    BY DEF a
  <2>2. Total(Accounted(a, q)) = s + n
    BY <1>3, <1>6, <2>1, AccountedTotal
  <2> QED
    BY <1>4, <1>5, <2>2
<1>7. ASSUME \A f \in Files : Current(f, q[f])
      PROVE  Since(Total(q), s) \in ChargeIn(l, a)
  <2>1. Total(q) = s + n
    BY <1>3, <1>7, FullTotal
  <2> QED
    BY <1>4, <1>5, <2>1
<1> QED
  BY <1>6, <1>7 DEF a, s

LEMMA FilesFacts ==
    ASSUME IInv, Course, Books, mem.pc = "files"
    PROVE  /\ InFiles(queue, mem.tasks, log) /\ Busy /\ ~ Down
           /\ mem.active.id \in Runs /\ log \in LogNow
           /\ BookedIn(mem.tasks) /\ Behind
<1>1. Busy /\ ~ Down /\ mem.active.id \in Runs /\ log \in LogNow
  BY RunFacts, UnderWayIs, Parts
<1>2. InFiles(queue, mem.tasks, log)
  BY BooksParts DEF Works, InFiles
<1> QED
  BY <1>1, <1>2, BooksParts

LEMMA WorkerBooks ==
    ASSUME IInv, Course, Books, mem.pc = "files", NEW t \in Queue, NEW live, NEW live2,
           Outcome(t, log, "files", live, "files", live2), RecordedStays, Priors',
           \A f \in Files : /\ Booked(f, t[f]) /\ Current(f, t[f])
                            /\ BehindTask(queue[f], t[f])
    PROVE  Books'
<1> DEFINE pc == "files"
           l == log
           q == queue'
<1>1. /\ Busy /\ ~ Down /\ mem.active.id \in Runs /\ l \in LogNow
      /\ InFiles(queue, mem.tasks, log) /\ queue \in Queue
  BY FilesFacts, Parts
<1>2. /\ Outcome(t, l, pc, live, pc, live2) /\ pc = "files"
      /\ l.spent = log.spent /\ l.mixed = log.mixed
      /\ \A r \in Runs : l.late[r] = log.late[r]
      /\ q \in {queue, t} /\ queue' = q
  BY DEF Outcome
<1>3. BookedIn(t) /\ BookedIn(queue)
  BY BooksParts DEF BookedIn
<1>4. \A f \in Files : OwnOrCurrent(f, t[f], mem.active.id)
  BY OwnIsCurrent
<1>5. \A f \in Files : OwnOrCurrent(f, queue[f], mem.active.id)
  BY <1>1 DEF InFiles
<1>6. BookedIn(q) /\ q \in Queue /\ \A f \in Files : OwnOrCurrent(f, q[f], mem.active.id)
  BY <1>1, <1>2, <1>3, <1>4, <1>5
<1>7. mem.active.start + l.spent[mem.active.id] + l.late[mem.active.id] = SpentInAll
  BY <1>1 DEF InFiles
<1> HIDE DEF pc, l, q
<1>8. InFiles(q, t, l)
  BY <1>6, <1>7 DEF InFiles
<1>9. Since(Total(Accounted(mem.active.id, q)), mem.active.start)
        \in ChargeIn(l, mem.active.id)
  BY <1>1, <1>6, <1>7, InFilesTotals
<1>10. pc # "archive"
  BY <1>2
<1> QED
  BY <1>1, <1>2, <1>3, <1>8, <1>9, <1>10, SaveBooks

(* A worker's save of one file. *)
LEMMA WithBooks ==
    ASSUME IInv, Course, Books, mem.pc = "files", NEW f \in Files, NEW u \in Entry,
           With(f, u) \in Queue, NEW live, NEW live2,
           Outcome(With(f, u), log, "files", live, "files", live2),
           RecordedStays, Priors', Booked(f, u), Current(f, u), BehindTask(queue[f], u)
    PROVE  Books'
<1> DEFINE t == With(f, u)
<1>1. \A g \in Files : t[g] = IF g = f THEN u ELSE mem.tasks[g]
  BY Parts DEF With, Queue
<1>2. \A g \in Files : /\ Booked(g, mem.tasks[g]) /\ Current(g, mem.tasks[g])
                       /\ BehindTask(queue[g], mem.tasks[g])
  BY FilesFacts DEF InFiles, BookedIn, Behind
<1>3. t \in Queue /\ Outcome(t, log, "files", live, "files", live2)
  OBVIOUS
<1> HIDE DEF t
<1>4. \A g \in Files : /\ Booked(g, t[g]) /\ Current(g, t[g])
                       /\ BehindTask(queue[g], t[g])
  BY <1>1, <1>2
<1> QED
  BY <1>3, <1>4, WorkerBooks

LEMMA CurrentIsBooked ==
    ASSUME side \in Side, NEW f \in Files, NEW u \in Entry, Current(f, u),
           \A n \in 1 .. MaxAttempts : Recorded(<<f, n>>) # 0 =>
             n \in Numbers(u) /\ u.history[n].path
    PROVE  Booked(f, u)
<1>1. \A n \in Numbers(u) : n \in 1 .. MaxAttempts
  BY TaskFacts
<1>2. \A n \in Numbers(u) : /\ u.history[n].usage = Recorded(<<f, n>>)
                            /\ Recorded(<<f, n>>) \in Nat
  BY <1>1, CheckpointFields DEF Current
<1>3. \A n \in Numbers(u) : u.history[n].usage <= Recorded(<<f, n>>)
  BY <1>2
<1> QED
  BY <1>2, <1>3 DEF Booked

LEMMA ChangedBooked ==
    ASSUME side \in Side, NEW f \in Files, NEW m \in Entry, NEW u \in Entry,
           NEW a \in Attempt, LastAs(m, u, a), a.usage = Last(m).usage,
           Last(m).path => a.path, Booked(f, m), Current(f, m)
    PROVE  /\ Booked(f, u) /\ Current(f, u)
           /\ \A q \in Entry : BehindTask(q, m) => BehindTask(q, u)
<1>1. Len(m.history) \in 0 .. MaxAttempts /\ Len(u.history) = Len(m.history)
  BY TaskFacts DEF LastAs
<1>2. Numbers(u) = Numbers(m)
  BY <1>1 DEF Numbers
<1>3. \A n \in Numbers(m) : /\ u.history[n].usage = m.history[n].usage
                            /\ m.history[n].path => u.history[n].path
  BY DEF LastAs, Last
<1>4. Current(f, u)
  BY <1>2, <1>3 DEF Current
<1>5. \A n \in 1 .. MaxAttempts : Recorded(<<f, n>>) # 0 =>
        n \in Numbers(u) /\ u.history[n].path
  BY <1>2, <1>3 DEF Booked
<1>6. Booked(f, u)
  BY <1>4, <1>5, CurrentIsBooked
<1>7. ASSUME NEW q \in Entry, BehindTask(q, m) PROVE BehindTask(q, u)
  <2>1. Len(q.history) \in Nat /\ Len(m.history) \in Nat
    BY TaskFacts, Bounds
  <2>2. Numbers(q) \subseteq Numbers(m)
    BY <1>7, <2>1 DEF BehindTask, Numbers
  <2>3. Len(q.history) <= Len(u.history)
    BY <1>1, <1>7 DEF BehindTask
  <2>4. \A n \in Numbers(q) : q.history[n].usage <= u.history[n].usage
    BY <1>3, <1>7, <2>2 DEF BehindTask
  <2> QED
    BY <2>3, <2>4 DEF BehindTask
<1> QED
  BY <1>4, <1>6, <1>7

LEMMA OneMoreBooked ==
    ASSUME side \in Side, NEW f \in Files, NEW m \in Entry, NEW u \in Entry, NEW r,
           OneMore(m, u, r), Booked(f, m), Current(f, m)
    PROVE  /\ Booked(f, u) /\ Current(f, u)
           /\ \A q \in Entry : BehindTask(q, m) => BehindTask(q, u)
<1>1. /\ Len(m.history) \in Nat /\ Len(u.history) = Len(m.history) + 1
      /\ \A n \in Numbers(m) : u.history[n] = m.history[n]
      /\ u.history[Len(u.history)].usage = 0
  BY TaskFacts, Bounds DEF OneMore
<1>2. /\ Numbers(u) = Numbers(m) \cup {Len(u.history)} /\ Len(u.history) \notin Numbers(m)
      /\ Len(u.history) \in 1 .. MaxAttempts
  <2>1. Numbers(u) = Numbers(m) \cup {Len(u.history)} /\ Len(u.history) \notin Numbers(m)
    BY <1>1 DEF Numbers
  <2> QED
    BY <2>1, TaskFacts
<1>3. Recorded(<<f, Len(u.history)>>) = 0
  BY <1>2 DEF Booked
<1>4. Current(f, u)
  BY <1>1, <1>2, <1>3 DEF Current
<1>5. \A n \in 1 .. MaxAttempts : Recorded(<<f, n>>) # 0 =>
        n \in Numbers(u) /\ u.history[n].path
  BY <1>1, <1>2 DEF Booked
<1>6. Booked(f, u)
  BY <1>4, <1>5, CurrentIsBooked
<1>7. ASSUME NEW q \in Entry, BehindTask(q, m) PROVE BehindTask(q, u)
  <2>1. Len(q.history) \in Nat
    BY TaskFacts, Bounds
  <2>2. Numbers(q) \subseteq Numbers(m)
    BY <1>1, <1>7, <2>1 DEF BehindTask, Numbers
  <2>3. Len(q.history) <= Len(u.history)
    BY <1>1, <1>7, <2>1 DEF BehindTask
  <2>4. \A n \in Numbers(q) : q.history[n].usage <= u.history[n].usage
    BY <1>1, <1>7, <2>2 DEF BehindTask
  <2> QED
    BY <2>3, <2>4 DEF BehindTask
<1> QED
  BY <1>4, <1>6, <1>7

(* What is known of a file in memory while files are under way. *)
LEMMA FileBooks ==
    ASSUME IInv, Course, Books, mem.pc = "files", NEW f \in Files
    PROVE  /\ mem.tasks[f] \in Entry /\ queue[f] \in Entry /\ side \in Side
           /\ Booked(f, mem.tasks[f]) /\ Current(f, mem.tasks[f])
           /\ BehindTask(queue[f], mem.tasks[f])
<1>1. mem.tasks[f] \in Entry /\ queue[f] \in Entry /\ side \in Side
  BY Parts DEF Queue
<1> QED
  BY <1>1, FilesFacts DEF InFiles, BookedIn, Behind

LEMMA BeginAttemptBooks ==
    ASSUME IInv, Course, Books, NEW f \in Files, BeginAttempt(f) PROVE Books'
<1>1. /\ mem.pc = "files" /\ side' = side
      /\ \E u \in Entry :
           /\ Restarted(mem.tasks[f], u, mem.active.id)
           /\ With(f, u) \in Queue
           /\ Outcome(With(f, u), log, "files", mem.live \cup {f},
                      "files", mem.live \ {f})
  BY CourseParts, BeginAttemptEffect
<1>2. PICK u \in Entry :
        /\ Restarted(mem.tasks[f], u, mem.active.id)
        /\ With(f, u) \in Queue
        /\ Outcome(With(f, u), log, "files", mem.live \cup {f},
                   "files", mem.live \ {f})
  BY <1>1
<1>3. RecordedStays /\ Priors'
  BY <1>1, SameSide, BooksParts
<1>4. Booked(f, u) /\ Current(f, u) /\ BehindTask(queue[f], u)
  <2> DEFINE m == mem.tasks[f]
  <2>1. /\ m \in Entry /\ queue[f] \in Entry /\ side \in Side
        /\ Booked(f, m) /\ Current(f, m) /\ BehindTask(queue[f], m)
    BY <1>1, FileBooks
  <2>2. Restarted(m, u, mem.active.id)
    BY <1>2
  <2> HIDE DEF m
  <2>3. CASE OneMore(m, u, mem.active.id)
    BY <2>1, <2>3, OneMoreBooked
  <2>4. CASE \E a \in Attempt : /\ LastAs(m, u, a) /\ a.path = Last(m).path
                                /\ a.usage = Last(m).usage
    <3>1. PICK a \in Attempt : /\ LastAs(m, u, a) /\ a.path = Last(m).path
                               /\ a.usage = Last(m).usage
      BY <2>4
    <3> QED
      BY <2>1, <3>1, ChangedBooked
  <2> QED
    BY <2>2, <2>3, <2>4 DEF Restarted
<1> QED
  BY <1>1, <1>2, <1>3, <1>4, WithBooks

LEMMA FinishAttemptBooks ==
    ASSUME IInv, Course, Books, NEW f \in Files, FinishAttempt(f) PROVE Books'
<1>1. /\ mem.pc = "files" /\ side' = side
      /\ \E u \in Entry :
           /\ With(f, u) \in Queue
           /\ \E a \in Attempt :
                /\ LastAs(mem.tasks[f], u, a)
                /\ a.path = Last(mem.tasks[f]).path
                /\ a.usage = Last(mem.tasks[f]).usage
           /\ Outcome(With(f, u), log, "files", mem.live \ {f},
                      "files", mem.live \ {f})
  BY CourseParts, FinishAttemptEffect
<1>2. PICK u \in Entry :
        /\ With(f, u) \in Queue
        /\ \E a \in Attempt :
             /\ LastAs(mem.tasks[f], u, a)
             /\ a.path = Last(mem.tasks[f]).path
             /\ a.usage = Last(mem.tasks[f]).usage
        /\ Outcome(With(f, u), log, "files", mem.live \ {f},
                   "files", mem.live \ {f})
  BY <1>1
<1>3. RecordedStays /\ Priors'
  BY <1>1, SameSide, BooksParts
<1>4. Booked(f, u) /\ Current(f, u) /\ BehindTask(queue[f], u)
  <2> DEFINE m == mem.tasks[f]
  <2>1. /\ m \in Entry /\ queue[f] \in Entry /\ side \in Side
        /\ Booked(f, m) /\ Current(f, m) /\ BehindTask(queue[f], m)
    BY <1>1, FileBooks
  <2>2. PICK a \in Attempt : /\ LastAs(m, u, a) /\ a.path = Last(m).path
                             /\ a.usage = Last(m).usage
    BY <1>2
  <2> HIDE DEF m
  <2> QED
    BY <2>1, <2>2, ChangedBooked
<1> QED
  BY <1>1, <1>2, <1>3, <1>4, WithBooks

LEMMA StageBooks ==
    ASSUME IInv, Course, Books, NEW f \in Files, Stage(f) PROVE Books'
<1>1. /\ mem.pc = "files" /\ side'.point = side.point
      /\ Outcome(mem.tasks, log, "files", mem.live, "files", mem.live \ {f})
  BY CourseParts, StageEffect
<1>2. RecordedStays /\ Priors'
  BY <1>1, SameSide, BooksParts
<1>3. \A g \in Files : /\ Booked(g, mem.tasks[g]) /\ Current(g, mem.tasks[g])
                       /\ BehindTask(queue[g], mem.tasks[g])
  BY <1>1, FileBooks
<1> QED
  BY <1>1, <1>2, <1>3, WorkerBooks, Parts

(* A first checkpoint counts what is known, which is what the attempts before
   have spent: it records nothing. *)
LEMMA PriorsLater ==
    ASSUME side \in Side, side' \in Side,
           \A i \in Ids : Recorded(i) <= Recorded(i)',
           \A f \in Files : \A n \in 1 .. MaxAttempts :
             /\ side'.point[<<f, n>>].prior <= side'.point[<<f, n>>].total
             /\ side'.point[<<f, n>>].prior <= Before(f, n)
    PROVE  Priors'
<1>1. ASSUME NEW f \in Files, NEW n \in 1 .. MaxAttempts
      PROVE  side'.point[<<f, n>>].prior <= Before(f, n)'
  <2>1. n \in Places
    BY Bounds DEF Places
  <2>2. \A k \in 1 .. MaxAttempts : Recorded(<<f, k>>) <= Recorded(<<f, k>>)'
    BY DEF Ids
  <2>3. Before(f, n) <= Before(f, n)' /\ Before(f, n)' \in Nat
    BY <2>1, <2>2, BeforeLater
  <2>4. Before(f, n) \in Nat
    BY <2>1, BeforeIs
  <2>5. side'.point[<<f, n>>].prior \in Nat
    BY DEF Side, Point, Ids
  <2> QED
    BY <2>3, <2>4, <2>5
<1> QED
  BY <1>1 DEF Priors


LEMMA PriorTotalBound ==
    ASSUME IInv, Priors, NEW f \in Files, NEW h \in Seq(Attempt),
           NEW m \in 1 .. MaxAttempts, Len(h) = m
    PROVE  PriorTotal(f, h) <= Before(f, m)
<1> DEFINE known == {n \in DOMAIN Earlier(h) : h[n].path}
           B == Before(f, m)
<1>0. m \in Places /\ side \in Side /\ m \in Nat
  BY Parts, Bounds DEF Places
<1>1. known \subseteq 1 .. m - 1
  BY EarlierIs
<1>2. B \in Nat
  BY <1>0, BeforeIs
<1>3. CASE known = {}
  BY <1>2, <1>3 DEF PriorTotal
<1>4. CASE known # {}
  <2> DEFINE n == CHOOSE n \in known : \A k \in known : k <= n
  <2>1. PriorTotal(f, h) = side.point[<<f, n>>].total
    BY <1>4 DEF PriorTotal
  <2> HIDE DEF known
  <2>2. \E x \in known : \A k \in known : k <= x
    <3>1. known \in SUBSET (0 .. m)
      BY <1>0, <1>1
    <3> QED
      BY <1>0, <1>4, <3>1, LargestBelow
  <2>3. n \in known
    BY <2>2
  <2> HIDE DEF n
  <2>4. n \in 1 .. MaxAttempts /\ n + 1 \in Places /\ n + 1 <= m /\ n \in Places
    BY <1>0, <1>1, <2>3, Bounds DEF Places
  <2> DEFINE p == side.point[<<f, n>>].prior
             c == side.point[<<f, n>>].total
             b == Before(f, n)
             after == Before(f, n + 1)
             r == Recorded(<<f, n>>)
  <2>5. p \in Nat /\ c \in Nat /\ b \in Nat /\ after \in Nat /\ r \in Nat
    <3>1. <<f, n>> \in Ids
      BY <2>4 DEF Ids
    <3> QED
      BY <1>0, <2>4, <3>1, BeforeIs, RecordedType DEF Side, Point
  <2>6. p <= c /\ p <= b
    BY <2>4 DEF Priors
  <2>7. after = b + r
    BY <1>0, <2>4, BeforeNext
  <2>8. r = Since(c, p)
    BY DEF Recorded
  <2>9. after <= B
    BY <1>0, <2>4, BeforeGrows
  <2> HIDE DEF p, c, b, after, r, B
  <2>10. c <= after
    BY <2>5, <2>6, <2>7, <2>8 DEF Since
  <2>11. c <= B
    BY <1>2, <2>5, <2>9, <2>10
  <2> QED
    BY <2>1, <2>11 DEF c, B
<1> QED
  BY <1>3, <1>4 DEF B

LEMMA AttachedBooks ==
    ASSUME IInv, Course, Books, mem.pc = "files", NEW f \in Files, f \in mem.live,
           ~ Last(mem.tasks[f]).path, side' \in Side, Attached(f),
           NEW n \in 1 .. MaxAttempts, n = Len(mem.tasks[f].history)
    PROVE  Books'
<1> DEFINE m == mem.tasks[f]
           h == m.history
           i == <<f, n>>
           prior == SumUsage(Earlier(h))
           total == Larger(PriorTotal(f, h), SumUsage(h))
<1>1. PICK u \in Entry, a \in Attempt :
        /\ LastAs(m, u, a) /\ a.path
        /\ a.usage = Since(total, prior)
        /\ side'.point[i] = [prior |-> prior, total |-> total]
        /\ \A j \in Ids \ {i} : side'.point[j] = side.point[j]
        /\ With(f, u) \in Queue
        /\ Outcome(With(f, u), log, "files", mem.live, "files", mem.live \ {f})
  BY DEF Attached, LastId
<1>2. /\ m \in Entry /\ queue[f] \in Entry /\ side \in Side /\ Priors
      /\ Booked(f, m) /\ Current(f, m) /\ BehindTask(queue[f], m)
  BY FileBooks, BooksParts
<1>3. /\ h \in Seq(Attempt) /\ n \in 1 .. MaxAttempts /\ n \in Numbers(m)
      /\ i \in Ids /\ n \in Places /\ n + 1 \in Places
  <2>1. h \in Seq(Attempt)
    BY <1>2, EntryFields
  <2>2. n \in Numbers(m)
    BY DEF Numbers
  <2>3. i \in Ids
    BY DEF Ids
  <2>4. n \in Places /\ n + 1 \in Places
    BY Bounds DEF Places
  <2> QED
    BY <2>1, <2>2, <2>3, <2>4
<1>4. Recorded(i) = 0 /\ Last(m).usage = 0
  <2>1. ~ h[n].path
    BY DEF Last
  <2>2. Recorded(i) = 0
    BY <1>2, <1>3, <2>1 DEF Booked
  <2> QED
    BY <1>2, <1>3, <2>2 DEF Current, Last
<1>5. prior = Before(f, n) /\ SumUsage(h) = Before(f, n) /\ Before(f, n) \in Nat
      /\ PriorTotal(f, h) <= Before(f, n) /\ PriorTotal(f, h) \in Nat
  <2>1. \A k \in 1 .. n : h[k].usage = Recorded(<<f, k>>)
    BY <1>2 DEF Current, Numbers
  <2>2. n \in Nat /\ n > 0 /\ n <= MaxAttempts
    BY <1>3, Bounds
  <2>3. Before(f, n) \in Nat
    BY <1>2, <1>3, BeforeIs
  <2>4. Before(f, n + 1) = Before(f, n)
    BY <1>2, <1>3, <1>4, <2>3, BeforeNext
  <2>5. Len(h) = n
    OBVIOUS
  <2> HIDE DEF h
  <2>6. \A k \in 1 .. n - 1 : h[k].usage = Recorded(<<f, k>>)
    BY <2>1, <2>2
  <2>7. SumUsage(Earlier(h)) = Before(f, n)
    BY <1>2, <1>3, <2>2, <2>5, <2>6, EarlierSum
  <2>8. SumUsage(h) = Before(f, n + 1)
    BY <1>2, <1>3, <2>1, <2>2, <2>5, SumIs
  <2>9. PriorTotal(f, h) <= Before(f, n) /\ PriorTotal(f, h) \in Nat
    BY <1>2, <1>3, <2>5, PriorTotalBound, PriorTotalType
  <2> QED
    BY <2>3, <2>4, <2>7, <2>8, <2>9
<1>6. total = prior /\ prior \in Nat
  BY <1>5 DEF Larger
<1> HIDE DEF prior, total, m
<1>7. a.usage = 0 /\ side'.point[i] = [prior |-> Before(f, n), total |-> Before(f, n)]
  BY <1>1, <1>5, <1>6 DEF Since
<1>8. RecordedStays
  <2>1. Recorded(i)' = 0
    <3>1. Recorded(i)' = Since(side'.point[i].total, side'.point[i].prior)
      BY DEF Recorded
    <3>2. side'.point[i].total = Before(f, n) /\ side'.point[i].prior = Before(f, n)
      BY <1>7
    <3> QED
      BY <1>5, <3>1, <3>2 DEF Since
  <2>2. ASSUME NEW j \in Ids PROVE Recorded(j)' = Recorded(j)
    <3>1. CASE j = i
      BY <1>4, <2>1, <3>1
    <3>2. CASE j # i
      <4>1. side'.point[j] = side.point[j]
        BY <1>1, <3>2
      <4> QED
        BY <4>1 DEF Recorded
    <3> QED
      BY <3>1, <3>2
  <2> QED
    BY <2>2 DEF RecordedStays
<1>9. Priors'
  <2>1. \A j \in Ids : Recorded(j) <= Recorded(j)'
    BY <1>2, <1>8, RecordedType DEF RecordedStays
  <2>2. ASSUME NEW g \in Files, NEW k \in 1 .. MaxAttempts
        PROVE  /\ side'.point[<<g, k>>].prior <= side'.point[<<g, k>>].total
               /\ side'.point[<<g, k>>].prior <= Before(g, k)
    <3>1. CASE <<g, k>> = i
      BY <1>5, <1>7, <3>1
    <3>2. CASE <<g, k>> # i
      BY <1>1, <1>2, <3>2 DEF Priors, Ids
    <3> QED
      BY <3>1, <3>2
  <2> QED
    BY <1>2, <2>1, <2>2, PriorsLater
<1>10. Booked(f, u) /\ Current(f, u) /\ BehindTask(queue[f], u)
  BY <1>1, <1>2, <1>4, <1>7, ChangedBooked
<1> QED
  BY <1>1, <1>8, <1>9, <1>10, WithBooks

LEMMA AttachBooks ==
    ASSUME IInv, Course, Books, NEW f \in Files, Attach(f) PROVE Books'
<1>1. /\ mem.pc = "files" /\ f \in mem.live /\ ~ Last(mem.tasks[f]).path
      /\ side' \in Side
      /\ \/ Attached(f)
         \/ /\ side' = side
            /\ Outcome(mem.tasks, log, "files", mem.live \ {f}, "files", mem.live \ {f})
  BY CourseParts, AttachEffect
<1>2. CASE Attached(f)
  <2> DEFINE h == mem.tasks[f].history
  <2>1. mem.tasks[f] \in Entry /\ h # <<>>
    BY <1>1, LiveTask
  <2>2. Len(h) \in 1 .. MaxAttempts
    BY <2>1, LastAttempt
  <2>3. PICK n \in 1 .. MaxAttempts : n = Len(h)
    BY <2>2
  <2> QED
    BY <1>1, <1>2, <2>3, AttachedBooks
<1>3. CASE /\ side' = side
           /\ Outcome(mem.tasks, log, "files", mem.live \ {f}, "files", mem.live \ {f})
  <2>1. RecordedStays /\ Priors'
    BY <1>3, SameSide, BooksParts
  <2>2. \A g \in Files : /\ Booked(g, mem.tasks[g]) /\ Current(g, mem.tasks[g])
                         /\ BehindTask(queue[g], mem.tasks[g])
    BY <1>1, FileBooks
  <2> QED
    BY <1>1, <1>3, <2>1, <2>2, WorkerBooks, Parts
<1> QED
  BY <1>1, <1>2, <1>3

-----------------------------------------------------------------------------
(* The books when a run goes on after recovery, ends or is cut off. *)

LEMMA MendedBooks ==
    ASSUME side \in Side, NEW q \in Queue, NEW t \in Queue, BookedIn(q),
           \A f \in Files : Mended(f, q, t[f])
    PROVE  \A f \in Files :
             /\ Booked(f, t[f]) /\ Current(f, t[f])
             /\ \A p \in Entry : BehindTask(p, q[f]) => BehindTask(p, t[f])
<1> SUFFICES ASSUME NEW f \in Files
             PROVE  /\ Booked(f, t[f]) /\ Current(f, t[f])
                    /\ \A p \in Entry : BehindTask(p, q[f]) => BehindTask(p, t[f])
  OBVIOUS
<1> DEFINE m == q[f]
           u == t[f]
<1>1. m \in Entry /\ u \in Entry /\ Booked(f, m) /\ Mended(f, q, u)
  BY FileFacts DEF BookedIn
<1>2. \A n \in Numbers(m) : /\ n \in 1 .. MaxAttempts /\ Recorded(<<f, n>>) \in Nat
                            /\ m.history[n].usage \in Nat
  BY FileFacts, CheckpointFields
<1>3. CASE m.status # "running"
  <2>1. u = m
    BY <1>1, <1>3 DEF Mended
  <2>2. Current(f, m)
    BY <1>1, <1>3 DEF Booked, Current
  <2> QED
    BY <1>1, <2>1, <2>2
<1>4. CASE m.status = "running"
  <2>1. PICK a \in Attempt : /\ LastAs(m, u, a) /\ a.path = Last(m).path
                             /\ a.usage = KnownUsage(q, f)
    BY <1>1, <1>4 DEF Mended
  <2> DEFINE n == Len(m.history)
  <2>2. n \in Numbers(m) /\ Len(u.history) = n /\ Numbers(u) = Numbers(m)
    <3>1. m.history # <<>>
      BY <2>1 DEF LastAs
    <3>2. n \in 1 .. MaxAttempts
      BY <1>1, <3>1, LastAttempt
    <3>3. Len(u.history) = n
      BY <2>1 DEF LastAs
    <3> QED
      BY <3>2, <3>3, Bounds DEF Numbers
  <2>3. a.usage = Recorded(<<f, n>>) /\ m.history[n].usage <= a.usage
    <3>1. CASE Last(m).path
      <4>1. a.usage = Recorded(<<f, n>>)
        BY <2>1, <3>1 DEF KnownUsage, LastId
      <4> QED
        BY <1>1, <2>2, <4>1 DEF Booked
    <3>2. CASE ~ Last(m).path
      <4>1. Recorded(<<f, n>>) = 0
        BY <1>1, <1>2, <2>2, <3>2 DEF Booked, Last
      <4>2. m.history[n].usage = 0
        <5> DEFINE k == m.history[n].usage
        <5>1. k <= Recorded(<<f, n>>)
          BY <1>1, <2>2 DEF Booked
        <5>2. k \in Nat
          BY <1>1, <1>2, <2>2
        <5> HIDE DEF k, n
        <5> QED
          BY <4>1, <5>1, <5>2 DEF k
      <4>3. a.usage = m.history[n].usage
        BY <2>1, <3>2 DEF KnownUsage, Last
      <4> QED
        BY <4>1, <4>2, <4>3
    <3> QED
      BY <3>1, <3>2
  <2>4. \A k \in Numbers(m) :
          /\ u.history[k].usage = Recorded(<<f, k>>)
          /\ m.history[k].usage <= u.history[k].usage
          /\ u.history[k].path = m.history[k].path
    <3>1. ASSUME NEW k \in Numbers(m), k = n
          PROVE  /\ u.history[k].usage = Recorded(<<f, k>>)
                 /\ m.history[k].usage <= u.history[k].usage
                 /\ u.history[k].path = m.history[k].path
      <4>1. u.history[k] = a
        BY <2>1, <3>1 DEF LastAs
      <4>2. a.path = m.history[k].path
        BY <2>1, <3>1 DEF Last
      <4> QED
        BY <2>3, <3>1, <4>1, <4>2
    <3>2. ASSUME NEW k \in Numbers(m), k # n
          PROVE  /\ u.history[k].usage = Recorded(<<f, k>>)
                 /\ m.history[k].usage <= u.history[k].usage
                 /\ u.history[k].path = m.history[k].path
      <4>1. u.history[k] = m.history[k]
        BY <2>1, <3>2 DEF LastAs
      <4>2. m.history[k].usage = Recorded(<<f, k>>)
        BY <1>1, <3>2 DEF Booked
      <4> QED
        BY <1>2, <4>1, <4>2
    <3> QED
      BY <3>1, <3>2
  <2>5. Current(f, u)
    BY <2>2, <2>4 DEF Current
  <2>6. \A k \in 1 .. MaxAttempts : Recorded(<<f, k>>) # 0 =>
          k \in Numbers(u) /\ u.history[k].path
    BY <1>1, <2>2, <2>4 DEF Booked
  <2>7. Booked(f, u)
    BY <1>1, <2>5, <2>6, CurrentIsBooked
  <2>8. ASSUME NEW p \in Entry, BehindTask(p, m) PROVE BehindTask(p, u)
    <3>1. Len(p.history) \in Nat /\ n \in Nat
      BY <1>1, TaskFacts, Bounds
    <3>2. Len(p.history) <= Len(u.history) /\ Numbers(p) \subseteq Numbers(m)
      BY <2>2, <2>8, <3>1 DEF BehindTask, Numbers
    <3>3. ASSUME NEW k \in Numbers(p) PROVE p.history[k].usage <= u.history[k].usage
      <4>1. /\ p.history[k].usage \in Nat /\ m.history[k].usage \in Nat
            /\ u.history[k].usage \in Nat
        BY <1>1, <1>2, <2>2, <3>2, TaskFacts
      <4>2. /\ p.history[k].usage <= m.history[k].usage
            /\ m.history[k].usage <= u.history[k].usage
        BY <2>4, <2>8, <3>2 DEF BehindTask
      <4> QED
        BY <4>1, <4>2
    <3> QED
      BY <3>2, <3>3 DEF BehindTask
  <2> QED
    BY <2>5, <2>7, <2>8
<1> QED
  BY <1>3, <1>4

LEMMA BegunFacts ==
    ASSUME IInv, Course, Books, mem.pc = "begun"
    PROVE  /\ Busy /\ ~ Down /\ mem.active.id \in Runs
           /\ log.spent[mem.active.id] = 0 /\ log.late[mem.active.id] = 0
           /\ mem.active.start = Total(mem.tasks)
           /\ BookedIn(mem.tasks) /\ Behind
           /\ Since(Total(Accounted(mem.active.id, queue)), mem.active.start) = 0
<1>1. Busy /\ ~ Down /\ mem.active.id \in Runs
  BY RunFacts, UnderWayIs
<1>2. log.spent[mem.active.id] = 0 /\ log.late[mem.active.id] = 0
  BY <1>1, BooksParts DEF Unspent
<1>3. /\ mem.active.start = Total(mem.tasks) /\ Foreign(queue, mem.active.id)
      /\ BookedIn(mem.tasks) /\ Behind
  BY BooksParts DEF Began
<1>4. queue \in Queue /\ mem.tasks \in Queue /\ side \in Side
  BY Parts
<1> DEFINE n == Total(queue)
           s == mem.active.start
<1>5. Total(Accounted(mem.active.id, queue)) = n
  BY <1>1, <1>3, <1>4, ForeignTotal
<1>6. n <= s
  BY <1>3, <1>4, TotalGrows DEF Behind
<1>7. n \in Nat /\ s \in Nat
  BY <1>3, <1>4, TotalType
<1> HIDE DEF n, s
<1>8. Since(n, s) = 0
  BY <1>6, <1>7, SinceIs
<1> QED
  BY <1>1, <1>2, <1>3, <1>5, <1>8 DEF s

LEMMA RecoverRunBooks ==
    ASSUME IInv, Course, Books, RecoverRun PROVE Books'
<1>1. /\ mem.pc = "begun" /\ side' = side
      /\ \E t \in Queue : \E l \in LogNow :
           /\ \A f \in Files : Mended(f, mem.tasks, t[f])
           /\ SeenAs(l) /\ LateAs(l, Since(Total(t), Total(mem.tasks)))
           /\ Outcome(t, l, "files", {}, "archive", {})
  BY CourseParts, RecoverRunEffect
<1>2. PICK t \in Queue, l \in LogNow :
        /\ \A f \in Files : Mended(f, mem.tasks, t[f])
        /\ SeenAs(l) /\ LateAs(l, Since(Total(t), Total(mem.tasks)))
        /\ Outcome(t, l, "files", {}, "archive", {})
  BY <1>1
<1>3. PICK q \in {queue, t} : queue' = q
  BY <1>2 DEF Outcome
<1> DEFINE a == mem.active.id
           s == mem.active.start
           x == Total(t)
<1>4. /\ Busy /\ ~ Down /\ a \in Runs /\ log.spent[a] = 0 /\ log.late[a] = 0
      /\ s = Total(mem.tasks) /\ BookedIn(mem.tasks) /\ Behind
      /\ Since(Total(Accounted(a, queue)), s) = 0
  BY <1>1, BegunFacts
<1>5. mem.tasks \in Queue /\ queue \in Queue /\ side \in Side
  BY Parts
<1>6. \A f \in Files : /\ Booked(f, t[f]) /\ Current(f, t[f])
                       /\ BehindTask(queue[f], t[f])
                       /\ BehindTask(mem.tasks[f], t[f])
  <2>1. \A f \in Files : queue[f] \in Entry /\ mem.tasks[f] \in Entry
    BY <1>5, FileFacts
  <2>2. \A f \in Files : BehindTask(mem.tasks[f], mem.tasks[f])
    BY <1>5, SameBehind
  <2>3. \A f \in Files : BehindTask(queue[f], mem.tasks[f])
    BY <1>4 DEF Behind
  <2> QED
    BY <1>2, <1>4, <1>5, <2>1, <2>2, <2>3, MendedBooks
<1>7. BookedIn(t) /\ RecordedStays /\ Priors'
  BY <1>1, <1>6, SameSide, BooksParts DEF BookedIn
<1>8. /\ l.spent = log.spent /\ l.mixed = log.mixed /\ l.spent[a] = 0
      /\ \A r \in Runs : r # a => l.late[r] = log.late[r]
  BY <1>2, <1>4 DEF SeenAs, LateAs
<1>9. s \in Nat /\ x \in Nat /\ s <= x /\ x = SpentInAll
  <2>1. s <= x
    BY <1>4, <1>5, <1>6, TotalGrows
  <2>2. x = Size(Checkpoints)
    BY <1>5, <1>6, <1>7, FullTotal
  <2> QED
    BY <1>4, <1>5, <2>1, <2>2, TotalType, BooksParts DEF Balance
<1>10. l.late[a] = x - s
  <2>1. l.late[a] = log.late[a] + Since(x, s)
    BY <1>2, <1>4 DEF LateAs
  <2> HIDE DEF x, s, a
  <2>2. Since(x, s) = x - s
    BY <1>9 DEF Since
  <2> QED
    BY <1>4, <1>9, <2>1, <2>2
<1>11. s + l.spent[a] + l.late[a] = SpentInAll
  <2> DEFINE y == l.late[a]
             z == l.spent[a]
  <2>1. y = x - s /\ z = 0
    BY <1>8, <1>10
  <2> HIDE DEF x, s, y, z
  <2>2. s + z + y = x
    BY <1>9, <2>1
  <2> QED
    BY <1>9, <2>2 DEF y, z
<1>12. \A f \in Files : OwnOrCurrent(f, t[f], a)
  BY <1>6, OwnIsCurrent
<1>13. InFiles(t, t, l)
  BY <1>6, <1>11, <1>12 DEF InFiles
<1>14. /\ Since(Total(Accounted(a, t)), s) \in ChargeIn(l, a)
       /\ Since(Total(t), s) \in ChargeIn(l, a)
  BY <1>4, <1>6, <1>7, <1>11, <1>12, InFilesTotals
<1>15. Since(Total(Accounted(a, q)), s) \in ChargeIn(l, a)
  <2>1. 0 \in ChargeIn(l, a)
    BY <1>8 DEF ChargeIn
  <2> QED
    BY <1>3, <1>4, <1>14, <2>1
<1> DEFINE pc == "files"
           pc2 == "archive"
           live == {}
<1>16. /\ Outcome(t, l, pc, live, pc2, live) /\ pc2 # "files"
       /\ pc \in {"files", "archive"} /\ pc2 \in {"files", "archive"}
  BY <1>2
<1>17. \A f \in Files : BehindTask(queue[f], t[f])
  BY <1>6
<1> HIDE DEF pc, pc2, live
<1> QED
  BY <1>3, <1>4, <1>7, <1>8, <1>13, <1>14, <1>15, <1>16, <1>17, SaveBooks DEF a, s

LEMMA PrepareFailsBooks ==
    ASSUME IInv, Course, Books, PrepareFails PROVE Books'
<1>1. /\ mem.pc = "begun" /\ side' = side
      /\ \E l \in LogNow :
           /\ SeenAs(l) /\ l.late = log.late
           /\ Outcome(mem.tasks, l, "archive", {}, "archive", {})
  BY PrepareFailsEffect
<1>2. PICK l \in LogNow :
        /\ SeenAs(l) /\ l.late = log.late
        /\ Outcome(mem.tasks, l, "archive", {}, "archive", {})
  BY <1>1
<1> DEFINE a == mem.active.id
           s == mem.active.start
           t == mem.tasks
           q == queue
<1>3. /\ Busy /\ ~ Down /\ a \in Runs /\ log.spent[a] = 0
      /\ s = Total(t) /\ BookedIn(t) /\ Behind
      /\ Since(Total(Accounted(a, q)), s) = 0
  BY <1>1, BegunFacts
<1>4. t \in Queue /\ q \in {queue, t} /\ queue' = q
  BY Parts DEF PrepareFails
<1>5. RecordedStays /\ Priors'
  BY <1>1, SameSide, BooksParts
<1>6. 0 \in ChargeIn(l, a)
  BY <1>2, <1>3 DEF SeenAs, ChargeIn
<1>7. Since(Total(t), s) = 0
  <2>1. s \in Nat
    BY <1>3, <1>4, TotalType
  <2> HIDE DEF s
  <2> QED
    BY <1>3, <2>1, SinceIs
<1>8. /\ l.spent = log.spent /\ l.mixed = log.mixed /\ l.late = log.late
      /\ \A f \in Files : BehindTask(queue[f], t[f])
  BY <1>2, <1>3 DEF SeenAs, Behind
<1>9. Since(Total(t), s) \in ChargeIn(l, a)
  BY <1>6, <1>7
<1>10. Since(Total(Accounted(a, q)), s) \in ChargeIn(l, a)
  BY <1>3, <1>6
<1> DEFINE pc == "archive"
           live == {}
<1>11. /\ Outcome(t, l, pc, live, pc, live) /\ pc # "files"
       /\ pc \in {"files", "archive"}
  BY <1>2
<1> HIDE DEF pc, live, t, q
<1> QED
  BY <1>3, <1>4, <1>5, <1>8, <1>9, <1>10, <1>11, SaveBooks DEF a, s

LEMMA EndRunBooks ==
    ASSUME IInv, Course, Books, EndRun PROVE Books'
<1>1. /\ mem.pc = "files" /\ side' = side
      /\ \E l \in LogNow :
           /\ SeenAs(l) /\ l.late = log.late
           /\ Outcome(mem.tasks, l, "archive", {}, "archive", {})
  BY CourseParts, EndRunEffect
<1>2. PICK l \in LogNow :
        /\ SeenAs(l) /\ l.late = log.late
        /\ Outcome(mem.tasks, l, "archive", {}, "archive", {})
  BY <1>1
<1> DEFINE a == mem.active.id
           s == mem.active.start
           t == mem.tasks
<1>3. /\ Busy /\ ~ Down /\ a \in Runs /\ InFiles(queue, t, log)
      /\ BookedIn(t) /\ Behind
  BY <1>1, FilesFacts
<1>4. PICK q \in {queue, t} : queue' = q
  BY <1>2 DEF Outcome
<1>5. t \in Queue /\ q \in Queue /\ BookedIn(q)
  BY <1>3, Parts, BooksParts
<1>6. /\ l.spent = log.spent /\ l.mixed = log.mixed /\ l.late = log.late
      /\ \A f \in Files : BehindTask(queue[f], t[f])
  BY <1>2, <1>3 DEF SeenAs, Behind
<1>7. /\ s + l.spent[a] + l.late[a] = SpentInAll
      /\ \A f \in Files : Current(f, t[f]) /\ OwnOrCurrent(f, queue[f], a)
  BY <1>3, <1>6 DEF InFiles
<1>8. \A f \in Files : OwnOrCurrent(f, t[f], a)
  BY <1>7, OwnIsCurrent
<1>9. \A f \in Files : OwnOrCurrent(f, q[f], a)
  BY <1>7, <1>8
<1>10. /\ Since(Total(Accounted(a, q)), s) \in ChargeIn(l, a)
       /\ Since(Total(t), s) \in ChargeIn(l, a)
  BY <1>3, <1>5, <1>7, <1>9, InFilesTotals
<1>11. RecordedStays /\ Priors'
  BY <1>1, SameSide, BooksParts
<1> DEFINE pc == "archive"
           live == {}
<1>12. /\ Outcome(t, l, pc, live, pc, live) /\ pc # "files"
       /\ pc \in {"files", "archive"}
  BY <1>2
<1> HIDE DEF pc, live, t
<1> QED
  BY <1>3, <1>4, <1>5, <1>6, <1>10, <1>11, <1>12, SaveBooks DEF a, s

(* Between runs nothing is charged. *)
LEMMA IdleBooks ==
    ASSUME IInv, Course, Books, ~ Down, ~ Busy, mem.active.id = NoRun, side' = side,
           NEW t \in Queue, NEW pc \in {"idle", "retry"}, NEW pc2 \in {"idle", "retry"},
           Outcome(t, log, pc, {}, pc2, {}),
           \A f \in Files : Booked(f, t[f]) /\ BehindTask(queue[f], t[f])
    PROVE  Books'
<1>1. PICK q \in {queue, t} : queue' = q
  BY DEF Outcome
<1>2. RecordedStays /\ Priors' /\ BookedIn(t)
  BY SameSide, BooksParts DEF BookedIn
<1> DEFINE l == log
           live == {}
<1>3. /\ l \in LogNow /\ l.spent = log.spent /\ l.mixed = log.mixed
      /\ l.late = log.late /\ Outcome(t, l, pc, live, pc2, live)
  BY Parts
<1>4. /\ pc # "files" /\ pc2 # "files" /\ pc # "archive" /\ pc2 # "archive"
  OBVIOUS
<1> HIDE DEF l, live
<1> QED
  BY <1>1, <1>2, <1>3, <1>4, SaveBooks

LEMMA RetryBooks ==
    ASSUME IInv, Course, Books, Retry PROVE Books'
<1>1. /\ mem.pc = "idle" /\ mem.active.id = NoRun /\ side' = side
      /\ \E t \in Queue :
           /\ \A f \in Files : Mended(f, mem.tasks, t[f])
           /\ Outcome(t, log, "retry", {}, "idle", {})
  BY CourseParts, RetryEffect
<1>2. PICK t \in Queue :
        /\ \A f \in Files : Mended(f, mem.tasks, t[f])
        /\ Outcome(t, log, "retry", {}, "idle", {})
  BY <1>1
<1>3. BookedIn(mem.tasks) /\ Behind /\ ~ Down /\ ~ Busy
  BY <1>1, BooksParts DEF Down, Busy
<1>4. \A f \in Files : Booked(f, t[f]) /\ BehindTask(queue[f], t[f])
  <2>1. \A f \in Files : queue[f] \in Entry /\ BehindTask(queue[f], mem.tasks[f])
    BY <1>3, FileFacts, Parts DEF Behind
  <2> QED
    BY <1>2, <1>3, <2>1, MendedBooks, Parts
<1> QED
  BY <1>1, <1>2, <1>3, <1>4, IdleBooks

LEMMA RetriedBooks ==
    ASSUME IInv, Course, Books, NEW f \in Files, Retried(f) PROVE Books'
<1>1. /\ mem.pc = "retry" /\ mem.active.id = NoRun /\ side' = side
      /\ \E u \in Entry :
           /\ u.history = mem.tasks[f].history
           /\ With(f, u) \in Queue
           /\ Outcome(With(f, u), log, "idle", {}, "idle", {})
  BY CourseParts, RetriedEffect
<1>2. PICK u \in Entry :
        /\ u.history = mem.tasks[f].history
        /\ With(f, u) \in Queue
        /\ Outcome(With(f, u), log, "idle", {}, "idle", {})
  BY <1>1
<1>3. /\ BookedIn(mem.tasks) /\ Behind /\ ~ Down /\ ~ Busy
      /\ mem.tasks[f].status # "running"
  <2>1. mem.tasks[f].status # "running"
    BY <1>1, CourseParts DEF Loaded, Running
  <2> QED
    BY <1>1, <2>1, BooksParts DEF Down, Busy
<1> DEFINE t == With(f, u)
<1>4. t \in Queue /\ Outcome(t, log, "idle", {}, "idle", {})
  BY <1>2
<1>5. \A g \in Files : t[g].history = mem.tasks[g].history
                       /\ (t[g] = mem.tasks[g] \/ mem.tasks[g].status # "running")
  BY <1>2, <1>3, Parts DEF With, Queue
<1> HIDE DEF t
<1>6. ASSUME NEW g \in Files PROVE Booked(g, t[g]) /\ BehindTask(queue[g], t[g])
  <2>1. Booked(g, mem.tasks[g]) /\ BehindTask(queue[g], mem.tasks[g])
    BY <1>3 DEF BookedIn, Behind
  <2>2. Booked(g, t[g])
    BY <1>5, <2>1 DEF Booked, Numbers
  <2>3. BehindTask(queue[g], t[g])
    BY <1>5, <2>1 DEF BehindTask
  <2> QED
    BY <2>2, <2>3
<1> QED
  BY <1>1, <1>3, <1>4, <1>6, IdleBooks


-----------------------------------------------------------------------------
(* The books while no files are under way. *)

(* What every open record will be charged with once its run is cut off. *)
LEMMA DueNow ==
    ASSUME IInv, Course, Books
    PROVE  \A r \in OpenRuns :
             Since(Total(Accounted(r, queue)), rec[r].start) \in Charge(r)
<1> SUFFICES ASSUME NEW r \in OpenRuns
             PROVE  Since(Total(Accounted(r, queue)), rec[r].start) \in Charge(r)
  OBVIOUS
<1>1. CASE ~ Busy
  BY <1>1, BooksParts DEF Due
<1>2. CASE Busy
  <2>1. r = mem.active.id /\ rec[r].start = mem.active.start /\ r \in Runs
    <3>1. ~ Down
      BY <1>2 DEF Busy, Down
    <3>2. OpenRuns \subseteq {mem.active.id}
      BY <1>2, <3>1, OpenIsActive
    <3> QED
      BY <1>2, <3>2, CourseParts, OpenRecord
  <2>2. CASE mem.pc = "begun"
    <3>1. /\ Since(Total(Accounted(r, queue)), rec[r].start) = 0
          /\ log.spent[r] = 0
      BY <2>1, <2>2, BegunFacts
    <3> QED
      BY <3>1 DEF Charge
  <2>3. CASE mem.pc = "files"
    <3>1. InFiles(queue, mem.tasks, log) /\ log \in LogNow
      BY <2>3, FilesFacts
    <3>2. /\ mem.active.start + log.spent[mem.active.id] + log.late[mem.active.id]
               = SpentInAll
          /\ \A f \in Files : OwnOrCurrent(f, queue[f], mem.active.id)
      BY <3>1 DEF InFiles
    <3>3. queue \in Queue /\ BookedIn(queue) /\ mem.active.id \in Runs
      BY <2>1, Parts, BooksParts
    <3>4. Since(Total(Accounted(mem.active.id, queue)), mem.active.start)
            \in ChargeIn(log, mem.active.id)
      BY <3>1, <3>2, <3>3, InFilesTotals
    <3> QED
      BY <2>1, <3>4 DEF Charge, ChargeIn
  <2> QED
    BY <1>2, <2>2, <2>3 DEF Busy
<1> QED
  BY <1>1, <1>2

LEMMA DueStays ==
    ASSUME IInv, Course, Books, queue' = queue, side' = side,
           log'.spent = log.spent, log'.late = log.late,
           \A r \in OpenRuns' : r \in OpenRuns /\ rec'[r].start = rec[r].start
    PROVE  Due'
<1>1. ASSUME NEW r \in OpenRuns'
      PROVE  Since(Total(Accounted(r, queue)), rec[r].start)' \in Charge(r)'
  <2>1. r \in OpenRuns /\ rec'[r].start = rec[r].start /\ r \in Runs
    BY DEF OpenRuns
  <2>2. RecordedStays /\ queue \in Queue
    BY SameSide, Parts
  <2>3. Total(Accounted(r, queue))' = Total(Accounted(r, queue))
    BY <2>1, <2>2, AccountedStays
  <2>4. Since(Total(Accounted(r, queue)), rec[r].start)'
          = Since(Total(Accounted(r, queue)), rec[r].start)
    BY <2>1, <2>3 DEF Since
  <2>5. Charge(r)' = Charge(r)
    BY DEF Charge
  <2> QED
    BY <2>1, <2>4, <2>5, DueNow
<1> QED
  BY <1>1 DEF Due

(* The queue and the checkpoints are left alone, and no run is under way. *)
LEMMA StillBooks ==
    ASSUME IInv, Books, queue' = queue, side' = side,
           log'.spent = log.spent, log'.late = log.late, log.mixed \subseteq log'.mixed,
           \/ mem' = Closed
           \/ mem'.tasks = mem.tasks /\ mem.pc # "closed"
           \/ mem'.tasks = queue,
           ~ Busy',
           \A r \in Runs : rec'[r].status = "none" => rec[r].status = "none",
           Over', Due', ChargedToItsRun'
    PROVE  Books'
<1>1. RecordedStays /\ Priors' /\ Balance'
  BY SameSide, BalanceStays, BooksParts
<1>2. BookedIn(queue)'
  BY <1>1, BookedStays, BooksParts, Parts
<1>3. CASE mem' = Closed
  <2>1. mem'.pc = "closed"
    BY <1>3, ClosedType
  <2> QED
    BY <1>1, <1>2, <2>1, BooksParts DEF Books, Unspent, Began, Works
<1>4. CASE mem'.tasks = mem.tasks /\ mem.pc # "closed"
  <2>1. BookedIn(mem.tasks)'
    BY <1>1, <1>4, BookedStays, BooksParts, Parts
  <2>2. Behind'
    BY <1>4, BooksParts DEF Behind, BehindTask, Numbers
  <2>3. Unspent' /\ Began' /\ Works'
    BY BooksParts DEF Unspent, Began, Works, Busy
  <2> QED
    BY <1>1, <1>2, <2>1, <2>2, <2>3 DEF Books
<1>5. CASE mem'.tasks = queue
  <2>1. BookedIn(mem.tasks)'
    BY <1>1, <1>5, BookedStays, BooksParts, Parts
  <2>2. Behind'
    <3>1. \A f \in Files : BehindTask(queue[f], queue[f])
      BY SameBehind, Parts
    <3> QED
      BY <1>5, <3>1 DEF Behind, BehindTask, Numbers
  <2>3. Unspent' /\ Began' /\ Works'
    BY BooksParts DEF Unspent, Began, Works, Busy
  <2> QED
    BY <1>1, <1>2, <2>1, <2>2, <2>3 DEF Books
<1> QED
  BY <1>3, <1>4, <1>5

LEMMA OpenBooks == ASSUME IInv, Course, Books, Open PROVE Books'
<1>1. /\ mem.pc \in {"closed", "idle"} /\ mem'.pc = "load" /\ mem'.tasks = queue
      /\ UNCHANGED <<queue, side, rec, evid, log>>
  BY OpenEffect
<1>2. Over' /\ ~ Busy'
  BY <1>1 DEF Over, Busy
<1>3. Due'
  BY <1>1, DueStays DEF OpenRuns
<1>4. ChargedToItsRun'
  BY <1>1, BooksParts, ChargeStays DEF Finished
<1> QED
  BY <1>1, <1>2, <1>3, <1>4, StillBooks

LEMMA LoadBooks == ASSUME IInv, Course, Books, LoadDone \/ LoadFails PROVE Books'
<1>1. /\ mem.pc = "load" /\ mem'.pc = "idle" /\ mem'.tasks = mem.tasks
      /\ mem'.active.id = NoRun
      /\ UNCHANGED <<queue, side, rec, evid>> /\ OpenRuns' = {}
      /\ log'.spent = log.spent /\ log'.late = log.late
      /\ log.mixed \subseteq log'.mixed
  BY CourseParts, LoadEffect
<1>2. Over' /\ ~ Busy' /\ Due'
  BY <1>1 DEF Over, Busy, Due
<1>3. ChargedToItsRun'
  BY <1>1, BooksParts, ChargeStays DEF Finished
<1> QED
  BY <1>1, <1>2, <1>3, StillBooks

LEMMA LeaveBooks == ASSUME IInv, Course, Books, Close \/ Crash PROVE Books'
<1>1. EndsSeen(log) /\ LogsAs(log) /\ UNCHANGED <<queue, side, rec, evid>>
  BY CourseParts, LeaveEffect
<1>2. /\ mem' = Closed /\ mem'.pc = "closed" /\ log'.spent = log.spent
      /\ log'.late = log.late /\ log'.mixed = log.mixed
  BY <1>1, ClosedType DEF EndsSeen, LogsAs
<1>3. Over' /\ ~ Busy'
  BY <1>2 DEF Over, Busy
<1>4. Due'
  BY <1>1, <1>2, DueStays DEF OpenRuns
<1>5. ChargedToItsRun'
  BY <1>1, <1>2, BooksParts, ChargeStays DEF Finished
<1> QED
  BY <1>1, <1>2, <1>3, <1>4, <1>5, StillBooks

(* A record is completed with what its run is due. *)
LEMMA CompletesBooks ==
    ASSUME IInv, Course, Books, NEW r \in Runs, NEW status \in Final,
           NEW start, NEW tasks, Completes(r, status, start, tasks),
           r \notin log.mixed => Since(Total(tasks), start) \in Charge(r),
           rec[r].status # "none", queue' = queue, side' = side, ~ Busy',
           log'.spent = log.spent, log'.late = log.late, log.mixed \subseteq log'.mixed,
           mem' = Closed \/ (mem'.tasks = mem.tasks /\ mem.pc # "closed"), Over'
    PROVE  Books'
<1>1. /\ \A e \in Runs \ {r} : rec'[e] = rec[e]
      /\ rec'[r] = rec[r]
         \/ /\ rec'[r].status = status
            /\ rec'[r].usage = Since(Total(tasks), start)
  BY DEF Completes, Becomes
<1>2. /\ OpenRuns' \subseteq OpenRuns
      /\ \A e \in Runs : rec[e].status # "none" => rec'[e].status # "none"
  BY CourseParts, CompletesKinds
<1>3. Due'
  <2>1. ASSUME NEW e \in OpenRuns' PROVE e \in OpenRuns /\ rec'[e].start = rec[e].start
    <3>1. e \in OpenRuns /\ e \in Runs /\ rec'[e].status = "running"
      BY <1>2 DEF OpenRuns
    <3> QED
      BY <1>1, <3>1 DEF Final
  <2> QED
    BY <2>1, DueStays
<1>4. ChargedToItsRun'
  <2>1. ASSUME NEW e \in Runs \ log'.mixed, Finished(e)'
        PROVE  rec'[e].usage \in {log'.spent[e], log'.spent[e] + log'.late[e]}
    <3>1. CASE rec'[e] = rec[e]
      BY <2>1, <3>1, BooksParts DEF ChargedToItsRun, Finished
    <3>2. CASE rec'[e] # rec[e]
      <4>1. e = r /\ rec'[r].usage = Since(Total(tasks), start)
        BY <1>1, <3>2
      <4> QED
        BY <4>1 DEF Charge
    <3> QED
      BY <3>1, <3>2
  <2> QED
    BY <2>1 DEF ChargedToItsRun
<1>5. \A e \in Runs : rec'[e].status = "none" => rec[e].status = "none"
  BY <1>2
<1> QED
  BY <1>3, <1>4, <1>5, StillBooks

LEMMA SettleBooks ==
    ASSUME IInv, Course, Books, NEW r \in Runs, Settle(r) PROVE Books'
<1> DEFINE tasks == Accounted(r, mem.tasks)
           start == rec[r].start
           status == "stopped"
<1>1. /\ mem.pc = "load" /\ mem.active.id = NoRun
      /\ queue' = queue /\ side' = side
      /\ rec[r].status = "running"
      /\ Completes(r, status, start, tasks)
      /\ \/ mem' = mem /\ log' = log
         \/ mem' = Idle /\ LoadErrorLogged
         \/ EndsSeen(log) /\ LogsAs(log)
  BY SettleEffect
<1>2. /\ log'.spent = log.spent /\ log'.late = log.late /\ log.mixed \subseteq log'.mixed
  BY <1>1 DEF LoadErrorLogged, LogsAs
<1>3. r \notin log.mixed => Since(Total(tasks), start) \in Charge(r)
  <2>1. r \notin log.mixed => r \in OpenRuns
    BY <1>1 DEF OpenRuns
  <2>2. mem.tasks = queue
    BY <1>1, CourseParts DEF Loaded
  <2> QED
    BY <2>1, <2>2, DueNow
<1>4. /\ mem' = Closed \/ (mem'.tasks = mem.tasks /\ mem.pc # "closed")
      /\ ~ Busy' /\ Over'
  <2>1. CASE mem' = mem
    BY <1>1, <2>1 DEF Busy, Over
  <2>2. CASE mem' = Idle
    <3>1. mem'.tasks = mem.tasks /\ mem'.pc = "idle" /\ mem'.active.id = NoRun
      BY <1>1, <2>2, IdleType, Parts
    <3> QED
      BY <1>1, <3>1 DEF Busy, Over
  <2>3. CASE EndsSeen(log)
    BY <2>3, ClosedType DEF EndsSeen, Busy, Over
  <2> QED
    BY <1>1, <2>1, <2>2, <2>3
<1>5. status \in Final /\ rec[r].status # "none"
  BY <1>1 DEF Final
<1> HIDE DEF tasks, start, status
<1> QED
  BY <1>1, <1>2, <1>3, <1>4, <1>5, CompletesBooks

LEMMA ArchiveBooks == ASSUME IInv, Course, Books, Archive PROVE Books'
<1> DEFINE r == mem.active.id
           start == mem.active.start
           status == mem.active.status
<1>1. /\ mem.pc \in {"idle", "archive"} /\ r \in Runs
      /\ queue' = queue /\ side' = side /\ status \in Final
      /\ Completes(r, status, start, mem.tasks)
      /\ \/ /\ mem'.pc = "idle" /\ mem'.tasks = mem.tasks /\ log' = log
            /\ mem'.active.id = NoRun
         \/ Stands(mem', mem.tasks, "idle", {}) /\ LogsAs(log)
         \/ EndsSeen(log) /\ LogsAs(log)
  BY CourseParts, ArchiveEffect
<1>2. log'.spent = log.spent /\ log'.late = log.late /\ log.mixed \subseteq log'.mixed
  BY <1>1 DEF LogsAs
<1>3. Since(Total(mem.tasks), start) \in Charge(r)
  BY <1>1, BooksParts DEF Over, NoRun, Runs
<1>4. rec[r].status # "none"
  BY <1>1, CourseParts DEF Starts, Final
<1>5. /\ mem' = Closed \/ (mem'.tasks = mem.tasks /\ mem.pc # "closed")
      /\ ~ Busy' /\ Over'
  <2>1. CASE mem'.pc = "idle" /\ mem'.tasks = mem.tasks /\ mem'.active.id = NoRun
    BY <1>1, <2>1 DEF Busy, Over
  <2>2. CASE Stands(mem', mem.tasks, "idle", {})
    <3>1. /\ mem'.tasks = mem.tasks /\ mem'.pc = "idle" /\ mem'.active.id = r
          /\ mem'.active.start = start
      BY <2>2 DEF Stands
    <3>2. Total(mem.tasks)' = Total(mem.tasks)
      BY <3>1 DEF Total
    <3>3. Since(Total(mem.tasks), mem.active.start)' = Since(Total(mem.tasks), start)
      BY <3>1, <3>2 DEF Since
    <3>4. Charge(mem.active.id)' = Charge(r)
      BY <1>2, <3>1 DEF Charge
    <3> QED
      BY <1>1, <1>3, <3>1, <3>3, <3>4 DEF Busy, Over
  <2>3. CASE EndsSeen(log)
    BY <2>3, ClosedType DEF EndsSeen, Busy, Over
  <2> QED
    BY <1>1, <2>1, <2>2, <2>3
<1> DEFINE tasks == mem.tasks
<1>6. Completes(r, status, start, tasks) /\ Since(Total(tasks), start) \in Charge(r)
  BY <1>1, <1>3
<1> QED
  BY <1>1, <1>2, <1>4, <1>5, <1>6, CompletesBooks

LEMMA BeginBooks == ASSUME IInv, Course, Books, Begin PROVE Books'
<1>1. /\ mem.pc = "idle" /\ mem.active.id = NoRun
      /\ queue' = queue /\ side' = side
  BY BeginEffect
<1>2. PICK r \in Runs :
        /\ rec[r].status = "none"
        /\ \A e \in Runs \ {r} : rec'[e] = rec[e]
        /\ BeginsRun(r) \/ BeginBreaks(r)
  BY BeginEffect
<1>3. /\ log.spent[r] = 0 /\ log.late[r] = 0 /\ OpenRuns = {}
      /\ Foreign(queue, r)
  <2>1. log.spent[r] = 0 /\ log.late[r] = 0
    BY <1>2, BooksParts DEF Unspent
  <2>2. OpenRuns = {}
    BY <1>1, OpenIsActive DEF Down
  <2>3. NamedIn(queue)
    BY CourseParts
  <2> QED
    BY <1>2, <2>1, <2>2, <2>3 DEF NamedIn, Named, Foreign
<1>4. /\ log'.spent = log.spent /\ log'.late = log.late /\ log.mixed \subseteq log'.mixed
  BY <1>2 DEF BeginsRun, BeginBreaks, LoadErrorLogged, LogsAs
<1>5. rec'[r].status \in {"none", "empty", "running"}
  BY <1>2 DEF BeginsRun, BeginBreaks
<1>6. ChargedToItsRun'
  <2>1. ASSUME NEW k \in Runs, Finished(k)'
        PROVE  Finished(k) /\ rec'[k] = rec[k]
    <3>1. k # r
      BY <1>5, <2>1 DEF Finished, Final
    <3> QED
      BY <1>2, <2>1, <3>1 DEF Finished
  <2> QED
    BY <1>4, <2>1, ChargeStays, BooksParts
<1>7. \A k \in Runs : rec'[k].status = "none" => rec[k].status = "none"
  BY <1>2
<1>8. CASE BeginsRun(r)
  <2>1. /\ mem'.pc = "begun" /\ mem'.tasks = mem.tasks /\ mem'.active.id = r
        /\ mem'.active.start = Total(mem.tasks)
    BY <1>8 DEF BeginsRun
  <2>2. RecordedStays /\ Priors' /\ Balance'
    BY <1>1, <1>4, SameSide, BalanceStays, BooksParts
  <2>3. BookedIn(queue)' /\ BookedIn(mem.tasks)'
    BY <1>1, <2>1, <2>2, BookedStays, BooksParts, Parts
  <2>4. Behind'
    BY <1>1, <2>1, BooksParts DEF Behind, BehindTask, Numbers
  <2>5. Unspent'
    BY <1>3, <1>4, <1>7, <2>1, BooksParts DEF Unspent
  <2>6. Began'
    <3>1. Total(mem.tasks)' = Total(mem.tasks)
      BY <2>1 DEF Total
    <3>2. Foreign(queue, mem.active.id)'
      BY <1>1, <1>3, <2>1 DEF Foreign, Numbers
    <3> QED
      BY <2>1, <3>1, <3>2 DEF Began
  <2>7. Works' /\ Over' /\ Due'
    BY <2>1 DEF Works, Over, Due, Busy
  <2> QED
    BY <1>6, <2>2, <2>3, <2>4, <2>5, <2>6, <2>7 DEF Books
<1>9. CASE BeginBreaks(r)
  <2>1. (mem' = mem /\ LoadErrorLogged) \/ mem' = Closed
    BY <1>9 DEF BeginBreaks
  <2>2. ~ Busy' /\ Over'
    BY <1>1, <2>1, ClosedType DEF Busy, Over
  <2>3. Due'
    <3>1. CASE mem' = mem /\ LoadErrorLogged
      <4>1. OpenRuns' = {}
        BY <3>1, BeginCourse, CourseParts, LoadErrorCloses DEF Course
      <4> QED
        BY <4>1 DEF Due
    <3>2. CASE mem' = Closed
      <4>1. ASSUME NEW k \in OpenRuns'
            PROVE  Since(Total(Accounted(k, queue)), rec[k].start)' \in Charge(k)'
        <5>1. k = r
          BY <1>2, <1>3, <1>4, <4>1 DEF OpenRuns
        <5>2. rec'[r].start = Total(mem.tasks)
          BY <1>9, <4>1, <5>1 DEF OpenRuns, BeginBreaks
        <5>3. RecordedStays /\ queue \in Queue /\ mem.tasks \in Queue /\ side \in Side
          BY <1>1, SameSide, Parts
        <5>4. Total(Accounted(k, queue))' = Total(Accounted(k, queue))
          BY <1>1, <5>1, <5>3, AccountedStays
        <5>5. Total(Accounted(k, queue)) = Total(queue)
          BY <1>3, <5>1, <5>3, ForeignTotal
        <5>6. Total(queue) <= Total(mem.tasks)
          BY <1>1, <5>3, BooksParts, TotalGrows DEF Behind
        <5> DEFINE n == Total(queue)
                   s == Total(mem.tasks)
        <5>7. n \in Nat /\ s \in Nat /\ n <= s
          BY <5>3, <5>6, TotalType
        <5>8. Since(Total(Accounted(k, queue)), rec[k].start)' = Since(n, s)
          BY <5>1, <5>2, <5>4, <5>5 DEF Since
        <5> HIDE DEF n, s
        <5>9. Since(n, s) = 0
          BY <5>7, SinceIs
        <5>10. 0 \in Charge(k)'
          BY <1>3, <1>4, <5>1 DEF Charge
        <5> QED
          BY <5>8, <5>9, <5>10
      <4> QED
        BY <4>1 DEF Due
    <3> QED
      BY <2>1, <3>1, <3>2
  <2> QED
    BY <1>1, <1>4, <1>6, <1>7, <2>1, <2>2, <2>3, StillBooks
<1> QED
  BY <1>2, <1>8, <1>9

(* One turn more, in the checkpoint, in memory and in the history. *)
LEMMA SpendBooks ==
    ASSUME IInv, Course, Books, NEW f \in Files, Spend(f) PROVE Books'
<1>1. PICK n \in 1 .. MaxAttempts, r \in Runs :
        n = Len(mem.tasks[f].history) /\ r = mem.active.id
  <2>1. f \in mem.live /\ mem.active.id \in Runs
    BY SpendEffect
  <2>2. mem.tasks[f] \in Entry /\ mem.tasks[f].history # <<>>
    BY <2>1, LiveTask
  <2> QED
    BY <2>1, <2>2, LastAttempt
<1> DEFINE i == <<f, n>>
<1>2. i = LastId(f, mem.tasks) /\ i \in Ids /\ n \in Nat
  BY <1>1, Bounds DEF LastId, Ids
<1>3. /\ mem.pc = "files" /\ f \in mem.live /\ Last(mem.tasks[f]).path
      /\ UNCHANGED <<queue, rec>>
      /\ side'.point[i].prior = side.point[i].prior
      /\ side'.point[i].total = side.point[i].total + 1
      /\ \A j \in Ids \ {i} : side'.point[j] = side.point[j]
      /\ log'.spent[r] = log.spent[r] + 1
      /\ \A k \in Runs \ {r} : log'.spent[k] = log.spent[k]
      /\ log'.late = log.late /\ log'.mixed = log.mixed
  BY <1>1, <1>2, SpendEffect
<1>4. PICK u \in Entry, a \in Attempt :
        /\ LastAs(mem.tasks[f], u, a) /\ u.status = "running" /\ a.path
        /\ a.usage = Since(side.point[i].total + 1, side.point[i].prior)
        /\ With(f, u) \in Queue
        /\ Stands(mem', With(f, u), "files", mem.live)
  BY <1>1, <1>2, SpendEffect
<1>5. PICK t \in Queue : t = With(f, u) /\ mem'.tasks = t
  BY <1>4 DEF Stands
<1>6. /\ mem'.pc = "files" /\ mem'.active.id = r
      /\ mem'.active.start = mem.active.start
  BY <1>1, <1>4 DEF Stands
<1>7. \A g \in Files : t[g] = IF g = f THEN u ELSE mem.tasks[g]
  BY <1>5, Parts DEF With, Queue
<1>8. side \in Side /\ side' \in Side /\ queue \in Queue /\ mem.tasks \in Queue
      /\ Priors /\ mem.tasks[f] \in Entry
  <2>1. IInv'
    BY SpendStep
  <2>2. side' \in Side
    BY <2>1 DEF IInv, Shapes
  <2> QED
    BY <2>2, Parts, BooksParts, FileFacts
<1> DEFINE c == Recorded(i)
<1>9. /\ Recorded(i)' = c + 1 /\ c \in Nat /\ a.usage = c + 1
      /\ side.point[i].prior <= side.point[i].total
      /\ \A j \in Ids \ {i} : Recorded(j)' = Recorded(j)
  <2> DEFINE p == side.point[i].prior
             e == side.point[i].total
  <2>1. p \in Nat /\ e \in Nat
    BY <1>2, <1>8 DEF Side, Point
  <2>2. p <= e
    BY <1>8 DEF Priors
  <2>3. Recorded(i)' = Since(side'.point[i].total, side'.point[i].prior)
        /\ c = Since(e, p)
    BY DEF Recorded
  <2>4. Recorded(i)' = Since(e + 1, p) /\ a.usage = Since(e + 1, p)
    BY <1>3, <1>4, <2>3
  <2>5. \A j \in Ids \ {i} : Recorded(j)' = Recorded(j)
    <3>1. ASSUME NEW j \in Ids \ {i} PROVE Recorded(j)' = Recorded(j)
      <4>1. side'.point[j] = side.point[j]
        BY <1>3
      <4> QED
        BY <4>1 DEF Recorded
    <3> QED
      BY <3>1
  <2> HIDE DEF p, e, c, i
  <2>6. Since(e + 1, p) = Since(e, p) + 1 /\ Since(e, p) \in Nat
    BY <2>1, <2>2 DEF Since
  <2> QED
    BY <2>2, <2>3, <2>4, <2>5, <2>6 DEF p, e
<1> HIDE DEF c
<1>10. \A g \in Files : \A k \in 1 .. MaxAttempts :
         <<g, k>> # i => Recorded(<<g, k>>)' = Recorded(<<g, k>>)
  BY <1>9 DEF Ids
<1>11. \A g \in Files : \A k \in 1 .. MaxAttempts :
         /\ Recorded(<<g, k>>) \in Nat /\ Recorded(<<g, k>>)' \in Nat
         /\ Recorded(<<g, k>>) <= Recorded(<<g, k>>)'
  <2>1. \A g \in Files : \A k \in 1 .. MaxAttempts : Recorded(<<g, k>>) \in Nat
    BY <1>8, CheckpointFields
  <2>2. Recorded(i) <= Recorded(i)' /\ Recorded(i)' \in Nat
    BY <1>9 DEF c
  <2>3. ASSUME NEW g \in Files, NEW k \in 1 .. MaxAttempts
        PROVE  /\ Recorded(<<g, k>>) \in Nat /\ Recorded(<<g, k>>)' \in Nat
               /\ Recorded(<<g, k>>) <= Recorded(<<g, k>>)'
    <3>1. CASE <<g, k>> = i
      BY <2>1, <2>2, <3>1
    <3>2. CASE <<g, k>> # i
      <4>1. Recorded(<<g, k>>)' = Recorded(<<g, k>>) /\ Recorded(<<g, k>>) \in Nat
        BY <1>10, <2>1, <3>2
      <4> HIDE DEF i
      <4> QED
        BY <4>1
    <3> QED
      BY <3>1, <3>2
  <2> QED
    BY <2>3
<1>12. /\ BookedIn(queue) /\ BookedIn(mem.tasks) /\ Behind
       /\ InFiles(queue, mem.tasks, log)
       /\ SameLast(mem.tasks[f], queue[f], r)
  <2>1. SameLast(mem.tasks[f], queue[f], r)
    BY <1>1, <1>3, CourseParts DEF Levels
  <2> QED
    BY <1>3, <2>1, FilesFacts, BooksParts
<1>13. /\ queue[f].status = "running" /\ Len(queue[f].history) = n
       /\ n \in Numbers(queue[f]) /\ queue[f].history[n].exec = r
       /\ queue[f].history[n].path
  <2>1. n \in Numbers(queue[f]) /\ Len(queue[f].history) = n
    BY <1>1, <1>12, Bounds DEF SameLast, Numbers
  <2>2. mem.tasks[f].history[n].path
    BY <1>1, <1>3 DEF Last
  <2> QED
    BY <1>1, <1>12, <2>1, <2>2 DEF SameLast
<1>14. /\ Len(u.history) = n /\ Numbers(u) = Numbers(mem.tasks[f])
       /\ n \in Numbers(u) /\ u.history[n] = a
       /\ \A k \in Numbers(u) : k # n => u.history[k] = mem.tasks[f].history[k]
  BY <1>1, <1>4, Bounds DEF LastAs, Numbers
<1>15. BookedIn(queue)'
  <2>1. ASSUME NEW g \in Files, NEW k \in Numbers(queue[g])
        PROVE  /\ queue[g].history[k].usage <= Recorded(<<g, k>>)'
               /\ \/ queue[g].status = "running" /\ k = Len(queue[g].history)
                  \/ queue[g].history[k].usage = Recorded(<<g, k>>)'
    <3>1. k \in 1 .. MaxAttempts /\ queue[g].history[k].usage \in Nat
      BY <1>8, FileFacts
    <3>2. /\ queue[g].history[k].usage <= Recorded(<<g, k>>)
          /\ \/ queue[g].status = "running" /\ k = Len(queue[g].history)
             \/ queue[g].history[k].usage = Recorded(<<g, k>>)
      BY <1>12 DEF BookedIn, Booked
    <3>3. queue[g].history[k].usage <= Recorded(<<g, k>>)'
      BY <1>11, <3>1, <3>2
    <3>4. CASE <<g, k>> = i
      BY <1>13, <3>3, <3>4
    <3>5. CASE <<g, k>> # i
      BY <1>10, <3>1, <3>2, <3>3, <3>5
    <3> QED
      BY <3>4, <3>5
  <2>2. ASSUME NEW g \in Files, NEW k \in 1 .. MaxAttempts, Recorded(<<g, k>>)' # 0
        PROVE  k \in Numbers(queue[g]) /\ queue[g].history[k].path
    <3>1. CASE <<g, k>> = i
      BY <1>13, <3>1
    <3>2. CASE <<g, k>> # i
      BY <1>10, <1>12, <2>2, <3>2 DEF BookedIn, Booked
    <3> QED
      BY <3>1, <3>2
  <2>3. \A g \in Files : Booked(g, queue[g])'
    BY <1>3, <2>1, <2>2 DEF Booked, Numbers
  <2> QED
    BY <2>3 DEF BookedIn
<1>16. \A g \in Files : \A k \in Numbers(t[g]) : t[g].history[k].usage = Recorded(<<g, k>>)'
  <2>1. ASSUME NEW g \in Files, NEW k \in Numbers(t[g])
        PROVE  t[g].history[k].usage = Recorded(<<g, k>>)'
    <3>1. k \in 1 .. MaxAttempts
      BY FileFacts
    <3>2. CASE <<g, k>> = i
      BY <1>7, <1>9, <1>14, <3>2
    <3>3. CASE <<g, k>> # i
      <4>1. k \in Numbers(mem.tasks[g]) /\ t[g].history[k] = mem.tasks[g].history[k]
        BY <1>7, <1>14, <3>3
      <4>2. mem.tasks[g].history[k].usage = Recorded(<<g, k>>)
        BY <1>12, <4>1 DEF InFiles, Current
      <4> QED
        BY <1>10, <3>1, <3>3, <4>1, <4>2
    <3> QED
      BY <3>2, <3>3
  <2> QED
    BY <2>1
<1>17. BookedIn(mem.tasks)'
  <2>1. ASSUME NEW g \in Files, NEW k \in Numbers(t[g])
        PROVE  t[g].history[k].usage <= Recorded(<<g, k>>)'
    BY <1>11, <1>16, FileFacts
  <2>2. ASSUME NEW g \in Files, NEW k \in 1 .. MaxAttempts, Recorded(<<g, k>>)' # 0
        PROVE  k \in Numbers(t[g]) /\ t[g].history[k].path
    <3>1. CASE <<g, k>> = i
      BY <1>4, <1>7, <1>14, <3>1
    <3>2. CASE <<g, k>> # i
      <4>1. k \in Numbers(mem.tasks[g]) /\ mem.tasks[g].history[k].path
        BY <1>10, <1>12, <2>2, <3>2 DEF BookedIn, Booked
      <4> QED
        BY <1>7, <1>14, <3>2, <4>1
    <3> QED
      BY <3>1, <3>2
  <2>3. \A g \in Files : Booked(g, mem.tasks[g])'
    BY <1>5, <1>16, <2>1, <2>2 DEF Booked, Numbers
  <2> QED
    BY <2>3 DEF BookedIn
<1>18. Behind'
  <2>1. ASSUME NEW g \in Files PROVE BehindTask(queue[g], t[g])
    <3>1. BehindTask(queue[g], mem.tasks[g])
      BY <1>12 DEF Behind
    <3>2. CASE g # f
      BY <1>7, <3>1, <3>2
    <3>3. CASE g = f
      <4>1. Len(queue[g].history) <= Len(t[g].history)
        BY <1>2, <1>7, <1>13, <1>14, <3>3
      <4>2. ASSUME NEW k \in Numbers(queue[g])
            PROVE  queue[g].history[k].usage <= t[g].history[k].usage
        <5>1. k \in Numbers(t[g])
          BY <1>7, <1>13, <1>14, <3>3 DEF Numbers
        <5>2. /\ k \in 1 .. MaxAttempts /\ queue[g].history[k].usage \in Nat
              /\ queue[g].history[k].usage <= Recorded(<<g, k>>)
          BY <1>8, <1>12, FileFacts DEF BookedIn, Booked
        <5> QED
          BY <1>11, <1>16, <5>1, <5>2
      <4> QED
        BY <4>1, <4>2 DEF BehindTask
    <3> QED
      BY <3>2, <3>3
  <2> QED
    BY <1>3, <1>5, <2>1 DEF Behind, BehindTask, Numbers
<1>19. SpentInAll' = SpentInAll + 1 /\ SpentInAll \in Nat
  BY <1>3, SpentMore, SpentType, Parts
<1>20. Balance'
  <2> DEFINE d == [j \in Ids |-> Recorded(j)']
  <2>1. Checkpoints' = d
    BY DEF Checkpoints
  <2>2. Checkpoints \in Counts /\ d \in Counts
    <3>1. \A j \in Ids : Recorded(j)' \in Nat
      BY <1>11 DEF Ids
    <3>2. d \in Counts
      BY <3>1 DEF Counts
    <3> QED
      BY <1>8, <3>2, CheckpointFields
  <2>3. d[i] = Checkpoints[i] + 1
    BY <1>2, <1>9 DEF Checkpoints, c
  <2>4. \A j \in Ids \ {i} : d[j] = Checkpoints[j]
    BY <1>9 DEF Checkpoints
  <2> HIDE DEF d
  <2>5. Size(d) = Size(Checkpoints) + 1
    BY <1>2, <2>2, <2>3, <2>4, SizeMore
  <2>6. Size(Checkpoints)' = Size(d)
    BY <2>1 DEF Size, Turns
  <2> QED
    BY <1>19, <2>5, <2>6, BooksParts DEF Balance
<1>21. Priors'
  <2>1. \A j \in Ids : Recorded(j) <= Recorded(j)'
    BY <1>11 DEF Ids
  <2>2. ASSUME NEW g \in Files, NEW k \in 1 .. MaxAttempts
        PROVE  /\ side'.point[<<g, k>>].prior <= side'.point[<<g, k>>].total
               /\ side'.point[<<g, k>>].prior <= Before(g, k)
    <3>1. CASE <<g, k>> = i
      <4>1. side.point[i].prior \in Nat /\ side.point[i].total \in Nat
        BY <1>2, <1>8 DEF Side, Point
      <4>2. side.point[i].prior <= Before(g, k)
        BY <1>8, <3>1 DEF Priors
      <4> QED
        BY <1>3, <1>9, <3>1, <4>1, <4>2
    <3>2. CASE <<g, k>> # i
      <4>1. side'.point[<<g, k>>] = side.point[<<g, k>>]
        BY <1>3, <3>2 DEF Ids
      <4> QED
        BY <1>8, <4>1 DEF Priors
    <3> QED
      BY <3>1, <3>2
  <2> QED
    BY <1>8, <2>1, <2>2, PriorsLater
<1>22. Unspent'
  <2>1. rec[r].status = "running"
    BY <1>1, <1>3, RunFacts, CourseParts, OpenRecord DEF Busy
  <2> QED
    BY <1>3, <1>6, <2>1, BooksParts DEF Unspent
<1>23. Works'
  <2>1. mem'.active.start + log'.spent[mem'.active.id] + log'.late[mem'.active.id]
          = SpentInAll'
    <3> DEFINE s == mem.active.start
               x == log.spent[r]
               y == log.late[r]
    <3>1. s + x + y = SpentInAll
      BY <1>1, <1>12 DEF InFiles
    <3>2. s \in Nat /\ x \in Nat /\ y \in Nat
      BY Parts, LogFields
    <3>3. s + (x + 1) + y = SpentInAll + 1
      <4> HIDE DEF s, x, y
      <4> QED
        BY <1>19, <3>1, <3>2
    <3> QED
      BY <1>3, <1>6, <1>19, <3>3
  <2>2. \A g \in Files : Current(g, mem.tasks[g])'
    BY <1>5, <1>16 DEF Current, Numbers
  <2>3. ASSUME NEW g \in Files PROVE OwnOrCurrent(g, queue[g], mem.active.id)'
    <3>1. ASSUME NEW k \in Numbers(queue[g])
          PROVE  \/ queue[g].history[k].exec = r /\ queue[g].history[k].path
                 \/ queue[g].history[k].usage = Recorded(<<g, k>>)'
      <4>1. k \in 1 .. MaxAttempts
        BY <1>8, FileFacts
      <4>2. CASE <<g, k>> = i
        BY <1>13, <4>2
      <4>3. CASE <<g, k>> # i
        BY <1>1, <1>10, <1>12, <4>1, <4>3 DEF InFiles, OwnOrCurrent
      <4> QED
        BY <4>2, <4>3
    <3> QED
      BY <1>3, <1>6, <3>1 DEF OwnOrCurrent, Numbers
  <2> QED
    BY <2>1, <2>2, <2>3 DEF Works
<1>24. Began' /\ Over' /\ Due'
  BY <1>6 DEF Began, Over, Due, Busy
<1>25. ChargedToItsRun'
  <2>1. rec[r].status = "running"
    BY <1>1, <1>3, RunFacts, CourseParts, OpenRecord DEF Busy
  <2>2. ASSUME NEW k \in Runs, Finished(k)'
        PROVE  /\ Finished(k) /\ rec'[k] = rec[k] /\ log'.spent[k] = log.spent[k]
    BY <1>3, <2>1, <2>2 DEF Finished, Final
  <2> QED
    BY <1>3, <2>2, ChargeStays, BooksParts
<1> QED
  BY <1>15, <1>17, <1>18, <1>20, <1>21, <1>22, <1>23, <1>24, <1>25 DEF Books


-----------------------------------------------------------------------------
(* All steps. *)
LEMMA InitBooks == ASSUME IInv, Init PROVE Books
<1>1. /\ mem.pc = "idle" /\ mem.tasks = Closed.tasks /\ queue = Closed.tasks
      /\ mem.active.id = NoRun
      /\ \A i \in Ids : side.point[i].prior = 0 /\ side.point[i].total = 0
      /\ \A r \in Runs : log.spent[r] = 0 /\ log.late[r] = 0
  BY DEF Init, Closed, NoActive, NoPoint
<1>2. \A r \in Runs : rec[r].status = "none"
  BY DEF Init, NoRecord
<1>3. \A f \in Files : \A n \in 1 .. MaxAttempts :
        <<f, n>> \in Ids /\ Recorded(<<f, n>>) = 0
  BY <1>1 DEF Ids, Recorded, Since
<1>4. ASSUME NEW f \in Files PROVE Numbers(Closed.tasks[f]) = {}
  BY DEF Closed, NewTask, Numbers
<1>5. BookedIn(queue) /\ BookedIn(mem.tasks)
  BY <1>1, <1>3, <1>4 DEF BookedIn, Booked
<1>6. Behind
  <2>1. ASSUME NEW f \in Files PROVE BehindTask(queue[f], mem.tasks[f])
    <3>1. Len(queue[f].history) <= Len(mem.tasks[f].history)
      <4>1. queue[f].history = <<>> /\ mem.tasks[f].history = <<>>
        BY <1>1 DEF Closed, NewTask
      <4> QED
        BY <4>1
    <3> QED
      BY <1>1, <1>4, <3>1 DEF BehindTask
  <2> QED
    BY <2>1 DEF Behind
<1>7. Balance
  <2>1. Turns(Checkpoints) = {}
    <3>1. /\ Checkpoints \in Counts
          /\ \A f \in Files : \A n \in 1 .. MaxAttempts : Checkpoints[<<f, n>>] = 0
      BY <1>3, CheckpointFields, Parts
    <3>2. ASSUME NEW x \in Turns(Checkpoints) PROVE FALSE
      <4>1. PICK f \in Files, n \in 1 .. MaxAttempts, k \in Int :
              k \in 1 .. Checkpoints[<<f, n>>]
        BY <3>1, TurnsIn
      <4> QED
        BY <3>1, <4>1
    <3> QED
      BY <3>2
  <2>2. UNION {{r} \X (1 .. log.spent[r]) : r \in Runs} = {}
    <3>1. \A r \in Runs : 1 .. log.spent[r] = {}
      BY <1>1
    <3> QED
      BY <3>1
  <2> QED
    BY <2>1, <2>2 DEF Balance, Size, SpentInAll
<1>8. Priors
  <2>1. ASSUME NEW f \in Files, NEW n \in 1 .. MaxAttempts PROVE Before(f, n) = 0
    <3>1. \A k \in 1 .. n - 1 : 1 .. Recorded(<<f, k>>) = {}
      <4>1. \A k \in 1 .. n - 1 : k \in 1 .. MaxAttempts
        BY Bounds
      <4> QED
        BY <1>3, <4>1
    <3>2. UNION {{k} \X (1 .. Recorded(<<f, k>>)) : k \in 1 .. n - 1} = {}
      BY <3>1
    <3> QED
      BY <3>2, FS_EmptySet DEF Before
  <2>2. ASSUME NEW f \in Files, NEW n \in 1 .. MaxAttempts
        PROVE  /\ side.point[<<f, n>>].prior <= side.point[<<f, n>>].total
               /\ side.point[<<f, n>>].prior <= Before(f, n)
    <3>1. side.point[<<f, n>>].prior = 0 /\ side.point[<<f, n>>].total = 0
      BY <1>1, <1>3
    <3> QED
      BY <2>1, <3>1
  <2> QED
    BY <2>2 DEF Priors
<1>9. OpenRuns = {}
  BY <1>2 DEF OpenRuns
<1> QED
  BY <1>1, <1>2, <1>5, <1>6, <1>7, <1>8, <1>9
  DEF Books, Unspent, Began, Works, Over, Due, ChargedToItsRun, Finished, Final

LEMMA NextBooks == ASSUME IInv, Course, Books, [Next]_vars PROVE Books'
<1>1. CASE UNCHANGED vars
  <2>1. UNCHANGED <<mem, queue, side, rec, evid, log>>
    BY <1>1 DEF vars
  <2>2. RecordedStays /\ Priors' /\ Balance'
    BY <2>1, SameSide, BalanceStays, BooksParts
  <2>3. BookedIn(queue)'
    BY <2>1, <2>2, BookedStays, BooksParts, Parts
  <2>4. mem'.pc # "closed" => BookedIn(mem.tasks)'
    BY <2>1, <2>2, BookedStays, BooksParts, Parts
  <2>5. mem'.pc # "closed" => Behind'
    BY <2>1, BooksParts DEF Behind, BehindTask, Numbers
  <2>6. Unspent' /\ Began' /\ Over'
    BY <2>1, BooksParts
    DEF Unspent, Began, Over, Total, Foreign, Numbers, Charge, Since, TurnsOf
  <2>7. Works'
    <3>1. \A f \in Files : Current(f, mem.tasks[f]) => Current(f, mem.tasks[f])'
      BY <2>1 DEF Current, Numbers, Recorded
    <3>2. \A f \in Files : OwnOrCurrent(f, queue[f], mem.active.id)
                             => OwnOrCurrent(f, queue[f], mem.active.id)'
      BY <2>1 DEF OwnOrCurrent, Numbers, Recorded
    <3>3. SpentInAll' = SpentInAll
      BY <2>1 DEF SpentInAll
    <3> QED
      BY <2>1, <3>1, <3>2, <3>3, BooksParts DEF Works
  <2>8. Due'
    <3>1. OpenRuns' = OpenRuns /\ OpenRuns \subseteq Runs
      BY <2>1 DEF OpenRuns
    <3>2. ASSUME NEW r \in OpenRuns
          PROVE  Total(Accounted(r, queue))' = Total(Accounted(r, queue))
      BY <2>1, <2>2, <3>1, AccountedStays, Parts
    <3>3. ASSUME NEW r \in OpenRuns, ~ Busy
          PROVE  Since(Total(Accounted(r, queue))', rec'[r].start) \in Charge(r)'
      <4>1. Since(Total(Accounted(r, queue)), rec[r].start) \in Charge(r)
        BY <3>3, BooksParts DEF Due
      <4> QED
        BY <2>1, <3>2, <4>1 DEF Charge
    <3> QED
      BY <2>1, <3>1, <3>3 DEF Due, Busy, Since
  <2>9. ChargedToItsRun'
    BY <2>1, BooksParts DEF ChargedToItsRun, Finished
  <2> QED
    BY <2>2, <2>3, <2>4, <2>5, <2>6, <2>7, <2>8, <2>9 DEF Books
<1>2. CASE Next
  BY <1>2, OpenBooks, SettleBooks, LoadBooks, BeginBooks, RecoverRunBooks,
     PrepareFailsBooks, BeginAttemptBooks, StageBooks, AttachBooks, SpendBooks,
     FinishAttemptBooks, EndRunBooks, ArchiveBooks, RetryBooks, RetriedBooks,
     LeaveBooks DEF Next
<1> QED
  BY <1>1, <1>2

-----------------------------------------------------------------------------
(* The theorems. *)

LEMMA InitIInv == Init => IInv
<1> SUFFICES ASSUME Init PROVE IInv
  OBVIOUS
<1>1. /\ mem \in Process /\ mem.tasks \in Queue /\ mem.pc = "idle"
      /\ mem.live = {} /\ mem.active.id = NoRun
  <2>1. mem = [Closed EXCEPT !.pc = "idle"]
    BY DEF Init
  <2> QED
    BY <2>1, ClosedType DEF Process
<1>2. queue \in Queue
  BY ClosedType DEF Init
<1>3. side \in Side
  BY DEF Init, Side, Point, NoPoint
<1>4. rec \in [Runs -> Record] /\ evid \in [Runs -> [Ids -> Nat]]
  BY NoRecordType DEF Init
<1>5. log \in Log
  BY Bounds DEF Init, Log
<1>6. Stages
  BY <1>1 DEF Stages
<1> QED
  BY <1>1, <1>2, <1>3, <1>4, <1>5, <1>6 DEF IInv, Shapes

LEMMA NextIInv == IInv /\ [Next]_vars => IInv' /\ Kept
<1> SUFFICES ASSUME IInv, [Next]_vars PROVE IInv' /\ Kept
  OBVIOUS
<1>1. CASE UNCHANGED vars
  <2>0. UNCHANGED <<mem, queue, side, rec, evid, log>>
    BY <1>1 DEF vars
  <2>1. Kept
    BY <2>0, Parts, UnchangedKept
  <2>2. Shapes'
    BY <2>0, Parts DEF Shapes
  <2>3. mem.active.id \in Runs /\ Archived(mem.active.id) => Archived(mem.active.id)'
    BY <2>0, OwnersStay, Parts DEF Archived
  <2>4. Stages'
    BY <2>0, <2>3, Parts DEF IInv, Stages, Settled
  <2> QED
    BY <2>1, <2>2, <2>4 DEF IInv
<1>2. CASE Open \/ LoadDone \/ LoadFails \/ Begin \/ RecoverRun \/ PrepareFails
  BY <1>2, OpenStep, LoadStep, BeginStep, RecoverRunStep, PrepareFailsStep
<1>3. CASE EndRun \/ Archive \/ Retry \/ Close \/ Crash
  BY <1>3, EndRunStep, ArchiveStep, RetryStep, CloseStep
<1>4. ASSUME NEW r \in Runs, Settle(r) PROVE IInv' /\ Kept
  BY <1>4, SettleStep
<1>5. ASSUME NEW f \in Files,
             BeginAttempt(f) \/ Stage(f) \/ Attach(f) \/ Spend(f)
               \/ FinishAttempt(f) \/ Retried(f)
      PROVE  IInv' /\ Kept
  BY <1>5, BeginAttemptStep, StageStep, AttachStep, SpendStep, FinishAttemptStep,
     RetriedStep
<1> QED
  BY <1>1, <1>2, <1>3, <1>4, <1>5 DEF Next

LEMMA Invariance == Spec => []IInv
<1>1. Init => IInv
  BY InitIInv
<1>2. IInv /\ [Next]_vars => IInv'
  BY NextIInv
<1> QED
  BY <1>1, <1>2, PTL DEF Spec

(* The queue, the records, the copies and the books keep their shape, however
   often the process ends and the saves fail. *)
THEOREM TypeCorrect == Spec => []TypeOK
<1>1. IInv => TypeOK
  BY QueueType DEF IInv, Shapes, TypeOK, Side, Log
<1> QED
  BY <1>1, Invariance, PTL

(* The record of a finished run and its copies never change again: the next
   process, a retry and a later attempt to archive leave them as they are
   (flushFinishedExecution, loadExecutionRuns, execution_history.go:17). *)
THEOREM FinishedStay == Spec => FinishedKept
<1>1. IInv /\ [Next]_vars => Kept
  BY NextIInv
<1>2. Kept =>
        [\A r \in Runs : Finished(r) =>
           /\ rec'[r] = [rec[r] EXCEPT !.summary = rec'[r].summary]
           /\ evid'[r] = evid[r]]_vars
  BY DEF Kept
<1> QED
  BY <1>1, <1>2, Invariance, PTL DEF Spec, FinishedKept
LEMMA EvidenceInvariance == Spec => [](Course /\ Evidence)
<1>1. Init => Course /\ Evidence
  BY InitCourse, InitEvidence
<1>2. IInv /\ (Course /\ Evidence) /\ [Next]_vars => (Course /\ Evidence)'
  BY NextCourse, NextEvidence
<1> QED
  BY <1>1, <1>2, Invariance, PTL DEF Spec

(* A finished record shows of every attempt what there was when its run ended,
   from its own copies or those of the run that made the attempt, although
   attempts are resumed and overwritten later and runs are cut off and settled
   (freezeExecutionEvidence, execution_history.go). *)
THEOREM EvidenceKept == Spec => []EvidenceOfTheRun
<1>1. Course /\ Evidence => EvidenceOfTheRun
  BY EvidenceParts
<1> QED
  BY <1>1, EvidenceInvariance, PTL

LEMMA BooksInvariance == Spec => [](IInv /\ Course /\ Books)
<1>1. Init => Course /\ Books
  BY InitIInv, InitCourse, InitBooks
<1>2. IInv /\ (Course /\ Books) /\ [Next]_vars => (Course /\ Books)'
  BY NextCourse, NextBooks
<1> QED
  BY <1>1, <1>2, Invariance, PTL DEF Spec

(* Both books agree with what was spent, whatever is resumed, retried, cut
   off and recovered: a finished record is charged with the turns of its run,
   and with those that it recovered of an earlier one; while no file is under
   way the queue counts each turn of all runs once (finishExecution and
   recoverExecutionAccounting, execution_history.go; recountLocked,
   service.go). *)
THEOREM BothBooksAgree == Spec => []BooksAgree
<1>1. IInv /\ Course /\ Books => BooksAgree
  <2> SUFFICES ASSUME IInv, Books PROVE BooksAgree
    OBVIOUS
  <2>1. ASSUME mem.pc = "files" PROVE Total(mem.tasks) = SpentInAll
    <3>1. BookedIn(mem.tasks) /\ Balance /\ \A f \in Files : Current(f, mem.tasks[f])
      BY <2>1, BooksParts DEF Works
    <3>2. Total(mem.tasks) = Size(Checkpoints)
      BY <3>1, FullTotal, Parts
    <3> QED
      BY <3>1, <3>2 DEF Balance
  <2> QED
    BY <2>1, BooksParts DEF BooksAgree, TotalKept
<1> QED
  BY <1>1, BooksInvariance, PTL
=============================================================================
