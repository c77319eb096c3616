--------------------------- MODULE Solution_proofs ---------------------------
(***************************************************************************)
(* Proofs about Solution for every value of its constants: the branch and  *)
(* the queue agree, every run is charged once, what is shown as completed  *)
(* builds, and every commit is what a reviewer approved.                   *)
(***************************************************************************)
EXTENDS Solution, SequenceTheorems, TLAPS

-----------------------------------------------------------------------------
(* The inductive invariant.  x is a queue with its session, in memory or on
   disk; c, b, j and l are compiles, branch, journal and log.  o says whether
   the current run of x is under way, and so is not accounted for yet. *)
Over(batch) == batch # None =>
                  \A i \in Places : batch.runs[i].status \notin {"pending", "running"}
OpenRun(batch) == batch # None /\ batch.runs[batch.current].status = "running"
Ran(batch) == <<batch.start, batch.current>>
OwnRun(batch) == IF batch = None THEN {} ELSE {Ran(batch)}
Completed(batch) ==
    {i \in Places : batch # None /\ batch.runs[i].status = "completed"}
Ended == {"completed", "needs_human", "failed", "stopped"}
RunsOf(b) == {b[k].run : k \in DOMAIN b}
HeadOf(b) == IF b = <<>> THEN Original ELSE b[Len(b)].tree
Charged(l) == {id \in Ids : l.billed[id] > 0}

(* Every entry is right or marked as uncertain, and no run has two. *)
Books(t, l) == /\ OnceIn(t)
               /\ \A e \in Entries(t) : e.usage = l.billed[e.run] \/ e.uncertain
(* The current run has been counted, or the doubt will be known. *)
Counted(batch, l) ==
    LET r == batch.runs[batch.current]
    IN  r.usage = l.billed[Ran(batch)] \/ r.uncertain \/ r.pending
Open1(x, o) == IF o THEN {Ran(x.batch)} ELSE {}
But(x, o) == IF o THEN {x.batch.current} ELSE {}
Backed(t, batch, but) ==
    batch # None => \A i \in Places \ but :
        batch.runs[i].status \in Ended => <<batch.start, i>> \in Recorded(t)
AllBuild(batch, but, c, tree) ==
    \A i \in Completed(batch) \ but : tree \in c[Order[i]]

(* The queue knows every commit, or lacks the one of the journal, which puts
   it right. *)
Settled(t, b, j) == /\ Known(t) = RunsOf(b)
                    /\ j # None => j.commit.run \in Known(t)
Redo(x, o, b, j) ==
    /\ j # None
    /\ j.commit.run \notin Known(x.tasks)
    /\ Known(j.tasks) = Known(x.tasks) \cup {j.commit.run}
    /\ Recorded(x.tasks) \subseteq Recorded(j.tasks)
    /\ o => Ran(x.batch) \in Recorded(j.tasks)
    /\ Completed(x.batch) \subseteq Completed(j.batch)
    /\ \/ Len(b) = j.base /\ RunsOf(b) = Known(x.tasks)
       \/ /\ Len(b) = j.base + 1
          /\ b[Len(b)] = j.commit
          /\ RunsOf(b) = Known(x.tasks) \cup {j.commit.run}
Fit(x, o, c, b, j, l) ==
    /\ Books(x.tasks, l)
    /\ Charged(l) \subseteq Recorded(x.tasks) \cup Open1(x, o)
    /\ o => x.batch # None /\ Counted(x.batch, l)
    /\ x.batch # None => x.batch.start <= l.starts
    /\ Backed(x.tasks, x.batch, But(x, o))
    /\ AllBuild(x.batch, But(x, o), c, HeadOf(b))
    /\ Settled(x.tasks, b, j) \/ Redo(x, o, b, j)

(* What is on disk is never ahead of the memory. *)
Along(x, y) == /\ Recorded(x.tasks) \subseteq Recorded(y.tasks)
               /\ Known(x.tasks) \subseteq Known(y.tasks)

(* The runs of an execution that starts are new. *)
Limit(k, l) == IF \/ k.pc \in {"scan", "batch"}
                  \/ k.pc \in {"restore", "replay"} /\ k.then = "scan"
               THEN l.starts - 1 ELSE l.starts
Since(t, n) == \A id \in Recorded(t) : id[1] <= n

(* A journal that recovery may still use. *)
Live(d, j) == j # None /\ j.commit.run \notin Known(d.tasks)
Usable(d, c, j, k, l) ==
    Live(d, j) => /\ Books(j.tasks, l)
                  /\ Charged(l) \subseteq Recorded(j.tasks)
                  /\ Since(j.tasks, Limit(k, l))
                  /\ j.batch.start <= l.starts
                  /\ Backed(j.tasks, j.batch, {})
                  /\ AllBuild(j.batch, {}, c, j.commit.tree)
                  /\ <<j.commit.run, j.commit.tree>> \in l.approved
                  /\ j.commit.tree \in c[Order[j.commit.run[2]]]

(* Where the call stands and what it relies on. *)
Inside == {"inner", "build", "edit", "proposed", "review", "judged", "adopt",
           "journal", "merge", "record", "leave"}
Editing == {"build", "edit", "proposed", "review", "judged", "adopt"}
UnderWay(k, m) == k.pc \in Inside \/ (k.pc = "down" /\ OpenRun(m.batch))
Fresh(m, l, first) ==
    \A i \in Places : i >= first => /\ <<l.starts, i>> \notin Recorded(m.tasks)
                                    /\ m.batch.runs[i] = PendingRun
Synced(k, d, m) ==
    /\ k.pc \in {"batch", "next", "inner", "down"} \cup Editing => d = m
    /\ k.pc = "journal" => /\ d.tasks = m.tasks /\ OwnRun(d.batch) = OwnRun(m.batch)
                           /\ Completed(d.batch) \subseteq Completed(m.batch)
(* What was charged for the current run is in its record, unless that says that
   something may be missing. *)
Exact(batch, l) ==
    LET r == batch.runs[batch.current]
    IN  r.usage = l.billed[Ran(batch)] \/ r.uncertain
Within(k, m, l) ==
    /\ m.batch # None /\ m.batch.start = l.starts /\ m.batch.current = k.i
    /\ m.batch.status = "running"
    /\ Fresh(m, l, k.i + 1)
    /\ k.pc # "leave" => <<l.starts, k.i>> \notin Recorded(m.tasks)
    /\ k.pc \in {"inner"} \cup Editing => OpenRun(m.batch)
    /\ k.pc \in {"journal", "merge", "record"} => ~ OpenRun(m.batch)
    /\ k.pc # "leave" => /\ m.batch.runs[k.i].pending <=> k.pc \in {"proposed", "judged"}
                         /\ Exact(m.batch, l)
    /\ k.pc = "leave" /\ k.err = "none" =>
           /\ <<l.starts, k.i>> \in Recorded(m.tasks)
           /\ ~ OpenRun(m.batch)
Session(k, m, l) ==
    /\ k.pc \in {"idle", "restore", "replay", "scan", "batch"} => Over(m.batch)
    /\ k.pc = "next" => /\ m.batch # None /\ m.batch.start = l.starts
                        /\ m.batch.status = "running"
                        /\ Fresh(m, l, k.i) /\ ~ OpenRun(m.batch)
    /\ k.pc = "end" => m.batch # None
    /\ k.pc \in Inside => Within(k, m, l)
Work(k, m, c, b, j, l) ==
    /\ k.pc \in {"restore", "replay", "scan", "batch", "next", "inner"} => k.iter = 0
    /\ k.pc \in Editing =>
          IF k.iter = 0 THEN k.tree = HeadOf(b)
          ELSE <<Ran(m.batch), k.tree>> \in l.approved
    /\ k.pc \in {"adopt", "journal", "record"} =>
          /\ AllBuild(m.batch, {}, c, k.tree)
          /\ k.tree \in c[Order[k.i]]
    /\ k.pc = "journal" => <<Ran(m.batch), k.tree>> \in l.approved
    /\ k.pc = "record" => HeadOf(b) = k.tree
    /\ k.pc = "leave" /\ k.err = "none" => AllBuild(m.batch, {}, c, HeadOf(b))
Ledgers(k, m, b, j) ==
    /\ \/ k.pc \in {"scan", "batch", "next", "inner", "journal"} \cup Editing
       \/ k.pc = "leave" /\ k.err # "error"
       => Settled(m.tasks, b, j)
    /\ k.pc = "replay" => /\ Live(m, j)
                          /\ b # <<>> /\ b[Len(b)] = j.commit
    /\ k.pc = "record" /\ Live(m, j) => /\ j.commit.run = Ran(m.batch)
                                        /\ j.commit.run \in RunsOf(b)
LogOK(l) == l \in [billed : [Ids -> Nat], approved : SUBSET (Ids \X Trees),
                   starts : 0 .. MaxStarts, sent : Nat, faults : Nat,
                   crashes : Nat]
BuildsOK(c) == /\ c \in [Solutions -> SUBSET Trees]
               /\ \A s \in Solutions, t, u \in Trees :
                    SameInputs(s, t, u) => (t \in c[s] <=> u \in c[s])
BranchOK(b, c, l) == \A k \in DOMAIN b :
    <<b[k].run, b[k].tree>> \in l.approved /\ b[k].tree \in c[Order[b[k].run[2]]]
MemOK(m, k, c, b, j, l) ==
    /\ Fit(m, UnderWay(k, m), c, b, j, l)
    /\ Since(m.tasks, Limit(k, l))
    /\ Limit(k, l) \in Nat
    /\ Session(k, m, l)
    /\ Work(k, m, c, b, j, l)
    /\ Ledgers(k, m, b, j)
IInv == /\ TypeOK
        /\ LogOK(log)
        /\ BuildsOK(compiles)
        /\ BranchOK(branch, compiles, log)
        /\ Fit(disk, OpenRun(disk.batch), compiles, branch, journal, log)
        /\ Along(disk, mem)
        /\ Synced(call, disk, mem)
        /\ Usable(disk, compiles, journal, call, log)
        /\ (call.pc = "merge" => journal = Adoption)
        /\ MemOK(mem, call, compiles, branch, journal, log)

-----------------------------------------------------------------------------
(* Places, records and queues. *)
LEMMA PlaceFacts ==
    /\ Len(Order) \in Nat \ {0} /\ Places = 1 .. Len(Order)
    /\ 1 \in Places
    /\ \A i \in Places : Order[i] \in Solutions
    /\ \A k \in 1 .. Len(Order) + 1 : k \in Places \/ k = Len(Order) + 1
<1>1. Order \in Seq(Solutions) /\ Order # <<>>
  BY SolutionAssumption
<1>2. Len(Order) \in Nat /\ DOMAIN Order = 1 .. Len(Order) /\ Len(Order) # 0
  BY <1>1
<1> QED
  BY <1>1, <1>2 DEF Places, Solutions

LEMMA NotNone == (\A b \in SolutionBatch : b # None) /\ (\A j \in SolutionAdoption : j # None)
  BY RecordAssumption

LEMMA BoundFacts == MaxStarts \in Nat /\ MaxIterations \in Nat
  BY BoundAssumption

LEMMA IdFacts == ASSUME NEW b \in SolutionBatch PROVE Ran(b) \in Ids
  BY DEF Ran, Ids, SolutionBatch

LEMMA Appended ==
    ASSUME NEW t \in Seq(Entry), NEW e \in Entry
    PROVE  /\ Append(t, e) \in Seq(Entry)
           /\ Entries(Append(t, e)) = Entries(t) \cup {e}
           /\ Recorded(Append(t, e)) = Recorded(t) \cup {e.run}
           /\ Known(Append(t, e)) =
                  Known(t) \cup (IF e.commit THEN {e.run} ELSE {})
           /\ OnceIn(t) /\ e.run \notin Recorded(t) => OnceIn(Append(t, e))
<1> DEFINE u == Append(t, e)
<1>1. /\ u \in Seq(Entry) /\ Len(u) = Len(t) + 1 /\ Len(t) \in Nat
      /\ DOMAIN t = 1 .. Len(t) /\ DOMAIN u = 1 .. Len(t) + 1
      /\ \A k \in DOMAIN t : u[k] = t[k]
      /\ u[Len(t) + 1] = e
  OBVIOUS
<1> HIDE DEF u
<1>2. Entries(u) = Entries(t) \cup {e}
  BY <1>1 DEF Entries
<1>3. Recorded(u) = Recorded(t) \cup {e.run}
  BY <1>2 DEF Recorded
<1>4. Known(u) = Known(t) \cup (IF e.commit THEN {e.run} ELSE {})
  BY <1>2 DEF Known
<1>5. ASSUME OnceIn(t), e.run \notin Recorded(t) PROVE OnceIn(u)
  <2>1. \A k \in DOMAIN t : t[k].run # e.run
    BY <1>5 DEF Recorded, Entries
  <2>2. \A k \in DOMAIN u : k \in DOMAIN t \/ k = Len(t) + 1
    BY <1>1
  <2>3. Len(t) + 1 \notin DOMAIN t
    BY <1>1
  <2> QED
    BY <1>1, <1>5, <2>1, <2>2, <2>3 DEF OnceIn
<1> QED
  BY <1>1, <1>2, <1>3, <1>4, <1>5 DEF u

LEMMA QueueFacts ==
    ASSUME NEW t \in Seq(Entry)
    PROVE  /\ Entries(t) \subseteq Entry
           /\ Recorded(t) \subseteq Ids
           /\ Known(t) \subseteq Recorded(t)
<1>1. Entries(t) \subseteq Entry
  <2>1. \A k \in DOMAIN t : t[k] \in Entry
    BY ElementOfSeq
  <2> QED
    BY <2>1 DEF Entries
<1> QED
  BY <1>1 DEF Recorded, Known, Entry

(* A commit is added to the branch. *)
LEMMA Committed ==
    ASSUME NEW b \in Seq(Commit), NEW z \in Commit
    PROVE  /\ Append(b, z) \in Seq(Commit)
           /\ RunsOf(Append(b, z)) = RunsOf(b) \cup {z.run}
           /\ HeadOf(Append(b, z)) = z.tree
           /\ Len(Append(b, z)) = Len(b) + 1
           /\ Append(b, z)[Len(Append(b, z))] = z
           /\ Append(b, z) # <<>>
           /\ Len(b) \in Nat
           /\ \A k \in DOMAIN Append(b, z) :
                 \/ k \in DOMAIN b /\ Append(b, z)[k] = b[k]
                 \/ Append(b, z)[k] = z
<1> DEFINE u == Append(b, z)
<1>1. /\ u \in Seq(Commit) /\ Len(u) = Len(b) + 1 /\ Len(b) \in Nat
      /\ DOMAIN b = 1 .. Len(b) /\ DOMAIN u = 1 .. Len(b) + 1
      /\ \A k \in DOMAIN b : u[k] = b[k]
      /\ u[Len(b) + 1] = z
      /\ u # <<>>
  OBVIOUS
<1> HIDE DEF u
<1>2. RunsOf(u) = RunsOf(b) \cup {z.run}
  BY <1>1 DEF RunsOf
<1>3. HeadOf(u) = z.tree
  BY <1>1 DEF HeadOf
<1>4. \A k \in DOMAIN u : (k \in DOMAIN b /\ u[k] = b[k]) \/ u[k] = z
  BY <1>1
<1> QED
  BY <1>1, <1>2, <1>3, <1>4 DEF u

LEMMA BranchFacts ==
    /\ HeadTree = HeadOf(branch) /\ BranchRuns = RunsOf(branch)
    /\ branch \in Seq(Commit) => HeadTree \in Trees
<1>1. Original \in Trees
  BY SolutionAssumption DEF Original, Trees
<1>2. ASSUME branch \in Seq(Commit), branch # <<>> PROVE branch[Len(branch)].tree \in Trees
  <2>1. branch[Len(branch)] \in Commit
    BY <1>2
  <2> QED
    BY <2>1 DEF Commit
<1> QED
  BY <1>1, <1>2 DEF HeadTree, HeadOf, BranchRuns, RunsOf

(* The record of the current run is replaced. *)
Revised(x, r) == [x EXCEPT !.batch.runs[x.batch.current] = r]
LEMMA RunReplaced ==
    ASSUME NEW x \in State, x.batch # None, NEW r \in SolutionRun, NEW y,
           y = Revised(x, r)
    PROVE  /\ x.batch \in SolutionBatch
           /\ y \in State /\ y.tasks = x.tasks
           /\ y.batch \in SolutionBatch /\ y.batch # None
           /\ y.batch.start = x.batch.start /\ y.batch.current = x.batch.current
           /\ y.batch.status = x.batch.status
           /\ y.batch.runs[x.batch.current] = r
           /\ \A i \in Places : i # x.batch.current => y.batch.runs[i] = x.batch.runs[i]
<1>1. x.batch \in SolutionBatch /\ x.tasks \in Seq(Entry)
  BY DEF State
<1> DEFINE runs == [x.batch.runs EXCEPT ![x.batch.current] = r]
           bb == [x.batch EXCEPT !.runs = runs]
<1>2. /\ runs \in [Places -> SolutionRun] /\ runs[x.batch.current] = r
      /\ \A i \in Places : i # x.batch.current => runs[i] = x.batch.runs[i]
  BY <1>1 DEF SolutionBatch
<1>3. y = [x EXCEPT !.batch = bb]
  BY DEF State, Revised
<1> HIDE DEF runs
<1>4. /\ bb \in SolutionBatch /\ bb.runs = runs /\ bb.start = x.batch.start
      /\ bb.current = x.batch.current /\ bb.status = x.batch.status
  BY <1>1, <1>2 DEF SolutionBatch
<1> HIDE DEF bb
<1>5. y.batch = bb /\ y.tasks = x.tasks /\ y \in State
  BY <1>1, <1>3, <1>4 DEF State
<1> QED
  BY <1>1, <1>2, <1>4, <1>5, NotNone

-----------------------------------------------------------------------------
(* What a queue with its session says, as it is carried along. *)

(* Only the bills, the approvals and the starts of the history matter. *)
SameLog(l, n) == /\ n.billed = l.billed
                 /\ n.approved = l.approved
                 /\ n.starts = l.starts

LEMMA FitLog ==
    ASSUME NEW x \in State, NEW o, NEW c, NEW b, NEW j, NEW l, LogOK(l), NEW n,
           LogOK(n), n.billed = l.billed, l.starts <= n.starts, Fit(x, o, c, b, j, l)
    PROVE  Fit(x, o, c, b, j, n)
<1>1. x.batch # None => x.batch.start <= n.starts
  <2> SUFFICES ASSUME x.batch # None PROVE x.batch.start <= n.starts
    OBVIOUS
  <2>1. x.batch \in SolutionBatch
    BY DEF State
  <2>2. x.batch.start \in Nat /\ l.starts \in Nat /\ n.starts \in Nat
    BY <2>1, BoundFacts DEF SolutionBatch, LogOK
  <2>3. x.batch.start <= l.starts
    BY DEF Fit
  <2> QED
    BY <2>2, <2>3
<1> QED
  BY <1>1 DEF Fit, Books, Counted, Charged

(* The queue is saved and the session is not. *)
LEMMA QueueSaved ==
    ASSUME NEW d \in State, NEW m \in State, NEW c, NEW b, NEW j, NEW l, NEW o, NEW y,
           Fit(d, OpenRun(d.batch), c, b, j, l), Fit(m, o, c, b, j, l), Along(d, m),
           y = [d EXCEPT !.tasks = m.tasks]
    PROVE  /\ y \in State /\ y.batch = d.batch /\ y.tasks = m.tasks
           /\ Fit(y, OpenRun(y.batch), c, b, j, l)
<1>1. y \in State /\ y.batch = d.batch /\ y.tasks = m.tasks
  BY DEF State
<1> DEFINE q == OpenRun(d.batch)
<1> HIDE DEF q
<1>2. Books(y.tasks, l)
  BY <1>1 DEF Fit
<1>3. Open1(y, q) = Open1(d, q) /\ But(y, q) = But(d, q)
  BY <1>1 DEF Open1, But
<1>4. Charged(l) \subseteq Recorded(y.tasks) \cup Open1(y, q)
  BY <1>1, <1>3 DEF Fit, Along, Open1, q
<1>5. q => y.batch # None /\ Counted(y.batch, l)
  BY <1>1 DEF Fit, q
<1>6. Backed(y.tasks, y.batch, But(y, q))
  BY <1>1, <1>3 DEF Fit, Backed, Along, q
<1>7. AllBuild(y.batch, But(y, q), c, HeadOf(b))
  BY <1>1, <1>3 DEF Fit, q
<1>8. Settled(y.tasks, b, j) \/ Redo(y, q, b, j)
  <2>1. CASE Settled(m.tasks, b, j)
    BY <1>1, <2>1
  <2>2. CASE Redo(m, o, b, j)
    <3>1. ~ Settled(d.tasks, b, j)
      BY <2>2 DEF Redo, Settled, Along
    <3>2. Redo(d, q, b, j)
      BY <3>1 DEF Fit, q
    <3> QED
      BY <1>1, <2>2, <3>2 DEF Redo
  <2> QED
    BY <2>1, <2>2 DEF Fit
<1>9. y.batch # None => y.batch.start <= l.starts
  BY <1>1 DEF Fit
<1> QED
  BY <1>1, <1>2, <1>4, <1>5, <1>6, <1>7, <1>8, <1>9 DEF Fit, q

(* The current run fails, is held or stops: it is accounted for. *)
Accounts(y, x, status) ==
    /\ x.batch \in SolutionBatch
    /\ y \in State /\ y.batch \in SolutionBatch /\ y.batch # None
    /\ Recorded(y.tasks) = Recorded(x.tasks) \cup {Ran(x.batch)}
    /\ Known(y.tasks) = Known(x.tasks)
    /\ y.batch.start = x.batch.start /\ y.batch.current = x.batch.current
    /\ y.batch.status = x.batch.status
    /\ y.batch.runs[x.batch.current].status = status
    /\ \A i \in Places : i # x.batch.current => y.batch.runs[i] = x.batch.runs[i]
    /\ Completed(y.batch) \subseteq Completed(x.batch)
LEMMA FailedFit ==
    ASSUME NEW x \in State, NEW c, NEW b, NEW j, NEW l, Fit(x, TRUE, c, b, j, l),
           NEW status \in {"needs_human", "failed", "stopped"},
           NEW y, y = FailedAs(x, status)
    PROVE  Accounts(y, x, status) /\ Fit(y, FALSE, c, b, j, l)
<1>1. x.batch # None /\ x.batch \in SolutionBatch /\ x.tasks \in Seq(Entry)
  BY DEF Fit, State
<1> DEFINE bt == x.batch
           old == bt.runs[bt.current]
           doubt == old.uncertain \/ old.pending
           r == [old EXCEPT !.status = status, !.uncertain = doubt]
           id == Ran(bt)
           e == EntryOf(id, r, FALSE, FALSE)
<1>2. old \in SolutionRun /\ bt.current \in Places
  BY <1>1 DEF SolutionBatch
<1>3. doubt \in BOOLEAN
  BY <1>2 DEF SolutionRun
<1>r. r = [old EXCEPT !.status = status, !.uncertain = doubt]
  OBVIOUS
<1>d. doubt = (old.uncertain \/ old.pending)
  OBVIOUS
<1> HIDE DEF doubt
<1>4. /\ r \in SolutionRun /\ r.status = status /\ r.usage = old.usage
      /\ r.uncertain = doubt
  BY <1>2, <1>3 DEF SolutionRun
<1>5. id \in Ids
  BY <1>1, IdFacts
<1>6. /\ e \in Entry /\ e.run = id /\ ~ e.commit /\ e.usage = old.usage
      /\ e.uncertain = doubt
  BY <1>4, <1>5 DEF EntryOf, Entry, SolutionRun
<1> DEFINE nb == [bt EXCEPT !.runs[bt.current] = r]
           nt == RecordFailure(x.tasks, id, r)
           z == Revised(x, r)
<1>7. y = [tasks |-> nt, batch |-> nb]
  BY Zenon, <1>d DEF FailedAs, Ran, doubt
<1>8. nt = IF id \in Recorded(x.tasks) THEN x.tasks ELSE Append(x.tasks, e)
  BY DEF RecordFailure, FailureEntry
<1>9. z.batch = nb
  BY DEF State, Revised
<1>z. z = Revised(x, r)
  OBVIOUS
<1> HIDE DEF r, e, z, nb, nt
<1>10. /\ z \in State /\ nb \in SolutionBatch /\ nb # None /\ nb.start = bt.start
       /\ nb.current = bt.current /\ nb.status = bt.status
       /\ nb.runs[bt.current] = r
       /\ \A i \in Places : i # bt.current => nb.runs[i] = bt.runs[i]
  <2>1. /\ z \in State /\ z.batch \in SolutionBatch /\ z.batch # None
        /\ z.batch.start = x.batch.start /\ z.batch.current = x.batch.current
        /\ z.batch.status = x.batch.status
        /\ z.batch.runs[x.batch.current] = r
        /\ \A i \in Places : i # x.batch.current => z.batch.runs[i] = x.batch.runs[i]
    <3>1. r \in SolutionRun
      BY <1>4
    <3> QED
      BY <1>1, <1>z, <3>1, RunReplaced
  <2> QED
    BY <1>9, <2>1
<1>11. /\ nt \in Seq(Entry)
       /\ Recorded(nt) = Recorded(x.tasks) \cup {id}
       /\ Known(nt) = Known(x.tasks)
       /\ OnceIn(nt)
       /\ \A k \in Entries(nt) : k \in Entries(x.tasks) \/ k = e
  <2>1. OnceIn(x.tasks)
    BY DEF Fit, Books
  <2>2. CASE id \in Recorded(x.tasks)
    BY <1>1, <1>8, <2>1, <2>2
  <2>3. CASE id \notin Recorded(x.tasks)
    <3>1. nt = Append(x.tasks, e)
      BY <1>8, <2>3
    <3>2. /\ nt \in Seq(Entry) /\ Entries(nt) = Entries(x.tasks) \cup {e}
          /\ Recorded(nt) = Recorded(x.tasks) \cup {e.run}
          /\ Known(nt) = Known(x.tasks) \cup (IF e.commit THEN {e.run} ELSE {})
          /\ OnceIn(x.tasks) /\ e.run \notin Recorded(x.tasks) => OnceIn(nt)
      BY <1>1, <1>6, <3>1, Appended
    <3> QED
      BY <1>6, <2>1, <2>3, <3>2
  <2> QED
    BY <2>2, <2>3
<1>12. y \in State /\ y.tasks = nt /\ y.batch = nb
  BY <1>7, <1>10, <1>11 DEF State
<1>13. Counted(bt, l)
  BY DEF Fit
<1>14. Books(nt, l)
  <2>1. e.usage = l.billed[e.run] \/ e.uncertain
    BY <1>6, <1>13, <1>d DEF Counted
  <2>2. \A k \in Entries(x.tasks) : k.usage = l.billed[k.run] \/ k.uncertain
    BY DEF Fit, Books
  <2> QED
    BY <1>11, <2>1, <2>2 DEF Books
<1>15. Charged(l) \subseteq Recorded(nt)
  BY <1>11 DEF Fit, Open1
<1>16. Backed(nt, nb, {})
  <2>1. Backed(x.tasks, bt, {bt.current})
    BY DEF Fit, But
  <2> QED
    BY <1>1, <1>10, <1>11, <2>1 DEF Backed, Ran
<1>17. Completed(nb) \subseteq Completed(bt) \ {bt.current}
  BY <1>1, <1>4, <1>10 DEF Completed
<1>18. AllBuild(nb, {}, c, HeadOf(b))
  <2>1. AllBuild(bt, {bt.current}, c, HeadOf(b))
    BY DEF Fit, But
  <2> QED
    BY <1>17, <2>1 DEF AllBuild
<1>19. Settled(x.tasks, b, j) => Settled(nt, b, j)
  BY <1>11 DEF Settled
<1>20. Redo(x, TRUE, b, j) => Redo(y, FALSE, b, j)
  BY <1>11, <1>12, <1>17 DEF Redo
<1>21. Fit(y, FALSE, c, b, j, l)
  <2>1. Open1(y, FALSE) = {} /\ But(y, FALSE) = {}
    BY DEF Open1, But
  <2>2. Settled(x.tasks, b, j) \/ Redo(x, TRUE, b, j)
    BY DEF Fit
  <2>3. nb.start <= l.starts
    BY <1>1, <1>10 DEF Fit
  <2> QED
    BY <1>12, <1>14, <1>15, <1>16, <1>18, <1>19, <1>20, <2>1, <2>2, <2>3 DEF Fit
<1> QED
  BY <1>1, <1>4, <1>10, <1>11, <1>12, <1>17, <1>21 DEF Accounts

(* The batch f closes the batch bt. *)
Closes(f, bt) ==
    /\ f \in SolutionBatch /\ f # None
    /\ f.start = bt.start /\ f.current = bt.current
    /\ f.status # "running" /\ Over(f) /\ ~ OpenRun(f)
    /\ Completed(f) = Completed(bt)
    /\ \A i \in Places : f.runs[i].status \in Ended => f.runs[i] = bt.runs[i]

LEMMA FinishedFacts ==
    ASSUME NEW bt \in SolutionBatch, NEW interrupted, NEW f, f = Finished(bt, interrupted)
    PROVE  Closes(f, bt)
<1> DEFINE runs == [i \in Places |-> Closed(bt.runs[i])]
           st == IF interrupted THEN "stopped"
                 ELSE Summary({runs[i].status : i \in Places})
<1>1. /\ runs \in [Places -> SolutionRun]
      /\ \A i \in Places : runs[i].status \notin {"pending", "running"}
      /\ \A i \in Places : \/ runs[i] = bt.runs[i]
                           \/ /\ runs[i].status = "not_run"
                              /\ bt.runs[i].status \in {"pending", "running"}
  <2>1. \A r \in SolutionRun :
           /\ Closed(r) \in SolutionRun
           /\ Closed(r).status \notin {"pending", "running"}
           /\ Closed(r) = r \/ /\ Closed(r).status = "not_run"
                               /\ r.status \in {"pending", "running"}
    BY DEF Closed, SolutionRun
  <2>2. bt.runs \in [Places -> SolutionRun]
    BY DEF SolutionBatch
  <2> QED
    BY <2>1, <2>2
<1>2. st \in {"completed", "needs_human", "failed", "stopped"}
  BY DEF Summary
<1>3. f = [bt EXCEPT !.runs = runs, !.status = st]
  BY DEF Finished
<1> HIDE DEF runs, st
<1>4. /\ f \in SolutionBatch /\ f.runs = runs /\ f.status = st
      /\ f.start = bt.start /\ f.current = bt.current
  BY <1>1, <1>2, <1>3 DEF SolutionBatch
<1>5. f # None /\ bt # None
  BY <1>4, NotNone
<1>6. f.current \in Places
  BY <1>4 DEF SolutionBatch
<1>7. Over(f) /\ ~ OpenRun(f)
  BY <1>1, <1>4, <1>5, <1>6 DEF Over, OpenRun
<1>8. Completed(f) = Completed(bt)
  BY <1>1, <1>4, <1>5 DEF Completed
<1>9. \A i \in Places : f.runs[i].status \in Ended => f.runs[i] = bt.runs[i]
  BY <1>1, <1>4 DEF Ended
<1> QED
  BY <1>2, <1>4, <1>5, <1>7, <1>8, <1>9 DEF Closes

LEMMA FinishedFit ==
    ASSUME NEW x \in State, x.batch # None, NEW c, NEW b, NEW j, NEW l,
           Fit(x, FALSE, c, b, j, l), NEW f, Closes(f, x.batch),
           NEW y, y = [x EXCEPT !.batch = f]
    PROVE  /\ y \in State /\ y.tasks = x.tasks /\ y.batch = f
           /\ Fit(y, FALSE, c, b, j, l)
<1>1. y \in State /\ y.tasks = x.tasks /\ y.batch = f
  BY DEF State, Closes
<1>2. Backed(y.tasks, y.batch, {})
  BY <1>1 DEF Fit, Backed, But, Closes
<1>3. AllBuild(y.batch, {}, c, HeadOf(b))
  BY <1>1 DEF Fit, AllBuild, But, Closes
<1>4. Settled(y.tasks, b, j) \/ Redo(y, FALSE, b, j)
  BY <1>1 DEF Fit, Redo, Closes
<1>5. y.batch.start <= l.starts
  BY <1>1 DEF Fit, Closes
<1> QED
  BY <1>1, <1>2, <1>3, <1>4, <1>5 DEF Fit, Open1, But

(* What was running when the process ended has stopped. *)
LEMMA LoadedFit ==
    ASSUME NEW d \in State, d.batch # None => Orderly(d.batch),
           NEW c, NEW b, NEW j, NEW l, Fit(d, OpenRun(d.batch), c, b, j, l),
           NEW y, y = Loaded(d)
    PROVE  /\ y \in State /\ Fit(y, FALSE, c, b, j, l)
           /\ Over(y.batch) /\ Along(d, y)
           /\ Recorded(y.tasks) \subseteq Recorded(d.tasks) \cup OwnRun(d.batch)
<1> DEFINE n == IF Interrupted(d) THEN FailedAs(d, "stopped") ELSE d
<1>1. Interrupted(d) <=> OpenRun(d.batch)
  BY DEF Interrupted, OpenRun
<1>2. /\ n \in State /\ Fit(n, FALSE, c, b, j, l) /\ Along(d, n)
      /\ (n.batch = None) = (d.batch = None)
      /\ Recorded(n.tasks) \subseteq Recorded(d.tasks) \cup OwnRun(d.batch)
      /\ n = d \/ OpenRun(d.batch)
  <2>1. CASE OpenRun(d.batch)
    <3>1. n = FailedAs(d, "stopped") /\ d.batch # None
      BY <1>1, <2>1 DEF OpenRun
    <3> HIDE DEF n
    <3>2. Fit(d, TRUE, c, b, j, l)
      <4>1. OpenRun(d.batch) = TRUE
        BY <2>1 DEF OpenRun
      <4> QED
        BY <4>1
    <3>3. /\ n \in State /\ n.batch # None /\ Fit(n, FALSE, c, b, j, l)
          /\ Recorded(n.tasks) = Recorded(d.tasks) \cup {Ran(d.batch)}
          /\ Known(n.tasks) = Known(d.tasks)
      <4>1. Accounts(n, d, "stopped") /\ Fit(n, FALSE, c, b, j, l)
        BY <3>1, <3>2, FailedFit
      <4> QED
        BY <4>1 DEF Accounts
    <3> QED
      BY <2>1, <3>1, <3>3 DEF Along, OwnRun
  <2>2. CASE ~ OpenRun(d.batch)
    <3>1. n = d
      BY <1>1, <2>2
    <3> HIDE DEF n
    <3>2. Fit(d, FALSE, c, b, j, l)
      <4>1. OpenRun(d.batch) = FALSE
        BY <2>2 DEF OpenRun
      <4> QED
        BY <4>1
    <3> QED
      BY <3>1, <3>2 DEF Along
  <2> QED
    BY <2>1, <2>2
<1>3. y = IF d.batch # None /\ d.batch.status = "running"
          THEN [n EXCEPT !.batch = Finished(n.batch, FALSE)] ELSE n
  BY DEF Loaded
<1> HIDE DEF n
<1>4. CASE d.batch # None /\ d.batch.status = "running"
  <2>1. n.batch \in SolutionBatch /\ n.batch # None
    BY <1>2, <1>4 DEF State
  <2> DEFINE f == Finished(n.batch, FALSE)
  <2>2. Closes(f, n.batch)
    BY <2>1, FinishedFacts
  <2>3. y = [n EXCEPT !.batch = f]
    BY <1>3, <1>4
  <2> HIDE DEF f
  <2>4. /\ y \in State /\ y.tasks = n.tasks /\ y.batch = f
        /\ Fit(y, FALSE, c, b, j, l)
    BY <1>2, <2>1, <2>2, <2>3, FinishedFit, ZenonT(60)
  <2> QED
    BY <1>2, <2>2, <2>4 DEF Along, Closes
<1>5. CASE ~ (d.batch # None /\ d.batch.status = "running")
  <2>1. y = n
    BY <1>3, <1>5
  <2>2. Over(d.batch)
    BY <1>5 DEF Orderly, Over
  <2>3. ~ OpenRun(d.batch)
    <3> SUFFICES ASSUME OpenRun(d.batch) PROVE FALSE
      OBVIOUS
    <3>1. d.batch # None /\ d.batch \in SolutionBatch
      BY DEF OpenRun, State
    <3>2. d.batch.current \in Places
      BY <3>1 DEF SolutionBatch
    <3> QED
      BY <2>2, <3>1, <3>2 DEF Over, OpenRun
  <2> QED
    BY <1>2, <2>1, <2>2, <2>3
<1> QED
  BY <1>4, <1>5

LEMMA MemLog ==
    ASSUME NEW m \in State, NEW k, NEW c, NEW b, NEW j, NEW l, LogOK(l), NEW n, LogOK(n),
           SameLog(l, n), MemOK(m, k, c, b, j, l)
    PROVE  MemOK(m, k, c, b, j, n)
<1>1. l.starts <= n.starts
  BY BoundFacts DEF SameLog, LogOK
<1>2. Fit(m, UnderWay(k, m), c, b, j, n)
  BY <1>1, FitLog DEF MemOK, SameLog
<1>3. Limit(k, n) = Limit(k, l)
  BY DEF Limit, SameLog
<1>4. Session(k, m, n)
  BY DEF MemOK, SameLog, Session, Within, Fresh, Exact
<1>5. Work(k, m, c, b, j, n)
  BY DEF MemOK, SameLog, Work
<1> QED
  BY <1>2, <1>3, <1>4, <1>5 DEF MemOK

(* A journal stays usable while nothing is billed. *)
LEMMA UsableKept ==
    ASSUME NEW d, NEW y, Known(d.tasks) \subseteq Known(y.tasks), NEW c,
           NEW j \in SolutionAdoption \cup {None},
           NEW k, NEW g, NEW l, LogOK(l), NEW n, LogOK(n), n.billed = l.billed,
           l.approved \subseteq n.approved, l.starts <= n.starts,
           Limit(k, l) \in Nat, Limit(g, n) \in Nat, Limit(k, l) <= Limit(g, n),
           Usable(d, c, j, k, l)
    PROVE  Usable(y, c, j, g, n)
<1> SUFFICES ASSUME Live(y, j) PROVE Usable(y, c, j, g, n)
  BY DEF Usable
<1>1. Live(d, j)
  BY DEF Live
<1>2. j \in SolutionAdoption /\ j.tasks \in Seq(Entry) /\ j.batch \in SolutionBatch
  BY DEF Live, SolutionAdoption
<1>3. Since(j.tasks, Limit(g, n))
  <2>1. \A id \in Recorded(j.tasks) : id[1] \in Nat
    BY <1>2, QueueFacts, BoundFacts DEF Ids
  <2>2. Since(j.tasks, Limit(k, l))
    BY <1>1 DEF Usable
  <2> QED
    BY <2>1, <2>2 DEF Since
<1>4. j.batch.start <= n.starts
  <2>1. j.batch.start \in Nat /\ l.starts \in Nat /\ n.starts \in Nat
    BY <1>2, BoundFacts DEF SolutionBatch, LogOK
  <2>2. j.batch.start <= l.starts
    BY <1>1 DEF Usable
  <2> QED
    BY <2>1, <2>2
<1> QED
  BY <1>1, <1>3, <1>4 DEF Usable, Books, Charged

-----------------------------------------------------------------------------
(* The kinds of steps. *)
LEMMA Typed ==
    ASSUME IInv
    PROVE  /\ branch \in Seq(Commit) /\ journal \in SolutionAdoption \cup {None}
           /\ disk \in State /\ mem \in State /\ call \in Call
           /\ LogOK(log) /\ BuildsOK(compiles)
           /\ disk.batch # None => Orderly(disk.batch)
           /\ Fit(disk, OpenRun(disk.batch), compiles, branch, journal, log)
           /\ MemOK(mem, call, compiles, branch, journal, log)
           /\ Along(disk, mem) /\ Synced(call, disk, mem)
           /\ Usable(disk, compiles, journal, call, log)
           /\ BranchOK(branch, compiles, log)
  BY DEF IInv, TypeOK

(* Any step that leaves the trees alone. *)
LEMMA Stepped ==
    ASSUME IInv, UNCHANGED compiles, branch' \in Seq(Commit),
           journal' \in SolutionAdoption \cup {None}, disk' \in State, mem' \in State,
           call' \in Call, LogOK(log'), disk'.batch # None => Orderly(disk'.batch),
           BranchOK(branch', compiles, log'),
           Fit(disk', OpenRun(disk'.batch), compiles, branch', journal', log'),
           Along(disk', mem'), Synced(call', disk', mem'),
           Usable(disk', compiles, journal', call', log'),
           call'.pc = "merge" => journal' = Adoption',
           MemOK(mem', call', compiles, branch', journal', log')
    PROVE  IInv'
<1>1. LogOK(log)'
  BY DEF LogOK
<1>2. BuildsOK(compiles)'
  BY DEF IInv, BuildsOK, SameInputs
<1>3. compiles' \in [Solutions -> SUBSET Trees]
  BY DEF IInv, TypeOK
<1>4. log'.billed \in [Ids -> Nat] /\ log'.approved \subseteq Ids \X Trees
  BY DEF LogOK
<1>5. TypeOK'
  BY <1>3, <1>4 DEF TypeOK
<1>6. BranchOK(branch, compiles, log)'
  BY DEF BranchOK
<1> QED
  BY <1>1, <1>2, <1>5, <1>6 DEF IInv

(* Only the call moves on, and counters that nothing depends on. *)
LEMMA Moved ==
    ASSUME IInv, UNCHANGED <<compiles, branch, journal, disk, mem>>,
           call' \in Call, LogOK(log'), log'.billed = log.billed,
           log'.approved = log.approved, log.starts <= log'.starts,
           Limit(call, log) <= Limit(call', log'), Limit(call', log') \in Nat,
           UnderWay(call', mem) <=> UnderWay(call, mem),
           Synced(call', disk, mem), Session(call', mem, log'),
           Work(call', mem, compiles, branch, journal, log'),
           Ledgers(call', mem, branch, journal),
           call'.pc = "merge" => journal = Adoption'
    PROVE  IInv'
<1>1. Limit(call, log) \in Nat /\ mem.tasks \in Seq(Entry)
  BY Typed DEF MemOK, State
<1>2. Fit(disk, OpenRun(disk.batch), compiles, branch, journal, log')
  BY Typed, FitLog
<1>3. Fit(mem, UnderWay(call', mem), compiles, branch, journal, log')
  <2>1. UnderWay(call', mem) = UnderWay(call, mem)
    BY DEF UnderWay
  <2>2. Fit(mem, UnderWay(call, mem), compiles, branch, journal, log)
    BY Typed DEF MemOK
  <2> QED
    BY <2>1, <2>2, Typed, FitLog
<1>4. Since(mem.tasks, Limit(call', log'))
  <2>1. \A id \in Recorded(mem.tasks) : id[1] \in Nat
    BY <1>1, QueueFacts, BoundFacts DEF Ids
  <2>2. Since(mem.tasks, Limit(call, log))
    BY Typed DEF MemOK
  <2> QED
    BY <1>1, <2>1, <2>2 DEF Since
<1>5. Usable(disk, compiles, journal, call', log')
  <2>1. Known(disk.tasks) \subseteq Known(disk.tasks) /\ log.approved \subseteq log'.approved
    OBVIOUS
  <2> QED
    BY <1>1, <2>1, Typed, UsableKept
<1>6. MemOK(mem', call', compiles, branch', journal', log')
  BY <1>3, <1>4 DEF MemOK
<1>7. BranchOK(branch, compiles, log')
  BY Typed DEF BranchOK
<1> QED
  BY <1>2, <1>5, <1>6, <1>7, Typed, Stepped

(* A save of m, after which the call is at next, or at failed. *)
LEMMA Persisted ==
    ASSUME IInv, UNCHANGED <<compiles, branch, journal>>,
           NEW m \in State, NEW next \in Call, NEW failed \in Call, NEW l, LogOK(l),
           Persist(m, next, failed, l),
           m.batch # None => Orderly(m.batch), Along(disk, m),
           Fit(disk, OpenRun(disk.batch), compiles, branch, journal, l),
           Fit(m, OpenRun(m.batch), compiles, branch, journal, l),
           BranchOK(branch, compiles, l),
           Usable(disk, compiles, journal, next, l),
           Usable(disk, compiles, journal, failed, l),
           next.pc \notin {"merge", "journal", "down"},
           failed.pc \notin {"merge", "journal", "down", "batch", "next", "inner"} \cup Editing,
           MemOK(m, next, compiles, branch, journal, l),
           MemOK(m, failed, compiles, branch, journal, l)
    PROVE  IInv'
<1>1. mem' = m
  BY DEF Persist
<1>2. CASE Saves(m) /\ call' = next /\ log' = l
  <2>1. disk' = m
    BY <1>2 DEF Saves
  <2>2. Usable(m, compiles, journal, next, l)
    BY DEF Usable, Live, Along
  <2>3. Along(m, m) /\ Synced(next, m, m)
    BY DEF Along, Synced
  <2> QED
    BY <1>1, <1>2, <2>1, <2>2, <2>3, Typed, Stepped
<1>3. CASE HalfSaves(m) /\ call' = failed /\ log' = Faulted(l)
  <2>1. LogOK(log') /\ SameLog(l, log')
    BY <1>3 DEF LogOK, Faulted, SameLog
  <2>2. l.starts <= log'.starts
    BY <2>1, BoundFacts DEF SameLog, LogOK
  <2>3. Limit(failed, l) \in Nat /\ Limit(failed, log') = Limit(failed, l)
    BY <2>1 DEF MemOK, Limit, SameLog
  <2>4. MemOK(m, failed, compiles, branch, journal, log')
    BY <2>1, MemLog
  <2>5. BranchOK(branch, compiles, log')
    BY <2>1 DEF BranchOK, SameLog
  <2>6. /\ disk' \in State /\ Along(disk', m) /\ (disk'.batch # None => Orderly(disk'.batch))
        /\ Known(disk.tasks) \subseteq Known(disk'.tasks)
        /\ Fit(disk', OpenRun(disk'.batch), compiles, branch, journal, l)
    <3>1. disk' \in {disk, QueueOnly(m), m}
      BY <1>3 DEF HalfSaves
    <3>2. CASE disk' = disk
      BY <3>2, Typed
    <3>3. CASE disk' = QueueOnly(m)
      <4>1. disk' = [disk EXCEPT !.tasks = m.tasks]
        BY <3>3 DEF QueueOnly
      <4>2. /\ disk' \in State /\ disk'.batch = disk.batch /\ disk'.tasks = m.tasks
            /\ Fit(disk', OpenRun(disk'.batch), compiles, branch, journal, l)
        BY <4>1, Typed, QueueSaved
      <4> QED
        BY <4>2, Typed DEF Along
    <3>4. CASE disk' = m
      BY <3>4 DEF Along
    <3> QED
      BY <3>1, <3>2, <3>3, <3>4
  <2>7. Fit(disk', OpenRun(disk'.batch), compiles, branch, journal, log')
    BY <2>1, <2>2, <2>6, FitLog DEF SameLog
  <2>8. Usable(disk', compiles, journal, failed, log')
    <3>1. l.approved \subseteq log'.approved /\ log'.billed = l.billed
      BY <2>1 DEF SameLog
    <3>2. Limit(failed, l) <= Limit(failed, log')
      BY <2>3
    <3> QED
      BY <2>1, <2>2, <2>3, <2>6, <3>1, <3>2, Typed, UsableKept
  <2>9. Synced(failed, disk', m)
    BY DEF Synced
  <2> QED
    BY <1>1, <1>3, <2>1, <2>4, <2>5, <2>6, <2>7, <2>8, <2>9, Typed, Stepped
<1> QED
  BY <1>2, <1>3 DEF Persist

-----------------------------------------------------------------------------
(* The steps of the call alone. *)
Pcs == {"down", "idle", "restore", "replay", "scan", "batch", "next", "inner",
        "build", "edit", "proposed", "review", "judged", "adopt", "journal",
        "merge", "record", "leave", "end"}
SameCall(k, h) == /\ k.then = h.then /\ k.i = h.i /\ k.iter = h.iter
                  /\ k.tree = h.tree /\ k.stop = h.stop /\ k.held = h.held

LEMMA CallFacts ==
    ASSUME call \in Call
    PROVE  /\ call.pc \in Pcs /\ call.then \in {"idle", "scan"}
           /\ call.i \in 1 .. Len(Order) + 1 /\ call.i \in Nat
           /\ call.iter \in Nat
           /\ call.tree \in Trees
           /\ \A pc \in Pcs : /\ Goto(pc) \in Call /\ Goto(pc).pc = pc
                              /\ Goto(pc).err = call.err
                              /\ SameCall(Goto(pc), call)
           /\ \A e \in Errors : /\ Leaving(e) \in Call /\ Leaving(e).pc = "leave"
                                /\ Leaving(e).err = e
                                /\ SameCall(Leaving(e), call)
                                /\ Ending(e) \in Call /\ Ending(e).pc = "end"
                                /\ Ending(e).err = e
                                /\ SameCall(Ending(e), call)
<1>1. /\ call.pc \in Pcs /\ call.then \in {"idle", "scan"}
      /\ call.i \in 1 .. Len(Order) + 1
      /\ call.iter \in Nat
      /\ call.tree \in Trees
  BY DEF Call, Pcs
<1>2. call.i \in Nat
  BY <1>1, PlaceFacts
<1>3. \A pc \in Pcs : /\ Goto(pc) \in Call /\ Goto(pc).pc = pc
                      /\ Goto(pc).err = call.err
                      /\ SameCall(Goto(pc), call)
  BY DEF Call, Pcs, Goto, SameCall
<1>4. \A e \in Errors : /\ Leaving(e) \in Call /\ Leaving(e).pc = "leave"
                        /\ Leaving(e).err = e
                        /\ SameCall(Leaving(e), call)
  BY DEF Call, Leaving, SameCall
<1>5. \A e \in Errors : /\ Ending(e) \in Call /\ Ending(e).pc = "end"
                        /\ Ending(e).err = e
                        /\ SameCall(Ending(e), call)
  BY DEF Call, Ending, SameCall
<1> QED
  BY <1>1, <1>2, <1>3, <1>4, <1>5

LEMMA IdleFacts ==
    /\ Idle \in Call /\ Idle.pc = "idle" /\ Idle.then = "idle" /\ Idle.iter = 0
    /\ Original \in Trees
<1>1. Original \in Trees
  BY SolutionAssumption DEF Original, Trees
<1>2. 1 \in 1 .. Len(Order) + 1
  BY PlaceFacts
<1> QED
  BY <1>1, <1>2 DEF Idle, Call, Errors

(* What holds while nobody is in the middle of a solution, and inside one. *)
LEMMA Facts ==
    ASSUME IInv
    PROVE  /\ Fit(mem, UnderWay(call, mem), compiles, branch, journal, log)
           /\ Since(mem.tasks, Limit(call, log)) /\ Limit(call, log) \in Nat
           /\ Session(call, mem, log)
           /\ Work(call, mem, compiles, branch, journal, log)
           /\ Ledgers(call, mem, branch, journal)
           /\ log.starts \in Nat
           /\ mem.tasks \in Seq(Entry)
           /\ mem.batch # None => mem.batch \in SolutionBatch
  BY Typed, BoundFacts DEF MemOK, LogOK, State

LEMMA ForgottenKept == ASSUME IInv, Forgotten PROVE IInv'
<1>1. /\ call.pc = "restore" /\ ~ Unfinished(mem.tasks) /\ call' = Goto(call.then)
      /\ UNCHANGED <<compiles, branch, journal, disk, mem, log>>
  BY DEF Forgotten, At
<1>2. /\ call' \in Call /\ call'.pc = call.then /\ call.then \in {"idle", "scan"}
      /\ call'.iter = call.iter
  BY <1>1, Typed, CallFacts DEF Pcs, SameCall
<1>3. Settled(mem.tasks, branch, journal)
  BY <1>1, Facts DEF Fit, Redo, Unfinished
<1>4. Limit(call', log') = Limit(call, log)
  BY <1>1, <1>2 DEF Limit
<1>s. Session(call, mem, log)
  BY Facts
<1>5. Session(call', mem, log')
  BY <1>1, <1>2, <1>s DEF Session, Within, Inside, Editing
<1>6. Work(call', mem, compiles, branch, journal, log')
  BY <1>1, <1>2, Facts DEF Work, Editing
<1>7. Ledgers(call', mem, branch, journal)
  BY <1>2, <1>3 DEF Ledgers, Editing
<1>8. Synced(call', disk, mem)
  BY <1>2 DEF Synced, Editing
<1>9. UnderWay(call', mem) <=> UnderWay(call, mem)
  BY <1>1, <1>2 DEF UnderWay, Inside
<1>10. Limit(call, log) <= Limit(call', log') /\ log.starts <= log'.starts
  BY <1>1, <1>4, Facts
<1> QED
  BY <1>1, <1>2, <1>4, <1>5, <1>6, <1>7, <1>8, <1>9, <1>10, Facts, Typed, Moved

LEMMA StartKept == ASSUME IInv, Start PROVE IInv'
<1>1. /\ call.pc = "idle" /\ log.starts < MaxStarts
      /\ call' = [Idle EXCEPT !.pc = "restore", !.then = "scan"]
      /\ log' = [log EXCEPT !.starts = @ + 1]
      /\ UNCHANGED <<compiles, branch, journal, disk, mem>>
  BY DEF Start, At
<1>2. call' \in Call /\ call'.pc = "restore" /\ call'.iter = 0 /\ call'.then = "scan"
  BY <1>1, IdleFacts DEF Call
<1>3. /\ LogOK(log') /\ log'.starts = log.starts + 1 /\ log'.billed = log.billed
      /\ log'.approved = log.approved
  <2>1. LogOK(log) /\ MaxStarts \in Nat
    BY Typed, BoundFacts
  <2>2. log.starts \in 0 .. MaxStarts /\ log.starts + 1 \in 0 .. MaxStarts
    BY <1>1, <2>1 DEF LogOK
  <2> QED
    BY <1>1, <2>1, <2>2 DEF LogOK
<1>4. Limit(call, log) = log.starts /\ Limit(call', log') = log.starts
  BY <1>1, <1>2, <1>3, Facts DEF Limit
<1>s. Session(call, mem, log)
  BY Facts
<1>5. Session(call', mem, log')
  BY <1>1, <1>2, <1>s DEF Session, Within, Inside, Editing
<1>6. Work(call', mem, compiles, branch, journal, log')
  BY <1>2 DEF Work, Editing
<1>7. Ledgers(call', mem, branch, journal)
  BY <1>2 DEF Ledgers, Editing
<1>8. Synced(call', disk, mem)
  BY <1>2 DEF Synced, Editing
<1>9. UnderWay(call', mem) <=> UnderWay(call, mem)
  BY <1>1, <1>2 DEF UnderWay, Inside
<1>10. Limit(call, log) <= Limit(call', log') /\ log.starts <= log'.starts
  BY <1>3, <1>4, Facts
<1> QED
  BY <1>1, <1>2, <1>3, <1>4, <1>5, <1>6, <1>7, <1>8, <1>9, <1>10, Facts, Moved

LEMMA NoMoreKept == ASSUME IInv, NoMore PROVE IInv'
<1>1. /\ call.pc = "next"
      /\ UNCHANGED <<compiles, branch, journal, disk, mem, log>>
  BY DEF NoMore, At
<1>2. call' \in Call /\ call'.pc = "end"
  BY Typed, CallFacts DEF NoMore, Errors
<1>4. Limit(call', log') = Limit(call, log)
  BY <1>1, <1>2 DEF Limit
<1>s. Session(call, mem, log)
  BY Facts
<1>5. Session(call', mem, log')
  BY <1>1, <1>2, <1>s DEF Session, Within, Inside, Editing
<1>6. Work(call', mem, compiles, branch, journal, log')
  BY <1>2 DEF Work, Editing
<1>7. Ledgers(call', mem, branch, journal)
  BY <1>2 DEF Ledgers, Editing
<1>8. Synced(call', disk, mem)
  BY <1>2 DEF Synced, Editing
<1>9. UnderWay(call', mem) <=> UnderWay(call, mem)
  BY <1>1, <1>2 DEF UnderWay, Inside
<1>10. Limit(call, log) <= Limit(call', log') /\ log.starts <= log'.starts
  BY <1>1, <1>4, Facts
<1> QED
  BY <1>1, <1>2, <1>4, <1>5, <1>6, <1>7, <1>8, <1>9, <1>10, Facts, Typed, Moved

LEMMA StopKept == ASSUME IInv, Stop PROVE IInv'
<1>1. /\ call' = [call EXCEPT !.stop = TRUE]
      /\ UNCHANGED <<compiles, branch, journal, disk, mem, log>>
  BY DEF Stop
<1>2. /\ call' \in Call /\ call'.pc = call.pc /\ call'.then = call.then
      /\ call'.i = call.i /\ call'.iter = call.iter /\ call'.tree = call.tree
      /\ call'.err = call.err
  BY <1>1, Typed DEF Call
<1>4. Limit(call', log') = Limit(call, log)
  BY <1>1, <1>2 DEF Limit
<1>s. Session(call, mem, log)
  BY Facts
<1>5. Session(call', mem, log')
  BY <1>1, <1>2, <1>s DEF Session, Within
<1>6. Work(call', mem, compiles, branch, journal, log')
  BY <1>1, <1>2, Facts DEF Work
<1>7. Ledgers(call', mem, branch, journal)
  BY <1>2, Facts DEF Ledgers
<1>8. Synced(call', disk, mem)
  BY <1>2, Typed DEF Synced
<1>9. UnderWay(call', mem) <=> UnderWay(call, mem)
  BY <1>2 DEF UnderWay
<1>10. Limit(call, log) <= Limit(call', log') /\ log.starts <= log'.starts
  BY <1>1, <1>4, Facts
<1>11. call'.pc = "merge" => journal = Adoption'
  BY <1>1, <1>2 DEF IInv, Adoption, Adopting, Here, Now
<1> QED
  BY <1>1, <1>2, <1>4, <1>5, <1>6, <1>7, <1>8, <1>9, <1>10, <1>11, Facts, Typed, Moved

LEMMA InnerKept == ASSUME IInv, Inner PROVE IInv'
<1>1. /\ call.pc = "inner"
      /\ UNCHANGED <<compiles, branch, journal, disk, mem, log>>
  BY DEF Inner, At
<1>2. /\ call' \in Call /\ call'.i = call.i
      /\ \/ call'.pc = "build" /\ call'.iter = call.iter /\ call'.tree = HeadTree
         \/ call'.pc = "leave" /\ call'.err = "hold"
  <2>1. CASE call' = [Goto("build") EXCEPT !.tree = HeadTree]
    <3>1. Goto("build") \in Call /\ Goto("build").pc = "build" /\ SameCall(Goto("build"), call)
      BY Typed, CallFacts DEF Pcs
    <3>2. HeadTree \in Trees
      BY Typed, BranchFacts
    <3> QED
      BY <2>1, <3>1, <3>2 DEF Call, SameCall
  <2>2. CASE call' = Leaving("hold")
    BY <2>2, Typed, CallFacts DEF Errors, SameCall
  <2> QED
    BY <2>1, <2>2 DEF Inner
<1>4. Limit(call', log') = Limit(call, log)
  BY <1>1, <1>2 DEF Limit
<1>s. Session(call, mem, log)
  BY Facts
<1>5. Session(call', mem, log')
  BY <1>1, <1>2, <1>s DEF Session, Within, Inside, Editing
<1>6. Work(call', mem, compiles, branch, journal, log')
  BY <1>1, <1>2, Facts, BranchFacts DEF Work, Editing
<1>7. Ledgers(call', mem, branch, journal)
  BY <1>1, <1>2, Facts DEF Ledgers, Editing
<1>8. Synced(call', disk, mem)
  BY <1>1, <1>2, Typed DEF Synced, Editing
<1>9. UnderWay(call', mem) <=> UnderWay(call, mem)
  BY <1>1, <1>2 DEF UnderWay, Inside
<1>10. Limit(call, log) <= Limit(call', log') /\ log.starts <= log'.starts
  BY <1>1, <1>4, Facts
<1> QED
  BY <1>1, <1>2, <1>4, <1>5, <1>6, <1>7, <1>8, <1>9, <1>10, Facts, Typed, Moved

LEMMA FailsKept == ASSUME IInv, Fails PROVE IInv'
<1>1. /\ call.pc \in {"inner", "build", "edit", "review", "adopt", "journal"}
      /\ call' = Leaving("error")
      /\ log' = log \/ log' = Faulted(log)
      /\ UNCHANGED <<compiles, branch, journal, disk, mem>>
  BY DEF Fails, At
<1>2. call' \in Call /\ call'.i = call.i /\ call'.pc = "leave" /\ call'.err = "error"
  BY <1>1, Typed, CallFacts DEF Errors, SameCall
<1>3. LogOK(log') /\ SameLog(log, log')
  BY <1>1, Typed, SMTT(30) DEF LogOK, SameLog, Faulted
<1>4. Limit(call', log') = Limit(call, log)
  BY <1>1, <1>2, <1>3 DEF Limit, SameLog
<1>5. Session(call', mem, log')
  BY <1>1, <1>2, <1>3, Facts DEF Session, Within, Inside, Editing, SameLog, Fresh, Exact
<1>6. Work(call', mem, compiles, branch, journal, log')
  BY <1>2 DEF Work, Editing
<1>7. Ledgers(call', mem, branch, journal)
  BY <1>2 DEF Ledgers, Editing
<1>8. Synced(call', disk, mem)
  BY <1>2 DEF Synced, Editing
<1>9. UnderWay(call', mem) <=> UnderWay(call, mem)
  BY <1>1, <1>2 DEF UnderWay, Inside
<1>10. Limit(call, log) <= Limit(call', log') /\ log.starts <= log'.starts
  BY <1>3, <1>4, Facts DEF SameLog
<1> QED
  BY <1>1, <1>2, <1>3, <1>4, <1>5, <1>6, <1>7, <1>8, <1>9, <1>10, Facts, Moved
     DEF SameLog

(* Verifying the earlier solutions is enough: the others see no change. *)
LEMMA BuiltAll ==
    ASSUME IInv, call.pc \in Editing, Built
    PROVE  /\ AllBuild(mem.batch, {}, compiles, call.tree)
           /\ call.tree \in compiles[Order[call.i]]
<1>1. /\ mem.batch # None /\ mem.batch \in SolutionBatch /\ mem.batch.current = call.i
      /\ OpenRun(mem.batch) /\ Fresh(mem, log, call.i + 1)
  BY Facts DEF Session, Within, Editing, Inside
<1>2. call.tree \in compiles[Order[call.i]]
  BY <1>1 DEF Built, Builds
<1>3. AllBuild(mem.batch, {mem.batch.current}, compiles, HeadOf(branch))
  BY Facts DEF Fit, But, UnderWay, Editing, Inside
<1>4. call.iter \in Nat /\ call.tree \in Trees /\ call.i \in Nat
  BY Typed, CallFacts
<1>5. ASSUME NEW i \in Completed(mem.batch) PROVE call.tree \in compiles[Order[i]]
  <2>1. /\ i \in Places /\ mem.batch.runs[i].status = "completed"
    BY <1>5 DEF Completed
  <2>2. i # mem.batch.current
    BY <1>1, <2>1 DEF OpenRun
  <2>3. HeadTree \in compiles[Order[i]] /\ HeadTree \in Trees
    BY <1>3, <2>2, Typed, BranchFacts DEF AllBuild
  <2>4. CASE call.iter = 0
    BY <2>3, <2>4, Facts, BranchFacts DEF Work, Editing
  <2>5. CASE call.iter > 0
    <3>1. i \in Nat /\ Order[i] \in Solutions
      BY <2>1, PlaceFacts
    <3>2. ~ (i >= call.i + 1)
      <4>1. i >= call.i + 1 => mem.batch.runs[i] = PendingRun
        BY <1>1, <2>1 DEF Fresh
      <4>2. PendingRun.status = "pending"
        BY DEF PendingRun
      <4> QED
        BY <2>1, <4>1, <4>2
    <3>3. Earlier(i)
      BY <1>1, <1>4, <2>1, <2>2, <3>1, <3>2 DEF Earlier
    <3>4. CASE Uses[Order[i]] \cap Changed # {}
      BY <2>1, <2>5, <3>3, <3>4 DEF Built, Builds, Affected
    <3>5. CASE Uses[Order[i]] \cap Changed = {}
      <4>1. Uses[Order[i]] \subseteq Files
        BY <3>1, SolutionAssumption
      <4>2. SameInputs(Order[i], call.tree, HeadTree)
        BY <3>5, <4>1 DEF SameInputs, Changed
      <4>3. \A z \in Solutions, t, u \in Trees :
               SameInputs(z, t, u) => (t \in compiles[z] <=> u \in compiles[z])
        BY Typed DEF BuildsOK
      <4> QED
        BY <1>4, <2>3, <3>1, <4>2, <4>3
    <3> QED
      BY <3>4, <3>5
  <2> QED
    BY <1>4, <2>4, <2>5
<1> QED
  BY <1>2, <1>5 DEF AllBuild

LEMMA BuildKept == ASSUME IInv, Build PROVE IInv'
<1>1. /\ call.pc = "build"
      /\ UNCHANGED <<compiles, branch, journal, disk, mem, log>>
  BY DEF Build, At
<1>2. /\ call' \in Call /\ call'.i = call.i
      /\ \/ /\ call'.pc = "adopt" /\ call'.iter = call.iter /\ call'.tree = call.tree
            /\ Built
         \/ call'.pc = "leave" /\ call'.err = "hold"
         \/ call'.pc = "edit" /\ call'.iter = call.iter /\ call'.tree = call.tree
  <2>1. CASE Built /\ call' = Goto("adopt")
    BY <2>1, Typed, CallFacts DEF Pcs, SameCall
  <2>2. CASE call' = Leaving("hold")
    BY <2>2, Typed, CallFacts DEF Errors, SameCall
  <2>3. CASE call' = [Goto("edit") EXCEPT !.rejected = {}]
    <3>1. Goto("edit") \in Call /\ Goto("edit").pc = "edit" /\ SameCall(Goto("edit"), call)
      BY Typed, CallFacts DEF Pcs
    <3> QED
      BY <2>3, <3>1 DEF Call, SameCall
  <2> QED
    BY <2>1, <2>2, <2>3 DEF Build
<1>3. Built => /\ AllBuild(mem.batch, {}, compiles, call.tree)
               /\ call.tree \in compiles[Order[call.i]]
  BY <1>1, BuiltAll DEF Editing
<1>4. Limit(call', log') = Limit(call, log)
  BY <1>1, <1>2 DEF Limit
<1>s. Session(call, mem, log)
  BY Facts
<1>5. Session(call', mem, log')
  BY <1>1, <1>2, <1>s DEF Session, Within, Inside, Editing
<1>6. Work(call', mem, compiles, branch, journal, log')
  BY <1>1, <1>2, <1>3, Facts DEF Work, Editing
<1>7. Ledgers(call', mem, branch, journal)
  BY <1>1, <1>2, Facts DEF Ledgers, Editing
<1>8. Synced(call', disk, mem)
  BY <1>1, <1>2, Typed DEF Synced, Editing
<1>9. UnderWay(call', mem) <=> UnderWay(call, mem)
  BY <1>1, <1>2 DEF UnderWay, Inside
<1>10. Limit(call, log) <= Limit(call', log') /\ log.starts <= log'.starts
  BY <1>1, <1>4, Facts
<1> QED
  BY <1>1, <1>2, <1>4, <1>5, <1>6, <1>7, <1>8, <1>9, <1>10, Facts, Typed, Moved

-----------------------------------------------------------------------------
(* The steps that save, outside a solution. *)
LEMMA SinceMono ==
    ASSUME NEW t \in Seq(Entry), NEW n \in Nat, NEW m \in Nat, n <= m, Since(t, n)
    PROVE  Since(t, m)
<1>1. \A id \in Recorded(t) : id[1] \in Nat
  BY QueueFacts, BoundFacts DEF Ids
<1> QED
  BY <1>1 DEF Since

(* Nothing in the journal is needed any more. *)
LEMMA NotLive ==
    ASSUME NEW d, NEW m, d.tasks = m.tasks, NEW b, NEW j, Settled(m.tasks, b, j),
           NEW c, NEW k, NEW l
    PROVE  Usable(d, c, j, k, l) /\ ~ Live(d, j)
  BY DEF Usable, Live, Settled

(* The journal stays usable while the call moves on and nothing is billed. *)
LEMMA StillUsable ==
    ASSUME IInv, NEW k, NEW l, LogOK(l), SameLog(log, l), Limit(k, l) \in Nat,
           Limit(call, log) <= Limit(k, l)
    PROVE  Usable(disk, compiles, journal, k, l)
<1>1. /\ l.billed = log.billed /\ log.approved \subseteq l.approved
      /\ log.starts <= l.starts /\ Known(disk.tasks) \subseteq Known(disk.tasks)
  BY Facts DEF SameLog
<1> QED
  BY <1>1, Typed, Facts, UsableKept

LEMMA Quiet ==
    ASSUME NEW m \in State, Over(m.batch)
    PROVE  OpenRun(m.batch) = FALSE /\ (m.batch # None => Orderly(m.batch))
<1>1. ASSUME m.batch # None PROVE m.batch.current \in Places
  BY <1>1 DEF State, SolutionBatch
<1> QED
  BY <1>1 DEF Over, OpenRun, Orderly

LEMMA LogSame == ASSUME IInv PROVE SameLog(log, log)
  BY DEF SameLog

LEMMA ScanKept == ASSUME IInv, Scan PROVE IInv'
<1>1. /\ call.pc = "scan" /\ UNCHANGED <<compiles, branch, journal>>
      /\ Persist(mem, Goto("batch"), Idle, log)
  BY DEF Scan, At
<1> DEFINE next == Goto("batch")
<1>2. /\ next \in Call /\ next.pc = "batch" /\ next.iter = call.iter
  BY Typed, CallFacts DEF Pcs, SameCall
<1>3. Idle \in Call /\ Idle.pc = "idle"
  BY IdleFacts
<1>p. Persist(mem, next, Idle, log)
  BY <1>1
<1> HIDE DEF next
<1>4. Over(mem.batch)
  BY <1>1, Facts DEF Session
<1>5. OpenRun(mem.batch) = FALSE /\ (mem.batch # None => Orderly(mem.batch))
  BY <1>4, Typed, Quiet
<1>6. Fit(mem, FALSE, compiles, branch, journal, log)
  <2>1. UnderWay(call, mem) = FALSE
    BY <1>1 DEF UnderWay, Inside
  <2> QED
    BY <2>1, Facts
<1>7. /\ Limit(next, log) = Limit(call, log) /\ Limit(Idle, log) = log.starts
      /\ Limit(call, log) = log.starts - 1
      /\ Limit(call, log) \in Nat /\ log.starts \in Nat
  BY <1>1, <1>2, <1>3, Facts DEF Limit
<1>8. Usable(disk, compiles, journal, next, log) /\ Usable(disk, compiles, journal, Idle, log)
  <2>1. /\ Limit(call, log) <= Limit(next, log) /\ Limit(next, log) \in Nat
        /\ Limit(call, log) <= Limit(Idle, log) /\ Limit(Idle, log) \in Nat
    BY <1>7
  <2> QED
    BY <2>1, Typed, LogSame, StillUsable
<1>9. UnderWay(next, mem) = FALSE /\ UnderWay(Idle, mem) = FALSE
  BY <1>2, <1>3 DEF UnderWay, Inside
<1>10. Since(mem.tasks, Limit(next, log)) /\ Since(mem.tasks, Limit(Idle, log))
  <2>1. Limit(call, log) <= Limit(Idle, log) /\ Limit(Idle, log) \in Nat
    BY <1>7
  <2> QED
    BY <1>7, <2>1, Facts, SinceMono
<1>11. Session(next, mem, log) /\ Session(Idle, mem, log)
  BY <1>2, <1>3, <1>4 DEF Session, Inside
<1>12. Settled(mem.tasks, branch, journal)
  BY <1>1, Facts DEF Ledgers
<1>13. Ledgers(next, mem, branch, journal) /\ Ledgers(Idle, mem, branch, journal)
  BY <1>2, <1>3, <1>12 DEF Ledgers, Editing
<1>14. call.iter = 0
  BY <1>1, Facts DEF Work
<1>15. /\ Work(next, mem, compiles, branch, journal, log)
       /\ Work(Idle, mem, compiles, branch, journal, log)
  BY <1>2, <1>3, <1>14 DEF Work, Editing
<1>16. /\ MemOK(mem, next, compiles, branch, journal, log)
       /\ MemOK(mem, Idle, compiles, branch, journal, log)
  BY <1>6, <1>7, <1>9, <1>10, <1>11, <1>13, <1>15 DEF MemOK
<1>17. /\ next.pc \notin {"merge", "journal", "down"}
       /\ Idle.pc \notin {"merge", "journal", "down", "batch", "next", "inner"} \cup Editing
  BY <1>2, <1>3 DEF Editing
<1> QED
  BY <1>1, <1>p, <1>2, <1>3, <1>5, <1>6, <1>8, <1>16, <1>17, Typed, Persisted

LEMMA BatchKept == ASSUME IInv, Batch PROVE IInv'
<1>1. /\ call.pc = "batch" /\ UNCHANGED <<compiles, branch, journal>>
      /\ Persist([mem EXCEPT !.batch = NewBatch], Goto("next"), Ending("error"), log)
  BY DEF Batch, At
<1> DEFINE next == Goto("next")
           failed == Ending("error")
           m == [mem EXCEPT !.batch = NewBatch]
<1>2. /\ next \in Call /\ next.pc = "next" /\ next.iter = call.iter
      /\ failed \in Call /\ failed.pc = "end"
  BY Typed, CallFacts DEF Pcs, SameCall, Errors
<1>p. Persist(m, next, failed, log)
  BY <1>1
<1>7. /\ Limit(call, log) = log.starts - 1
      /\ Limit(call, log) \in Nat /\ log.starts \in Nat
      /\ Limit(next, log) = log.starts /\ Limit(failed, log) = log.starts
  BY <1>1, <1>2, Facts DEF Limit
<1>3. /\ NewBatch \in SolutionBatch /\ NewBatch # None /\ NewBatch.start = log.starts
      /\ NewBatch.status = "running" /\ NewBatch.current = 1
      /\ \A i \in Places : NewBatch.runs[i] = PendingRun
      /\ \A i \in Places : NewBatch.runs[i].status = "pending"
  <2>1. log.starts \in 1 .. MaxStarts
    BY <1>7, Typed, BoundFacts DEF LogOK
  <2>2. PendingRun \in SolutionRun /\ PendingRun.status = "pending"
    BY DEF PendingRun, SolutionRun
  <2>3. [i \in Places |-> PendingRun] \in [Places -> SolutionRun]
    BY <2>2
  <2>4. NewBatch \in SolutionBatch
    BY <2>1, <2>3, PlaceFacts DEF NewBatch, SolutionBatch
  <2> QED
    BY <2>2, <2>4, NotNone DEF NewBatch
<1>4. m \in State /\ m.batch = NewBatch /\ m.tasks = mem.tasks
  BY <1>3, Typed DEF State
<1> HIDE DEF next, failed, m
<1>5. OpenRun(m.batch) = FALSE /\ Orderly(m.batch) /\ Completed(m.batch) = {}
  BY <1>3, <1>4, PlaceFacts DEF OpenRun, Orderly, Completed
<1>12. Settled(mem.tasks, branch, journal)
  BY <1>1, Facts DEF Ledgers
<1>6. Fit(m, FALSE, compiles, branch, journal, log)
  <2>1. UnderWay(call, mem) = FALSE
    BY <1>1 DEF UnderWay, Inside
  <2>2. Fit(mem, FALSE, compiles, branch, journal, log)
    BY <2>1, Facts
  <2>3. Backed(m.tasks, m.batch, {})
    BY <1>3, <1>4 DEF Backed, Ended
  <2>4. m.batch.start <= log.starts
    BY <1>3, <1>4, <1>7
  <2> QED
    BY <1>4, <1>5, <1>12, <2>2, <2>3, <2>4 DEF Fit, AllBuild, Open1, But
<1>8. disk = mem
  BY <1>1, Typed DEF Synced
<1>9. Usable(disk, compiles, journal, next, log) /\ Usable(disk, compiles, journal, failed, log)
  BY <1>8, <1>12, NotLive
<1>10. /\ UnderWay(next, m) = FALSE /\ UnderWay(failed, m) = FALSE
  BY <1>2 DEF UnderWay, Inside
<1>11. Since(m.tasks, log.starts - 1) /\ Since(m.tasks, log.starts)
  <2>1. log.starts - 1 \in Nat /\ log.starts - 1 <= log.starts
    BY <1>7
  <2>2. Since(mem.tasks, log.starts - 1)
    BY <1>7, Facts
  <2> QED
    BY <1>4, <1>7, <2>1, <2>2, Facts, SinceMono
<1>13. Fresh(m, log, next.i)
  <2>1. \A i \in Places : <<log.starts, i>> \notin Recorded(m.tasks)
    BY <1>7, <1>11 DEF Since
  <2> QED
    BY <1>3, <1>4, <2>1 DEF Fresh
<1>14. Session(next, m, log) /\ Session(failed, m, log)
  BY <1>2, <1>3, <1>4, <1>5, <1>13 DEF Session, Inside
<1>15. Ledgers(next, m, branch, journal) /\ Ledgers(failed, m, branch, journal)
  BY <1>2, <1>4, <1>12 DEF Ledgers, Editing
<1>16. call.iter = 0
  BY <1>1, Facts DEF Work
<1>17. /\ Work(next, m, compiles, branch, journal, log)
       /\ Work(failed, m, compiles, branch, journal, log)
  BY <1>2, <1>16 DEF Work, Editing
<1>18. /\ MemOK(m, next, compiles, branch, journal, log)
       /\ MemOK(m, failed, compiles, branch, journal, log)
  BY <1>6, <1>7, <1>10, <1>11, <1>14, <1>15, <1>17 DEF MemOK
<1>19. /\ next.pc \notin {"merge", "journal", "down"}
       /\ failed.pc \notin {"merge", "journal", "down", "batch", "next", "inner"} \cup Editing
  BY <1>2 DEF Editing
<1>20. Along(disk, m)
  BY <1>4, <1>8 DEF Along
<1> QED
  BY <1>1, <1>p, <1>2, <1>4, <1>5, <1>6, <1>9, <1>18, <1>19, <1>20, Typed, Persisted

LEMMA TakeNextKept == ASSUME IInv, TakeNext PROVE IInv'
<1>1. /\ call.pc = "next" /\ call.i \in Places /\ UNCHANGED <<compiles, branch, journal>>
      /\ Persist([mem EXCEPT !.batch.current = call.i,
                             !.batch.runs[call.i].status = "running"],
                 Goto("inner"), Ending("error"), log)
  BY DEF TakeNext, At
<1> DEFINE next == Goto("inner")
           failed == Ending("error")
           m == [mem EXCEPT !.batch.current = call.i,
                            !.batch.runs[call.i].status = "running"]
           id == <<log.starts, call.i>>
<1>2. /\ next \in Call /\ next.pc = "inner" /\ next.iter = call.iter /\ next.i = call.i
      /\ failed \in Call /\ failed.pc = "end"
  BY Typed, CallFacts DEF Pcs, SameCall, Errors
<1>p. Persist(m, next, failed, log)
  BY <1>1
<1>s. Session(call, mem, log)
  BY Facts
<1>3. /\ mem.batch # None /\ mem.batch \in SolutionBatch /\ mem.batch.start = log.starts
      /\ mem.batch.status = "running" /\ Fresh(mem, log, call.i)
      /\ ~ OpenRun(mem.batch)
  BY <1>1, <1>s, Facts DEF Session
<1>7. /\ Limit(call, log) = log.starts /\ log.starts \in Nat /\ call.i \in Nat
      /\ Limit(next, log) = log.starts /\ Limit(failed, log) = log.starts
  BY <1>1, <1>2, Facts, Typed, CallFacts DEF Limit
<1>4. mem.batch.runs[call.i] = PendingRun /\ id \notin Recorded(mem.tasks)
  BY <1>1, <1>3, <1>7 DEF Fresh
<1> DEFINE r == [PendingRun EXCEPT !.status = "running"]
<1>5. /\ r \in SolutionRun /\ r.status = "running" /\ r.usage = 0 /\ ~ r.pending
      /\ PendingRun.status = "pending"
  BY DEF PendingRun, SolutionRun
<1>6. /\ m \in State /\ m.tasks = mem.tasks
      /\ m.batch \in SolutionBatch /\ m.batch # None
      /\ m.batch.start = log.starts /\ m.batch.current = call.i
      /\ m.batch.status = "running" /\ m.batch.runs[call.i] = r
      /\ \A i \in Places : i # call.i => m.batch.runs[i] = mem.batch.runs[i]
  <2> DEFINE rr == [mem.batch.runs EXCEPT ![call.i] = r]
             bb == [mem.batch EXCEPT !.current = call.i, !.runs = rr]
  <2>1. /\ rr \in [Places -> SolutionRun] /\ rr[call.i] = r
        /\ \A i \in Places : i # call.i => rr[i] = mem.batch.runs[i]
    <3> HIDE DEF r
    <3> QED
      BY <1>1, <1>3, <1>5 DEF SolutionBatch
  <2>2. m = [mem EXCEPT !.batch = bb]
    <3>1. [mem.batch.runs EXCEPT ![call.i].status = "running"] = rr
      BY <1>1, <1>3, <1>4 DEF SolutionBatch
    <3> DEFINE b1 == [mem.batch EXCEPT !.current = call.i]
               m1 == [mem EXCEPT !.batch = b1]
    <3>2. mem \in State
      BY Typed
    <3>3. b1.runs = mem.batch.runs
      BY <1>3 DEF SolutionBatch
    <3>4. m1.batch = b1
      BY <3>2 DEF State
    <3>5. m = [m1 EXCEPT !.batch = [m1.batch EXCEPT !.runs =
                 [m1.batch.runs EXCEPT ![call.i].status = "running"]]]
      OBVIOUS
    <3>6. m = [m1 EXCEPT !.batch = [b1 EXCEPT !.runs = rr]]
      BY <3>1, <3>3, <3>4, <3>5
    <3>7. [b1 EXCEPT !.runs = rr] = bb
      BY <1>3 DEF SolutionBatch
    <3>8. \A v : [m1 EXCEPT !.batch = v] = [mem EXCEPT !.batch = v]
      BY <3>2 DEF State
    <3> HIDE DEF m, m1, b1, bb, rr
    <3> QED
      BY <3>6, <3>7, <3>8
  <2> HIDE DEF rr, m
  <2>3. /\ bb \in SolutionBatch /\ bb.runs = rr /\ bb.start = mem.batch.start
        /\ bb.current = call.i /\ bb.status = mem.batch.status
    BY <1>1, <1>3, <2>1 DEF SolutionBatch
  <2> HIDE DEF bb
  <2>4. m.batch = bb /\ m.tasks = mem.tasks /\ m \in State
    BY <2>2, <2>3, Typed DEF State
  <2> QED
    BY <1>3, <2>1, <2>3, <2>4, NotNone
<1> HIDE DEF next, failed, m, r
<1>8. /\ OpenRun(m.batch) = TRUE /\ Orderly(m.batch)
      /\ Completed(m.batch) \subseteq Completed(mem.batch)
      /\ Ran(m.batch) = id
  BY <1>3, <1>4, <1>5, <1>6, <1>1 DEF OpenRun, Orderly, Completed, Ran
<1>9. Settled(m.tasks, branch, journal)
  BY <1>1, <1>6, Facts DEF Ledgers
<1>10. disk = mem
  BY <1>1, Typed DEF Synced
<1>11. Fit(mem, FALSE, compiles, branch, journal, log)
  <2>1. UnderWay(call, mem) = FALSE
    BY <1>1 DEF UnderWay, Inside
  <2> QED
    BY <2>1, Facts
<1>12. log.billed[id] = 0
  <2>1. id \in Ids /\ log.billed[id] \in Nat
    BY <1>6, <1>8, IdFacts, Typed DEF LogOK
  <2>2. Charged(log) \subseteq Recorded(mem.tasks)
    BY <1>11 DEF Fit, Open1
  <2> QED
    BY <1>4, <2>1, <2>2 DEF Charged
<1>13. /\ Backed(m.tasks, m.batch, {})
       /\ AllBuild(m.batch, {}, compiles, HeadOf(branch))
  <2>1. /\ Backed(mem.tasks, mem.batch, {})
        /\ AllBuild(mem.batch, {}, compiles, HeadOf(branch))
    BY <1>11 DEF Fit, But
  <2>2. r.status \notin Ended
    BY <1>5 DEF Ended
  <2>3. Backed(m.tasks, m.batch, {})
    BY <1>3, <1>6, <2>1, <2>2 DEF Backed
  <2> QED
    BY <1>8, <2>1, <2>3 DEF AllBuild
<1>14. Books(m.tasks, log) /\ Charged(log) \subseteq Recorded(m.tasks)
  BY <1>6, <1>11 DEF Fit, Open1
<1>15. Counted(m.batch, log)
  BY <1>5, <1>6, <1>8, <1>12 DEF Counted
<1>16. m.batch.start <= log.starts
  BY <1>6, <1>7
<1>17. Fit(m, TRUE, compiles, branch, journal, log)
  BY <1>6, <1>9, <1>13, <1>14, <1>15, <1>16 DEF Fit, Open1, But, Backed, AllBuild
<1>18. Fit(m, FALSE, compiles, branch, journal, log)
  BY <1>6, <1>9, <1>13, <1>14, <1>16 DEF Fit, Open1, But
<1>19. Usable(disk, compiles, journal, next, log) /\ Usable(disk, compiles, journal, failed, log)
  BY <1>6, <1>9, <1>10, NotLive
<1>20. /\ UnderWay(next, m) = TRUE /\ UnderWay(failed, m) = FALSE
  BY <1>2 DEF UnderWay, Inside
<1>21. Since(m.tasks, log.starts)
  BY <1>6, <1>7, Facts
<1>22. Session(next, m, log) /\ Session(failed, m, log)
  <2>1. Fresh(m, log, call.i + 1)
    <3> SUFFICES ASSUME NEW i \in Places, i >= call.i + 1
                 PROVE  <<log.starts, i>> \notin Recorded(m.tasks)
                        /\ m.batch.runs[i] = PendingRun
      BY DEF Fresh
    <3>1. i >= call.i /\ i # call.i
      BY <1>7, PlaceFacts
    <3> QED
      BY <1>3, <1>6, <3>1 DEF Fresh
  <2>2. id \notin Recorded(m.tasks)
    BY <1>4, <1>6
  <2>4. Exact(m.batch, log)
    BY <1>5, <1>6, <1>8, <1>12 DEF Exact
  <2>3. Within(next, m, log)
    BY <1>2, <1>5, <1>6, <1>8, <2>1, <2>2, <2>4 DEF Within
  <2> QED
    BY <1>2, <1>6, <2>3 DEF Session, Inside
<1>23. Ledgers(next, m, branch, journal) /\ Ledgers(failed, m, branch, journal)
  BY <1>2, <1>9 DEF Ledgers, Editing
<1>24. call.iter = 0
  BY <1>1, Facts DEF Work
<1>25. /\ Work(next, m, compiles, branch, journal, log)
       /\ Work(failed, m, compiles, branch, journal, log)
  BY <1>2, <1>24 DEF Work, Editing
<1>26. /\ MemOK(m, next, compiles, branch, journal, log)
       /\ MemOK(m, failed, compiles, branch, journal, log)
  BY <1>7, <1>17, <1>18, <1>20, <1>21, <1>22, <1>23, <1>25 DEF MemOK
<1>27. /\ next.pc \notin {"merge", "journal", "down"}
       /\ failed.pc \notin {"merge", "journal", "down", "batch", "next", "inner"} \cup Editing
  BY <1>2 DEF Editing
<1>28. Along(disk, m)
  BY <1>6, <1>10 DEF Along
<1> QED
  BY <1>1, <1>p, <1>2, <1>6, <1>8, <1>17, <1>19, <1>26, <1>27, <1>28, Typed, Persisted

(* The current run of x is behind: it is recorded and, if completed, builds. *)
LEMMA Passed ==
    ASSUME NEW x \in State, NEW c, NEW b, NEW j, NEW l, Fit(x, TRUE, c, b, j, l),
           Ran(x.batch) \in Recorded(x.tasks), AllBuild(x.batch, {}, c, HeadOf(b))
    PROVE  Fit(x, FALSE, c, b, j, l)
<1>1. Charged(l) \subseteq Recorded(x.tasks)
  BY DEF Fit, Open1
<1>2. Backed(x.tasks, x.batch, {})
  BY DEF Fit, Backed, But, Ran
<1>3. Settled(x.tasks, b, j) \/ Redo(x, FALSE, b, j)
  BY DEF Fit, Redo
<1> QED
  BY <1>1, <1>2, <1>3 DEF Fit, Open1, But

LEMMA LeaveKept == ASSUME IInv, Leave PROVE IInv'
<1> DEFINE status == IF call.stop THEN "stopped"
                     ELSE IF call.err = "hold" THEN "needs_human" ELSE "failed"
           m == IF call.err = "none" THEN mem ELSE FailedAs(mem, status)
           held == call.held \/ call.err = "hold"
           on == [Idle EXCEPT !.pc = "next", !.i = call.i + 1,
                              !.held = call.held \/ call.err = "hold",
                              !.stop = call.stop]
           goesOn == call.err = "none" \/ (call.err = "hold" /\ ~ call.stop)
           next == IF goesOn THEN on ELSE Ending("error")
           failed == Ending("error")
           id == <<log.starts, call.i>>
<1>1. /\ call.pc = "leave" /\ UNCHANGED <<compiles, branch, journal>>
      /\ Persist(m, next, failed, log)
  BY DEF Leave, At
<1>s. Session(call, mem, log)
  BY Facts
<1>2. Within(call, mem, log)
  BY <1>1, <1>s DEF Session, Inside
<1>3. /\ mem.batch # None /\ mem.batch \in SolutionBatch /\ mem.batch.start = log.starts
      /\ mem.batch.current = call.i /\ mem.batch.status = "running"
      /\ Fresh(mem, log, call.i + 1) /\ Ran(mem.batch) = id
  BY <1>2, Facts DEF Within, Ran
<1>4. call.i \in Places
  BY <1>3 DEF SolutionBatch
<1>t. /\ call.err \in Errors /\ call.stop \in BOOLEAN /\ call.held \in BOOLEAN
  BY Typed DEF Call
<1>5. /\ on \in Call /\ on.pc = "next" /\ on.i = call.i + 1 /\ on.iter = 0
      /\ failed \in Call /\ failed.pc = "end"
  <2>1. held \in BOOLEAN /\ call.i + 1 \in 1 .. Len(Order) + 1
    BY <1>t, <1>4, PlaceFacts
  <2>2. on = [Idle EXCEPT !.pc = "next", !.i = call.i + 1, !.held = held,
                          !.stop = call.stop]
    OBVIOUS
  <2> HIDE DEF held, on
  <2>3. on \in Call /\ on.pc = "next" /\ on.i = call.i + 1 /\ on.iter = 0
    BY <1>t, <2>1, <2>2, IdleFacts, ZenonT(60) DEF Call
  <2> QED
    BY <2>3, Typed, CallFacts DEF Errors
<1>6. Fit(mem, TRUE, compiles, branch, journal, log)
  <2>1. UnderWay(call, mem) = TRUE
    BY <1>1 DEF UnderWay, Inside
  <2> QED
    BY <2>1, Facts
<1>7. /\ m \in State /\ m.batch \in SolutionBatch /\ m.batch # None
      /\ Fit(m, FALSE, compiles, branch, journal, log)
      /\ Recorded(m.tasks) = Recorded(mem.tasks) \cup {id}
      /\ Known(m.tasks) = Known(mem.tasks)
      /\ m.batch.start = log.starts /\ m.batch.current = call.i
      /\ m.batch.status = "running" /\ ~ OpenRun(m.batch)
      /\ \A i \in Places : i # call.i => m.batch.runs[i] = mem.batch.runs[i]
  <2>1. CASE call.err = "none"
    <3>1. m = mem
      BY <2>1
    <3>2. id \in Recorded(mem.tasks) /\ ~ OpenRun(mem.batch)
      BY <1>1, <1>2, <2>1 DEF Within
    <3>3. AllBuild(mem.batch, {}, compiles, HeadOf(branch))
      BY <1>1, <2>1, Facts DEF Work
    <3> HIDE DEF m
    <3>4. Fit(mem, FALSE, compiles, branch, journal, log)
      BY <1>3, <1>6, <3>2, <3>3, Typed, Passed
    <3> QED
      BY <1>3, <3>1, <3>2, <3>4, Typed
  <2>2. CASE call.err # "none"
    <3>1. m = FailedAs(mem, status)
      BY <2>2
    <3>2. status \in {"needs_human", "failed", "stopped"}
      OBVIOUS
    <3> HIDE DEF m, status
    <3>3. Accounts(m, mem, status) /\ Fit(m, FALSE, compiles, branch, journal, log)
      BY <1>6, <3>1, <3>2, Typed, FailedFit
    <3>4. status # "running"
      BY <3>2
    <3> QED
      BY <1>3, <3>3, <3>4 DEF Accounts, OpenRun
  <2> QED
    BY <2>1, <2>2
<1>8. /\ next \in Call
      /\ next.pc = "end" \/ (next.pc = "next" /\ next.i = call.i + 1 /\ next.iter = 0
                             /\ call.err # "error")
  <2> HIDE DEF on, failed
  <2>1. CASE goesOn
    BY <1>5, <2>1
  <2>2. CASE ~ goesOn
    BY <1>5, <2>2 DEF failed
  <2> QED
    BY <2>1, <2>2
<1> HIDE DEF m, next, failed, on
<1>9. /\ Limit(call, log) = log.starts /\ log.starts \in Nat /\ call.i \in Nat
      /\ Limit(next, log) = log.starts /\ Limit(failed, log) = log.starts
  BY <1>1, <1>5, <1>8, Facts, Typed, CallFacts DEF Limit
<1>10. OpenRun(m.batch) = FALSE /\ Orderly(m.batch)
  BY <1>7 DEF OpenRun, Orderly
<1>11. Along(disk, m)
  BY <1>7, Typed DEF Along
<1>12. Usable(disk, compiles, journal, next, log) /\ Usable(disk, compiles, journal, failed, log)
  <2>1. /\ Limit(call, log) <= Limit(next, log) /\ Limit(next, log) \in Nat
        /\ Limit(call, log) <= Limit(failed, log) /\ Limit(failed, log) \in Nat
    BY <1>9
  <2> QED
    BY <2>1, Typed, LogSame, StillUsable
<1>13. Since(m.tasks, log.starts)
  <2>1. Since(mem.tasks, log.starts)
    BY <1>9, Facts
  <2> QED
    BY <1>7, <1>9, <2>1 DEF Since
<1>14. UnderWay(next, m) = FALSE /\ UnderWay(failed, m) = FALSE
  BY <1>5, <1>8 DEF UnderWay, Inside
<1>15. Fresh(m, log, call.i + 1)
  <2> SUFFICES ASSUME NEW i \in Places, i >= call.i + 1
               PROVE  <<log.starts, i>> \notin Recorded(m.tasks)
                      /\ m.batch.runs[i] = PendingRun
    BY DEF Fresh
  <2>1. i # call.i
    BY <1>9, PlaceFacts
  <2>2. <<log.starts, i>> # id
    BY <2>1
  <2> QED
    BY <1>3, <1>7, <2>1, <2>2 DEF Fresh
<1>16. Session(next, m, log) /\ Session(failed, m, log)
  BY <1>5, <1>7, <1>8, <1>15 DEF Session, Inside
<1>17. call.err # "error" => Settled(m.tasks, branch, journal)
  <2>1. call.err # "error" => Settled(mem.tasks, branch, journal)
    BY <1>1, Facts DEF Ledgers
  <2> QED
    BY <1>7, <2>1 DEF Settled
<1>18. Ledgers(next, m, branch, journal) /\ Ledgers(failed, m, branch, journal)
  BY <1>5, <1>8, <1>17 DEF Ledgers, Editing
<1>19. /\ Work(next, m, compiles, branch, journal, log)
       /\ Work(failed, m, compiles, branch, journal, log)
  BY <1>5, <1>8 DEF Work, Editing
<1>20. /\ MemOK(m, next, compiles, branch, journal, log)
       /\ MemOK(m, failed, compiles, branch, journal, log)
  BY <1>7, <1>9, <1>13, <1>14, <1>16, <1>18, <1>19 DEF MemOK
<1>21. /\ next.pc \notin {"merge", "journal", "down"}
       /\ failed.pc \notin {"merge", "journal", "down", "batch", "next", "inner"} \cup Editing
  BY <1>5, <1>8 DEF Editing
<1> QED
  BY <1>1, <1>5, <1>7, <1>8, <1>10, <1>11, <1>12, <1>20, <1>21, Typed, Persisted

-----------------------------------------------------------------------------
(* The steps inside a solution that save. *)
LEMMA InsideFacts ==
    ASSUME IInv, call.pc \in Inside
    PROVE  /\ mem.batch # None /\ mem.batch \in SolutionBatch
           /\ mem.batch.start = log.starts /\ mem.batch.current = call.i
           /\ mem.batch.status = "running" /\ call.i \in Places
           /\ Ran(mem.batch) = Here /\ Here \in Ids /\ Here = <<log.starts, call.i>>
           /\ Now = mem.batch.runs[call.i] /\ Now \in SolutionRun
           /\ Fit(mem, TRUE, compiles, branch, journal, log)
           /\ Fresh(mem, log, call.i + 1)
           /\ Limit(call, log) = log.starts /\ log.starts \in Nat
           /\ Since(mem.tasks, log.starts)
           /\ call.pc # "leave" => Here \notin Recorded(mem.tasks)
           /\ call.pc # "leave" =>
                 /\ Now.pending <=> call.pc \in {"proposed", "judged"}
                 /\ Now.usage = log.billed[Here] \/ Now.uncertain
           /\ Now.usage = log.billed[Here] \/ Now.uncertain \/ Now.pending
<1>s. Session(call, mem, log)
  BY Facts
<1>1. Within(call, mem, log)
  BY <1>s DEF Session
<1>2. mem.batch # None /\ mem.batch \in SolutionBatch
  BY <1>1, Facts DEF Within
<1>3. UnderWay(call, mem) = TRUE
  BY DEF UnderWay
<1>4. Limit(call, log) = log.starts
  BY DEF Limit, Inside
<1>5. Now \in SolutionRun /\ mem.batch.current \in Places
  BY <1>2 DEF Now, SolutionBatch
<1>6. Ran(mem.batch) = Here /\ Here \in Ids
  BY <1>2, IdFacts DEF Ran, Here
<1>7. Fit(mem, TRUE, compiles, branch, journal, log)
  BY <1>3, Facts
<1>8. Since(mem.tasks, log.starts) /\ log.starts \in Nat
  BY <1>4, Facts
<1>9. /\ Counted(mem.batch, log) => Now.usage = log.billed[Here] \/ Now.uncertain \/ Now.pending
      /\ Exact(mem.batch, log) => Now.usage = log.billed[Here] \/ Now.uncertain
  BY <1>6 DEF Counted, Exact, Now
<1>10. Counted(mem.batch, log)
  BY <1>7 DEF Fit
<1> QED
  BY <1>1, <1>2, <1>4, <1>5, <1>6, <1>7, <1>8, <1>9, <1>10 DEF Within, Here, Now

LEMMA EditingFacts ==
    ASSUME IInv, call.pc \in Editing
    PROVE  /\ disk = mem /\ Settled(mem.tasks, branch, journal)
           /\ Now.status = "running" /\ OpenRun(mem.batch)
           /\ ~ Live(disk, journal)
           /\ IF call.iter = 0 THEN call.tree = HeadOf(branch)
              ELSE <<Here, call.tree>> \in log.approved
           /\ call.pc \in Inside
<1>1. call.pc \in Inside
  BY DEF Editing, Inside
<1>s. Session(call, mem, log)
  BY Facts
<1>2. Within(call, mem, log)
  BY <1>1, <1>s DEF Session
<1>3. disk = mem /\ Settled(mem.tasks, branch, journal)
  BY Typed, Facts DEF Synced, Ledgers
<1>4. Now.status = "running" /\ OpenRun(mem.batch)
  BY <1>2 DEF Within, OpenRun, Now
<1>5. ~ Live(disk, journal)
  BY <1>3, NotLive
<1>6. Work(call, mem, compiles, branch, journal, log)
  BY Facts
<1>7. Ran(mem.batch) = Here
  BY DEF Ran, Here
<1> QED
  BY <1>1, <1>3, <1>4, <1>5, <1>6, <1>7 DEF Work

(* Only what is charged for the run changes. *)
BilledHere(l) == /\ l.starts = log.starts
                 /\ log.approved \subseteq l.approved
                 /\ \A id \in Ids : id # Here => l.billed[id] = log.billed[id]

(* The bill of the run under way does not disturb the others. *)
LEMMA BilledFit ==
    ASSUME IInv, call.pc \in Editing, NEW l, LogOK(l), BilledHere(l),
           Now.usage = l.billed[Here] \/ Now.uncertain \/ Now.pending
    PROVE  Fit(mem, TRUE, compiles, branch, journal, l)
<1>1. /\ mem.batch # None /\ mem.batch \in SolutionBatch
      /\ mem.batch.start = log.starts /\ mem.batch.current = call.i
      /\ Here \in Ids /\ Now = mem.batch.runs[call.i]
      /\ Fit(mem, TRUE, compiles, branch, journal, log)
      /\ Here \notin Recorded(mem.tasks)
  <2>1. call.pc \in Inside /\ call.pc # "leave"
    BY DEF Editing, Inside
  <2> QED
    BY <2>1, InsideFacts
<1>2. Ran(mem.batch) = Here
  BY DEF Ran, Here
<1>3. Books(mem.tasks, l)
  <2>1. Books(mem.tasks, log)
    BY <1>1 DEF Fit
  <2>2. \A e \in Entries(mem.tasks) : e.run \in Ids /\ e.run # Here
    <3>1. Recorded(mem.tasks) \subseteq Ids
      BY Facts, QueueFacts
    <3> QED
      BY <1>1, <3>1 DEF Recorded
  <2> QED
    BY <2>1, <2>2 DEF Books, BilledHere
<1>4. Charged(l) \subseteq Recorded(mem.tasks) \cup {Here}
  <2>1. Charged(log) \subseteq Recorded(mem.tasks) \cup {Here}
    BY <1>1, <1>2 DEF Fit, Open1
  <2> QED
    BY <2>1 DEF Charged, BilledHere
<1>5. l.starts = log.starts
  BY DEF BilledHere
<1>6. Counted(mem.batch, l)
  BY <1>1, <1>2 DEF Counted
<1> QED
  BY <1>1, <1>2, <1>3, <1>4, <1>5, <1>6 DEF Fit, Open1

(* The record of the current run becomes r, which is saved. *)
LEMMA Reworked ==
    ASSUME IInv, call.pc \in Editing, UNCHANGED <<compiles, branch, journal>>,
           NEW r \in SolutionRun, r.status = "running",
           NEW next \in Call, NEW l, LogOK(l), BilledHere(l),
           Persist(WithRun(r), next, Leaving("error"), l),
           r.usage = l.billed[Here] \/ r.uncertain \/ r.pending,
           Now.usage = l.billed[Here] \/ Now.uncertain \/ Now.pending,
           next.i = call.i, next.pc \in Editing \cup {"leave"},
           next.pc = "leave" => next.err # "none",
           next.pc # "leave" => /\ r.pending <=> next.pc \in {"proposed", "judged"}
                                /\ r.usage = l.billed[Here] \/ r.uncertain,
           next.pc \in Editing =>
              IF next.iter = 0 THEN next.tree = HeadOf(branch)
              ELSE <<Here, next.tree>> \in l.approved,
           next.pc = "adopt" => /\ AllBuild(mem.batch, {}, compiles, next.tree)
                                /\ next.tree \in compiles[Order[call.i]]
    PROVE  IInv'
<1> DEFINE m == WithRun(r)
           failed == Leaving("error")
<1>1. call.pc \in Inside /\ call.pc # "leave"
  BY DEF Editing, Inside
<1>2. /\ mem.batch # None /\ mem.batch \in SolutionBatch
      /\ mem.batch.start = log.starts /\ mem.batch.current = call.i
      /\ mem.batch.status = "running" /\ call.i \in Places
      /\ Here \in Ids /\ Here = <<log.starts, call.i>>
      /\ Now = mem.batch.runs[call.i]
      /\ Fit(mem, TRUE, compiles, branch, journal, log)
      /\ Fresh(mem, log, call.i + 1)
      /\ log.starts \in Nat
      /\ Since(mem.tasks, log.starts)
      /\ Here \notin Recorded(mem.tasks)
  BY <1>1, InsideFacts
<1>3. /\ disk = mem /\ Settled(mem.tasks, branch, journal)
      /\ Now.status = "running" /\ OpenRun(mem.batch)
  BY EditingFacts
<1>4. failed \in Call /\ failed.pc = "leave" /\ failed.err = "error" /\ failed.i = call.i
  BY Typed, CallFacts DEF Errors, SameCall
<1>p. Persist(m, next, failed, l)
  OBVIOUS
<1>m. m = Revised(mem, r)
  BY DEF WithRun, Revised
<1> HIDE DEF m, failed
<1>5. /\ m \in State /\ m.tasks = mem.tasks
      /\ m.batch \in SolutionBatch /\ m.batch # None
      /\ m.batch.start = log.starts /\ m.batch.current = call.i
      /\ m.batch.status = "running"
      /\ m.batch.runs[call.i] = r
      /\ \A i \in Places : i # call.i => m.batch.runs[i] = mem.batch.runs[i]
  BY <1>2, <1>m, Typed, RunReplaced
<1>6. /\ OpenRun(m.batch) = TRUE /\ OpenRun(mem.batch) = TRUE /\ Orderly(m.batch)
      /\ Ran(m.batch) = Here /\ Ran(mem.batch) = Here
      /\ Completed(m.batch) = Completed(mem.batch)
  BY <1>2, <1>3, <1>5 DEF OpenRun, Orderly, Ran, Completed
<1>9. l.starts = log.starts
  BY DEF BilledHere
<1>10. Fit(mem, TRUE, compiles, branch, journal, l)
  BY BilledFit
<1>7. Books(mem.tasks, l)
  BY <1>10 DEF Fit
<1>8. Charged(l) \subseteq Recorded(mem.tasks) \cup {Here}
  BY <1>6, <1>10 DEF Fit, Open1
<1>11. Fit(m, TRUE, compiles, branch, journal, l)
  <2>1. Counted(m.batch, l)
    BY <1>5, <1>6 DEF Counted
  <2>2. Backed(m.tasks, m.batch, {m.batch.current})
    BY <1>2, <1>5 DEF Fit, Backed, But
  <2>3. AllBuild(m.batch, {m.batch.current}, compiles, HeadOf(branch))
    BY <1>2, <1>5, <1>6 DEF Fit, AllBuild, But
  <2>4. m.batch.start <= l.starts
    BY <1>2, <1>5, <1>9
  <2> QED
    BY <1>3, <1>5, <1>6, <1>7, <1>8, <2>1, <2>2, <2>3, <2>4 DEF Fit, Open1, But
<1>12. /\ Limit(next, l) = log.starts /\ Limit(failed, l) = log.starts
  BY <1>4, <1>9 DEF Limit, Editing
<1>13. Usable(disk, compiles, journal, next, l) /\ Usable(disk, compiles, journal, failed, l)
  BY <1>3, NotLive
<1>14. UnderWay(next, m) = TRUE /\ UnderWay(failed, m) = TRUE
  BY <1>4 DEF UnderWay, Inside, Editing
<1>15. Fresh(m, l, call.i + 1)
  <2> SUFFICES ASSUME NEW i \in Places, i >= call.i + 1
               PROVE  <<l.starts, i>> \notin Recorded(m.tasks)
                      /\ m.batch.runs[i] = PendingRun
    BY DEF Fresh
  <2>1. i # call.i
    BY Typed, CallFacts, PlaceFacts
  <2> QED
    BY <1>2, <1>5, <1>9, <2>1 DEF Fresh
<1>16. Within(next, m, l) /\ Within(failed, m, l)
  <2>1. <<l.starts, call.i>> \notin Recorded(m.tasks)
    BY <1>2, <1>5, <1>9
  <2>2. OpenRun(m.batch) /\ m.batch.runs[call.i].pending = r.pending
    BY <1>5, <1>6
  <2>3. m.batch.start = l.starts
    BY <1>5, <1>9
  <2>4. next.pc # "leave" => Exact(m.batch, l)
    BY <1>5, <1>6 DEF Exact
  <2> QED
    BY <1>4, <1>5, <1>15, <2>1, <2>2, <2>3, <2>4 DEF Within, Editing
<1>17. Session(next, m, l) /\ Session(failed, m, l)
  BY <1>4, <1>16 DEF Session, Inside, Editing
<1>18. Ledgers(next, m, branch, journal) /\ Ledgers(failed, m, branch, journal)
  BY <1>3, <1>4, <1>5 DEF Ledgers, Editing
<1>19. Work(next, m, compiles, branch, journal, l)
  <2>1. next.pc = "adopt" => AllBuild(m.batch, {}, compiles, next.tree)
    BY <1>6 DEF AllBuild
  <2> QED
    BY <1>6, <2>1 DEF Work, Editing
<1>20. Work(failed, m, compiles, branch, journal, l)
  BY <1>4 DEF Work, Editing
<1>21. Since(m.tasks, log.starts)
  BY <1>2, <1>5
<1>22. /\ MemOK(m, next, compiles, branch, journal, l)
       /\ MemOK(m, failed, compiles, branch, journal, l)
  BY <1>2, <1>11, <1>12, <1>14, <1>17, <1>18, <1>19, <1>20, <1>21 DEF MemOK
<1>23. /\ next.pc \notin {"merge", "journal", "down"}
       /\ failed.pc \notin {"merge", "journal", "down", "batch", "next", "inner"} \cup Editing
  BY <1>4 DEF Editing
<1>24. Along(disk, m)
  BY <1>3, <1>5 DEF Along
<1>25. BranchOK(branch, compiles, l)
  BY Typed DEF BranchOK, BilledHere
<1>26. Fit(disk, OpenRun(disk.batch), compiles, branch, journal, l)
  BY <1>3, <1>6, <1>10
<1>27. Fit(m, OpenRun(m.batch), compiles, branch, journal, l)
  BY <1>6, <1>11
<1>28. m.batch # None => Orderly(m.batch)
  BY <1>6
<1> QED
  BY <1>p, <1>4, <1>5, <1>13, <1>22, <1>23, <1>24, <1>25, <1>26, <1>27, <1>28, Persisted

LEMMA AskKept == ASSUME IInv, Ask PROVE IInv'
<1> DEFINE r == [Now EXCEPT !.pending = TRUE]
           next == Goto(IF At({"edit"}) THEN "proposed" ELSE "judged")
           l == [log EXCEPT !.sent = @ + 1]
<1>1. /\ call.pc \in {"edit", "review"} /\ UNCHANGED <<compiles, branch, journal>>
      /\ Persist(WithRun(r), next, Leaving("error"), l)
  BY DEF Ask, At
<1>2. /\ call.pc \in Editing /\ call.pc \in Inside /\ call.pc # "leave"
      /\ call.pc \notin {"proposed", "judged"}
  BY <1>1 DEF Editing, Inside
<1>3. /\ LogOK(l) /\ l.billed = log.billed /\ l.approved = log.approved
      /\ l.starts = log.starts
  BY Typed, SMTT(30) DEF LogOK
<1>4. BilledHere(l)
  BY <1>3 DEF BilledHere
<1>5. /\ r \in SolutionRun /\ r.status = "running" /\ r.pending
      /\ r.usage = Now.usage /\ r.uncertain = Now.uncertain
  BY <1>2, InsideFacts, EditingFacts DEF SolutionRun
<1>6. Now.usage = log.billed[Here] \/ Now.uncertain
  BY <1>2, InsideFacts
<1>7. /\ next \in Call /\ next.pc \in {"proposed", "judged"} /\ SameCall(next, call)
  BY Typed, CallFacts DEF Pcs
<1>8. IF call.iter = 0 THEN call.tree = HeadOf(branch) ELSE <<Here, call.tree>> \in log.approved
  BY <1>2, EditingFacts
<1> HIDE DEF r, next, l
<1>9. /\ r.usage = l.billed[Here] \/ r.uncertain \/ r.pending
      /\ Now.usage = l.billed[Here] \/ Now.uncertain \/ Now.pending
      /\ r.usage = l.billed[Here] \/ r.uncertain
  BY <1>3, <1>5, <1>6
<1>10. /\ next.i = call.i /\ next.pc \in Editing \cup {"leave"} /\ next.pc # "leave"
       /\ next.pc # "adopt"
       /\ IF next.iter = 0 THEN next.tree = HeadOf(branch)
          ELSE <<Here, next.tree>> \in l.approved
  BY <1>3, <1>7, <1>8 DEF Editing, SameCall
<1> QED
  BY <1>1, <1>2, <1>3, <1>4, <1>5, <1>7, <1>9, <1>10, Reworked

(* The bill of one more answer. *)
LEMMA PaidFacts ==
    ASSUME IInv, call.pc \in {"proposed", "judged"}
    PROVE  /\ call.pc \in Editing /\ call.pc \in Inside /\ call.pc # "leave"
           /\ Paid \in SolutionRun /\ Paid.status = "running" /\ ~ Paid.pending
           /\ Now.pending
           /\ \A l : LogOK(l) /\ l.billed = log.billed /\ l.starts = log.starts
                     /\ log.approved \subseteq l.approved =>
                        /\ LogOK(Billed(l)) /\ BilledHere(Billed(l))
                        /\ Billed(l).approved = l.approved
                        /\ Billed(l).billed[Here] = log.billed[Here] + 1
                        /\ Paid.usage = Billed(l).billed[Here] \/ Paid.uncertain
<1>1. call.pc \in Editing /\ call.pc \in Inside /\ call.pc # "leave"
  BY DEF Editing, Inside
<1>2. /\ Now \in SolutionRun /\ Now.status = "running" /\ Here \in Ids /\ Now.pending
      /\ Now.usage = log.billed[Here] \/ Now.uncertain
  BY <1>1, InsideFacts, EditingFacts
<1>3. /\ Paid \in SolutionRun /\ Paid.status = "running" /\ ~ Paid.pending
      /\ Paid.usage = Now.usage + 1 /\ Paid.uncertain = Now.uncertain
  <2> DEFINE u == Now.usage + 1
  <2>1. u \in Nat
    BY <1>2 DEF SolutionRun
  <2>2. Paid = [Now EXCEPT !.pending = FALSE, !.usage = u]
    BY DEF Paid
  <2>3. u = Now.usage + 1
    OBVIOUS
  <2> HIDE DEF u
  <2> QED
    BY <1>2, <2>1, <2>2, <2>3 DEF SolutionRun
<1>4. ASSUME NEW l, LogOK(l), l.billed = log.billed, l.starts = log.starts,
             log.approved \subseteq l.approved
      PROVE  /\ LogOK(Billed(l)) /\ BilledHere(Billed(l))
             /\ Billed(l).approved = l.approved
             /\ Billed(l).billed[Here] = log.billed[Here] + 1
  <2> DEFINE bills == [l.billed EXCEPT ![Here] = @ + 1]
  <2>1. /\ bills \in [Ids -> Nat] /\ bills[Here] = log.billed[Here] + 1
        /\ \A id \in Ids : id # Here => bills[id] = log.billed[id]
    BY <1>2, <1>4 DEF LogOK
  <2>2. Billed(l) = [l EXCEPT !.billed = bills]
    BY <1>4 DEF Billed, LogOK
  <2> HIDE DEF bills
  <2>3. /\ Billed(l).billed = bills /\ Billed(l).approved = l.approved
        /\ Billed(l).starts = l.starts /\ LogOK(Billed(l))
    BY <1>4, <2>1, <2>2 DEF LogOK
  <2> QED
    BY <1>4, <2>1, <2>3 DEF BilledHere
<1> QED
  BY <1>1, <1>2, <1>3, <1>4

LEMMA ProposeKept == ASSUME IInv, Propose PROVE IInv'
<1>1. call.pc = "proposed" /\ UNCHANGED <<compiles, branch, journal>>
  BY DEF Propose, At
<1>2. PICK next \in {Leaving("hold")}
          \cup (IF Resubmits THEN {Leaving("error")} ELSE {})
          \cup {[Goto("review") EXCEPT !.cand = t] :
                   t \in Editable \ (call.rejected \cap {call.tree})} :
         Persist(WithRun(Paid), next, Leaving("error"), Billed(log))
  BY DEF Propose
<1> DEFINE l == Billed(log)
<1>3. /\ call.pc \in Editing /\ call.pc \in Inside /\ call.pc # "leave"
      /\ Paid \in SolutionRun /\ Paid.status = "running" /\ ~ Paid.pending /\ Now.pending
      /\ LogOK(l) /\ BilledHere(l) /\ l.approved = log.approved
      /\ Paid.usage = l.billed[Here] \/ Paid.uncertain
  BY <1>1, PaidFacts, Typed
<1>4. /\ next \in Call /\ next.i = call.i
      /\ \/ next.pc = "leave" /\ next.err \in {"hold", "error"}
         \/ next.pc = "review" /\ next.iter = call.iter /\ next.tree = call.tree
  <2>1. CASE next \in {Leaving("hold"), Leaving("error")}
    BY <2>1, Typed, CallFacts DEF Errors, SameCall
  <2>2. CASE next \in {[Goto("review") EXCEPT !.cand = t] : t \in Editable}
    <3>1. Goto("review") \in Call /\ Goto("review").pc = "review" /\ SameCall(Goto("review"), call)
      BY Typed, CallFacts DEF Pcs
    <3>2. PICK t \in Trees : next = [Goto("review") EXCEPT !.cand = t]
      BY <2>2 DEF Editable
    <3> QED
      BY <3>1, <3>2 DEF Call, SameCall
  <2> QED
    BY <1>2, <2>1, <2>2
<1>5. IF call.iter = 0 THEN call.tree = HeadOf(branch) ELSE <<Here, call.tree>> \in log.approved
  BY <1>3, EditingFacts
<1>p. Persist(WithRun(Paid), next, Leaving("error"), l)
  BY <1>2
<1> HIDE DEF l
<1>6. /\ next.pc \in Editing \cup {"leave"} /\ next.pc # "adopt"
      /\ next.pc = "leave" => next.err # "none"
      /\ next.pc # "leave" => (Paid.pending <=> next.pc \in {"proposed", "judged"})
      /\ next.pc \in Editing =>
            IF next.iter = 0 THEN next.tree = HeadOf(branch)
            ELSE <<Here, next.tree>> \in l.approved
  BY <1>3, <1>4, <1>5 DEF Editing
<1> QED
  BY <1>1, <1>3, <1>4, <1>6, <1>p, Reworked

LEMMA JudgeKept == ASSUME IInv, Judge PROVE IInv'
<1>1. call.pc = "judged" /\ UNCHANGED <<compiles, branch, journal>>
  BY DEF Judge, At
<1>2. PICK verdict \in {"passed", "needs_changes", "needs_human"} :
         LET l == IF verdict # "passed" THEN log
                  ELSE [log EXCEPT !.approved = @ \cup {<<Here, call.cand>>}]
         IN  Persist(WithRun(Paid), Judgement(verdict), Leaving("error"), Billed(l))
  BY DEF Judge
<1> DEFINE n == IF verdict # "passed" THEN log
                ELSE [log EXCEPT !.approved = @ \cup {<<Here, call.cand>>}]
           l == Billed(n)
           next == Judgement(verdict)
<1>c. call.cand \in Trees /\ call.seen \subseteq Trees /\ call.rejected \subseteq Trees
      /\ call.tree \in Trees /\ call.iter \in Nat
  BY Typed DEF Call
<1>h. Here \in Ids
  BY <1>1, PaidFacts, InsideFacts
<1>3. /\ LogOK(n) /\ n.billed = log.billed /\ n.starts = log.starts
      /\ log.approved \subseteq n.approved
      /\ verdict = "passed" => <<Here, call.cand>> \in n.approved
  <2>1. CASE verdict # "passed"
    BY <2>1, Typed
  <2>2. CASE verdict = "passed"
    <3> DEFINE ap == log.approved \cup {<<Here, call.cand>>}
    <3>1. n = [log EXCEPT !.approved = ap]
      BY <2>2
    <3>2. ap \subseteq Ids \X Trees /\ <<Here, call.cand>> \in ap /\ log.approved \subseteq ap
      BY <1>c, <1>h, Typed DEF LogOK
    <3> HIDE DEF ap, n
    <3> QED
      BY <3>1, <3>2, Typed DEF LogOK
  <2> QED
    BY <2>1, <2>2
<1>p. Persist(WithRun(Paid), next, Leaving("error"), l)
  BY <1>2
<1> HIDE DEF n
<1>4. /\ call.pc \in Editing /\ call.pc \in Inside /\ call.pc # "leave"
      /\ Paid \in SolutionRun /\ Paid.status = "running" /\ ~ Paid.pending /\ Now.pending
      /\ LogOK(l) /\ BilledHere(l) /\ l.approved = n.approved
      /\ Paid.usage = l.billed[Here] \/ Paid.uncertain
  BY <1>1, <1>3, PaidFacts
<1>5. IF call.iter = 0 THEN call.tree = HeadOf(branch) ELSE <<Here, call.tree>> \in log.approved
  BY <1>4, EditingFacts
<1> HIDE DEF l
<1>6. /\ next \in Call /\ next.i = call.i
      /\ \/ next.pc = "leave" /\ next.err = "hold"
         \/ next.pc = "edit" /\ next.iter = call.iter /\ next.tree = call.tree
         \/ next.pc = "adopt" /\ next.iter = call.iter /\ next.tree = call.tree /\ Built
         \/ /\ next.pc = "build" /\ next.iter = call.iter + 1 /\ next.tree = call.cand
            /\ verdict = "passed"
  <2>1. CASE next = Leaving("hold")
    BY <2>1, Typed, CallFacts DEF Errors, SameCall
  <2>2. CASE next = [Goto("edit") EXCEPT !.rejected = @ \cup {call.cand}]
    <3>1. /\ Goto("edit") \in Call /\ Goto("edit").pc = "edit"
          /\ SameCall(Goto("edit"), call) /\ Goto("edit").rejected = call.rejected
      BY Typed, CallFacts, ZenonT(60) DEF Pcs, Goto, Call
    <3> DEFINE rej == call.rejected \cup {call.cand}
    <3>2. next = [Goto("edit") EXCEPT !.rejected = rej] /\ rej \subseteq Trees
      BY <1>c, <2>2, <3>1
    <3> HIDE DEF rej, next
    <3> QED
      BY <3>1, <3>2 DEF Call, SameCall
  <2>3. CASE next = Goto("adopt") /\ Built
    BY <2>3, Typed, CallFacts DEF Pcs, SameCall
  <2>4. CASE next = Repaired(call.cand) /\ verdict = "passed"
    <3>1. /\ Goto("build") \in Call /\ Goto("build").pc = "build"
          /\ SameCall(Goto("build"), call) /\ Goto("build").seen = call.seen
      BY Typed, CallFacts, ZenonT(60) DEF Pcs, Goto, Call
    <3> DEFINE seen == call.seen \cup {call.cand}
               it == call.iter + 1
    <3>2. /\ next = [Goto("build") EXCEPT !.tree = call.cand, !.iter = it, !.seen = seen]
          /\ seen \subseteq Trees /\ it \in Nat
      <4> DEFINE g == Goto("build")
      <4>1. next = [g EXCEPT !.tree = call.cand, !.iter = g.iter + 1,
                             !.seen = g.seen \cup {call.cand}]
        BY <2>4 DEF Repaired
      <4>2. g.iter = call.iter /\ g.seen = call.seen
        BY <3>1 DEF SameCall
      <4>3. seen \subseteq Trees /\ it \in Nat
        BY <1>c
      <4>4. g = Goto("build")
        OBVIOUS
      <4> HIDE DEF g, next
      <4> QED
        BY <4>1, <4>2, <4>3, <4>4
    <3>3. it = call.iter + 1
      OBVIOUS
    <3> HIDE DEF seen, it, next
    <3> QED
      BY <1>c, <2>4, <3>1, <3>2, <3>3, ZenonT(60) DEF Call, SameCall
  <2> QED
    BY <2>1, <2>2, <2>3, <2>4 DEF Judgement, Decided, Accepted
<1> HIDE DEF next
<1>7. next.pc = "adopt" => /\ AllBuild(mem.batch, {}, compiles, next.tree)
                           /\ next.tree \in compiles[Order[call.i]]
  BY <1>4, <1>6, BuiltAll
<1>8. next.pc \in Editing =>
            IF next.iter = 0 THEN next.tree = HeadOf(branch)
            ELSE <<Here, next.tree>> \in l.approved
  <2>1. CASE next.iter = call.iter /\ next.tree = call.tree
    BY <1>3, <1>4, <1>5, <2>1
  <2>2. CASE next.iter = call.iter + 1 /\ next.tree = call.cand /\ verdict = "passed"
    <3>1. next.iter # 0
      BY <1>c, <2>2
    <3> QED
      BY <1>3, <1>4, <2>2, <3>1
  <2> QED
    BY <1>6, <2>1, <2>2 DEF Editing
<1>9. /\ next.pc \in Editing \cup {"leave"}
      /\ next.pc = "leave" => next.err # "none"
      /\ next.pc # "leave" => (Paid.pending <=> next.pc \in {"proposed", "judged"})
  BY <1>4, <1>6 DEF Editing
<1> QED
  BY <1>1, <1>4, <1>6, <1>7, <1>8, <1>9, <1>p, Reworked

LEMMA NoAnswerKept == ASSUME IInv, NoAnswer PROVE IInv'
<1>1. call.pc \in {"proposed", "judged"} /\ UNCHANGED <<compiles, branch, journal>>
  BY DEF NoAnswer, At
<1>2. PICK uncertain \in BOOLEAN, n \in {log, Billed(log)} :
         /\ n # log => uncertain
         /\ Persist(WithRun([Now EXCEPT !.pending = FALSE,
                                        !.uncertain = @ \/ uncertain]),
                    Leaving("error"), Leaving("error"),
                    IF call.stop THEN n ELSE Faulted(n))
  BY DEF NoAnswer
<1> DEFINE doubt == Now.uncertain \/ uncertain
           r == [Now EXCEPT !.pending = FALSE, !.uncertain = doubt]
           l == IF call.stop THEN n ELSE Faulted(n)
           next == Leaving("error")
<1>3. /\ call.pc \in Editing /\ call.pc \in Inside /\ call.pc # "leave"
      /\ Now \in SolutionRun /\ Now.pending /\ Now.status = "running"
      /\ Now.usage = log.billed[Here] \/ Now.uncertain
      /\ LogOK(Billed(log)) /\ BilledHere(Billed(log))
  <2>1. call.pc \in Editing /\ call.pc \in Inside /\ call.pc # "leave"
    BY <1>1 DEF Editing, Inside
  <2> QED
    BY <1>1, <2>1, PaidFacts, InsideFacts, EditingFacts, Typed
<1>4. LogOK(n) /\ BilledHere(n)
  BY <1>2, <1>3, Typed DEF BilledHere
<1>5. LogOK(l) /\ BilledHere(l) /\ l.billed = n.billed
  BY <1>4 DEF LogOK, BilledHere, Faulted
<1>6. doubt \in BOOLEAN
  BY <1>3 DEF SolutionRun
<1>7. doubt = (Now.uncertain \/ uncertain)
  OBVIOUS
<1>p. Persist(WithRun(r), next, Leaving("error"), l)
  <2>1. [Now EXCEPT !.pending = FALSE, !.uncertain = @ \/ uncertain] = r
    BY <1>3, Zenon DEF SolutionRun
  <2> QED
    BY <1>2, <2>1
<1> HIDE DEF doubt
<1>8. /\ r \in SolutionRun /\ r.status = "running" /\ ~ r.pending
      /\ r.usage = Now.usage /\ r.uncertain = doubt
  BY <1>3, <1>6 DEF SolutionRun
<1>9. next \in Call /\ next.pc = "leave" /\ next.err = "error" /\ next.i = call.i
  BY Typed, CallFacts DEF Errors, SameCall
<1> HIDE DEF r, l, next
<1>10. r.usage = l.billed[Here] \/ r.uncertain
  <2>1. CASE n = log
    BY <1>3, <1>5, <1>7, <1>8, <2>1
  <2>2. CASE n # log
    BY <1>2, <1>7, <1>8, <2>2
  <2> QED
    BY <2>1, <2>2
<1>11. /\ next.pc \in Editing \cup {"leave"} /\ next.pc \notin Editing /\ next.pc # "adopt"
       /\ next.err # "none"
  BY <1>9 DEF Editing
<1> QED
  BY <1>1, <1>3, <1>5, <1>8, <1>9, <1>10, <1>11, <1>p, Reworked

-----------------------------------------------------------------------------
(* The adoption: completed, journaled, merged, recorded. *)
LEMMA AdoptKept == ASSUME IInv, Adopt PROVE IInv'
<1> DEFINE r == [Now EXCEPT !.status = "completed"]
<1>1. /\ call.pc = "adopt" /\ UNCHANGED <<compiles, branch, journal, disk, log>>
      /\ mem' = WithRun(r)
      /\ call' = Goto(IF Changed = {} THEN "record" ELSE "journal")
  BY DEF Adopt, At
<1>2. call.pc \in Editing /\ call.pc \in Inside /\ call.pc # "leave"
  BY <1>1 DEF Editing, Inside
<1>3. /\ mem.batch # None /\ mem.batch \in SolutionBatch
      /\ mem.batch.start = log.starts /\ mem.batch.current = call.i
      /\ mem.batch.status = "running" /\ call.i \in Places
      /\ Ran(mem.batch) = Here
      /\ Here \in Ids /\ Here = <<log.starts, call.i>>
      /\ Now = mem.batch.runs[call.i] /\ Now \in SolutionRun
      /\ ~ Now.pending /\ (Now.usage = log.billed[Here] \/ Now.uncertain)
      /\ Fit(mem, TRUE, compiles, branch, journal, log)
      /\ Fresh(mem, log, call.i + 1)
      /\ log.starts \in Nat /\ Limit(call, log) = log.starts
      /\ Since(mem.tasks, log.starts)
      /\ Here \notin Recorded(mem.tasks)
  BY <1>1, <1>2, InsideFacts
<1>4. /\ disk = mem /\ Settled(mem.tasks, branch, journal)
      /\ IF call.iter = 0 THEN call.tree = HeadOf(branch)
         ELSE <<Here, call.tree>> \in log.approved
  BY <1>2, EditingFacts
<1>5. /\ r \in SolutionRun /\ r.status = "completed" /\ r.usage = Now.usage
      /\ r.pending = Now.pending /\ r.uncertain = Now.uncertain
  BY <1>3 DEF SolutionRun
<1>m. mem' = Revised(mem, r)
  BY <1>1 DEF WithRun, Revised
<1> HIDE DEF r
<1>6. /\ mem' \in State /\ mem'.tasks = mem.tasks
      /\ mem'.batch \in SolutionBatch /\ mem'.batch # None
      /\ mem'.batch.start = log.starts /\ mem'.batch.current = call.i
      /\ mem'.batch.status = "running"
      /\ mem'.batch.runs[call.i] = r
      /\ \A i \in Places : i # call.i => mem'.batch.runs[i] = mem.batch.runs[i]
  BY <1>3, <1>5, <1>m, Typed, RunReplaced
<1>7. /\ Ran(mem'.batch) = Here
      /\ Completed(mem'.batch) = Completed(mem.batch) \cup {call.i}
  BY <1>3, <1>5, <1>6 DEF Ran, Completed
<1>8. /\ call' \in Call /\ call'.i = call.i /\ call'.iter = call.iter
      /\ call'.tree = call.tree /\ call.iter \in Nat /\ call.tree \in Trees
      /\ \/ call'.pc = "record" /\ Changed = {}
         \/ call'.pc = "journal" /\ Changed # {}
  <2>1. CASE Changed = {}
    BY <1>1, <2>1, Typed, CallFacts DEF Pcs, SameCall
  <2>2. CASE Changed # {}
    BY <1>1, <2>2, Typed, CallFacts DEF Pcs, SameCall
  <2> QED
    BY <2>1, <2>2
<1>9. Fit(mem', TRUE, compiles, branch, journal, log)
  <2>1. Counted(mem'.batch, log)
    BY <1>3, <1>5, <1>6, <1>7 DEF Counted
  <2>2. Backed(mem'.tasks, mem'.batch, {mem'.batch.current})
    BY <1>3, <1>6 DEF Fit, Backed, But
  <2>3. AllBuild(mem'.batch, {mem'.batch.current}, compiles, HeadOf(branch))
    BY <1>3, <1>6, <1>7 DEF Fit, AllBuild, But
  <2>4. mem'.batch.start <= log.starts
    BY <1>3, <1>6
  <2>5. Open1(mem', TRUE) = Open1(mem, TRUE)
    BY <1>3, <1>7 DEF Open1
  <2> QED
    BY <1>3, <1>4, <1>6, <2>1, <2>2, <2>3, <2>4, <2>5 DEF Fit, But
<1>10. UnderWay(call', mem') = TRUE
  BY <1>8 DEF UnderWay, Inside
<1>11. Limit(call', log') = log.starts
  BY <1>1, <1>8 DEF Limit
<1>12. Fresh(mem', log, call.i + 1)
  <2> SUFFICES ASSUME NEW i \in Places, i >= call.i + 1
               PROVE  <<log.starts, i>> \notin Recorded(mem'.tasks)
                      /\ mem'.batch.runs[i] = PendingRun
    BY DEF Fresh
  <2>1. i # call.i
    BY Typed, CallFacts, PlaceFacts
  <2> QED
    BY <1>3, <1>6, <2>1 DEF Fresh
<1>13. Session(call', mem', log')
  <2>1. Exact(mem'.batch, log)
    BY <1>3, <1>5, <1>6, <1>7 DEF Exact
  <2>2. ~ OpenRun(mem'.batch)
    BY <1>5, <1>6 DEF OpenRun
  <2>3. Within(call', mem', log)
    BY <1>3, <1>5, <1>6, <1>8, <1>12, <2>1, <2>2 DEF Within, Editing
  <2> QED
    BY <1>1, <1>8, <2>3 DEF Session, Inside
<1>14. Work(call', mem', compiles, branch, journal, log')
  <2>1. Work(call, mem, compiles, branch, journal, log)
    BY Facts
  <2>2. /\ AllBuild(mem.batch, {}, compiles, call.tree)
        /\ call.tree \in compiles[Order[call.i]]
    BY <1>1, <2>1 DEF Work
  <2>3. AllBuild(mem'.batch, {}, compiles, call.tree)
    BY <1>7, <2>2 DEF AllBuild
  <2>4. HeadTree = HeadOf(branch) /\ HeadTree \in Trees
    BY Typed, BranchFacts
  <2>5. Changed = {} => HeadOf(branch) = call.tree
    BY <1>8, <2>4 DEF Changed, Trees
  <2>6. Changed # {} => <<Here, call.tree>> \in log.approved
    BY <1>4, <2>4 DEF Changed
  <2> QED
    BY <1>1, <1>7, <1>8, <2>2, <2>3, <2>5, <2>6 DEF Work, Editing
<1>15. Ledgers(call', mem', branch, journal)
  <2>1. Settled(mem'.tasks, branch, journal) /\ ~ Live(mem', journal)
    BY <1>4, <1>6 DEF Settled, Live
  <2> QED
    BY <1>8, <2>1 DEF Ledgers, Editing
<1>16. Synced(call', disk, mem')
  <2>1. OwnRun(disk.batch) = OwnRun(mem'.batch)
    BY <1>3, <1>4, <1>6, <1>7 DEF OwnRun
  <2> QED
    BY <1>4, <1>6, <1>7, <1>8, <2>1 DEF Synced, Editing
<1>17. Usable(disk, compiles, journal, call', log')
  BY <1>4, NotLive
<1>18. Along(disk, mem')
  BY <1>4, <1>6 DEF Along
<1>19. MemOK(mem', call', compiles, branch', journal', log')
  BY <1>1, <1>3, <1>6, <1>9, <1>10, <1>11, <1>13, <1>14, <1>15 DEF MemOK
<1>20. call'.pc # "merge"
  BY <1>8
<1> QED
  BY <1>1, <1>6, <1>8, <1>16, <1>17, <1>18, <1>19, <1>20, Typed, Stepped

(* The journal is written: recovery could now finish the adoption. *)
LEMMA JournalKept == ASSUME IInv, Journal PROVE IInv'
<1>1. /\ call.pc = "journal" /\ UNCHANGED <<compiles, branch, disk, mem, log>>
      /\ call' = Goto("merge") /\ journal' = Adoption
  BY DEF Journal, Written, At
<1>2. call.pc \in Inside /\ call.pc # "leave"
  BY <1>1 DEF Inside
<1>3. /\ mem.batch # None /\ mem.batch \in SolutionBatch
      /\ mem.batch.start = log.starts /\ mem.batch.current = call.i
      /\ mem.batch.status = "running" /\ call.i \in Places
      /\ Ran(mem.batch) = Here
      /\ Here \in Ids /\ Here = <<log.starts, call.i>>
      /\ Now = mem.batch.runs[call.i] /\ Now \in SolutionRun
      /\ ~ Now.pending /\ (Now.usage = log.billed[Here] \/ Now.uncertain)
      /\ Fit(mem, TRUE, compiles, branch, journal, log)
      /\ Fresh(mem, log, call.i + 1)
      /\ log.starts \in Nat /\ Limit(call, log) = log.starts
      /\ Since(mem.tasks, log.starts)
      /\ Here \notin Recorded(mem.tasks)
  BY <1>1, <1>2, InsideFacts
<1>4. /\ disk.tasks = mem.tasks /\ OwnRun(disk.batch) = OwnRun(mem.batch)
      /\ Completed(disk.batch) \subseteq Completed(mem.batch)
  BY <1>1, Typed DEF Synced
<1>w. /\ Work(call, mem, compiles, branch, journal, log)
      /\ Ledgers(call, mem, branch, journal)
      /\ Session(call, mem, log)
  BY Facts
<1>5. /\ AllBuild(mem.batch, {}, compiles, call.tree)
      /\ call.tree \in compiles[Order[call.i]]
      /\ <<Here, call.tree>> \in log.approved
      /\ Settled(mem.tasks, branch, journal)
  BY <1>1, <1>3, <1>w DEF Work, Ledgers
<1>6. /\ call' \in Call /\ call'.pc = "merge" /\ SameCall(call', call)
      /\ call.tree \in Trees
  BY <1>1, Typed, CallFacts DEF Pcs
<1> DEFINE e == EntryOf(Here, Now, TRUE, TRUE)
           t == Append(mem.tasks, e)
           z == [run |-> Here, tree |-> call.tree]
           j == Adoption
<1>7. e \in Entry /\ e.run = Here /\ e.commit /\ e.usage = Now.usage /\ e.uncertain = Now.uncertain
  BY <1>3 DEF EntryOf, Entry, SolutionRun
<1>8. /\ j.base = Len(branch) /\ j.commit = z /\ j.tasks = t /\ j.batch = mem.batch
      /\ j = [base |-> Len(branch), commit |-> z, tasks |-> t, batch |-> mem.batch]
  BY DEF Adoption, Adopting
<1>9. z \in Commit /\ z.run = Here /\ z.tree = call.tree /\ Len(branch) \in Nat
  BY <1>3, <1>6, Typed DEF Commit
<1> HIDE DEF e, t, z, j
<1>10. /\ t \in Seq(Entry) /\ Entries(t) = Entries(mem.tasks) \cup {e}
       /\ Recorded(t) = Recorded(mem.tasks) \cup {Here}
       /\ Known(t) = Known(mem.tasks) \cup {Here}
       /\ OnceIn(t)
  <2>1. OnceIn(mem.tasks)
    BY <1>3 DEF Fit, Books
  <2> QED
    BY <1>3, <1>7, <2>1, Facts, Appended DEF t
<1>11. j \in SolutionAdoption /\ j # None
  <2>1. j \in SolutionAdoption
    BY <1>3, <1>8, <1>9, <1>10 DEF SolutionAdoption
  <2> QED
    BY <2>1, NotNone
<1>12. Here \notin Known(mem.tasks)
  BY <1>3, Facts, QueueFacts
<1>13. /\ Redo(mem, TRUE, branch, j)
       /\ Redo(disk, OpenRun(disk.batch), branch, j)
  <2>1. RunsOf(branch) = Known(mem.tasks)
    BY <1>5 DEF Settled
  <2>2. OpenRun(disk.batch) => Ran(disk.batch) = Here
    BY <1>3, <1>4 DEF OpenRun, OwnRun
  <2> QED
    BY <1>3, <1>4, <1>8, <1>9, <1>10, <1>11, <1>12, <2>1, <2>2 DEF Redo
<1>14. Fit(mem, TRUE, compiles, branch, j, log)
  BY <1>3, <1>13 DEF Fit
<1>15. Fit(disk, OpenRun(disk.batch), compiles, branch, j, log)
  BY <1>13, Typed DEF Fit
<1>16. Limit(call', log) = log.starts
  BY <1>6 DEF Limit
<1>17. Usable(disk, compiles, j, call', log)
  <2>1. Books(t, log)
    <3>1. Books(mem.tasks, log)
      BY <1>3 DEF Fit
    <3> QED
      BY <1>3, <1>7, <1>10, <3>1 DEF Books
  <2>2. Charged(log) \subseteq Recorded(t)
    BY <1>3, <1>10 DEF Fit, Open1
  <2>3. Since(t, log.starts)
    BY <1>3, <1>10 DEF Since
  <2>4. Backed(t, mem.batch, {})
    <3>1. Backed(mem.tasks, mem.batch, {mem.batch.current})
      BY <1>3 DEF Fit, But
    <3> QED
      BY <1>3, <1>10, <3>1 DEF Backed
  <2>5. mem.batch.start <= log.starts
    BY <1>3
  <2>6. z.tree \in compiles[Order[z.run[2]]]
    BY <1>3, <1>5, <1>9
  <2> QED
    BY <1>5, <1>8, <1>9, <1>16, <2>1, <2>2, <2>3, <2>4, <2>5, <2>6 DEF Usable
<1>18. Session(call', mem, log)
  BY <1>1, <1>2, <1>6, <1>w DEF Session, Within, Inside, Editing, SameCall
<1>19. Work(call', mem, compiles, branch, j, log) /\ Ledgers(call', mem, branch, j)
  BY <1>6 DEF Work, Ledgers, Editing
<1>20. UnderWay(call', mem) = TRUE
  BY <1>6 DEF UnderWay, Inside
<1>21. MemOK(mem, call', compiles, branch, j, log)
  BY <1>3, <1>14, <1>16, <1>18, <1>19, <1>20 DEF MemOK
<1>22. Synced(call', disk, mem)
  BY <1>6 DEF Synced, Editing
<1>23. Adoption' = Adoption
  BY <1>1, <1>6 DEF Adoption, Adopting, Here, Now, SameCall
<1>24. journal' = j /\ journal' = Adoption'
  BY <1>1, <1>23 DEF j
<1> QED
  BY <1>1, <1>6, <1>11, <1>15, <1>17, <1>21, <1>22, <1>24, Typed, Stepped

(* The commit of the journal is added to the branch. *)
LEMMA FitForward ==
    ASSUME NEW x \in State, NEW o, NEW c, NEW b \in Seq(Commit), NEW j \in SolutionAdoption,
           NEW l, Redo(x, o, b, j), Len(b) = j.base, Fit(x, o, c, b, j, l),
           AllBuild(j.batch, {}, c, j.commit.tree), NEW u, u = Append(b, j.commit)
    PROVE  Fit(x, o, c, u, j, l)
<1>1. j.commit \in Commit
  BY DEF SolutionAdoption
<1>2. /\ u \in Seq(Commit) /\ RunsOf(u) = RunsOf(b) \cup {j.commit.run}
      /\ HeadOf(u) = j.commit.tree /\ Len(u) = Len(b) + 1 /\ u[Len(u)] = j.commit
      /\ Len(b) \in Nat
  BY <1>1, Committed
<1>3. RunsOf(b) = Known(x.tasks)
  BY <1>2 DEF Redo
<1>4. Redo(x, o, u, j)
  BY <1>2, <1>3 DEF Redo
<1>5. AllBuild(x.batch, But(x, o), c, HeadOf(u))
  BY <1>2 DEF Redo, AllBuild
<1> QED
  BY <1>4, <1>5 DEF Fit

(* The steps that merge or recover: what they have in common. *)
LEMMA Forwarded ==
    ASSUME IInv, Unfinished(mem.tasks), Len(branch) = journal.base,
           branch' = Append(branch, journal.commit),
           UNCHANGED <<compiles, journal, disk, mem>>,
           call' \in Call, LogOK(log'), SameLog(log, log'),
           Limit(call, log) <= Limit(call', log'), Limit(call', log') \in Nat,
           UnderWay(call', mem) = UnderWay(call, mem),
           Synced(call', disk, mem), Session(call', mem, log'),
           branch' # <<>> /\ branch'[Len(branch')] = journal.commit
              /\ HeadOf(branch') = journal.commit.tree
              /\ AllBuild(journal.batch, {}, compiles, journal.commit.tree)
              /\ journal.commit.tree \in compiles[Order[journal.commit.run[2]]]
              /\ journal.commit.run \in RunsOf(branch')
              => /\ Work(call', mem, compiles, branch', journal, log')
                 /\ Ledgers(call', mem, branch', journal),
           call'.pc # "merge"
    PROVE  IInv'
<1>1. /\ journal # None /\ journal \in SolutionAdoption
      /\ journal.commit.run \notin Known(mem.tasks)
      /\ journal.commit.run \notin Known(disk.tasks)
      /\ Live(disk, journal)
  BY Typed DEF Unfinished, Along, Live
<1>2. /\ AllBuild(journal.batch, {}, compiles, journal.commit.tree)
      /\ <<journal.commit.run, journal.commit.tree>> \in log.approved
      /\ journal.commit.tree \in compiles[Order[journal.commit.run[2]]]
  BY <1>1, Typed DEF Usable
<1>3. /\ Redo(mem, UnderWay(call, mem), branch, journal)
      /\ Redo(disk, OpenRun(disk.batch), branch, journal)
  BY <1>1, Typed, Facts DEF Fit, Settled
<1>4. /\ Fit(mem, UnderWay(call, mem), compiles, branch', journal, log)
      /\ RunsOf(branch') = Known(mem.tasks) \cup {journal.commit.run}
      /\ branch' \in Seq(Commit) /\ HeadOf(branch') = journal.commit.tree
      /\ branch' # <<>> /\ branch'[Len(branch')] = journal.commit
  <2> DEFINE o == UnderWay(call, mem)
  <2>1. mem \in State /\ branch \in Seq(Commit)
    BY Typed
  <2>2. Fit(mem, o, compiles, branch, journal, log) /\ Redo(mem, o, branch, journal)
    BY <1>3, Facts
  <2> HIDE DEF o
  <2>3. Fit(mem, o, compiles, branch', journal, log)
    BY <1>1, <1>2, <2>1, <2>2, FitForward
  <2>4. RunsOf(branch') = Known(mem.tasks) \cup {journal.commit.run}
    <3>1. journal.commit \in Commit
      BY <1>1 DEF SolutionAdoption
    <3>2. RunsOf(branch') = RunsOf(branch) \cup {journal.commit.run} /\ Len(branch) \in Nat
      BY <2>1, <3>1, Committed
    <3>3. RunsOf(branch) = Known(mem.tasks)
      BY <2>2, <3>2 DEF Redo
    <3> QED
      BY <3>2, <3>3
  <2>5. /\ branch' \in Seq(Commit) /\ HeadOf(branch') = journal.commit.tree
        /\ branch' # <<>>
    BY <1>1, <2>1, Committed DEF SolutionAdoption
  <2>6. branch'[Len(branch')] = journal.commit
    BY <1>1, <2>1, Committed DEF SolutionAdoption
  <2> QED
    BY <2>3, <2>4, <2>5, <2>6 DEF o
<1>5. Fit(disk, OpenRun(disk.batch), compiles, branch', journal, log)
  BY <1>1, <1>2, <1>3, Typed, FitForward
<1>6. log'.billed = log.billed /\ log.starts <= log'.starts /\ log'.approved = log.approved
  BY Facts DEF SameLog
<1>7. /\ Fit(disk, OpenRun(disk.batch), compiles, branch', journal, log')
      /\ Fit(mem, UnderWay(call, mem), compiles, branch', journal, log')
  BY <1>4, <1>5, <1>6, Typed, FitLog
<1>8. Usable(disk, compiles, journal, call', log')
  BY Typed, StillUsable
<1>9. BranchOK(branch', compiles, log')
  <2>1. journal.commit \in Commit
    BY <1>1 DEF SolutionAdoption
  <2>2. \A k \in DOMAIN branch' :
           (k \in DOMAIN branch /\ branch'[k] = branch[k]) \/ branch'[k] = journal.commit
    BY <2>1, Typed, Committed
  <2> QED
    BY <1>2, <1>6, <2>2, Typed DEF BranchOK
<1>10. Since(mem.tasks, Limit(call', log'))
  BY Facts, SinceMono
<1>11. MemOK(mem', call', compiles, branch', journal', log')
  BY <1>2, <1>4, <1>7, <1>10 DEF MemOK
<1> QED
  BY <1>4, <1>7, <1>8, <1>9, <1>11, Typed, Stepped

LEMMA RecoverKept == ASSUME IInv, Recover PROVE IInv'
<1>1. /\ call.pc = "restore" /\ Unfinished(mem.tasks) /\ call' = Goto("replay")
      /\ UNCHANGED <<compiles, journal, disk, mem, log>>
  BY DEF Recover, At
<1>2. /\ call' \in Call /\ call'.pc = "replay" /\ call'.then = call.then
      /\ call'.iter = call.iter
  BY <1>1, Typed, CallFacts DEF Pcs, SameCall
<1>3. Limit(call', log') = Limit(call, log) /\ LogOK(log') /\ SameLog(log, log')
  BY <1>1, <1>2, Typed DEF Limit, SameLog
<1>4. Limit(call', log') \in Nat /\ Limit(call, log) <= Limit(call', log')
  BY <1>3, Facts
<1>s. Session(call, mem, log)
  BY Facts
<1>5. Session(call', mem, log')
  BY <1>1, <1>2, <1>s DEF Session, Inside
<1>6. UnderWay(call', mem) = UnderWay(call, mem)
  BY <1>1, <1>2 DEF UnderWay, Inside
<1>7. Synced(call', disk, mem)
  BY <1>2 DEF Synced, Editing
<1>8. Live(mem, journal)
  BY <1>1 DEF Unfinished, Live
<1>9. \A b : Work(call', mem, compiles, b, journal, log')
  BY <1>1, <1>2, Facts DEF Work, Editing
<1>10. \A b : b # <<>> /\ b[Len(b)] = journal.commit => Ledgers(call', mem, b, journal)
  BY <1>2, <1>8 DEF Ledgers, Editing
<1>11. CASE Len(branch) = journal.base /\ FastForward
  <2>1. branch' = Append(branch, journal.commit) /\ Len(branch) = journal.base
    BY <1>11 DEF FastForward
  <2> QED
    BY <1>1, <1>2, <1>3, <1>4, <1>5, <1>6, <1>7, <1>9, <1>10, <2>1, Forwarded
<1>12. CASE Landed /\ UNCHANGED branch
  <2>1. Ledgers(call', mem, branch, journal)
    BY <1>10, <1>12 DEF Landed
  <2>2. log.starts <= log'.starts
    BY <1>1, Facts
  <2> QED
    BY <1>1, <1>2, <1>3, <1>4, <1>5, <1>6, <1>7, <1>9, <1>12, <2>1, <2>2, Moved
<1> QED
  BY <1>11, <1>12 DEF Recover

LEMMA NotRecoveredKept == ASSUME IInv, NotRecovered PROVE IInv'
<1>1. /\ call.pc = "restore" /\ Unfinished(mem.tasks) /\ call' = Idle
      /\ log' = Faulted(log) /\ UNCHANGED <<compiles, journal, disk, mem>>
  BY DEF NotRecovered, At
<1>2. call' \in Call /\ call'.pc = "idle" /\ call'.iter = 0
  BY <1>1, IdleFacts
<1>3. LogOK(log') /\ SameLog(log, log')
  <2>1. LogOK(log)
    BY Typed
  <2> QED
    BY <1>1, <2>1 DEF LogOK, SameLog, Faulted
<1>4. Limit(call', log') \in Nat /\ Limit(call, log) <= Limit(call', log')
  <2>1. Limit(call', log') = log.starts /\ log.starts \in Nat
    BY <1>2, <1>3, Facts DEF Limit, SameLog
  <2>2. Limit(call, log) \in {log.starts, log.starts - 1} /\ Limit(call, log) \in Nat
    BY Facts DEF Limit
  <2> QED
    BY <2>1, <2>2
<1>s. Session(call, mem, log)
  BY Facts
<1>5. Session(call', mem, log')
  BY <1>1, <1>2, <1>s DEF Session, Inside
<1>6. UnderWay(call', mem) = UnderWay(call, mem)
  BY <1>1, <1>2 DEF UnderWay, Inside
<1>7. Synced(call', disk, mem)
  BY <1>2 DEF Synced, Editing
<1>8. \A b : /\ Work(call', mem, compiles, b, journal, log')
             /\ Ledgers(call', mem, b, journal)
  BY <1>2 DEF Work, Ledgers, Editing
<1>9. CASE UNCHANGED branch
  <2>1. log.starts <= log'.starts
    BY <1>3, Facts DEF SameLog
  <2> QED
    BY <1>1, <1>2, <1>3, <1>4, <1>5, <1>6, <1>7, <1>8, <1>9, <2>1, Moved DEF SameLog
<1>10. CASE Len(branch) = journal.base /\ FastForward
  <2>1. branch' = Append(branch, journal.commit) /\ Len(branch) = journal.base
    BY <1>10 DEF FastForward
  <2> QED
    BY <1>1, <1>2, <1>3, <1>4, <1>5, <1>6, <1>7, <1>8, <2>1, Forwarded
<1> QED
  BY <1>9, <1>10 DEF NotRecovered

(* The adoption that is merged is the one in the journal. *)
LEMMA MergeFacts ==
    ASSUME IInv, call.pc = "merge"
    PROVE  /\ journal = Adoption /\ Len(branch) = journal.base
           /\ journal.commit.run = Here /\ journal.commit.tree = call.tree
           /\ journal.batch = mem.batch
           /\ Ran(mem.batch) = Here /\ Here = <<log.starts, call.i>>
           /\ Unfinished(mem.tasks)
           /\ Within(call, mem, log) /\ UnderWay(call, mem) = TRUE
           /\ Limit(call, log) = log.starts /\ log.starts \in Nat
<1>1. call.pc \in Inside /\ call.pc # "leave"
  BY DEF Inside
<1>2. /\ Ran(mem.batch) = Here /\ Here = <<log.starts, call.i>>
      /\ Here \notin Recorded(mem.tasks) /\ Limit(call, log) = log.starts
      /\ log.starts \in Nat
  BY <1>1, InsideFacts
<1>3. journal = Adoption
  BY DEF IInv
<1>4. /\ Len(branch) = journal.base
      /\ journal.commit.run = Here /\ journal.commit.tree = call.tree
      /\ journal.batch = mem.batch
  BY <1>3 DEF Adoption
<1>5. journal # None
  <2>1. journal \in SolutionAdoption
    <3>1. /\ Here \in Ids /\ Now \in SolutionRun /\ mem.batch \in SolutionBatch
      BY <1>1, InsideFacts
    <3>2. EntryOf(Here, Now, TRUE, TRUE) \in Entry
      BY <3>1 DEF EntryOf, Entry, SolutionRun
    <3>3. Adopting(TRUE) \in Seq(Entry)
      <4>1. mem.tasks \in Seq(Entry)
        BY Facts
      <4> QED
        BY <3>2, <4>1, Appended DEF Adopting
    <3>4. call.tree \in Trees /\ Len(branch) \in Nat
      BY Typed, CallFacts
    <3> QED
      BY <1>3, <3>1, <3>3, <3>4 DEF Adoption, SolutionAdoption, Commit
  <2> QED
    BY <2>1, NotNone
<1>6. Unfinished(mem.tasks)
  BY <1>2, <1>4, <1>5, Facts, QueueFacts DEF Unfinished
<1>s. Session(call, mem, log)
  BY Facts
<1>7. Within(call, mem, log) /\ UnderWay(call, mem) = TRUE
  BY <1>1, <1>s DEF Session, UnderWay
<1> QED
  BY <1>2, <1>3, <1>4, <1>6, <1>7

LEMMA MergeKept == ASSUME IInv, Merge PROVE IInv'
<1>1. /\ call.pc = "merge" /\ call' = Goto("record")
      /\ branch' = Append(branch, Adoption.commit)
      /\ UNCHANGED <<compiles, journal, disk, mem, log>>
  BY DEF Merge, Merged, At
<1>2. /\ journal = Adoption /\ Len(branch) = journal.base
      /\ journal.commit.run = Here /\ journal.commit.tree = call.tree
      /\ journal.batch = mem.batch
      /\ Ran(mem.batch) = Here /\ Here = <<log.starts, call.i>>
      /\ Unfinished(mem.tasks)
      /\ Within(call, mem, log) /\ UnderWay(call, mem) = TRUE
      /\ Limit(call, log) = log.starts /\ log.starts \in Nat
  BY <1>1, MergeFacts
<1>3. call' \in Call /\ call'.pc = "record" /\ call'.i = call.i /\ call'.tree = call.tree
  BY <1>1, Typed, CallFacts DEF Pcs, SameCall
<1>4. /\ Limit(call', log') \in Nat /\ Limit(call, log) <= Limit(call', log')
      /\ LogOK(log') /\ SameLog(log, log')
  BY <1>1, <1>2, <1>3, Typed DEF Limit, SameLog
<1>5. Session(call', mem, log')
  <2>1. Within(call', mem, log)
    BY <1>1, <1>2, <1>3 DEF Within, Editing
  <2> QED
    BY <1>1, <1>3, <2>1 DEF Session, Inside
<1>6. UnderWay(call', mem) = UnderWay(call, mem)
  BY <1>2, <1>3 DEF UnderWay, Inside
<1>7. Synced(call', disk, mem)
  BY <1>3 DEF Synced, Editing
<1>8. ASSUME HeadOf(branch') = journal.commit.tree,
             AllBuild(journal.batch, {}, compiles, journal.commit.tree),
             journal.commit.tree \in compiles[Order[journal.commit.run[2]]],
             journal.commit.run \in RunsOf(branch')
      PROVE  /\ Work(call', mem, compiles, branch', journal, log')
             /\ Ledgers(call', mem, branch', journal)
  BY <1>2, <1>3, <1>8 DEF Work, Ledgers, Editing
<1>9. branch' = Append(branch, journal.commit) /\ call'.pc # "merge"
  BY <1>1, <1>2, <1>3
<1> QED
  BY <1>1, <1>2, <1>3, <1>4, <1>5, <1>6, <1>7, <1>8, <1>9, Forwarded

LEMMA NotMergedKept == ASSUME IInv, NotMerged PROVE IInv'
<1>1. /\ call.pc = "merge" /\ call' = Leaving("error")
      /\ log' = log \/ log' = Faulted(log)
      /\ UNCHANGED <<compiles, journal, disk, mem>>
  BY DEF NotMerged, At
<1>2. /\ journal = Adoption /\ Len(branch) = journal.base
      /\ Unfinished(mem.tasks)
      /\ Within(call, mem, log) /\ UnderWay(call, mem) = TRUE
      /\ Limit(call, log) = log.starts /\ log.starts \in Nat
  BY <1>1, MergeFacts
<1>3. call' \in Call /\ call'.pc = "leave" /\ call'.i = call.i /\ call'.err = "error"
  BY <1>1, Typed, CallFacts DEF Errors, SameCall
<1>4. LogOK(log') /\ SameLog(log, log')
  BY <1>1, Typed DEF LogOK, SameLog, Faulted
<1>5. Limit(call', log') \in Nat /\ Limit(call, log) <= Limit(call', log')
  BY <1>2, <1>3, <1>4 DEF Limit, SameLog
<1>6. Session(call', mem, log')
  <2>1. Within(call', mem, log')
    BY <1>2, <1>3, <1>4 DEF Within, Editing, SameLog, Fresh, Exact
  <2> QED
    BY <1>1, <1>3, <2>1 DEF Session, Inside
<1>7. UnderWay(call', mem) = UnderWay(call, mem)
  BY <1>2, <1>3 DEF UnderWay, Inside
<1>8. Synced(call', disk, mem)
  BY <1>3 DEF Synced, Editing
<1>9. \A b : /\ Work(call', mem, compiles, b, journal, log')
             /\ Ledgers(call', mem, b, journal)
  BY <1>3 DEF Work, Ledgers, Editing
<1>10. CASE UNCHANGED branch
  <2>1. log.starts <= log'.starts
    BY <1>4, Facts DEF SameLog
  <2> QED
    BY <1>1, <1>3, <1>4, <1>5, <1>6, <1>7, <1>8, <1>9, <1>10, <2>1, Moved DEF SameLog
<1>11. CASE Merged
  <2>1. branch' = Append(branch, journal.commit)
    BY <1>2, <1>11 DEF Merged
  <2> QED
    BY <1>1, <1>2, <1>3, <1>4, <1>5, <1>6, <1>7, <1>8, <1>9, <2>1, Forwarded
<1> QED
  BY <1>10, <1>11 DEF NotMerged

-----------------------------------------------------------------------------
(* The adoption enters the queue, by the run or by recovery. *)
LEMMA RecordKept == ASSUME IInv, Record PROVE IInv'
<1> DEFINE known == Here \in BranchRuns
           e == EntryOf(Here, Now, TRUE, known)
           m == [mem EXCEPT !.tasks = Adopting(known)]
           next == Leaving("none")
           failed == Leaving("error")
<1>1. /\ call.pc = "record" /\ UNCHANGED <<compiles, branch, journal>>
      /\ Persist(m, next, failed, log)
  BY DEF Record, At
<1>2. call.pc \in Inside /\ call.pc # "leave"
  BY <1>1 DEF Inside
<1>3. /\ mem.batch # None /\ mem.batch \in SolutionBatch
      /\ mem.batch.start = log.starts /\ mem.batch.current = call.i
      /\ mem.batch.status = "running" /\ call.i \in Places
      /\ Ran(mem.batch) = Here
      /\ Here \in Ids /\ Here = <<log.starts, call.i>>
      /\ Now \in SolutionRun
      /\ ~ Now.pending /\ (Now.usage = log.billed[Here] \/ Now.uncertain)
      /\ Fit(mem, TRUE, compiles, branch, journal, log)
      /\ Fresh(mem, log, call.i + 1)
      /\ log.starts \in Nat /\ Limit(call, log) = log.starts
      /\ Since(mem.tasks, log.starts)
      /\ Here \notin Recorded(mem.tasks)
  BY <1>1, <1>2, InsideFacts
<1>s. /\ Session(call, mem, log)
      /\ Work(call, mem, compiles, branch, journal, log)
      /\ Ledgers(call, mem, branch, journal)
  BY Facts
<1>4. ~ OpenRun(mem.batch)
  BY <1>1, <1>2, <1>s DEF Session, Within
<1>5. /\ AllBuild(mem.batch, {}, compiles, HeadOf(branch))
      /\ Live(mem, journal) => /\ journal.commit.run = Here
                               /\ journal.commit.run \in RunsOf(branch)
  BY <1>1, <1>3, <1>s DEF Work, Ledgers
<1>6. known \in BOOLEAN /\ known = (Here \in RunsOf(branch))
  BY BranchFacts
<1>7. m.tasks = Append(mem.tasks, e) /\ m.batch = mem.batch
  BY Typed DEF Adopting, State
<1>c. /\ next \in Call /\ next.pc = "leave" /\ next.err = "none" /\ next.i = call.i
      /\ failed \in Call /\ failed.pc = "leave" /\ failed.err = "error"
      /\ failed.i = call.i
  BY Typed, CallFacts DEF Errors, SameCall
<1>m. m = [mem EXCEPT !.tasks = Adopting(known)]
  OBVIOUS
<1>e. e = EntryOf(Here, Now, TRUE, known)
  OBVIOUS
<1> HIDE DEF known, e, m, next, failed
<1>8. /\ e \in Entry /\ e.run = Here /\ e.commit = known /\ e.usage = Now.usage
      /\ e.uncertain = Now.uncertain
  BY <1>3, <1>6, <1>e DEF EntryOf, Entry, SolutionRun
<1>9. /\ m.tasks \in Seq(Entry) /\ Entries(m.tasks) = Entries(mem.tasks) \cup {e}
      /\ Recorded(m.tasks) = Recorded(mem.tasks) \cup {Here}
      /\ Known(m.tasks) = Known(mem.tasks) \cup (IF known THEN {Here} ELSE {})
      /\ OnceIn(m.tasks)
  <2>1. OnceIn(mem.tasks)
    BY <1>3 DEF Fit, Books
  <2>2. mem.tasks \in Seq(Entry)
    BY Facts
  <2> QED
    BY <1>3, <1>7, <1>8, <2>1, <2>2, Appended
<1>10. m \in State
  BY <1>7, <1>9, <1>m, Typed DEF State
<1>11. Here \notin Known(mem.tasks)
  BY <1>3, Facts, QueueFacts
<1>12. Settled(m.tasks, branch, journal)
  <2>1. CASE Settled(mem.tasks, branch, journal)
    BY <1>6, <1>9, <1>11, <2>1 DEF Settled
  <2>2. CASE Redo(mem, TRUE, branch, journal)
    <3>1. journal.commit.run = Here /\ journal.commit.run \in RunsOf(branch)
      BY <1>5, <2>2 DEF Redo, Live
    <3>2. RunsOf(branch) = Known(mem.tasks) \cup {Here}
      BY <1>11, <2>2, <3>1 DEF Redo
    <3> QED
      BY <1>6, <1>9, <3>1, <3>2 DEF Settled
  <2> QED
    BY <1>3, <2>1, <2>2 DEF Fit
<1>13. Fit(m, TRUE, compiles, branch, journal, log)
  <2>1. Books(m.tasks, log)
    <3>1. Books(mem.tasks, log)
      BY <1>3 DEF Fit
    <3> QED
      BY <1>3, <1>8, <1>9, <3>1 DEF Books
  <2>2. Charged(log) \subseteq Recorded(m.tasks)
    BY <1>3, <1>9 DEF Fit, Open1
  <2>3. Backed(m.tasks, m.batch, But(m, TRUE))
    BY <1>3, <1>7, <1>9 DEF Fit, Backed, But
  <2>4. Counted(m.batch, log) /\ m.batch.start <= log.starts
    BY <1>3, <1>7 DEF Fit
  <2>5. AllBuild(m.batch, But(m, TRUE), compiles, HeadOf(branch))
    BY <1>5, <1>7 DEF AllBuild
  <2> QED
    BY <1>3, <1>7, <1>12, <2>1, <2>2, <2>3, <2>4, <2>5 DEF Fit
<1>14. Fit(m, FALSE, compiles, branch, journal, log)
  <2>1. Ran(m.batch) \in Recorded(m.tasks) /\ AllBuild(m.batch, {}, compiles, HeadOf(branch))
    BY <1>3, <1>5, <1>7, <1>9
  <2> QED
    BY <1>10, <1>13, <2>1, Passed
<1>15. OpenRun(m.batch) = FALSE /\ Orderly(m.batch)
  BY <1>3, <1>4, <1>7 DEF OpenRun, Orderly
<1>16. Along(disk, m)
  BY <1>9, Typed DEF Along
<1>17. Limit(next, log) = log.starts /\ Limit(failed, log) = log.starts
  BY <1>c DEF Limit
<1>18. Usable(disk, compiles, journal, next, log) /\ Usable(disk, compiles, journal, failed, log)
  <2>1. /\ Limit(call, log) <= Limit(next, log) /\ Limit(next, log) \in Nat
        /\ Limit(call, log) <= Limit(failed, log) /\ Limit(failed, log) \in Nat
    BY <1>3, <1>17
  <2> QED
    BY <2>1, Typed, LogSame, StillUsable
<1>19. Since(m.tasks, log.starts)
  BY <1>3, <1>9 DEF Since
<1>20. Fresh(m, log, call.i + 1)
  <2> SUFFICES ASSUME NEW i \in Places, i >= call.i + 1
               PROVE  <<log.starts, i>> \notin Recorded(m.tasks)
                      /\ m.batch.runs[i] = PendingRun
    BY DEF Fresh
  <2>1. i # call.i
    BY Typed, CallFacts, PlaceFacts
  <2>2. <<log.starts, i>> # Here
    BY <1>3, <2>1
  <2> QED
    BY <1>3, <1>7, <1>9, <2>2 DEF Fresh
<1>21. Session(next, m, log) /\ Session(failed, m, log)
  <2>1. <<log.starts, call.i>> \in Recorded(m.tasks) /\ ~ OpenRun(m.batch)
    BY <1>3, <1>9, <1>15
  <2>2. Within(next, m, log) /\ Within(failed, m, log)
    BY <1>3, <1>7, <1>c, <1>20, <2>1 DEF Within, Editing
  <2> QED
    BY <1>c, <2>2 DEF Session, Inside
<1>22. /\ Work(next, m, compiles, branch, journal, log)
       /\ Work(failed, m, compiles, branch, journal, log)
       /\ Ledgers(next, m, branch, journal) /\ Ledgers(failed, m, branch, journal)
  BY <1>c, <1>5, <1>7, <1>12 DEF Work, Ledgers, Editing
<1>23. UnderWay(next, m) = TRUE /\ UnderWay(failed, m) = TRUE
  BY <1>c DEF UnderWay, Inside
<1>24. /\ MemOK(m, next, compiles, branch, journal, log)
       /\ MemOK(m, failed, compiles, branch, journal, log)
  BY <1>3, <1>13, <1>17, <1>19, <1>21, <1>22, <1>23 DEF MemOK
<1>25. /\ next.pc \notin {"merge", "journal", "down"}
       /\ failed.pc \notin {"merge", "journal", "down", "batch", "next", "inner"} \cup Editing
  BY <1>c DEF Editing
<1> QED
  BY <1>1, <1>c, <1>10, <1>14, <1>15, <1>16, <1>18, <1>24, <1>25, Typed, Persisted

LEMMA ReplayKept == ASSUME IInv, Replay PROVE IInv'
<1> DEFINE next == Goto(call.then)
           f == Finished(journal.batch, FALSE)
           x == [tasks |-> journal.tasks, batch |-> journal.batch]
           m == Replayed
<1>1. /\ call.pc = "replay" /\ UNCHANGED <<compiles, branch, journal>>
      /\ Persist(m, next, Idle, log)
  BY DEF Replay, At
<1>c. /\ next \in Call /\ next.pc = call.then /\ call.then \in {"idle", "scan"}
      /\ next.iter = call.iter
  BY Typed, CallFacts DEF Pcs, SameCall
<1>i. Idle \in Call /\ Idle.pc = "idle" /\ Idle.iter = 0
  BY IdleFacts
<1>2. /\ Live(mem, journal) /\ branch # <<>> /\ branch[Len(branch)] = journal.commit
      /\ call.iter = 0
  BY <1>1, Facts DEF Ledgers, Work
<1>3. /\ journal \in SolutionAdoption /\ journal.batch \in SolutionBatch
      /\ journal.tasks \in Seq(Entry) /\ journal.batch # None
      /\ Live(disk, journal)
  <2>1. journal \in SolutionAdoption
    BY <1>2, Typed DEF Live
  <2>2. Live(disk, journal)
    BY <1>2, Typed DEF Live, Along
  <2> QED
    BY <2>1, <2>2, NotNone DEF SolutionAdoption
<1>4. /\ Books(journal.tasks, log) /\ Charged(log) \subseteq Recorded(journal.tasks)
      /\ Since(journal.tasks, Limit(call, log)) /\ journal.batch.start <= log.starts
      /\ Backed(journal.tasks, journal.batch, {})
      /\ AllBuild(journal.batch, {}, compiles, HeadOf(branch))
  BY <1>2, <1>3, Typed DEF Usable, HeadOf
<1>5. /\ Redo(mem, FALSE, branch, journal) /\ Over(mem.batch)
  <2>1. UnderWay(call, mem) = FALSE
    BY <1>1 DEF UnderWay, Inside
  <2>2. Fit(mem, FALSE, compiles, branch, journal, log)
    BY <2>1, Facts
  <2>s. Session(call, mem, log)
    BY Facts
  <2> QED
    BY <1>1, <1>2, <2>2, <2>s DEF Fit, Settled, Live, Session
<1>6. Settled(journal.tasks, branch, journal)
  <2>1. journal.commit.run \in RunsOf(branch)
    BY <1>2, Typed DEF RunsOf
  <2>2. RunsOf(branch) = Known(mem.tasks) \cup {journal.commit.run}
    BY <1>5, <2>1 DEF Redo
  <2> QED
    BY <1>5, <2>2 DEF Redo, Settled
<1>7. x \in State /\ x.tasks = journal.tasks /\ x.batch = journal.batch
  BY <1>3 DEF State
<1>8. m = [tasks |-> journal.tasks, batch |-> f]
  BY Zenon DEF Replayed
<1>x. x = [tasks |-> journal.tasks, batch |-> journal.batch]
  OBVIOUS
<1>f. f = Finished(journal.batch, FALSE)
  OBVIOUS
<1> HIDE DEF next, f, x, m
<1>9. Fit(x, FALSE, compiles, branch, journal, log)
  BY <1>4, <1>6, <1>7 DEF Fit, Open1, But
<1>10. Closes(f, x.batch)
  BY <1>3, <1>7, <1>f, FinishedFacts
<1>11. /\ m \in State /\ m.tasks = journal.tasks /\ m.batch = f
       /\ Fit(m, FALSE, compiles, branch, journal, log)
  <2>1. m = [x EXCEPT !.batch = f]
    BY <1>8, <1>x
  <2>2. x.batch # None
    BY <1>3, <1>7
  <2>3. m.tasks = x.tasks /\ m.batch = f
    BY <1>7, <1>8
  <2>4. m \in State /\ Fit(m, FALSE, compiles, branch, journal, log)
    BY <1>7, <1>9, <1>10, <2>1, <2>2, FinishedFit
  <2> QED
    BY <1>7, <2>3, <2>4
<1>12. Over(m.batch) /\ OpenRun(m.batch) = FALSE /\ Orderly(m.batch)
  <2>1. Over(m.batch) /\ m.batch # None
    BY <1>10, <1>11 DEF Closes
  <2> QED
    BY <1>11, <2>1, Quiet
<1>13. Along(disk, m)
  BY <1>5, <1>11, Typed DEF Along, Redo
<1>14. /\ Limit(call, log) <= Limit(next, log) /\ Limit(next, log) \in Nat
       /\ Limit(call, log) <= Limit(Idle, log) /\ Limit(Idle, log) \in Nat
  <2>1. Limit(next, log) = Limit(call, log)
    BY <1>1, <1>c DEF Limit
  <2>2. Limit(Idle, log) = log.starts
    BY <1>i DEF Limit
  <2>3. Limit(call, log) \in {log.starts, log.starts - 1}
    BY DEF Limit
  <2> QED
    BY <2>1, <2>2, <2>3, Facts
<1>15. Usable(disk, compiles, journal, next, log) /\ Usable(disk, compiles, journal, Idle, log)
  BY <1>14, Typed, LogSame, StillUsable
<1>16. Since(m.tasks, Limit(next, log)) /\ Since(m.tasks, Limit(Idle, log))
  BY <1>3, <1>4, <1>11, <1>14, Facts, SinceMono
<1>17. Session(next, m, log) /\ Session(Idle, m, log)
  BY <1>c, <1>i, <1>12 DEF Session, Inside
<1>18. /\ Work(next, m, compiles, branch, journal, log)
       /\ Work(Idle, m, compiles, branch, journal, log)
       /\ Ledgers(next, m, branch, journal) /\ Ledgers(Idle, m, branch, journal)
  BY <1>2, <1>c, <1>i, <1>6, <1>11 DEF Work, Ledgers, Editing
<1>19. UnderWay(next, m) = FALSE /\ UnderWay(Idle, m) = FALSE
  BY <1>c, <1>i DEF UnderWay, Inside
<1>20. /\ MemOK(m, next, compiles, branch, journal, log)
       /\ MemOK(m, Idle, compiles, branch, journal, log)
  BY <1>11, <1>14, <1>16, <1>17, <1>18, <1>19 DEF MemOK
<1>21. /\ next.pc \notin {"merge", "journal", "down"}
       /\ Idle.pc \notin {"merge", "journal", "down", "batch", "next", "inner"} \cup Editing
  BY <1>c, <1>i DEF Editing
<1> QED
  BY <1>1, <1>c, <1>i, <1>11, <1>12, <1>13, <1>15, <1>20, <1>21, Typed, Persisted

-----------------------------------------------------------------------------
(* The end of a batch, a crash and the next start of the program. *)
LEMMA EndKept == ASSUME IInv, End PROVE IInv'
<1> DEFINE b == Finished(mem.batch, call.stop)
           fb == [b EXCEPT !.status = "failed"]
           x == [mem EXCEPT !.batch = b]
           y == [mem EXCEPT !.batch = fb]
           m == IF call.err = "error" /\ ~ call.stop THEN y ELSE x
<1>1. /\ call.pc = "end" /\ call' = Idle /\ UNCHANGED <<compiles, branch, journal>>
      /\ \/ Saves(m) /\ mem' = m /\ UNCHANGED log
         \/ HalfSaves(m) /\ mem' = y /\ log' = Faulted(log)
  BY DEF End, At
<1>2. Idle \in Call /\ Idle.pc = "idle"
  BY IdleFacts
<1>s. Session(call, mem, log)
  BY Facts
<1>3. mem.batch # None /\ mem.batch \in SolutionBatch
  BY <1>1, <1>s, Facts DEF Session
<1>4. Fit(mem, FALSE, compiles, branch, journal, log)
  <2>1. UnderWay(call, mem) = FALSE
    BY <1>1 DEF UnderWay, Inside
  <2> QED
    BY <2>1, Facts
<1>b. b = Finished(mem.batch, call.stop)
  OBVIOUS
<1>x. x = [mem EXCEPT !.batch = b]
  OBVIOUS
<1>y. y = [mem EXCEPT !.batch = fb]
  OBVIOUS
<1>fb. fb = [b EXCEPT !.status = "failed"]
  OBVIOUS
<1>m. m = x \/ m = y
  OBVIOUS
<1> HIDE DEF b, fb, x, y, m
<1>5. Closes(b, mem.batch)
  BY <1>3, <1>b, FinishedFacts
<1>6. Closes(fb, mem.batch)
  <2>1. /\ fb \in SolutionBatch /\ fb.runs = b.runs /\ fb.start = b.start
        /\ fb.current = b.current /\ fb.status = "failed"
    BY <1>5, <1>fb DEF Closes, SolutionBatch
  <2>2. fb # None
    BY <2>1, NotNone
  <2> QED
    BY <1>5, <2>1, <2>2 DEF Closes, Over, OpenRun, Completed
<1>7. /\ x \in State /\ x.tasks = mem.tasks /\ x.batch = b
      /\ Fit(x, FALSE, compiles, branch, journal, log)
  <2>1. x.tasks = mem.tasks /\ x.batch = b
    BY <1>x, Typed DEF State
  <2>2. x \in State /\ Fit(x, FALSE, compiles, branch, journal, log)
    BY <1>3, <1>4, <1>5, <1>x, Typed, FinishedFit
  <2> QED
    BY <2>1, <2>2
<1>8. /\ y \in State /\ y.tasks = mem.tasks /\ y.batch = fb
      /\ Fit(y, FALSE, compiles, branch, journal, log)
  <2>1. y.tasks = mem.tasks /\ y.batch = fb
    BY <1>y, Typed DEF State
  <2>2. y \in State /\ Fit(y, FALSE, compiles, branch, journal, log)
    BY <1>3, <1>4, <1>6, <1>y, Typed, FinishedFit
  <2> QED
    BY <2>1, <2>2
<1>9. \A z \in {x, y} :
         /\ z \in State /\ z.tasks = mem.tasks
         /\ Fit(z, FALSE, compiles, branch, journal, log)
         /\ Over(z.batch) /\ OpenRun(z.batch) = FALSE
         /\ z.batch # None => Orderly(z.batch)
  BY <1>5, <1>6, <1>7, <1>8, Quiet DEF Closes
<1>10. mem' \in {x, y} /\ m \in {x, y}
  BY <1>1, <1>m
<1>11. /\ LogOK(log') /\ SameLog(log, log') /\ log.starts <= log'.starts
       /\ log'.billed = log.billed
  <2>1. LogOK(log)
    BY Typed
  <2>2. LogOK(log') /\ SameLog(log, log')
    BY <1>1, <2>1 DEF LogOK, SameLog, Faulted
  <2> QED
    BY <2>2, Facts DEF SameLog
<1>12. /\ disk' \in State
       /\ disk'.batch # None => Orderly(disk'.batch)
       /\ Fit(disk', OpenRun(disk'.batch), compiles, branch, journal, log)
       /\ Along(disk', mem') /\ Known(disk.tasks) \subseteq Known(disk'.tasks)
  <2>1. disk' \in {disk, QueueOnly(m), m}
    BY <1>1 DEF Saves, HalfSaves
  <2>2. mem'.tasks = mem.tasks /\ m.tasks = mem.tasks
    BY <1>9, <1>10
  <2>3. CASE disk' = disk
    BY <2>2, <2>3, Typed DEF Along
  <2>4. CASE disk' = QueueOnly(m)
    <3>1. disk' = [disk EXCEPT !.tasks = mem.tasks]
      BY <2>2, <2>4 DEF QueueOnly
    <3>2. /\ disk' \in State /\ disk'.batch = disk.batch /\ disk'.tasks = mem.tasks
          /\ Fit(disk', OpenRun(disk'.batch), compiles, branch, journal, log)
      <4> DEFINE o == UnderWay(call, mem)
      <4>1. Fit(mem, o, compiles, branch, journal, log)
        BY Facts
      <4> HIDE DEF o
      <4> QED
        BY <3>1, <4>1, Typed, QueueSaved
    <3> QED
      BY <2>2, <3>2, Typed DEF Along
  <2>5. CASE disk' = m
    <3>1. OpenRun(disk'.batch) = FALSE
      BY <1>9, <1>10, <2>5
    <3> QED
      BY <1>9, <1>10, <2>2, <2>5, <3>1, Typed DEF Along
  <2> QED
    BY <2>1, <2>3, <2>4, <2>5
<1>13. Fit(disk', OpenRun(disk'.batch), compiles, branch', journal', log')
  <2> DEFINE d == disk'
             o == OpenRun(d.batch)
             n == log'
  <2>1. /\ d \in State /\ Fit(d, o, compiles, branch, journal, log)
        /\ LogOK(log) /\ LogOK(n) /\ n.billed = log.billed /\ log.starts <= n.starts
    BY <1>11, <1>12, Typed
  <2> HIDE DEF d, o, n
  <2>2. Fit(d, o, compiles, branch, journal, n)
    BY <2>1, FitLog
  <2> QED
    BY <1>1, <2>2 DEF d, o, n
<1>14. /\ Limit(call, log) = log.starts /\ Limit(call', log') = log.starts
       /\ log.starts \in Nat
  BY <1>1, <1>2, <1>11, Facts DEF Limit, SameLog
<1>15. Usable(disk', compiles, journal', call', log')
  <2>1. /\ Limit(call, log) \in Nat /\ Limit(call', log') \in Nat
        /\ Limit(call, log) <= Limit(call', log')
        /\ log.approved \subseteq log'.approved
    BY <1>11, <1>14 DEF SameLog
  <2> QED
    BY <1>1, <1>11, <1>12, <2>1, Typed, UsableKept
<1>16. MemOK(mem', call', compiles, branch', journal', log')
  <2>1. Fit(mem', FALSE, compiles, branch, journal, log)
    BY <1>9, <1>10
  <2>2. Fit(mem', FALSE, compiles, branch, journal, log')
    BY <1>9, <1>10, <1>11, <2>1, Typed, FitLog
  <2>3. Since(mem'.tasks, Limit(call', log'))
    BY <1>9, <1>10, <1>14, Facts
  <2>4. UnderWay(call', mem') = FALSE
    BY <1>1, <1>2 DEF UnderWay, Inside
  <2>5. Session(call', mem', log')
    BY <1>1, <1>2, <1>9, <1>10 DEF Session, Inside
  <2>6. Work(call', mem', compiles, branch, journal, log')
    BY <1>1, <1>2 DEF Work, Editing
  <2>7. Ledgers(call', mem', branch, journal)
    BY <1>1, <1>2 DEF Ledgers, Editing
  <2> QED
    BY <1>1, <1>14, <2>2, <2>3, <2>4, <2>5, <2>6, <2>7 DEF MemOK
<1>17. BranchOK(branch', compiles, log')
  BY <1>1, <1>11, Typed DEF BranchOK, SameLog
<1>18. Synced(call', disk', mem') /\ call'.pc # "merge"
  BY <1>1, <1>2 DEF Synced, Editing
<1>19. /\ mem' \in State /\ branch' \in Seq(Commit) /\ call' \in Call
       /\ journal' \in SolutionAdoption \cup {None}
       /\ UNCHANGED compiles
  BY <1>1, <1>2, <1>9, <1>10, Typed
<1>20. Along(disk', mem') /\ disk' \in State /\ (disk'.batch # None => Orderly(disk'.batch))
  BY <1>12
<1> QED
  BY <1>11, <1>13, <1>15, <1>16, <1>17, <1>18, <1>19, <1>20, Stepped

(* What is on disk is all that is left. *)
LEMMA Died ==
    ASSUME IInv, call' \in Call, call'.pc = "down", mem' = disk,
           UNCHANGED <<compiles, branch, journal, disk>>,
           LogOK(log'), log'.starts = log.starts, log'.approved = log.approved,
           Fit(disk, OpenRun(disk.batch), compiles, branch, journal, log'),
           Usable(disk, compiles, journal, call', log')
    PROVE  IInv'
<1>1. Limit(call', log') = log.starts /\ log.starts \in Nat
  BY Facts DEF Limit
<1>2. Limit(call, log) \in Nat /\ Limit(call, log) <= Limit(call', log')
  <2>1. Limit(call, log) \in {log.starts, log.starts - 1}
    BY DEF Limit
  <2> QED
    BY <1>1, <2>1, Facts
<1>3. MemOK(mem', call', compiles, branch', journal', log')
  <2>1. UnderWay(call', disk) = OpenRun(disk.batch)
    <3>1. call'.pc \notin Inside
      BY DEF Inside
    <3> QED
      BY Zenon, <3>1 DEF UnderWay, OpenRun
  <2>2. Since(disk.tasks, Limit(call', log'))
    <3>1. Since(mem.tasks, Limit(call', log'))
      BY <1>1, <1>2, Facts, SinceMono
    <3> QED
      BY <3>1, Typed DEF Since, Along
  <2>3. /\ Session(call', disk, log') /\ Work(call', disk, compiles, branch, journal, log')
        /\ Ledgers(call', disk, branch, journal)
    BY DEF Session, Work, Ledgers, Inside, Editing
  <2> QED
    BY <1>1, <2>1, <2>2, <2>3 DEF MemOK
<1>4. BranchOK(branch', compiles, log')
  BY Typed DEF BranchOK
<1>5. Along(disk', mem') /\ Synced(call', disk', mem') /\ call'.pc # "merge"
  BY DEF Along, Synced
<1> QED
  BY <1>3, <1>4, <1>5, Typed, Stepped

(* A process that dies may leave one more request billed: the disk says that
   it was pending. *)
LEMMA CrashKept == ASSUME IInv, Crash PROVE IInv'
<1>1. /\ call' = [Idle EXCEPT !.pc = "down"] /\ mem' = disk
      /\ UNCHANGED <<compiles, branch, journal, disk>>
  BY DEF Crash
<1>2. call' \in Call /\ call'.pc = "down"
  BY <1>1, IdleFacts DEF Call
<1> DEFINE died == [log EXCEPT !.crashes = @ + 1]
<1>3. log' = died \/ (At({"proposed", "judged"}) /\ log' = Billed(died))
  BY DEF Crash
<1>d. /\ LogOK(died) /\ died.billed = log.billed /\ died.starts = log.starts
      /\ died.approved = log.approved
  <2>1. LogOK(log)
    BY Typed
  <2> QED
    BY <2>1 DEF LogOK
<1> HIDE DEF died
<1>n. CASE log' = died
  <2>1. log.starts <= log'.starts /\ LogOK(log') /\ log'.billed = log.billed
    BY <1>d, <1>n, Facts
  <2>2. Fit(disk, OpenRun(disk.batch), compiles, branch, journal, log')
    BY <2>1, Typed, FitLog
  <2>3. SameLog(log, log')
    BY <1>d, <1>n DEF SameLog
  <2>4. Usable(disk, compiles, journal, call', log')
    <3>1. Limit(call', log') = log.starts
      BY <1>2, <2>3 DEF Limit, SameLog
    <3>2. Limit(call, log) \in {log.starts, log.starts - 1}
      BY DEF Limit
    <3>3. Limit(call, log) <= Limit(call', log') /\ Limit(call', log') \in Nat
      BY <3>1, <3>2, Facts
    <3> QED
      BY <2>1, <2>3, <3>3, StillUsable
  <2> QED
    BY <1>1, <1>2, <2>1, <2>2, <2>3, <2>4, Died DEF SameLog
<1>m. CASE At({"proposed", "judged"}) /\ log' = Billed(died)
  <2>1. call.pc \in {"proposed", "judged"}
    BY <1>m DEF At
  <2>2. call.pc \in Editing /\ Now.pending
    BY <2>1, PaidFacts
  <2>3. /\ LogOK(log') /\ BilledHere(log') /\ log'.approved = log.approved
        /\ log'.starts = log.starts
    BY <1>d, <1>m, <2>1, PaidFacts DEF BilledHere
  <2>4. disk = mem /\ OpenRun(mem.batch) = TRUE /\ ~ Live(disk, journal)
    BY <2>2, EditingFacts DEF OpenRun
  <2>5. Fit(mem, TRUE, compiles, branch, journal, log')
    BY <2>2, <2>3, BilledFit
  <2>6. Fit(disk, OpenRun(disk.batch), compiles, branch, journal, log')
    BY <2>4, <2>5
  <2>7. Usable(disk, compiles, journal, call', log')
    BY <2>4 DEF Usable
  <2> QED
    BY <1>1, <1>2, <2>3, <2>6, <2>7, Died
<1> QED
  BY <1>3, <1>n, <1>m

LEMMA OpenKept == ASSUME IInv, Open PROVE IInv'
<1>1. /\ call.pc = "down" /\ mem' = Loaded(disk)
      /\ call' = [Idle EXCEPT !.pc = "restore"]
      /\ UNCHANGED <<compiles, branch, journal, disk, log>>
  BY DEF Open, At
<1>2. /\ call' \in Call /\ call'.pc = "restore" /\ call'.then = "idle" /\ call'.iter = 0
  BY <1>1, IdleFacts DEF Call
<1>3. /\ mem' \in State /\ Fit(mem', FALSE, compiles, branch, journal, log)
      /\ Over(mem'.batch) /\ Along(disk, mem')
      /\ Recorded(mem'.tasks) \subseteq Recorded(disk.tasks) \cup OwnRun(disk.batch)
  BY <1>1, Typed, LoadedFit
<1>4. /\ Limit(call, log) = log.starts /\ Limit(call', log') = log.starts
      /\ log.starts \in Nat
  BY <1>1, <1>2, Facts DEF Limit
<1>5. Since(mem'.tasks, log.starts)
  <2>1. Since(disk.tasks, log.starts)
    BY <1>4, Typed, Facts DEF Since, Along
  <2>2. disk.batch # None => disk.batch.start <= log.starts
    BY Typed DEF Fit
  <2> QED
    BY <1>3, <2>1, <2>2 DEF Since, OwnRun, Ran
<1>6. UnderWay(call', mem') = FALSE
  BY <1>2 DEF UnderWay, Inside
<1>7. /\ Session(call', mem', log) /\ Work(call', mem', compiles, branch, journal, log)
      /\ Ledgers(call', mem', branch, journal)
  BY <1>2, <1>3 DEF Session, Work, Ledgers, Inside, Editing
<1>8. MemOK(mem', call', compiles, branch', journal', log')
  BY <1>1, <1>3, <1>4, <1>5, <1>6, <1>7 DEF MemOK
<1>9. Usable(disk, compiles, journal, call', log)
  <2>1. Limit(call, log) <= Limit(call', log) /\ Limit(call', log) \in Nat
    BY <1>1, <1>4
  <2> QED
    BY <2>1, Typed, LogSame, StillUsable
<1>10. Synced(call', disk', mem') /\ call'.pc # "merge"
  BY <1>2 DEF Synced, Editing
<1> QED
  BY <1>1, <1>2, <1>3, <1>8, <1>9, <1>10, Typed, Stepped

-----------------------------------------------------------------------------
(* The theorems. *)
LEMMA Started == Init => IInv
<1> SUFFICES ASSUME Init PROVE IInv
  OBVIOUS
<1>1. /\ branch = <<>> /\ journal = None /\ call = Idle
      /\ disk = [tasks |-> <<>>, batch |-> None] /\ mem = disk
      /\ log = [billed |-> [id \in Ids |-> 0], approved |-> {},
                starts |-> 0, sent |-> 0, faults |-> 0, crashes |-> 0]
  BY DEF Init
<1>2. /\ disk \in State /\ disk.tasks = <<>> /\ disk.batch = None
      /\ OpenRun(disk.batch) = FALSE
  BY <1>1 DEF State, OpenRun
<1>3. /\ Entries(disk.tasks) = {} /\ Recorded(disk.tasks) = {} /\ Known(disk.tasks) = {}
      /\ OnceIn(disk.tasks)
  BY <1>2 DEF Entries, Recorded, Known, OnceIn
<1>4. call \in Call /\ call.pc = "idle" /\ call.iter = 0
  BY <1>1, IdleFacts
<1>5. LogOK(log) /\ log.starts = 0 /\ Charged(log) = {}
  BY <1>1, BoundFacts DEF LogOK, Charged
<1>6. BuildsOK(compiles)
  BY DEF Init, BuildsOK
<1>7. BranchOK(branch, compiles, log) /\ branch \in Seq(Commit) /\ RunsOf(branch) = {}
  BY <1>1 DEF BranchOK, RunsOf
<1>8. Fit(disk, FALSE, compiles, branch, journal, log)
  <2>1. Settled(disk.tasks, branch, journal)
    BY <1>1, <1>3, <1>7 DEF Settled
  <2> QED
    BY <1>2, <1>3, <1>5, <2>1
       DEF Fit, Books, Backed, AllBuild, Completed
<1>9. Limit(call, log) = 0
  BY <1>4, <1>5 DEF Limit
<1>10. MemOK(mem, call, compiles, branch, journal, log)
  <2>1. UnderWay(call, mem) = FALSE
    BY <1>4 DEF UnderWay, Inside
  <2>2. Session(call, mem, log)
    BY <1>1, <1>2, <1>4 DEF Session, Inside, Over
  <2>3. Work(call, mem, compiles, branch, journal, log) /\ Ledgers(call, mem, branch, journal)
    BY <1>4 DEF Work, Ledgers, Editing
  <2>4. Since(mem.tasks, 0)
    BY <1>1, <1>3 DEF Since
  <2> QED
    <3>1. Fit(mem, FALSE, compiles, branch, journal, log)
      BY <1>1, <1>8
    <3>2. Fit(mem, UnderWay(call, mem), compiles, branch, journal, log)
      BY <2>1, <3>1
    <3>3. Since(mem.tasks, Limit(call, log)) /\ Limit(call, log) \in Nat
      BY <1>9, <2>4
    <3> QED
      BY <2>2, <2>3, <3>2, <3>3 DEF MemOK
<1>11. Along(disk, mem) /\ Synced(call, disk, mem)
  BY <1>1, <1>4 DEF Along, Synced
<1>12. Usable(disk, compiles, journal, call, log)
  BY <1>1 DEF Usable, Live
<1>13. TypeOK
  <2>1. compiles \in [Solutions -> SUBSET Trees]
    BY DEF Init
  <2>2. log.billed \in [Ids -> Nat] /\ log.approved \subseteq Ids \X Trees
    BY <1>5 DEF LogOK
  <2> QED
    BY <1>1, <1>2, <1>4, <1>7, <2>1, <2>2 DEF TypeOK
<1> QED
  BY <1>2, <1>4, <1>5, <1>6, <1>7, <1>8, <1>10, <1>11, <1>12, <1>13 DEF IInv

LEMMA Invariance == Spec => []IInv
<1>1. ASSUME IInv, [Next]_vars PROVE IInv'
  <2>1. CASE UNCHANGED vars
    <3>1. UNCHANGED <<compiles, branch, journal, disk, mem, call, log>>
      BY <2>1 DEF vars
    <3> QED
      BY <1>1, <3>1 DEF IInv, TypeOK, Adoption, Adopting, Here, Now
  <2> QED
    BY <1>1, <2>1, ForgottenKept, RecoverKept, NotRecoveredKept, ReplayKept, CrashKept,
       OpenKept, StartKept, ScanKept, BatchKept, TakeNextKept, NoMoreKept, LeaveKept,
       EndKept, StopKept, InnerKept, FailsKept, BuildKept, AskKept, ProposeKept, JudgeKept,
       NoAnswerKept, AdoptKept, JournalKept, MergeKept, NotMergedKept, RecordKept DEF Next
<1> QED
  BY <1>1, Started, PTL DEF Spec

(* Trees, branch, journal, queue, session and call keep their shape, and the
   results on disk hold no running solution once their batch is over. *)
THEOREM TypeCorrect == Spec => []TypeOK
<1>1. IInv => TypeOK
  BY DEF IInv
<1> QED
  BY <1>1, Invariance, PTL

(* The queue on disk and the private branch differ by at most the commit of
   the journal, and agree while a solution is worked on: over failed saves and
   merges, and a process that dies anywhere between the merge and the record. *)
THEOREM LedgerAgrees == Spec => []LedgerSettled
<1>1. ASSUME IInv PROVE LedgerSettled
  <2>1. BranchRuns = RunsOf(branch)
    BY BranchFacts
  <2>2. \/ Settled(disk.tasks, branch, journal)
        \/ Redo(disk, OpenRun(disk.batch), branch, journal)
    BY <1>1, Typed DEF Fit
  <2>3. /\ Known(disk.tasks) \subseteq RunsOf(branch)
        /\ \A id \in RunsOf(branch) \ Known(disk.tasks) :
              journal # None /\ journal.commit.run = id
    BY <2>2 DEF Settled, Redo
  <2>4. call.pc \in {"inner"} \cup Editing => Known(mem.tasks) = RunsOf(branch)
    BY <1>1, Facts DEF Ledgers, Settled
  <2> QED
    BY <2>1, <2>3, <2>4 DEF LedgerSettled, At, Editing
<1> QED
  BY <1>1, Invariance, PTL

(* Every run is charged once: no queue holds two entries of it, the entry is
   right or marked as uncertain, and every outcome on disk has its entry. *)
THEOREM ChargedOnce == Spec => []AccountedOnce
<1>1. ASSUME IInv PROVE AccountedOnce
  <2>1. Books(disk.tasks, log) /\ Books(mem.tasks, log)
    BY <1>1, Typed, Facts DEF Fit
  <2>2. ASSUME At({"idle"}), NEW id \in Ids, log.billed[id] > 0
        PROVE  \E e \in Entries(mem.tasks) :
                  e.run = id /\ (e.usage = log.billed[id] \/ e.uncertain)
    <3>1. UnderWay(call, mem) = FALSE
      BY <2>2 DEF UnderWay, At, Inside
    <3>2. Charged(log) \subseteq Recorded(mem.tasks)
      BY <1>1, <3>1, Facts DEF Fit, Open1
    <3>3. id \in Recorded(mem.tasks)
      BY <2>2, <3>2 DEF Charged
    <3> QED
      BY <2>1, <3>3 DEF Recorded, Books
  <2>3. ASSUME disk.batch # None, NEW i \in Places, disk.batch.runs[i].status \in Ended
        PROVE  <<disk.batch.start, i>> \in Recorded(disk.tasks)
    <3>1. Backed(disk.tasks, disk.batch, But(disk, OpenRun(disk.batch)))
      BY <1>1, Typed DEF Fit
    <3>2. i \notin But(disk, OpenRun(disk.batch))
      BY <2>3 DEF But, OpenRun, Ended
    <3> QED
      BY <2>3, <3>1, <3>2 DEF Backed
  <2> QED
    BY <2>1, <2>2, <2>3 DEF AccountedOnce, Books, Ended
<1> QED
  BY <1>1, Invariance, PTL

(* What the results show as completed builds at the head of the branch,
   whatever later solutions changed in the files they share. *)
THEOREM CompletedBuild == Spec => []CompletedStillBuild
<1>1. ASSUME IInv PROVE CompletedStillBuild
  <2> SUFFICES ASSUME disk.batch # None, NEW i \in Places,
                      disk.batch.runs[i].status = "completed"
               PROVE  Builds(Order[i], HeadTree)
    BY DEF CompletedStillBuild
  <2>1. AllBuild(disk.batch, But(disk, OpenRun(disk.batch)), compiles, HeadOf(branch))
    BY <1>1, Typed DEF Fit
  <2>2. i \in Completed(disk.batch) \ But(disk, OpenRun(disk.batch))
    BY DEF But, OpenRun, Completed
  <2> QED
    BY <2>1, <2>2, BranchFacts DEF AllBuild, Builds
<1> QED
  BY <1>1, Invariance, PTL

(* Every commit of the branch is the tree that was approved in its run, and
   builds: whether the run or recovery merged it. *)
THEOREM AdoptsApproved == Spec => []AdoptedAsApproved
<1>1. ASSUME IInv PROVE AdoptedAsApproved
  BY <1>1, Typed DEF BranchOK, AdoptedAsApproved, Builds
<1> QED
  BY <1>1, Invariance, PTL
=============================================================================
