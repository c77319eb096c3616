--------------------------- MODULE Execution_proofs ---------------------------
(***************************************************************************)
(* Proofs about Execution for every value of its constants: IInv is an     *)
(* invariant, and with it the queue on disk accounts for every commit and  *)
(* never forgets one.                                                      *)
(***************************************************************************)
EXTENDS ExecutionInvariant, TLAPS

USE ContentAssumption, BoundAssumption

-----------------------------------------------------------------------------
(* What the operators on a task return. *)

(* Every final status is the outcome of the attempt; nothing else is lost. *)
LEMMA FinishedTask ==
    ASSUME NEW t \in Task, NEW s \in {"done", "skipped", "failed", "needs_human"}
    PROVE  /\ Finished(t, s) \in Task
           /\ Finished(t, s).discard = t.discard
           /\ Finished(t, s).commits = t.commits
           /\ Finished(t, s).att.num = t.att.num
           /\ Finished(t, s).att.output = t.att.output
           /\ Finished(t, s).att.outcome = s
           /\ Finished(t, s).status # "running"
<1> DEFINE a == [t.att EXCEPT !.outcome = s]
           adopted == IF Adopted(a) THEN a.output ELSE t.adopted
           u == [t EXCEPT !.att = a, !.status = s, !.adopted = adopted]
<1>1. a \in Attempt /\ a.num = t.att.num /\ a.output = t.att.output /\ a.outcome = s
  BY DEF Task, Attempt
<1>2. adopted \in Digest
  BY <1>1 DEF Task, Attempt
<1> HIDE DEF a, adopted
<1>3. /\ u \in Task /\ u.discard = t.discard /\ u.commits = t.commits
      /\ u.att = a /\ u.status = s
  BY <1>1, <1>2 DEF Task, Statuses
<1>4. Finished(t, s) = IF s = "skipped" /\ CanDiscard(u)
                       THEN [u EXCEPT !.status = "done"] ELSE u
  BY DEF Finished, a, adopted
<1> HIDE DEF u
<1>5. [u EXCEPT !.status = "done"] \in Task
  BY <1>3 DEF Task, Statuses
<1>6. [u EXCEPT !.status = "done"].discard = u.discard
  BY <1>3 DEF Task
<1> QED
  BY <1>1, <1>3, <1>4, <1>5 DEF Task

(* Starting an attempt, anew or resumed, gives a well-typed attempt record. *)
LEMMA AttemptTypes ==
    ASSUME NEW t \in Task, run.ref \in Nat
    PROVE  /\ Resumed(t) \in Attempt /\ Resumed(t).outcome = ""
           /\ Fresh(t) \in Attempt /\ Fresh(t).outcome = ""
<1>1. NoAttempt \in Attempt
  BY DEF NoAttempt, Attempt, Digest, CommitId
<1>2. t.att \in Attempt /\ t.att.num + 1 \in Nat
  <2>1. t.att \in Attempt
    BY DEF Task
  <2>2. t.att.num \in Nat
    BY <2>1 DEF Attempt
  <2> QED
    BY <2>1, <2>2
<1>3. Fresh(t) \in Attempt /\ Fresh(t).outcome = ""
  <2>1. Fresh(t) = [NoAttempt EXCEPT !.num = t.att.num + 1, !.base = run.ref]
    BY DEF Fresh
  <2>2. [NoAttempt EXCEPT !.num = t.att.num + 1, !.base = run.ref] \in Attempt
    BY <1>1, <1>2 DEF Attempt
  <2>3. Fresh(t).outcome = ""
    BY <1>1, <2>1 DEF Attempt, NoAttempt
  <2> QED
    BY <2>1, <2>2, <2>3
<1>4. Resumed(t) \in Attempt /\ Resumed(t).outcome = ""
  BY <1>2 DEF Resumed, Attempt, Digest, CommitId
<1> QED
  BY <1>3, <1>4

(* The task of a freshly scanned file is well typed. *)
LEMMA NewTaskType == NewTask \in Task
  BY DEF NewTask, NoAttempt, Task, Attempt, Discard, Digest, CommitId, Bytes, Statuses

(* What recovery, a retry and a discard make of a task. *)
LEMMA MarkedTask ==
    ASSUME NEW t \in Task, HEAD \in Nat
    PROVE  /\ MarkedDone(t) \in Task /\ MarkedInterrupted(t) \in Task
           /\ MarkedDone(t).discard = t.discard
           /\ MarkedInterrupted(t).discard = t.discard
           /\ MarkedDone(t).commits = t.commits \cup {HEAD}
           /\ MarkedInterrupted(t).commits = t.commits
           /\ MarkedDone(t).status # "running"
           /\ MarkedInterrupted(t).status # "running"
<1> DEFINE o == IF t.att.partial THEN "needs_human" ELSE "done"
           a == [t.att EXCEPT !.commit = HEAD, !.outcome = o]
           b == [t.att EXCEPT !.outcome = "interrupted"]
           r == IF t.att.repair THEN FALSE ELSE t.resume
<1>1. t.att \in Attempt /\ t.att.output \in Digest /\ t.commits \cup {HEAD} \in SUBSET Nat
  BY DEF Task, Attempt
<1>2. a \in Attempt /\ a.outcome = o /\ a.output = t.att.output /\ o \in {"needs_human", "done"}
  BY <1>1 DEF Attempt, CommitId
<1>3. b \in Attempt /\ r \in BOOLEAN
  BY <1>1 DEF Attempt, Task
<1>4. MarkedDone(t) = [t EXCEPT !.att = a, !.status = a.outcome,
                                !.commits = t.commits \cup {HEAD}, !.adopted = a.output]
  BY DEF MarkedDone
<1>5. MarkedInterrupted(t) = [t EXCEPT !.att = b, !.status = "needs_human", !.resume = r]
  BY DEF MarkedInterrupted, Task
<1> HIDE DEF a, b, o, r
<1>6. /\ MarkedDone(t) \in Task /\ MarkedDone(t).discard = t.discard
      /\ MarkedDone(t).commits = t.commits \cup {HEAD} /\ MarkedDone(t).status = o
  BY <1>1, <1>2, <1>4 DEF Task, Statuses
<1>7. /\ MarkedInterrupted(t) \in Task /\ MarkedInterrupted(t).discard = t.discard
      /\ MarkedInterrupted(t).commits = t.commits
      /\ MarkedInterrupted(t).status = "needs_human"
  BY <1>3, <1>5 DEF Task, Statuses
<1> QED
  BY <1>2, <1>6, <1>7

(* Requeueing a task for a retry keeps its type and its recorded commits. *)
LEMMA RequeuedTask ==
    ASSUME NEW t \in Task, NEW f \in Files, work \in [Files -> Bytes]
    PROVE  /\ Requeued(t, f) \in Task
           /\ Requeued(t, f).discard = t.discard
           /\ Requeued(t, f).commits = t.commits
           /\ Requeued(t, f).status = "pending"
<1>1. work[f] \in Digest
  BY DEF Digest
<1> QED
  BY <1>1 DEF Requeued, Task, Statuses

(* Finishing a discard keeps the type of the task and adds HEAD to its commits. *)
LEMMA DiscardedTask ==
    ASSUME NEW t \in Task, HEAD \in Nat
    PROVE  /\ Discarded(t) \in Task
           /\ Discarded(t).discard.state = "done"
           /\ Discarded(t).commits = t.commits \cup {HEAD}
<1> DEFINE d == [t.discard EXCEPT !.state = "done"]
<1>1. t.discard \in Discard /\ t.att \in Attempt /\ t.commits \cup {HEAD} \in SUBSET Nat
  BY DEF Task
<1>2. d \in Discard /\ d.state = "done"
  BY <1>1 DEF Discard
<1>3. t.att.num \in Nat /\ None \in Digest /\ Baseline \in Digest
  BY <1>1 DEF Attempt, Digest, Bytes
<1>4. Discarded(t) = [t EXCEPT !.discard = d, !.cutoff = t.att.num,
                          !.commits = t.commits \cup {HEAD}, !.adopted = None,
                          !.status = "pending", !.resume = TRUE, !.input = Baseline]
  BY DEF Discarded, Task
<1> HIDE DEF d
<1> QED
  BY <1>1, <1>2, <1>3, <1>4 DEF Task, Statuses

-----------------------------------------------------------------------------
(* A step that replaces the record of one task. *)

(* The head of the branch is a number and its tree gives every file its bytes. *)
LEMMA Branch == branch \in Seq(Commit) => HEAD \in Nat /\ HeadTree \in [Files -> Bytes]
<1> SUFFICES ASSUME branch \in Seq(Commit)
             PROVE  HEAD \in Nat /\ HeadTree \in [Files -> Bytes]
  OBVIOUS
<1>1. HEAD \in Nat
  BY DEF HEAD
<1>2. CASE HEAD = 0
  BY <1>2 DEF HeadTree, TreeAt, Bytes
<1>3. CASE HEAD # 0
  <2>1. HEAD \in 1..Len(branch)
    BY <1>1, <1>3 DEF HEAD
  <2>2. branch[HEAD] \in Commit
    BY <2>1
  <2>3. branch[HEAD].tree \in [Files -> Bytes]
    BY <2>2 DEF Commit
  <2> QED
    BY <1>1, <1>3, <2>3 DEF HeadTree, TreeAt
<1> QED
  BY <1>1, <1>2, <1>3

(* Reading a file from a snapshot commit yields bytes. *)
LEMMA SnapshotBytes ==
    ASSUME IInv, NEW f \in Files
    PROVE  TreeAt(run.ref)[f] \in Digest
<1>1. run.ref \in 0..Len(branch) /\ branch \in Seq(Commit)
  BY DEF IInv, TypeInv, TypeOK, FilesHeld, HEAD
<1>2. CASE run.ref = 0
  BY <1>2 DEF TreeAt, Digest, Bytes
<1>3. CASE run.ref # 0
  <2>1. run.ref \in 1..Len(branch)
    BY <1>1, <1>3
  <2>2. branch[run.ref] \in Commit
    BY <1>1, <2>1
  <2>3. branch[run.ref].tree[f] \in Bytes
    BY <2>2 DEF Commit
  <2> QED
    BY <1>3, <2>3 DEF TreeAt, Digest
<1> QED
  BY <1>1, <1>2, <1>3

(* A queue that changes one task only by adding commits knows at least as much. *)
LEMMA KnownAfter ==
    ASSUME NEW q \in [Files -> Task], NEW f \in Files, NEW t \in Task
    PROVE  /\ [q EXCEPT ![f] = t] \in [Files -> Task]
           /\ q[f].commits \subseteq t.commits => Known(q) \subseteq Known([q EXCEPT ![f] = t])
           /\ t.commits \subseteq Known([q EXCEPT ![f] = t])
<1> DEFINE p == [q EXCEPT ![f] = t]
<1>1. p \in [Files -> Task] /\ p[f] = t /\ \A g \in Files \ {f} : p[g] = q[g]
  OBVIOUS
<1>2. ASSUME q[f].commits \subseteq t.commits, NEW n \in Known(q)
      PROVE  n \in Known(p)
  <2>1. PICK g \in Files : n \in q[g].commits
    BY DEF Known
  <2>2. n \in p[g].commits
    BY <1>1, <1>2, <2>1
  <2> QED
    BY <2>2 DEF Known
<1>3. t.commits \subseteq Known(p)
  BY <1>1 DEF Known
<1> QED
  BY <1>1, <1>2, <1>3

(* The effect of one call of a worker that makes no commit, and what a caller
   of Kept has to know about it. *)
WorkerEffect(w, t, pc) ==
    /\ op.stage = "run" /\ wk[w].file \in Files
    /\ t \in Task /\ t.discard = mem[wk[w].file].discard
    /\ mem[wk[w].file].commits \subseteq t.commits
    /\ mem' = [mem EXCEPT ![wk[w].file] = t]
    /\ disk' \in {disk, mem'}
    /\ wk' = [wk EXCEPT ![w].pc = pc] /\ pc \in PCs
    /\ run' \in [ref : {run.ref}, accepted : Nat, failure : BOOLEAN,
                  cancelled : BOOLEAN, jobs : {run.jobs}]
    /\ run.failure => run'.failure
    /\ work' \in [Files -> Bytes]
    /\ env' \in [faults : Nat, crashes : Nat, edits : Nat]
    /\ UNCHANGED <<branch, op>>
WorkerMay(w, t, pc) ==
    /\ pc = "begin" => t.status # "running"
    /\ pc \in {"input", "repair", "think", "verify", "write", "check", "journal"} =>
           Attempted(t)
    /\ pc = "restore" => t.status = "running"
    /\ pc \in InApply => /\ t.att.output # None /\ ~ run'.failure
                         /\ WriterFree \/ wk[w].pc \in InApply
    /\ pc = "commit" => Validated(t) /\ disk' = mem'
    /\ pc # "record"
    /\ wk[w].pc = "record" => run'.failure \/ (AllKnown(mem') /\ disk' = mem')
    /\ \/ WriterFree \/ wk[w].pc \in InApply
       \/ t = mem[wk[w].file] /\ (run'.failure => run.failure)
    /\ Validated(mem[wk[w].file]) => t = mem[wk[w].file] \/ AllKnown(mem')

(* A step on one task that leaves the branch alone keeps the type invariant. *)
LEMMA KeptTypes ==
    ASSUME TypeInv, NEW w \in Workers, NEW t, NEW pc,
           WorkerEffect(w, t, pc), WorkerMay(w, t, pc)
    PROVE  TypeInv'
<1> DEFINE f == wk[w].file
<1>1. mem' \in [Files -> Task] /\ disk' \in [Files -> Task]
  <2>1. mem \in [Files -> Task] /\ disk \in [Files -> Task]
    BY DEF TypeInv, TypeOK
  <2>2. /\ f \in Files /\ t \in Task
        /\ mem' = [mem EXCEPT ![f] = t] /\ disk' \in {disk, mem'}
    BY DEF WorkerEffect
  <2> QED
    BY <2>1, <2>2, KnownAfter
<1>2. TypeOK'
  <2>1. run' \in [ref : Nat, accepted : Nat, failure : BOOLEAN,
                  cancelled : BOOLEAN, jobs : SUBSET Files]
    <3>1. run.ref \in Nat /\ run.jobs \in SUBSET Files
      BY DEF TypeInv, TypeOK
    <3> QED
      BY <3>1 DEF WorkerEffect
  <2>2. wk' \in [Workers -> [pc : PCs, file : Files \cup {None}]]
    <3>1. wk \in [Workers -> [pc : PCs, file : Files \cup {None}]]
      BY DEF TypeInv, TypeOK
    <3>2. pc \in PCs /\ wk' = [wk EXCEPT ![w].pc = pc]
      BY DEF WorkerEffect
    <3> QED
      BY <3>1, <3>2
  <2>3. branch' = branch /\ op' = op /\ work' \in [Files -> Bytes]
        /\ env' \in [faults : Nat, crashes : Nat, edits : Nat]
    BY DEF WorkerEffect
  <2>4. branch' \in Seq(Commit)
        /\ op' \in [name : OpNames, stage : Stages, files : SUBSET Files,
                    cur : Files \cup {None}]
    BY <2>3 DEF TypeInv, TypeOK
  <2> QED
    BY <1>1, <2>1, <2>2, <2>3, <2>4 DEF TypeOK
<1>3. /\ wk' \in [Workers -> [pc : PCs, file : Files \cup {None}]]
      /\ wk'[w].pc = pc /\ \A v \in Workers : wk'[v].file = wk[v].file
      /\ \A v \in Workers \ {w} : wk'[v] = wk[v]
  <2>1. wk \in [Workers -> [pc : PCs, file : Files \cup {None}]]
    BY DEF TypeInv, TypeOK
  <2> DEFINE r == [wk[w] EXCEPT !.pc = pc]
  <2>2. r \in [pc : PCs, file : Files \cup {None}] /\ r.pc = pc /\ r.file = wk[w].file
    BY <2>1 DEF WorkerEffect
  <2>3. wk' = [wk EXCEPT ![w] = r]
    BY DEF WorkerEffect
  <2> HIDE DEF r
  <2> QED
    BY <2>1, <2>2, <2>3
<1>4. run'.jobs = run.jobs /\ run'.ref = run.ref /\ HEAD' = HEAD
  BY DEF WorkerEffect, HEAD
<1>5. ASSUME NEW v \in Workers, wk'[v].pc \in InApply
      PROVE  mem'[wk'[v].file].att.output # None
  <2>1. CASE v = w
    BY <1>3, <1>5, <2>1 DEF WorkerEffect, WorkerMay, TypeInv, TypeOK
  <2>2. CASE v # w
    BY <1>3, <1>5, <2>2 DEF WorkerEffect, TypeInv, TypeOK, FilesHeld
  <2> QED
    BY <2>1, <2>2
<1>6. FilesHeld'
  <2>1. op' = op /\ op.stage = "run"
    BY DEF WorkerEffect
  <2>2. ASSUME NEW v \in Workers
        PROVE  /\ wk'[v].pc \notin {"idle", "exit"} => wk'[v].file \in Files
               /\ wk'[v].file \notin run'.jobs
               /\ \A u \in Workers \ {v} : wk'[v].file # None => wk'[u].file # wk'[v].file
    <3>1. FilesHeld /\ wk'[v].pc = (IF v = w THEN pc ELSE wk[v].pc)
      BY <1>3 DEF TypeInv
    <3>2. /\ wk'[v].pc \notin {"idle", "exit"} => wk'[v].file \in Files
          /\ wk'[v].file \notin run'.jobs
      BY <1>3, <1>4, <2>1, <3>1 DEF FilesHeld, WorkerEffect
    <3>3. \A u \in Workers \ {v} : wk'[v].file # None => wk'[u].file # wk'[v].file
      BY <1>3, <2>1, <3>1 DEF FilesHeld
    <3> QED
      BY <3>2, <3>3
  <2>3. run'.ref \in (0..HEAD)'
    BY <1>4 DEF TypeInv, FilesHeld
  <2> QED
    BY <1>5, <2>1, <2>2, <2>3 DEF FilesHeld
<1> QED
  BY <1>2, <1>6 DEF TypeInv

(* Such a step keeps every commit of the branch accounted for in both queues. *)
LEMMA KeptAccounts ==
    ASSUME IInv, NEW w \in Workers, NEW t, NEW pc,
           WorkerEffect(w, t, pc), WorkerMay(w, t, pc)
    PROVE  QueuesAccount' /\ Known(mem) \subseteq Known(mem')
<1> DEFINE f == wk[w].file
<1>1. /\ f \in Files /\ t \in Task /\ mem \in [Files -> Task] /\ mem' = [mem EXCEPT ![f] = t]
      /\ t.discard = mem[f].discard /\ mem[f].commits \subseteq t.commits
      /\ branch' = branch /\ disk' \in {disk, mem'}
  BY DEF WorkerEffect, IInv, TypeInv, TypeOK
<1> HIDE DEF f
<1>2. Known(mem) \subseteq Known(mem')
  BY <1>1, KnownAfter
<1>3. Known(disk') \subseteq Known(mem')
  BY <1>1, <1>2 DEF IInv, QueuesAccount
<1>4. HEAD' = HEAD
  BY <1>1 DEF HEAD
<1>5. ASSUME NEW n \in 1..HEAD
      PROVE  n \in Known(mem') \/ (n = HEAD /\ \E g \in Files : InFlight(mem', g))
  <2>1. CASE n \in Known(mem)
    BY <1>2, <2>1
  <2>2. CASE n = HEAD /\ \E g \in Files : InFlight(mem, g)
    <3>1. PICK g \in Files : InFlight(mem, g)
      BY <2>2
    <3>2. CASE g # f
      BY <1>1, <2>2, <3>1, <3>2 DEF InFlight, OwnsHead, OwnsDiscard
    <3>3. CASE g = f /\ OwnsDiscard(mem, f)
      BY <1>1, <2>2, <3>3 DEF InFlight, OwnsDiscard
    <3>4. CASE g = f /\ OwnsHead(mem, f)
      <4>1. t = mem[f] \/ AllKnown(mem')
        BY <3>4 DEF OwnsHead, WorkerMay, f
      <4>2. CASE t = mem[f]
        BY <1>1, <2>2, <3>4, <4>2 DEF InFlight, OwnsHead
      <4>3. CASE AllKnown(mem')
        BY <4>3 DEF AllKnown
      <4> QED
        BY <4>1, <4>2, <4>3
    <3> QED
      BY <3>1, <3>2, <3>3, <3>4 DEF InFlight
  <2> QED
    BY <2>1, <2>2 DEF IInv, QueuesAccount, Accounts
<1>6. Accounts(mem)'
  BY <1>1, <1>4, <1>5 DEF Accounts, InFlight, OwnsHead, OwnsDiscard, HeadNames, HEAD
<1>7. Accounts(disk)'
  <2>1. CASE disk' = mem'
    BY <1>6, <2>1 DEF Accounts, InFlight, OwnsHead, OwnsDiscard, HeadNames, HEAD, Known
  <2>2. CASE disk' = disk
    BY <1>1, <1>4, <2>2 DEF IInv, QueuesAccount, Accounts, InFlight, OwnsHead, OwnsDiscard,
                           HeadNames, HEAD, Known
  <2> QED
    BY <1>1, <2>1, <2>2
<1> QED
  BY <1>2, <1>3, <1>6, <1>7 DEF QueuesAccount

(* Such a step leaves the records of discards and of recovery as they were. *)
LEMMA KeptStages ==
    ASSUME IInv, NEW w \in Workers, NEW t, NEW pc,
           WorkerEffect(w, t, pc), WorkerMay(w, t, pc)
    PROVE  DiscardsSaved' /\ RecoverySettles'
<1> DEFINE f == wk[w].file
<1>1. /\ f \in Files /\ mem \in [Files -> Task] /\ mem' = [mem EXCEPT ![f] = t]
      /\ t.discard = mem[f].discard /\ disk' \in {disk, mem'}
      /\ op' = op /\ op.stage = "run"
  BY DEF WorkerEffect, IInv, TypeInv, TypeOK
<1> HIDE DEF f
<1>2. Prepared(mem) = {} /\ Prepared(disk) = {}
  BY <1>1 DEF IInv, DiscardsSaved
<1>3. Prepared(mem') = {}
  BY <1>1, <1>2 DEF Prepared
<1>4. Prepared(disk') = {}
  BY <1>1, <1>2, <1>3
<1> QED
  BY <1>1, <1>3, <1>4 DEF DiscardsSaved, RecoverySettles, Prepared

(* Such a step keeps the writer alone in its closure. *)
LEMMA KeptWriter ==
    ASSUME IInv, NEW w \in Workers, NEW t, NEW pc,
           WorkerEffect(w, t, pc), WorkerMay(w, t, pc)
    PROVE  WriterAlone'
<1>1. /\ wk'[w].pc = pc /\ \A v \in Workers \ {w} : wk'[v] = wk[v]
      /\ branch' = branch /\ disk' \in {disk, mem'}
      /\ op.stage = "run" /\ op' = op /\ (run.failure => run'.failure)
  BY DEF WorkerEffect, IInv, TypeInv, TypeOK
<1>2. Known(mem) \subseteq Known(mem')
  BY KeptAccounts
<1>3. \A u \in Workers : wk[u].pc \in InApply =>
          ~ run.failure /\ \A v \in Workers \ {u} : wk[v].pc \notin InApply
  BY <1>1 DEF IInv, WriterAlone
<1>4. (~ run.failure /\ \A u \in Workers : wk[u].pc # "record") =>
          AllKnown(mem) /\ AllKnown(disk)
  BY <1>1 DEF IInv, WriterAlone
<1>5. pc \in InApply => ~ run'.failure /\ (WriterFree \/ wk[w].pc \in InApply)
  BY DEF WorkerMay
<1>6. ASSUME NEW u \in Workers, wk'[u].pc \in InApply
      PROVE  ~ run'.failure /\ \A v \in Workers \ {u} : wk'[v].pc \notin InApply
  <2>1. CASE u = w
    <3>1. pc \in InApply
      BY <1>1, <1>6, <2>1
    <3>2. \A v \in Workers \ {w} : wk[v].pc \notin InApply
      BY <1>3, <1>5, <3>1 DEF WriterFree
    <3> QED
      BY <1>1, <1>5, <2>1, <3>1, <3>2
  <2>2. CASE u # w
    <3>1. wk[u].pc \in InApply
      BY <1>1, <1>6, <2>2
    <3>2. wk[w].pc \notin InApply /\ ~ WriterFree
      BY <1>3, <2>2, <3>1 DEF WriterFree
    <3>3. pc \notin InApply
      BY <1>5, <3>2
    <3>4. \A v \in Workers \ {u} : wk'[v].pc \notin InApply
      BY <1>1, <1>3, <3>1, <3>3
    <3>5. ~ run'.failure
      BY <1>3, <3>1, <3>2 DEF WorkerMay
    <3> QED
      BY <3>4, <3>5
  <2> QED
    BY <2>1, <2>2
<1>7. ASSUME ~ run'.failure, \A v \in Workers : wk'[v].pc # "record"
      PROVE  AllKnown(mem') /\ AllKnown(disk')
  <2>1. CASE wk[w].pc = "record"
    BY <1>7, <2>1 DEF WorkerMay
  <2>2. CASE wk[w].pc # "record"
    <3>1. AllKnown(mem) /\ AllKnown(disk)
      BY <1>1, <1>4, <1>7, <2>2
    <3> QED
      BY <1>1, <1>2, <3>1 DEF AllKnown
  <2> QED
    BY <2>1, <2>2
<1> QED
  BY <1>1, <1>6, <1>7 DEF WriterAlone, AllKnown, Known, HEAD

(* Such a step keeps track of which attempt is journaled and whose commit HEAD is. *)
LEMMA KeptAttempts ==
    ASSUME IInv, NEW w \in Workers, NEW t, NEW pc,
           WorkerEffect(w, t, pc), WorkerMay(w, t, pc)
    PROVE  AttemptsTracked'
<1> DEFINE f == wk[w].file
<1>1. /\ wk'[w].pc = pc /\ wk'[w].file = f
      /\ \A v \in Workers \ {w} : wk'[v] = wk[v]
      /\ mem \in [Files -> Task] /\ mem' = [mem EXCEPT ![f] = t] /\ f \in Files
      /\ branch' = branch /\ op.stage = "run" /\ op' = op /\ run'.jobs = run.jobs
      /\ disk' \in {disk, mem'}
  <2>1. wk[w] \in [pc : PCs, file : Files \cup {None}]
    BY DEF IInv, TypeInv, TypeOK
  <2>2. [wk[w] EXCEPT !.pc = pc].file = wk[w].file
    BY <2>1
  <2> QED
    BY <2>1, <2>2 DEF WorkerEffect, IInv, TypeInv, TypeOK
<1> HIDE DEF f
<1>2. f \notin run.jobs /\ run.jobs \subseteq Files
  BY DEF IInv, TypeInv, TypeOK, FilesHeld, f
<1>3. \A g \in run'.jobs : mem'[g].status # "running"
  <2>1. \A g \in run.jobs : mem[g].status # "running"
    BY <1>1 DEF IInv, AttemptsTracked
  <2> QED
    BY <1>1, <1>2, <2>1
<1>4. mem'[f] = t
  BY <1>1
<1>5. /\ pc = "begin" => t.status # "running"
      /\ pc \in {"input", "repair", "think", "verify", "write", "check", "journal"} =>
             Attempted(t)
      /\ pc = "restore" => t.status = "running"
      /\ pc = "commit" => Validated(t) /\ disk' = mem'
      /\ pc # "record"
  BY DEF WorkerMay
<1>6. ASSUME NEW v \in Workers \ {w}, wk[v].pc \notin {"idle", "exit"}
      PROVE  mem'[wk[v].file] = mem[wk[v].file]
  <2>1. wk[v].file \in Files /\ wk[v].file # f
    BY <1>6 DEF IInv, TypeInv, FilesHeld, f
  <2> QED
    BY <1>1, <2>1
<1>7. ASSUME NEW v \in Workers \ {w}
      PROVE  LET s == mem'[wk'[v].file]
             IN  /\ wk'[v].pc = "begin" => s.status # "running"
                 /\ wk'[v].pc \in {"input", "repair", "think", "verify", "write",
                                   "check", "journal"} => Attempted(s)
                 /\ wk'[v].pc = "restore" => s.status = "running"
                 /\ wk'[v].pc \in {"commit", "record"} => mem' = disk' /\ Validated(s)
                 /\ wk'[v].pc = "record" =>
                        /\ HeadNames("attempt", wk'[v].file, s.att.num)
                        /\ 1..(HEAD - 1) \subseteq Known(mem')
  <2>1. LET s == mem[wk[v].file]
        IN  /\ wk[v].pc = "begin" => s.status # "running"
            /\ wk[v].pc \in {"input", "repair", "think", "verify", "write",
                             "check", "journal"} => Attempted(s)
            /\ wk[v].pc = "restore" => s.status = "running"
            /\ wk[v].pc \in {"commit", "record"} => mem = disk /\ Validated(s)
            /\ wk[v].pc = "record" =>
                   /\ HeadNames("attempt", wk[v].file, s.att.num)
                   /\ 1..(HEAD - 1) \subseteq Known(mem)
    BY <1>1 DEF IInv, AttemptsTracked
  <2>2. Known(mem) \subseteq Known(mem')
    BY KeptAccounts
  <2>3. wk[v].pc \in {"commit", "record"} => mem' = disk'
    <3> SUFFICES ASSUME wk[v].pc \in {"commit", "record"}
                 PROVE  mem' = disk'
      OBVIOUS
    <3>1. wk[v].pc \in InApply /\ mem = disk
      BY <2>1 DEF InApply
    <3>2. ~ WriterFree /\ wk[w].pc \notin InApply
      BY <1>1, <3>1 DEF WriterFree, IInv, WriterAlone
    <3>3. t = mem[f]
      BY <3>2 DEF WorkerMay, f
    <3> QED
      BY <1>1, <3>1, <3>3
  <2> QED
    BY <1>1, <1>6, <2>1, <2>2, <2>3
<1> QED
  BY <1>1, <1>3, <1>4, <1>5, <1>7 DEF AttemptsTracked, HeadNames, HEAD, Known

(* The lemmas above together: a worker step before the commit keeps IInv. *)
LEMMA Kept ==
    ASSUME IInv, NEW w \in Workers, NEW t, NEW pc,
           WorkerEffect(w, t, pc), WorkerMay(w, t, pc)
    PROVE  IInv' /\ Known(mem) \subseteq Known(mem')
  BY KeptTypes, KeptAccounts, KeptStages, KeptWriter, KeptAttempts DEF IInv

-----------------------------------------------------------------------------
(* Every call of a worker but the commit itself has such an effect. *)

Env == [faults : Nat, crashes : Nat, edits : Nat]
RunSet == [ref : {run.ref}, accepted : Nat, failure : BOOLEAN,
           cancelled : BOOLEAN, jobs : {run.jobs}]

(* Counting a fault keeps the type of the counters. *)
LEMMA FaultEffect == ASSUME env \in Env, NEW r, Fault(r) PROVE env' \in Env
<1>1. env.faults \in Nat
  BY DEF Env
<1>2. (IF r = "ok" THEN env.faults ELSE env.faults + 1) \in Nat
  BY <1>1
<1> QED
  BY <1>2 DEF Fault, Env

(* What a worker that ends with an error leaves behind. *)
LEMMA AbortEffect ==
    ASSUME TypeOK, NEW w \in Workers, NEW b \in BOOLEAN, Abort(w, b)
    PROVE  /\ wk' = [wk EXCEPT ![w].pc = "exit"]
           /\ run' \in RunSet /\ (run'.failure <=> run.failure \/ b)
<1>1. run \in [ref : Nat, accepted : Nat, failure : BOOLEAN,
                cancelled : BOOLEAN, jobs : SUBSET Files]
  BY DEF TypeOK
<1>2. run' = [run EXCEPT !.cancelled = TRUE, !.failure = run.failure \/ b]
  BY DEF Abort
<1>3. (run.failure \/ b) \in BOOLEAN
  OBVIOUS
<1> QED
  BY <1>1, <1>2, <1>3 DEF Abort, Goto, RunSet

(* The outcomes of a closure that ends in a save of the queue. *)
LEMMA SaveOrEffect ==
    ASSUME TypeOK, NEW w \in Workers, wk[w].file \in Files, NEW t \in Task, NEW pc,
           SaveOr(w, t, pc)
    PROVE  /\ mem' = [mem EXCEPT ![wk[w].file] = t] /\ disk' \in {disk, mem'}
           /\ env' \in Env /\ run' \in RunSet
           /\ \/ /\ wk' = [wk EXCEPT ![w].pc = pc] /\ disk' = mem' /\ run' = run
              \/ wk' = [wk EXCEPT ![w].pc = "exit"] /\ run'.failure
<1>1. PICK r \in SaveResults :
          /\ Fault(r)
          /\ Save([mem EXCEPT ![wk[w].file] = t], r)
          /\ IF r = "ok" THEN Goto(w, pc) /\ UNCHANGED run ELSE Abort(w, TRUE)
  BY DEF SaveOr
<1>2. mem' = [mem EXCEPT ![wk[w].file] = t] /\ disk' \in {disk, mem'}
      /\ (r # "before" => disk' = mem')
  BY <1>1 DEF Save
<1>3. env' \in Env
  BY <1>1, FaultEffect DEF TypeOK, Env
<1>4. CASE r = "ok"
  <2>1. run \in RunSet
    BY DEF TypeOK, RunSet
  <2> QED
    BY <1>1, <1>2, <1>3, <1>4, <2>1 DEF Goto
<1>5. CASE r # "ok"
  BY <1>1, <1>2, <1>3, <1>5, AbortEffect
<1> QED
  BY <1>4, <1>5

(* A closure that saves its own task in an earlier phase of the attempt keeps IInv. *)
LEMMA SaveKeeps ==
    ASSUME IInv, op.stage = "run", NEW w \in Workers, wk[w].file \in Files,
           NEW t \in Task, NEW pc \in PCs, SaveOr(w, t, pc),
           UNCHANGED <<branch, op>>, work' \in [Files -> Bytes],
           t.discard = mem[wk[w].file].discard,
           mem[wk[w].file].commits \subseteq t.commits,
           WriterFree \/ wk[w].pc \in InApply,
           wk[w].pc # "record", pc # "record", pc # "restore",
           pc = "begin" => t.status # "running",
           pc \in {"input", "repair", "think", "verify", "write", "check", "journal"} =>
               Attempted(t),
           pc \in InApply => t.att.output # None /\ ~ run.failure,
           pc = "commit" => Validated(t),
           Validated(mem[wk[w].file]) => t = mem[wk[w].file] \/ AllKnown(mem)
    PROVE  IInv' /\ Known(mem) \subseteq Known(mem')
<1>1. TypeOK /\ mem \in [Files -> Task]
  BY DEF IInv, TypeInv, TypeOK
<1>2. PICK p \in {pc, "exit"} :
          /\ mem' = [mem EXCEPT ![wk[w].file] = t] /\ disk' \in {disk, mem'}
          /\ env' \in Env /\ run' \in RunSet
          /\ wk' = [wk EXCEPT ![w].pc = p]
          /\ \/ p = pc /\ disk' = mem' /\ run' = run
             \/ p = "exit" /\ run'.failure
  BY <1>1, SaveOrEffect
<1>3. Known(mem) \subseteq Known(mem')
  BY <1>1, <1>2, KnownAfter
<1>4. run.failure => run'.failure
  BY <1>2
<1>5. WorkerEffect(w, t, p)
  BY <1>2, <1>4 DEF WorkerEffect, Env, RunSet, PCs
<1>6. AllKnown(mem) => AllKnown(mem')
  BY <1>3 DEF AllKnown
<1>7. WorkerMay(w, t, p)
  BY <1>2, <1>6 DEF WorkerMay, InApply
<1> QED
  BY <1>5, <1>7, Kept

(* Rewriting a task with itself changes nothing. *)
LEMMA SameTask ==
    ASSUME IInv, NEW f \in Files, UNCHANGED mem
    PROVE  mem[f] \in Task /\ mem' = [mem EXCEPT ![f] = mem[f]]
  BY DEF IInv, TypeInv, TypeOK

(* A worker that stops with an error and saves nothing keeps IInv. *)
LEMMA AbortKeeps ==
    ASSUME IInv, op.stage = "run", NEW w \in Workers, wk[w].file \in Files,
           NEW b \in BOOLEAN, Abort(w, b), UNCHANGED <<mem, disk, branch, op>>,
           work' \in [Files -> Bytes], env' \in Env,
           b => WriterFree \/ wk[w].pc \in InApply,
           wk[w].pc = "record" => b
    PROVE  IInv' /\ Known(mem) \subseteq Known(mem')
<1> DEFINE t == mem[wk[w].file]
<1>1. TypeOK /\ t \in Task /\ mem' = [mem EXCEPT ![wk[w].file] = t]
  BY SameTask DEF IInv, TypeInv
<1>2. /\ wk' = [wk EXCEPT ![w].pc = "exit"]
      /\ run' \in RunSet /\ (run'.failure <=> run.failure \/ b)
  BY <1>1, AbortEffect
<1>3. WorkerEffect(w, t, "exit")
  BY <1>1, <1>2 DEF WorkerEffect, Env, RunSet, PCs
<1>4. WorkerMay(w, t, "exit")
  BY <1>2 DEF WorkerMay, InApply
<1> QED
  BY <1>3, <1>4, Kept

(* A worker that goes on to its next call and saves nothing keeps IInv. *)
LEMMA GotoKeeps ==
    ASSUME IInv, op.stage = "run", NEW w \in Workers, wk[w].file \in Files,
           NEW pc \in PCs, Goto(w, pc), UNCHANGED <<mem, disk, run, branch, op>>,
           work' \in [Files -> Bytes], env' \in Env,
           wk[w].pc # "record", pc \notin {"record", "begin", "commit"},
           pc \in {"input", "repair", "think", "verify", "write", "check", "journal"} =>
               Attempted(mem[wk[w].file]),
           pc = "restore" => mem[wk[w].file].status = "running",
           pc \in InApply => wk[w].pc \in InApply
    PROVE  IInv' /\ Known(mem) \subseteq Known(mem')
<1> DEFINE t == mem[wk[w].file]
<1>1. t \in Task /\ mem' = [mem EXCEPT ![wk[w].file] = t]
  BY SameTask
<1>2. run' = run /\ run \in RunSet
  BY DEF IInv, TypeInv, TypeOK, RunSet
<1>3. WorkerEffect(w, t, pc)
  BY <1>1, <1>2 DEF WorkerEffect, Env, RunSet, Goto
<1>4. pc \in InApply => t.att.output # None /\ ~ run'.failure
  BY <1>2 DEF IInv, TypeInv, FilesHeld, WriterAlone
<1>5. WorkerMay(w, t, pc)
  BY <1>2, <1>4 DEF WorkerMay, InApply
<1> QED
  BY <1>3, <1>5, Kept

(* What a worker between two calls knows about its task. *)
LEMMA Holding ==
    ASSUME IInv, NEW w \in Workers, op.stage = "run", wk[w].pc \notin {"idle", "exit"}
    PROVE  /\ wk[w].file \in Files /\ mem[wk[w].file] \in Task
           /\ mem[wk[w].file].att \in Attempt
           /\ wk[w].pc \in {"input", "repair", "think", "verify", "write", "check", "journal"} =>
                  ~ Validated(mem[wk[w].file])
           /\ wk[w].pc = "begin" => ~ Validated(mem[wk[w].file])
           /\ wk[w].pc \in InApply => /\ ~ run.failure
                                      /\ mem[wk[w].file].att.output # None
           /\ wk[w].pc \in InApply \ {"record"} => AllKnown(mem) /\ AllKnown(disk)
<1>1. wk[w].file \in Files
  BY DEF IInv, TypeInv, FilesHeld
<1>2. mem[wk[w].file] \in Task /\ mem[wk[w].file].att \in Attempt
  BY <1>1 DEF IInv, TypeInv, TypeOK, Task
<1>3. /\ wk[w].pc \in {"input", "repair", "think", "verify", "write", "check", "journal"} =>
             ~ Validated(mem[wk[w].file])
      /\ wk[w].pc = "begin" => ~ Validated(mem[wk[w].file])
  BY DEF IInv, AttemptsTracked, Validated, Attempted
<1>4. wk[w].pc \in InApply => /\ ~ run.failure
                              /\ mem[wk[w].file].att.output # None
  BY DEF IInv, TypeInv, FilesHeld, WriterAlone
<1>5. ASSUME wk[w].pc \in InApply \ {"record"}
      PROVE  AllKnown(mem) /\ AllKnown(disk)
  <2>1. \A v \in Workers : wk[v].pc # "record"
    BY <1>5 DEF IInv, WriterAlone, InApply
  <2> QED
    BY <1>4, <1>5, <2>1 DEF IInv, WriterAlone, InApply
<1> QED
  BY <1>1, <1>2, <1>3, <1>4, <1>5

(* Starting or resuming an attempt keeps IInv. *)
LEMMA BeginKeeps ==
    ASSUME IInv, NEW w \in Workers, Begin(w)
    PROVE  IInv' /\ Known(mem) \subseteq Known(mem')
<1> DEFINE t == mem[wk[w].file]
<1>1. /\ op.stage = "run" /\ wk[w].pc = "begin" /\ UNCHANGED <<branch, work, op>>
      /\ run.ref \in Nat /\ work \in [Files -> Bytes] /\ env \in Env
  BY DEF Begin, At, IInv, TypeInv, TypeOK, Env
<1>2. wk[w].file \in Files /\ t \in Task /\ ~ Validated(t)
  BY <1>1, Holding
<1>3. ASSUME NEW a \in {Resumed(t), Fresh(t)}, WriterFree,
             SaveOr(w, [t EXCEPT !.att = a, !.status = "running", !.resume = FALSE], "input")
      PROVE  IInv' /\ Known(mem) \subseteq Known(mem')
  <2> DEFINE u == [t EXCEPT !.att = a, !.status = "running", !.resume = FALSE]
  <2>1. a \in Attempt /\ a.outcome = ""
    BY <1>1, <1>2, AttemptTypes
  <2>2. /\ u \in Task /\ u.discard = t.discard /\ u.commits = t.commits
        /\ u.att.outcome = "" /\ u.status = "running"
    BY <1>2, <2>1 DEF Task, Statuses
  <2>3. SaveOr(w, u, "input")
    BY <1>3
  <2> HIDE DEF u
  <2>4. Attempted(u)
    BY <2>2 DEF Attempted
  <2> QED
    BY <1>1, <1>2, <1>3, <2>2, <2>3, <2>4, SaveKeeps DEF PCs, InApply
<1>4. CASE Fault("before") /\ Abort(w, FALSE) /\ UNCHANGED <<mem, disk>>
  BY <1>1, <1>2, <1>4, FaultEffect, AbortKeeps
<1> QED
  BY <1>3, <1>4 DEF Begin

(* Giving an attempt its final status outside of the commit keeps IInv. *)
LEMMA FinishKeeps ==
    ASSUME IInv, op.stage = "run", NEW w \in Workers, wk[w].pc \notin {"idle", "exit", "record"},
           NEW t \in Task, NEW s \in {"done", "skipped", "failed", "needs_human"},
           t.discard = mem[wk[w].file].discard, t.commits = mem[wk[w].file].commits,
           Finish(w, t, s), UNCHANGED <<branch, op>>, work' \in [Files -> Bytes],
           WriterFree \/ wk[w].pc \in InApply
    PROVE  IInv' /\ Known(mem) \subseteq Known(mem')
<1> DEFINE u == Finished(t, s)
<1>1. /\ u \in Task /\ u.discard = t.discard /\ u.commits = t.commits
      /\ u.att.outcome = s /\ u.status # "running"
  BY FinishedTask
<1>2. Looped(u) \in {"begin", "idle"} /\ SaveOr(w, u, Looped(u))
  BY DEF Finish, Looped
<1> HIDE DEF u
<1>3. wk[w].file \in Files /\ (Validated(mem[wk[w].file]) => AllKnown(mem))
  <2>1. wk[w].pc \in PCs
    BY DEF IInv, TypeInv, TypeOK
  <2> QED
    BY <2>1, Holding DEF PCs, InApply
<1> DEFINE pc == Looped(u)
           m == mem[wk[w].file]
<1>4. pc \in {"begin", "idle"} /\ SaveOr(w, u, pc)
  BY <1>2
<1>5. u.discard = m.discard /\ m.commits \subseteq u.commits
  BY <1>1
<1> HIDE DEF pc
<1>6. pc \in PCs /\ pc # "record" /\ pc # "commit" /\ pc \notin InApply
      /\ pc \notin {"input", "repair", "think", "verify", "write", "check", "journal"}
  BY <1>4 DEF PCs, InApply
<1>7. (Validated(m) => AllKnown(mem)) /\ (pc = "begin" => u.status # "running")
  BY <1>1, <1>3
<1> QED
  BY <1>1, <1>3, <1>4, <1>5, <1>6, <1>7, SaveKeeps

(* Reading the source from the snapshot keeps IInv. *)
LEMMA ReadInputKeeps ==
    ASSUME IInv, NEW w \in Workers, ReadInput(w)
    PROVE  IInv' /\ Known(mem) \subseteq Known(mem')
<1> DEFINE f == wk[w].file
           t == mem[f]
           seen == TreeAt(run.ref)[f]
           a == [t.att EXCEPT !.input = seen]
           u == [t EXCEPT !.att = a]
           v == [u EXCEPT !.input = seen]
<1>1. /\ op.stage = "run" /\ wk[w].pc = "input" /\ UNCHANGED <<branch, work, op>>
      /\ work \in [Files -> Bytes] /\ env \in Env
  BY DEF ReadInput, At, IInv, TypeInv, TypeOK, Env
<1>2. f \in Files /\ t \in Task /\ t.att \in Attempt /\ ~ Validated(t)
  BY <1>1, Holding
<1>3. Attempted(t)
  BY <1>1 DEF IInv, AttemptsTracked
<1>4. CASE WriterFree /\ run.cancelled /\ Finish(w, t, "needs_human")
  BY <1>1, <1>2, <1>4, FinishKeeps
<1>5. CASE Fault("before") /\ Abort(w, FALSE) /\ UNCHANGED <<mem, disk>>
  BY <1>1, <1>2, <1>5, FaultEffect, AbortKeeps
<1>6. seen \in Digest
  BY <1>1, <1>2, SnapshotBytes
<1>7. a \in Attempt /\ a.outcome = t.att.outcome
  BY <1>2, <1>6 DEF Attempt
<1> HIDE DEF a, seen
<1>8. /\ u \in Task /\ u.discard = t.discard /\ u.commits = t.commits /\ u.att = a
      /\ u.status = t.status
  BY <1>2, <1>7 DEF Task
<1> HIDE DEF u
<1>9. /\ v \in Task /\ v.discard = t.discard /\ v.commits = t.commits /\ v.att = a
      /\ v.status = t.status
  BY <1>6, <1>8 DEF Task
<1> HIDE DEF v
<1>12. Attempted(v)
  BY <1>3, <1>7, <1>9 DEF Attempted
<1>10. CASE WriterFree /\ Finish(w, u, "needs_human")
  BY <1>1, <1>2, <1>8, <1>10, FinishKeeps
<1>11. CASE WriterFree /\ SaveOr(w, v, "repair")
  BY <1>1, <1>2, <1>9, <1>11, <1>12, SaveKeeps DEF PCs, InApply
<1> QED
  BY <1>4, <1>5, <1>10, <1>11 DEF ReadInput, u, v, a, seen

(* Opening the repair sidecar keeps IInv. *)
LEMMA OpenRepairKeeps ==
    ASSUME IInv, NEW w \in Workers, OpenRepair(w)
    PROVE  IInv' /\ Known(mem) \subseteq Known(mem')
<1> DEFINE t == mem[wk[w].file]
           a == [t.att EXCEPT !.repair = TRUE]
           u == [t EXCEPT !.att = a]
<1>1. /\ op.stage = "run" /\ wk[w].pc = "repair" /\ UNCHANGED <<branch, work, op>>
      /\ work \in [Files -> Bytes] /\ env \in Env /\ WriterFree
  BY DEF OpenRepair, At, IInv, TypeInv, TypeOK, Env
<1>2. wk[w].file \in Files /\ t \in Task /\ t.att \in Attempt /\ ~ Validated(t)
  BY <1>1, Holding
<1>3. Attempted(t)
  BY <1>1 DEF IInv, AttemptsTracked
<1>4. a \in Attempt /\ a.outcome = t.att.outcome
  BY <1>2 DEF Attempt
<1> HIDE DEF a
<1>5. /\ u \in Task /\ u.discard = t.discard /\ u.commits = t.commits /\ u.att = a
      /\ u.status = t.status
  BY <1>2, <1>4 DEF Task
<1> HIDE DEF u
<1>9. Attempted(u)
  BY <1>3, <1>4, <1>5 DEF Attempted
<1>6. CASE SaveOr(w, u, "think")
  BY <1>1, <1>2, <1>5, <1>6, <1>9, SaveKeeps DEF PCs, InApply
<1>7. CASE Goto(w, "think") /\ UNCHANGED <<mem, disk, run, env>>
  BY <1>1, <1>2, <1>3, <1>7, GotoKeeps DEF PCs, InApply
<1>8. CASE Fault("before") /\ Abort(w, TRUE) /\ UNCHANGED <<mem, disk>>
  BY <1>1, <1>2, <1>8, FaultEffect, AbortKeeps
<1> QED
  BY <1>6, <1>7, <1>8 DEF OpenRepair, u, a

(* Journaling the digest of a candidate keeps IInv. *)
LEMMA ValidateKeeps ==
    ASSUME IInv, NEW w \in Workers, Validate(w)
    PROVE  IInv' /\ Known(mem) \subseteq Known(mem')
<1> DEFINE f == wk[w].file
           t == mem[f]
<1>1. /\ op.stage = "run" /\ wk[w].pc = "think" /\ UNCHANGED <<branch, work, op, wk>>
      /\ work \in [Files -> Bytes] /\ env \in Env /\ WriterFree
  BY DEF Validate, At, IInv, TypeInv, TypeOK, Env
<1>2. wk[w].file \in Files /\ t \in Task /\ t.att \in Attempt /\ ~ Validated(t)
  BY <1>1, Holding
<1>3. Attempted(t)
  BY <1>1 DEF IInv, AttemptsTracked
<1>4. PICK c \in Contents, r \in SaveResults :
          /\ Fault(r) /\ Save([mem EXCEPT ![f].att.output = c], r)
          /\ run' = [run EXCEPT !.failure = run.failure \/ r # "ok"]
  BY DEF Validate
<1> DEFINE a == [t.att EXCEPT !.output = c]
           u == [t EXCEPT !.att = a]
<1>5. a \in Attempt /\ a.outcome = t.att.outcome
  BY <1>2 DEF Attempt, Digest, Bytes
<1>6. /\ u \in Task /\ u.discard = t.discard /\ u.commits = t.commits /\ u.att = a
      /\ u.status = t.status
  BY <1>2, <1>5 DEF Task
<1>7. mem' = [mem EXCEPT ![f] = u] /\ disk' \in {disk, mem'}
  BY <1>2, <1>4 DEF Save, IInv, TypeInv, TypeOK
<1> HIDE DEF a, u
<1>8. run' \in RunSet /\ (run.failure => run'.failure)
  <2>1. run \in RunSet
    BY DEF IInv, TypeInv, TypeOK, RunSet
  <2>2. (run.failure \/ r # "ok") \in BOOLEAN
    OBVIOUS
  <2> QED
    BY <1>4, <2>1, <2>2 DEF RunSet
<1>9. wk' = [wk EXCEPT ![w].pc = "think"]
  BY <1>1 DEF IInv, TypeInv, TypeOK
<1>10. env' \in Env
  BY <1>1, <1>4, FaultEffect
<1>11. WorkerEffect(w, u, "think")
  BY <1>1, <1>2, <1>6, <1>7, <1>8, <1>9, <1>10 DEF WorkerEffect, RunSet, Env, PCs
<1>12. Attempted(u)
  BY <1>3, <1>5, <1>6 DEF Attempted
<1>13. WorkerMay(w, u, "think")
  BY <1>1, <1>2, <1>12 DEF WorkerMay, InApply
<1> QED
  BY <1>11, <1>13, Kept

(* An attempt that fails, is held or stops the run keeps IInv. *)
LEMMA DeclineKeeps ==
    ASSUME IInv, NEW w \in Workers, Decline(w)
    PROVE  IInv' /\ Known(mem) \subseteq Known(mem')
<1> DEFINE f == wk[w].file
           t == mem[f]
           u == Finished(t, "needs_human")
<1>1. /\ op.stage = "run" /\ wk[w].pc = "think" /\ UNCHANGED <<branch, work, op>>
      /\ work \in [Files -> Bytes] /\ env \in Env /\ WriterFree
  BY DEF Decline, At, IInv, TypeInv, TypeOK, Env
<1>2. f \in Files /\ t \in Task /\ ~ Validated(t)
  BY <1>1, Holding
<1>3. CASE Finish(w, t, "needs_human") \/ Finish(w, t, "failed")
  BY <1>1, <1>2, <1>3, FinishKeeps
<1>4. ASSUME NEW r \in SaveResults, Fault(r), Save([mem EXCEPT ![f] = u], r),
             Abort(w, r # "ok")
      PROVE  IInv' /\ Known(mem) \subseteq Known(mem')
  <2>1. /\ u \in Task /\ u.discard = t.discard /\ u.commits = t.commits
    BY <1>2, FinishedTask
  <2>2. (r # "ok") \in BOOLEAN
    OBVIOUS
  <2>3. TypeOK
    BY DEF IInv, TypeInv
  <2>4. /\ wk' = [wk EXCEPT ![w].pc = "exit"] /\ run' \in RunSet
        /\ (run'.failure <=> run.failure \/ r # "ok")
    BY <1>4, <2>2, <2>3, AbortEffect
  <2> HIDE DEF u
  <2>5. mem' = [mem EXCEPT ![f] = u] /\ disk' \in {disk, mem'}
    BY <1>4 DEF Save
  <2>6. env' \in Env
    BY <1>1, <1>4, FaultEffect
  <2>7. WorkerEffect(w, u, "exit")
    BY <1>1, <1>2, <2>1, <2>4, <2>5, <2>6 DEF WorkerEffect, RunSet, Env, PCs
  <2>8. WorkerMay(w, u, "exit")
    BY <1>1, <1>2 DEF WorkerMay, InApply
  <2> QED
    BY <2>7, <2>8, Kept
<1> QED
  BY <1>3, <1>4 DEF Decline

(* A reviewed answer without change keeps IInv. *)
LEMMA SkipKeeps ==
    ASSUME IInv, NEW w \in Workers, Skip(w)
    PROVE  IInv' /\ Known(mem) \subseteq Known(mem')
<1> DEFINE f == wk[w].file
           t == mem[f]
           a == [t.att EXCEPT !.output = t.att.input]
           u == [t EXCEPT !.att = a]
<1>1. /\ op.stage = "run" /\ wk[w].pc = "think" /\ UNCHANGED <<branch, work, op>>
      /\ work \in [Files -> Bytes] /\ env \in Env /\ WriterFree
  BY DEF Skip, At, IInv, TypeInv, TypeOK, Env
<1>2. f \in Files /\ t \in Task /\ t.att \in Attempt
  BY <1>1, Holding
<1>3. a \in Attempt
  BY <1>2 DEF Attempt
<1> HIDE DEF a
<1>4. u \in Task /\ u.discard = t.discard /\ u.commits = t.commits
  BY <1>2, <1>3 DEF Task
<1> HIDE DEF u
<1>5. CASE Finish(w, u, "skipped")
  BY <1>1, <1>4, <1>5, FinishKeeps
<1>6. CASE Fault("before") /\ Abort(w, TRUE) /\ UNCHANGED <<mem, disk>>
  BY <1>1, <1>2, <1>6, FaultEffect, AbortKeeps
<1> QED
  BY <1>5, <1>6 DEF Skip, u, a

(* Entering the writer with a candidate keeps IInv. *)
LEMMA AdoptKeeps ==
    ASSUME IInv, NEW w \in Workers, Adopt(w)
    PROVE  IInv' /\ Known(mem) \subseteq Known(mem')
<1> DEFINE f == wk[w].file
           t == mem[f]
<1>1. /\ op.stage = "run" /\ wk[w].pc = "think" /\ UNCHANGED <<branch, work, op>>
      /\ work \in [Files -> Bytes] /\ env \in Env /\ WriterFree
      /\ ~ run.failure /\ t.att.output # None /\ run.accepted \in Nat
  BY DEF Adopt, MayAdopt, At, IInv, TypeInv, TypeOK, Env
<1>2. f \in Files /\ t \in Task /\ t.att \in Attempt /\ ~ Validated(t)
  BY <1>1, Holding
<1>3. Attempted(t)
  BY <1>1 DEF IInv, AttemptsTracked
<1>4. ASSUME NEW p \in BOOLEAN,
             SaveOr(w, [t EXCEPT !.att.commitBase = run.accepted, !.att.partial = p], "verify")
      PROVE  IInv' /\ Known(mem) \subseteq Known(mem')
  <2> DEFINE a == [t.att EXCEPT !.commitBase = run.accepted, !.partial = p]
             u == [t EXCEPT !.att = a]
  <2>1. a \in Attempt /\ a.outcome = t.att.outcome /\ a.output = t.att.output
    BY <1>1, <1>2 DEF Attempt, CommitId
  <2>2. u = [t EXCEPT !.att.commitBase = run.accepted, !.att.partial = p]
    BY <1>2 DEF Task, Attempt
  <2> HIDE DEF a
  <2>3. /\ u \in Task /\ u.discard = t.discard /\ u.commits = t.commits /\ u.att = a
        /\ u.status = t.status
    BY <1>2, <2>1 DEF Task
  <2> HIDE DEF u
  <2>4. SaveOr(w, u, "verify")
    BY <1>4, <2>2
  <2>5. Attempted(u) /\ u.att.output # None
    BY <1>1, <1>3, <2>1, <2>3 DEF Attempted
  <2> QED
    BY <1>1, <1>2, <2>3, <2>4, <2>5, SaveKeeps DEF PCs, InApply
<1>5. CASE Fault("before") /\ Abort(w, TRUE) /\ UNCHANGED <<mem, disk>>
  BY <1>1, <1>2, <1>5, FaultEffect, AbortKeeps
<1> QED
  BY <1>4, <1>5 DEF Adopt

(* Reading the source once more keeps IInv. *)
LEMMA VerifySourceKeeps ==
    ASSUME IInv, NEW w \in Workers, VerifySource(w)
    PROVE  IInv' /\ Known(mem) \subseteq Known(mem')
<1> DEFINE f == wk[w].file
           t == mem[f]
<1>1. /\ op.stage = "run" /\ wk[w].pc = "verify" /\ UNCHANGED <<branch, work, op>>
      /\ work \in [Files -> Bytes] /\ env \in Env /\ wk[w].pc \in InApply
  BY DEF VerifySource, At, IInv, TypeInv, TypeOK, Env, InApply
<1>2. f \in Files /\ t \in Task /\ Attempted(t)
  BY <1>1, Holding DEF IInv, AttemptsTracked
<1>3. CASE Finish(w, t, "needs_human")
  BY <1>1, <1>2, <1>3, FinishKeeps
<1>4. CASE Goto(w, "write") /\ UNCHANGED <<mem, disk, run, env>>
  BY <1>1, <1>2, <1>4, GotoKeeps DEF PCs, InApply
<1>5. CASE Fault("before") /\ Abort(w, TRUE) /\ UNCHANGED <<mem, disk>>
  BY <1>1, <1>2, <1>5, FaultEffect, AbortKeeps
<1> QED
  BY <1>3, <1>4, <1>5 DEF VerifySource

(* Writing the candidate to the worktree keeps IInv. *)
LEMMA WriteSourceKeeps ==
    ASSUME IInv, NEW w \in Workers, WriteSource(w)
    PROVE  IInv' /\ Known(mem) \subseteq Known(mem')
<1> DEFINE f == wk[w].file
           t == mem[f]
<1>1. /\ op.stage = "run" /\ wk[w].pc = "write" /\ UNCHANGED <<mem, disk, branch, op>>
      /\ work \in [Files -> Bytes] /\ env \in Env /\ wk[w].pc \in InApply
  BY DEF WriteSource, At, IInv, TypeInv, TypeOK, Env, InApply
<1>2. f \in Files /\ t \in Task /\ t.att \in Attempt /\ t.att.output # None
  BY <1>1, Holding
<1>3. Attempted(t)
  BY <1>1 DEF IInv, AttemptsTracked
<1>5. CASE /\ work' = [work EXCEPT ![f] = t.att.output]
           /\ Goto(w, "check") /\ UNCHANGED <<run, env>>
  <2>1. t.att.output \in Bytes
    BY <1>2 DEF Attempt, Digest
  <2>2. work' \in [Files -> Bytes]
    BY <1>1, <1>5, <2>1
  <2> QED
    BY <1>1, <1>2, <1>3, <1>5, <2>2, GotoKeeps DEF PCs, InApply
<1>6. CASE Fault("before") /\ Abort(w, TRUE) /\ UNCHANGED work
  BY <1>1, <1>2, <1>6, FaultEffect, AbortKeeps
<1> QED
  BY <1>5, <1>6 DEF WriteSource

(* What the look before a rollback leaves behind. *)
LEMMA UndoEffect ==
    ASSUME TypeOK, NEW w \in Workers, Undo(w)
    PROVE  /\ run' \in RunSet
           /\ \/ wk' = [wk EXCEPT ![w].pc = "undo"] /\ run' = run
              \/ wk' = [wk EXCEPT ![w].pc = "exit"] /\ run'.failure
<1>1. run \in RunSet
  BY DEF TypeOK, RunSet
<1>2. CASE Goto(w, "undo") /\ UNCHANGED run
  BY <1>1, <1>2 DEF Goto
<1>3. CASE Abort(w, TRUE)
  BY <1>3, AbortEffect
<1> QED
  BY <1>2, <1>3 DEF Undo

(* Restoring the file of a failed adoption keeps IInv. *)
LEMMA RollBackKeeps ==
    ASSUME IInv, NEW w \in Workers, RollBack(w)
    PROVE  IInv' /\ Known(mem) \subseteq Known(mem')
<1> DEFINE f == wk[w].file
           t == mem[f]
<1>1. /\ op.stage = "run" /\ wk[w].pc \in {"restore", "undo"} /\ UNCHANGED <<branch, op>>
      /\ work \in [Files -> Bytes] /\ env \in Env /\ wk[w].pc \in InApply
      /\ HeadTree \in [Files -> Bytes]
  BY Branch DEF RollBack, At, IInv, TypeInv, TypeOK, Env, InApply
<1>2. f \in Files /\ t \in Task
  BY <1>1, Holding
<1>3. work' = [work EXCEPT ![f] = HeadTree[f]] \/ UNCHANGED work
  BY DEF RollBack
<1>4. work' \in [Files -> Bytes]
  <2>1. HeadTree[f] \in Bytes
    BY <1>1, <1>2
  <2> QED
    BY <1>1, <1>3, <2>1
<1>5. CASE Finish(w, t, "failed")
  BY <1>1, <1>2, <1>4, <1>5, FinishKeeps
<1>6. CASE UNCHANGED <<mem, disk>> /\ (UNCHANGED env \/ Fault("before")) /\ Abort(w, TRUE)
  BY <1>1, <1>2, <1>4, <1>6, FaultEffect, AbortKeeps
<1> QED
  BY <1>5, <1>6 DEF RollBack

(* The cleanup after a failed adoption keeps IInv. *)
LEMMA CleanUpKeeps ==
    ASSUME IInv, NEW w \in Workers, op.stage = "run", CleanUp(w), UNCHANGED <<branch, op>>,
           wk[w].pc \in {"check", "commit"}
    PROVE  IInv' /\ Known(mem) \subseteq Known(mem')
<1> DEFINE f == wk[w].file
           t == mem[f]
<1>1. /\ wk[w].pc \in InApply /\ env \in Env /\ work' \in [Files -> Bytes]
      /\ UNCHANGED <<mem, disk, work>>
  BY DEF CleanUp, IInv, TypeInv, TypeOK, Env, InApply
<1>2. f \in Files /\ t \in Task
  BY <1>1, Holding
<1>3. t.status = "running"
  BY DEF IInv, AttemptsTracked, Attempted, Validated
<1>4. CASE Goto(w, "restore") /\ UNCHANGED <<run, env>>
  BY <1>1, <1>2, <1>3, <1>4, GotoKeeps DEF PCs, InApply
<1>5. CASE Abort(w, TRUE) /\ UNCHANGED env
  BY <1>1, <1>2, <1>5, AbortKeeps
<1>6. CASE Fault("before") /\ Abort(w, TRUE)
  BY <1>1, <1>2, <1>6, FaultEffect, AbortKeeps
<1> QED
  BY <1>4, <1>5, <1>6 DEF CleanUp

(* The scope check of the worktree keeps IInv. *)
LEMMA CheckAdoptionKeeps ==
    ASSUME IInv, NEW w \in Workers, CheckAdoption(w)
    PROVE  IInv' /\ Known(mem) \subseteq Known(mem')
<1> DEFINE f == wk[w].file
           t == mem[f]
<1>1. /\ op.stage = "run" /\ wk[w].pc = "check" /\ UNCHANGED <<branch, op>>
      /\ work \in [Files -> Bytes] /\ env \in Env /\ wk[w].pc \in InApply
  BY DEF CheckAdoption, At, IInv, TypeInv, TypeOK, Env, InApply
<1>2. f \in Files /\ Attempted(t)
  BY <1>1, Holding DEF IInv, AttemptsTracked
<1>3. CASE Goto(w, "journal") /\ UNCHANGED <<mem, disk, run, env, work>>
  BY <1>1, <1>2, <1>3, GotoKeeps DEF PCs, InApply
<1>4. CASE CleanUp(w)
  BY <1>1, <1>4, CleanUpKeeps
<1>5. CASE Fault("before") /\ Undo(w) /\ UNCHANGED <<mem, disk, work>>
  <2>1. CASE Goto(w, "undo") /\ UNCHANGED run
    BY <1>1, <1>2, <1>5, <2>1, FaultEffect, GotoKeeps DEF PCs, InApply
  <2>2. CASE Abort(w, TRUE)
    BY <1>1, <1>2, <1>5, <2>2, FaultEffect, AbortKeeps
  <2> QED
    BY <1>5, <2>1, <2>2 DEF Undo
<1> QED
  BY <1>3, <1>4, <1>5 DEF CheckAdoption

(* The validated outcome is on disk before the worker is let to the commit. *)
LEMMA JournalValidatedKeeps ==
    ASSUME IInv, NEW w \in Workers, JournalValidated(w)
    PROVE  IInv' /\ Known(mem) \subseteq Known(mem')
<1> DEFINE f == wk[w].file
           t == mem[f]
           a == [t.att EXCEPT !.outcome = "validated"]
           u == [t EXCEPT !.att = a]
<1>1. /\ op.stage = "run" /\ wk[w].pc = "journal" /\ UNCHANGED <<branch, op>>
      /\ work \in [Files -> Bytes] /\ env \in Env /\ wk[w].pc \in InApply /\ TypeOK
  BY DEF JournalValidated, At, IInv, TypeInv, TypeOK, Env, InApply
<1>2. /\ f \in Files /\ t \in Task /\ t.att \in Attempt /\ ~ Validated(t)
      /\ t.att.output # None /\ ~ run.failure
  BY <1>1, Holding
<1>3. Attempted(t)
  BY <1>1 DEF IInv, AttemptsTracked
<1>4. a \in Attempt /\ a.outcome = "validated" /\ a.output = t.att.output
  BY <1>2 DEF Attempt
<1>5. [mem EXCEPT ![f].att.outcome = "validated"] = [mem EXCEPT ![f] = u]
  BY <1>2, <1>1 DEF Task, TypeOK
<1> HIDE DEF a
<1>6. /\ u \in Task /\ u.discard = t.discard /\ u.commits = t.commits /\ u.att = a
      /\ u.status = t.status
  BY <1>2, <1>4 DEF Task
<1> HIDE DEF u
<1>7. Validated(u) /\ u.att.output # None
  BY <1>2, <1>3, <1>4, <1>6 DEF Validated, Attempted
<1>8. PICK r \in SaveResults :
          /\ Fault(r) /\ Save([mem EXCEPT ![f] = u], r)
          /\ UNCHANGED work
          /\ IF r = "ok" THEN Goto(w, "commit") /\ UNCHANGED run ELSE Undo(w)
  BY <1>5 DEF JournalValidated
<1>9. /\ mem' = [mem EXCEPT ![f] = u] /\ disk' \in {disk, mem'} /\ env' \in Env
      /\ (r = "ok" => disk' = mem') /\ work' \in [Files -> Bytes]
  BY <1>1, <1>2, <1>8, FaultEffect DEF Save
<1>10. CASE r = "ok"
  <2>1. run \in RunSet /\ run' = run
    BY <1>1, <1>8, <1>10 DEF TypeOK, RunSet
  <2>2. WorkerEffect(w, u, "commit")
    BY <1>1, <1>2, <1>6, <1>8, <1>9, <1>10, <2>1 DEF WorkerEffect, Goto, RunSet, Env, PCs
  <2>3. WorkerMay(w, u, "commit")
    BY <1>1, <1>2, <1>7, <1>9, <1>10, <2>1 DEF WorkerMay, InApply
  <2> QED
    BY <2>2, <2>3, Kept
<1>11. CASE r # "ok"
  <2>1. PICK pc \in {"undo", "exit"} :
            /\ wk' = [wk EXCEPT ![w].pc = pc] /\ run' \in RunSet
            /\ pc = "undo" => run' = run
            /\ pc = "exit" => run'.failure
    BY <1>1, <1>8, <1>11, UndoEffect
  <2>2. WorkerEffect(w, u, pc)
    BY <1>1, <1>2, <1>6, <1>9, <2>1 DEF WorkerEffect, RunSet, Env, PCs
  <2>3. WorkerMay(w, u, pc)
    BY <1>1, <1>2, <1>7, <2>1 DEF WorkerMay, InApply
  <2> QED
    BY <2>2, <2>3, Kept
<1> QED
  BY <1>10, <1>11

(* A commit of one file's bytes extends the branch by one well-formed entry. *)
LEMMA CommitEffect ==
    ASSUME TypeOK, NEW kind \in {"attempt", "discard"}, NEW f \in Files, NEW num \in Nat,
           CommitFile(kind, f, num)
    PROVE  /\ branch' \in Seq(Commit) /\ HEAD \in Nat /\ HEAD' = HEAD + 1
           /\ branch'[HEAD'].kind = kind /\ branch'[HEAD'].file = f
           /\ branch'[HEAD'].num = num
           /\ HEAD' > 0 /\ HEAD' - 1 = HEAD
           /\ 0..HEAD \subseteq 0..HEAD'
           /\ \A n \in 1..HEAD' : n \in 1..HEAD \/ n = HEAD'
<1> DEFINE c == [kind |-> kind, file |-> f, num |-> num,
                 tree |-> [HeadTree EXCEPT ![f] = work[f]]]
<1>1. branch \in Seq(Commit) /\ work \in [Files -> Bytes]
  BY DEF TypeOK
<1>2. HEAD \in Nat /\ [HeadTree EXCEPT ![f] = work[f]] \in [Files -> Bytes]
  BY <1>1, Branch
<1>3. c \in Commit /\ c.kind = kind /\ c.file = f /\ c.num = num
  BY <1>2 DEF Commit
<1>4. branch' = Append(branch, c)
  BY DEF CommitFile
<1> HIDE DEF c
<1>5. branch' \in Seq(Commit) /\ Len(branch') = Len(branch) + 1
      /\ branch'[Len(branch) + 1] = c
  BY <1>1, <1>3, <1>4
<1>6. HEAD' = HEAD + 1 /\ branch'[HEAD'] = c
  BY <1>5 DEF HEAD
<1> QED
  BY <1>2, <1>3, <1>5, <1>6

(* A worker's commit: the journaled attempt becomes HEAD, and its owner goes
   on to record it or dies with the writer's failure set. *)
LEMMA CommitKeeps ==
    ASSUME IInv, NEW w \in Workers, op.stage = "run", wk[w].pc = "commit",
           CommitFile("attempt", wk[w].file, mem[wk[w].file].att.num),
           NEW p, wk' = [wk EXCEPT ![w].pc = p],
           \/ p = "record" /\ run' = run
           \/ p = "exit" /\ run' \in RunSet /\ run'.failure,
           env' \in Env, UNCHANGED <<mem, disk, work, op>>
    PROVE  IInv' /\ Known(mem) \subseteq Known(mem')
<1> DEFINE f == wk[w].file
           t == mem[f]
<1>1. /\ f \in Files /\ t \in Task /\ t.att \in Attempt /\ t.att.output # None
      /\ AllKnown(mem) /\ AllKnown(disk) /\ ~ run.failure
  BY Holding DEF InApply
<1>2. mem = disk /\ Validated(t)
  BY DEF IInv, AttemptsTracked
<1>3. TypeOK /\ t.att.num \in Nat
  BY <1>1 DEF IInv, TypeInv, Attempt
<1>4. /\ branch' \in Seq(Commit) /\ HEAD \in Nat /\ HEAD' = HEAD + 1
      /\ branch'[HEAD'].kind = "attempt" /\ branch'[HEAD'].file = f
      /\ branch'[HEAD'].num = t.att.num
  BY <1>1, <1>3, CommitEffect
<1>5. p \in PCs /\ p \in {"record", "exit"} /\ run' \in RunSet
  BY <1>3 DEF PCs, TypeOK, RunSet
<1>6. /\ wk' \in [Workers -> [pc : PCs, file : Files \cup {None}]]
      /\ wk'[w].pc = p /\ \A v \in Workers : wk'[v].file = wk[v].file
      /\ \A v \in Workers \ {w} : wk'[v] = wk[v]
  <2> DEFINE r == [wk[w] EXCEPT !.pc = p]
  <2>1. wk \in [Workers -> [pc : PCs, file : Files \cup {None}]]
    BY <1>3 DEF TypeOK
  <2>2. r \in [pc : PCs, file : Files \cup {None}] /\ r.pc = p /\ r.file = wk[w].file
    BY <1>5, <2>1
  <2>3. wk' = [wk EXCEPT ![w] = r]
    OBVIOUS
  <2> HIDE DEF r
  <2> QED
    BY <2>1, <2>2, <2>3
<1>7. TypeOK'
  BY <1>3, <1>4, <1>5, <1>6 DEF TypeOK, RunSet, Env
<1>8. \A v \in Workers \ {w} : wk[v].pc \notin InApply
  BY DEF IInv, WriterAlone, InApply
<1>9. run'.ref = run.ref /\ run'.jobs = run.jobs
  BY <1>5 DEF RunSet
<1>10. FilesHeld'
  <2>1. run.ref \in 0..HEAD /\ run'.ref \in 0..HEAD'
    BY <1>4, <1>9 DEF IInv, TypeInv, FilesHeld
  <2>2. ASSUME NEW v \in Workers
        PROVE  /\ wk'[v].pc \notin {"idle", "exit"} => wk'[v].file \in Files
               /\ wk'[v].file \notin run'.jobs
               /\ wk'[v].pc \in InApply => mem'[wk'[v].file].att.output # None
               /\ \A u \in Workers \ {v} : wk'[v].file # None => wk'[u].file # wk'[v].file
    BY <1>1, <1>6, <1>9 DEF IInv, TypeInv, FilesHeld
  <2> QED
    BY <2>1, <2>2 DEF FilesHeld
<1>11. OwnsHead(mem, wk[w].file)' /\ OwnsHead(disk, wk[w].file)'
  <2>1. mem' = mem /\ disk' = mem /\ wk'[w].file = f
    BY <1>2, <1>6
  <2>2. HEAD' > 0
    BY <1>4
  <2> QED
    BY <1>1, <1>2, <1>4, <2>1, <2>2 DEF OwnsHead, Validated, HeadNames
<1>12. \A n \in 1..HEAD' : n \in 1..HEAD \/ n = HEAD'
  BY <1>4
<1>13. QueuesAccount'
  <2>1. (Known(disk) \subseteq Known(mem))'
    BY DEF IInv, QueuesAccount, Known
  <2>2. 1..HEAD \subseteq Known(mem)' /\ 1..HEAD \subseteq Known(disk)'
    BY <1>1 DEF AllKnown, Known
  <2>3. InFlight(mem, wk[w].file)' /\ InFlight(disk, wk[w].file)' /\ wk'[w].file \in Files
    BY <1>1, <1>6, <1>11 DEF InFlight
  <2>4. Accounts(mem)'
    BY <1>1, <1>12, <2>2, <2>3 DEF Accounts
  <2>5. Accounts(disk)'
    BY <1>1, <1>12, <2>2, <2>3 DEF Accounts
  <2> QED
    BY <2>1, <2>4, <2>5 DEF QueuesAccount
<1>14. DiscardsSaved' /\ RecoverySettles'
  BY DEF IInv, DiscardsSaved, RecoverySettles, Prepared
<1>15. WriterAlone'
  <2>1. ASSUME NEW v \in Workers, wk'[v].pc \in InApply
        PROVE  ~ run'.failure /\ \A u \in Workers \ {v} : wk'[u].pc \notin InApply
    <3>1. v = w
      BY <1>6, <1>8, <2>1
    <3>2. p = "record" /\ ~ run'.failure
      BY <1>1, <1>5, <1>6, <2>1, <3>1 DEF InApply
    <3> QED
      BY <1>6, <1>8, <3>1, <3>2
  <2>2. run'.failure \/ wk'[w].pc = "record"
    BY <1>6
  <2> QED
    BY <2>1, <2>2 DEF WriterAlone
<1>16. AttemptsTracked'
  <2>1. \A g \in run'.jobs : mem'[g].status # "running"
    BY <1>9 DEF IInv, AttemptsTracked
  <2>2. 1..(HEAD' - 1) \subseteq Known(mem')
    BY <1>1, <1>4 DEF AllKnown
  <2>3. ASSUME NEW v \in Workers \ {w}
        PROVE  /\ wk'[v].pc = "begin" => mem'[wk'[v].file].status # "running"
               /\ wk'[v].pc \in {"input", "repair", "think", "verify", "write", "check", "journal"} =>
                      Attempted(mem'[wk'[v].file])
               /\ wk'[v].pc \notin {"commit", "record", "restore"}
    BY <1>6, <1>8 DEF IInv, AttemptsTracked, InApply
  <2>4. /\ wk'[w].pc \in {"record", "exit"} /\ wk'[w].file = f
        /\ mem' = disk' /\ Validated(mem'[f])
    BY <1>2, <1>5, <1>6
  <2>5. HeadNames("attempt", wk[w].file, mem[wk[w].file].att.num)'
    BY <1>4, <2>4 DEF HeadNames
  <2>6. op'.stage = "run" /\ (1..(HEAD - 1) \subseteq Known(mem))'
    BY <2>2 DEF Known
  <2> QED
    BY <2>1, <2>3, <2>4, <2>5, <2>6 DEF AttemptsTracked
<1> QED
  BY <1>7, <1>10, <1>13, <1>14, <1>15, <1>16 DEF IInv, TypeInv

(* The commit of an adoption, also one whose answer is lost, keeps IInv. *)
LEMMA CommitAdoptionKeeps ==
    ASSUME IInv, NEW w \in Workers, CommitAdoption(w)
    PROVE  IInv' /\ Known(mem) \subseteq Known(mem')
<1> DEFINE f == wk[w].file
           num == mem[f].att.num
<1>1. /\ op.stage = "run" /\ wk[w].pc = "commit" /\ UNCHANGED op
      /\ work \in [Files -> Bytes] /\ env \in Env /\ wk[w].pc \in InApply /\ TypeOK
  BY DEF CommitAdoption, At, IInv, TypeInv, TypeOK, Env, InApply
<1>2. f \in Files
  BY <1>1, Holding
<1>3. CASE /\ CommitFile("attempt", f, num)
           /\ Goto(w, "record") /\ UNCHANGED <<mem, disk, work, run, env>>
  BY <1>1, <1>3, CommitKeeps DEF Goto
<1>4. CASE CleanUp(w) /\ UNCHANGED branch
  BY <1>1, <1>4, CleanUpKeeps
<1>5. CASE /\ UNCHANGED env \/ Fault("after")
           /\ Abort(w, TRUE)
           /\ CommitFile("attempt", f, num) \/ UNCHANGED branch
           /\ UNCHANGED <<mem, disk, work>>
  <2>1. env' \in Env
    BY <1>1, <1>5, FaultEffect
  <2>2. CASE UNCHANGED branch
    BY <1>1, <1>2, <1>5, <2>1, <2>2, AbortKeeps
  <2>3. CASE CommitFile("attempt", f, num)
    <3>1. wk' = [wk EXCEPT ![w].pc = "exit"] /\ run' \in RunSet /\ run'.failure
      BY <1>1, <1>5, AbortEffect
    <3> QED
      BY <1>1, <1>5, <2>1, <2>3, <3>1, CommitKeeps
  <2> QED
    BY <1>5, <2>2, <2>3
<1> QED
  BY <1>3, <1>4, <1>5 DEF CommitAdoption

(* Recording the commit makes the queue know the whole branch. *)
LEMMA RecordCommitKeeps ==
    ASSUME IInv, NEW w \in Workers, RecordCommit(w)
    PROVE  IInv' /\ Known(mem) \subseteq Known(mem')
<1> DEFINE f == wk[w].file
           t == mem[f]
           a == [t.att EXCEPT !.commit = HEAD]
           u == [t EXCEPT !.att = a, !.commits = t.commits \cup {HEAD}]
           s == IF t.att.partial THEN "needs_human" ELSE "done"
           v == Finished(u, s)
<1>1. /\ op.stage = "run" /\ wk[w].pc = "record" /\ UNCHANGED <<branch, work, op>>
      /\ work \in [Files -> Bytes] /\ env \in Env /\ wk[w].pc \in InApply /\ TypeOK
      /\ mem \in [Files -> Task]
  BY DEF RecordCommit, At, IInv, TypeInv, TypeOK, Env, InApply
<1>2. f \in Files /\ t \in Task /\ t.att \in Attempt /\ HEAD \in Nat
  BY <1>1, Holding, Branch DEF TypeOK
<1>3. a \in Attempt
  BY <1>2 DEF Attempt, CommitId
<1>4. t.commits \cup {HEAD} \in SUBSET Nat
  BY <1>2 DEF Task
<1>5. u = [t EXCEPT !.att.commit = HEAD, !.commits = t.commits \cup {HEAD}]
  BY <1>2 DEF Task, Attempt
<1> HIDE DEF a
<1>6. u \in Task /\ u.discard = t.discard /\ u.commits = t.commits \cup {HEAD}
  BY <1>2, <1>3, <1>4 DEF Task
<1>7. s \in {"done", "skipped", "failed", "needs_human"}
  OBVIOUS
<1>8. RecordCommit(w) =>
          \/ \E r \in SaveResults :
                 /\ Fault(r)
                 /\ Save([mem EXCEPT ![f] = v], r)
                 /\ Goto(w, IF r = "ok" THEN "idle" ELSE "exit")
                 /\ run' = [run EXCEPT !.accepted = HEAD,
                                       !.cancelled = run.cancelled \/ r # "ok",
                                       !.failure = run.failure \/ r # "ok"]
          \/ /\ UNCHANGED env \/ Fault("after")
             /\ Abort(w, TRUE) /\ UNCHANGED <<mem, disk>>
  BY <1>1, <1>2, <1>5 DEF RecordCommit, TypeOK, Task
<1> HIDE DEF u, s
<1>9. v \in Task /\ v.discard = t.discard /\ v.commits = t.commits \cup {HEAD}
  BY <1>6, <1>7, FinishedTask
<1> HIDE DEF v
<1>10. CASE /\ UNCHANGED env \/ Fault("after")
            /\ Abort(w, TRUE) /\ UNCHANGED <<mem, disk>>
  <2>1. env' \in Env
    BY <1>1, <1>10, FaultEffect
  <2> QED
    BY <1>1, <1>2, <1>10, <2>1, AbortKeeps
<1>11. ASSUME NEW r \in SaveResults, Fault(r), Save([mem EXCEPT ![f] = v], r),
              Goto(w, IF r = "ok" THEN "idle" ELSE "exit"),
              run' = [run EXCEPT !.accepted = HEAD,
                                 !.cancelled = run.cancelled \/ r # "ok",
                                 !.failure = run.failure \/ r # "ok"]
       PROVE  IInv' /\ Known(mem) \subseteq Known(mem')
  <2> DEFINE p == IF r = "ok" THEN "idle" ELSE "exit"
  <2>1. /\ mem' = [mem EXCEPT ![f] = v] /\ disk' \in {disk, mem'} /\ env' \in Env
        /\ (r = "ok" => disk' = mem')
    BY <1>1, <1>11, FaultEffect DEF Save
  <2>2. (run.cancelled \/ r # "ok") \in BOOLEAN /\ (run.failure \/ r # "ok") \in BOOLEAN
    OBVIOUS
  <2>3. run' \in RunSet /\ (run.failure \/ r # "ok" => run'.failure)
    BY <1>1, <1>2, <1>11, <2>2 DEF RunSet, TypeOK
  <2>4. p \in {"idle", "exit"}
    OBVIOUS
  <2>5. wk' = [wk EXCEPT ![w].pc = p]
    BY <1>11 DEF Goto
  <2> HIDE DEF p
  <2>6. WorkerEffect(w, v, p)
    BY <1>1, <1>2, <1>9, <2>1, <2>3, <2>4, <2>5 DEF WorkerEffect, RunSet, Env, PCs
  <2>7. AllKnown(mem')
    <3>1. 1..(HEAD - 1) \subseteq Known(mem)
      BY <1>1 DEF IInv, AttemptsTracked
    <3>2. Known(mem) \subseteq Known(mem') /\ HEAD \in Known(mem')
      BY <1>1, <1>2, <1>9, <2>1, KnownAfter
    <3>3. \A n \in 1..HEAD : n \in 1..(HEAD - 1) \/ n = HEAD
      BY <1>2
    <3> QED
      BY <3>1, <3>2, <3>3 DEF AllKnown
  <2>8. WorkerMay(w, v, p)
    BY <1>1, <2>1, <2>3, <2>4, <2>7 DEF WorkerMay, InApply
  <2> QED
    BY <2>6, <2>8, Kept
<1> QED
  BY <1>8, <1>10, <1>11

(* Taking a job keeps IInv: the file is held by one worker only. *)
LEMMA TakeJobKeeps ==
    ASSUME IInv, NEW w \in Workers, TakeJob(w)
    PROVE  IInv' /\ Known(mem) \subseteq Known(mem')
<1>1. /\ op.stage = "run" /\ UNCHANGED <<mem, disk, branch, work, op, env>>
      /\ TypeOK /\ wk[w].pc = "idle"
  BY DEF TakeJob, At, IInv, TypeInv
<1>2. PICK f \in run.jobs :
          /\ run' = [run EXCEPT !.jobs = run.jobs \ {f}]
          /\ wk' = [wk EXCEPT ![w] = [pc |-> "begin", file |-> f]]
  BY <1>1 DEF TakeJob, TypeOK
<1>3. f \in Files /\ run.jobs \subseteq Files /\ f # None
  BY <1>1, <1>2 DEF TypeOK
<1>4. /\ run'.ref = run.ref /\ run'.jobs = run.jobs \ {f} /\ run'.failure = run.failure
      /\ run' \in [ref : Nat, accepted : Nat, failure : BOOLEAN,
                   cancelled : BOOLEAN, jobs : SUBSET Files]
  BY <1>1, <1>2 DEF TypeOK
<1>5. /\ wk' \in [Workers -> [pc : PCs, file : Files \cup {None}]]
      /\ wk'[w].pc = "begin" /\ wk'[w].file = f
      /\ \A v \in Workers \ {w} : wk'[v] = wk[v]
  BY <1>1, <1>2, <1>3 DEF TypeOK, PCs
<1>6. TypeOK'
  BY <1>1, <1>4, <1>5 DEF TypeOK
<1>7. FilesHeld'
  <2>1. run'.ref \in 0..HEAD'
    BY <1>1, <1>4 DEF IInv, TypeInv, FilesHeld, HEAD
  <2>2. \A v \in Workers \ {w} : wk[v].file # f
    BY <1>2 DEF IInv, TypeInv, FilesHeld
  <2>3. ASSUME NEW v \in Workers
        PROVE  /\ wk'[v].pc \notin {"idle", "exit"} => wk'[v].file \in Files
               /\ wk'[v].file \notin run'.jobs
               /\ wk'[v].pc \in InApply => mem'[wk'[v].file].att.output # None
               /\ \A u \in Workers \ {v} : wk'[v].file # None => wk'[u].file # wk'[v].file
    BY <1>1, <1>3, <1>4, <1>5, <2>2 DEF IInv, TypeInv, FilesHeld, InApply
  <2> QED
    BY <1>1, <2>1, <2>3 DEF FilesHeld
<1>8. QueuesAccount' /\ Known(mem) \subseteq Known(mem')
  BY <1>1 DEF IInv, QueuesAccount, Accounts, Known, InFlight, OwnsHead, OwnsDiscard,
              HeadNames, HEAD
<1>9. DiscardsSaved' /\ RecoverySettles'
  BY <1>1 DEF IInv, DiscardsSaved, RecoverySettles, Prepared
<1>10. WriterAlone'
  BY <1>1, <1>4, <1>5 DEF IInv, WriterAlone, InApply, AllKnown, Known, HEAD
<1>11. AttemptsTracked'
  <2>1. mem[f].status # "running"
    BY <1>1, <1>2 DEF IInv, AttemptsTracked
  <2> QED
    BY <1>1, <1>4, <1>5, <2>1 DEF IInv, AttemptsTracked, HeadNames, HEAD, Known
<1> QED
  BY <1>6, <1>7, <1>8, <1>9, <1>10, <1>11 DEF IInv, TypeInv

(* Leaving a file keeps IInv. *)
LEMMA LeaveFileKeeps ==
    ASSUME IInv, NEW w \in Workers, LeaveFile(w)
    PROVE  IInv' /\ Known(mem) \subseteq Known(mem')
<1>1. /\ op.stage = "run" /\ wk[w].pc = "begin" /\ Goto(w, "idle")
      /\ UNCHANGED <<mem, disk, branch, work, op, run, env>>
      /\ work \in [Files -> Bytes] /\ env \in Env
  BY DEF LeaveFile, At, IInv, TypeInv, TypeOK, Env
<1> QED
  BY <1>1, Holding, GotoKeeps DEF PCs, InApply

(* Every step of a worker keeps IInv. *)
LEMMA WorkerKeeps ==
    ASSUME IInv, NEW w \in Workers, WorkerStep(w)
    PROVE  IInv' /\ Known(mem) \subseteq Known(mem')
<1>1. CASE Handle(w)
  BY <1>1, TakeJobKeeps, LeaveFileKeeps, BeginKeeps, ReadInputKeeps, OpenRepairKeeps,
     VerifySourceKeeps, WriteSourceKeeps, CheckAdoptionKeeps, JournalValidatedKeeps,
     CommitAdoptionKeeps, RecordCommitKeeps, RollBackKeeps DEF Handle
<1>2. CASE Validate(w)
  BY <1>2, ValidateKeeps
<1>3. CASE Answer(w)
  BY <1>3, DeclineKeeps, SkipKeeps, AdoptKeeps DEF Answer
<1> QED
  BY <1>1, <1>2, <1>3 DEF WorkerStep

-----------------------------------------------------------------------------
(* The operations of the service. *)

(* Outside the files being processed the workers are at rest, and what the
   invariant says of them holds of itself. *)
LEMMA Resting ==
    ASSUME TypeOK', run'.ref \in (0..HEAD)', wk' = [w \in Workers |-> AtRest],
           op'.stage # "run",
           op'.stage \in {"drestore", "dcommit", "dverify"} => op'.cur \in Files
    PROVE  TypeInv' /\ WriterAlone' /\ AttemptsTracked'
<1>1. \A w \in Workers : wk'[w].pc = "idle" /\ wk'[w].file = None
  BY DEF AtRest
<1>2. None \notin run'.jobs
  BY DEF TypeOK
<1>3. FilesHeld'
  BY <1>1, <1>2 DEF FilesHeld, InApply
<1> QED
  BY <1>3 DEF TypeInv, WriterAlone, AttemptsTracked

(* What beginning an operation does to its record. *)
LEMMA BeginsEffect ==
    ASSUME NEW name \in OpNames, NEW stage \in Stages, NEW S \in SUBSET Files,
           Begins(name, stage, S)
    PROVE  /\ op' \in [name : OpNames, stage : Stages, files : SUBSET Files,
                       cur : Files \cup {None}]
           /\ op'.stage = stage
  BY DEF Begins, NoOp

(* What ending an operation leaves behind. *)
LEMMA EndOpEffect ==
    ASSUME EndOp, branch' \in Seq(Commit)
    PROVE  /\ wk' = [w \in Workers |-> AtRest] /\ op'.stage = ""
           /\ op' \in [name : OpNames, stage : Stages, files : SUBSET Files,
                       cur : Files \cup {None}]
           /\ run' \in [ref : Nat, accepted : Nat, failure : BOOLEAN,
                        cancelled : BOOLEAN, jobs : SUBSET Files]
           /\ wk' \in [Workers -> [pc : PCs, file : Files \cup {None}]]
           /\ run'.ref \in (0..HEAD)'
<1>1. HEAD' \in Nat
  BY DEF HEAD
<1>2. run' = NoRun /\ op' = NoOp /\ wk' = [w \in Workers |-> AtRest]
  BY DEF EndOp
<1>3. run'.ref \in (0..HEAD)'
  BY <1>1, <1>2 DEF NoRun
<1>4. wk' \in [Workers -> [pc : PCs, file : Files \cup {None}]]
  BY <1>2 DEF AtRest, PCs
<1>5. op'.stage = "" /\ op' \in [name : OpNames, stage : Stages, files : SUBSET Files,
                                 cur : Files \cup {None}]
  BY <1>2 DEF NoOp, OpNames, Stages
<1>6. run' \in [ref : Nat, accepted : Nat, failure : BOOLEAN,
                cancelled : BOOLEAN, jobs : SUBSET Files]
  BY <1>2 DEF NoRun
<1> QED
  BY <1>2, <1>3, <1>4, <1>5, <1>6

(* Between operations and in their preparation, wk is at rest. *)
LEMMA Waiting == ASSUME IInv, op.stage # "run" PROVE wk = [w \in Workers |-> AtRest]
  BY DEF IInv, TypeInv, FilesHeld

(* Saving, loading or keeping the queues as they are loses no account. *)
LEMMA SameQueues ==
    ASSUME IInv, UNCHANGED branch,
           (mem' = mem /\ disk' \in {disk, mem}) \/ (mem' = disk /\ disk' = disk)
    PROVE  /\ QueuesAccount' /\ Known(disk) \subseteq Known(disk')
           /\ (Prepared(mem') # {} \/ Prepared(disk') # {} => mem' = disk')
<1>1. Known(disk) \subseteq Known(mem) /\ Accounts(mem) /\ Accounts(disk)
  BY DEF IInv, QueuesAccount
<1>2. HEAD' = HEAD /\ branch' = branch
  BY DEF HEAD
<1>3. Known(disk') \subseteq Known(mem') /\ Known(disk) \subseteq Known(disk')
  BY <1>1
<1>4. Accounts(mem)'
  <2>1. CASE mem' = mem
    BY <1>1, <1>2, <2>1 DEF Accounts, InFlight, OwnsHead, OwnsDiscard, HeadNames, Known, HEAD
  <2>2. CASE mem' = disk
    BY <1>1, <1>2, <2>2 DEF Accounts, InFlight, OwnsHead, OwnsDiscard, HeadNames, Known, HEAD
  <2> QED
    BY <2>1, <2>2
<1>5. Accounts(disk)'
  <2>1. CASE disk' = mem
    BY <1>1, <1>2, <2>1 DEF Accounts, InFlight, OwnsHead, OwnsDiscard, HeadNames, Known, HEAD
  <2>2. CASE disk' = disk
    BY <1>1, <1>2, <2>2 DEF Accounts, InFlight, OwnsHead, OwnsDiscard, HeadNames, Known, HEAD
  <2> QED
    BY <2>1, <2>2
<1>6. (Prepared(mem') # {} \/ Prepared(disk') # {} => mem' = disk')
  BY DEF IInv, DiscardsSaved, Prepared
<1> QED
  BY <1>3, <1>4, <1>5, <1>6 DEF QueuesAccount, Known

(* A step that leaves both queues and the branch alone, and what its next
   stage has to know. *)
LEMMA QuietKeeps ==
    ASSUME IInv, TypeOK', UNCHANGED <<mem, disk, branch>>,
           wk' = [w \in Workers |-> AtRest],
           run'.ref \in 0..HEAD, op'.stage # "run",
           op'.stage \in {"drestore", "dcommit", "dverify"} => op'.cur \in Prepared(mem),
           op'.stage \in {"drestore", "dcommit"} =>
               AllKnown(mem) /\ mem[op'.cur].discard.base = HEAD,
           op'.stage \in {"tree", "reset", "mark", "retry", "launch"} => Prepared(mem) = {},
           op'.stage \in {"retry", "launch"} =>
               mem = disk /\ AllKnown(mem) /\ Running(mem) = {}
    PROVE  IInv' /\ Known(disk) \subseteq Known(disk')
<1>1. /\ QueuesAccount' /\ Known(disk) \subseteq Known(disk')
      /\ (Prepared(mem') # {} \/ Prepared(disk') # {} => mem' = disk')
  BY SameQueues
<1>2. TypeInv' /\ WriterAlone' /\ AttemptsTracked'
  <2>1. run'.ref \in (0..HEAD)'
    BY DEF HEAD
  <2>2. op'.stage \in {"drestore", "dcommit", "dverify"} => op'.cur \in Files
    BY DEF Prepared
  <2> QED
    BY <2>1, <2>2, Resting
<1>3. DiscardsSaved'
  BY <1>1 DEF DiscardsSaved, Prepared, AllKnown, Known, HEAD
<1>4. RecoverySettles'
  BY DEF RecoverySettles, AllKnown, Known, HEAD, Running
<1> QED
  BY <1>1, <1>2, <1>3, <1>4 DEF IInv

(* Every call of an operation may end it; the queues stay. *)
LEMMA EndKeeps ==
    ASSUME IInv, EndOp, UNCHANGED branch, work' \in [Files -> Bytes], env' \in Env,
           (mem' = mem /\ disk' \in {disk, mem}) \/ (mem' = disk /\ disk' = disk)
    PROVE  IInv' /\ Known(disk) \subseteq Known(disk')
<1>1. TypeOK
  BY DEF IInv, TypeInv
<1>2. branch' \in Seq(Commit)
  BY <1>1 DEF TypeOK
<1>3. TypeOK'
  BY <1>1, <1>2, EndOpEffect DEF TypeOK, Env
<1>4. TypeInv' /\ WriterAlone' /\ AttemptsTracked'
  BY <1>2, <1>3, EndOpEffect, Resting
<1>5. /\ QueuesAccount' /\ Known(disk) \subseteq Known(disk')
      /\ (Prepared(mem') # {} \/ Prepared(disk') # {} => mem' = disk')
  BY SameQueues
<1>6. DiscardsSaved' /\ RecoverySettles'
  BY <1>2, <1>5, EndOpEffect DEF DiscardsSaved, RecoverySettles
<1> QED
  BY <1>4, <1>5, <1>6 DEF IInv

(* A failing call outside of a run that saves nothing keeps IInv. *)
LEMMA FailsKeeps ==
    ASSUME IInv, Fails, UNCHANGED <<mem, disk, branch>>, work' \in [Files -> Bytes]
    PROVE  IInv' /\ Known(disk) \subseteq Known(disk')
<1>1. env' \in Env
  BY FaultEffect DEF Fails, IInv, TypeInv, TypeOK, Env
<1> QED
  BY <1>1, EndKeeps DEF Fails

(* Starting a run keeps IInv and the recorded commits. *)
LEMMA StartKeeps == ASSUME IInv, Start PROVE IInv' /\ Known(disk) \subseteq Known(disk')
<1>1. /\ TypeOK /\ op = NoOp /\ UNCHANGED <<branch, work, run, wk>>
      /\ run.ref \in 0..HEAD
  BY DEF Start, Idle, IInv, TypeInv, FilesHeld
<1>2. PICK S \in SUBSET Files, r \in SaveResults :
          /\ Fault(r) /\ Save(mem, r)
          /\ op' = op \/ Begins("start", "discards", S)
  BY DEF Start, Runnable, Running
<1>3. mem' = mem /\ disk' \in {disk, mem} /\ env' \in Env
  BY <1>1, <1>2, FaultEffect DEF Save, TypeOK, Env
<1>4. /\ op' \in [name : OpNames, stage : Stages, files : SUBSET Files,
                  cur : Files \cup {None}]
      /\ op'.stage \in {"", "discards"}
  <2>1. "start" \in OpNames /\ "discards" \in Stages /\ op.stage = ""
    BY <1>1 DEF OpNames, Stages, NoOp
  <2> QED
    BY <1>1, <1>2, <2>1, BeginsEffect DEF TypeOK
<1>5. wk' = [w \in Workers |-> AtRest]
  BY <1>1, Waiting DEF NoOp
<1>6. TypeOK'
  BY <1>1, <1>3, <1>4 DEF TypeOK, Env
<1>7. TypeInv' /\ WriterAlone' /\ AttemptsTracked'
  <2>1. run'.ref \in (0..HEAD)'
    BY <1>1 DEF HEAD
  <2> QED
    BY <1>4, <1>5, <1>6, <2>1, Resting
<1>8. /\ QueuesAccount' /\ Known(disk) \subseteq Known(disk')
      /\ (Prepared(mem') # {} \/ Prepared(disk') # {} => mem' = disk')
  BY <1>1, <1>3, SameQueues
<1>9. DiscardsSaved' /\ RecoverySettles'
  BY <1>4, <1>8 DEF DiscardsSaved, RecoverySettles
<1> QED
  BY <1>7, <1>8, <1>9 DEF IInv

(* Stopping a run keeps IInv and the recorded commits. *)
LEMMA StopKeeps == ASSUME IInv, Stop PROVE IInv' /\ Known(disk) \subseteq Known(disk')
<1>1. /\ UNCHANGED <<mem, disk, branch, work, op, wk, env>> /\ TypeOK
      /\ run' = [run EXCEPT !.cancelled = TRUE]
  BY DEF Stop, IInv, TypeInv
<1>2. /\ run' \in [ref : Nat, accepted : Nat, failure : BOOLEAN,
                   cancelled : BOOLEAN, jobs : SUBSET Files]
      /\ run'.ref = run.ref /\ run'.jobs = run.jobs /\ run'.failure = run.failure
  BY <1>1 DEF TypeOK
<1>3. TypeOK' /\ FilesHeld'
  BY <1>1, <1>2 DEF TypeOK, IInv, TypeInv, FilesHeld, HEAD
<1>4. QueuesAccount' /\ Known(disk) \subseteq Known(disk')
  BY <1>1 DEF IInv, QueuesAccount, Accounts, Known, InFlight, OwnsHead, OwnsDiscard,
              HeadNames, HEAD
<1>5. DiscardsSaved' /\ RecoverySettles'
  BY <1>1 DEF IInv, DiscardsSaved, RecoverySettles, Prepared, Running, AllKnown, Known, HEAD
<1>6. WriterAlone' /\ AttemptsTracked'
  BY <1>1, <1>2 DEF IInv, WriterAlone, AttemptsTracked, AllKnown, Known, HEAD, HeadNames
<1> QED
  BY <1>3, <1>4, <1>5, <1>6 DEF IInv, TypeInv

(* What going on to the next stage does to the operation. *)
LEMMA GoOnEffect ==
    ASSUME TypeOK, NEW stage \in Stages, GoOn(stage)
    PROVE  /\ op' \in [name : OpNames, stage : Stages, files : SUBSET Files,
                       cur : Files \cup {None}]
           /\ op'.stage = stage /\ op'.files = op.files /\ op'.cur = op.cur
  BY DEF GoOn, TypeOK

(* Asking for a retry keeps IInv and the recorded commits. *)
LEMMA RetryKeeps == ASSUME IInv, Retry PROVE IInv' /\ Known(disk) \subseteq Known(disk')
<1>1. /\ TypeOK /\ op = NoOp /\ UNCHANGED <<mem, disk, branch, work, run, wk, env>>
      /\ run.ref \in 0..HEAD /\ op.stage # "run"
  BY DEF Retry, Idle, NoOp, IInv, TypeInv, FilesHeld
<1>2. PICK S \in SUBSET Files : Begins("retry", "discards", S)
  BY DEF Retry
<1>3. "retry" \in OpNames /\ "discards" \in Stages
  BY DEF OpNames, Stages
<1>4. /\ op' \in [name : OpNames, stage : Stages, files : SUBSET Files,
                  cur : Files \cup {None}]
      /\ op'.stage = "discards"
  BY <1>2, <1>3, BeginsEffect
<1>5. TypeOK'
  BY <1>1, <1>4 DEF TypeOK
<1> QED
  BY <1>1, <1>4, <1>5, Waiting, QuietKeeps

(* Reloading the queue from disk keeps IInv and the recorded commits. *)
LEMMA ReloadKeeps == ASSUME IInv, Reload PROVE IInv' /\ Known(disk) \subseteq Known(disk')
<1>1. /\ TypeOK /\ op = NoOp /\ mem' = disk /\ UNCHANGED <<disk, branch, work, op, run, wk, env>>
      /\ run.ref \in 0..HEAD /\ op'.stage = ""
  BY DEF Reload, Idle, NoOp, IInv, TypeInv, FilesHeld
<1>2. wk' = [w \in Workers |-> AtRest]
  BY <1>1, Waiting
<1>3. TypeOK'
  BY <1>1 DEF TypeOK
<1>4. TypeInv' /\ WriterAlone' /\ AttemptsTracked'
  <2>1. run'.ref \in (0..HEAD)'
    BY <1>1 DEF HEAD
  <2> QED
    BY <1>1, <1>2, <1>3, <2>1, Resting
<1>5. /\ QueuesAccount' /\ Known(disk) \subseteq Known(disk')
      /\ (Prepared(mem') # {} \/ Prepared(disk') # {} => mem' = disk')
  BY <1>1, SameQueues
<1>6. DiscardsSaved' /\ RecoverySettles'
  BY <1>1, <1>5 DEF DiscardsSaved, RecoverySettles
<1> QED
  BY <1>4, <1>5, <1>6 DEF IInv

(* Zero is in every range of commits. *)
LEMMA ZeroInRange == ASSUME NEW n \in Nat PROVE 0 \in 0..n
  OBVIOUS

(* Crash and Open: memory is what was on disk, the run is gone. *)
LEMMA LoadedKeeps ==
    ASSUME IInv, TypeOK', mem' = disk, UNCHANGED <<disk, branch>>,
           wk' = [w \in Workers |-> AtRest], run'.ref = 0 \/ run' = run,
           op'.stage \in {"", "discards"}
    PROVE  IInv' /\ Known(disk) \subseteq Known(disk')
<1>1. run'.ref \in (0..HEAD)'
  <2>1. run.ref \in 0..HEAD /\ HEAD' = HEAD
    BY DEF IInv, TypeInv, FilesHeld, HEAD
  <2>5. HEAD \in Nat
    BY Branch DEF IInv, TypeInv, TypeOK
  <2>2. run'.ref = 0 \/ run'.ref = run.ref
    OBVIOUS
  <2>3. 0 \in 0..HEAD
    BY <2>5, ZeroInRange, Zenon
  <2>4. run'.ref \in 0..HEAD
    BY <2>1, <2>2, <2>3, Zenon
  <2> QED
    BY <2>1, <2>4
<1>2. TypeInv' /\ WriterAlone' /\ AttemptsTracked'
  BY <1>1, Resting
<1>3. /\ QueuesAccount' /\ Known(disk) \subseteq Known(disk')
      /\ (Prepared(mem') # {} \/ Prepared(disk') # {} => mem' = disk')
  BY SameQueues
<1>4. DiscardsSaved' /\ RecoverySettles'
  BY <1>3 DEF DiscardsSaved, RecoverySettles
<1> QED
  BY <1>2, <1>3, <1>4 DEF IInv

(* The death of the process keeps IInv and the recorded commits. *)
LEMMA CrashKeeps == ASSUME IInv, Crash PROVE IInv' /\ Known(disk) \subseteq Known(disk')
<1>1. /\ TypeOK /\ mem' = disk /\ UNCHANGED <<disk, branch, work>>
      /\ op' = Down /\ run' = NoRun /\ wk' = [w \in Workers |-> AtRest]
      /\ env' = [env EXCEPT !.crashes = env.crashes + 1]
  BY DEF Crash, IInv, TypeInv
<1>2. env' \in Env
  <2>1. env \in Env
    BY <1>1 DEF TypeOK, Env
  <2>2. env.crashes + 1 \in Nat
    BY <2>1 DEF Env
  <2> QED
    BY <1>1, <2>1, <2>2 DEF Env
<1>3. /\ op' \in [name : OpNames, stage : Stages, files : SUBSET Files,
                  cur : Files \cup {None}]
      /\ op'.stage = ""
  BY <1>1 DEF Down, NoOp, OpNames, Stages
<1>4. /\ run' \in [ref : Nat, accepted : Nat, failure : BOOLEAN,
                   cancelled : BOOLEAN, jobs : SUBSET Files]
      /\ run'.ref = 0
  BY <1>1 DEF NoRun
<1>5. wk' \in [Workers -> [pc : PCs, file : Files \cup {None}]]
  BY <1>1 DEF AtRest, PCs
<1>6. TypeOK'
  BY <1>1, <1>2, <1>3, <1>4, <1>5 DEF TypeOK, Env
<1> QED
  BY <1>1, <1>3, <1>4, <1>6, LoadedKeeps

(* Opening the workspace keeps IInv and the recorded commits. *)
LEMMA OpenKeeps == ASSUME IInv, Open PROVE IInv' /\ Known(disk) \subseteq Known(disk')
<1>1. /\ TypeOK /\ op.stage = "" /\ mem' = disk
      /\ UNCHANGED <<disk, branch, work, run, wk, env>>
      /\ op' = NoOp \/ Begins("open", "discards", {})
  BY DEF Open, Down, NoOp, IInv, TypeInv
<1>2. wk' = [w \in Workers |-> AtRest]
  BY <1>1, Waiting
<1>3. /\ op' \in [name : OpNames, stage : Stages, files : SUBSET Files,
                  cur : Files \cup {None}]
      /\ op'.stage \in {"", "discards"}
  <2>1. CASE op' = NoOp
    BY <2>1 DEF NoOp, OpNames, Stages
  <2>2. CASE Begins("open", "discards", {})
    <3>1. "open" \in OpNames /\ "discards" \in Stages /\ {} \in SUBSET Files
      BY DEF OpNames, Stages
    <3> QED
      BY <2>2, <3>1, BeginsEffect
  <2> QED
    BY <1>1, <2>1, <2>2
<1>4. TypeOK'
  BY <1>1, <1>3 DEF TypeOK
<1> QED
  BY <1>1, <1>2, <1>3, <1>4, LoadedKeeps

(* The journal entry of a discard is written when both queues know all of the
   branch. *)
LEMMA PrepareDiscardKeeps ==
    ASSUME IInv, NEW f \in Files, PrepareDiscard(f)
    PROVE  IInv' /\ Known(disk) \subseteq Known(disk')
<1> DEFINE t == mem[f]
           d == [num |-> t.discard.num + 1, state |-> "prepared", base |-> HEAD,
                 input |-> work[f]]
           u == [t EXCEPT !.discard = d]
<1>1. /\ TypeOK /\ op = NoOp /\ UNCHANGED <<branch, work, run, wk, env>>
      /\ HistoryExact(mem, {}) /\ Begins("discard", "discards", {})
      /\ run.ref \in 0..HEAD
  BY DEF PrepareDiscard, Idle, IInv, TypeInv, FilesHeld
<1>2. mem' = [mem EXCEPT ![f] = u] /\ disk' = mem'
  BY DEF PrepareDiscard
<1>3. t \in Task /\ t.discard \in Discard /\ HEAD \in Nat /\ work[f] \in Digest
  BY <1>1, Branch DEF TypeOK, Task, Digest
<1>4. d \in Discard
  <2>1. t.discard.num + 1 \in Nat
    BY <1>3 DEF Discard
  <2> QED
    BY <1>3, <2>1 DEF Discard
<1> HIDE DEF d
<1>5. u \in Task /\ u.commits = t.commits
  BY <1>3, <1>4 DEF Task
<1> HIDE DEF u
<1>6. mem' \in [Files -> Task] /\ Known(mem) \subseteq Known(mem')
  BY <1>1, <1>2, <1>5, KnownAfter DEF TypeOK
<1>7. /\ op' \in [name : OpNames, stage : Stages, files : SUBSET Files,
                  cur : Files \cup {None}]
      /\ op'.stage = "discards"
  <2>1. "discard" \in OpNames /\ "discards" \in Stages /\ {} \in SUBSET Files
    BY DEF OpNames, Stages
  <2> QED
    BY <1>1, <2>1, BeginsEffect
<1>8. TypeOK'
  BY <1>1, <1>2, <1>6, <1>7 DEF TypeOK
<1>9. TypeInv' /\ WriterAlone' /\ AttemptsTracked'
  <2>1. run'.ref \in (0..HEAD)' /\ wk' = [w \in Workers |-> AtRest]
    BY <1>1, Waiting DEF HEAD, NoOp
  <2> QED
    BY <1>7, <1>8, <2>1, Resting
<1>10. QueuesAccount' /\ Known(disk) \subseteq Known(disk')
  <2>1. \A n \in 1..HEAD : n \in Known(mem')
    BY <1>1, <1>6 DEF HistoryExact
  <2>2. Accounts(mem)' /\ Accounts(disk)'
    BY <1>1, <1>2, <2>1 DEF Accounts, Known, HEAD
  <2>3. Known(disk) \subseteq Known(disk')
    BY <1>2, <1>6 DEF IInv, QueuesAccount
  <2> QED
    BY <1>2, <2>2, <2>3 DEF QueuesAccount, Known
<1>11. DiscardsSaved' /\ RecoverySettles'
  BY <1>2, <1>7 DEF DiscardsSaved, RecoverySettles
<1> QED
  BY <1>9, <1>10, <1>11 DEF IInv

(* Looking at the file of a prepared discard keeps IInv. *)
LEMMA CheckDiscardKeeps ==
    ASSUME IInv, NEW f \in Files, CheckDiscard(f)
    PROVE  IInv' /\ Known(disk) \subseteq Known(disk')
<1>1. /\ TypeOK /\ op.stage = "discards" /\ UNCHANGED <<mem, disk, branch, work>>
      /\ f \in Prepared(mem) /\ HEAD = mem[f].discard.base
      /\ run.ref \in 0..HEAD /\ work \in [Files -> Bytes] /\ env \in Env
  BY DEF CheckDiscard, Discarding, IInv, TypeInv, TypeOK, FilesHeld, Env
<1>2. CASE /\ MayRestore(f)
           /\ op' = [op EXCEPT !.stage = "drestore", !.cur = f]
           /\ UNCHANGED <<run, wk, env>>
  <2>1. AllKnown(mem)
    BY <1>2 DEF MayRestore, HistoryExact, AllKnown
  <2>3. /\ op' \in [name : OpNames, stage : Stages, files : SUBSET Files,
                    cur : Files \cup {None}]
        /\ op'.stage = "drestore" /\ op'.cur = f
    <3>1. "drestore" \in Stages
      BY DEF Stages
    <3> QED
      BY <1>1, <1>2, <3>1 DEF TypeOK
  <2>4. TypeOK'
    BY <1>1, <1>2, <2>3 DEF TypeOK
  <2>5. wk' = [w \in Workers |-> AtRest]
    BY <1>1, <1>2, Waiting
  <2> QED
    BY <1>1, <1>2, <2>1, <2>3, <2>4, <2>5, QuietKeeps
<1>3. CASE EndOp /\ UNCHANGED env
  BY <1>1, <1>3, EndKeeps
<1>4. CASE Fails
  BY <1>1, <1>4, FailsKeeps
<1> QED
  BY <1>2, <1>3, <1>4 DEF CheckDiscard

(* Restoring the bytes of the session base keeps IInv. *)
LEMMA RestoreSourceKeeps ==
    ASSUME IInv, RestoreSource
    PROVE  IInv' /\ Known(disk) \subseteq Known(disk')
<1>1. /\ TypeOK /\ op.stage = "drestore" /\ UNCHANGED <<mem, disk, branch>>
      /\ run.ref \in 0..HEAD /\ work \in [Files -> Bytes] /\ env \in Env
      /\ op.cur \in Files
  BY DEF RestoreSource, IInv, TypeInv, TypeOK, FilesHeld, Env
<1>2. CASE /\ work' = [work EXCEPT ![op.cur] = Baseline]
           /\ GoOn("dcommit") /\ UNCHANGED <<run, wk, env>>
  <2>1. op.cur \in Prepared(mem) /\ AllKnown(mem) /\ mem[op.cur].discard.base = HEAD
    BY <1>1 DEF IInv, DiscardsSaved
  <2>2. work' \in [Files -> Bytes]
    <3>1. Baseline \in Bytes
      BY DEF Bytes
    <3> QED
      BY <1>1, <1>2, <3>1
  <2>3. /\ op' \in [name : OpNames, stage : Stages, files : SUBSET Files,
                    cur : Files \cup {None}]
        /\ op'.stage = "dcommit" /\ op'.cur = op.cur
    <3>1. "dcommit" \in Stages
      BY DEF Stages
    <3> QED
      BY <1>1, <1>2, <3>1, GoOnEffect
  <2>4. TypeOK'
    BY <1>1, <1>2, <2>2, <2>3 DEF TypeOK
  <2>5. wk' = [w \in Workers |-> AtRest]
    BY <1>1, <1>2, Waiting
  <2> QED
    BY <1>1, <1>2, <2>1, <2>3, <2>4, <2>5, QuietKeeps
<1>3. CASE Fault("before") /\ EndOp /\ UNCHANGED work
  BY <1>1, <1>3, FaultEffect, EndKeeps
<1> QED
  BY <1>2, <1>3 DEF RestoreSource

(* The restoring commit is HEAD and carries the name of its journal entry,
   whether or not Git reported it. *)
LEMMA DiscardCommitted ==
    ASSUME IInv, op.stage = "dcommit",
           CommitFile("discard", op.cur, mem[op.cur].discard.num),
           UNCHANGED <<mem, disk, work>>, env' \in Env,
           run'.ref \in 0..HEAD,
           run' \in [ref : Nat, accepted : Nat, failure : BOOLEAN,
                     cancelled : BOOLEAN, jobs : SUBSET Files],
           wk' = [w \in Workers |-> AtRest],
           op' \in [name : OpNames, stage : Stages, files : SUBSET Files,
                    cur : Files \cup {None}],
           op'.stage = "" \/ (op'.stage = "dverify" /\ op'.cur = op.cur)
    PROVE  IInv' /\ Known(disk) \subseteq Known(disk')
<1>13. PICK f \in Files : f = op.cur
  BY DEF IInv, TypeInv, FilesHeld
<1>1. /\ TypeOK /\ f \in Prepared(mem) /\ AllKnown(mem)
      /\ mem[f].discard.base = HEAD
  BY <1>13 DEF IInv, TypeInv, DiscardsSaved
<1>2. mem = disk
  BY <1>1 DEF IInv, DiscardsSaved
<1>3. mem[f].discard.num \in Nat /\ mem[f].discard.state = "prepared"
  BY <1>1 DEF TypeOK, Task, Discard, Prepared
<1>4. /\ branch' \in Seq(Commit) /\ HEAD \in Nat /\ HEAD' = HEAD + 1
      /\ branch'[HEAD'].kind = "discard" /\ branch'[HEAD'].file = f
      /\ branch'[HEAD'].num = mem[f].discard.num
      /\ HEAD' > 0 /\ HEAD' - 1 = HEAD /\ 0..HEAD \subseteq 0..HEAD'
      /\ \A n \in 1..HEAD' : n \in 1..HEAD \/ n = HEAD'
  BY <1>1, <1>3, <1>13, CommitEffect
<1>5. wk' \in [Workers -> [pc : PCs, file : Files \cup {None}]]
  BY DEF AtRest, PCs
<1>6. TypeOK'
  BY <1>1, <1>4, <1>5 DEF TypeOK, Env
<1>7. TypeInv' /\ WriterAlone' /\ AttemptsTracked'
  <2>1. run'.ref \in (0..HEAD)'
    BY <1>4
  <2>2. op'.stage # "run" /\ (op'.stage \in {"drestore", "dcommit", "dverify"} => op'.cur \in Files)
    BY <1>13
  <2> QED
    BY <1>6, <2>1, <2>2, Resting
<1>9. mem'[f] = mem[f] /\ disk' = mem' /\ mem' = mem
  BY <1>2
<1>10. Accounts(mem)'
  <2>1. branch'[HEAD'].num = mem'[f].discard.num /\ mem'[f].discard.base = HEAD' - 1
        /\ mem'[f].discard.state = "prepared"
    BY <1>1, <1>3, <1>4, <1>9
  <2>2. \A n \in 1..HEAD : n \in Known(mem')
    BY <1>1 DEF AllKnown
  <2>3. OwnsDiscard(mem, f)'
    BY <1>4, <1>9, <2>1 DEF OwnsDiscard, HeadNames
  <2>4. PICK g \in Files : InFlight(mem, g)'
    BY <1>1, <2>3 DEF InFlight
  <2>5. (\A n \in 1..HEAD : n \in Known(mem) \/ n = HEAD)'
    BY <1>4, <2>2 DEF Known
  <2> QED
    BY <2>4, <2>5 DEF Accounts
<1>11. QueuesAccount' /\ Known(disk) \subseteq Known(disk')
  BY <1>2, <1>10, ZenonT(60)
  DEF QueuesAccount, Accounts, InFlight, OwnsHead, OwnsDiscard, Known
<1>12. DiscardsSaved' /\ RecoverySettles'
  <2>1. Prepared(mem)' = Prepared(mem)
    BY <1>9 DEF Prepared
  <2>2. op'.stage = "dverify" => op'.cur \in Prepared(mem)'
    BY <1>1, <1>13, <2>1
  <2>3. op'.stage \in {"", "dverify"}
    OBVIOUS
  <2> QED
    BY <1>9, <2>2, <2>3 DEF DiscardsSaved, RecoverySettles
<1> QED
  BY <1>7, <1>11, <1>12 DEF IInv

(* The commit of a discard, also one whose answer is lost, keeps IInv. *)
LEMMA CommitDiscardKeeps ==
    ASSUME IInv, CommitDiscard
    PROVE  IInv' /\ Known(disk) \subseteq Known(disk')
<1>1. /\ TypeOK /\ op.stage = "dcommit" /\ UNCHANGED <<mem, disk, work>>
      /\ work \in [Files -> Bytes] /\ env \in Env /\ run.ref \in 0..HEAD
      /\ wk = [w \in Workers |-> AtRest] /\ branch \in Seq(Commit) /\ HEAD \in Nat
  BY Waiting, Branch DEF CommitDiscard, IInv, TypeInv, TypeOK, FilesHeld, Env
<1>2. CASE /\ CommitFile("discard", op.cur, mem[op.cur].discard.num)
           /\ GoOn("dverify") /\ UNCHANGED <<run, wk, env>>
  <2>1. "dverify" \in Stages
    BY DEF Stages
  <2>2. /\ op' \in [name : OpNames, stage : Stages, files : SUBSET Files,
                    cur : Files \cup {None}]
        /\ op'.stage = "dverify" /\ op'.cur = op.cur
    BY <1>1, <1>2, <2>1, GoOnEffect
  <2>3. run' \in [ref : Nat, accepted : Nat, failure : BOOLEAN,
                  cancelled : BOOLEAN, jobs : SUBSET Files]
    BY <1>1, <1>2 DEF TypeOK
  <2>4. run'.ref \in 0..HEAD /\ env' \in Env /\ wk' = [w \in Workers |-> AtRest]
    BY <1>1, <1>2
  <2> QED
    BY <1>1, <1>2, <2>2, <2>3, <2>4, DiscardCommitted
<1>3. CASE Fails /\ UNCHANGED branch
  BY <1>1, <1>3, FailsKeeps
<1>4. CASE Fails /\ CommitFile("discard", op.cur, mem[op.cur].discard.num)
  <2>1. env' \in Env /\ EndOp
    BY <1>1, <1>4, FaultEffect DEF Fails
  <2>2. run' = NoRun /\ op' = NoOp /\ wk' = [w \in Workers |-> AtRest]
    BY <2>1 DEF EndOp
  <2>3. op'.stage = "" /\ op' \in [name : OpNames, stage : Stages, files : SUBSET Files,
                                   cur : Files \cup {None}]
    BY <2>2 DEF NoOp, OpNames, Stages
  <2>4. run'.ref = 0 /\ run' \in [ref : Nat, accepted : Nat, failure : BOOLEAN,
                                  cancelled : BOOLEAN, jobs : SUBSET Files]
    BY <2>2 DEF NoRun
  <2>5. run'.ref \in 0..HEAD
    BY <1>1, <2>4, ZeroInRange
  <2> QED
    BY <1>1, <1>4, <2>1, <2>2, <2>3, <2>4, <2>5, DiscardCommitted
<1> QED
  BY <1>2, <1>3, <1>4 DEF CommitDiscard

(* Going on with a discard that may have been committed keeps IInv. *)
LEMMA FindDiscardKeeps ==
    ASSUME IInv, NEW f \in Files, FindDiscard(f)
    PROVE  IInv' /\ Known(disk) \subseteq Known(disk')
<1>1. /\ TypeOK /\ op.stage = "discards" /\ f \in Prepared(mem)
      /\ UNCHANGED <<mem, disk, branch, work, run, wk, env>> /\ run.ref \in 0..HEAD
      /\ op' = [op EXCEPT !.stage = "dverify", !.cur = f]
  BY DEF FindDiscard, Discarding, IInv, TypeInv, FilesHeld
<1>2. /\ op' \in [name : OpNames, stage : Stages, files : SUBSET Files,
                  cur : Files \cup {None}]
      /\ op'.stage = "dverify" /\ op'.cur = f
  <2>1. "dverify" \in Stages
    BY DEF Stages
  <2> QED
    BY <1>1, <2>1 DEF TypeOK
<1>3. TypeOK'
  BY <1>1, <1>2 DEF TypeOK
<1> QED
  BY <1>1, <1>2, <1>3, Waiting, QuietKeeps

(* The discard is recorded in memory and on disk at once. *)
LEMMA FinishDiscardKeeps ==
    ASSUME IInv, FinishDiscard
    PROVE  IInv' /\ Known(disk) \subseteq Known(disk')
<1> DEFINE f == op.cur
           t == mem[f]
           u == Discarded(t)
<1>1. /\ TypeOK /\ op.stage = "dverify" /\ UNCHANGED <<branch, work>> /\ f \in Files
      /\ work \in [Files -> Bytes] /\ env \in Env /\ run.ref \in 0..HEAD
      /\ wk = [w \in Workers |-> AtRest] /\ branch \in Seq(Commit) /\ HEAD \in Nat
  BY Waiting, Branch DEF FinishDiscard, IInv, TypeInv, TypeOK, FilesHeld, Env
<1>2. CASE /\ IsDiscardCommit(f)
           /\ mem' = [mem EXCEPT ![f] = u] /\ disk' = mem'
           /\ op' = [op EXCEPT !.stage = "discards", !.cur = None]
           /\ UNCHANGED <<run, wk, env>>
  <2>1. t \in Task
    BY <1>1 DEF TypeOK
  <2>2. u \in Task /\ u.commits = t.commits \cup {HEAD}
    BY <1>1, <2>1, DiscardedTask
  <2> HIDE DEF u
  <2>3. mem' \in [Files -> Task] /\ Known(mem) \subseteq Known(mem') /\ HEAD \in Known(mem')
    BY <1>1, <1>2, <2>2, KnownAfter DEF TypeOK
  <2>4. /\ op' \in [name : OpNames, stage : Stages, files : SUBSET Files,
                    cur : Files \cup {None}]
        /\ op'.stage = "discards"
    <3>1. "discards" \in Stages
      BY DEF Stages
    <3> QED
      BY <1>1, <1>2, <3>1 DEF TypeOK
  <2>5. TypeOK'
    BY <1>1, <1>2, <2>3, <2>4 DEF TypeOK
  <2>6. TypeInv' /\ WriterAlone' /\ AttemptsTracked'
    <3>1. run'.ref \in (0..HEAD)' /\ wk' = [w \in Workers |-> AtRest]
      BY <1>1, <1>2 DEF HEAD
    <3> QED
      BY <2>4, <2>5, <3>1, Resting
  <2>7. QueuesAccount' /\ Known(disk) \subseteq Known(disk')
    <3>1. \A n \in 1..HEAD : n \in Known(mem')
      BY <1>2, <2>3 DEF IsDiscardCommit, HistoryExact
    <3>2. Accounts(mem)' /\ Accounts(disk)'
      BY <1>1, <1>2, <3>1 DEF Accounts, Known, HEAD
    <3>3. Known(disk) \subseteq Known(disk')
      BY <1>2, <2>3 DEF IInv, QueuesAccount
    <3> QED
      BY <1>2, <3>2, <3>3 DEF QueuesAccount, Known
  <2>8. DiscardsSaved' /\ RecoverySettles'
    BY <1>2, <2>4 DEF DiscardsSaved, RecoverySettles
  <2> QED
    BY <2>6, <2>7, <2>8 DEF IInv
<1>3. CASE EndOp /\ UNCHANGED <<mem, disk, env>>
  BY <1>1, <1>3, EndKeeps
<1>4. CASE Fails /\ UNCHANGED <<mem, disk>>
  BY <1>1, <1>4, FailsKeeps
<1> QED
  BY <1>2, <1>3, <1>4 DEF FinishDiscard

(* Leaving the recovery of discards keeps IInv. *)
LEMMA DiscardsDoneKeeps ==
    ASSUME IInv, DiscardsDone
    PROVE  IInv' /\ Known(disk) \subseteq Known(disk')
<1>1. /\ TypeOK /\ op.stage = "discards" /\ Prepared(mem) = {}
      /\ UNCHANGED <<mem, disk, branch, work, env>> /\ run.ref \in 0..HEAD
      /\ work \in [Files -> Bytes] /\ env \in Env
  BY DEF DiscardsDone, IInv, TypeInv, TypeOK, FilesHeld, Env
<1>2. CASE GoOn("tree") /\ UNCHANGED <<run, wk>>
  <2>1. /\ op' \in [name : OpNames, stage : Stages, files : SUBSET Files,
                    cur : Files \cup {None}]
        /\ op'.stage = "tree"
    <3>1. "tree" \in Stages
      BY DEF Stages
    <3> QED
      BY <1>1, <1>2, <3>1, GoOnEffect
  <2>2. TypeOK'
    BY <1>1, <1>2, <2>1 DEF TypeOK
  <2> QED
    BY <1>1, <1>2, <2>1, <2>2, Waiting, QuietKeeps
<1>3. CASE EndOp
  BY <1>1, <1>3, EndKeeps
<1> QED
  BY <1>2, <1>3 DEF DiscardsDone

(* Accounting for the worktree keeps IInv. *)
LEMMA RecoverTreeKeeps ==
    ASSUME IInv, RecoverTree
    PROVE  IInv' /\ Known(disk) \subseteq Known(disk')
<1>1. /\ TypeOK /\ op.stage = "tree" /\ UNCHANGED <<mem, disk, branch, work>>
      /\ Prepared(mem) = {} /\ run.ref \in 0..HEAD
      /\ work \in [Files -> Bytes] /\ env \in Env
  BY DEF RecoverTree, IInv, DiscardsSaved, TypeInv, TypeOK, FilesHeld, Env
<1>3. ASSUME NEW stage \in {"reset", "mark"}, GoOn(stage), UNCHANGED <<run, wk, env>>
      PROVE  IInv' /\ Known(disk) \subseteq Known(disk')
  <2>1. /\ op' \in [name : OpNames, stage : Stages, files : SUBSET Files,
                    cur : Files \cup {None}]
        /\ op'.stage = stage
    <3>1. stage \in Stages
      BY DEF Stages
    <3> QED
      BY <1>1, <1>3, <3>1, GoOnEffect
  <2>2. TypeOK'
    BY <1>1, <1>3, <2>1 DEF TypeOK
  <2>3. wk' = [w \in Workers |-> AtRest]
    BY <1>1, <1>3, Waiting
  <2> QED
    BY <1>1, <1>3, <2>1, <2>2, <2>3, QuietKeeps
<1>4. CASE EndOp /\ UNCHANGED env
  BY <1>1, <1>4, EndKeeps
<1>5. CASE Fails
  BY <1>1, <1>5, FailsKeeps
<1> QED
  BY <1>3, <1>4, <1>5 DEF RecoverTree

(* Resetting the worktree keeps IInv. *)
LEMMA ResetTreeKeeps ==
    ASSUME IInv, ResetTree
    PROVE  IInv' /\ Known(disk) \subseteq Known(disk')
<1>1. /\ TypeOK /\ op.stage = "reset" /\ UNCHANGED <<mem, disk, branch>>
      /\ Prepared(mem) = {} /\ run.ref \in 0..HEAD
      /\ work \in [Files -> Bytes] /\ env \in Env
      /\ HeadTree \in [Files -> Bytes]
  BY Branch DEF ResetTree, IInv, DiscardsSaved, TypeInv, TypeOK, FilesHeld, Env
<1>2. work' \in [Files -> Bytes]
  BY <1>1 DEF ResetTree
<1>3. CASE GoOn("mark") /\ UNCHANGED <<run, wk, env>>
  <2>1. /\ op' \in [name : OpNames, stage : Stages, files : SUBSET Files,
                    cur : Files \cup {None}]
        /\ op'.stage = "mark"
    <3>1. "mark" \in Stages
      BY DEF Stages
    <3> QED
      BY <1>1, <1>3, <3>1, GoOnEffect
  <2>2. TypeOK'
    BY <1>1, <1>2, <1>3, <2>1 DEF TypeOK
  <2>3. wk' = [w \in Workers |-> AtRest]
    BY <1>1, <1>3, Waiting
  <2> QED
    BY <1>1, <1>3, <2>1, <2>2, <2>3, QuietKeeps
<1>4. CASE Fails
  BY <1>1, <1>2, <1>4, FailsKeeps
<1> QED
  BY <1>3, <1>4 DEF ResetTree

(* A queue that keeps what both queues knew, and whose tasks in flight are
   known or kept, is safe to save or to keep in memory only. *)
LEMMA NewQueueKeeps ==
    ASSUME IInv, Prepared(mem) = {}, NEW q \in [Files -> Task],
           \A f \in Files : /\ q[f].discard = mem[f].discard
                            /\ mem[f].commits \subseteq q[f].commits
                            /\ q[f] = mem[f] \/ ~ OwnsHead(mem, f) \/ HEAD \in q[f].commits,
           mem' = q, disk' \in {disk, mem'}, UNCHANGED branch, TypeOK',
           wk' = [w \in Workers |-> AtRest], run'.ref \in (0..HEAD)',
           op'.stage \in {"", "launch", "retry"},
           op'.stage \in {"launch", "retry"} =>
               disk' = mem' /\ AllKnown(q) /\ Running(q) = {}
    PROVE  IInv' /\ Known(disk) \subseteq Known(disk')
<1>1. Known(mem) \subseteq Known(q)
  BY DEF Known
<1>2. Known(disk) \subseteq Known(mem) /\ Accounts(mem) /\ Accounts(disk)
  BY DEF IInv, QueuesAccount
<1>3. ASSUME NEW n \in 1..HEAD
      PROVE  n \in Known(q) \/ (n = HEAD /\ \E f \in Files : InFlight(q, f))
  <2>1. CASE n \in Known(mem)
    BY <1>1, <2>1
  <2>2. CASE n = HEAD /\ \E f \in Files : InFlight(mem, f)
    <3>1. PICK f \in Files : InFlight(mem, f)
      BY <2>2
    <3>2. OwnsHead(mem, f)
      BY <3>1 DEF InFlight, OwnsDiscard, Prepared
    <3>3. CASE q[f] = mem[f]
      BY <2>2, <3>2, <3>3 DEF InFlight, OwnsHead
    <3>4. CASE HEAD \in q[f].commits
      BY <2>2, <3>4 DEF Known
    <3> QED
      BY <3>2, <3>3, <3>4
  <2> QED
    BY <1>2, <2>1, <2>2 DEF Accounts
<1>4. Accounts(mem)'
  BY <1>3 DEF Accounts, InFlight, OwnsHead, OwnsDiscard, HeadNames, HEAD
<1>5. Accounts(disk)'
  <2>1. CASE disk' = mem'
    BY <1>4, <2>1 DEF Accounts, InFlight, OwnsHead, OwnsDiscard, HeadNames, HEAD, Known
  <2>2. CASE disk' = disk
    BY <1>2, <2>2, ZenonT(60)
    DEF Accounts, InFlight, OwnsHead, OwnsDiscard, HeadNames, HEAD, Known
  <2> QED
    BY <2>1, <2>2
<1>6. Known(disk') \subseteq Known(mem') /\ Known(disk) \subseteq Known(disk')
  BY <1>1, <1>2
<1>7. QueuesAccount'
  BY <1>4, <1>5, <1>6 DEF QueuesAccount, Known
<1>8. Prepared(mem') = {} /\ Prepared(disk') = {}
  <2>1. Prepared(q) = {}
    BY DEF Prepared
  <2>2. Prepared(disk) = {}
    BY DEF IInv, DiscardsSaved
  <2> QED
    BY <2>1, <2>2
<1>9. DiscardsSaved'
  BY <1>8 DEF DiscardsSaved, Prepared
<1>10. RecoverySettles'
  BY DEF RecoverySettles, AllKnown, Running, Known, HEAD
<1>11. TypeInv' /\ WriterAlone' /\ AttemptsTracked'
  <2>1. op'.stage # "run" /\ op'.stage \notin {"drestore", "dcommit", "dverify"}
    OBVIOUS
  <2> QED
    BY <2>1, Resting
<1> QED
  BY <1>6, <1>7, <1>9, <1>10, <1>11 DEF IInv

(* The queue recover() writes is well typed and forgets no commit. *)
LEMMA MarkedQueue ==
    ASSUME IInv, Prepared(mem) = {}, NEW S \in SUBSET Running(mem)
    PROVE  /\ Mark(S) \in [Files -> Task]
           /\ \A f \in Files :
                  /\ Mark(S)[f].discard = mem[f].discard
                  /\ mem[f].commits \subseteq Mark(S)[f].commits
                  /\ Mark(S)[f] = mem[f] \/ ~ OwnsHead(mem, f) \/ HEAD \in Mark(S)[f].commits
                  /\ f \in S => Mark(S)[f].status # "running"
<1>1. mem \in [Files -> Task] /\ HEAD \in Nat
  BY Branch DEF IInv, TypeInv, TypeOK
<1>2. ASSUME NEW f \in Files
      PROVE  /\ Marked(f) \in Task
             /\ Marked(f).discard = mem[f].discard
             /\ mem[f].commits \subseteq Marked(f).commits
             /\ ~ OwnsHead(mem, f) \/ HEAD \in Marked(f).commits
             /\ Marked(f).status # "running"
  BY <1>1, MarkedTask DEF Marked
<1>3. \A f \in Files : Mark(S)[f] = IF f \in S THEN Marked(f) ELSE mem[f]
  BY DEF Mark
<1>4. Mark(S) \in [Files -> Task]
  BY <1>1, <1>2 DEF Mark
<1> QED
  BY <1>1, <1>2, <1>3, <1>4

(* Marking the interrupted attempts keeps IInv, also when it is refused midway. *)
LEMMA RecoverTasksKeeps ==
    ASSUME IInv, RecoverTasks
    PROVE  IInv' /\ Known(disk) \subseteq Known(disk')
<1>1. /\ TypeOK /\ op.stage = "mark" /\ UNCHANGED <<branch, work>>
      /\ Prepared(mem) = {} /\ run.ref \in 0..HEAD /\ env \in Env
      /\ wk = [w \in Workers |-> AtRest] /\ branch \in Seq(Commit)
      /\ disk \in [Files -> Task]
  BY Waiting DEF RecoverTasks, IInv, DiscardsSaved, TypeInv, TypeOK, FilesHeld, Env
<1>2. ASSUME NEW S \in SUBSET Running(mem), mem' = Mark(S), disk' \in {disk, mem'},
             EndOp, env' \in Env
      PROVE  IInv' /\ Known(disk) \subseteq Known(disk')
  <2> DEFINE q == Mark(S)
  <2>1. /\ q \in [Files -> Task]
        /\ \A f \in Files : /\ q[f].discard = mem[f].discard
                            /\ mem[f].commits \subseteq q[f].commits
                            /\ q[f] = mem[f] \/ ~ OwnsHead(mem, f) \/ HEAD \in q[f].commits
    BY <1>1, MarkedQueue
  <2>2. mem' = q
    BY <1>2
  <2> HIDE DEF q
  <2>3. /\ wk' = [w \in Workers |-> AtRest] /\ op'.stage = ""
        /\ op' \in [name : OpNames, stage : Stages, files : SUBSET Files,
                    cur : Files \cup {None}]
        /\ run' \in [ref : Nat, accepted : Nat, failure : BOOLEAN,
                     cancelled : BOOLEAN, jobs : SUBSET Files]
        /\ wk' \in [Workers -> [pc : PCs, file : Files \cup {None}]]
        /\ run'.ref \in (0..HEAD)'
    BY <1>1, <1>2, EndOpEffect
  <2>4. TypeOK'
    BY <1>1, <1>2, <2>1, <2>2, <2>3 DEF TypeOK, Env
  <2> QED
    BY <1>1, <1>2, <2>1, <2>2, <2>3, <2>4, NewQueueKeeps
<1>3. CASE \E r \in SaveResults :
               /\ Settled(Mark(Running(mem)))
               /\ Fault(r)
               /\ Save(Mark(Running(mem)), r)
               /\ EndOpIf(r # "ok", IF op.name = "start" THEN "launch" ELSE "retry")
  <2> DEFINE q == Mark(Running(mem))
             next == IF op.name = "start" THEN "launch" ELSE "retry"
  <2>1. PICK r \in SaveResults :
            Settled(q) /\ Fault(r) /\ Save(q, r) /\ EndOpIf(r # "ok", next)
    BY <1>3
  <2>2. mem' = q /\ disk' \in {disk, mem'} /\ env' \in Env /\ (r = "ok" => disk' = mem')
    BY <1>1, <2>1, FaultEffect DEF Save
  <2>3. CASE r # "ok"
    BY <1>2, <2>1, <2>2, <2>3 DEF EndOpIf
  <2>4. CASE r = "ok"
    <3>1. GoOn(next) /\ UNCHANGED <<run, wk>> /\ next \in {"launch", "retry"}
      BY <2>1, <2>4 DEF EndOpIf
    <3>2. /\ q \in [Files -> Task]
          /\ \A f \in Files : /\ q[f].discard = mem[f].discard
                              /\ mem[f].commits \subseteq q[f].commits
                              /\ q[f] = mem[f] \/ ~ OwnsHead(mem, f) \/ HEAD \in q[f].commits
                              /\ f \in Running(mem) => q[f].status # "running"
      BY <1>1, MarkedQueue
    <3>3. \A f \in Files : q[f].status = "running" => f \in Running(mem)
      BY DEF Mark, Running
    <3>4. AllKnown(q)
      BY <2>1 DEF Settled
    <3> HIDE DEF q, next
    <3>5. Running(q) = {}
      BY <3>2, <3>3 DEF Running
    <3>6. /\ op' \in [name : OpNames, stage : Stages, files : SUBSET Files,
                      cur : Files \cup {None}]
          /\ op'.stage = next
      <4>1. next \in Stages
        BY <3>1 DEF Stages
      <4> QED
        BY <1>1, <3>1, <4>1, GoOnEffect
    <3>7. TypeOK'
      BY <1>1, <2>2, <3>1, <3>2, <3>6 DEF TypeOK, Env
    <3>8. run'.ref \in (0..HEAD)' /\ wk' = [w \in Workers |-> AtRest]
      BY <1>1, <3>1 DEF HEAD
    <3> QED
      BY <1>1, <2>2, <2>4, <3>1, <3>2, <3>4, <3>5, <3>6, <3>7, <3>8, NewQueueKeeps
  <2> QED
    BY <2>3, <2>4
<1>4. CASE \E S \in SUBSET Running(mem) :
               mem' = Mark(S) /\ EndOp /\ UNCHANGED <<disk, env>>
  BY <1>1, <1>2, <1>4
<1>5. CASE \E S \in SUBSET Running(mem) : Fails /\ mem' = Mark(S) /\ UNCHANGED disk
  <2>1. EndOp /\ env' \in Env
    BY <1>1, <1>5, FaultEffect DEF Fails
  <2> QED
    BY <1>2, <1>5, <2>1
<1> QED
  BY <1>3, <1>4, <1>5 DEF RecoverTasks

(* Queueing files again keeps IInv. *)
LEMMA RetryTasksKeeps ==
    ASSUME IInv, RetryTasks
    PROVE  IInv' /\ Known(disk) \subseteq Known(disk')
<1> DEFINE q == [f \in Files |-> IF f \in op.files THEN Requeued(mem[f], f) ELSE mem[f]]
<1>1. /\ TypeOK /\ op.stage = "retry" /\ UNCHANGED <<branch, work>> /\ EndOp
      /\ Prepared(mem) = {} /\ env \in Env /\ branch \in Seq(Commit)
      /\ work \in [Files -> Bytes] /\ mem \in [Files -> Task] /\ disk \in [Files -> Task]
  BY DEF RetryTasks, IInv, DiscardsSaved, TypeInv, TypeOK, Env
<1>2. PICK r \in SaveResults : Fault(r) /\ Save(q, r)
  BY DEF RetryTasks
<1>3. \A f \in Files : /\ q[f] \in Task /\ q[f].discard = mem[f].discard
                       /\ q[f].commits = mem[f].commits
  BY <1>1, RequeuedTask
<1>4. q \in [Files -> Task]
  BY <1>3
<1>5. AllKnown(mem) => \A f \in Files : OwnsHead(mem, f) => HEAD \in Known(mem)
  BY Branch, <1>1 DEF AllKnown, OwnsHead, HeadNames
<1>6. mem = disk /\ AllKnown(mem) /\ Running(mem) = {}
  BY <1>1 DEF IInv, RecoverySettles
<1>7. \A f \in Files : ~ OwnsHead(mem, f)
  BY <1>6 DEF OwnsHead, Validated, Running
<1>8. mem' = q /\ disk' \in {disk, mem'} /\ env' \in Env
  BY <1>1, <1>2, FaultEffect DEF Save
<1> HIDE DEF q
<1>9. /\ wk' = [w \in Workers |-> AtRest] /\ op'.stage = ""
      /\ op' \in [name : OpNames, stage : Stages, files : SUBSET Files,
                  cur : Files \cup {None}]
      /\ run' \in [ref : Nat, accepted : Nat, failure : BOOLEAN,
                   cancelled : BOOLEAN, jobs : SUBSET Files]
      /\ wk' \in [Workers -> [pc : PCs, file : Files \cup {None}]]
      /\ run'.ref \in (0..HEAD)'
  BY <1>1, EndOpEffect
<1>10. TypeOK'
  BY <1>1, <1>4, <1>8, <1>9 DEF TypeOK, Env
<1> QED
  BY <1>1, <1>3, <1>4, <1>7, <1>8, <1>9, <1>10, NewQueueKeeps

(* The run starts from a branch both queues know, with no task running. *)
LEMMA RunFilesKeeps ==
    ASSUME IInv, RunFiles
    PROVE  IInv' /\ Known(disk) \subseteq Known(disk')
<1>1. /\ TypeOK /\ op.stage = "launch" /\ UNCHANGED <<mem, disk, branch, work>>
      /\ Prepared(mem) = {} /\ work \in [Files -> Bytes]
      /\ wk = [w \in Workers |-> AtRest]
  BY Waiting DEF RunFiles, IInv, DiscardsSaved, TypeInv, TypeOK
<1>2. mem = disk /\ AllKnown(mem) /\ Running(mem) = {}
  BY <1>1 DEF IInv, RecoverySettles
<1>3. CASE Fails
  BY <1>1, <1>3, FailsKeeps
<1>4. CASE /\ run' = [run EXCEPT !.ref = HEAD, !.accepted = HEAD,
                                 !.jobs = op.files \cap Runnable(mem)]
           /\ GoOn("run") /\ UNCHANGED <<wk, env>>
  <2>1. HEAD \in Nat /\ HEAD' = HEAD /\ op.files \in SUBSET Files
    BY <1>1, Branch DEF TypeOK, HEAD
  <2>2. op.files \cap Runnable(mem) \in SUBSET Files
    BY <2>1
  <2>3. /\ run' \in [ref : Nat, accepted : Nat, failure : BOOLEAN,
                     cancelled : BOOLEAN, jobs : SUBSET Files]
        /\ run'.ref = HEAD /\ run'.jobs = op.files \cap Runnable(mem)
    BY <1>1, <1>4, <2>1, <2>2 DEF TypeOK
  <2>4. /\ op' \in [name : OpNames, stage : Stages, files : SUBSET Files,
                    cur : Files \cup {None}]
        /\ op'.stage = "run"
    <3>1. "run" \in Stages
      BY DEF Stages
    <3> QED
      BY <1>1, <1>4, <3>1, GoOnEffect
  <2>5. TypeOK'
    BY <1>1, <1>4, <2>3, <2>4 DEF TypeOK
  <2>6. \A w \in Workers : wk'[w].pc = "idle" /\ wk'[w].file = None
    BY <1>1, <1>4 DEF AtRest
  <2>7. None \notin run'.jobs
    BY <2>3
  <2>8. run'.ref \in (0..HEAD)'
    BY <2>1, <2>3
  <2>9. FilesHeld'
    BY <2>4, <2>6, <2>7, <2>8 DEF FilesHeld, InApply
  <2>10. QueuesAccount' /\ Known(disk) \subseteq Known(disk')
    BY <1>1, SameQueues
  <2>11. DiscardsSaved' /\ RecoverySettles'
    BY <1>1, <1>2, <2>4 DEF DiscardsSaved, RecoverySettles, Prepared
  <2>12. WriterAlone'
    BY <1>1, <1>2, <2>6 DEF WriterAlone, InApply, AllKnown, Known, HEAD
  <2>13. AttemptsTracked'
    <3>1. \A f \in run'.jobs : mem'[f].status # "running"
      BY <1>1, <2>3 DEF Runnable
    <3> QED
      BY <2>6, <3>1 DEF AttemptsTracked
  <2> QED
    BY <2>5, <2>9, <2>10, <2>11, <2>12, <2>13 DEF IInv, TypeInv
<1> QED
  BY <1>3, <1>4 DEF RunFiles

(* The end of a run, with its last save, keeps IInv. *)
LEMMA FinishRunKeeps ==
    ASSUME IInv, FinishRun
    PROVE  IInv' /\ Known(disk) \subseteq Known(disk')
<1>1. /\ EndOp /\ UNCHANGED <<branch, work>> /\ work \in [Files -> Bytes] /\ env \in Env
  BY DEF FinishRun, IInv, TypeInv, TypeOK, Env
<1>2. PICK r \in SaveResults : Fault(r) /\ Save(mem, r)
  BY DEF FinishRun
<1>3. env' \in Env /\ mem' = mem /\ disk' \in {disk, mem}
  BY <1>1, <1>2, FaultEffect DEF Save
<1> QED
  BY <1>1, <1>3, EndKeeps

(* A change of the worktree alone keeps IInv. *)
LEMMA UnseenKeeps ==
    ASSUME IInv, UNCHANGED <<mem, disk, branch, op, run, wk>>,
           work' \in [Files -> Bytes], env' \in Env
    PROVE  IInv' /\ Known(disk) \subseteq Known(disk')
<1>1. TypeOK' /\ FilesHeld'
  BY DEF IInv, TypeInv, TypeOK, FilesHeld, Env, HEAD
<1>2. QueuesAccount' /\ Known(disk) \subseteq Known(disk')
  BY SameQueues
<1>3. DiscardsSaved' /\ RecoverySettles'
  BY DEF IInv, DiscardsSaved, RecoverySettles, Prepared, Running, AllKnown, Known, HEAD
<1>4. WriterAlone' /\ AttemptsTracked'
  BY DEF IInv, WriterAlone, AttemptsTracked, AllKnown, Known, HEAD, HeadNames
<1> QED
  BY <1>1, <1>2, <1>3, <1>4 DEF IInv, TypeInv

(* An edit from outside keeps IInv. *)
LEMMA EditKeeps ==
    ASSUME IInv, NEW f \in Files, Edit(f)
    PROVE  IInv' /\ Known(disk) \subseteq Known(disk')
<1>1. /\ UNCHANGED <<mem, disk, branch, op, run, wk>> /\ Foreign \in Bytes
      /\ env \in Env /\ work \in [Files -> Bytes]
      /\ work' = [work EXCEPT ![f] = Foreign]
      /\ env' = [env EXCEPT !.edits = env.edits + 1]
  BY DEF Edit, IInv, TypeInv, TypeOK, Env, Bytes
<1>2. env.edits + 1 \in Nat
  BY <1>1 DEF Env
<1>3. env' \in Env /\ work' \in [Files -> Bytes]
  BY <1>1, <1>2 DEF Env
<1> QED
  BY <1>1, <1>3, UnseenKeeps

-----------------------------------------------------------------------------
(* The invariant, and the theorems. *)

(* IInv holds when a workspace is created. *)
LEMMA InitInvariant == Init => IInv
<1> SUFFICES ASSUME Init PROVE IInv
  OBVIOUS
<1>1. mem = [f \in Files |-> NewTask] /\ disk = mem /\ branch = <<>>
      /\ op = NoOp /\ run = NoRun /\ wk = [w \in Workers |-> AtRest]
  BY DEF Init
<1>2. HEAD = 0 /\ branch \in Seq(Commit)
  BY <1>1 DEF HEAD
<1>3. \A f \in Files : mem[f] = NewTask
  BY <1>1
<1>4. TypeOK
  <2>1. mem \in [Files -> Task] /\ disk \in [Files -> Task]
    BY <1>1, NewTaskType
  <2>2. work \in [Files -> Bytes] /\ env \in [faults : Nat, crashes : Nat, edits : Nat]
    BY DEF Init, Bytes
  <2>3. op \in [name : OpNames, stage : Stages, files : SUBSET Files, cur : Files \cup {None}]
    BY <1>1 DEF NoOp, OpNames, Stages
  <2>4. run \in [ref : Nat, accepted : Nat, failure : BOOLEAN,
                 cancelled : BOOLEAN, jobs : SUBSET Files]
    BY <1>1 DEF NoRun
  <2>5. wk \in [Workers -> [pc : PCs, file : Files \cup {None}]]
    BY <1>1 DEF AtRest, PCs
  <2> QED
    BY <1>2, <2>1, <2>2, <2>3, <2>4, <2>5 DEF TypeOK
<1>5. op.stage = "" /\ run.ref = 0 /\ run.jobs = {}
  BY <1>1 DEF NoOp, NoRun
<1>6. FilesHeld
  <2>1. \A w \in Workers : wk[w].pc = "idle" /\ wk[w].file = None
    BY <1>1 DEF AtRest
  <2>2. run.ref \in 0..HEAD
    <3>1. HEAD \in Nat
      BY <1>2, Branch
    <3> QED
      BY <1>5, <3>1, ZeroInRange, Zenon
  <2>3. wk = [w \in Workers |-> AtRest] /\ op.stage \notin {"drestore", "dcommit", "dverify"}
    BY <1>1, <1>5
  <2>4. \A w \in Workers :
            /\ wk[w].pc \notin {"idle", "exit"} => wk[w].file \in Files
            /\ wk[w].file \notin run.jobs
            /\ wk[w].pc \in InApply => mem[wk[w].file].att.output # None
            /\ \A v \in Workers \ {w} : wk[w].file # None => wk[v].file # wk[w].file
    BY <1>5, <2>1 DEF InApply
  <2> QED
    BY <2>2, <2>3, <2>4 DEF FilesHeld
<1>7. 1..HEAD = {}
  BY <1>2
<1>8. QueuesAccount
  BY <1>1, <1>7 DEF QueuesAccount, Accounts
<1>9. DiscardsSaved /\ RecoverySettles /\ WriterAlone /\ AttemptsTracked
  BY <1>1, <1>5 DEF DiscardsSaved, RecoverySettles, WriterAlone, AttemptsTracked
<1> QED
  BY <1>4, <1>6, <1>8, <1>9 DEF IInv, TypeInv

(* A worker's call leaves the queue file alone or replaces it by the queue in
   memory. *)
LEMMA WorkerSaves ==
    ASSUME IInv, NEW w \in Workers, WorkerStep(w)
    PROVE  disk' \in {disk, mem'}
<1>1. ASSUME NEW q, NEW r, Save(q, r) PROVE disk' \in {disk, mem'}
  BY <1>1 DEF Save
<1>2. ASSUME NEW t, NEW pc, SaveOr(w, t, pc) PROVE disk' \in {disk, mem'}
  BY <1>1, <1>2 DEF SaveOr
<1>3. ASSUME NEW t, NEW s, Finish(w, t, s) PROVE disk' \in {disk, mem'}
  BY <1>2, <1>3 DEF Finish
<1>4. CASE TakeJob(w) \/ LeaveFile(w)
  BY <1>4 DEF TakeJob, LeaveFile
<1>5. CASE Begin(w)
  BY <1>2, <1>5 DEF Begin
<1>6. CASE ReadInput(w)
  BY <1>2, <1>3, <1>6 DEF ReadInput
<1>7. CASE OpenRepair(w)
  BY <1>2, <1>7 DEF OpenRepair
<1>8. CASE VerifySource(w) \/ WriteSource(w)
  BY <1>3, <1>8 DEF VerifySource, WriteSource
<1>9. CASE CheckAdoption(w)
  BY <1>9 DEF CheckAdoption, CleanUp
<1>10. CASE JournalValidated(w)
  BY <1>1, <1>10 DEF JournalValidated
<1>11. CASE CommitAdoption(w) \/ RollBack(w)
  BY <1>3, <1>11 DEF CommitAdoption, CleanUp, RollBack
<1>12. CASE RecordCommit(w)
  BY <1>1, <1>12 DEF RecordCommit
<1>13. CASE Validate(w)
  BY <1>1, <1>13 DEF Validate
<1>14. CASE Decline(w)
  BY <1>1, <1>3, <1>14 DEF Decline
<1>15. CASE Skip(w)
  BY <1>3, <1>15 DEF Skip
<1>16. CASE Adopt(w)
  BY <1>2, <1>16 DEF Adopt
<1> QED
  BY <1>4, <1>5, <1>6, <1>7, <1>8, <1>9, <1>10, <1>11, <1>12, <1>13, <1>14, <1>15, <1>16
     DEF WorkerStep, Handle, Answer

(* Every step keeps IInv and every commit the queue on disk recorded. *)
LEMMA StepKeeps == IInv /\ [Next]_vars => IInv' /\ Known(disk) \subseteq Known(disk')
<1> SUFFICES ASSUME IInv, [Next]_vars
             PROVE  IInv' /\ Known(disk) \subseteq Known(disk')
  OBVIOUS
<1>1. ASSUME NEW w \in Workers, WorkerStep(w)
      PROVE  IInv' /\ Known(disk) \subseteq Known(disk')
  <2>1. IInv' /\ Known(mem) \subseteq Known(mem')
    BY <1>1, WorkerKeeps
  <2>2. disk' \in {disk, mem'}
    BY <1>1, WorkerSaves
  <2>3. Known(disk) \subseteq Known(mem)
    BY DEF IInv, QueuesAccount
  <2> QED
    BY <2>1, <2>2, <2>3
<1>2. CASE Operate
  BY <1>2, CheckDiscardKeeps, RestoreSourceKeeps, FindDiscardKeeps, CommitDiscardKeeps,
     FinishDiscardKeeps, DiscardsDoneKeeps, RecoverTreeKeeps, ResetTreeKeeps,
     RecoverTasksKeeps, RetryTasksKeeps, RunFilesKeeps, FinishRunKeeps DEF Operate
<1>3. CASE User
  BY <1>3, StartKeeps, StopKeeps, RetryKeeps, ReloadKeeps, OpenKeeps, PrepareDiscardKeeps
     DEF User
<1>4. CASE Crash
  BY <1>4, CrashKeeps
<1>5. CASE \E f \in Files : Edit(f)
  BY <1>5, EditKeeps
<1>6. CASE UNCHANGED vars
  <2>1. UNCHANGED <<mem, disk, branch, op, run, wk>> /\ work' = work /\ env' = env
    BY <1>6 DEF vars
  <2>2. work' \in [Files -> Bytes] /\ env' \in Env
    BY <2>1 DEF IInv, TypeInv, TypeOK, Env
  <2> QED
    BY <2>1, <2>2, UnseenKeeps
<1> QED
  BY <1>1, <1>2, <1>3, <1>4, <1>5, <1>6 DEF Next, Progress

(* IInv holds in every reachable state: the queues, the branch and the journal
   entries fit together at every call a worker or an operation may stop in. *)
THEOREM Invariant == Spec => []IInv
<1>1. Init => IInv
  BY InitInvariant
<1>2. IInv /\ [Next]_vars => IInv'
  BY StepKeeps
<1> QED
  BY <1>1, <1>2, PTL DEF Spec

(* Every variable always has the shape of the Go records it stands for. *)
THEOREM TypesHold == Spec => []TypeOK
<1>1. IInv => TypeOK
  BY DEF IInv, TypeInv
<1> QED
  BY <1>1, Invariant, PTL

(* Whatever crashes, is stopped or fails, the queue on disk accounts for every
   commit of the private branch, so recovery never meets an unknown one. *)
THEOREM BranchAccounted == Spec => []LedgerComplete
<1>1. IInv => LedgerComplete
  BY DEF IInv, QueuesAccount, Accounts, LedgerComplete
<1> QED
  BY <1>1, Invariant, PTL

(* No step of the program, and no crash, makes the queue on disk forget a
   commit it recorded. *)
THEOREM RecordsKept == Spec => NothingForgotten
<1>1. IInv /\ [Next]_vars => [Known(disk) \subseteq Known(disk')]_vars
  BY StepKeeps
<1> QED
  BY <1>1, Invariant, PTL DEF Spec, NothingForgotten
=============================================================================
