---------------------------- MODULE Ledger_proofs ----------------------------
(***************************************************************************)
(* More about Execution for every value of its constants: the branch and   *)
(* the queue file implement Ledger, nothing is committed twice, the queue  *)
(* tells the adopted content of every file, recovery accepts what the      *)
(* program left behind, and bytes of somebody else are not overwritten.    *)
(***************************************************************************)
EXTENDS Execution_proofs, SequenceTheorems

USE ContentAssumption, BoundAssumption

-----------------------------------------------------------------------------

(* The branch as a value: the readings of Execution are these. *)

(* Execution reads the branch and the queue as the operators of the invariant do. *)
LEMMA Readings ==
    ASSUME NEW q, NEW f \in Files
    PROVE  /\ OwnsHead(q, f) <=> Found(branch, q[f], f)
           /\ OwnsDiscard(q, f) <=> Restored(branch, q[f], f)
           /\ InFlight(q, f) <=> Flying(branch, q[f], f)
           /\ HeadTree[f] = BytesNow(branch, f)
           /\ \A n : TreeAt(n)[f] = BytesAt(branch, n, f)
<1>1. \A n : TreeAt(n)[f] = BytesAt(branch, n, f)
  BY DEF TreeAt, BytesAt
<1>2. HeadTree[f] = BytesNow(branch, f)
  BY <1>1 DEF HeadTree, BytesNow, HEAD
<1>3. OwnsHead(q, f) <=> Found(branch, q[f], f)
  BY DEF OwnsHead, Found, HeadNames, Names, HEAD
<1>4. OwnsDiscard(q, f) <=> Restored(branch, q[f], f)
  BY DEF OwnsDiscard, Restored, HeadNames, Names, HEAD
<1> QED
  BY <1>1, <1>2, <1>3, <1>4 DEF InFlight, Flying

(* The files git status reports are the dirty ones. *)
LEMMA Changes == ChangedFiles = Dirty(branch, work)
  BY Readings DEF ChangedFiles, Dirty

(* The numbers of commits and records are numbers. *)
LEMMA CommitNumbers ==
    ASSUME NEW b \in Seq(Commit), NEW n \in 1..Len(b)
    PROVE  b[n] \in Commit /\ b[n].num \in Nat /\ b[n].file \in Files
<1>1. b[n] \in Commit
  OBVIOUS
<1> QED
  BY <1>1 DEF Commit

(* So are the numbers of a task's records. *)
LEMMA TaskNumbers ==
    ASSUME NEW t \in Task
    PROVE  t.att.num \in Nat /\ t.discard.num \in Nat
<1>1. t.att \in Attempt /\ t.discard \in Discard
  BY DEF Task
<1> QED
  BY <1>1 DEF Attempt, Discard

(* Up to a number is below the next. *)
LEMMA UpToNext ==
    ASSUME NEW m \in Nat, NEW n \in Nat, m <= n
    PROVE  m < n + 1
  OBVIOUS

(* An open attempt that is not at HEAD has a number no commit has. *)
LEMMA NumberFree ==
    ASSUME NEW b \in Seq(Commit), NEW t \in Task, NEW f \in Files,
           AttemptsNumbered(b, t, f), ~ Adopted(t.att), ~ Found(b, t, f)
    PROVE  \A n \in 1..Len(b) : b[n].kind = "attempt" /\ b[n].file = f =>
               b[n].num < t.att.num
<1> SUFFICES ASSUME NEW n \in 1..Len(b), b[n].kind = "attempt", b[n].file = f
             PROVE  b[n].num < t.att.num
  OBVIOUS
<1>1. b[n].num <= t.att.num /\ b[n].num # t.att.num
  BY DEF AttemptsNumbered
<1>2. b[n] \in Commit /\ t.att \in Attempt
  BY DEF Task
<1>3. b[n].num \in Nat /\ t.att.num \in Nat
  BY <1>2 DEF Commit, Attempt
<1> QED
  BY <1>1, <1>3

(* So such a number is not at HEAD, whatever becomes of its attempt. *)
LEMMA NotFound ==
    ASSUME NEW b \in Seq(Commit), NEW v \in Task, NEW f \in Files,
           \A n \in 1..Len(b) : b[n].kind = "attempt" /\ b[n].file = f =>
               b[n].num < v.att.num
    PROVE  ~ Found(b, v, f) /\ AttemptsNumbered(b, v, f)
<1>1. v.att.num \in Nat
  BY DEF Task, Attempt
<1>2. ASSUME Found(b, v, f) PROVE FALSE
  <2>1. Len(b) \in 1..Len(b) /\ b[Len(b)].kind = "attempt" /\ b[Len(b)].file = f
        /\ b[Len(b)].num = v.att.num
    BY <1>2 DEF Found, Names
  <2>2. b[Len(b)].num < v.att.num
    BY <2>1
  <2> QED
    BY <1>1, <2>1, <2>2
<1>3. ASSUME NEW n \in 1..Len(b), b[n].kind = "attempt", b[n].file = f
      PROVE  b[n].num <= v.att.num /\ b[n].num # v.att.num
  <2>1. b[n] \in Commit /\ b[n].num < v.att.num
    BY <1>3
  <2>2. b[n].num \in Nat
    BY <2>1 DEF Commit
  <2> QED
    BY <1>1, <2>1, <2>2
<1> QED
  BY <1>2, <1>3 DEF AttemptsNumbered

(* What a discard says of its commits depends on its record alone. *)
LEMMA SameDiscard ==
    ASSUME NEW b, NEW t, NEW v, NEW f, v.discard = t.discard
    PROVE  /\ Restored(b, v, f) <=> Restored(b, t, f)
           /\ DiscardsNumbered(b, v, f) <=> DiscardsNumbered(b, t, f)
<1>1. Restored(b, v, f) <=> Restored(b, t, f)
  BY DEF Restored
<1> QED
  BY <1>1 DEF DiscardsNumbered

(* One call of a worker on an attempt under way: the input may be read, the
   output chosen, the attempt journaled or given its final status. *)
LEMMA Reworked ==
    ASSUME NEW b \in Seq(Commit), NEW e, NEW t \in Task, NEW v \in Task, NEW f \in Files,
           TaskTracked(b, e, t, f), t.status = "running", ~ Flying(b, t, f),
           v.discard = t.discard, v.adopted = t.adopted,
           v.att.num = t.att.num, v.att.base = t.att.base,
           v.att.input \in {t.att.input, BytesAt(b, t.att.base, f)},
           v.att.commit = None,
           v.status = "running" => /\ v.att.outcome \in {"", "validated"}
                                   /\ v.att.output # Foreign
    PROVE  TaskTracked(b, e, v, f) /\ ~ Flying(b, v, f)
<1>1. AttemptBased(b, t, f) /\ AttemptsNumbered(b, t, f) /\ DiscardsNumbered(b, t, f)
      /\ (e = 0 => ContentFollows(b, t, f))
  BY DEF TaskTracked
<1>2. ~ Found(b, t, f) /\ ~ Restored(b, t, f) /\ t.att.commit = None
  BY <1>1 DEF Flying, AttemptBased
<1>3. ~ Adopted(t.att)
  BY <1>2 DEF Adopted
<1>4. ~ Found(b, v, f) /\ AttemptsNumbered(b, v, f)
  BY <1>1, <1>2, <1>3, NumberFree, NotFound, ZenonT(60)
<1>5. ~ Restored(b, v, f) /\ DiscardsNumbered(b, v, f)
  BY <1>1, <1>2, SameDiscard
<1>6. AttemptBased(b, v, f)
  BY <1>1, <1>2, <1>4 DEF AttemptBased, Flying
<1>7. e = 0 => ContentFollows(b, v, f)
  BY <1>1, <1>2, <1>4 DEF ContentFollows, Flying
<1> QED
  BY <1>4, <1>5, <1>6, <1>7 DEF TaskTracked, Flying

(* An attempt that begins or is resumed on a snapshot that still has the
   bytes of HEAD. *)
LEMMA Begun ==
    ASSUME NEW b \in Seq(Commit), NEW e, NEW t \in Task, NEW v \in Task, NEW f \in Files,
           TaskTracked(b, e, t, f), t.status # "running", ~ Flying(b, t, f),
           v.discard = t.discard, v.adopted = t.adopted,
           NEW n \in 0..Len(b), BytesAt(b, n, f) = BytesNow(b, f),
           v.att.base = n, v.att.input \in {None, BytesAt(b, n, f)},
           v.att.commit = None, v.att.outcome = "", v.att.output = None,
           \/ v.att.num = t.att.num + 1
           \/ v.att.num = t.att.num /\ ~ Adopted(t.att)
    PROVE  TaskTracked(b, e, v, f) /\ ~ Flying(b, v, f)
<1>1. AttemptBased(b, t, f) /\ AttemptsNumbered(b, t, f) /\ DiscardsNumbered(b, t, f)
      /\ (e = 0 => ContentFollows(b, t, f))
  BY DEF TaskTracked
<1>2. ~ Found(b, t, f) /\ ~ Restored(b, t, f)
  BY DEF Flying
<1>3. \A m \in 1..Len(b) : b[m].kind = "attempt" /\ b[m].file = f => b[m].num < v.att.num
  <2>1. CASE v.att.num = t.att.num + 1
    <3> SUFFICES ASSUME NEW m \in 1..Len(b), b[m].kind = "attempt", b[m].file = f
                 PROVE  b[m].num < v.att.num
      OBVIOUS
    <3>1. b[m].num <= t.att.num
      BY <1>1 DEF AttemptsNumbered
    <3>2. b[m].num \in Nat /\ t.att.num \in Nat
      BY CommitNumbers, TaskNumbers
    <3>3. b[m].num < t.att.num + 1
      BY <3>1, <3>2, UpToNext
    <3> QED
      BY <2>1, <3>3
  <2>2. CASE v.att.num = t.att.num /\ ~ Adopted(t.att)
    BY <1>1, <1>2, <2>2, NumberFree
  <2> QED
    BY <2>1, <2>2
<1>4. ~ Found(b, v, f) /\ AttemptsNumbered(b, v, f)
  BY <1>3, NotFound
<1>5. ~ Restored(b, v, f) /\ DiscardsNumbered(b, v, f)
  BY <1>1, <1>2, SameDiscard
<1>6. AttemptBased(b, v, f)
  BY <1>4 DEF AttemptBased
<1>7. e = 0 => ContentFollows(b, v, f)
  BY <1>1, <1>2, <1>4 DEF ContentFollows, Flying
<1> QED
  BY <1>4, <1>5, <1>6, <1>7 DEF TaskTracked, Flying

(* A task at HEAD that takes its commit and its final status. *)
LEMMA Recorded ==
    ASSUME NEW b \in Seq(Commit), NEW e, NEW t \in Task, NEW v \in Task, NEW f \in Files,
           TaskTracked(b, e, t, f), Found(b, t, f), ~ Restored(b, t, f),
           v.discard = t.discard, v.adopted = t.att.output,
           v.att.num = t.att.num, v.att.base = t.att.base, v.att.input = t.att.input,
           v.att.partial = t.att.partial, Adopted(v.att), v.status # "running",
           v.att.partial => v.status # "done"
    PROVE  TaskTracked(b, e, v, f) /\ ~ Flying(b, v, f)
<1>1. AttemptBased(b, t, f) /\ AttemptsNumbered(b, t, f) /\ DiscardsNumbered(b, t, f)
      /\ (e = 0 => ContentFollows(b, t, f))
  BY DEF TaskTracked
<1>2. ~ Found(b, v, f)
  BY DEF Found, Validated
<1>3. AttemptsNumbered(b, v, f)
  BY <1>1 DEF AttemptsNumbered
<1>4. ~ Restored(b, v, f) /\ DiscardsNumbered(b, v, f)
  BY <1>1, SameDiscard
<1>5. AttemptBased(b, v, f)
  BY <1>1, <1>2 DEF AttemptBased
<1>6. e = 0 => ContentFollows(b, v, f)
  BY <1>1, <1>2 DEF ContentFollows
<1> QED
  BY <1>2, <1>3, <1>4, <1>5, <1>6 DEF TaskTracked, Flying

(* A task that is queued again: its last attempt is closed and stays. *)
LEMMA Parked ==
    ASSUME NEW b \in Seq(Commit), NEW e, NEW t \in Task, NEW v \in Task, NEW f \in Files,
           TaskTracked(b, e, t, f), ~ Flying(b, t, f),
           v.discard = t.discard, v.adopted = t.adopted, v.att = t.att,
           v.status = "pending"
    PROVE  TaskTracked(b, e, v, f) /\ ~ Flying(b, v, f)
<1>1. AttemptBased(b, t, f) /\ AttemptsNumbered(b, t, f) /\ DiscardsNumbered(b, t, f)
      /\ (e = 0 => ContentFollows(b, t, f))
  BY DEF TaskTracked
<1>2. ~ Found(b, t, f) /\ ~ Restored(b, t, f) /\ ~ Found(b, v, f)
  BY DEF Flying, Found, Validated
<1>3. ~ Restored(b, v, f) /\ DiscardsNumbered(b, v, f)
  BY <1>1, <1>2, SameDiscard
<1>4. AttemptsNumbered(b, v, f)
  BY <1>1, <1>2 DEF AttemptsNumbered
<1>5. AttemptBased(b, v, f)
  BY <1>1, <1>2 DEF AttemptBased
<1>6. e = 0 => ContentFollows(b, v, f)
  BY <1>1, <1>2 DEF ContentFollows, Flying
<1> QED
  BY <1>2, <1>3, <1>4, <1>5, <1>6 DEF TaskTracked, Flying

(* A discard that is prepared on HEAD takes the next number. *)
LEMMA PreparedNow ==
    ASSUME NEW b \in Seq(Commit), NEW e, NEW t \in Task, NEW v \in Task, NEW f \in Files,
           TaskTracked(b, e, t, f), ~ Flying(b, t, f),
           v.att = t.att, v.adopted = t.adopted, v.status = t.status,
           v.discard.num = t.discard.num + 1, v.discard.base = Len(b)
    PROVE  TaskTracked(b, e, v, f) /\ ~ Flying(b, v, f)
<1>1. AttemptBased(b, t, f) /\ AttemptsNumbered(b, t, f) /\ DiscardsNumbered(b, t, f)
      /\ (e = 0 => ContentFollows(b, t, f))
  BY DEF TaskTracked
<1>2. ~ Found(b, t, f) /\ (Found(b, v, f) <=> Found(b, t, f))
  BY DEF Flying, Found, Validated
<1>3. ~ Restored(b, v, f)
  BY DEF Restored
<1>4. DiscardsNumbered(b, v, f)
  <2> SUFFICES ASSUME NEW n \in 1..Len(b), b[n].kind = "discard", b[n].file = f
               PROVE  b[n].num <= v.discard.num /\ b[n].num # v.discard.num
    BY DEF DiscardsNumbered
  <2>1. b[n].num <= t.discard.num
    BY <1>1 DEF DiscardsNumbered
  <2>2. b[n] \in Commit /\ t.discard \in Discard
    BY DEF Task
  <2>3. b[n].num \in Nat /\ t.discard.num \in Nat
    BY <2>2 DEF Commit, Discard
  <2> QED
    BY <2>1, <2>3
<1>5. AttemptsNumbered(b, v, f)
  BY <1>1, <1>2 DEF AttemptsNumbered
<1>6. AttemptBased(b, v, f)
  BY <1>1, <1>2 DEF AttemptBased, Flying
<1>7. e = 0 => ContentFollows(b, v, f)
  BY <1>1, <1>2 DEF ContentFollows, Flying
<1> QED
  BY <1>2, <1>3, <1>4, <1>5, <1>6, <1>7 DEF TaskTracked, Flying

(* A discard found at HEAD is finished: the file starts from its base again. *)
LEMMA DiscardedNow ==
    ASSUME NEW b \in Seq(Commit), NEW e, NEW t \in Task, NEW v \in Task, NEW f \in Files,
           NEW k, TaskTracked(b, e, t, f), Names(b, "discard", f, k),
           v.att = t.att, v.adopted = None, v.status = "pending",
           v.discard.num = t.discard.num, v.discard.state = "done"
    PROVE  TaskTracked(b, e, v, f) /\ ~ Flying(b, v, f)
<1>1. AttemptBased(b, t, f) /\ AttemptsNumbered(b, t, f) /\ DiscardsNumbered(b, t, f)
  BY DEF TaskTracked
<1>2. ~ Found(b, t, f) /\ ~ Found(b, v, f)
  BY DEF Found, Names, Validated
<1>3. ~ Restored(b, v, f)
  BY DEF Restored
<1>4. DiscardsNumbered(b, v, f)
  BY <1>1 DEF DiscardsNumbered
<1>5. AttemptsNumbered(b, v, f)
  BY <1>1, <1>2 DEF AttemptsNumbered
<1>6. AttemptBased(b, v, f)
  BY <1>1, <1>2 DEF AttemptBased, Flying
<1>7. e = 0 => ContentFollows(b, v, f)
  BY <1>2 DEF ContentFollows
<1> QED
  BY <1>2, <1>3, <1>4, <1>5, <1>6, <1>7 DEF TaskTracked, Flying

-----------------------------------------------------------------------------

(* One more commit c of file g on the branch b. *)

(* The branch before the commit is still there, and every other file keeps
   its bytes. *)
LEMMA Appended ==
    ASSUME NEW b \in Seq(Commit), NEW c \in Commit, NEW g \in Files,
           \A h \in Files \ {g} : c.tree[h] = BytesNow(b, h)
    PROVE  LET d == Append(b, c) IN
           /\ d \in Seq(Commit) /\ Len(b) \in Nat /\ Len(d) = Len(b) + 1 /\ d[Len(d)] = c
           /\ \A n \in 1..Len(b) : d[n] = b[n] /\ n # Len(d)
           /\ \A n \in 1..Len(d) : n \in 1..Len(b) \/ n = Len(d)
           /\ \A n \in 0..Len(b), f \in Files : BytesAt(d, n, f) = BytesAt(b, n, f)
           /\ \A f \in Files : BytesNow(d, f) = c.tree[f]
           /\ \A h \in Files \ {g} : BytesNow(d, h) = BytesNow(b, h)
<1> DEFINE d == Append(b, c)
<1>1. /\ d \in Seq(Commit) /\ Len(b) \in Nat /\ Len(d) = Len(b) + 1 /\ d[Len(d)] = c
      /\ \A n \in 1..Len(b) : d[n] = b[n] /\ n # Len(d)
      /\ \A n \in 1..Len(d) : n \in 1..Len(b) \/ n = Len(d)
  OBVIOUS
<1> HIDE DEF d
<1>2. \A n \in 0..Len(b), f \in Files : BytesAt(d, n, f) = BytesAt(b, n, f)
  <2> SUFFICES ASSUME NEW n \in 0..Len(b), NEW f \in Files
               PROVE  BytesAt(d, n, f) = BytesAt(b, n, f)
    OBVIOUS
  <2>1. n # 0 => n \in 1..Len(b)
    BY <1>1
  <2> QED
    BY <1>1, <2>1 DEF BytesAt
<1>3. \A f \in Files : BytesNow(d, f) = c.tree[f]
  BY <1>1 DEF BytesNow, BytesAt
<1> QED
  BY <1>1, <1>2, <1>3 DEF d

(* A task that has nothing in flight is tracked after a commit that is not
   its own, or that is the one it journaled. *)
LEMMA TrackedAfter ==
    ASSUME NEW b \in Seq(Commit), NEW e, NEW c \in Commit, NEW t \in Task, NEW f \in Files,
           TaskTracked(b, e, t, f), ~ Flying(b, t, f),
           \A h \in Files \ {c.file} : c.tree[h] = BytesNow(b, h),
           \/ c.file # f
           \/ /\ c.kind = "attempt" /\ c.num = t.att.num
              /\ Validated(t) /\ t.att.output # None
              /\ t.att.commitBase = Len(b)
              /\ e = 0 => t.att.output = c.tree[f] /\ c.tree[f] # BytesNow(b, f)
           \/ /\ c.kind = "discard" /\ c.num = t.discard.num
              /\ t.discard.state = "prepared" /\ t.discard.base = Len(b)
    PROVE  TaskTracked(Append(b, c), e, t, f)
<1> DEFINE d == Append(b, c)
<1>1. /\ AttemptBased(b, t, f) /\ AttemptsNumbered(b, t, f) /\ DiscardsNumbered(b, t, f)
      /\ (e = 0 => ContentFollows(b, t, f))
      /\ ~ Found(b, t, f) /\ ~ Restored(b, t, f)
  BY DEF TaskTracked, Flying
<1>2. c.file \in Files /\ t.att \in Attempt /\ t.discard \in Discard
  BY DEF Commit, Task
<1>3. /\ d \in Seq(Commit) /\ Len(b) \in Nat /\ Len(d) = Len(b) + 1 /\ d[Len(d)] = c
      /\ \A n \in 1..Len(b) : d[n] = b[n] /\ n # Len(d)
      /\ \A n \in 1..Len(d) : n \in 1..Len(b) \/ n = Len(d)
      /\ \A n \in 0..Len(b), g \in Files : BytesAt(d, n, g) = BytesAt(b, n, g)
      /\ \A g \in Files : BytesNow(d, g) = c.tree[g]
      /\ \A h \in Files \ {c.file} : BytesNow(d, h) = BytesNow(b, h)
  BY <1>2, Appended
<1> HIDE DEF d
<1>4. Len(d) - 1 = Len(b) /\ Len(d) > 0 /\ 0..Len(b) \subseteq 0..Len(d)
  BY <1>3
<1>5. /\ Found(d, t, f) => c.file = f /\ c.kind = "attempt"
      /\ Restored(d, t, f) => c.file = f /\ c.kind = "discard"
  BY <1>3 DEF Found, Restored, Names
<1>6. c.file = f => Flying(d, t, f)
  BY <1>3, <1>4 DEF Flying, Found, Restored, Names
<1>7. AttemptsNumbered(d, t, f)
  <2> SUFFICES ASSUME NEW n \in 1..Len(d), d[n].kind = "attempt", d[n].file = f
               PROVE  /\ d[n].num <= t.att.num
                      /\ d[n].num = t.att.num =>
                             Adopted(t.att) \/ (n = Len(d) /\ Found(d, t, f))
    BY DEF AttemptsNumbered
  <2>1. CASE n \in 1..Len(b)
    BY <1>1, <1>3, <2>1 DEF AttemptsNumbered
  <2>2. CASE n = Len(d)
    <3>1. c.num = t.att.num /\ t.att.num \in Nat
      BY <1>2, <1>3, <2>2 DEF Attempt
    <3>2. Found(d, t, f)
      BY <1>3, <1>4, <1>6, <2>2 DEF Flying, Restored, Names
    <3> QED
      BY <1>3, <2>2, <3>1, <3>2
  <2> QED
    BY <1>3, <2>1, <2>2
<1>8. DiscardsNumbered(d, t, f)
  <2> SUFFICES ASSUME NEW n \in 1..Len(d), d[n].kind = "discard", d[n].file = f
               PROVE  /\ d[n].num <= t.discard.num
                      /\ d[n].num = t.discard.num =>
                             \/ t.discard.state = "done"
                             \/ n = Len(d) /\ Restored(d, t, f)
    BY DEF DiscardsNumbered
  <2>1. CASE n \in 1..Len(b)
    BY <1>1, <1>3, <2>1 DEF DiscardsNumbered
  <2>2. CASE n = Len(d)
    <3>1. c.num = t.discard.num /\ t.discard.num \in Nat
      BY <1>2, <1>3, <2>2 DEF Discard
    <3>2. Restored(d, t, f)
      BY <1>3, <1>4, <1>6, <2>2 DEF Flying, Found, Names
    <3> QED
      BY <1>3, <2>2, <3>1, <3>2
  <2> QED
    BY <1>3, <2>1, <2>2
<1>9. AttemptBased(d, t, f)
  <2>1. t.att.base \in 0..Len(d) /\ BytesAt(d, t.att.base, f) = BytesAt(b, t.att.base, f)
    BY <1>1, <1>3, <1>4 DEF AttemptBased
  <2>2. c.file # f => BytesNow(d, f) = BytesNow(b, f)
    BY <1>3
  <2>3. Flying(d, t, f) \/ BytesNow(d, f) = BytesNow(b, f)
    BY <1>6, <2>2
  <2>4. Found(d, t, f) => AttemptCommitBase(t.att) = Len(d) - 1
    BY <1>3, <1>4, <1>5 DEF AttemptCommitBase, Found, Names
  <2> QED
    BY <1>1, <2>1, <2>3, <2>4 DEF AttemptBased, Flying
<1>10. e = 0 => ContentFollows(d, t, f)
  <2> SUFFICES ASSUME e = 0 PROVE ContentFollows(d, t, f)
    OBVIOUS
  <2>1. t.adopted \in {None, BytesNow(d, f)} \/ Flying(d, t, f)
    BY <1>1, <1>3, <1>6 DEF ContentFollows, Flying
  <2>2. ASSUME Found(d, t, f)
        PROVE  /\ t.att.output = BytesNow(d, f)
               /\ \A g \in Files : BytesNow(d, g) # BytesAt(d, Len(d) - 1, g) <=> g = f
    <3>1. t.att.output = c.tree[f] /\ c.tree[f] # BytesNow(b, f) /\ c.file = f
      BY <1>5, <2>2
    <3>2. \A g \in Files : BytesAt(d, Len(d) - 1, g) = BytesNow(b, g)
      BY <1>3, <1>4 DEF BytesNow
    <3> QED
      BY <1>3, <3>1, <3>2
  <2> QED
    BY <2>1, <2>2 DEF ContentFollows
<1> QED
  BY <1>7, <1>8, <1>9, <1>10 DEF TaskTracked, d
-----------------------------------------------------------------------------

(* A step of a worker that leaves the branch alone. *)

(* A queue stays tracked when one task is replaced by a tracked one that has
   nothing in flight. *)
LEMMA QueueRewritten ==
    ASSUME NEW b \in Seq(Commit), NEW e, NEW q \in [Files -> Task], NEW f \in Files,
           NEW t \in Task, QueueTracked(b, e, q), Known(q) \subseteq 1..Len(b),
           TaskTracked(b, e, t, f), ~ Flying(b, t, f),
           \/ t.commits = q[f].commits
           \/ /\ t.commits = q[f].commits \cup {Len(b)}
              /\ Len(b) > 0 /\ b[Len(b)].file = f
    PROVE  /\ QueueTracked(b, e, [q EXCEPT ![f] = t])
           /\ Known([q EXCEPT ![f] = t]) \subseteq 1..Len(b)
<1> DEFINE p == [q EXCEPT ![f] = t]
<1>1. p[f] = t /\ \A g \in Files \ {f} : p[g] = q[g]
  OBVIOUS
<1> HIDE DEF p
<1>2. \A n \in Known(p) : n \in Known(q) \/ (n = Len(b) /\ Len(b) > 0 /\ b[Len(b)].file = f)
  <2> SUFFICES ASSUME NEW n \in Known(p)
               PROVE  n \in Known(q) \/ (n = Len(b) /\ Len(b) > 0 /\ b[Len(b)].file = f)
    OBVIOUS
  <2>1. PICK g \in Files : n \in p[g].commits
    BY DEF Known
  <2>2. CASE g = f
    BY <1>1, <2>1, <2>2 DEF Known
  <2>3. CASE g # f
    BY <1>1, <2>1, <2>3 DEF Known
  <2> QED
    BY <2>2, <2>3
<1>3. Len(b) \in Nat /\ (Len(b) > 0 => Len(b) \in 1..Len(b))
  OBVIOUS
<1>4. ASSUME NEW g \in Files
      PROVE  TaskTracked(b, e, p[g], g) /\ (Flying(b, p[g], g) => Len(b) \notin Known(p))
  <2>1. CASE g = f
    BY <1>1, <2>1
  <2>2. CASE g # f
    <3>1. p[g] = q[g]
      BY <1>1, <2>2
    <3>2. Flying(b, q[g], g) => b[Len(b)].file = g
      BY DEF Flying, Found, Restored, Names
    <3> QED
      BY <1>2, <2>2, <3>1, <3>2 DEF QueueTracked
  <2> QED
    BY <2>1, <2>2
<1> QED
  BY <1>2, <1>3, <1>4 DEF QueueTracked, p

(* What a call of worker w does: its task becomes t, its next call is p. *)
Serves(w, t, p) ==
    /\ op.stage = "run" /\ wk[w].file \in Files
    /\ t \in Task
    /\ mem' = [mem EXCEPT ![wk[w].file] = t]
    /\ disk' \in {disk, mem'}
    /\ wk' = [wk EXCEPT ![w].pc = p]
    /\ run'.ref = run.ref /\ run'.jobs = run.jobs
    /\ env'.edits = env.edits
    /\ UNCHANGED <<branch, op>>

(* The task it leaves is tracked. *)
FitsTask(w, t) ==
    LET f == wk[w].file
    IN  \/ t = mem[f]
        \/ /\ TaskTracked(branch, env.edits, t, f) /\ ~ Flying(branch, t, f)
           /\ \/ t.commits = mem[f].commits
              \/ /\ t.commits = mem[f].commits \cup {HEAD}
                 /\ HEAD > 0 /\ branch[HEAD].file = f

(* What the next call relies on. *)
FitsCall(w, t, p) ==
    /\ p = "begin" => SameSince(run.ref, wk[w].file)
    /\ p \in Afoot => t.att.base = run.ref
    /\ p \in Afoot \ {"commit", "restore"} => t.att.outcome = ""
    /\ p \in Journaled => t.att.commitBase = HEAD
    /\ WriterFree \/ wk[w].pc \in InApply \/ t = mem[wk[w].file]

(* The worktree x it leaves is explained. *)
FitsTree(w, t, x, p) ==
    LET f == wk[w].file
    IN  env.edits = 0 =>
            /\ HandsOff(branch, x, t, f, p)
            /\ \/ x = work /\ (f \in Dirty(branch, work) => t = mem[f])
               \/ /\ wk[w].pc \in InApply
                  /\ Dirty(branch, x) \subseteq {f}
                  /\ f \in Dirty(branch, x) => /\ Explained(branch, x, t, f)
                                               /\ Explained(branch, x, disk[f], f)

(* What worker w has in hand: an open attempt on the snapshot of the run. *)
LEMMA InHand ==
    ASSUME LInv, NEW w \in Workers, op.stage = "run", wk[w].pc \in Afoot
    PROVE  /\ wk[w].file \in Files /\ mem[wk[w].file] \in Task
           /\ TaskTracked(branch, env.edits, mem[wk[w].file], wk[w].file)
           /\ ~ Flying(branch, mem[wk[w].file], wk[w].file)
           /\ mem[wk[w].file].status = "running"
           /\ mem[wk[w].file].att.commit = None
           /\ mem[wk[w].file].att.base = run.ref
           /\ SameSince(run.ref, wk[w].file)
<1> DEFINE f == wk[w].file
           t == mem[f]
<1>1. IInv /\ BranchTracked /\ SnapshotHeld
  BY DEF LInv
<1>2. f \in Files /\ t \in Task
  BY <1>1, Holding DEF Afoot
<1>3. t.status = "running" /\ t.att.base = run.ref
  BY <1>1 DEF IInv, AttemptsTracked, Attempted, Validated, SnapshotHeld, Afoot
<1>4. TaskTracked(branch, env.edits, t, f) /\ (Flying(branch, t, f) => HEAD \notin Known(mem))
  BY <1>1, <1>2 DEF BranchTracked, QueueTracked, HEAD
<1>5. ~ Restored(branch, t, f)
  BY <1>1, <1>2 DEF IInv, DiscardsSaved, Prepared, Restored
<1>6. ~ Found(branch, t, f)
  <2>1. CASE wk[w].pc \notin {"commit", "restore"}
    BY <1>1, <2>1 DEF SnapshotHeld, Afoot, Found, Validated
  <2>2. CASE wk[w].pc \in {"commit", "restore"}
    <3>1. AllKnown(mem)
      BY <1>1, <2>2, Holding DEF InApply
    <3>2. HEAD \in Nat /\ (HEAD > 0 => HEAD \in 1..HEAD)
      BY <1>1, Branch DEF IInv, TypeInv, TypeOK
    <3> QED
      BY <1>4, <3>1, <3>2 DEF AllKnown, Flying, Found, Names, HEAD
  <2> QED
    BY <2>1, <2>2
<1>7. ~ Flying(branch, t, f)
  BY <1>5, <1>6 DEF Flying
<1>8. t.att.commit = None /\ SameSince(run.ref, f)
  BY <1>3, <1>4, <1>7 DEF TaskTracked, AttemptBased, SameSince
<1> QED
  BY <1>2, <1>3, <1>4, <1>7, <1>8

(* Such a step keeps the queues tracked. *)
LEMMA ServedTracked ==
    ASSUME LInv, NEW w \in Workers, NEW t, NEW p, Serves(w, t, p), FitsTask(w, t)
    PROVE  BranchTracked'
<1> DEFINE f == wk[w].file
<1>1. /\ branch \in Seq(Commit) /\ mem \in [Files -> Task] /\ HEAD = Len(branch)
      /\ BranchTracked
  BY DEF LInv, IInv, TypeInv, TypeOK, HEAD
<1>2. f \in Files /\ t \in Task /\ mem' = [mem EXCEPT ![f] = t] /\ disk' \in {disk, mem'}
      /\ branch' = branch /\ env'.edits = env.edits /\ HEAD' = HEAD
  BY DEF Serves, HEAD
<1>3. QueueTracked(branch, env.edits, mem') /\ Known(mem') \subseteq 1..HEAD
  <2>1. CASE t = mem[f]
    <3>1. mem' = mem
      BY <1>1, <1>2, <2>1
    <3> QED
      BY <1>1, <3>1 DEF BranchTracked
  <2>2. CASE /\ TaskTracked(branch, env.edits, t, f) /\ ~ Flying(branch, t, f)
             /\ \/ t.commits = mem[f].commits
                \/ /\ t.commits = mem[f].commits \cup {HEAD}
                   /\ HEAD > 0 /\ branch[HEAD].file = f
    BY <1>1, <1>2, <2>2, QueueRewritten DEF BranchTracked
  <2> QED
    BY <2>1, <2>2 DEF FitsTask
<1>4. QueueTracked(branch, env.edits, disk')
  BY <1>1, <1>2, <1>3 DEF BranchTracked
<1> QED
  BY <1>2, <1>3, <1>4 DEF BranchTracked

(* The other workers keep their files, their tasks and their calls. *)
LEMMA OthersServed ==
    ASSUME LInv, NEW w \in Workers, NEW t, NEW p, Serves(w, t, p)
    PROVE  /\ wk'[w].pc = p /\ wk'[w].file = wk[w].file /\ mem'[wk[w].file] = t
           /\ \A v \in Workers \ {w} :
                  /\ wk'[v] = wk[v]
                  /\ wk[v].file # wk[w].file
                  /\ wk[v].file \in Files => mem'[wk[v].file] = mem[wk[v].file]
                  /\ wk[v].pc \notin {"idle", "exit"} => wk[v].file \in Files
                  /\ wk[w].pc \in InApply => wk[v].pc \notin InApply
           /\ wk[w].file \notin run.jobs
<1>1. wk \in [Workers -> [pc : PCs, file : Files \cup {None}]] /\ mem \in [Files -> Task]
  BY DEF LInv, IInv, TypeInv, TypeOK
<1> DEFINE r == [wk[w] EXCEPT !.pc = p]
<1>2. r.pc = p /\ r.file = wk[w].file
  BY <1>1
<1>3. /\ wk' = [wk EXCEPT ![w] = r] /\ mem' = [mem EXCEPT ![wk[w].file] = t]
      /\ wk[w].file \in Files
  BY DEF Serves
<1> HIDE DEF r
<1>4. wk[w].file # None /\ op.stage = "run"
  BY <1>3 DEF Serves
<1>5. \A v \in Workers \ {w} :
          /\ wk[v].file # wk[w].file
          /\ wk[v].pc \notin {"idle", "exit"} => wk[v].file \in Files
          /\ wk[w].pc \in InApply => wk[v].pc \notin InApply
  BY <1>4 DEF LInv, IInv, TypeInv, FilesHeld, WriterAlone
<1>6. wk[w].file \notin run.jobs
  BY <1>4 DEF LInv, IInv, TypeInv, FilesHeld
<1> QED
  BY <1>1, <1>2, <1>3, <1>5, <1>6

(* Such a step keeps what the calls of the workers rely on. *)
LEMMA ServedSnapshot ==
    ASSUME LInv, NEW w \in Workers, NEW t, NEW p, Serves(w, t, p), FitsCall(w, t, p),
           p \in Journaled => mem' = disk'
    PROVE  SnapshotHeld'
<1>1. /\ wk'[w].pc = p /\ wk'[w].file = wk[w].file /\ mem'[wk[w].file] = t
      /\ \A v \in Workers \ {w} :
             /\ wk'[v] = wk[v]
             /\ wk[v].file \in Files => mem'[wk[v].file] = mem[wk[v].file]
             /\ wk[v].pc \notin {"idle", "exit"} => wk[v].file \in Files
             /\ wk[w].pc \in InApply => wk[v].pc \notin InApply
  BY OthersServed
<1>2. SnapshotHeld /\ op.stage = "run" /\ mem \in [Files -> Task] /\ wk[w].file \in Files
  BY DEF LInv, IInv, TypeInv, TypeOK, Serves
<1>3. /\ run'.ref = run.ref /\ run'.jobs = run.jobs /\ branch' = branch /\ HEAD' = HEAD
      /\ mem' = [mem EXCEPT ![wk[w].file] = t] /\ disk' \in {disk, mem'}
  BY DEF Serves, HEAD
<1>4. \A f \in run'.jobs : SameSince(run.ref, f)'
  BY <1>2, <1>3 DEF SnapshotHeld, SameSince
<1>5. ASSUME NEW v \in Workers
      PROVE  /\ wk'[v].pc = "begin" => SameSince(run.ref, wk[v].file)'
             /\ wk'[v].pc \in Afoot => mem'[wk'[v].file].att.base = run'.ref
             /\ wk'[v].pc \in Afoot \ {"commit", "restore"} => mem'[wk'[v].file].att.outcome = ""
             /\ wk'[v].pc \in Journaled => /\ mem' = disk'
                                           /\ mem'[wk'[v].file].att.commitBase = HEAD'
  <2>1. CASE v = w
    BY <1>1, <1>3, <2>1 DEF FitsCall, SameSince
  <2>2. CASE v # w
    <3>1. wk'[v] = wk[v]
      BY <1>1, <2>2
    <3>2. wk[v].pc = "begin" => SameSince(run.ref, wk[v].file)'
      BY <1>2, <1>3, <3>1 DEF SnapshotHeld, SameSince
    <3>3. wk[v].pc \in Afoot => mem'[wk[v].file] = mem[wk[v].file]
      BY <1>1, <2>2 DEF Afoot
    <3>4. wk[v].pc \in Journaled => mem' = disk'
      <4>1. CASE WriterFree \/ wk[w].pc \in InApply
        BY <1>1, <2>2, <4>1 DEF WriterFree, Journaled, InApply
      <4>2. CASE t = mem[wk[w].file]
        BY <1>2, <1>3, <4>2 DEF SnapshotHeld
      <4> QED
        BY <4>1, <4>2 DEF FitsCall
    <3>5. wk[v].pc \in Journaled => wk[v].pc \in Afoot
      BY DEF Journaled, Afoot
    <3>6. /\ wk[v].pc \in Afoot => mem[wk[v].file].att.base = run.ref
          /\ wk[v].pc \in Afoot \ {"commit", "restore"} => mem[wk[v].file].att.outcome = ""
          /\ wk[v].pc \in Journaled => mem[wk[v].file].att.commitBase = HEAD
      BY <1>2 DEF SnapshotHeld
    <3>7. /\ wk[v].pc \in Afoot => mem'[wk[v].file].att.base = run.ref
          /\ wk[v].pc \in Afoot \ {"commit", "restore"} => mem'[wk[v].file].att.outcome = ""
          /\ wk[v].pc \in Journaled => mem'[wk[v].file].att.commitBase = HEAD
      BY <3>3, <3>5, <3>6
    <3> QED
      BY <1>3, <3>1, <3>2, <3>4, <3>7
  <2> QED
    BY <2>1, <2>2
<1> QED
  BY <1>4, <1>5 DEF SnapshotHeld

(* A dirty file is still explained when its task and the branch are. *)
LEMMA ServedExplains ==
    ASSUME NEW b, NEW x, NEW q \in [Files -> Task], NEW f \in Files, NEW t,
           Explains(b, x, q), f \in Dirty(b, x) => t = q[f]
    PROVE  Explains(b, x, [q EXCEPT ![f] = t])
  BY DEF Explains

(* Such a step keeps the worktree explained. *)
LEMMA ServedTree ==
    ASSUME LInv, NEW w \in Workers, NEW t, NEW p, Serves(w, t, p),
           FitsTree(w, t, work', p)
    PROVE  WorktreeKept'
<1> DEFINE f == wk[w].file
<1>1. /\ wk'[w].pc = p /\ wk'[w].file = f /\ mem'[f] = t
      /\ \A v \in Workers \ {w} :
             /\ wk'[v] = wk[v] /\ wk[v].file # f
             /\ wk[v].file \in Files => mem'[wk[v].file] = mem[wk[v].file]
             /\ wk[v].pc \notin {"idle", "exit"} => wk[v].file \in Files
             /\ wk[w].pc \in InApply => wk[v].pc \notin InApply
      /\ f \notin run.jobs
  BY OthersServed
<1>2. WorktreeKept /\ op.stage = "run" /\ op' = op /\ mem \in [Files -> Task] /\ f \in Files
  BY DEF LInv, IInv, TypeInv, TypeOK, Serves
<1>3. /\ run'.jobs = run.jobs /\ branch' = branch /\ env'.edits = env.edits
      /\ mem' = [mem EXCEPT ![f] = t] /\ disk' \in {disk, mem'}
  BY DEF Serves
<1> SUFFICES ASSUME env.edits = 0
             PROVE  /\ Explains(branch, work', mem') /\ Explains(branch, work', disk')
                    /\ run.jobs \cap Dirty(branch, work') = {}
                    /\ \A v \in Workers :
                           HandsOff(branch, work', mem'[wk'[v].file], wk'[v].file, wk'[v].pc)
  BY <1>2, <1>3 DEF WorktreeKept
<1>4. HandsOff(branch, work', mem'[wk'[w].file], wk'[w].file, wk'[w].pc)
  BY <1>1 DEF FitsTree
<1>5. CASE work' = work /\ (f \in Dirty(branch, work) => t = mem[f])
  <2>1. Explains(branch, work, mem) /\ Explains(branch, work, disk)
        /\ run.jobs \cap Dirty(branch, work) = {}
        /\ \A v \in Workers : HandsOff(branch, work, mem[wk[v].file], wk[v].file, wk[v].pc)
    BY <1>2 DEF WorktreeKept
  <2>2. Explains(branch, work', mem')
    BY <1>2, <1>3, <1>5, <2>1, ServedExplains
  <2>3. ASSUME NEW v \in Workers \ {w}
        PROVE  HandsOff(branch, work, mem'[wk'[v].file], wk'[v].file, wk'[v].pc)
    <3>1. HandsOff(branch, work, mem[wk[v].file], wk[v].file, wk[v].pc)
      BY <2>1
    <3>2. wk'[v] = wk[v] /\ (wk[v].pc \notin {"idle", "exit"} =>
                                 mem'[wk[v].file] = mem[wk[v].file])
      BY <1>1
    <3> QED
      BY <3>1, <3>2 DEF HandsOff
  <2> QED
    BY <1>3, <1>4, <1>5, <2>1, <2>2, <2>3
<1>6. CASE /\ wk[w].pc \in InApply
           /\ Dirty(branch, work') \subseteq {f}
           /\ f \in Dirty(branch, work') => /\ Explained(branch, work', t, f)
                                            /\ Explained(branch, work', disk[f], f)
  <2>1. Explains(branch, work', mem') /\ Explains(branch, work', disk')
    BY <1>1, <1>3, <1>6 DEF Explains
  <2>2. run.jobs \cap Dirty(branch, work') = {}
    BY <1>1, <1>6
  <2>3. ASSUME NEW v \in Workers \ {w}
        PROVE  HandsOff(branch, work', mem'[wk'[v].file], wk'[v].file, wk'[v].pc)
    <3>1. wk'[v] = wk[v] /\ wk[v].pc \notin InApply /\ wk[v].file # f
      BY <1>1, <1>6
    <3> QED
      BY <1>6, <3>1 DEF HandsOff, InApply
  <2> QED
    BY <1>4, <2>1, <2>2, <2>3
<1> QED
  BY <1>5, <1>6 DEF FitsTree

(* Together: such a step keeps LInv. *)
LEMMA Served ==
    ASSUME LInv, IInv', NEW w \in Workers, NEW t, NEW p, Serves(w, t, p),
           FitsTask(w, t), FitsCall(w, t, p), FitsTree(w, t, work', p),
           p \in Journaled => mem' = disk'
    PROVE  LInv'
<1>1. CommittedOnce'
  BY DEF LInv, CommittedOnce, Serves, HEAD
<1> QED
  BY <1>1, ServedTracked, ServedSnapshot, ServedTree DEF LInv
-----------------------------------------------------------------------------

(* The calls of a worker, one by one. *)

(* A fault is no edit. *)
LEMMA FaultEdits == ASSUME TypeOK, NEW r, Fault(r) PROVE env'.edits = env.edits
<1>1. env \in Env
  BY DEF TypeOK, Env
<1> DEFINE k == IF r = "ok" THEN env.faults ELSE env.faults + 1
<1>2. env' = [env EXCEPT !.faults = k]
  BY DEF Fault
<1> HIDE DEF k
<1> QED
  BY <1>1, <1>2 DEF Env

(* The end of an attempt touches neither its input nor its base, and adopts
   nothing that is not committed. *)
LEMMA FinishedRest ==
    ASSUME NEW t \in Task, NEW s \in {"done", "skipped", "failed", "needs_human"}
    PROVE  /\ Finished(t, s).att.base = t.att.base
           /\ Finished(t, s).att.input = t.att.input
           /\ Finished(t, s).att.commit = t.att.commit
           /\ Finished(t, s).att.partial = t.att.partial
           /\ Finished(t, s).att.outcome = s
           /\ Adopted(Finished(t, s).att) => Finished(t, s).adopted = t.att.output
           /\ ~ Adopted(Finished(t, s).att) => Finished(t, s).adopted = t.adopted
           /\ s # "skipped" => Finished(t, s).status = s
<1> DEFINE a == [t.att EXCEPT !.outcome = s]
           k == IF Adopted(a) THEN a.output ELSE t.adopted
           u == [t EXCEPT !.att = a, !.status = s, !.adopted = k]
<1>1. /\ a \in Attempt /\ a.base = t.att.base /\ a.input = t.att.input
      /\ a.commit = t.att.commit /\ a.partial = t.att.partial /\ a.outcome = s
      /\ a.output = t.att.output
  BY DEF Task, Attempt
<1> HIDE DEF a
<1>2. /\ Adopted(a) => k = t.att.output
      /\ ~ Adopted(a) => k = t.adopted
      /\ k \in Digest
  BY <1>1 DEF Task, Attempt
<1>3. Finished(t, s) = IF s = "skipped" /\ CanDiscard(u)
                       THEN [u EXCEPT !.status = "done"] ELSE u
  BY DEF Finished, a
<1> HIDE DEF k
<1>4. u \in Task /\ u.att = a /\ u.adopted = k /\ u.status = s
  BY <1>1, <1>2 DEF Task, Statuses
<1> HIDE DEF u
<1>5. [u EXCEPT !.status = "done"].att = a /\ [u EXCEPT !.status = "done"].adopted = k
  BY <1>4 DEF Task
<1> QED
  BY <1>1, <1>2, <1>3, <1>4, <1>5

(* A closure that ends in a save keeps LInv when its task fits. *)
LEMMA SaveKept ==
    ASSUME LInv, IInv', op.stage = "run", NEW w \in Workers, wk[w].file \in Files,
           NEW t \in Task, NEW pc, SaveOr(w, t, pc), UNCHANGED <<branch, op>>,
           FitsTask(w, t), FitsCall(w, t, pc), FitsTree(w, t, work', pc)
    PROVE  LInv'
<1>1. TypeOK
  BY DEF LInv, IInv, TypeInv
<1>2. PICK p \in {pc, "exit"} :
          /\ mem' = [mem EXCEPT ![wk[w].file] = t] /\ disk' \in {disk, mem'}
          /\ run' \in RunSet
          /\ wk' = [wk EXCEPT ![w].pc = p]
          /\ (p = pc /\ disk' = mem') \/ p = "exit"
  BY <1>1, SaveOrEffect
<1>3. env'.edits = env.edits
  BY <1>1, FaultEdits DEF SaveOr
<1>4. run'.ref = run.ref /\ run'.jobs = run.jobs
  BY <1>2 DEF RunSet
<1>5. Serves(w, t, p)
  BY <1>2, <1>3, <1>4 DEF Serves
<1>6. FitsCall(w, t, p) /\ FitsTree(w, t, work', p) /\ (p \in Journaled => mem' = disk')
  BY <1>2 DEF FitsCall, FitsTree, HandsOff, Afoot, Journaled
<1> QED
  BY <1>5, <1>6, Served

(* A worker that stops, and one that goes on, without a save. *)
LEMMA AbortKept ==
    ASSUME LInv, IInv', op.stage = "run", NEW w \in Workers, wk[w].file \in Files,
           NEW b \in BOOLEAN, Abort(w, b), UNCHANGED <<mem, disk, branch, op>>,
           env'.edits = env.edits, FitsTree(w, mem[wk[w].file], work', "exit")
    PROVE  LInv'
<1> DEFINE t == mem[wk[w].file]
<1>1. TypeOK /\ t \in Task /\ mem' = [mem EXCEPT ![wk[w].file] = t]
  BY SameTask DEF LInv, IInv, TypeInv
<1>2. wk' = [wk EXCEPT ![w].pc = "exit"] /\ run' \in RunSet
  BY <1>1, AbortEffect
<1>3. Serves(w, t, "exit")
  BY <1>1, <1>2 DEF Serves, RunSet
<1>4. FitsTask(w, t) /\ FitsCall(w, t, "exit")
  BY DEF FitsTask, FitsCall, Afoot, Journaled
<1> QED
  BY <1>3, <1>4, Served DEF Journaled

(* A call that only goes on keeps LInv. *)
LEMMA GotoKept ==
    ASSUME LInv, IInv', op.stage = "run", NEW w \in Workers, wk[w].file \in Files,
           NEW pc, Goto(w, pc), UNCHANGED <<mem, disk, branch, op, run>>,
           env'.edits = env.edits,
           FitsCall(w, mem[wk[w].file], pc), FitsTree(w, mem[wk[w].file], work', pc),
           pc \in Journaled => mem = disk
    PROVE  LInv'
<1> DEFINE t == mem[wk[w].file]
<1>1. t \in Task /\ mem' = [mem EXCEPT ![wk[w].file] = t]
  BY SameTask DEF LInv
<1>2. Serves(w, t, pc)
  BY <1>1 DEF Serves, Goto
<1>3. FitsTask(w, t)
  BY DEF FitsTask
<1> QED
  BY <1>2, <1>3, Served

(* The end of an attempt keeps LInv when it leaves the file as HEAD has it. *)
LEMMA FinishKept ==
    ASSUME LInv, IInv', op.stage = "run", NEW w \in Workers, wk[w].pc \in Afoot,
           NEW u \in Task, TaskTracked(branch, env.edits, u, wk[w].file),
           ~ Flying(branch, u, wk[w].file), u.status = "running", u.att.commit = None,
           u.commits = mem[wk[w].file].commits,
           NEW s \in {"done", "skipped", "failed", "needs_human"},
           Finish(w, u, s), UNCHANGED <<branch, op>>,
           WriterFree \/ wk[w].pc \in InApply,
           env.edits = 0 => /\ wk[w].file \notin Dirty(branch, work')
                            /\ \/ work' = work /\ wk[w].file \notin Dirty(branch, work)
                               \/ /\ wk[w].pc \in InApply
                                  /\ Dirty(branch, work') \subseteq {wk[w].file}
    PROVE  LInv'
<1> DEFINE f == wk[w].file
           v == Finished(u, s)
           pc == Looped(v)
<1>1. f \in Files /\ SameSince(run.ref, f) /\ branch \in Seq(Commit)
  BY InHand DEF LInv, IInv, TypeInv, TypeOK
<1>2. /\ v \in Task /\ v.discard = u.discard /\ v.commits = u.commits
      /\ v.att.num = u.att.num /\ v.status # "running"
  BY FinishedTask
<1>3. /\ v.att.base = u.att.base /\ v.att.input = u.att.input
      /\ v.att.commit = None /\ ~ Adopted(v.att)
  BY FinishedRest DEF Adopted
<1>4. v.adopted = u.adopted
  BY <1>3, FinishedRest
<1>5. SaveOr(w, v, pc) /\ pc \in {"begin", "idle"}
  BY DEF Finish, Looped
<1> HIDE DEF v, pc
<1>6. TaskTracked(branch, env.edits, v, f) /\ ~ Flying(branch, v, f)
  BY <1>1, <1>2, <1>3, <1>4, Reworked
<1>7. FitsTask(w, v)
  BY <1>2, <1>6 DEF FitsTask
<1>8. FitsCall(w, v, pc)
  BY <1>1, <1>5 DEF FitsCall, Afoot, Journaled
<1>9. FitsTree(w, v, work', pc)
  BY <1>5 DEF FitsTree, HandsOff
<1> QED
  BY <1>1, <1>2, <1>5, <1>7, <1>8, <1>9, SaveKept

(* The file of an attempt that has not been written is as HEAD has it. *)
LEMMA Untouched ==
    ASSUME LInv, NEW w \in Workers, op.stage = "run", env.edits = 0
    PROVE  /\ wk[w].pc \in {"begin", "input", "repair", "think", "record"} =>
                  wk[w].file \notin Dirty(branch, work)
           /\ wk[w].pc \in {"verify", "write"} => Dirty(branch, work) = {}
  BY DEF LInv, WorktreeKept, HandsOff

(* Starting or resuming an attempt keeps LInv. *)
LEMMA BeginKept ==
    ASSUME LInv, IInv', NEW w \in Workers, Begin(w)
    PROVE  LInv'
<1> DEFINE f == wk[w].file
           t == mem[f]
<1>1. /\ op.stage = "run" /\ wk[w].pc = "begin" /\ UNCHANGED <<branch, work, op>>
      /\ TypeOK /\ mem \in [Files -> Task] /\ branch \in Seq(Commit)
      /\ IInv /\ BranchTracked /\ run.ref \in 0..Len(branch)
  BY DEF Begin, At, LInv, IInv, TypeInv, TypeOK, FilesHeld, HEAD
<1>2. f \in Files /\ t \in Task /\ t.att \in Attempt /\ t.status # "running"
  BY <1>1, Holding DEF IInv, AttemptsTracked
<1>3. TaskTracked(branch, env.edits, t, f)
  BY <1>1, <1>2 DEF BranchTracked, QueueTracked
<1>4. ~ Flying(branch, t, f)
  BY <1>1, <1>2 DEF IInv, DiscardsSaved, Prepared, Restored, Flying, Found, Validated
<1>5. BytesAt(branch, run.ref, f) = BytesNow(branch, f)
  BY <1>1 DEF LInv, SnapshotHeld, SameSince
<1>6. env.edits = 0 => f \notin Dirty(branch, work)
  BY <1>1, Untouched
<1>7. ASSUME NEW a \in {Resumed(t), Fresh(t)}, WriterFree,
             a = Resumed(t) => MayResume(t),
             SaveOr(w, [t EXCEPT !.att = a, !.status = "running", !.resume = FALSE], "input")
      PROVE  LInv'
  <2> DEFINE v == [t EXCEPT !.att = a, !.status = "running", !.resume = FALSE]
  <2>1. run.ref \in Nat /\ a \in Attempt
    <3>1. run.ref \in Nat
      BY <1>1 DEF TypeOK
    <3> QED
      BY <1>2, <3>1, AttemptTypes
  <2>2. /\ v \in Task /\ v.att = a /\ v.discard = t.discard /\ v.commits = t.commits
        /\ v.adopted = t.adopted
    BY <1>2, <2>1 DEF Task, Statuses
  <2> HIDE DEF v
  <2>3. a.base = run.ref /\ a.commit = None /\ a.outcome = "" /\ a.output = None
    <3>1. Resumed(t).base = run.ref /\ Resumed(t).commit = None /\ Resumed(t).outcome = ""
          /\ Resumed(t).output = None
      BY <1>2, <2>1 DEF Resumed, Attempt
    <3>2. Fresh(t).base = run.ref /\ Fresh(t).commit = None /\ Fresh(t).outcome = ""
          /\ Fresh(t).output = None
      BY DEF Fresh, NoAttempt
    <3> QED
      BY <3>1, <3>2
  <2>4. a.input \in {None, BytesAt(branch, run.ref, f)}
    <3>1. CASE a = Fresh(t)
      BY <3>1 DEF Fresh, NoAttempt
    <3>2. CASE a = Resumed(t)
      <4>1. Resumed(t).input = t.att.input
        BY <1>2 DEF Resumed, Attempt
      <4>2. t.att.base = run.ref
        BY <1>7, <3>2 DEF MayResume
      <4> QED
        BY <1>3, <3>2, <4>1, <4>2 DEF TaskTracked, AttemptBased
    <3> QED
      BY <3>1, <3>2
  <2>5. \/ a.num = t.att.num + 1
        \/ a.num = t.att.num /\ ~ Adopted(t.att)
    <3>1. CASE a = Fresh(t)
      BY <3>1 DEF Fresh, NoAttempt
    <3>2. CASE a = Resumed(t)
      <4>1. Resumed(t).num = t.att.num
        BY <1>2 DEF Resumed, Attempt
      <4> QED
        BY <1>7, <3>2, <4>1 DEF MayResume, UnfinishedRepair
    <3> QED
      BY <3>1, <3>2
  <2>6. TaskTracked(branch, env.edits, v, f) /\ ~ Flying(branch, v, f)
    BY <1>1, <1>2, <1>3, <1>4, <1>5, <2>2, <2>3, <2>4, <2>5, Begun
  <2>7. FitsTask(w, v)
    BY <2>2, <2>6 DEF FitsTask
  <2>8. FitsCall(w, v, "input")
    BY <1>7, <2>2, <2>3 DEF FitsCall, Journaled
  <2>9. FitsTree(w, v, work', "input")
    BY <1>1, <1>6 DEF FitsTree, HandsOff
  <2>10. SaveOr(w, v, "input")
    BY <1>7 DEF v
  <2> QED
    BY <1>1, <1>2, <2>2, <2>7, <2>8, <2>9, <2>10, SaveKept
<1>8. ASSUME Fault("before"), Abort(w, FALSE), UNCHANGED <<mem, disk>>
      PROVE  LInv'
  <2>1. env'.edits = env.edits /\ FALSE \in BOOLEAN
    BY <1>1, <1>8, FaultEdits
  <2>2. FitsTree(w, mem[wk[w].file], work', "exit")
    BY <1>1 DEF FitsTree, HandsOff
  <2> QED
    BY <1>1, <1>2, <1>8, <2>1, <2>2, AbortKept
<1> QED
  BY <1>7, <1>8 DEF Begin

(* A call that fails before it did anything keeps LInv. *)
LEMMA FaultKept ==
    ASSUME LInv, IInv', op.stage = "run", NEW w \in Workers, wk[w].file \in Files,
           NEW b \in BOOLEAN, Abort(w, b), NEW r, Fault(r),
           UNCHANGED <<mem, disk, branch, work, op>>
    PROVE  LInv'
<1>1. env'.edits = env.edits
  BY FaultEdits DEF LInv, IInv, TypeInv
<1>2. FitsTree(w, mem[wk[w].file], work', "exit")
  BY DEF FitsTree, HandsOff
<1> QED
  BY <1>1, <1>2, AbortKept

(* The end of the attempt in hand, its record as it is. *)
LEMMA DoneKept ==
    ASSUME LInv, IInv', op.stage = "run", NEW w \in Workers, wk[w].pc \in Afoot,
           NEW s \in {"done", "skipped", "failed", "needs_human"},
           Finish(w, mem[wk[w].file], s), UNCHANGED <<branch, op>>,
           WriterFree \/ wk[w].pc \in InApply,
           env.edits = 0 => /\ wk[w].file \notin Dirty(branch, work')
                            /\ \/ work' = work /\ wk[w].file \notin Dirty(branch, work)
                               \/ /\ wk[w].pc \in InApply
                                  /\ Dirty(branch, work') \subseteq {wk[w].file}
    PROVE  LInv'
<1>1. /\ mem[wk[w].file] \in Task
      /\ TaskTracked(branch, env.edits, mem[wk[w].file], wk[w].file)
      /\ ~ Flying(branch, mem[wk[w].file], wk[w].file)
      /\ mem[wk[w].file].status = "running"
      /\ mem[wk[w].file].att.commit = None
  BY InHand
<1> QED
  BY <1>1, FinishKept

(* What an attempt in hand becomes when its record alone changes. *)
LEMMA Changed ==
    ASSUME LInv, NEW w \in Workers, op.stage = "run", wk[w].pc \in Afoot,
           NEW v \in Task, v.discard = mem[wk[w].file].discard,
           v.adopted = mem[wk[w].file].adopted, v.commits = mem[wk[w].file].commits,
           v.status = "running", v.att.num = mem[wk[w].file].att.num,
           v.att.base = mem[wk[w].file].att.base,
           v.att.input \in {mem[wk[w].file].att.input, BytesAt(branch, run.ref, wk[w].file)},
           v.att.commit = None, v.att.outcome \in {"", "validated"},
           v.att.output # Foreign
    PROVE  /\ FitsTask(w, v) /\ v.att.base = run.ref
           /\ TaskTracked(branch, env.edits, v, wk[w].file)
           /\ ~ Flying(branch, v, wk[w].file)
<1> DEFINE f == wk[w].file
           t == mem[f]
<1>1. /\ f \in Files /\ t \in Task /\ branch \in Seq(Commit)
      /\ TaskTracked(branch, env.edits, t, f) /\ ~ Flying(branch, t, f)
      /\ t.status = "running" /\ t.att.base = run.ref
  BY InHand DEF LInv, IInv, TypeInv, TypeOK
<1>2. TaskTracked(branch, env.edits, v, f) /\ ~ Flying(branch, v, f)
  BY <1>1, Reworked
<1> QED
  BY <1>1, <1>2 DEF FitsTask

(* The bytes an open attempt knows are not somebody else's. *)
LEMMA OpenOutput ==
    ASSUME LInv, NEW w \in Workers, op.stage = "run", wk[w].pc \in Afoot
    PROVE  mem[wk[w].file].att.output # Foreign
  BY InHand DEF TaskTracked, AttemptBased

(* Reading the source from the snapshot keeps LInv. *)
LEMMA ReadInputKept ==
    ASSUME LInv, IInv', NEW w \in Workers, ReadInput(w)
    PROVE  LInv'
<1> DEFINE f == wk[w].file
           t == mem[f]
           seen == TreeAt(run.ref)[f]
           a == [t.att EXCEPT !.input = seen]
           u == [t EXCEPT !.att = a]
           v == [u EXCEPT !.input = seen]
<1>1. /\ op.stage = "run" /\ wk[w].pc = "input" /\ UNCHANGED <<branch, work, op>>
      /\ wk[w].pc \in Afoot /\ IInv
  BY DEF ReadInput, At, LInv, Afoot
<1>2. /\ f \in Files /\ t \in Task /\ t.att \in Attempt /\ t.status = "running"
      /\ t.att.commit = None /\ t.att.outcome = "" /\ t.att.output # Foreign
  BY <1>1, InHand, Holding, OpenOutput DEF LInv, SnapshotHeld, Afoot
<1>3. env.edits = 0 => f \notin Dirty(branch, work)
  BY <1>1, Untouched
<1>4. CASE WriterFree /\ run.cancelled /\ Finish(w, t, "needs_human")
  BY <1>1, <1>3, <1>4, DoneKept
<1>5. CASE Fault("before") /\ Abort(w, FALSE) /\ UNCHANGED <<mem, disk>>
  BY <1>1, <1>2, <1>5, FaultKept
<1>6. seen \in Digest /\ seen = BytesAt(branch, run.ref, f)
  BY <1>1, <1>2, SnapshotBytes, Readings
<1>7. /\ a \in Attempt /\ a.input = seen /\ a.outcome = t.att.outcome /\ a.num = t.att.num
      /\ a.base = t.att.base /\ a.commit = t.att.commit /\ a.output = t.att.output
  BY <1>2, <1>6 DEF Attempt
<1> HIDE DEF a
<1>8. /\ u \in Task /\ u.discard = t.discard /\ u.commits = t.commits /\ u.att = a
      /\ u.status = t.status /\ u.adopted = t.adopted
  BY <1>2, <1>7 DEF Task
<1> HIDE DEF u
<1>9. /\ v \in Task /\ v.discard = t.discard /\ v.commits = t.commits /\ v.att = a
      /\ v.status = t.status /\ v.adopted = t.adopted
  BY <1>6, <1>8 DEF Task
<1> HIDE DEF v, seen
<1>10. CASE WriterFree /\ Finish(w, u, "needs_human")
  <2>1. TaskTracked(branch, env.edits, u, f) /\ ~ Flying(branch, u, f)
    BY <1>1, <1>2, <1>6, <1>7, <1>8, Changed
  <2> QED
    BY <1>1, <1>2, <1>3, <1>7, <1>8, <1>10, <2>1, FinishKept
<1>11. CASE WriterFree /\ SaveOr(w, v, "repair")
  <2>1. FitsTask(w, v) /\ v.att.base = run.ref
    BY <1>1, <1>2, <1>6, <1>7, <1>9, Changed
  <2>2. FitsCall(w, v, "repair")
    BY <1>2, <1>7, <1>9, <1>11, <2>1 DEF FitsCall, Journaled
  <2>3. FitsTree(w, v, work', "repair")
    BY <1>1, <1>3 DEF FitsTree, HandsOff
  <2> QED
    BY <1>1, <1>2, <1>9, <1>11, <2>1, <2>2, <2>3, SaveKept
<1> QED
  BY <1>4, <1>5, <1>10, <1>11 DEF ReadInput, u, v, a, seen

(* Opening the repair sidecar keeps LInv. *)
LEMMA OpenRepairKept ==
    ASSUME LInv, IInv', NEW w \in Workers, OpenRepair(w)
    PROVE  LInv'
<1> DEFINE f == wk[w].file
           t == mem[f]
           a == [t.att EXCEPT !.repair = TRUE]
           u == [t EXCEPT !.att = a]
<1>1. /\ op.stage = "run" /\ wk[w].pc = "repair" /\ UNCHANGED <<branch, work, op>>
      /\ wk[w].pc \in Afoot /\ IInv /\ WriterFree
  BY DEF OpenRepair, At, LInv, Afoot
<1>2. /\ f \in Files /\ t \in Task /\ t.att \in Attempt /\ t.status = "running"
      /\ t.att.commit = None /\ t.att.outcome = "" /\ t.att.output # Foreign
      /\ t.att.base = run.ref
  BY <1>1, InHand, Holding, OpenOutput DEF LInv, SnapshotHeld, Afoot
<1>3. env.edits = 0 => f \notin Dirty(branch, work)
  BY <1>1, Untouched
<1>4. /\ a \in Attempt /\ a.input = t.att.input /\ a.outcome = t.att.outcome
      /\ a.num = t.att.num /\ a.base = t.att.base /\ a.commit = t.att.commit
      /\ a.output = t.att.output
  BY <1>2 DEF Attempt
<1> HIDE DEF a
<1>5. /\ u \in Task /\ u.discard = t.discard /\ u.commits = t.commits /\ u.att = a
      /\ u.status = t.status /\ u.adopted = t.adopted
  BY <1>2, <1>4 DEF Task
<1> HIDE DEF u
<1>6. CASE SaveOr(w, u, "think")
  <2>1. FitsTask(w, u) /\ u.att.base = run.ref
    BY <1>1, <1>2, <1>4, <1>5, Changed
  <2>2. FitsCall(w, u, "think")
    BY <1>1, <1>2, <1>4, <1>5, <2>1 DEF FitsCall, Journaled
  <2>3. FitsTree(w, u, work', "think")
    BY <1>1, <1>3 DEF FitsTree, HandsOff
  <2> QED
    BY <1>1, <1>2, <1>5, <1>6, <2>1, <2>2, <2>3, SaveKept
<1>7. CASE Goto(w, "think") /\ UNCHANGED <<mem, disk, run, env>>
  <2>1. FitsCall(w, t, "think")
    BY <1>1, <1>2 DEF FitsCall, Journaled
  <2>2. FitsTree(w, t, work', "think")
    BY <1>1, <1>3 DEF FitsTree, HandsOff
  <2> QED
    BY <1>1, <1>2, <1>7, <2>1, <2>2, GotoKept DEF Journaled
<1>8. CASE Fault("before") /\ Abort(w, TRUE) /\ UNCHANGED <<mem, disk>>
  BY <1>1, <1>2, <1>8, FaultKept
<1> QED
  BY <1>6, <1>7, <1>8 DEF OpenRepair, u, a

(* Journaling the digest of a candidate keeps LInv. *)
LEMMA ValidateKept ==
    ASSUME LInv, IInv', NEW w \in Workers, Validate(w)
    PROVE  LInv'
<1> DEFINE f == wk[w].file
           t == mem[f]
<1>1. /\ op.stage = "run" /\ wk[w].pc = "think" /\ UNCHANGED <<branch, work, op, wk>>
      /\ wk[w].pc \in Afoot /\ IInv /\ WriterFree /\ TypeOK
  BY DEF Validate, At, LInv, Afoot, IInv, TypeInv
<1>2. /\ f \in Files /\ t \in Task /\ t.att \in Attempt /\ t.status = "running"
      /\ t.att.commit = None /\ t.att.outcome = "" /\ t.att.base = run.ref
  BY <1>1, InHand, Holding DEF LInv, SnapshotHeld, Afoot
<1>3. env.edits = 0 => f \notin Dirty(branch, work)
  BY <1>1, Untouched
<1>4. PICK c \in Contents, r \in SaveResults :
          /\ Fault(r) /\ Save([mem EXCEPT ![f].att.output = c], r)
          /\ run' = [run EXCEPT !.failure = run.failure \/ r # "ok"]
  BY DEF Validate
<1> DEFINE a == [t.att EXCEPT !.output = c]
           u == [t EXCEPT !.att = a]
<1>5. /\ a \in Attempt /\ a.input = t.att.input /\ a.outcome = t.att.outcome
      /\ a.num = t.att.num /\ a.base = t.att.base /\ a.commit = t.att.commit
      /\ a.output # Foreign
  BY <1>2 DEF Attempt, Digest, Bytes
<1>6. /\ u \in Task /\ u.discard = t.discard /\ u.commits = t.commits /\ u.att = a
      /\ u.status = t.status /\ u.adopted = t.adopted
  BY <1>2, <1>5 DEF Task
<1>7. mem' = [mem EXCEPT ![f] = u] /\ disk' \in {disk, mem'}
  BY <1>1, <1>2, <1>4 DEF Save, TypeOK
<1> HIDE DEF a, u
<1>8. run'.ref = run.ref /\ run'.jobs = run.jobs
  BY <1>1, <1>4 DEF TypeOK
<1>9. wk' = [wk EXCEPT ![w].pc = "think"]
  BY <1>1 DEF TypeOK
<1>10. env'.edits = env.edits
  BY <1>1, <1>4, FaultEdits
<1>11. Serves(w, u, "think")
  BY <1>1, <1>2, <1>6, <1>7, <1>8, <1>9, <1>10 DEF Serves
<1>12. FitsTask(w, u) /\ u.att.base = run.ref
  BY <1>1, <1>2, <1>5, <1>6, Changed
<1>13. FitsCall(w, u, "think")
  BY <1>1, <1>2, <1>5, <1>6, <1>12 DEF FitsCall, Journaled
<1>14. FitsTree(w, u, work', "think")
  BY <1>1, <1>3 DEF FitsTree, HandsOff
<1> QED
  BY <1>11, <1>12, <1>13, <1>14, Served DEF Journaled

(* An attempt that fails, is held or stops the run keeps LInv. *)
LEMMA DeclineKept ==
    ASSUME LInv, IInv', NEW w \in Workers, Decline(w)
    PROVE  LInv'
<1> DEFINE f == wk[w].file
           t == mem[f]
           u == Finished(t, "needs_human")
<1>1. /\ op.stage = "run" /\ wk[w].pc = "think" /\ UNCHANGED <<branch, work, op>>
      /\ wk[w].pc \in Afoot /\ IInv /\ WriterFree /\ TypeOK /\ branch \in Seq(Commit)
  BY DEF Decline, At, LInv, Afoot, IInv, TypeInv, TypeOK
<1>2. /\ f \in Files /\ t \in Task /\ t.status = "running" /\ t.att.commit = None
      /\ TaskTracked(branch, env.edits, t, f) /\ ~ Flying(branch, t, f)
  BY <1>1, InHand
<1>3. env.edits = 0 => f \notin Dirty(branch, work)
  BY <1>1, Untouched
<1>4. CASE Finish(w, t, "needs_human")
  BY <1>1, <1>3, <1>4, DoneKept
<1>5. CASE Finish(w, t, "failed")
  BY <1>1, <1>3, <1>5, DoneKept
<1>6. ASSUME NEW r \in SaveResults, Fault(r), Save([mem EXCEPT ![f] = u], r),
             Abort(w, r # "ok")
      PROVE  LInv'
  <2>1. /\ u \in Task /\ u.discard = t.discard /\ u.commits = t.commits
        /\ u.att.num = t.att.num /\ u.status # "running"
    BY <1>2, FinishedTask
  <2>2. /\ u.att.base = t.att.base /\ u.att.input = t.att.input /\ u.att.commit = None
        /\ u.adopted = t.adopted
    BY <1>2, FinishedRest DEF Adopted
  <2>3. (r # "ok") \in BOOLEAN
    OBVIOUS
  <2>4. wk' = [wk EXCEPT ![w].pc = "exit"] /\ run' \in RunSet
    BY <1>1, <1>6, <2>3, AbortEffect
  <2> HIDE DEF u
  <2>5. mem' = [mem EXCEPT ![f] = u] /\ disk' \in {disk, mem'} /\ env'.edits = env.edits
    BY <1>1, <1>6, FaultEdits DEF Save
  <2>6. Serves(w, u, "exit")
    BY <1>1, <1>2, <2>1, <2>4, <2>5 DEF Serves, RunSet
  <2>7. FitsTask(w, u)
    BY <1>1, <1>2, <2>1, <2>2, Reworked DEF FitsTask
  <2>8. FitsCall(w, u, "exit")
    BY <1>1 DEF FitsCall, Afoot, Journaled
  <2>9. FitsTree(w, u, work', "exit")
    BY <1>1, <1>3 DEF FitsTree, HandsOff
  <2> QED
    BY <2>6, <2>7, <2>8, <2>9, Served DEF Journaled
<1> QED
  BY <1>4, <1>5, <1>6 DEF Decline

(* A reviewed answer without change keeps LInv. *)
LEMMA SkipKept ==
    ASSUME LInv, IInv', NEW w \in Workers, Skip(w)
    PROVE  LInv'
<1> DEFINE f == wk[w].file
           t == mem[f]
           a == [t.att EXCEPT !.output = t.att.input]
           u == [t EXCEPT !.att = a]
<1>1. /\ op.stage = "run" /\ wk[w].pc = "think" /\ UNCHANGED <<branch, work, op>>
      /\ wk[w].pc \in Afoot /\ IInv /\ WriterFree /\ TypeOK /\ branch \in Seq(Commit)
  BY DEF Skip, At, LInv, Afoot, IInv, TypeInv, TypeOK
<1>2. /\ f \in Files /\ t \in Task /\ t.att \in Attempt /\ t.status = "running"
      /\ t.att.commit = None /\ t.att.outcome = ""
      /\ TaskTracked(branch, env.edits, t, f) /\ ~ Flying(branch, t, f)
      /\ SameSince(run.ref, f) /\ t.att.base = run.ref
  BY <1>1, InHand, Holding DEF LInv, SnapshotHeld, Afoot
<1>3. env.edits = 0 => f \notin Dirty(branch, work)
  BY <1>1, Untouched
<1>4. /\ a \in Attempt /\ a.input = t.att.input /\ a.outcome = t.att.outcome
      /\ a.num = t.att.num /\ a.base = t.att.base /\ a.commit = t.att.commit
  BY <1>2 DEF Attempt
<1> HIDE DEF a
<1>5. /\ u \in Task /\ u.discard = t.discard /\ u.commits = t.commits /\ u.att = a
      /\ u.status = t.status /\ u.adopted = t.adopted
  BY <1>2, <1>4 DEF Task
<1> HIDE DEF u
<1>6. CASE Finish(w, u, "skipped")
  <2> DEFINE v == Finished(u, "skipped")
             pc == Looped(v)
  <2>1. /\ v \in Task /\ v.discard = u.discard /\ v.commits = u.commits
        /\ v.att.num = u.att.num /\ v.status # "running"
    BY <1>5, FinishedTask
  <2>2. /\ v.att.base = u.att.base /\ v.att.input = u.att.input
        /\ v.att.commit = None /\ v.adopted = u.adopted
    BY <1>2, <1>4, <1>5, FinishedRest DEF Adopted
  <2>3. SaveOr(w, v, pc) /\ pc \in {"begin", "idle"}
    BY <1>6 DEF Finish, Looped
  <2> HIDE DEF v, pc
  <2>4. TaskTracked(branch, env.edits, v, f) /\ ~ Flying(branch, v, f)
    BY <1>1, <1>2, <1>4, <1>5, <2>1, <2>2, Reworked, ZenonT(60)
  <2>5. FitsTask(w, v)
    BY <1>5, <2>1, <2>4 DEF FitsTask
  <2>6. FitsCall(w, v, pc)
    BY <1>1, <1>2, <2>3 DEF FitsCall, Afoot, Journaled
  <2>7. FitsTree(w, v, work', pc)
    BY <1>1, <1>3, <2>3 DEF FitsTree, HandsOff
  <2> QED
    BY <1>1, <1>2, <2>1, <2>3, <2>5, <2>6, <2>7, SaveKept
<1>7. CASE Fault("before") /\ Abort(w, TRUE) /\ UNCHANGED <<mem, disk>>
  BY <1>1, <1>2, <1>7, FaultKept
<1> QED
  BY <1>6, <1>7 DEF Skip, u, a

(* Entering the writer with a candidate keeps LInv: the attempt is journaled
   on HEAD, and the worktree is clean. *)
LEMMA AdoptKept ==
    ASSUME LInv, IInv', NEW w \in Workers, Adopt(w)
    PROVE  LInv'
<1> DEFINE f == wk[w].file
           t == mem[f]
<1>1. /\ op.stage = "run" /\ wk[w].pc = "think" /\ UNCHANGED <<branch, work, op>>
      /\ wk[w].pc \in Afoot /\ IInv /\ WriterFree
      /\ run.accepted = HEAD /\ Clean /\ run.accepted \in Nat
  BY DEF Adopt, MayAdopt, At, LInv, Afoot, IInv, TypeInv, TypeOK
<1>2. /\ f \in Files /\ t \in Task /\ t.att \in Attempt /\ t.status = "running"
      /\ t.att.commit = None /\ t.att.outcome = "" /\ t.att.output # Foreign
      /\ t.att.base = run.ref
  BY <1>1, InHand, Holding, OpenOutput DEF LInv, SnapshotHeld, Afoot
<1>3. Dirty(branch, work) = {}
  BY <1>1, Changes DEF Clean
<1>4. ASSUME NEW p \in BOOLEAN,
             SaveOr(w, [t EXCEPT !.att.commitBase = run.accepted, !.att.partial = p], "verify")
      PROVE  LInv'
  <2> DEFINE a == [t.att EXCEPT !.commitBase = run.accepted, !.partial = p]
             u == [t EXCEPT !.att = a]
  <2>1. /\ a \in Attempt /\ a.outcome = t.att.outcome /\ a.output = t.att.output
        /\ a.input = t.att.input /\ a.num = t.att.num /\ a.base = t.att.base
        /\ a.commit = t.att.commit /\ a.commitBase = HEAD
    BY <1>1, <1>2 DEF Attempt, CommitId
  <2>2. u = [t EXCEPT !.att.commitBase = run.accepted, !.att.partial = p]
    BY <1>2 DEF Task, Attempt
  <2> HIDE DEF a
  <2>3. /\ u \in Task /\ u.discard = t.discard /\ u.commits = t.commits /\ u.att = a
        /\ u.status = t.status /\ u.adopted = t.adopted
    BY <1>2, <2>1 DEF Task
  <2> HIDE DEF u
  <2>4. SaveOr(w, u, "verify")
    BY <1>4, <2>2
  <2>5. FitsTask(w, u) /\ u.att.base = run.ref
    BY <1>1, <1>2, <2>1, <2>3, Changed
  <2>6. FitsCall(w, u, "verify")
    BY <1>1, <1>2, <2>1, <2>3, <2>5 DEF FitsCall
  <2>7. FitsTree(w, u, work', "verify")
    BY <1>1, <1>3 DEF FitsTree, HandsOff
  <2> QED
    BY <1>1, <1>2, <2>3, <2>4, <2>5, <2>6, <2>7, SaveKept
<1>5. CASE Fault("before") /\ Abort(w, TRUE) /\ UNCHANGED <<mem, disk>>
  BY <1>1, <1>2, <1>5, FaultKept
<1> QED
  BY <1>4, <1>5 DEF Adopt

(* A journaled attempt explains its own file, before and after the write. *)
LEMMA HeldExplained ==
    ASSUME LInv, NEW w \in Workers, op.stage = "run", wk[w].pc \in Journaled,
           NEW x, x[wk[w].file] \in {mem[wk[w].file].att.input, mem[wk[w].file].att.output}
    PROVE  /\ Explained(branch, x, mem[wk[w].file], wk[w].file)
           /\ Explained(branch, x, disk[wk[w].file], wk[w].file)
<1>1. wk[w].pc \in Afoot
  BY DEF Journaled, Afoot
<1>2. mem = disk /\ mem[wk[w].file].att.commitBase = HEAD
  BY DEF LInv, SnapshotHeld
<1>3. mem[wk[w].file].status = "running"
  BY <1>1, InHand
<1>4. HEAD \in Nat /\ HEAD = Len(branch)
  BY Branch DEF LInv, IInv, TypeInv, TypeOK, HEAD
<1> QED
  BY <1>2, <1>3, <1>4 DEF Explained, AttemptCommitBase

(* Restoring the only dirty file cleans the worktree. *)
LEMMA RolledBack ==
    ASSUME LInv, NEW f \in Files, work' = [work EXCEPT ![f] = HeadTree[f]],
           UNCHANGED branch, Dirty(branch, work) \subseteq {f}
    PROVE  Dirty(branch, work') = {}
<1>1. work \in [Files -> Bytes] /\ HeadTree[f] = BytesNow(branch, f)
  BY Readings DEF LInv, IInv, TypeInv, TypeOK
<1>2. work' = [work EXCEPT ![f] = BytesNow(branch, f)]
  BY <1>1
<1> QED
  BY <1>1, <1>2 DEF Dirty

(* Comparing the source with the input before the write keeps LInv. *)
LEMMA VerifySourceKept ==
    ASSUME LInv, IInv', NEW w \in Workers, VerifySource(w)
    PROVE  LInv'
<1> DEFINE f == wk[w].file
           t == mem[f]
<1>1. /\ op.stage = "run" /\ wk[w].pc = "verify" /\ UNCHANGED <<branch, work, op>>
      /\ wk[w].pc \in Afoot /\ wk[w].pc \in InApply /\ wk[w].pc \in Journaled
  BY DEF VerifySource, At, Afoot, InApply, Journaled
<1>2. /\ f \in Files /\ t \in Task /\ t.att.base = run.ref /\ mem = disk
      /\ t.att.outcome = "" /\ t.att.commitBase = HEAD
  BY <1>1, InHand DEF LInv, SnapshotHeld, Afoot
<1>3. env.edits = 0 => Dirty(branch, work) = {}
  BY <1>1, Untouched
<1>4. CASE Finish(w, t, "needs_human")
  BY <1>1, <1>3, <1>4, DoneKept
<1>5. CASE Goto(w, "write") /\ UNCHANGED <<mem, disk, run, env>>
  <2>1. FitsTree(w, t, work', "write")
    BY <1>1, <1>3 DEF FitsTree, HandsOff
  <2>2. FitsCall(w, t, "write")
    BY <1>1, <1>2 DEF FitsCall
  <2> QED
    BY <1>1, <1>2, <1>5, <2>1, <2>2, GotoKept
<1>6. CASE Fault("before") /\ Abort(w, TRUE) /\ UNCHANGED <<mem, disk>>
  BY <1>1, <1>2, <1>6, FaultKept
<1> QED
  BY <1>4, <1>5, <1>6 DEF VerifySource

(* Writing the candidate to the worktree keeps LInv. *)
LEMMA WriteSourceKept ==
    ASSUME LInv, IInv', NEW w \in Workers, WriteSource(w)
    PROVE  LInv'
<1> DEFINE f == wk[w].file
           t == mem[f]
<1>1. /\ op.stage = "run" /\ wk[w].pc = "write" /\ UNCHANGED <<mem, disk, branch, op>>
      /\ wk[w].pc \in Afoot /\ wk[w].pc \in InApply /\ wk[w].pc \in Journaled
      /\ work \in [Files -> Bytes]
  BY DEF WriteSource, At, LInv, Afoot, InApply, Journaled, IInv, TypeInv, TypeOK
<1>2. /\ f \in Files /\ t \in Task /\ t.att.base = run.ref /\ mem = disk
      /\ t.att.outcome = "" /\ t.att.commitBase = HEAD
  BY <1>1, InHand DEF LInv, SnapshotHeld, Afoot
<1>3. env.edits = 0 => Dirty(branch, work) = {}
  BY <1>1, Untouched
<1>4. CASE /\ work' = [work EXCEPT ![f] = t.att.output]
           /\ Goto(w, "check") /\ UNCHANGED <<run, env>>
  <2>1. work'[f] = t.att.output /\ (env.edits = 0 => Dirty(branch, work') \subseteq {f})
    BY <1>1, <1>2, <1>3, <1>4 DEF Dirty
  <2>2. Explained(branch, work', t, f) /\ Explained(branch, work', disk[f], f)
    BY <1>1, <2>1, HeldExplained
  <2>3. FitsTree(w, t, work', "check")
    BY <1>1, <2>1, <2>2 DEF FitsTree, HandsOff
  <2>4. FitsCall(w, t, "check")
    BY <1>1, <1>2 DEF FitsCall
  <2> QED
    BY <1>1, <1>2, <1>4, <2>3, <2>4, GotoKept
<1>5. CASE Fault("before") /\ Abort(w, TRUE) /\ UNCHANGED work
  BY <1>1, <1>2, <1>5, FaultKept
<1> QED
  BY <1>4, <1>5 DEF WriteSource

(* Until its commit nothing but the file of the attempt in the writer differs,
   and its task explains why. *)
LEMMA InWriter ==
    ASSUME LInv, NEW w \in Workers, op.stage = "run",
           wk[w].pc \in {"check", "journal", "commit"}
    PROVE  /\ wk[w].file \in Files /\ mem[wk[w].file] \in Task
           /\ wk[w].pc \in Afoot /\ wk[w].pc \in InApply
           /\ mem = disk /\ mem[wk[w].file].att.base = run.ref
           /\ mem[wk[w].file].att.commitBase = HEAD
           /\ env.edits = 0 =>
                  /\ Dirty(branch, work) \subseteq {wk[w].file}
                  /\ Explained(branch, work, mem[wk[w].file], wk[w].file)
                  /\ Explained(branch, work, disk[wk[w].file], wk[w].file)
<1> DEFINE f == wk[w].file
<1>1. wk[w].pc \in Afoot /\ wk[w].pc \in InApply /\ wk[w].pc \in Journaled
  BY DEF Afoot, InApply, Journaled
<1>2. /\ f \in Files /\ mem[f] \in Task /\ mem[f].att.base = run.ref
      /\ mem = disk /\ mem[f].att.commitBase = HEAD
  BY <1>1, InHand DEF LInv, SnapshotHeld
<1>3. env.edits = 0 => Dirty(branch, work) \subseteq {f} /\ work[f] = mem[f].att.output
  BY DEF LInv, WorktreeKept, HandsOff
<1> QED
  BY <1>1, <1>2, <1>3, HeldExplained

(* Restoring the file, and what follows it, keeps LInv. *)
LEMMA RollBackKept ==
    ASSUME LInv, IInv', NEW w \in Workers, RollBack(w)
    PROVE  LInv'
<1> DEFINE f == wk[w].file
<1>1. /\ op.stage = "run" /\ wk[w].pc \in {"restore", "undo"} /\ UNCHANGED <<branch, op>>
      /\ wk[w].pc \in InApply /\ IInv
  BY DEF RollBack, At, LInv, InApply
<1>2. f \in Files /\ (env.edits = 0 => Dirty(branch, work) \subseteq {f})
  BY <1>1, Holding DEF LInv, WorktreeKept, HandsOff
<1>3. ASSUME work' = [work EXCEPT ![f] = HeadTree[f]]
      PROVE  env.edits = 0 => Dirty(branch, work') = {}
  BY <1>1, <1>2, <1>3, RolledBack
<1>4. CASE /\ wk[w].pc = "restore" /\ work' = [work EXCEPT ![f] = HeadTree[f]]
           /\ Finish(w, mem[f], "failed")
  <2>1. wk[w].pc \in Afoot
    BY <1>4 DEF Afoot
  <2> QED
    BY <1>1, <1>3, <1>4, <2>1, DoneKept
<1>5. CASE UNCHANGED <<mem, disk, work>> /\ Fault("before") /\ Abort(w, TRUE)
  BY <1>1, <1>2, <1>5, FaultKept
<1>6. CASE /\ UNCHANGED <<mem, disk, env>> /\ Abort(w, TRUE)
           /\ work' = [work EXCEPT ![f] = HeadTree[f]] \/ UNCHANGED work
  <2>1. FitsTree(w, mem[f], work', "exit")
    BY <1>1, <1>3, <1>6 DEF FitsTree, HandsOff
  <2> QED
    BY <1>1, <1>2, <1>6, <2>1, AbortKept
<1> QED
  BY <1>4, <1>5, <1>6 DEF RollBack, At

(* Looking before the file is restored keeps LInv. *)
LEMMA CleanUpKept ==
    ASSUME LInv, IInv', NEW w \in Workers, op.stage = "run",
           wk[w].pc \in {"check", "commit"}, CleanUp(w), UNCHANGED <<branch, op>>
    PROVE  LInv'
<1> DEFINE f == wk[w].file
           t == mem[f]
<1>1. /\ f \in Files /\ wk[w].pc \in InApply /\ mem = disk /\ t.att.base = run.ref
      /\ t.att.commitBase = HEAD /\ (env.edits = 0 => Dirty(branch, work) \subseteq {f})
      /\ UNCHANGED <<mem, disk, work>>
  BY InWriter DEF CleanUp
<1>2. CASE Goto(w, "restore") /\ UNCHANGED <<run, env>>
  <2>1. FitsTree(w, t, work', "restore")
    BY <1>1 DEF FitsTree, HandsOff
  <2>2. FitsCall(w, t, "restore")
    BY <1>1 DEF FitsCall
  <2> QED
    BY <1>1, <1>2, <2>1, <2>2, GotoKept
<1>3. CASE Abort(w, TRUE) /\ UNCHANGED env
  <2>1. FitsTree(w, t, work', "exit")
    BY <1>1 DEF FitsTree, HandsOff
  <2> QED
    BY <1>1, <1>3, <2>1, AbortKept
<1>4. CASE Fault("before") /\ Abort(w, TRUE)
  BY <1>1, <1>4, FaultKept
<1> QED
  BY <1>2, <1>3, <1>4 DEF CleanUp

(* The checks of the written file keep LInv. *)
LEMMA CheckAdoptionKept ==
    ASSUME LInv, IInv', NEW w \in Workers, CheckAdoption(w)
    PROVE  LInv'
<1> DEFINE f == wk[w].file
           t == mem[f]
<1>1. /\ op.stage = "run" /\ wk[w].pc = "check" /\ UNCHANGED <<branch, op>> /\ TypeOK
  BY DEF CheckAdoption, At, LInv, IInv, TypeInv
<1>2. /\ f \in Files /\ t \in Task /\ t.att.base = run.ref /\ mem = disk
      /\ wk[w].pc \in InApply /\ t.att.commitBase = HEAD
      /\ env.edits = 0 => Dirty(branch, work) \subseteq {f}
  BY <1>1, InWriter
<1>3. CASE InScope(w) /\ Goto(w, "journal") /\ UNCHANGED <<mem, disk, run, env, work>>
  <2>1. Dirty(branch, work) = {f} /\ work[f] = t.att.output
    BY <1>3, Changes DEF InScope
  <2>2. FitsTree(w, t, work', "journal")
    BY <1>3, <2>1 DEF FitsTree, HandsOff
  <2>3. t.att.outcome = ""
    BY <1>1 DEF LInv, SnapshotHeld, Afoot
  <2>4. FitsCall(w, t, "journal")
    BY <1>2, <2>3 DEF FitsCall
  <2> QED
    BY <1>1, <1>2, <1>3, <2>2, <2>4, GotoKept
<1>4. CASE CleanUp(w)
  BY <1>1, <1>4, CleanUpKept
<1>5. CASE Fault("before") /\ Undo(w) /\ UNCHANGED <<mem, disk, work>>
  <2>1. CASE Goto(w, "undo") /\ UNCHANGED run
    <3>1. env'.edits = env.edits
      BY <1>1, <1>5, FaultEdits
    <3>2. FitsTree(w, t, work', "undo")
      BY <1>2, <1>5 DEF FitsTree, HandsOff
    <3>3. FitsCall(w, t, "undo") /\ "undo" \notin Journaled
      BY <1>2 DEF FitsCall, Afoot, Journaled
    <3> QED
      BY <1>1, <1>2, <1>5, <2>1, <3>1, <3>2, <3>3, GotoKept
  <2>2. CASE Abort(w, TRUE)
    BY <1>1, <1>2, <1>5, <2>2, FaultKept
  <2> QED
    BY <1>5, <2>1, <2>2 DEF Undo
<1> QED
  BY <1>3, <1>4, <1>5 DEF CheckAdoption

(* Journaling the validated attempt keeps LInv. *)
LEMMA JournalValidatedKept ==
    ASSUME LInv, IInv', NEW w \in Workers, JournalValidated(w)
    PROVE  LInv'
<1> DEFINE f == wk[w].file
           t == mem[f]
           a == [t.att EXCEPT !.outcome = "validated"]
           u == [t EXCEPT !.att = a]
<1>1. /\ op.stage = "run" /\ wk[w].pc = "journal" /\ UNCHANGED <<branch, op>>
      /\ wk[w].pc \in Afoot /\ wk[w].pc \in InApply /\ wk[w].pc \in Journaled /\ TypeOK
      /\ mem \in [Files -> Task] /\ IInv /\ UNCHANGED work
  BY DEF JournalValidated, At, LInv, Afoot, InApply, Journaled, IInv, TypeInv, TypeOK
<1>2. /\ f \in Files /\ t \in Task /\ t.att \in Attempt /\ t.status = "running"
      /\ t.att.commit = None /\ t.att.output # Foreign /\ t.att.base = run.ref
      /\ mem = disk /\ t.att.commitBase = HEAD
  BY <1>1, InHand, Holding, OpenOutput DEF LInv, SnapshotHeld, Afoot
<1>3. env.edits = 0 => Dirty(branch, work) = {f} /\ work[f] = t.att.output
  BY <1>1 DEF LInv, WorktreeKept, HandsOff
<1>4. /\ a \in Attempt /\ a.input = t.att.input /\ a.outcome = "validated"
      /\ a.num = t.att.num /\ a.base = t.att.base /\ a.commit = t.att.commit
      /\ a.output = t.att.output /\ a.commitBase = t.att.commitBase
  BY <1>2 DEF Attempt
<1>5. [mem EXCEPT ![f].att.outcome = "validated"] = [mem EXCEPT ![f] = u]
  BY <1>2, <1>1 DEF Task
<1> HIDE DEF a
<1>6. /\ u \in Task /\ u.discard = t.discard /\ u.commits = t.commits /\ u.att = a
      /\ u.status = t.status /\ u.adopted = t.adopted
  BY <1>2, <1>4 DEF Task
<1> HIDE DEF u
<1>7. PICK r \in SaveResults :
          /\ Fault(r) /\ Save([mem EXCEPT ![f] = u], r)
          /\ IF r = "ok" THEN Goto(w, "commit") /\ UNCHANGED run ELSE Undo(w)
  BY <1>5 DEF JournalValidated
<1>8. /\ mem' = [mem EXCEPT ![f] = u] /\ disk' \in {disk, mem'} /\ env'.edits = env.edits
      /\ (r = "ok" => disk' = mem')
  BY <1>1, <1>7, FaultEdits DEF Save
<1>9. FitsTask(w, u) /\ u.att.base = run.ref
  BY <1>1, <1>2, <1>4, <1>6, Changed
<1>10. env.edits = 0 => /\ Explained(branch, work, u, f)
                        /\ Explained(branch, work, disk[f], f)
  <2>1. env.edits = 0 => Explained(branch, work, t, f) /\ Explained(branch, work, disk[f], f)
    BY <1>1, <1>3, HeldExplained
  <2> QED
    BY <1>4, <1>6, <2>1 DEF Explained, AttemptCommitBase
<1>11. CASE r = "ok"
  <2>1. Serves(w, u, "commit")
    BY <1>1, <1>2, <1>6, <1>7, <1>8, <1>11 DEF Serves, Goto
  <2>2. FitsCall(w, u, "commit")
    BY <1>1, <1>2, <1>4, <1>6, <1>9 DEF FitsCall
  <2>3. FitsTree(w, u, work', "commit")
    BY <1>1, <1>3, <1>4, <1>6, <1>7, <1>10, <1>11 DEF FitsTree, HandsOff
  <2> QED
    BY <1>8, <1>9, <1>11, <2>1, <2>2, <2>3, Served
<1>12. CASE r # "ok"
  <2>1. PICK p \in {"undo", "exit"} : wk' = [wk EXCEPT ![w].pc = p] /\ run' \in RunSet
    BY <1>1, <1>7, <1>12, UndoEffect
  <2>2. Serves(w, u, p)
    BY <1>1, <1>2, <1>6, <1>8, <2>1 DEF Serves, RunSet
  <2>3. FitsCall(w, u, p) /\ p \notin Journaled
    BY <1>1 DEF FitsCall, Afoot, Journaled
  <2>4. FitsTree(w, u, work', p)
    BY <1>1, <1>3, <1>10 DEF FitsTree, HandsOff
  <2> QED
    BY <1>9, <2>2, <2>3, <2>4, Served
<1> QED
  BY <1>11, <1>12

(* Recording the commit keeps LInv: what was adopted is what HEAD holds. *)
LEMMA RecordCommitKept ==
    ASSUME LInv, IInv', NEW w \in Workers, RecordCommit(w)
    PROVE  LInv'
<1> DEFINE f == wk[w].file
           t == mem[f]
           a == [t.att EXCEPT !.commit = HEAD]
           u == [t EXCEPT !.att = a, !.commits = t.commits \cup {HEAD}]
           s == IF t.att.partial THEN "needs_human" ELSE "done"
           v == Finished(u, s)
<1>1. /\ op.stage = "run" /\ wk[w].pc = "record" /\ UNCHANGED <<branch, work, op>>
      /\ wk[w].pc \in InApply /\ TypeOK /\ IInv /\ branch \in Seq(Commit)
      /\ mem \in [Files -> Task] /\ HEAD = Len(branch)
  BY DEF RecordCommit, At, LInv, IInv, TypeInv, TypeOK, InApply, HEAD
<1>2. f \in Files /\ t \in Task /\ t.att \in Attempt /\ HEAD \in Nat /\ t.att.output # None
  BY <1>1, Holding, Branch DEF TypeOK
<1>3. /\ a \in Attempt /\ a.commit = HEAD /\ a.num = t.att.num /\ a.base = t.att.base
      /\ a.input = t.att.input /\ a.output = t.att.output /\ a.partial = t.att.partial
  BY <1>2 DEF Attempt, CommitId
<1>4. t.commits \cup {HEAD} \in SUBSET Nat
  BY <1>2 DEF Task
<1>5. u = [t EXCEPT !.att.commit = HEAD, !.commits = t.commits \cup {HEAD}]
  BY <1>2 DEF Task, Attempt
<1> HIDE DEF a
<1>6. /\ u \in Task /\ u.discard = t.discard /\ u.commits = t.commits \cup {HEAD}
      /\ u.att = a
  BY <1>2, <1>3, <1>4 DEF Task
<1>7. /\ s \in {"done", "skipped", "failed", "needs_human"} /\ s # "skipped"
      /\ (t.att.partial => s = "needs_human") /\ (~ t.att.partial => s = "done")
  OBVIOUS
<1>8. RecordCommit(w) =>
          \/ \E r \in SaveResults :
                 /\ Fault(r)
                 /\ Save([mem EXCEPT ![f] = v], r)
                 /\ Goto(w, IF r = "ok" THEN "idle" ELSE "exit")
                 /\ run' = [run EXCEPT !.accepted = HEAD,
                                       !.cancelled = run.cancelled \/ r # "ok",
                                       !.failure = run.failure \/ r # "ok"]
          \/ /\ UNCHANGED env \/ Fault("after")
             /\ Abort(w, TRUE) /\ UNCHANGED <<mem, disk>>
  BY <1>1, <1>2, <1>5 DEF RecordCommit, Task
<1> HIDE DEF u, s
<1>9. /\ v \in Task /\ v.discard = t.discard /\ v.commits = t.commits \cup {HEAD}
      /\ v.att.num = t.att.num /\ v.status # "running"
  BY <1>3, <1>6, <1>7, FinishedTask
<1>10. /\ v.att.base = t.att.base /\ v.att.input = t.att.input /\ v.att.commit = HEAD
       /\ v.att.partial = t.att.partial /\ v.att.outcome = s /\ v.status = s
       /\ Adopted(v.att) => v.adopted = t.att.output
  <2>1. u \in Task /\ u.att = a
    BY <1>6
  <2>2. /\ v.att.base = a.base /\ v.att.input = a.input /\ v.att.commit = a.commit
        /\ v.att.partial = a.partial /\ v.att.outcome = s /\ v.status = s
        /\ Adopted(v.att) => v.adopted = a.output
    BY <1>7, <2>1, FinishedRest
  <2> HIDE DEF v
  <2> QED
    BY <1>3, <2>2
<1> HIDE DEF v
<1>11. Adopted(v.att) /\ v.adopted = t.att.output
  BY <1>2, <1>7, <1>10 DEF Adopted
<1>12. CASE /\ UNCHANGED env \/ Fault("after")
            /\ Abort(w, TRUE) /\ UNCHANGED <<mem, disk>>
  <2>1. env'.edits = env.edits
    BY <1>1, <1>12, FaultEdits
  <2>2. FitsTree(w, mem[wk[w].file], work', "exit")
    BY <1>1 DEF FitsTree, HandsOff
  <2> QED
    BY <1>1, <1>2, <1>12, <2>1, <2>2, AbortKept
<1>13. ASSUME NEW r \in SaveResults, Fault(r), Save([mem EXCEPT ![f] = v], r),
              Goto(w, IF r = "ok" THEN "idle" ELSE "exit"),
              run' = [run EXCEPT !.accepted = HEAD,
                                 !.cancelled = run.cancelled \/ r # "ok",
                                 !.failure = run.failure \/ r # "ok"]
       PROVE  LInv'
  <2> DEFINE p == IF r = "ok" THEN "idle" ELSE "exit"
  <2>1. /\ mem' = [mem EXCEPT ![f] = v] /\ disk' \in {disk, mem'} /\ env'.edits = env.edits
    BY <1>1, <1>13, FaultEdits DEF Save
  <2>2. run'.ref = run.ref /\ run'.jobs = run.jobs
    BY <1>1, <1>13 DEF TypeOK
  <2>3. wk' = [wk EXCEPT ![w].pc = p] /\ p \in {"idle", "exit"}
    BY <1>13 DEF Goto
  <2> HIDE DEF p
  <2>4. Serves(w, v, p)
    BY <1>1, <1>2, <1>9, <2>1, <2>2, <2>3 DEF Serves
  <2>5. HeadNames("attempt", f, t.att.num) /\ Validated(t)
    BY <1>1 DEF IInv, AttemptsTracked
  <2>6. Found(branch, t, f)
    BY <1>1, <1>2, <2>5 DEF Found, Names, HeadNames
  <2>7. ~ Restored(branch, t, f)
    BY <1>1, <1>2 DEF IInv, DiscardsSaved, Prepared, Restored
  <2>8. TaskTracked(branch, env.edits, t, f)
    BY <1>2 DEF LInv, BranchTracked, QueueTracked
  <2>9. TaskTracked(branch, env.edits, v, f) /\ ~ Flying(branch, v, f)
    BY <1>1, <1>2, <1>7, <1>9, <1>10, <1>11, <2>6, <2>7, <2>8, Recorded
  <2>10. FitsTask(w, v)
    BY <1>9, <2>5, <2>9 DEF FitsTask, HeadNames
  <2>11. FitsCall(w, v, p)
    BY <1>1, <2>3 DEF FitsCall, Afoot, Journaled
  <2>12. FitsTree(w, v, work', p)
    BY <1>1, <2>3, Untouched DEF FitsTree, HandsOff
  <2> QED
    BY <2>3, <2>4, <2>10, <2>11, <2>12, Served DEF Journaled
<1> QED
  BY <1>8, <1>12, <1>13

(* Taking a job keeps LInv: nobody has touched the file since the snapshot. *)
LEMMA TakeJobKept ==
    ASSUME LInv, IInv', NEW w \in Workers, TakeJob(w)
    PROVE  LInv'
<1>1. /\ op.stage = "run" /\ UNCHANGED <<mem, disk, branch, work, op, env>> /\ TypeOK
  BY DEF TakeJob, At, LInv, IInv, TypeInv
<1>2. PICK f \in run.jobs :
          /\ run' = [run EXCEPT !.jobs = run.jobs \ {f}]
          /\ wk' = [wk EXCEPT ![w] = [pc |-> "begin", file |-> f]]
  BY <1>1 DEF TakeJob, TypeOK
<1>3. /\ run'.ref = run.ref /\ run'.jobs = run.jobs \ {f} /\ HEAD' = HEAD
      /\ wk'[w].pc = "begin" /\ wk'[w].file = f
      /\ \A v \in Workers \ {w} : wk'[v] = wk[v]
  BY <1>1, <1>2 DEF TypeOK, HEAD
<1>4. SnapshotHeld'
  <2>1. /\ \A g \in run.jobs : SameSince(run.ref, g)
        /\ \A v \in Workers :
               /\ wk[v].pc = "begin" => SameSince(run.ref, wk[v].file)
               /\ wk[v].pc \in Afoot => mem[wk[v].file].att.base = run.ref
               /\ wk[v].pc \in Afoot \ {"commit", "restore"} => mem[wk[v].file].att.outcome = ""
               /\ wk[v].pc \in Journaled => /\ mem = disk
                                            /\ mem[wk[v].file].att.commitBase = HEAD
    BY <1>1 DEF LInv, SnapshotHeld
  <2>2. \A g \in run'.jobs : SameSince(run.ref, g)'
    BY <1>1, <1>3, <2>1 DEF SameSince
  <2>3. ASSUME NEW v \in Workers
        PROVE  /\ wk'[v].pc = "begin" => SameSince(run.ref, wk[v].file)'
               /\ wk'[v].pc \in Afoot => mem'[wk'[v].file].att.base = run'.ref
               /\ wk'[v].pc \in Afoot \ {"commit", "restore"} => mem'[wk'[v].file].att.outcome = ""
               /\ wk'[v].pc \in Journaled => /\ mem' = disk'
                                             /\ mem'[wk'[v].file].att.commitBase = HEAD'
    <3>1. CASE v = w
      BY <1>1, <1>2, <1>3, <2>1, <3>1 DEF Afoot, Journaled, SameSince
    <3>2. CASE v # w
      BY <1>1, <1>3, <2>1, <3>2 DEF SameSince
    <3> QED
      BY <3>1, <3>2
  <2> QED
    BY <2>2, <2>3 DEF SnapshotHeld
<1>5. WorktreeKept'
  <2> SUFFICES ASSUME env.edits = 0
               PROVE  /\ Explains(branch, work, mem) /\ Explains(branch, work, disk)
                      /\ run'.jobs \cap Dirty(branch, work) = {}
                      /\ \A v \in Workers :
                             HandsOff(branch, work, mem[wk'[v].file], wk'[v].file, wk'[v].pc)
    BY <1>1 DEF WorktreeKept
  <2>1. /\ Explains(branch, work, mem) /\ Explains(branch, work, disk)
        /\ run.jobs \cap Dirty(branch, work) = {}
        /\ \A v \in Workers :
               HandsOff(branch, work, mem[wk[v].file], wk[v].file, wk[v].pc)
    BY <1>1 DEF LInv, WorktreeKept
  <2>2. HandsOff(branch, work, mem[f], f, "begin")
    BY <1>2, <2>1 DEF HandsOff
  <2> QED
    BY <1>3, <2>1, <2>2
<1> QED
  BY <1>1, <1>3, <1>4, <1>5 DEF LInv, BranchTracked, CommittedOnce

(* Leaving a file keeps LInv. *)
LEMMA LeaveFileKept ==
    ASSUME LInv, IInv', NEW w \in Workers, LeaveFile(w)
    PROVE  LInv'
<1>1. /\ op.stage = "run" /\ wk[w].pc = "begin" /\ Goto(w, "idle") /\ IInv
      /\ UNCHANGED <<mem, disk, branch, work, op, run, env>>
  BY DEF LeaveFile, At, LInv
<1>2. wk[w].file \in Files
  BY <1>1, Holding
<1>3. FitsCall(w, mem[wk[w].file], "idle")
  BY DEF FitsCall, Afoot, Journaled
<1>4. FitsTree(w, mem[wk[w].file], work', "idle")
  BY <1>1 DEF FitsTree, HandsOff
<1> QED
  BY <1>1, <1>2, <1>3, <1>4, GotoKept DEF Journaled

-----------------------------------------------------------------------------

(* A commit of a journaled change. *)

(* The change journaled for file f: the next commit may be made of it. *)
Journals(kind, f, num) ==
    LET t == mem[f]
    IN  \/ /\ kind = "attempt" /\ num = t.att.num
           /\ Validated(t) /\ t.att.output # None /\ t.att.commitBase = HEAD
           /\ env.edits = 0 => t.att.output = work[f] /\ f \in Dirty(branch, work)
        \/ /\ kind = "discard" /\ num = t.discard.num
           /\ t.discard.state = "prepared" /\ t.discard.base = HEAD
           /\ env.edits = 0 => work[f] = Baseline

(* Nothing is in flight in a queue that records the whole branch. *)
LEMMA NothingFlying ==
    ASSUME LInv, AllKnown(mem), NEW f \in Files
    PROVE  ~ Flying(branch, mem[f], f)
<1>1. Flying(branch, mem[f], f) => HEAD \notin Known(mem)
  BY DEF LInv, BranchTracked, QueueTracked, HEAD
<1>2. HEAD \in Nat
  BY Branch DEF LInv, IInv, TypeInv, TypeOK
<1>3. HEAD > 0 => HEAD \in 1..HEAD
  BY <1>2
<1>4. Flying(branch, mem[f], f) => HEAD > 0
  BY DEF Flying, Found, Restored, Names, HEAD
<1> QED
  BY <1>1, <1>3, <1>4 DEF AllKnown

(* The record CommitFile appends. *)
LEMMA CommitRecord ==
    ASSUME TypeOK, NEW kind \in {"attempt", "discard"}, NEW f \in Files, NEW num \in Nat,
           CommitFile(kind, f, num)
    PROVE  \E c \in Commit : /\ branch' = Append(branch, c)
                             /\ c.kind = kind /\ c.file = f /\ c.num = num
                             /\ c.tree[f] = work[f]
                             /\ \A h \in Files \ {f} : c.tree[h] = BytesNow(branch, h)
<1> DEFINE c == [kind |-> kind, file |-> f, num |-> num,
                 tree |-> [HeadTree EXCEPT ![f] = work[f]]]
<1>1. HeadTree \in [Files -> Bytes] /\ work \in [Files -> Bytes]
  BY Branch DEF TypeOK
<1>2. c \in Commit
  BY <1>1 DEF Commit
<1>3. c.tree[f] = work[f] /\ \A h \in Files \ {f} : c.tree[h] = HeadTree[h]
  BY <1>1
<1>4. \A h \in Files : HeadTree[h] = BytesNow(branch, h)
  BY Readings
<1>5. branch' = Append(branch, c) /\ c.kind = kind /\ c.file = f /\ c.num = num
  BY DEF CommitFile
<1> HIDE DEF c
<1> QED
  BY <1>2, <1>3, <1>4, <1>5

(* The commit of a journaled change has a number of its own, keeps the queues
   tracked and cleans its file. *)
LEMMA CommitTracked ==
    ASSUME LInv, NEW kind \in {"attempt", "discard"}, NEW f \in Files, NEW num \in Nat,
           CommitFile(kind, f, num), Journals(kind, f, num), AllKnown(mem), mem = disk,
           UNCHANGED <<mem, disk, work>>, env'.edits = env.edits
    PROVE  /\ BranchTracked' /\ CommittedOnce'
           /\ Dirty(branch', work') = Dirty(branch, work) \ {f}
           /\ \A h \in Files \ {f} : BytesNow(branch', h) = BytesNow(branch, h)
           /\ \A n \in 0..HEAD, h \in Files : BytesAt(branch', n, h) = BytesAt(branch, n, h)
<1>1. /\ TypeOK /\ branch \in Seq(Commit) /\ mem \in [Files -> Task] /\ HEAD = Len(branch)
  BY DEF LInv, IInv, TypeInv, TypeOK, HEAD
<1>2. PICK c \in Commit : /\ branch' = Append(branch, c)
                          /\ c.kind = kind /\ c.file = f /\ c.num = num
                          /\ c.tree[f] = work[f]
                          /\ \A h \in Files \ {f} : c.tree[h] = BytesNow(branch, h)
  BY <1>1, CommitRecord
<1>3. /\ branch' \in Seq(Commit) /\ HEAD \in Nat /\ HEAD' = HEAD + 1 /\ branch'[HEAD'] = c
      /\ \A n \in 1..HEAD : branch'[n] = branch[n] /\ n # HEAD'
      /\ \A n \in 1..HEAD' : n \in 1..HEAD \/ n = HEAD'
      /\ \A n \in 0..HEAD, h \in Files : BytesAt(branch', n, h) = BytesAt(branch, n, h)
      /\ \A h \in Files : BytesNow(branch', h) = c.tree[h]
      /\ \A h \in Files \ {f} : BytesNow(branch', h) = BytesNow(branch, h)
      /\ HEAD' = Len(branch')
  BY <1>1, <1>2, Appended DEF HEAD
<1>4. Dirty(branch', work') = Dirty(branch, work) \ {f}
  BY <1>2, <1>3 DEF Dirty
<1>5. ASSUME NEW g \in Files
      PROVE  TaskTracked(branch', env.edits, mem[g], g)
  <2>1. /\ mem[g] \in Task /\ ~ Flying(branch, mem[g], g)
        /\ TaskTracked(branch, env.edits, mem[g], g)
    BY <1>1, NothingFlying DEF LInv, BranchTracked, QueueTracked
  <2>2. CASE g # f
    BY <1>1, <1>2, <2>1, <2>2, TrackedAfter
  <2>3. CASE g = f
    <3>1. \/ /\ c.kind = "attempt" /\ c.num = mem[g].att.num
             /\ Validated(mem[g]) /\ mem[g].att.output # None
             /\ mem[g].att.commitBase = Len(branch)
             /\ env.edits = 0 => /\ mem[g].att.output = c.tree[g]
                                 /\ c.tree[g] # BytesNow(branch, g)
          \/ /\ c.kind = "discard" /\ c.num = mem[g].discard.num
             /\ mem[g].discard.state = "prepared" /\ mem[g].discard.base = Len(branch)
      BY <1>1, <1>2, <2>3 DEF Journals, Dirty
    <3> QED
      BY <1>1, <1>2, <2>1, <2>3, <3>1, TrackedAfter
  <2> QED
    BY <2>2, <2>3
<1>6. Known(mem) \subseteq 1..HEAD /\ 1..HEAD \subseteq 1..HEAD' /\ HEAD' \notin 1..HEAD
  BY <1>3 DEF LInv, BranchTracked
<1>7. BranchTracked'
  <2>1. QueueTracked(branch', env.edits, mem)
    BY <1>3, <1>5, <1>6 DEF QueueTracked
  <2> QED
    BY <1>6, <2>1 DEF BranchTracked
<1>8. ASSUME NEW n \in 1..HEAD, branch[n].kind = kind, branch[n].file = f
      PROVE  branch[n].num # num
  <2>1. /\ mem[f] \in Task /\ ~ Flying(branch, mem[f], f)
        /\ TaskTracked(branch, env.edits, mem[f], f)
    BY <1>1, NothingFlying DEF LInv, BranchTracked, QueueTracked
  <2>2. CASE kind = "attempt"
    <3>1. ~ Adopted(mem[f].att) /\ ~ Found(branch, mem[f], f)
      BY <2>1, <2>2 DEF Journals, Adopted, Validated, Flying
    <3> QED
      BY <1>1, <1>8, <2>1, <2>2, <3>1 DEF TaskTracked, AttemptsNumbered, Journals
  <2>3. CASE kind = "discard"
    BY <1>1, <1>8, <2>1, <2>3 DEF TaskTracked, DiscardsNumbered, Journals, Flying
  <2> QED
    BY <2>2, <2>3
<1>9. CommittedOnce'
  <2> SUFFICES ASSUME NEW m \in 1..HEAD', NEW n \in 1..HEAD', m # n,
                      branch'[m].kind = branch'[n].kind,
                      branch'[m].file = branch'[n].file
               PROVE  branch'[m].num # branch'[n].num
    BY DEF CommittedOnce
  <2>1. CASE m \in 1..HEAD /\ n \in 1..HEAD
    BY <1>3, <2>1 DEF LInv, CommittedOnce
  <2>2. CASE m = HEAD' /\ n \in 1..HEAD
    BY <1>2, <1>3, <1>8, <2>2
  <2>3. CASE n = HEAD' /\ m \in 1..HEAD
    BY <1>2, <1>3, <1>8, <2>3
  <2> QED
    BY <1>3, <2>1, <2>2, <2>3
<1> QED
  BY <1>3, <1>4, <1>7, <1>9

(* What the attempt at the call "commit" has journaled. *)
LEMMA AttemptJournaled ==
    ASSUME LInv, NEW w \in Workers, op.stage = "run", wk[w].pc = "commit"
    PROVE  /\ wk[w].file \in Files /\ mem[wk[w].file].att.num \in Nat
           /\ Journals("attempt", wk[w].file, mem[wk[w].file].att.num)
           /\ AllKnown(mem) /\ mem = disk
           /\ env.edits = 0 => Dirty(branch, work) = {wk[w].file}
<1>1. IInv /\ wk[w].pc \in Journaled /\ wk[w].pc \in InApply
  BY DEF LInv, Journaled, InApply
<1>2. /\ wk[w].file \in Files /\ mem[wk[w].file] \in Task
      /\ mem[wk[w].file].att.output # None /\ AllKnown(mem)
  BY <1>1, Holding
<1>3. mem = disk /\ Validated(mem[wk[w].file])
  BY <1>1 DEF IInv, AttemptsTracked
<1>4. mem[wk[w].file].att.commitBase = HEAD
  BY <1>1 DEF LInv, SnapshotHeld
<1>5. env.edits = 0 => /\ Dirty(branch, work) = {wk[w].file}
                       /\ work[wk[w].file] = mem[wk[w].file].att.output
  BY DEF LInv, WorktreeKept, HandsOff
<1> QED
  BY <1>2, <1>3, <1>4, <1>5, TaskNumbers DEF Journals

(* A worker's commit keeps LInv. *)
LEMMA CommitKept ==
    ASSUME LInv, IInv', NEW w \in Workers, op.stage = "run", wk[w].pc = "commit",
           CommitFile("attempt", wk[w].file, mem[wk[w].file].att.num),
           NEW p \in {"record", "exit"}, wk' = [wk EXCEPT ![w].pc = p],
           run'.ref = run.ref, run'.jobs = run.jobs, env'.edits = env.edits,
           UNCHANGED <<mem, disk, work, op>>
    PROVE  LInv'
<1> DEFINE f == wk[w].file
           num == mem[f].att.num
<1>1. /\ f \in Files /\ num \in Nat /\ Journals("attempt", f, num) /\ AllKnown(mem)
      /\ mem = disk /\ (env.edits = 0 => Dirty(branch, work) = {f})
  BY AttemptJournaled
<1>2. "attempt" \in {"attempt", "discard"}
  OBVIOUS
<1>3. /\ BranchTracked' /\ CommittedOnce'
      /\ Dirty(branch', work') = Dirty(branch, work) \ {f}
      /\ \A h \in Files \ {f} : BytesNow(branch', h) = BytesNow(branch, h)
      /\ \A n \in 0..HEAD, h \in Files : BytesAt(branch', n, h) = BytesAt(branch, n, h)
  BY <1>1, <1>2, CommitTracked
<1>4. /\ wk'[w].pc = p /\ wk'[w].file = f
      /\ \A v \in Workers \ {w} : wk'[v] = wk[v]
  <2> DEFINE r == [wk[w] EXCEPT !.pc = p]
  <2>1. wk \in [Workers -> [pc : PCs, file : Files \cup {None}]]
    BY DEF LInv, IInv, TypeInv, TypeOK
  <2>2. r.pc = p /\ r.file = wk[w].file
    BY <2>1
  <2>3. wk' = [wk EXCEPT ![w] = r]
    OBVIOUS
  <2> HIDE DEF r
  <2> QED
    BY <2>1, <2>2, <2>3
<1>5. /\ run.ref \in 0..HEAD /\ f \notin run.jobs /\ run.jobs \subseteq Files
      /\ \A v \in Workers \ {w} : /\ wk[v].pc \notin InApply /\ wk[v].file # f
                                  /\ wk[v].pc \notin {"idle", "exit"} => wk[v].file \in Files
  <2>1. f # None
    BY <1>1
  <2> QED
    BY <2>1 DEF LInv, IInv, TypeInv, TypeOK, FilesHeld, WriterAlone, InApply
<1>6. \A h \in Files \ {f} : SameSince(run.ref, h) => SameSince(run.ref, h)'
  BY <1>3, <1>5 DEF SameSince
<1>7. SnapshotHeld'
  <2>1. /\ \A g \in run.jobs : SameSince(run.ref, g)
        /\ \A v \in Workers :
               /\ wk[v].pc = "begin" => SameSince(run.ref, wk[v].file)
               /\ wk[v].pc \in Afoot => mem[wk[v].file].att.base = run.ref
               /\ wk[v].pc \in Afoot \ {"commit", "restore"} => mem[wk[v].file].att.outcome = ""
    BY DEF LInv, SnapshotHeld
  <2>2. \A g \in run'.jobs : SameSince(run.ref, g)'
    BY <1>5, <1>6, <2>1
  <2>3. ASSUME NEW v \in Workers
        PROVE  /\ wk'[v].pc = "begin" => SameSince(run.ref, wk[v].file)'
               /\ wk'[v].pc \in Afoot => mem'[wk'[v].file].att.base = run'.ref
               /\ wk'[v].pc \in Afoot \ {"commit", "restore"} => mem'[wk'[v].file].att.outcome = ""
               /\ wk'[v].pc \notin Journaled
    <3>1. CASE v = w
      BY <1>4, <3>1 DEF Afoot, Journaled
    <3>2. CASE v # w
      <4>1. wk[v].pc = "begin" => SameSince(run.ref, wk[v].file)'
        <5> SUFFICES ASSUME wk[v].pc = "begin" PROVE SameSince(run.ref, wk[v].file)'
          OBVIOUS
        <5>1. PICK h \in Files \ {f} : h = wk[v].file
          BY <1>5, <3>2
        <5>2. SameSince(run.ref, h)'
          BY <1>6, <2>1, <5>1
        <5>3. wk'[v] = wk[v]
          BY <1>4, <3>2
        <5> QED
          BY <5>1, <5>2, <5>3 DEF SameSince
      <4>2. wk'[v] = wk[v] /\ wk[v].pc \notin Journaled
        BY <1>4, <1>5, <3>2 DEF Journaled, InApply
      <4>3. mem' = mem /\ run'.ref = run.ref
        OBVIOUS
      <4>4. /\ wk[v].pc \in Afoot => mem[wk[v].file].att.base = run.ref
            /\ wk[v].pc \in Afoot \ {"commit", "restore"} => mem[wk[v].file].att.outcome = ""
        BY <2>1
      <4> QED
        BY <4>1, <4>2, <4>3, <4>4
    <3> QED
      BY <3>1, <3>2
  <2> QED
    BY <2>2, <2>3 DEF SnapshotHeld
<1>8. WorktreeKept'
  <2> SUFFICES ASSUME env.edits = 0
               PROVE  /\ Dirty(branch', work') = {}
                      /\ \A v \in Workers :
                             HandsOff(branch', work', mem'[wk'[v].file], wk'[v].file, wk'[v].pc)
    BY DEF WorktreeKept, Explains
  <2>1. Dirty(branch', work') = {}
    BY <1>1, <1>3
  <2>2. \A v \in Workers : wk'[v].pc \notin {"check", "journal", "commit"}
    BY <1>4, <1>5 DEF InApply
  <2> QED
    BY <2>1, <2>2 DEF HandsOff
<1> QED
  BY <1>3, <1>7, <1>8 DEF LInv

(* The commit of an adoption, also one whose answer is lost, keeps LInv. *)
LEMMA CommitAdoptionKept ==
    ASSUME LInv, IInv', NEW w \in Workers, CommitAdoption(w)
    PROVE  LInv'
<1> DEFINE f == wk[w].file
           num == mem[f].att.num
<1>1. op.stage = "run" /\ wk[w].pc = "commit" /\ UNCHANGED op /\ TypeOK
  BY DEF CommitAdoption, At, LInv, IInv, TypeInv
<1>2. f \in Files
  BY <1>1, AttemptJournaled
<1>3. CASE /\ CommitFile("attempt", f, num)
           /\ Goto(w, "record") /\ UNCHANGED <<mem, disk, work, run, env>>
  BY <1>1, <1>3, CommitKept DEF Goto
<1>4. CASE CleanUp(w) /\ UNCHANGED branch
  BY <1>1, <1>4, CleanUpKept
<1>5. CASE /\ UNCHANGED env \/ Fault("after")
           /\ Abort(w, TRUE)
           /\ CommitFile("attempt", f, num) \/ UNCHANGED branch
           /\ UNCHANGED <<mem, disk, work>>
  <2>1. env'.edits = env.edits
    BY <1>1, <1>5, FaultEdits
  <2>2. CASE UNCHANGED branch
    <3>1. FitsTree(w, mem[wk[w].file], work', "exit")
      BY <1>5 DEF FitsTree, HandsOff
    <3> QED
      BY <1>1, <1>2, <1>5, <2>1, <2>2, <3>1, AbortKept
  <2>3. CASE CommitFile("attempt", f, num)
    <3>1. wk' = [wk EXCEPT ![w].pc = "exit"] /\ run'.ref = run.ref /\ run'.jobs = run.jobs
      BY <1>1, <1>5, AbortEffect DEF RunSet
    <3> QED
      BY <1>1, <1>5, <2>1, <2>3, <3>1, CommitKept
  <2> QED
    BY <1>5, <2>2, <2>3
<1> QED
  BY <1>3, <1>4, <1>5 DEF CommitAdoption

(* Every step of a worker keeps LInv. *)
LEMMA WorkerKept ==
    ASSUME LInv, IInv', NEW w \in Workers, WorkerStep(w)
    PROVE  LInv'
<1>1. CASE Handle(w)
  BY <1>1, TakeJobKept, LeaveFileKept, BeginKept, ReadInputKept, OpenRepairKept,
     VerifySourceKept, WriteSourceKept, CheckAdoptionKept, JournalValidatedKept,
     CommitAdoptionKept, RecordCommitKept, RollBackKept DEF Handle
<1>2. CASE Validate(w)
  BY <1>2, ValidateKept
<1>3. CASE Answer(w)
  BY <1>3, DeclineKept, SkipKept, AdoptKept DEF Answer
<1> QED
  BY <1>1, <1>2, <1>3 DEF WorkerStep
-----------------------------------------------------------------------------

(* The steps of the operations. *)

(* Queues that are loaded, saved or left alone on an unchanged branch stay
   tracked. *)
LEMMA SameBranch ==
    ASSUME LInv, UNCHANGED branch, env'.edits = env.edits,
           mem' \in {mem, disk}, disk' \in {disk, mem}
    PROVE  BranchTracked' /\ CommittedOnce'
<1>1. HEAD' = HEAD /\ branch' = branch
  BY DEF HEAD
<1>2. Known(disk) \subseteq Known(mem) /\ BranchTracked /\ CommittedOnce
  BY DEF LInv, IInv, QueuesAccount
<1>3. Known(mem') \subseteq 1..HEAD
  BY <1>2 DEF BranchTracked
<1>4. QueueTracked(branch, env.edits, mem') /\ QueueTracked(branch, env.edits, disk')
  BY <1>2 DEF BranchTracked
<1>5. BranchTracked'
  BY <1>1, <1>3, <1>4 DEF BranchTracked
<1>6. CommittedOnce'
  BY <1>1, <1>2 DEF CommittedOnce
<1> QED
  BY <1>5, <1>6

(* The stages that rely on a clean worktree or on what it holds. *)
Reliant == {"mark", "retry", "launch", "drestore", "dcommit", "run"}

(* Towards any other stage nothing about the worktree is promised. *)
LEMMA NotReliant ==
    ASSUME NEW s, s \notin Reliant
    PROVE  /\ s # "run" /\ s # "drestore" /\ s # "dcommit"
           /\ s \notin {"mark", "retry", "launch"}
  BY DEF Reliant

(* These stages rely on nothing in the worktree. *)
LEMMA Restful ==
    /\ "" \notin Reliant /\ "discards" \notin Reliant /\ "dverify" \notin Reliant
    /\ "tree" \notin Reliant /\ "reset" \notin Reliant
<1>1. /\ "" # "mark" /\ "" # "retry" /\ "" # "launch" /\ "" # "drestore" /\ "" # "dcommit"
      /\ "" # "run"
  OBVIOUS
<1>2. "" \notin Reliant
  BY <1>1, Zenon DEF Reliant
<1>3. /\ "discards" \notin Reliant /\ "dverify" \notin Reliant /\ "tree" \notin Reliant
      /\ "reset" \notin Reliant
  BY DEF Reliant
<1> QED
  BY <1>2, <1>3, Zenon

(* A step of an operation that touches neither branch nor worktree, towards a
   stage that does not rely on a clean one. *)
LEMMA QuietKept ==
    ASSUME LInv, IInv', UNCHANGED <<branch, work>>, env'.edits = env.edits,
           mem' \in {mem, disk}, disk' \in {disk, mem}, op'.stage \notin Reliant
    PROVE  LInv'
<1>1. BranchTracked' /\ CommittedOnce'
  BY SameBranch
<1>2. /\ op'.stage # "run" /\ op'.stage # "drestore" /\ op'.stage # "dcommit"
      /\ op'.stage \notin {"mark", "retry", "launch"}
  BY NotReliant
<1>3. SnapshotHeld'
  BY <1>2, Zenon DEF SnapshotHeld
<1>4. env.edits = 0 => Explains(branch, work, mem) /\ Explains(branch, work, disk)
  BY DEF LInv, WorktreeKept
<1>5. WorktreeKept'
  BY <1>2, <1>4 DEF WorktreeKept
<1> QED
  BY <1>1, <1>3, <1>5 DEF LInv

(* A step of an operation that leaves the worktree clean. *)
LEMMA CleanedKept ==
    ASSUME IInv', BranchTracked', CommittedOnce',
           env'.edits = 0 => Dirty(branch', work') = {},
           op'.stage # "dcommit", op'.stage # "run"
    PROVE  LInv'
<1>1. SnapshotHeld'
  BY Zenon DEF SnapshotHeld
<1>2. WorktreeKept'
  BY DEF WorktreeKept, Explains
<1> QED
  BY <1>1, <1>2 DEF LInv

(* A failure, a crash or a start leaves the number of edits alone. *)
LEMMA Unedited ==
    ASSUME TypeOK, \/ UNCHANGED env \/ \E r \in SaveResults : Fault(r)
                   \/ env' = [env EXCEPT !.crashes = @ + 1]
    PROVE  env'.edits = env.edits
<1>1. env \in [faults : Nat, crashes : Nat, edits : Nat]
  BY DEF TypeOK
<1>2. CASE \E r \in SaveResults : Fault(r)
  BY <1>2, FaultEdits
<1>3. CASE env' = [env EXCEPT !.crashes = @ + 1]
  BY <1>1, <1>3
<1> QED
  BY <1>2, <1>3

(* The stage an operation has when it returns, begins or goes on. *)
LEMMA Ended == ASSUME op' = NoOp PROVE op'.stage \notin Reliant
<1>1. op'.stage = "" /\ op' \in [name : OpNames, stage : Stages, files : SUBSET Files,
                                 cur : Files \cup {None}]
  BY DEF NoOp, OpNames, Stages
<1> QED
  BY <1>1, Restful, Zenon

(* The stage after a crash. *)
LEMMA Died == ASSUME op' = Down PROVE op'.stage \notin Reliant
<1>1. op'.stage = "" /\ op' \in [name : OpNames, stage : Stages, files : SUBSET Files,
                                 cur : Files \cup {None}]
  BY DEF Down, NoOp, OpNames, Stages
<1> QED
  BY <1>1, Restful, Zenon

(* The stage after a failed call, which edits nothing. *)
LEMMA Failed ==
    ASSUME TypeOK, Fails PROVE op'.stage \notin Reliant /\ env'.edits = env.edits
<1>1. op' = NoOp /\ (UNCHANGED env \/ Fault("before"))
  BY DEF Fails, EndOp
<1>2. "before" \in SaveResults
  BY DEF SaveResults
<1>3. env'.edits = env.edits
  BY <1>1, <1>2, Unedited
<1> QED
  BY <1>1, <1>3, Ended

(* The stage an operation begins with. *)
LEMMA Began ==
    ASSUME NEW name, NEW S, Begins(name, "discards", S) PROVE op'.stage \notin Reliant
<1>1. op'.stage = "discards"
  BY DEF Begins, NoOp
<1> QED
  BY <1>1, Restful, Zenon

(* The stage an operation goes on with; it keeps its files. *)
LEMMA GoneOn ==
    ASSUME TypeOK, NEW stage, GoOn(stage)
    PROVE  op'.stage = stage /\ op'.cur = op.cur /\ op'.files = op.files
  BY DEF GoOn, TypeOK

(* Asking for an operation, loading the queue and dying keep LInv. *)
LEMMA AskedKept ==
    ASSUME LInv, IInv', Start \/ Retry \/ Reload \/ Open \/ Crash
    PROVE  LInv'
<1>1. TypeOK
  BY DEF LInv, IInv, TypeInv
<1>2. CASE Start
  <2>1. PICK r \in SaveResults, S \in SUBSET (Runnable(mem) \cup Running(mem)) :
            /\ Fault(r) /\ Save(mem, r)
            /\ UNCHANGED op \/ Begins("start", "discards", S)
    BY <1>2 DEF Start
  <2>2. op = NoOp /\ UNCHANGED <<branch, work>>
    BY <1>2 DEF Start, Idle
  <2>3. op'.stage \notin Reliant
    BY <2>1, <2>2, Ended, Began
  <2>4. env'.edits = env.edits
    BY <1>1, <2>1, Unedited
  <2>5. mem' = mem /\ disk' \in {disk, mem}
    BY <2>1 DEF Save
  <2> QED
    BY <2>2, <2>3, <2>4, <2>5, QuietKept
<1>3. CASE Retry
  <2>1. op'.stage \notin Reliant /\ UNCHANGED <<mem, disk, branch, work, env>>
    BY <1>3, Began DEF Retry
  <2> QED
    BY <2>1, QuietKept
<1>4. CASE Reload
  <2>1. op' = NoOp /\ mem' = disk /\ UNCHANGED <<disk, branch, work, env>>
    BY <1>4 DEF Reload, Idle
  <2> QED
    BY <2>1, Ended, QuietKept
<1>5. CASE Open
  <2>1. /\ op' = NoOp \/ Begins("open", "discards", {})
        /\ mem' = disk /\ UNCHANGED <<disk, branch, work, env>>
    BY <1>5 DEF Open
  <2>2. op'.stage \notin Reliant
    BY <2>1, Ended, Began
  <2> QED
    BY <2>1, <2>2, QuietKept
<1>6. CASE Crash
  <2>1. /\ env'.edits = env.edits /\ op' = Down /\ mem' = disk
        /\ UNCHANGED <<disk, branch, work>>
    BY <1>1, <1>6, Unedited DEF Crash
  <2>3. op'.stage \notin Reliant
    BY <2>1, Died
  <2> QED
    BY <2>1, <2>3, QuietKept
<1> QED
  BY <1>2, <1>3, <1>4, <1>5, <1>6

(* What a run relies on depends on its snapshot, its jobs and its workers. *)
LEMMA SameSnapshot ==
    ASSUME LInv, UNCHANGED <<mem, disk, branch, op, wk>>,
           run'.ref = run.ref, run'.jobs = run.jobs
    PROVE  SnapshotHeld'
<1>1. SnapshotHeld /\ HEAD' = HEAD /\ \A f : SameSince(run.ref, f)' <=> SameSince(run.ref, f)
  BY DEF LInv, HEAD, SameSince
<1> QED
  BY <1>1, Zenon DEF SnapshotHeld

(* Stop cancels and changes nothing else. *)
LEMMA StopKept == ASSUME LInv, IInv', Stop PROVE LInv'
<1>1. /\ UNCHANGED <<mem, disk, branch, work, op, wk, env>>
      /\ run'.ref = run.ref /\ run'.jobs = run.jobs
  BY DEF Stop, LInv, IInv, TypeInv, TypeOK
<1>2. BranchTracked' /\ CommittedOnce'
  BY <1>1, SameBranch
<1>3. SnapshotHeld'
  BY <1>1, SameSnapshot
<1>4. WorktreeKept'
  BY <1>1 DEF LInv, WorktreeKept
<1> QED
  BY <1>2, <1>3, <1>4 DEF LInv

(* An edit from outside makes no promise about bytes any more. *)
LEMMA EditKept == ASSUME LInv, IInv', NEW f \in Files, Edit(f) PROVE LInv'
<1>1. UNCHANGED <<mem, disk, branch, op, run, wk>> /\ env'.edits # 0 /\ HEAD' = HEAD
  BY DEF Edit, LInv, IInv, TypeInv, TypeOK, HEAD
<1>2. BranchTracked'
  <2>1. QueueTracked(branch, env'.edits, mem) /\ QueueTracked(branch, env'.edits, disk)
    BY <1>1 DEF LInv, BranchTracked, QueueTracked, TaskTracked
  <2> QED
    BY <1>1, <2>1 DEF LInv, BranchTracked
<1>3. CommittedOnce'
  BY <1>1 DEF LInv, CommittedOnce
<1>4. SnapshotHeld'
  BY <1>1, SameSnapshot
<1>5. WorktreeKept'
  BY <1>1 DEF WorktreeKept
<1> QED
  BY <1>2, <1>3, <1>4, <1>5 DEF LInv

(* A discard is prepared on a clean worktree when nothing is in flight. *)
LEMMA PrepareDiscardKept ==
    ASSUME LInv, IInv', NEW f \in Files, PrepareDiscard(f)
    PROVE  LInv'
<1> DEFINE t == mem[f]
           d == [num |-> t.discard.num + 1, state |-> "prepared", base |-> HEAD,
                 input |-> work[f]]
           v == [t EXCEPT !.discard = d]
<1>1. /\ TypeOK /\ t \in Task /\ mem \in [Files -> Task] /\ branch \in Seq(Commit)
      /\ BranchTracked /\ HEAD = Len(branch)
  BY DEF LInv, IInv, TypeInv, TypeOK, HEAD
<1>2. /\ Clean /\ HistoryExact(mem, {}) /\ mem' = [mem EXCEPT ![f] = v] /\ disk' = mem'
      /\ Begins("discard", "discards", {}) /\ UNCHANGED <<branch, work, env>>
  BY DEF PrepareDiscard
<1>3. AllKnown(mem)
  BY <1>2 DEF HistoryExact, AllKnown
<1>4. ~ Flying(branch, t, f) /\ TaskTracked(branch, env.edits, t, f)
  BY <1>1, <1>3, NothingFlying DEF BranchTracked, QueueTracked
<1>5. d \in Discard /\ d.num = t.discard.num + 1 /\ d.base = Len(branch)
  <2>1. t.discard.num \in Nat /\ HEAD \in Nat /\ work[f] \in Bytes
    BY <1>1, TaskNumbers, Branch DEF TypeOK
  <2> QED
    BY <1>1, <2>1 DEF Discard, Digest
<1> HIDE DEF d
<1>6. v \in Task /\ v.discard = d /\ v.att = t.att /\ v.adopted = t.adopted
      /\ v.status = t.status /\ v.commits = t.commits
  BY <1>1, <1>5 DEF Task
<1> HIDE DEF v
<1>7. v.discard.num = t.discard.num + 1 /\ v.discard.base = Len(branch)
  BY <1>5, <1>6
<1> HIDE DEF t
<1>8. TaskTracked(branch, env.edits, v, f) /\ ~ Flying(branch, v, f)
  BY <1>1, <1>4, <1>6, <1>7, PreparedNow
<1>9. BranchTracked'
  <2>1. v.commits = mem[f].commits
    BY <1>6 DEF t
  <2>2. /\ QueueTracked(branch, env.edits, [mem EXCEPT ![f] = v])
        /\ Known([mem EXCEPT ![f] = v]) \subseteq 1..Len(branch)
    BY <1>1, <1>6, <1>8, <2>1, QueueRewritten DEF BranchTracked
  <2>3. branch' = branch /\ env'.edits = env.edits /\ HEAD' = Len(branch)
    BY <1>2 DEF HEAD
  <2> QED
    BY <1>2, <2>2, <2>3 DEF BranchTracked
<1>10. CommittedOnce' /\ (env'.edits = 0 => Dirty(branch', work') = {})
  BY <1>2, Changes DEF LInv, CommittedOnce, HEAD, Clean
<1>11. op'.stage # "dcommit" /\ op'.stage # "run"
  BY <1>2, Began, NotReliant
<1> QED
  BY <1>9, <1>10, <1>11, CleanedKept

(* Looking before a discard restores its file keeps LInv. *)
LEMMA CheckDiscardKept ==
    ASSUME LInv, IInv', NEW f \in Files, CheckDiscard(f)
    PROVE  LInv'
<1>1. TypeOK /\ UNCHANGED <<mem, disk, branch, work>>
  BY DEF LInv, IInv, TypeInv, CheckDiscard
<1>2. CASE EndOp /\ UNCHANGED env
  <2>1. op'.stage \notin Reliant
    BY <1>2, Ended DEF EndOp
  <2> QED
    BY <1>1, <1>2, <2>1, QuietKept
<1>3. CASE Fails
  BY <1>1, <1>3, Failed, QuietKept
<1>4. CASE /\ MayRestore(f) /\ op' = [op EXCEPT !.stage = "drestore", !.cur = f]
           /\ UNCHANGED env
  <2>1. BranchTracked' /\ CommittedOnce'
    BY <1>1, <1>4, SameBranch
  <2>2. op'.stage = "drestore" /\ op'.cur = f
    BY <1>1, <1>4 DEF TypeOK
  <2>3. Dirty(branch, work) \subseteq {f}
    BY <1>4, Changes DEF MayRestore
  <2>4. SnapshotHeld'
    <3>1. op'.stage # "run"
      BY <2>2
    <3> QED
      BY <3>1, Zenon DEF SnapshotHeld
  <2>5. WorktreeKept'
    BY <1>1, <1>4, <2>2, <2>3 DEF LInv, WorktreeKept
  <2> QED
    BY <2>1, <2>4, <2>5 DEF LInv
<1> QED
  BY <1>2, <1>3, <1>4 DEF CheckDiscard

(* Putting the base bytes back keeps LInv: only that file may differ. *)
LEMMA RestoreSourceKept ==
    ASSUME LInv, IInv', RestoreSource
    PROVE  LInv'
<1> DEFINE f == op.cur
<1>1. TypeOK /\ op.stage = "drestore" /\ UNCHANGED <<mem, disk, branch>>
  BY DEF LInv, IInv, TypeInv, RestoreSource
<1>2. CASE Fault("before") /\ EndOp /\ UNCHANGED work
  <2>1. op'.stage \notin Reliant
    BY <1>2, Ended DEF EndOp
  <2>2. env'.edits = env.edits
    BY <1>1, <1>2, FaultEdits
  <2> QED
    BY <1>1, <1>2, <2>1, <2>2, QuietKept
<1>3. CASE /\ work' = [work EXCEPT ![f] = Baseline]
           /\ GoOn("dcommit") /\ UNCHANGED env
  <2>1. BranchTracked' /\ CommittedOnce'
    BY <1>1, <1>3, SameBranch
  <2>2. op'.stage = "dcommit" /\ op'.cur = f
    BY <1>1, <1>3, GoneOn
  <2>3. /\ f \in Files /\ mem = disk /\ mem[f].discard.state = "prepared"
        /\ mem[f].discard.base = Len(branch)
    BY <1>1 DEF LInv, IInv, DiscardsSaved, Prepared, HEAD
  <2>4. work'[f] = Baseline /\ \A g \in Files \ {f} : work'[g] = work[g]
    BY <1>1, <1>3, <2>3 DEF TypeOK
  <2>5. env.edits = 0 => Dirty(branch, work) \subseteq {f}
    BY <1>1 DEF LInv, WorktreeKept
  <2>6. env.edits = 0 => Dirty(branch, work') \subseteq {f}
    BY <2>4, <2>5 DEF Dirty
  <2>7. env.edits = 0 => Explains(branch, work', mem)
    BY <2>3, <2>4, <2>6 DEF Explains, Explained
  <2>8. SnapshotHeld'
    <3>1. op'.stage # "run"
      BY <2>2
    <3> QED
      BY <3>1, Zenon DEF SnapshotHeld
  <2>9. WorktreeKept'
    BY <1>1, <1>3, <2>2, <2>3, <2>4, <2>6, <2>7 DEF WorktreeKept
  <2> QED
    BY <2>1, <2>8, <2>9 DEF LInv
<1> QED
  BY <1>2, <1>3 DEF RestoreSource

(* The commit of a discard, also one whose answer is lost, keeps LInv. *)
LEMMA CommitDiscardKept ==
    ASSUME LInv, IInv', CommitDiscard
    PROVE  LInv'
<1> DEFINE f == op.cur
           num == mem[f].discard.num
<1>1. TypeOK /\ op.stage = "dcommit" /\ UNCHANGED <<mem, disk, work>>
  BY DEF LInv, IInv, TypeInv, CommitDiscard
<1>2. /\ f \in Files /\ mem[f].discard.state = "prepared" /\ mem[f].discard.base = HEAD
      /\ mem = disk /\ AllKnown(mem)
  <2>1. f \in Prepared(mem)
    BY <1>1 DEF LInv, IInv, DiscardsSaved
  <2> QED
    BY <1>1, <2>1 DEF LInv, IInv, DiscardsSaved, Prepared
<1>3. env.edits = 0 => Dirty(branch, work) \subseteq {f} /\ work[f] = Baseline
  BY <1>1 DEF LInv, WorktreeKept
<1>4. num \in Nat /\ Journals("discard", f, num)
  <2>1. mem[f] \in Task
    BY <1>1, <1>2 DEF TypeOK
  <2> QED
    BY <1>2, <1>3, <2>1, TaskNumbers DEF Journals
<1>5. ASSUME CommitFile("discard", f, num), env'.edits = env.edits,
             op'.stage # "dcommit", op'.stage # "run"
      PROVE  LInv'
  <2>1. "discard" \in {"attempt", "discard"}
    OBVIOUS
  <2>2. /\ BranchTracked' /\ CommittedOnce'
        /\ Dirty(branch', work') = Dirty(branch, work) \ {f}
    BY <1>1, <1>2, <1>4, <1>5, <2>1, CommitTracked
  <2>3. env'.edits = 0 => Dirty(branch', work') = {}
    BY <1>3, <1>5, <2>2
  <2> QED
    BY <1>5, <2>2, <2>3, CleanedKept
<1>6. CASE CommitFile("discard", f, num) /\ GoOn("dverify") /\ UNCHANGED env
  <2>1. op'.stage = "dverify"
    BY <1>1, <1>6, GoneOn
  <2> QED
    BY <1>5, <1>6, <2>1
<1>7. CASE Fails /\ (CommitFile("discard", f, num) \/ UNCHANGED branch)
  <2>1. op'.stage \notin Reliant /\ env'.edits = env.edits
    BY <1>1, <1>7, Failed
  <2>2. op'.stage # "dcommit" /\ op'.stage # "run"
    BY <2>1, NotReliant
  <2>3. CASE UNCHANGED branch
    BY <1>1, <2>1, <2>3, QuietKept
  <2> QED
    BY <1>5, <1>7, <2>1, <2>2, <2>3
<1> QED
  BY <1>6, <1>7 DEF CommitDiscard

(* What the record of a finished discard says. *)
LEMMA DiscardedRest ==
    ASSUME NEW t \in Task
    PROVE  /\ Discarded(t).att = t.att /\ Discarded(t).adopted = None
           /\ Discarded(t).status = "pending"
           /\ Discarded(t).discard.num = t.discard.num
<1> DEFINE d == [t.discard EXCEPT !.state = "done"]
           C == t.commits \cup {HEAD}
<1>1. t.discard \in Discard
  BY DEF Task
<1>2. d.num = t.discard.num
  BY <1>1 DEF Discard
<1>3. Discarded(t) = [t EXCEPT !.discard = d, !.cutoff = t.att.num, !.commits = C,
                               !.adopted = None, !.status = "pending", !.resume = TRUE,
                               !.input = Baseline]
  BY DEF Discarded, Task
<1> HIDE DEF d, C
<1> QED
  BY <1>2, <1>3 DEF Task

(* Finding and finishing a commit that restored a file keeps LInv. *)
LEMMA FinishDiscardKept ==
    ASSUME LInv, IInv', FinishDiscard
    PROVE  LInv'
<1> DEFINE f == op.cur
           v == Discarded(mem[f])
<1>1. /\ TypeOK /\ op.stage = "dverify" /\ UNCHANGED <<branch, work>>
      /\ branch \in Seq(Commit) /\ mem \in [Files -> Task] /\ HEAD = Len(branch)
      /\ BranchTracked
  BY DEF LInv, IInv, TypeInv, TypeOK, FinishDiscard, HEAD
<1>2. f \in Files /\ mem[f] \in Task
  BY <1>1 DEF LInv, IInv, TypeInv, FilesHeld
<1>3. CASE EndOp /\ UNCHANGED <<mem, disk, env>>
  <2>1. op'.stage \notin Reliant
    BY <1>3, Ended DEF EndOp
  <2> QED
    BY <1>1, <1>3, <2>1, QuietKept
<1>4. CASE Fails /\ UNCHANGED <<mem, disk>>
  BY <1>1, <1>4, Failed, QuietKept
<1>5. CASE /\ IsDiscardCommit(f)
           /\ mem' = [mem EXCEPT ![f] = v] /\ disk' = mem'
           /\ op' = [op EXCEPT !.stage = "discards", !.cur = None]
           /\ UNCHANGED env
  <2>1. /\ Names(branch, "discard", f, mem[f].discard.num) /\ Clean
        /\ HEAD > 0 /\ branch[HEAD].file = f
    BY <1>1, <1>5 DEF IsDiscardCommit, HeadNames, Names
  <2>2. HEAD \in Nat
    BY <1>1, Branch
  <2>3. /\ v \in Task /\ v.att = mem[f].att /\ v.adopted = None /\ v.status = "pending"
        /\ v.discard.num = mem[f].discard.num /\ v.discard.state = "done"
        /\ v.commits = mem[f].commits \cup {Len(branch)}
    BY <1>1, <1>2, <2>2, DiscardedTask, DiscardedRest
  <2> HIDE DEF v
  <2>4. TaskTracked(branch, env.edits, mem[f], f)
    BY <1>1, <1>2 DEF BranchTracked, QueueTracked
  <2>5. TaskTracked(branch, env.edits, v, f) /\ ~ Flying(branch, v, f)
    BY <1>1, <1>2, <2>1, <2>3, <2>4, DiscardedNow
  <2>6. /\ QueueTracked(branch, env.edits, [mem EXCEPT ![f] = v])
        /\ Known([mem EXCEPT ![f] = v]) \subseteq 1..Len(branch)
    BY <1>1, <1>2, <2>1, <2>3, <2>5, QueueRewritten DEF BranchTracked
  <2>7. BranchTracked'
    <3>1. branch' = branch /\ env'.edits = env.edits /\ HEAD' = Len(branch)
      BY <1>1, <1>5 DEF HEAD
    <3> QED
      BY <1>5, <2>6, <3>1 DEF BranchTracked
  <2>8. CommittedOnce' /\ (env'.edits = 0 => Dirty(branch', work') = {})
    BY <1>1, <2>1, Changes DEF LInv, CommittedOnce, HEAD, Clean
  <2>9. op'.stage = "discards"
    BY <1>1, <1>5 DEF TypeOK
  <2> QED
    BY <2>7, <2>8, <2>9, CleanedKept
<1> QED
  BY <1>3, <1>4, <1>5 DEF FinishDiscard

(* Finding the commit of a discard keeps LInv. *)
LEMMA FindDiscardKept ==
    ASSUME LInv, IInv', NEW f \in Files, FindDiscard(f)
    PROVE  LInv'
<1>1. TypeOK /\ UNCHANGED <<mem, disk, branch, work, env>>
      /\ op' = [op EXCEPT !.stage = "dverify", !.cur = f]
  BY DEF LInv, IInv, TypeInv, FindDiscard
<1>2. op'.stage = "dverify"
  BY <1>1 DEF TypeOK
<1>3. op'.stage \notin Reliant
  BY <1>2, Restful, Zenon
<1> QED
  BY <1>1, <1>3, QuietKept

(* When nothing is left to discard, a start or a retry goes on. *)
LEMMA DiscardsDoneKept == ASSUME LInv, IInv', DiscardsDone PROVE LInv'
<1>1. TypeOK /\ UNCHANGED <<mem, disk, branch, work, env>> /\ (EndOp \/ GoOn("tree"))
  BY DEF LInv, IInv, TypeInv, DiscardsDone
<1>2. CASE EndOp
  <2>1. op'.stage \notin Reliant
    BY <1>2, Ended DEF EndOp
  <2> QED
    BY <1>1, <2>1, QuietKept
<1>3. CASE GoOn("tree")
  <2>1. op'.stage \notin Reliant
    BY <1>1, <1>3, GoneOn, Restful
  <2> QED
    BY <1>1, <2>1, QuietKept
<1> QED
  BY <1>1, <1>2, <1>3
-----------------------------------------------------------------------------

(* Recovery and what follows it. *)

(* Accounting for branch and worktree keeps LInv. *)
LEMMA RecoverTreeKept == ASSUME LInv, IInv', RecoverTree PROVE LInv'
<1>1. TypeOK /\ UNCHANGED <<mem, disk, branch, work>>
  BY DEF LInv, IInv, TypeInv, RecoverTree
<1>2. CASE EndOp /\ UNCHANGED env
  <2>1. op'.stage \notin Reliant
    BY <1>2, Ended DEF EndOp
  <2> QED
    BY <1>1, <1>2, <2>1, QuietKept
<1>3. CASE Fails
  BY <1>1, <1>3, Failed, QuietKept
<1>4. CASE Clean /\ GoOn("mark") /\ UNCHANGED env
  <2>1. op'.stage # "dcommit" /\ op'.stage # "run"
    BY <1>1, <1>4, GoneOn
  <2>2. BranchTracked' /\ CommittedOnce'
    BY <1>1, <1>4, SameBranch
  <2>3. Dirty(branch', work') = {}
    BY <1>1, <1>4, Changes DEF Clean
  <2> QED
    BY <2>1, <2>2, <2>3, CleanedKept
<1>5. CASE GoOn("reset") /\ UNCHANGED env
  <2>1. op'.stage \notin Reliant
    BY <1>1, <1>5, GoneOn, Restful
  <2> QED
    BY <1>1, <1>5, <2>1, QuietKept
<1> QED
  BY <1>2, <1>3, <1>4, <1>5 DEF RecoverTree

(* The reset of the worktree keeps LInv. *)
LEMMA ResetTreeKept == ASSUME LInv, IInv', ResetTree PROVE LInv'
<1>1. TypeOK /\ UNCHANGED <<mem, disk, branch>>
  BY DEF LInv, IInv, TypeInv, ResetTree
<1>2. CASE Fails /\ UNCHANGED work
  BY <1>1, <1>2, Failed, QuietKept
<1>3. CASE work' = HeadTree /\ ((GoOn("mark") /\ UNCHANGED env) \/ Fails)
  <2>1. op'.stage # "dcommit" /\ op'.stage # "run" /\ env'.edits = env.edits
    <3>1. CASE GoOn("mark") /\ UNCHANGED env
      BY <1>1, <3>1, GoneOn
    <3>2. CASE Fails
      BY <1>1, <3>2, Failed, NotReliant
    <3> QED
      BY <1>3, <3>1, <3>2
  <2>2. BranchTracked' /\ CommittedOnce'
    BY <1>1, <2>1, SameBranch
  <2>3. \A f \in Files : work'[f] = BytesNow(branch, f)
    BY <1>3, Readings
  <2>4. Dirty(branch', work') = {}
    BY <1>1, <2>3 DEF Dirty
  <2> QED
    BY <2>1, <2>2, <2>4, CleanedKept
<1> QED
  BY <1>2, <1>3 DEF ResetTree

(* Several tasks may be replaced at once. *)
Revises(b, e, q, p) ==
    \A f \in Files :
        \/ p[f] = q[f]
        \/ /\ TaskTracked(b, e, p[f], f) /\ ~ Flying(b, p[f], f)
           /\ \/ p[f].commits = q[f].commits
              \/ /\ p[f].commits = q[f].commits \cup {Len(b)}
                 /\ Len(b) > 0 /\ b[Len(b)].file = f

(* Such a revision keeps the queue tracked. *)
LEMMA QueueRevised ==
    ASSUME NEW b \in Seq(Commit), NEW e, NEW q, NEW p, Revises(b, e, q, p),
           QueueTracked(b, e, q), Known(q) \subseteq 1..Len(b)
    PROVE  QueueTracked(b, e, p) /\ Known(p) \subseteq 1..Len(b)
<1>1. \A n \in Known(p) : \/ n \in Known(q)
                          \/ /\ n = Len(b) /\ Len(b) > 0
                             /\ p[b[Len(b)].file] # q[b[Len(b)].file]
                             /\ b[Len(b)].file \in Files
  <2> SUFFICES ASSUME NEW n \in Known(p), n \notin Known(q)
               PROVE  /\ n = Len(b) /\ Len(b) > 0
                      /\ p[b[Len(b)].file] # q[b[Len(b)].file]
                      /\ b[Len(b)].file \in Files
    OBVIOUS
  <2>1. PICK f \in Files : n \in p[f].commits
    BY DEF Known
  <2>2. n \notin q[f].commits
    BY DEF Known
  <2> QED
    BY <2>1, <2>2 DEF Revises
<1>2. Len(b) \in Nat /\ (Len(b) > 0 => Len(b) \in 1..Len(b))
  OBVIOUS
<1>3. ASSUME NEW g \in Files
      PROVE  TaskTracked(b, e, p[g], g) /\ (Flying(b, p[g], g) => Len(b) \notin Known(p))
  <2>1. CASE p[g] = q[g]
    <3>1. Flying(b, q[g], g) => b[Len(b)].file = g
      BY DEF Flying, Found, Restored, Names
    <3>2. TaskTracked(b, e, q[g], g) /\ (Flying(b, q[g], g) => Len(b) \notin Known(q))
      BY DEF QueueTracked
    <3> QED
      BY <1>1, <2>1, <3>1, <3>2
  <2>2. CASE p[g] # q[g]
    BY <2>2 DEF Revises
  <2> QED
    BY <2>1, <2>2
<1> QED
  BY <1>1, <1>2, <1>3 DEF QueueTracked

(* What recovery leaves of a task, field by field. *)
LEMMA MarkedRest ==
    ASSUME NEW t \in Task, HEAD \in Nat
    PROVE  /\ MarkedDone(t).adopted = t.att.output
           /\ MarkedDone(t).att.num = t.att.num /\ MarkedDone(t).att.base = t.att.base
           /\ MarkedDone(t).att.input = t.att.input
           /\ MarkedDone(t).att.partial = t.att.partial
           /\ Adopted(MarkedDone(t).att)
           /\ t.att.partial => MarkedDone(t).status # "done"
           /\ MarkedInterrupted(t).adopted = t.adopted
           /\ MarkedInterrupted(t).att.num = t.att.num
           /\ MarkedInterrupted(t).att.base = t.att.base
           /\ MarkedInterrupted(t).att.input = t.att.input
           /\ MarkedInterrupted(t).att.commit = t.att.commit
<1> DEFINE o == IF t.att.partial THEN "needs_human" ELSE "done"
           a == [t.att EXCEPT !.commit = HEAD, !.outcome = o]
           b == [t.att EXCEPT !.outcome = "interrupted"]
           r == IF t.att.repair THEN FALSE ELSE t.resume
           C == t.commits \cup {HEAD}
<1>1. t.att \in Attempt /\ HEAD # None
  BY DEF Task
<1>2. /\ a.outcome = o /\ a.output = t.att.output /\ a.commit = HEAD /\ a.num = t.att.num
      /\ a.base = t.att.base /\ a.input = t.att.input /\ a.partial = t.att.partial
  BY <1>1 DEF Attempt
<1>3. /\ b.num = t.att.num /\ b.base = t.att.base /\ b.input = t.att.input
      /\ b.commit = t.att.commit
  BY <1>1 DEF Attempt
<1>4. t.att.partial => o = "needs_human"
  OBVIOUS
<1>5. ~ t.att.partial => o = "done"
  OBVIOUS
<1>6. MarkedDone(t) = [t EXCEPT !.att = a, !.status = a.outcome, !.commits = C,
                                !.adopted = a.output]
  BY DEF MarkedDone
<1>7. MarkedInterrupted(t) = [t EXCEPT !.att = b, !.status = "needs_human", !.resume = r]
  BY DEF MarkedInterrupted, Task
<1> HIDE DEF a, b, o, r, C
<1>8. MarkedDone(t).att = a /\ MarkedDone(t).status = o /\ MarkedDone(t).adopted = a.output
  BY <1>2, <1>6 DEF Task
<1>9. MarkedInterrupted(t).att = b /\ MarkedInterrupted(t).adopted = t.adopted
  BY <1>7 DEF Task
<1>10. Adopted(a)
  BY <1>1, <1>2, <1>4, <1>5 DEF Adopted
<1> QED
  BY <1>2, <1>3, <1>4, <1>8, <1>9, <1>10

(* Marking any of the running tasks keeps the queue tracked. *)
LEMMA MarkTracked ==
    ASSUME LInv, op.stage = "mark", NEW S \in SUBSET Running(mem)
    PROVE  /\ QueueTracked(branch, env.edits, Mark(S))
           /\ Known(Mark(S)) \subseteq 1..HEAD
<1>1. /\ branch \in Seq(Commit) /\ mem \in [Files -> Task] /\ HEAD = Len(branch)
      /\ QueueTracked(branch, env.edits, mem) /\ Known(mem) \subseteq 1..Len(branch)
      /\ HEAD \in Nat
  BY Branch DEF LInv, IInv, TypeInv, TypeOK, BranchTracked, HEAD
<1>2. ASSUME NEW f \in Files
      PROVE  \/ Mark(S)[f] = mem[f]
             \/ /\ TaskTracked(branch, env.edits, Mark(S)[f], f)
                /\ ~ Flying(branch, Mark(S)[f], f)
                /\ \/ Mark(S)[f].commits = mem[f].commits
                   \/ /\ Mark(S)[f].commits = mem[f].commits \cup {Len(branch)}
                      /\ Len(branch) > 0 /\ branch[Len(branch)].file = f
  <2> DEFINE t == mem[f]
  <2>1. t \in Task /\ TaskTracked(branch, env.edits, t, f)
    BY <1>1 DEF QueueTracked
  <2>2. ~ Restored(branch, t, f)
    BY DEF LInv, IInv, DiscardsSaved, Prepared, Restored
  <2>3. CASE f \notin S
    BY <2>3 DEF Mark
  <2>4. CASE f \in S /\ OwnsHead(mem, f)
    <3> DEFINE v == MarkedDone(t)
    <3>1. Mark(S)[f] = v
      BY <2>4 DEF Mark, Marked
    <3>2. Found(branch, t, f) /\ Len(branch) > 0 /\ branch[Len(branch)].file = f
      BY <2>4, Readings DEF Found, Names
    <3>3. /\ v \in Task /\ v.discard = t.discard /\ v.status # "running"
          /\ v.commits = t.commits \cup {Len(branch)}
      BY <1>1, <2>1, MarkedTask
    <3>4. /\ v.adopted = t.att.output /\ v.att.num = t.att.num /\ v.att.base = t.att.base
          /\ v.att.input = t.att.input /\ v.att.partial = t.att.partial
          /\ Adopted(v.att) /\ (v.att.partial => v.status # "done")
      BY <1>1, <2>1, MarkedRest
    <3> HIDE DEF v
    <3> HIDE DEF t
    <3>5. TaskTracked(branch, env.edits, v, f) /\ ~ Flying(branch, v, f)
      BY <1>1, <2>1, <2>2, <3>2, <3>3, <3>4, Recorded
    <3> QED
      BY <3>1, <3>2, <3>3, <3>5 DEF t
  <2>5. CASE f \in S /\ ~ OwnsHead(mem, f)
    <3> DEFINE v == MarkedInterrupted(t)
    <3>1. Mark(S)[f] = v
      BY <2>5 DEF Mark, Marked
    <3>2. t.status = "running" /\ ~ Flying(branch, t, f)
      BY <2>2, <2>5, Readings DEF Running, Flying
    <3>3. /\ v \in Task /\ v.discard = t.discard /\ v.status # "running"
          /\ v.commits = t.commits
      BY <1>1, <2>1, MarkedTask
    <3>4. /\ v.adopted = t.adopted /\ v.att.num = t.att.num /\ v.att.base = t.att.base
          /\ v.att.input = t.att.input /\ v.att.commit = t.att.commit
      BY <1>1, <2>1, MarkedRest
    <3>5. t.att.commit = None
      BY <2>1, <3>2 DEF TaskTracked, AttemptBased
    <3>6. v.att.input \in {t.att.input, BytesAt(branch, t.att.base, f)} /\ v.att.commit = None
      BY <3>4, <3>5
    <3> HIDE DEF v
    <3> HIDE DEF t
    <3>7. TaskTracked(branch, env.edits, v, f) /\ ~ Flying(branch, v, f)
      BY <1>1, <2>1, <3>2, <3>3, <3>4, <3>6, Reworked
    <3> QED
      BY <3>1, <3>3, <3>7 DEF t
  <2> QED
    BY <2>3, <2>4, <2>5
<1> DEFINE p == Mark(S)
<1>3. Revises(branch, env.edits, mem, p)
  BY <1>2 DEF Revises
<1> HIDE DEF p
<1>4. QueueTracked(branch, env.edits, p) /\ Known(p) \subseteq 1..Len(branch)
  BY <1>1, <1>3, QueueRevised
<1> QED
  BY <1>1, <1>4 DEF p

(* Telling finished attempts from interrupted ones keeps LInv. *)
LEMMA RecoverTasksKept == ASSUME LInv, IInv', RecoverTasks PROVE LInv'
<1>1. /\ TypeOK /\ op.stage = "mark" /\ UNCHANGED <<branch, work>> /\ BranchTracked
      /\ HEAD' = HEAD /\ branch' = branch
  BY DEF LInv, IInv, TypeInv, RecoverTasks, HEAD
<1>2. PICK S \in SUBSET Running(mem) : mem' = Mark(S) /\ disk' \in {disk, mem'}
  BY DEF RecoverTasks, Save
<1>3. env'.edits = env.edits /\ op'.stage # "dcommit" /\ op'.stage # "run"
  <2>1. CASE \E r \in SaveResults :
                 /\ Fault(r)
                 /\ EndOpIf(r # "ok", IF op.name = "start" THEN "launch" ELSE "retry")
    <3>1. EndOp \/ \E s \in {"launch", "retry"} : GoOn(s)
      BY <2>1 DEF EndOpIf
    <3>2. EndOp => op'.stage \notin Reliant
      BY Ended DEF EndOp
    <3> QED
      BY <1>1, <2>1, <3>1, <3>2, Unedited, GoneOn, NotReliant
  <2>2. CASE EndOp /\ UNCHANGED env
    <3>1. op'.stage \notin Reliant
      BY <2>2, Ended DEF EndOp
    <3> QED
      BY <2>2, <3>1, NotReliant
  <2>3. CASE Fails
    BY <1>1, <2>3, Failed, NotReliant
  <2> QED
    BY <2>1, <2>2, <2>3 DEF RecoverTasks
<1>4. QueueTracked(branch, env.edits, mem') /\ Known(mem') \subseteq 1..HEAD
  BY <1>1, <1>2, MarkTracked
<1>5. BranchTracked'
  BY <1>1, <1>2, <1>3, <1>4 DEF BranchTracked
<1>6. CommittedOnce' /\ (env'.edits = 0 => Dirty(branch', work') = {})
  BY <1>1, <1>3 DEF LInv, CommittedOnce, WorktreeKept
<1> QED
  BY <1>3, <1>5, <1>6, CleanedKept

(* What queueing a task again leaves of it. *)
LEMMA RequeuedRest ==
    ASSUME NEW t \in Task, NEW f
    PROVE  Requeued(t, f).att = t.att /\ Requeued(t, f).adopted = t.adopted
  BY DEF Requeued, Task

(* Queueing files again keeps LInv. *)
LEMMA RetryTasksKept == ASSUME LInv, IInv', RetryTasks PROVE LInv'
<1> DEFINE q == [f \in Files |-> IF f \in op.files THEN Requeued(mem[f], f) ELSE mem[f]]
<1>1. /\ TypeOK /\ op.stage = "retry" /\ UNCHANGED <<branch, work>> /\ BranchTracked
      /\ HEAD' = HEAD /\ branch' = branch /\ EndOp
      /\ branch \in Seq(Commit) /\ mem \in [Files -> Task] /\ HEAD = Len(branch)
  BY DEF LInv, IInv, TypeInv, TypeOK, RetryTasks, HEAD
<1>2. /\ mem' = q /\ disk' \in {disk, q} /\ \E r \in SaveResults : Fault(r)
  BY DEF RetryTasks, Save
<1>3. AllKnown(mem)
  BY <1>1 DEF LInv, IInv, RecoverySettles
<1>4. ASSUME NEW f \in Files
      PROVE  \/ q[f] = mem[f]
             \/ /\ TaskTracked(branch, env.edits, q[f], f) /\ ~ Flying(branch, q[f], f)
                /\ q[f].commits = mem[f].commits
  <2> DEFINE t == mem[f]
             v == Requeued(t, f)
  <2>1. q[f] = v \/ q[f] = mem[f]
    OBVIOUS
  <2>2. t \in Task /\ TaskTracked(branch, env.edits, t, f) /\ ~ Flying(branch, t, f)
    BY <1>1, <1>3, NothingFlying DEF BranchTracked, QueueTracked
  <2>3. /\ v \in Task /\ v.discard = t.discard /\ v.commits = t.commits
        /\ v.status = "pending" /\ v.att = t.att /\ v.adopted = t.adopted
    BY <1>1, <2>2, RequeuedTask, RequeuedRest DEF TypeOK
  <2> HIDE DEF v, t
  <2>4. TaskTracked(branch, env.edits, v, f) /\ ~ Flying(branch, v, f)
    BY <1>1, <2>2, <2>3, Parked
  <2> QED
    BY <2>1, <2>3, <2>4 DEF t
<1> HIDE DEF q
<1>5. QueueTracked(branch, env.edits, q) /\ Known(q) \subseteq 1..Len(branch)
  <2>1. Revises(branch, env.edits, mem, q)
    BY <1>4 DEF Revises
  <2> QED
    BY <1>1, <2>1, QueueRevised DEF BranchTracked
<1>6. env'.edits = env.edits
  BY <1>1, <1>2, Unedited
<1>7. BranchTracked'
  BY <1>1, <1>2, <1>5, <1>6 DEF BranchTracked
<1>8. CommittedOnce' /\ (env'.edits = 0 => Dirty(branch', work') = {})
  BY <1>1, <1>6 DEF LInv, CommittedOnce, WorktreeKept
<1>9. op'.stage # "dcommit" /\ op'.stage # "run"
  BY <1>1, Ended, NotReliant DEF EndOp
<1> QED
  BY <1>7, <1>8, <1>9, CleanedKept

(* The workers start on a clean worktree, from a snapshot of HEAD. *)
LEMMA RunFilesKept == ASSUME LInv, IInv', RunFiles PROVE LInv'
<1>1. /\ TypeOK /\ op.stage = "launch" /\ UNCHANGED <<mem, disk, branch, work>>
      /\ wk = [w \in Workers |-> AtRest] /\ HEAD' = HEAD /\ branch' = branch
  BY Waiting DEF LInv, IInv, TypeInv, RunFiles, HEAD
<1>2. CASE Fails
  BY <1>1, <1>2, Failed, QuietKept
<1>3. CASE /\ run' = [run EXCEPT !.ref = HEAD, !.accepted = HEAD,
                                 !.jobs = op.files \cap Runnable(mem)]
           /\ GoOn("run") /\ UNCHANGED <<wk, env>>
  <2>1. run'.ref = HEAD /\ op'.stage = "run"
    BY <1>1, <1>3, GoneOn DEF TypeOK
  <2>2. BranchTracked' /\ CommittedOnce'
    BY <1>1, <1>3, SameBranch
  <2>3. \A w \in Workers : wk'[w].pc = "idle"
    BY <1>1, <1>3 DEF AtRest
  <2>4. SnapshotHeld'
    <3>1. \A w \in Workers : wk'[w].pc # "begin" /\ wk'[w].pc \notin Afoot
                             /\ wk'[w].pc \notin Journaled
      BY <2>3 DEF Afoot, Journaled
    <3>2. \A f : SameSince(run.ref, f)'
      BY <1>1, <2>1 DEF SameSince, BytesNow, HEAD
    <3> QED
      BY <3>1, <3>2, Zenon DEF SnapshotHeld
  <2>5. WorktreeKept'
    <3> SUFFICES ASSUME env.edits = 0
                 PROVE  /\ Dirty(branch', work') = {}
                        /\ \A w \in Workers : HandsOff(branch', work', mem'[wk'[w].file],
                                                       wk'[w].file, wk'[w].pc)
      BY <1>3, <2>1 DEF WorktreeKept, Explains
    <3>1. Dirty(branch', work') = {}
      BY <1>1 DEF LInv, WorktreeKept
    <3> QED
      BY <2>3, <3>1 DEF HandsOff
  <2> QED
    BY <2>2, <2>4, <2>5 DEF LInv
<1> QED
  BY <1>2, <1>3 DEF RunFiles

(* The last save of a run keeps LInv. *)
LEMMA FinishRunKept == ASSUME LInv, IInv', FinishRun PROVE LInv'
<1>1. /\ TypeOK /\ UNCHANGED <<branch, work>> /\ EndOp
      /\ mem' = mem /\ disk' \in {disk, mem} /\ \E r \in SaveResults : Fault(r)
  BY DEF LInv, IInv, TypeInv, FinishRun, Save
<1>2. op'.stage \notin Reliant
  BY <1>1, Ended DEF EndOp
<1> QED
  BY <1>1, <1>2, Unedited, QuietKept
-----------------------------------------------------------------------------

(* The invariant. *)

(* It holds before anything has happened. *)
LEMMA InitLedger == Init => LInv
<1> SUFFICES ASSUME Init PROVE LInv
  OBVIOUS
<1>1. /\ mem = [f \in Files |-> NewTask] /\ disk = mem /\ branch = <<>>
      /\ work = [f \in Files |-> Baseline] /\ op = NoOp /\ IInv
  BY InitInvariant DEF Init
<1>2. Len(branch) = 0 /\ HEAD = 0
  BY <1>1 DEF HEAD
<1>3. /\ NewTask.att = NoAttempt /\ NewTask.status = "pending" /\ NewTask.adopted = None
      /\ NewTask.discard.state = "none" /\ NewTask.commits = {}
      /\ NoAttempt.base = 0 /\ NoAttempt.input = None /\ NoAttempt.commit = None
  BY DEF NewTask, NoAttempt
<1>4. ASSUME NEW f \in Files
      PROVE  TaskTracked(branch, env.edits, mem[f], f) /\ ~ Flying(branch, mem[f], f)
  <2>1. ~ Flying(branch, mem[f], f)
    BY <1>2 DEF Flying, Found, Restored, Names
  <2>2. mem[f] = NewTask
    BY <1>1
  <2>3. AttemptBased(branch, mem[f], f)
    <3>1. /\ mem[f].att.base \in 0..Len(branch) /\ mem[f].att.input = None
          /\ mem[f].att.commit = None /\ mem[f].status # "running"
      BY <1>2, <1>3, <2>2
    <3>2. ~ Found(branch, mem[f], f)
      BY <2>1 DEF Flying
    <3> QED
      BY <3>1, <3>2, Zenon DEF AttemptBased
  <2>4. AttemptsNumbered(branch, mem[f], f) /\ DiscardsNumbered(branch, mem[f], f)
    BY <1>2 DEF AttemptsNumbered, DiscardsNumbered
  <2>5. ContentFollows(branch, mem[f], f)
    BY <1>3, <2>1, <2>2 DEF ContentFollows, Flying
  <2> QED
    BY <2>1, <2>3, <2>4, <2>5 DEF TaskTracked
<1>5. Known(mem) = {}
  BY <1>1, <1>3 DEF Known
<1>6. BranchTracked
  BY <1>1, <1>4, <1>5 DEF BranchTracked, QueueTracked
<1>7. CommittedOnce
  BY <1>2 DEF CommittedOnce
<1>8. op.stage # "run" /\ op.stage # "dcommit"
  BY <1>1 DEF NoOp
<1>9. SnapshotHeld
  BY <1>8, Zenon DEF SnapshotHeld
<1>10. WorktreeKept
  <2>1. Dirty(branch, work) = {}
    BY <1>1, <1>2 DEF Dirty, BytesNow, BytesAt
  <2> QED
    BY <1>8, <2>1 DEF WorktreeKept, Explains
<1> QED
  BY <1>1, <1>6, <1>7, <1>9, <1>10 DEF LInv

(* Every step keeps it. *)
LEMMA StepKept == LInv /\ [Next]_vars => LInv'
<1> SUFFICES ASSUME LInv, [Next]_vars PROVE LInv'
  OBVIOUS
<1>1. IInv'
  BY StepKeeps DEF LInv
<1>2. ASSUME NEW w \in Workers, WorkerStep(w) PROVE LInv'
  BY <1>1, <1>2, WorkerKept
<1>3. CASE Operate
  BY <1>1, <1>3, CheckDiscardKept, RestoreSourceKept, FindDiscardKept, CommitDiscardKept,
     FinishDiscardKept, DiscardsDoneKept, RecoverTreeKept, ResetTreeKept, RecoverTasksKept,
     RetryTasksKept, RunFilesKept, FinishRunKept DEF Operate
<1>4. CASE User
  BY <1>1, <1>4, AskedKept, StopKept, PrepareDiscardKept DEF User
<1>5. CASE Crash
  BY <1>1, <1>5, AskedKept
<1>6. CASE \E f \in Files : Edit(f)
  BY <1>1, <1>6, EditKept
<1>7. CASE UNCHANGED vars
  <2>1. UNCHANGED <<mem, disk, branch, work, op, run, wk, env>>
    BY <1>7 DEF vars
  <2>2. BranchTracked' /\ CommittedOnce'
    BY <2>1, SameBranch
  <2>3. SnapshotHeld'
    BY <2>1, SameSnapshot
  <2>4. WorktreeKept'
    BY <2>1 DEF LInv, WorktreeKept
  <2> QED
    BY <1>1, <2>2, <2>3, <2>4 DEF LInv
<1> QED
  BY <1>2, <1>3, <1>4, <1>5, <1>6, <1>7 DEF Next, Progress

(* The queues, the branch, the journal entries and the worktree fit together
   at every call a worker or an operation may be stopped in. *)
THEOREM LedgerInvariant == Spec => []LInv
<1>1. Init => LInv
  BY InitLedger
<1>2. LInv /\ [Next]_vars => LInv'
  BY StepKept
<1> QED
  BY <1>1, <1>2, PTL DEF Spec

(* No attempt and no discard is ever committed twice, whatever answer of git
   commit was lost. *)
THEOREM CommitsOnce == Spec => []CommittedOnce
<1>1. LInv => CommittedOnce
  BY DEF LInv
<1> QED
  BY <1>1, LedgerInvariant, PTL

(* While nobody else edits the worktree, what a queue calls adopted is what
   the branch holds or what is being recorded. *)
LEMMA AdoptedNow == LInv /\ env.edits = 0 => AdoptedIsHead
<1> SUFFICES ASSUME LInv, env.edits = 0 PROVE AdoptedIsHead
  OBVIOUS
<1>1. QueueTracked(branch, env.edits, mem) /\ QueueTracked(branch, env.edits, disk)
  BY DEF LInv, BranchTracked
<1>2. ASSUME NEW q \in {mem, disk}, NEW f \in Files
      PROVE  q[f].adopted \in {None, HeadTree[f]} \/ InFlight(q, f)
  <2>1. q[f].adopted \in {None, BytesNow(branch, f)} \/ Flying(branch, q[f], f)
    BY <1>1 DEF QueueTracked, TaskTracked, ContentFollows
  <2>2. (InFlight(q, f) <=> Flying(branch, q[f], f)) /\ HeadTree[f] = BytesNow(branch, f)
    BY Readings
  <2> QED
    BY <2>1, <2>2
<1>3. ASSUME NEW f \in Files, disk[f].att.partial, disk[f].att.commit # None
      PROVE  disk[f].status # "done"
  BY <1>1, <1>3 DEF QueueTracked, TaskTracked, AttemptBased
<1> QED
  BY <1>2, <1>3 DEF AdoptedIsHead

(* In a behaviour nobody edits the worktree in, the content a queue calls
   adopted is the content at HEAD or in flight, in memory and on disk. *)
THEOREM AdoptedStands == Spec /\ [](env.edits = 0) => []AdoptedIsHead
  BY AdoptedNow, LedgerInvariant, PTL
-----------------------------------------------------------------------------

(* What recovery meets. *)

(* The files the commit at HEAD changed, when it is the one of file f. *)
LEMMA Touched ==
    ASSUME LInv, env.edits = 0, NEW f \in Files, Found(branch, mem[f], f)
    PROVE  HeadTouches = {f} /\ mem[f].att.output = BytesNow(branch, f)
<1>1. ContentFollows(branch, mem[f], f)
  BY DEF LInv, BranchTracked, QueueTracked, TaskTracked
<1>2. /\ mem[f].att.output = BytesNow(branch, f)
      /\ \A g \in Files : BytesNow(branch, g) # BytesAt(branch, HEAD - 1, g) <=> g = f
  BY <1>1 DEF ContentFollows, HEAD
<1>3. \A g \in Files : /\ TreeAt(HEAD)[g] = BytesNow(branch, g)
                       /\ TreeAt(HEAD - 1)[g] = BytesAt(branch, HEAD - 1, g)
  BY Readings DEF BytesNow, HEAD
<1> QED
  BY <1>2, <1>3 DEF HeadTouches

(* recover() finds the branch and the worktree explained. *)
LEMMA TreeAccepted ==
    ASSUME LInv, env.edits = 0, op.stage = "tree"
    PROVE  HistoryExplained(mem) /\ TreeExplained(mem)
<1>1. Prepared(mem) = {} /\ Accounts(mem)
  BY DEF LInv, IInv, DiscardsSaved, QueuesAccount
<1>2. \A f \in Files : mem[f].discard.state # "prepared"
  BY <1>1 DEF Prepared
<1>3. \A f \in Files : InFlight(mem, f) => OwnsHead(mem, f)
  BY <1>2 DEF InFlight, OwnsDiscard
<1>4. HistoryExplained(mem)
  BY <1>1, <1>3 DEF Accounts, HistoryExplained
<1>5. TreeExplained(mem)
  <2>1. Explains(branch, work, mem)
    BY DEF LInv, WorktreeKept
  <2>2. CASE Dirty(branch, work) = {}
    BY <2>2, Changes DEF TreeExplained, Clean
  <2>3. CASE Dirty(branch, work) # {}
    <3>1. PICK f \in Dirty(branch, work) : TRUE
      BY <2>3
    <3>2. f \in Files /\ Dirty(branch, work) = {f} /\ Explained(branch, work, mem[f], f)
      BY <2>1, <3>1 DEF Explains, Dirty
    <3>3. PendingWrite(mem, f)
      BY <1>2, <3>2, Changes DEF Explained, PendingWrite, HEAD
    <3> QED
      BY <3>2, <3>3 DEF TreeExplained
  <2> QED
    BY <2>2, <2>3
<1> QED
  BY <1>4, <1>5

(* recover() can tell what became of every running task. *)
LEMMA MarksAccepted ==
    ASSUME LInv, env.edits = 0, op.stage = "mark"
    PROVE  (\A f \in Running(mem) : MayMark(f)) /\ Settled(Mark(Running(mem)))
<1>1. /\ Prepared(mem) = {} /\ Accounts(mem) /\ TypeOK /\ mem \in [Files -> Task]
      /\ HEAD \in Nat /\ HEAD = Len(branch)
  BY Branch DEF LInv, IInv, DiscardsSaved, QueuesAccount, TypeInv, TypeOK, HEAD
<1>2. \A f \in Files : ~ Restored(branch, mem[f], f)
  BY <1>1 DEF Prepared, Restored
<1>3. Dirty(branch, work) = {}
  BY DEF LInv, WorktreeKept
<1>4. \A f \in Files : work[f] = BytesNow(branch, f)
  BY <1>3 DEF Dirty
<1>5. ASSUME NEW f \in Running(mem) PROVE MayMark(f)
  <2>1. f \in Files /\ mem[f].status = "running"
    BY DEF Running
  <2>2. AttemptBased(branch, mem[f], f)
    BY <2>1 DEF LInv, BranchTracked, QueueTracked, TaskTracked
  <2>3. CASE OwnsHead(mem, f)
    <3>1. Found(branch, mem[f], f)
      BY <2>1, <2>3, Readings
    <3>2. HEAD - 1 = AttemptCommitBase(mem[f].att)
      BY <1>1, <2>2, <3>1 DEF AttemptBased
    <3>3. HeadTouches = {f} /\ work[f] = mem[f].att.output
      BY <1>4, <2>1, <3>1, Touched
    <3> QED
      BY <2>3, <3>2, <3>3 DEF MayMark
  <2>4. CASE ~ OwnsHead(mem, f)
    <3>1. ~ Flying(branch, mem[f], f)
      BY <1>2, <2>1, <2>4, Readings DEF Flying
    <3>2. mem[f].att.input \in {None, BytesNow(branch, f)}
      BY <2>1, <2>2, <3>1 DEF AttemptBased
    <3> QED
      BY <2>1, <2>4, <3>2, Readings DEF MayMark
  <2> QED
    BY <2>3, <2>4
<1>6. ASSUME NEW n \in 1..HEAD PROVE n \in Known(Mark(Running(mem)))
  <2>1. \A f \in Files : mem[f].commits \subseteq Mark(Running(mem))[f].commits
    <3> SUFFICES ASSUME NEW f \in Files
                 PROVE  mem[f].commits \subseteq Mark(Running(mem))[f].commits
      OBVIOUS
    <3>1. Mark(Running(mem))[f] \in {mem[f], MarkedDone(mem[f]), MarkedInterrupted(mem[f])}
      BY DEF Mark, Marked
    <3>2. /\ MarkedDone(mem[f]).commits = mem[f].commits \cup {HEAD}
          /\ MarkedInterrupted(mem[f]).commits = mem[f].commits
      BY <1>1, MarkedTask
    <3> QED
      BY <3>1, <3>2
  <2>2. CASE n \in Known(mem)
    BY <2>1, <2>2 DEF Known
  <2>3. CASE n = HEAD /\ \E f \in Files : InFlight(mem, f)
    <3>1. PICK f \in Files : InFlight(mem, f)
      BY <2>3
    <3>2. OwnsHead(mem, f)
      BY <1>2, <3>1, Readings DEF InFlight
    <3>3. f \in Running(mem)
      BY <3>2 DEF OwnsHead, Validated, Running
    <3>4. Mark(Running(mem))[f] = MarkedDone(mem[f])
      BY <3>2, <3>3 DEF Mark, Marked
    <3>5. HEAD \in Mark(Running(mem))[f].commits
      BY <1>1, <3>4, MarkedTask
    <3> QED
      BY <2>3, <3>5 DEF Known
  <2> QED
    BY <1>1, <2>2, <2>3 DEF Accounts
<1>7. Settled(Mark(Running(mem)))
  BY <1>3, <1>6, Changes DEF Settled, AllKnown, Clean
<1> QED
  BY <1>5, <1>7

(* While nobody else edits the worktree, recover() accepts what any crash,
   stop or failure of the program left behind. *)
THEOREM Recovers == Spec => []RecoveryAccepts
<1>1. LInv => RecoveryAccepts
  BY TreeAccepted, MarksAccepted DEF RecoveryAccepts
<1> QED
  BY <1>1, LedgerInvariant, PTL
-----------------------------------------------------------------------------

(* Bytes of somebody else. *)

(* Bytes nobody in the program produced stay where they are uncommitted, and
   no step leads to the call that would overwrite them. *)
Spared ==
    \A f \in Files : work[f] = Foreign /\ HeadTree[f] # Foreign /\ ~ Overwriting(f)
                         => work'[f] = Foreign /\ ~ Overwriting(f)'

(* The calls of a worker that overwrite its file. *)
Overwrites == {"write", "restore", "undo"}
(* Worker w goes on to another call than these. *)
Passes(w) == UNCHANGED wk \/ \E p \in PCs \ Overwrites : wk' = [wk EXCEPT ![w].pc = p]
(* It goes on to one of these over bytes its attempt knows. *)
Looked(w) == /\ wk[w].pc \in Afoot
             /\ work[wk[w].file] \in {mem[wk[w].file].att.input, mem[wk[w].file].att.output}
             /\ \E p : wk' = [wk EXCEPT ![w].pc = p]

(* A worker knows the bytes it read and the bytes it proposed: both are its
   own, or the ones at HEAD. *)
LEMMA OwnBytes ==
    ASSUME LInv, NEW w \in Workers, op.stage = "run", wk[w].pc \in Afoot,
           work[wk[w].file] \in {mem[wk[w].file].att.input, mem[wk[w].file].att.output}
    PROVE  work[wk[w].file] = Foreign => HeadTree[wk[w].file] = Foreign
<1> DEFINE f == wk[w].file
           t == mem[f]
<1>1. /\ f \in Files /\ TaskTracked(branch, env.edits, t, f) /\ ~ Flying(branch, t, f)
      /\ t.status = "running"
  BY InHand
<1>2. /\ t.att.input \in {None, BytesAt(branch, t.att.base, f)} /\ t.att.output # Foreign
      /\ BytesAt(branch, t.att.base, f) = BytesNow(branch, f)
  BY <1>1 DEF TaskTracked, AttemptBased
<1>3. HeadTree[f] = BytesNow(branch, f)
  BY <1>1, Readings
<1>4. None # Foreign
  OBVIOUS
<1> QED
  BY <1>2, <1>3, <1>4

(* A save, a failed call and a call that only goes on. *)
LEMMA Passing ==
    ASSUME NEW w \in Workers
    PROVE  /\ \A pc \in PCs \ Overwrites : Goto(w, pc) => Passes(w)
           /\ \A b : Abort(w, b) => Passes(w)
           /\ \A t, pc : SaveOr(w, t, pc) /\ pc \in PCs \ Overwrites => Passes(w)
           /\ \A t, s : Finish(w, t, s) => Passes(w)
<1>1. \A pc \in PCs \ Overwrites : Goto(w, pc) => Passes(w)
  BY DEF Goto, Passes
<1>2. \A b : Abort(w, b) => Passes(w)
  BY <1>1 DEF Abort, PCs, Overwrites
<1>3. ASSUME NEW t, NEW pc \in PCs \ Overwrites, SaveOr(w, t, pc)
      PROVE  Passes(w)
  <2>1. Goto(w, pc) \/ Abort(w, TRUE)
    BY <1>3, Zenon DEF SaveOr
  <2> QED
    BY <1>1, <1>2, <2>1
<1>4. ASSUME NEW t, NEW s, Finish(w, t, s)
      PROVE  Passes(w)
  <2>1. PICK pc : SaveOr(w, Finished(t, s), pc) /\ pc \in {"begin", "idle"}
    BY <1>4 DEF Finish, Looped
  <2>2. pc \in PCs \ Overwrites
    BY <2>1 DEF PCs, Overwrites
  <2> QED
    BY <1>3, <2>1, <2>2
<1> QED
  BY <1>1, <1>2, <1>3, <1>4

(* The calls before the writer, and the record of a commit. *)
LEMMA AgentPasses ==
    ASSUME NEW w \in Workers,
           \/ LeaveFile(w) \/ Begin(w) \/ ReadInput(w) \/ OpenRepair(w)
           \/ Validate(w) \/ Answer(w) \/ RecordCommit(w)
    PROVE  Passes(w) /\ UNCHANGED <<work, op>> /\ op.stage = "run"
<1>1. \A pc \in {"idle", "input", "repair", "think", "verify", "exit"} :
          pc \in PCs \ Overwrites
  BY DEF PCs, Overwrites
<1>2. CASE LeaveFile(w)
  BY <1>1, <1>2, Passing DEF LeaveFile, At
<1>3. CASE Begin(w)
  <2>1. \/ \E t : SaveOr(w, t, "input")
        \/ Abort(w, FALSE)
    BY <1>3 DEF Begin
  <2> QED
    BY <1>1, <1>3, <2>1, Passing DEF Begin, At
<1>4. CASE ReadInput(w)
  <2>1. \/ \E t : SaveOr(w, t, "repair")
        \/ \E t : Finish(w, t, "needs_human")
        \/ Abort(w, FALSE)
    BY <1>4 DEF ReadInput
  <2> QED
    BY <1>1, <1>4, <2>1, Passing DEF ReadInput, At
<1>5. CASE OpenRepair(w)
  <2>1. \/ \E t : SaveOr(w, t, "think")
        \/ Goto(w, "think")
        \/ Abort(w, TRUE)
    BY <1>5 DEF OpenRepair
  <2> QED
    BY <1>1, <1>5, <2>1, Passing DEF OpenRepair, At
<1>6. CASE Validate(w)
  BY <1>6 DEF Validate, At, Passes
<1>7. CASE Decline(w)
  <2>1. \/ \E t, s : Finish(w, t, s)
        \/ \E b : Abort(w, b)
    BY <1>7 DEF Decline
  <2> QED
    BY <1>7, <2>1, Passing DEF Decline, At
<1>8. CASE Skip(w)
  <2>1. \/ \E t, s : Finish(w, t, s)
        \/ Abort(w, TRUE)
    BY <1>8 DEF Skip
  <2> QED
    BY <1>8, <2>1, Passing DEF Skip, At
<1>9. CASE Adopt(w)
  <2>1. \/ \E t : SaveOr(w, t, "verify")
        \/ Abort(w, TRUE)
    BY <1>9 DEF Adopt
  <2> QED
    BY <1>1, <1>9, <2>1, Passing DEF Adopt, At
<1>10. CASE RecordCommit(w)
  <2>1. \/ \E r \in SaveResults : Goto(w, IF r = "ok" THEN "idle" ELSE "exit")
        \/ Abort(w, TRUE)
    BY <1>10 DEF RecordCommit
  <2> QED
    BY <1>1, <1>10, <2>1, Passing DEF RecordCommit, At
<1> QED
  BY <1>2, <1>3, <1>4, <1>5, <1>6, <1>7, <1>8, <1>9, <1>10 DEF Answer

(* The calls of the writer look before they lead to an overwrite. *)
LEMMA WriterLooks ==
    ASSUME NEW w \in Workers,
           \/ VerifySource(w) \/ CheckAdoption(w) \/ JournalValidated(w) \/ CommitAdoption(w)
    PROVE  (Passes(w) \/ Looked(w)) /\ UNCHANGED <<work, op>> /\ op.stage = "run"
<1>1. /\ op.stage = "run" /\ wk[w].pc \in {"verify", "check", "journal", "commit"}
      /\ UNCHANGED <<work, op>>
  BY DEF VerifySource, CheckAdoption, JournalValidated, CommitAdoption, CleanUp, At
<1>2. wk[w].pc \in Afoot
  BY <1>1 DEF Afoot
<1>3. {"journal", "commit", "record"} \subseteq PCs \ Overwrites
  BY DEF PCs, Overwrites
<1>4. CASE CleanUp(w) \/ Undo(w)
  <2>1. \/ CanRollBack(wk[w].file, mem[wk[w].file].att) /\ Goto(w, "restore")
        \/ CanRollBack(wk[w].file, mem[wk[w].file].att) /\ Goto(w, "undo")
        \/ Abort(w, TRUE)
    BY <1>4 DEF CleanUp, Undo
  <2> QED
    BY <1>1, <1>2, <2>1, Passing DEF Looked, CanRollBack, Goto
<1>5. CASE VerifySource(w)
  <2>1. \/ \E t, s : Finish(w, t, s)
        \/ work[wk[w].file] = mem[wk[w].file].att.input /\ Goto(w, "write")
        \/ Abort(w, TRUE)
    BY <1>5 DEF VerifySource
  <2> QED
    BY <1>1, <1>2, <2>1, Passing DEF Looked, Goto
<1>6. CASE CheckAdoption(w)
  <2>1. Goto(w, "journal") \/ CleanUp(w) \/ Undo(w)
    BY <1>6 DEF CheckAdoption
  <2> QED
    BY <1>1, <1>3, <1>4, <2>1, Passing
<1>7. CASE JournalValidated(w)
  <2>1. Goto(w, "commit") \/ Undo(w)
    BY <1>7, Zenon DEF JournalValidated
  <2> QED
    BY <1>1, <1>3, <1>4, <2>1, Passing
<1>8. CASE CommitAdoption(w)
  <2>1. Goto(w, "record") \/ CleanUp(w) \/ Abort(w, TRUE)
    BY <1>8 DEF CommitAdoption
  <2> QED
    BY <1>1, <1>3, <1>4, <2>1, Passing
<1> QED
  BY <1>5, <1>6, <1>7, <1>8

(* The calls that overwrite, one file each. *)
LEMMA WriterOverwrites ==
    ASSUME NEW w \in Workers, WriteSource(w) \/ RollBack(w)
    PROVE  /\ Passes(w) /\ UNCHANGED op /\ op.stage = "run" /\ wk[w].pc \in Overwrites
           /\ UNCHANGED work \/ \E x : work' = [work EXCEPT ![wk[w].file] = x]
<1>1. CASE WriteSource(w)
  <2>1. "check" \in PCs \ Overwrites
    BY DEF PCs, Overwrites
  <2>2. Goto(w, "check") \/ Abort(w, TRUE)
    BY <1>1 DEF WriteSource
  <2>3. Passes(w)
    BY <2>1, <2>2, Passing
  <2> QED
    BY <1>1, <2>3 DEF WriteSource, At, Overwrites
<1>2. CASE RollBack(w)
  <2>1. (\E t, s : Finish(w, t, s)) \/ Abort(w, TRUE)
    BY <1>2 DEF RollBack
  <2>2. Passes(w)
    BY <2>1, Passing
  <2> QED
    BY <1>2, <2>2 DEF RollBack, At, Overwrites
<1> QED
  BY <1>1, <1>2

(* Every call of a worker spares them. *)
LEMMA WorkerSpares ==
    ASSUME LInv, NEW w \in Workers, WorkerStep(w)
    PROVE  Spared
<1>1. /\ wk \in [Workers -> [pc : PCs, file : Files \cup {None}]] /\ work \in [Files -> Bytes]
      /\ FilesHeld
  BY DEF LInv, IInv, TypeInv, TypeOK
<1>2. /\ op.stage = "run" /\ UNCHANGED op
      /\ UNCHANGED work \/ (/\ wk[w].pc \in Overwrites
                            /\ \E x : work' = [work EXCEPT ![wk[w].file] = x])
      /\ \/ Passes(w) \/ Looked(w)
         \/ \E f \in Files : wk' = [wk EXCEPT ![w] = [pc |-> "begin", file |-> f]]
  <2>1. CASE TakeJob(w)
    <3>1. run.jobs \subseteq Files
      BY DEF LInv, IInv, TypeInv, TypeOK
    <3> QED
      BY <2>1, <3>1 DEF TakeJob, At
  <2> QED
    BY <2>1, AgentPasses, WriterLooks, WriterOverwrites DEF WorkerStep, Handle
<1> SUFFICES ASSUME NEW f \in Files, work[f] = Foreign, HeadTree[f] # Foreign,
                    ~ Overwriting(f)
             PROVE  work'[f] = Foreign /\ ~ Overwriting(f)'
  BY DEF Spared
<1>3. \A v \in Workers : ~ (wk[v].pc \in Overwrites /\ wk[v].file = f)
  BY DEF Overwriting, Overwrites
<1>4. work'[f] = work[f]
  BY <1>1, <1>2, <1>3
<1>5. \A v \in Workers \ {w} : wk'[v] = wk[v]
  BY <1>1, <1>2 DEF Passes, Looked
<1>6. ~ (wk'[w].pc \in Overwrites /\ wk'[w].file = f)
  <2>1. CASE UNCHANGED wk
    BY <1>3, <2>1
  <2>2. ASSUME NEW p \in PCs \ Overwrites, wk' = [wk EXCEPT ![w].pc = p]
        PROVE  wk'[w].pc \notin Overwrites
    BY <1>1, <2>2
  <2>3. CASE Looked(w)
    <3>1. work[wk[w].file] = Foreign => HeadTree[wk[w].file] = Foreign
      BY <1>2, <2>3, OwnBytes DEF Looked
    <3>2. wk'[w].file = wk[w].file
      BY <1>1, <2>3 DEF Looked
    <3> QED
      BY <3>1, <3>2
  <2>4. ASSUME NEW g \in Files, wk' = [wk EXCEPT ![w] = [pc |-> "begin", file |-> g]]
        PROVE  wk'[w].pc \notin Overwrites
    BY <1>1, <2>4 DEF Overwrites
  <2> QED
    BY <1>2, <2>1, <2>2, <2>3, <2>4 DEF Passes
<1>7. ~ Overwriting(f)'
  BY <1>2, <1>3, <1>5, <1>6 DEF Overwriting, Overwrites
<1> QED
  BY <1>4, <1>7

(* The stages in which an operation overwrites the worktree. *)
Resets == {"drestore", "reset"}
AtEase == [w \in Workers |-> AtRest]

(* A step that writes nothing and leads to no overwrite spares them. *)
LEMMA QuietSpares ==
    ASSUME UNCHANGED work, wk' \in {wk, AtEase}, op'.stage \notin Resets
    PROVE  Spared
<1> SUFFICES ASSUME NEW f \in Files, ~ Overwriting(f) PROVE ~ Overwriting(f)'
  BY DEF Spared
<1>1. \A v \in Workers : ~ (wk[v].pc \in Overwrites /\ wk[v].file = f)
  BY DEF Overwriting, Overwrites
<1>2. \A v \in Workers : AtEase[v].pc \notin Overwrites
  BY DEF AtEase, AtRest, Overwrites
<1>3. \A v \in Workers : ~ (wk'[v].pc \in Overwrites /\ wk'[v].file = f)
  BY <1>1, <1>2
<1> QED
  BY <1>3 DEF Overwriting, Overwrites, Resets

(* So does one that moves neither a worker nor the operation. *)
LEMMA SameSpares ==
    ASSUME UNCHANGED <<op, wk>>, \A f \in Files : work[f] = Foreign => work'[f] = Foreign
    PROVE  Spared
  BY DEF Spared, Overwriting

(* How an operation ends, begins and goes on. *)
LEMMA OperationPasses ==
    ASSUME TypeOK
    PROVE  /\ EndOp => wk' \in {wk, AtEase} /\ op'.stage \notin Resets
           /\ Fails => wk' \in {wk, AtEase} /\ op'.stage \notin Resets
           /\ \A stage : GoOn(stage) => op'.stage = stage
           /\ \A name, S : Begins(name, "discards", S) => op'.stage \notin Resets
<1>1. EndOp => wk' \in {wk, AtEase} /\ op'.stage \notin Resets
  <2>1. NoOp.stage \notin Resets
    BY DEF NoOp, Resets
  <2>2. EndOp => wk' = AtEase /\ op' = NoOp
    BY DEF EndOp, AtEase
  <2> QED
    BY <2>1, <2>2
<1>2. Fails => wk' \in {wk, AtEase} /\ op'.stage \notin Resets
  BY <1>1 DEF Fails
<1>3. \A stage : GoOn(stage) => op'.stage = stage
  BY GoneOn
<1>4. \A name, S : Begins(name, "discards", S) => op'.stage \notin Resets
  BY DEF Begins, NoOp, Resets
<1> QED
  BY <1>1, <1>2, <1>3, <1>4

(* The steps of the operations that do not touch the worktree. *)
LEMMA OperationSpares ==
    ASSUME TypeOK,
           \/ CommitDiscard \/ FinishDiscard \/ DiscardsDone \/ RecoverTasks \/ RetryTasks
           \/ RunFiles \/ FinishRun \/ \E f \in Files : FindDiscard(f) \/ PrepareDiscard(f)
    PROVE  Spared
<1>1. UNCHANGED work
  BY DEF CommitDiscard, FinishDiscard, DiscardsDone, RecoverTasks, RetryTasks, RunFiles,
         FinishRun, FindDiscard, PrepareDiscard
<1>2. \A stage \in {"discards", "dverify", "tree", "launch", "retry", "run"} :
          stage \notin Resets
  BY DEF Resets
<1>3. CASE EndOp \/ Fails
  BY <1>1, <1>3, OperationPasses, QuietSpares
<1>4. CASE /\ UNCHANGED wk
           /\ \E stage \in {"discards", "dverify", "tree", "launch", "retry", "run"} :
                  op'.stage = stage
  BY <1>1, <1>2, <1>4, QuietSpares
<1>5. CASE CommitDiscard
  <2>1. (GoOn("dverify") /\ UNCHANGED wk) \/ Fails
    BY <1>5 DEF CommitDiscard
  <2> QED
    BY <1>3, <1>4, <2>1, OperationPasses
<1>6. CASE FinishDiscard
  <2>1. \/ op' = [op EXCEPT !.stage = "discards", !.cur = None] /\ UNCHANGED wk
        \/ EndOp \/ Fails
    BY <1>6 DEF FinishDiscard
  <2>2. op' = [op EXCEPT !.stage = "discards", !.cur = None] => op'.stage = "discards"
    BY DEF TypeOK
  <2> QED
    BY <1>3, <1>4, <2>1, <2>2
<1>7. CASE DiscardsDone
  <2>1. (GoOn("tree") /\ UNCHANGED wk) \/ EndOp
    BY <1>7 DEF DiscardsDone
  <2> QED
    BY <1>3, <1>4, <2>1, OperationPasses
<1>8. CASE RecoverTasks
  <2>1. \/ EndOp \/ Fails
        \/ \E stage \in {"launch", "retry"} : GoOn(stage) /\ UNCHANGED wk
    BY <1>8, Zenon DEF RecoverTasks, EndOpIf
  <2> QED
    BY <1>3, <1>4, <2>1, OperationPasses
<1>9. CASE RetryTasks \/ FinishRun
  BY <1>3, <1>9 DEF RetryTasks, FinishRun
<1>10. CASE RunFiles
  <2>1. (GoOn("run") /\ UNCHANGED wk) \/ Fails
    BY <1>10 DEF RunFiles
  <2> QED
    BY <1>3, <1>4, <2>1, OperationPasses
<1>11. CASE \E f \in Files : FindDiscard(f)
  <2>1. UNCHANGED wk /\ op'.stage = "dverify"
    BY <1>11 DEF FindDiscard, TypeOK
  <2> QED
    BY <1>4, <2>1
<1>12. CASE \E f \in Files : PrepareDiscard(f)
  <2>1. UNCHANGED wk /\ Begins("discard", "discards", {})
    BY <1>12 DEF PrepareDiscard
  <2> QED
    BY <1>1, <2>1, OperationPasses, QuietSpares
<1> QED
  BY <1>5, <1>6, <1>7, <1>8, <1>9, <1>10, <1>11, <1>12

(* A user's call, a crash, an edit and a step of nothing. *)
LEMMA AskedSpares ==
    ASSUME TypeOK,
           \/ Start \/ Stop \/ Retry \/ Reload \/ Open \/ Crash \/ UNCHANGED vars
           \/ \E f \in Files : Edit(f)
    PROVE  Spared
<1>1. CASE Stop \/ Reload \/ UNCHANGED vars
  BY <1>1, SameSpares DEF Stop, Reload, vars
<1>2. CASE Start
  <2>1. UNCHANGED <<work, wk>> /\ (UNCHANGED op \/ \E S : Begins("start", "discards", S))
    BY <1>2, Zenon DEF Start
  <2> QED
    BY <2>1, OperationPasses, QuietSpares, SameSpares
<1>3. CASE Retry
  <2>1. UNCHANGED <<work, wk>> /\ \E S : Begins("retry", "discards", S)
    BY <1>3 DEF Retry
  <2> QED
    BY <2>1, OperationPasses, QuietSpares
<1>4. CASE Open
  <2>1. UNCHANGED <<work, wk>> /\ (op' = NoOp \/ Begins("open", "discards", {}))
    BY <1>4 DEF Open
  <2>2. NoOp.stage \notin Resets
    BY DEF NoOp, Resets
  <2> QED
    BY <2>1, <2>2, OperationPasses, QuietSpares
<1>5. CASE Crash
  <2>1. UNCHANGED work /\ wk' = AtEase /\ op' = Down
    BY <1>5 DEF Crash, AtEase
  <2>2. Down.stage \notin Resets
    BY DEF Down, NoOp, Resets
  <2> QED
    BY <2>1, <2>2, QuietSpares
<1>6. CASE \E f \in Files : Edit(f)
  <2>1. PICK f \in Files : work' = [work EXCEPT ![f] = Foreign] /\ UNCHANGED <<op, wk>>
    BY <1>6 DEF Edit
  <2>2. \A g \in Files : work[g] = Foreign => work'[g] = Foreign
    BY <2>1 DEF TypeOK
  <2> QED
    BY <2>1, <2>2, SameSpares
<1> QED
  BY <1>1, <1>2, <1>3, <1>4, <1>5, <1>6

(* A discard restores its file only over known bytes. *)
LEMMA DiscardSpares ==
    ASSUME LInv, RestoreSource \/ \E f \in Files : CheckDiscard(f)
    PROVE  Spared
<1>1. TypeOK
  BY DEF LInv, IInv, TypeInv
<1>2. ASSUME NEW f \in Files, CheckDiscard(f) PROVE Spared
  <2>1. CASE EndOp \/ Fails
    BY <1>1, <1>2, <2>1, OperationPasses, QuietSpares DEF CheckDiscard
  <2>2. CASE MayRestore(f) /\ op' = [op EXCEPT !.stage = "drestore", !.cur = f] /\ UNCHANGED wk
    <3>1. op'.stage = "drestore" /\ op'.cur = f /\ UNCHANGED <<work, wk>>
      BY <1>1, <1>2, <2>2 DEF TypeOK, CheckDiscard
    <3>2. work[f] = Foreign => HeadTree[f] = Foreign
      BY <2>2 DEF MayRestore
    <3> QED
      BY <3>1, <3>2 DEF Spared, Overwriting
  <2> QED
    BY <1>2, <2>1, <2>2 DEF CheckDiscard
<1>3. CASE RestoreSource
  <2>1. CASE UNCHANGED work /\ EndOp
    BY <1>1, <2>1, OperationPasses, QuietSpares
  <2>2. CASE /\ work' = [work EXCEPT ![op.cur] = Baseline]
             /\ GoOn("dcommit") /\ UNCHANGED wk /\ op.stage = "drestore"
    <3>1. op'.stage = "dcommit"
      BY <1>1, <2>2, OperationPasses
    <3>2. \A g \in Files \ {op.cur} : work'[g] = work[g]
      BY <1>1, <2>2 DEF TypeOK
    <3> QED
      BY <2>2, <3>1, <3>2 DEF Spared, Overwriting
  <2> QED
    BY <1>3, <2>1, <2>2 DEF RestoreSource
<1> QED
  BY <1>2, <1>3

(* Recovery resets only a worktree in which an attempt of the program left
   the one difference. *)
LEMMA RecoverySpares == ASSUME LInv, RecoverTree \/ ResetTree PROVE Spared
<1>1. TypeOK
  BY DEF LInv, IInv, TypeInv
<1>2. CASE ResetTree
  BY <1>2 DEF ResetTree, Spared, Overwriting
<1>3. CASE RecoverTree
  <2>1. CASE EndOp \/ Fails
    BY <1>1, <1>3, <2>1, OperationPasses, QuietSpares DEF RecoverTree
  <2>2. CASE GoOn("mark") /\ UNCHANGED wk
    <3>1. op'.stage \notin Resets
      BY <1>1, <2>2, OperationPasses DEF Resets
    <3> QED
      BY <1>3, <2>2, <3>1, QuietSpares DEF RecoverTree
  <2>3. CASE op.stage = "tree" /\ ~ Clean /\ TreeExplained(mem)
    <3> SUFFICES ASSUME NEW f \in Files, work[f] = Foreign, HeadTree[f] # Foreign PROVE FALSE
      BY DEF Spared
    <3>1. f \in ChangedFiles
      BY DEF ChangedFiles
    <3>2. PendingWrite(mem, f)
      BY <2>3, <3>1 DEF TreeExplained, PendingWrite
    <3>3. /\ mem[f].status = "running" /\ AttemptCommitBase(mem[f].att) = Len(branch)
          /\ Foreign \in {mem[f].att.input, mem[f].att.output}
      BY <3>2 DEF PendingWrite, HEAD
    <3>4. AttemptBased(branch, mem[f], f)
      BY DEF LInv, BranchTracked, QueueTracked, TaskTracked
    <3>5. ~ Restored(branch, mem[f], f)
      BY <2>3 DEF LInv, IInv, DiscardsSaved, Prepared, Restored
    <3>6. ~ Found(branch, mem[f], f)
      <4>1. Len(branch) \in Nat
        BY <1>1 DEF TypeOK
      <4>2. Len(branch) # Len(branch) - 1
        BY <4>1
      <4> QED
        BY <3>3, <3>4, <4>2 DEF AttemptBased
    <3>7. mem[f].att.output # Foreign /\ mem[f].att.input \in {None, HeadTree[f]}
      BY <3>3, <3>4, <3>5, <3>6, Readings DEF AttemptBased, Flying
    <3>8. None # Foreign
      OBVIOUS
    <3> QED
      BY <3>3, <3>7, <3>8
  <2> QED
    BY <1>3, <2>1, <2>2, <2>3 DEF RecoverTree
<1> QED
  BY <1>2, <1>3

(* No adoption, rollback, recovery or discard starts to overwrite a file that
   holds bytes somebody else left uncommitted; an edit that comes after the
   look at the file, before its overwrite, is the only one that is lost. *)
THEOREM ForeignStands == Spec => ForeignEditsSurvive
<1>1. LInv /\ [Next]_vars => Spared
  <2> SUFFICES ASSUME LInv, [Next]_vars PROVE Spared
    OBVIOUS
  <2>1. TypeOK
    BY DEF LInv, IInv, TypeInv
  <2>2. ASSUME NEW w \in Workers, WorkerStep(w) PROVE Spared
    BY <2>2, WorkerSpares
  <2>3. CASE Operate
    BY <2>1, <2>3, DiscardSpares, RecoverySpares, OperationSpares DEF Operate
  <2>4. CASE User
    BY <2>1, <2>4, OperationSpares, AskedSpares DEF User
  <2>5. CASE Crash \/ UNCHANGED vars \/ \E f \in Files : Edit(f)
    BY <2>1, <2>5, AskedSpares
  <2> QED
    BY <2>2, <2>3, <2>4, <2>5 DEF Next, Progress
<1>2. LInv /\ [Next]_vars =>
          [\A f \in Files : work[f] = Foreign /\ HeadTree[f] # Foreign /\ ~ Overwriting(f)
                                => work'[f] = Foreign /\ ~ Overwriting(f)']_vars
  BY <1>1 DEF Spared
<1> QED
  BY <1>2, LedgerInvariant, PTL DEF Spec, ForeignEditsSurvive
-----------------------------------------------------------------------------

(* Execution implements Ledger. *)

(* The log of the refinement mapping: one change for each commit. *)
LEMMA LogType ==
    ASSUME branch \in Seq(Commit)
    PROVE  Log \in Seq(Change) /\ Len(Log) = HEAD
<1>1. HEAD \in Nat /\ HEAD = Len(branch)
  BY DEF HEAD
<1>2. \A n \in 1..HEAD : Log[n] \in Change
  <2> SUFFICES ASSUME NEW n \in 1..HEAD PROVE Log[n] \in Change
    OBVIOUS
  <2>1. branch[n] \in Commit
    BY <1>1
  <2>2. branch[n].kind \in {"attempt", "discard"} /\ branch[n].file \in Files
        /\ branch[n].num \in Nat /\ branch[n].tree \in [Files -> Bytes]
    BY <2>1 DEF Commit
  <2>3. branch[n].tree[branch[n].file] \in Digest
    BY <2>2 DEF Digest
  <2> QED
    BY <2>2, <2>3 DEF Log, Change, ChangeOf
<1>3. Log = [n \in 1..HEAD |-> Log[n]]
  BY DEF Log
<1> HIDE DEF Log
<1> QED
  BY <1>1, <1>2, <1>3

(* What a queue intends are changes. *)
IntentsOf(q) == {ChangeOf("attempt", f, q[f].att.num, q[f].att.output) :
                     f \in {g \in Files : Validated(q[g])}}
                \cup {ChangeOf("discard", f, q[f].discard.num, Baseline) : f \in Prepared(q)}

(* All of them are changes a Ledger may carry. *)
LEMMA IntentsType == ASSUME NEW q \in [Files -> Task] PROVE IntentsOf(q) \subseteq Change
<1> SUFFICES ASSUME NEW f \in Files
             PROVE  /\ ChangeOf("attempt", f, q[f].att.num, q[f].att.output) \in Change
                    /\ ChangeOf("discard", f, q[f].discard.num, Baseline) \in Change
  BY DEF IntentsOf, Prepared
<1>1. q[f].att \in Attempt /\ q[f].discard \in Discard
  BY DEF Task
<1>2. /\ q[f].att.num \in Nat /\ q[f].att.output \in Digest
      /\ q[f].discard.num \in Nat /\ Baseline \in Digest
  BY <1>1 DEF Attempt, Discard, Digest, Bytes
<1> QED
  BY <1>2 DEF ChangeOf, Change

(* A commit of a change both queues journaled extends the log. *)
LEMMA Extends ==
    ASSUME LInv, env.edits = 0, NEW kind \in {"attempt", "discard"}, NEW f \in Files,
           NEW num \in Nat, CommitFile(kind, f, num), Journals(kind, f, num),
           AllKnown(mem), mem = disk, UNCHANGED <<mem, disk>>
    PROVE  L!Extend
<1>1. /\ TypeOK /\ branch \in Seq(Commit) /\ HEAD = Len(branch) /\ work \in [Files -> Bytes]
      /\ Known(disk) \subseteq 1..HEAD
  BY DEF LInv, IInv, TypeInv, TypeOK, BranchTracked, HEAD
<1>2. Log \in Seq(Change) /\ Len(Log) = HEAD
  BY <1>1, LogType
<1>3. Known(disk) = 1..Len(Log)
  BY <1>1, <1>2 DEF AllKnown
<1>4. PICK c \in Commit : /\ branch' = Append(branch, c)
                          /\ c.kind = kind /\ c.file = f /\ c.num = num
                          /\ c.tree[f] = work[f]
  BY <1>1, CommitRecord
<1> DEFINE i == ChangeOf(kind, f, num, work[f])
<1>5. i \in Intents
  BY DEF Journals, Intents, Prepared
<1>6. i \in Change
  <2>1. work[f] \in Digest
    BY <1>1 DEF Digest
  <2> QED
    BY <2>1 DEF Change, ChangeOf
<1>7. Log' = Append(Log, i)
  <2>1. /\ branch' \in Seq(Commit) /\ HEAD \in Nat /\ HEAD' = HEAD + 1 /\ branch'[HEAD'] = c
        /\ \A n \in 1..HEAD : branch'[n] = branch[n]
    BY <1>1, <1>4 DEF HEAD
  <2>2. Log' = [n \in 1..HEAD' |-> ChangeOf(branch'[n].kind, branch'[n].file, branch'[n].num,
                                            branch'[n].tree[branch'[n].file])]
    BY DEF Log
  <2>3. \A n \in 1..HEAD : Log'[n] = Log[n]
    <3> SUFFICES ASSUME NEW n \in 1..HEAD PROVE Log'[n] = Log[n]
      OBVIOUS
    <3>1. n \in 1..HEAD' /\ branch'[n] = branch[n]
      BY <2>1
    <3> QED
      BY <2>2, <3>1 DEF Log
  <2>4. Log'[HEAD + 1] = i
    <3>1. HEAD + 1 \in 1..HEAD' /\ branch'[HEAD + 1] = c
      BY <2>1
    <3> QED
      BY <1>4, <2>2, <3>1
  <2>5. DOMAIN Log' = 1..(HEAD + 1) /\ Log' = [n \in 1..(HEAD + 1) |-> Log'[n]]
    BY <2>1, <2>2
  <2>6. Append(Log, i) \in Seq(Change) /\ Len(Append(Log, i)) = HEAD + 1
        /\ Append(Log, i)[HEAD + 1] = i
        /\ \A n \in 1..HEAD : Append(Log, i)[n] = Log[n]
    <3> HIDE DEF i
    <3> QED
      BY <1>2, <1>6, <2>1
  <2>7. \A n \in 1..(HEAD + 1) : n \in 1..HEAD \/ n = HEAD + 1
    BY <2>1
  <2>8. \A n \in 1..(HEAD + 1) : Log'[n] = Append(Log, i)[n]
    BY <2>3, <2>4, <2>6, <2>7
  <2> DEFINE a == Append(Log, i)
  <2>9. a \in Seq(Change) /\ Len(a) = HEAD + 1 /\ \A n \in 1..(HEAD + 1) : Log'[n] = a[n]
    BY <2>6, <2>8
  <2>10. Log' \in Seq(Change) /\ Len(Log') = HEAD + 1
    <3>1. \A n \in 1..(HEAD + 1) : Log'[n] \in Change
      BY <2>9, ElementOfSeq
    <3> QED
      BY <2>1, <2>5, <3>1
  <2> HIDE DEF a
  <2>11. Log' = a
    BY <2>9, <2>10, SeqEqual
  <2> QED
    BY <2>11 DEF a
<1>8. UNCHANGED <<Known(disk), Intents>>
  BY DEF Known, Intents, Prepared
<1> QED
  BY <1>3, <1>5, <1>7, <1>8 DEF L!Extend

(* Every step either commits what was journaled or leaves the branch alone. *)
LEMMA Commits ==
    ASSUME LInv, env.edits = 0, [Next]_vars
    PROVE  L!Extend \/ UNCHANGED branch
<1>1. ASSUME NEW w \in Workers, WorkerStep(w), ~ UNCHANGED branch
      PROVE  L!Extend
  <2>1. CommitAdoption(w)
    BY <1>1 DEF WorkerStep, Handle, Answer, TakeJob, LeaveFile, Begin, ReadInput, OpenRepair,
                VerifySource, WriteSource, CheckAdoption, JournalValidated, RecordCommit,
                RollBack, Validate, Decline, Skip, Adopt
  <2>2. /\ op.stage = "run" /\ wk[w].pc = "commit" /\ UNCHANGED <<mem, disk>>
        /\ CommitFile("attempt", wk[w].file, mem[wk[w].file].att.num)
    BY <1>1, <2>1 DEF CommitAdoption, At
  <2>3. "attempt" \in {"attempt", "discard"}
    OBVIOUS
  <2> QED
    BY <2>2, <2>3, AttemptJournaled, Extends
<1>2. CASE CommitDiscard /\ ~ UNCHANGED branch
  <2>1. /\ op.stage = "dcommit" /\ UNCHANGED <<mem, disk>> /\ TypeOK
        /\ CommitFile("discard", op.cur, mem[op.cur].discard.num)
    BY <1>2 DEF CommitDiscard, LInv, IInv, TypeInv
  <2>2. /\ op.cur \in Prepared(mem) /\ AllKnown(mem) /\ mem[op.cur].discard.base = HEAD
        /\ mem = disk
    BY <2>1 DEF LInv, IInv, DiscardsSaved
  <2>3. op.cur \in Files /\ mem[op.cur].discard.state = "prepared" /\ mem[op.cur] \in Task
    BY <2>1, <2>2 DEF Prepared, TypeOK
  <2>4. work[op.cur] = Baseline
    BY <2>1 DEF LInv, WorktreeKept
  <2>5. mem[op.cur].discard.num \in Nat
    BY <2>3, TaskNumbers
  <2>6. Journals("discard", op.cur, mem[op.cur].discard.num)
    BY <2>2, <2>3, <2>4 DEF Journals
  <2>7. "discard" \in {"attempt", "discard"}
    OBVIOUS
  <2> QED
    BY <2>1, <2>2, <2>3, <2>5, <2>6, <2>7, Extends
<1>3. CASE \/ \E f \in Files : \/ CheckDiscard(f) \/ FindDiscard(f)
                              \/ PrepareDiscard(f) \/ Edit(f)
           \/ RestoreSource \/ FinishDiscard \/ DiscardsDone \/ RecoverTree \/ ResetTree
           \/ RecoverTasks \/ RetryTasks \/ RunFiles \/ FinishRun
           \/ Start \/ Stop \/ Retry \/ Reload \/ Open \/ Crash \/ UNCHANGED vars
  BY <1>3 DEF CheckDiscard, FindDiscard, PrepareDiscard, Edit, RestoreSource, FinishDiscard,
              DiscardsDone, RecoverTree, ResetTree, RecoverTasks, RetryTasks, RunFiles,
              FinishRun, Start, Stop, Retry, Reload, Open, Crash, vars
<1> QED
  BY <1>1, <1>2, <1>3 DEF Next, Progress, Operate, User

(* A step that leaves the branch alone notes commits or changes intents. *)
LEMMA Notes ==
    ASSUME LInv, LInv', [Next]_vars, UNCHANGED branch
    PROVE  L!Note
<1>1. Known(disk) \subseteq Known(disk')
  BY StepKeeps DEF LInv
<1>2. HEAD' = HEAD /\ Log' = Log
  BY DEF HEAD, Log
<1>3. branch \in Seq(Commit) /\ disk' \in [Files -> Task]
  BY DEF LInv, IInv, TypeInv, TypeOK
<1>4. Intents' \subseteq Change
  <2>1. IntentsOf(disk') \subseteq Change
    BY <1>3, IntentsType
  <2> QED
    BY <2>1 DEF Intents, IntentsOf
<1>5. Len(Log) = HEAD
  BY <1>3, LogType
<1>6. Known(disk') \subseteq 1..HEAD
  <2>1. Known(disk') \subseteq Known(mem') /\ Known(mem') \subseteq 1..HEAD'
    BY DEF LInv, IInv, QueuesAccount, BranchTracked
  <2> QED
    BY <1>2, <2>1
<1>7. Known(disk)' = Known(disk')
  BY DEF Known
<1> QED
  BY <1>1, <1>2, <1>4, <1>5, <1>6, <1>7 DEF L!Note

(* While nobody else edits the worktree, the branch and the queue on disk are
   a Ledger: one commit at a time, each of a journaled change, and only when
   all earlier ones are recorded.  An edit between the comparison of the
   validated bytes and git add breaks it (runner.go:472). *)
THEOREM Implements == Spec /\ [](env.edits = 0) => LedgerSpec
<1>1. Init => L!LInit
  <2> SUFFICES ASSUME Init PROVE L!LInit
    OBVIOUS
  <2>1. branch = <<>> /\ disk = [f \in Files |-> NewTask]
    BY DEF Init
  <2>2. /\ NewTask.status = "pending" /\ NewTask.discard.state = "none"
        /\ NewTask.commits = {}
    BY DEF NewTask
  <2>3. Known(disk) = {} /\ Intents = {}
    BY <2>1, <2>2 DEF Known, Intents, Validated, Prepared
  <2>4. Log = <<>>
    <3>1. branch \in Seq(Commit) /\ HEAD = 0
      BY <2>1 DEF HEAD
    <3>2. Log \in Seq(Change) /\ Len(Log) = 0
      BY <3>1, LogType
    <3> QED
      BY <3>2
  <2> QED
    BY <2>3, <2>4 DEF L!LInit
<1>2. LInv /\ LInv' /\ env.edits = 0 /\ [Next]_vars => [L!LNext]_(L!lvars)
  BY Commits, Notes DEF L!LNext
<1> QED
  BY <1>1, <1>2, LedgerInvariant, PTL DEF Spec, LedgerSpec, L!LSpec
=============================================================================
