-------------------------- MODULE Connections_proofs --------------------------
(***************************************************************************)
(* Proofs about Connections for every value of its constants: no update is *)
(* lost, a sign-out wins, and credentials stay where they belong.          *)
(***************************************************************************)
EXTENDS Connections, TLAPS

USE NoneAssumption, BoundAssumption, RecordAssumption

-----------------------------------------------------------------------------
(* The inductive invariant. *)

(* All open processes share the key on disk, and so does a document that a
   process may find. *)
KeyKnown ==
    /\ \A p \in Procs :
         /\ procs[p].pc = "keygen" <=> initLock = p
         /\ procs[p].pc = "keygen" => keyFile = 0 /\ file.state = "missing"
         /\ procs[p].pc \notin {"closed", "keygen"} =>
              keyFile # 0 /\ procs[p].store = keyFile
    /\ file.state = "saved" /\ keyFile # 0 => file.key = keyFile
    /\ initLock # None => keyFile = 0

(* A connection that uid() can account for, with a credential of its own. *)
Sound(c) == /\ c.gen <= env.uids
            /\ c.ident.mode = "oauth" => c.gen # 0
            /\ c.secret # None => c.secret.ident = c.ident
(* The credential is of sign-in number e. *)
Fits(c, e) == c.secret # None /\ c.secret.account # None =>
                c.secret.begun + 1 = e
FileKnown == \A i \in Ids : file.conns[i] # None =>
               Sound(file.conns[i]) /\ Fits(file.conns[i], epoch[i])

(* One sign-in number, one identity and one credential. *)
SameSession(c, d) ==
    d # None /\ c.gen # 0 /\ d.gen = c.gen =>
      d.ident = c.ident /\ d.secret = c.secret

Working(s) == s.pc \notin {"closed", "keygen", "idle"}
CallKnown(p) ==
    LET s == procs[p] IN
    /\ lock = p <=> s.pc \in {"drop", "look", "write"}
    /\ ~ Working(s) => s.job = NoJob
    /\ s.job.kind \notin {"none", "refresh"} => s.job.id \in Ids
    /\ s.job.kind = "save" => s.job.name # None /\ s.job.ident # None
    /\ s.job.kind \in {"signedin", "renew"} <=> s.seen # None
    /\ s.pc = "answer" => s.seen # None
    /\ s.pc = "drop" => file.state = "damaged"
    /\ s.pc = "look" => s.buf = file.conns
    /\ s.pc = "closed" => s = Closed

(* What the browser or the provider is asked about, and what it answers. *)
SeenKnown(p) ==
    LET s == procs[p] IN
    s.seen # None =>
      /\ Sound(s.seen)
      /\ s.seen.gen # 0
      /\ SameSession(s.seen, file.conns[s.job.id])
      /\ file.conns[s.job.id] # None /\ file.conns[s.job.id].gen = s.seen.gen =>
           epoch[s.job.id] = s.begun
      /\ s.job.kind = "renew" => Fits(s.seen, s.begun) /\ s.seen.secret # None
      /\ s.pc # "answer" =>
           /\ s.answer # None
           /\ IF s.job.kind = "renew" THEN s.answer = s.seen.secret
              ELSE s.answer.ident = s.seen.ident /\ s.answer.begun = s.begun

(* The run of a process, and the connection it froze. *)
RunKnown(p) ==
    LET s == procs[p]
        r == procs[p].run
        f == procs[p].run.frozen
    IN /\ s.job.kind \in {"freeze", "token", "renew"} =>
            r # None /\ r.id = s.job.id /\ r.ident.mode = "oauth"
       /\ r # None /\ f # None =>
            Sound(f) /\ SameSession(f, file.conns[r.id])
       /\ r # None /\ r.ident.mode = "oauth"
            /\ (r.ready \/ s.job.kind \in {"token", "renew"}) =>
            /\ f # None
            /\ f.gen # 0
            /\ f.secret # None
            /\ f.ident.endpoint = r.ident.endpoint
       /\ s.job.kind = "renew" => /\ s.seen.gen = f.gen
                                  /\ s.seen.ident = f.ident
                                  /\ s.seen.secret = f.secret

(* What an update is about to write. *)
NewGen(g) == \A q \in Procs :
    /\ procs[q].seen # None => procs[q].seen.gen # g
    /\ procs[q].run # None /\ procs[q].run.frozen # None =>
         procs[q].run.frozen.gen # g
WriteKnown(p) ==
    LET s == procs[p]
        i == procs[p].job.id
        c == procs[p].buf[i]
        d == file.conns[i]
    IN s.pc = "write" =>
         /\ s.job.kind \notin {"none", "refresh"}
         /\ \A j \in Ids \ {i} : s.buf[j] = file.conns[j]
         /\ c # None =>
              /\ Sound(c)
              /\ Fits(c, IF Turns(p, i) THEN epoch[i] + 1 ELSE epoch[i])
              /\ \/ c.gen = 0
                 \/ /\ d # None /\ c.gen = d.gen /\ c.ident = d.ident
                    /\ c.secret = d.secret /\ ~ Turns(p, i)
                 \/ NewGen(c.gen)
         /\ s.job.kind = "renew" => c # None /\ c.secret = s.answer

Own(p) == CallKnown(p) /\ SeenKnown(p) /\ RunKnown(p) /\ WriteKnown(p)
IInv == TypeOK /\ KeyKnown /\ FileKnown /\ \A p \in Procs : Own(p)

(* What a step may do: replace the document, hand over a token. *)
Saves == /\ file'.state = "saved" =>
              \A i, j \in Ids : file'.conns[i] # file.conns[i]
                                /\ file'.conns[j] # file.conns[j] => i = j
         /\ file'.state = "missing" => file.state = "damaged"
Tokens ==
    \A p \in Procs :
      LET t == procs'[p].token
          r == procs'[p].run IN
      t # None /\ procs[p].token = None =>
        /\ t.account = r.frozen.secret.account
        /\ t.ident.endpoint = r.ident.endpoint
        /\ file'.conns[r.id] # None
        /\ file'.conns[r.id].secret = t
Kept == (Saves \/ UNCHANGED file) /\ Tokens

-----------------------------------------------------------------------------
(* Processes, calls and connections. *)
Pcs == {"closed", "keygen", "idle", "lock", "drop", "look", "answer", "write"}

LEMMA PcNames ==
    /\ "keygen" \in Pcs /\ "idle" \in Pcs /\ "lock" \in Pcs /\ "drop" \in Pcs
    /\ "look" \in Pcs /\ "answer" \in Pcs /\ "write" \in Pcs
  BY DEF Pcs

LEMMA KindNames ==
    /\ "none" \in Kinds /\ "refresh" \in Kinds /\ "save" \in Kinds
    /\ "delete" \in Kinds /\ "clear" \in Kinds /\ "signin" \in Kinds
    /\ "signedin" \in Kinds /\ "start" \in Kinds /\ "freeze" \in Kinds
    /\ "token" \in Kinds /\ "renew" \in Kinds
  BY DEF Kinds

LEMMA ProcessFields ==
    ASSUME NEW s \in Process
    PROVE  /\ s.pc \in Pcs /\ s.store \in Nat /\ s.job \in Job
           /\ s.buf \in Registry /\ s.seen \in Connection \cup {None}
           /\ s.begun \in Nat /\ s.answer \in Secret \cup {None}
           /\ s.live \in BOOLEAN /\ s.run \in RunConfig \cup {None}
           /\ s.token \in Secret \cup {None}
  BY DEF Process, Pcs

LEMMA JobFields ==
    ASSUME NEW j \in Job
    PROVE  /\ j.kind \in Kinds /\ j.id \in Ids \cup {None}
           /\ j.name \in Names \cup {None} /\ j.ident \in Identity \cup {None}
           /\ j.typed \in BOOLEAN /\ j.create \in BOOLEAN
  BY DEF Job

LEMMA ConnectionFields ==
    ASSUME NEW c \in Connection
    PROVE  /\ c.name \in Names /\ c.ident \in Identity
           /\ c.secret \in Secret \cup {None} /\ c.gen \in Nat /\ c # None
  BY DEF Connection

LEMMA RunFields ==
    ASSUME NEW r \in RunConfig
    PROVE  /\ r.id \in Ids /\ r.ident \in Identity
           /\ r.frozen \in Connection \cup {None} /\ r.ready \in BOOLEAN
  BY DEF RunConfig

LEMMA NoJobType ==
    /\ NoJob \in Job /\ NoJob.kind = "none"
  BY DEF NoJob, Job, Kinds

LEMMA EmptyType == Empty \in Registry /\ \A i \in Ids : Empty[i] = None
  BY DEF Empty, Registry

LEMMA ClosedType ==
    /\ Closed \in Process /\ Closed.pc = "closed" /\ Closed.job = NoJob
    /\ Closed.seen = None /\ Closed.run = None /\ Closed.token = None
  BY NoJobType, EmptyType DEF Closed, Process

(* What stays of a process when its call moves on. *)
SameCall(s, t) == t.job = s.job /\ t.buf = s.buf
SameWait(s, t) == t.seen = s.seen /\ t.begun = s.begun /\ t.answer = s.answer
SameRun(s, t) == t.run = s.run /\ t.token = s.token

LEMMA AtType ==
    ASSUME NEW s \in Process, NEW pc \in Pcs
    PROVE  /\ At(s, pc) \in Process /\ At(s, pc).pc = pc
           /\ At(s, pc).store = s.store /\ SameCall(s, At(s, pc))
           /\ SameWait(s, At(s, pc)) /\ SameRun(s, At(s, pc))
  BY DEF At, Process, Pcs, SameCall, SameWait, SameRun

LEMMA OpenedType ==
    ASSUME NEW s \in Process, NEW key \in Nat
    PROVE  /\ Opened(s, key) \in Process /\ Opened(s, key).pc = "idle"
           /\ Opened(s, key).store = key /\ SameCall(s, Opened(s, key))
           /\ SameWait(s, Opened(s, key)) /\ SameRun(s, Opened(s, key))
  BY DEF Opened, Process, SameCall, SameWait, SameRun

LEMMA SecondType ==
    ASSUME NEW s \in Process, NEW pc \in Pcs, NEW kind \in Kinds
    PROVE  /\ Second(s, pc, kind) \in Process /\ Second(s, pc, kind).pc = pc
           /\ Second(s, pc, kind).store = s.store
           /\ Second(s, pc, kind).job.kind = kind
           /\ Second(s, pc, kind).job.id = s.job.id
           /\ SameWait(s, Second(s, pc, kind))
           /\ SameRun(s, Second(s, pc, kind))
<1> DEFINE j == [s.job EXCEPT !.kind = kind]
<1>1. j \in Job /\ j.kind = kind /\ j.id = s.job.id
  BY ProcessFields DEF Job
<1>2. Second(s, pc, kind) = [s EXCEPT !.pc = pc, !.job = j]
  BY DEF Second
<1> HIDE DEF j
<1> QED
  BY <1>1, <1>2 DEF Process, Pcs, SameWait, SameRun

LEMMA AskingType ==
    ASSUME NEW s \in Process, NEW j \in Job
    PROVE  /\ Asking(s, j) \in Process /\ Asking(s, j).pc = "lock"
           /\ Asking(s, j).job = j /\ Asking(s, j).store = s.store
           /\ SameWait(s, Asking(s, j)) /\ Asking(s, j).run = s.run
           /\ Asking(s, j).token = None
  BY DEF Asking, Process, SameWait

LEMMA WithoutRunType ==
    ASSUME NEW s \in Process
    PROVE  /\ WithoutRun(s) \in Process /\ WithoutRun(s).pc = s.pc
           /\ WithoutRun(s).store = s.store /\ SameCall(s, WithoutRun(s))
           /\ SameWait(s, WithoutRun(s)) /\ WithoutRun(s).run = None
           /\ WithoutRun(s).token = None
  BY DEF WithoutRun, Process, SameCall, SameWait

LEMMA CancelledType ==
    ASSUME NEW s \in Process
    PROVE  /\ Cancelled(s) \in Process /\ Cancelled(s).pc = s.pc
           /\ Cancelled(s).store = s.store /\ SameCall(s, Cancelled(s))
           /\ SameWait(s, Cancelled(s)) /\ SameRun(s, Cancelled(s))
  BY DEF Cancelled, Process, SameCall, SameWait, SameRun

LEMMA ReadingType ==
    ASSUME NEW s \in Process, NEW pc \in Pcs, NEW conns \in Registry
    PROVE  /\ Reading(s, pc, conns) \in Process /\ Reading(s, pc, conns).pc = pc
           /\ Reading(s, pc, conns).store = s.store
           /\ Reading(s, pc, conns).job = s.job
           /\ Reading(s, pc, conns).buf = conns
           /\ SameWait(s, Reading(s, pc, conns))
           /\ SameRun(s, Reading(s, pc, conns))
  BY DEF Reading, Process, Pcs, SameWait, SameRun

LEMMA ChangingType ==
    ASSUME NEW s \in Process, NEW c \in Connection \cup {None}, s.job.id \in Ids
    PROVE  /\ Changing(s, c) \in Process /\ Changing(s, c).pc = "write"
           /\ Changing(s, c).store = s.store /\ Changing(s, c).job = s.job
           /\ Changing(s, c).buf = [s.buf EXCEPT ![s.job.id] = c]
           /\ SameWait(s, Changing(s, c)) /\ SameRun(s, Changing(s, c))
<1>1. [s.buf EXCEPT ![s.job.id] = c] \in Registry
  BY DEF Process, Registry
<1> QED
  BY <1>1 DEF Changing, Process, SameWait, SameRun

LEMMA WaitingType ==
    ASSUME NEW s \in Process, NEW c \in Connection, NEW e \in Nat
    PROVE  /\ Waiting(s, c, e) \in Process /\ Waiting(s, c, e).pc = s.pc
           /\ Waiting(s, c, e).store = s.store /\ SameCall(s, Waiting(s, c, e))
           /\ Waiting(s, c, e).seen = c /\ Waiting(s, c, e).begun = e
           /\ Waiting(s, c, e).answer = s.answer
           /\ SameRun(s, Waiting(s, c, e))
  BY DEF Waiting, Process, SameCall, SameRun

LEMMA AnsweredType ==
    ASSUME NEW s \in Process, NEW a \in Secret
    PROVE  /\ Answered(s, a) \in Process /\ Answered(s, a).pc = "lock"
           /\ Answered(s, a).store = s.store /\ SameCall(s, Answered(s, a))
           /\ Answered(s, a).seen = s.seen /\ Answered(s, a).begun = s.begun
           /\ Answered(s, a).answer = a /\ SameRun(s, Answered(s, a))
  BY DEF Answered, Process, SameCall, SameRun

LEMMA WithRunType ==
    ASSUME NEW s \in Process, NEW r \in RunConfig
    PROVE  /\ WithRun(s, r) \in Process /\ WithRun(s, r).pc = s.pc
           /\ WithRun(s, r).store = s.store /\ SameCall(s, WithRun(s, r))
           /\ SameWait(s, WithRun(s, r)) /\ WithRun(s, r).run = r
           /\ WithRun(s, r).token = s.token
  BY DEF WithRun, Process, SameCall, SameWait

LEMMA EndedType ==
    ASSUME NEW s \in Process
    PROVE  /\ Ended(s) \in Process /\ Ended(s).pc = "idle"
           /\ Ended(s).store = s.store /\ Ended(s).job = NoJob
           /\ Ended(s).seen = None /\ SameRun(s, Ended(s))
  BY NoJobType, EmptyType DEF Ended, Process, SameRun

LEMMA FailedType ==
    ASSUME NEW s \in Process
    PROVE  /\ Failed(s) \in Process /\ Failed(s).pc = "idle"
           /\ Failed(s).store = s.store /\ Failed(s).job = NoJob
           /\ Failed(s).seen = None /\ Failed(s).run \in {s.run, None}
           /\ Failed(s).token = s.token
<1> DEFINE e == Ended(s)
           r == IF s.run # None /\ s.run.ready THEN s.run ELSE None
<1>1. /\ e \in Process /\ e.pc = "idle" /\ e.store = s.store
      /\ e.job = NoJob /\ e.seen = None /\ SameRun(s, e)
  BY EndedType
<1>2. r \in {s.run, None} /\ r \in RunConfig \cup {None}
  BY ProcessFields
<1>3. Failed(s) = [e EXCEPT !.run = r]
  BY DEF Failed
<1> HIDE DEF e, r
<1> QED
  BY <1>1, <1>2, <1>3 DEF Process, SameRun

LEMMA PutProcess ==
    ASSUME TypeOK, NEW p \in Procs, NEW t \in Process,
           procs' = [procs EXCEPT ![p] = t]
    PROVE  /\ procs' \in [Procs -> Process] /\ procs'[p] = t
           /\ \A q \in Procs \ {p} : procs'[q] = procs[q]
  BY DEF TypeOK

LEMMA Parts ==
    ASSUME IInv, NEW p \in Procs
    PROVE  /\ TypeOK /\ KeyKnown /\ FileKnown /\ Own(p)
           /\ procs[p] \in Process /\ procs[p].job \in Job
  BY ProcessFields DEF IInv, TypeOK

LEMMA FileType ==
    TypeOK => /\ file.state \in {"missing", "saved", "damaged"}
              /\ file.key \in Nat /\ file.conns \in Registry
              /\ \A i \in Ids : file.conns[i] \in Connection \cup {None}
              /\ env.uids \in Nat /\ \A i \in Ids : epoch[i] \in Nat
  BY DEF TypeOK, Document, Registry, Env

-----------------------------------------------------------------------------
(* What a step of another process leaves alone while the document stays. *)
Quiet(s, t) == t.seen \in {s.seen, None} /\ t.run \in {s.run, None}
Untouched(q) ==
    /\ procs'[q] = procs[q]
    /\ lock' = q <=> lock = q
    /\ env'.uids \in Nat /\ env.uids <= env'.uids
    /\ file'.conns = file.conns /\ UNCHANGED epoch
    /\ lock = q /\ file.state = "damaged" => file'.state = "damaged"
    /\ lock = q => \A x \in Procs : Quiet(procs[x], procs'[x])

LEMMA OthersKeep ==
    ASSUME IInv, NEW q \in Procs, Untouched(q) PROVE Own(q)'
<1>0. /\ Own(q) /\ procs[q] \in Process /\ procs[q].job \in Job
      /\ procs'[q] = procs[q] /\ env.uids \in Nat /\ env'.uids \in Nat
      /\ env.uids <= env'.uids /\ file'.conns = file.conns /\ epoch' = epoch
      /\ procs[q].seen \in Connection \cup {None}
      /\ procs[q].run \in RunConfig \cup {None}
  BY Parts, FileType, ProcessFields DEF Untouched
<1>1. CallKnown(q)'
  BY <1>0 DEF Own, CallKnown, Untouched, Working
<1>2. SeenKnown(q)'
  <2>1. procs[q].seen # None => Sound(procs[q].seen)'
    BY <1>0, ConnectionFields DEF Own, SeenKnown, Sound
  <2> QED
    BY <1>0, <2>1 DEF Own, SeenKnown, SameSession, Fits
<1>3. RunKnown(q)'
  <2> DEFINE f == procs[q].run.frozen
  <2>1. procs[q].run # None /\ f # None => Sound(f)'
    <3> SUFFICES ASSUME procs[q].run # None, f # None PROVE Sound(f)'
      OBVIOUS
    <3>1. f \in Connection /\ Sound(f) /\ f' = f
      BY <1>0, RunFields DEF Own, RunKnown
    <3>2. f.gen \in Nat
      BY <3>1, ConnectionFields
    <3> HIDE DEF f
    <3> QED
      BY <1>0, <3>1, <3>2 DEF Sound
  <2> QED
    BY <1>0, <2>1 DEF Own, RunKnown, SameSession
<1>4. WriteKnown(q)'
  <2> SUFFICES ASSUME procs[q].pc = "write" PROVE WriteKnown(q)'
    BY <1>0 DEF WriteKnown
  <2> DEFINE i == procs[q].job.id
             c == procs[q].buf[i]
  <2>1. /\ lock = q /\ i \in Ids /\ procs[q].job.kind \notin {"none", "refresh"}
        /\ c \in Connection \cup {None}
    BY <1>0, ProcessFields DEF Own, CallKnown, WriteKnown, Registry
  <2>2. c # None => Sound(c)'
    <3>1. c' = c /\ (c # None => Sound(c) /\ c.gen \in Nat)
      BY <1>0, <2>1, ConnectionFields DEF Own, WriteKnown
    <3> HIDE DEF c
    <3> QED
      BY <1>0, <3>1 DEF Sound
  <2>3. ASSUME NEW g, NewGen(g) PROVE NewGen(g)'
    BY <2>1, <2>3 DEF NewGen, Untouched, Quiet
  <2>4. Turns(q, i)' <=> Turns(q, i)
    BY <1>0 DEF Turns
  <2> QED
    BY <1>0, <2>1, <2>2, <2>3, <2>4 DEF Own, WriteKnown, Fits
<1> QED
  BY <1>1, <1>2, <1>3, <1>4 DEF Own

LEMMA FileKnownStays ==
    ASSUME IInv, file'.conns = file.conns, UNCHANGED epoch,
           env'.uids \in Nat, env.uids <= env'.uids
    PROVE  FileKnown'
<1>1. /\ \A i \in Ids : file.conns[i] \in Connection \cup {None}
      /\ env.uids \in Nat /\ FileKnown
  BY FileType DEF IInv
<1>2. ASSUME NEW i \in Ids, file.conns[i] # None
      PROVE  Sound(file.conns[i])' /\ Fits(file.conns[i], epoch[i])'
  <2> DEFINE c == file.conns[i]
  <2>1. c \in Connection /\ Sound(c) /\ Fits(c, epoch[i]) /\ c' = c
    BY <1>1, <1>2 DEF FileKnown
  <2>2. c.gen \in Nat
    BY <2>1, ConnectionFields
  <2> QED
    BY <1>1, <2>1, <2>2 DEF Sound, Fits
<1> QED
  BY <1>1, <1>2 DEF FileKnown

(* A step of one process that leaves the document alone. *)
LEMMA StepOf ==
    ASSUME IInv, NEW p \in Procs, NEW t \in Process,
           procs' = [procs EXCEPT ![p] = t],
           UNCHANGED <<file, epoch>>, TypeOK', KeyKnown', Own(p)',
           \A q \in Procs \ {p} : lock' = q <=> lock = q,
           env.uids <= env'.uids,
           lock = p \/ Quiet(procs[p], t),
           t.token \in {procs[p].token, None}
    PROVE  IInv' /\ Kept
<1>1. TypeOK /\ env'.uids \in Nat
  BY FileType DEF IInv, TypeOK, Env
<1>2. procs'[p] = t /\ \A q \in Procs \ {p} : procs'[q] = procs[q]
  BY <1>1, PutProcess
<1>3. \A q \in Procs \ {p} : Untouched(q)
  BY <1>1, <1>2 DEF Untouched, Quiet
<1>4. \A q \in Procs : Own(q)'
  BY <1>3, OthersKeep
<1>5. FileKnown'
  BY <1>1, FileKnownStays
<1>6. Tokens
  BY <1>2 DEF Tokens
<1> QED
  BY <1>4, <1>5, <1>6 DEF IInv, Kept

(* A step within a call. *)
LEMMA CallStep ==
    ASSUME IInv, NEW p \in Procs, NEW t \in Process,
           procs' = [procs EXCEPT ![p] = t], t.store = procs[p].store,
           procs[p].pc \notin {"closed", "keygen"},
           t.pc \notin {"closed", "keygen"},
           UNCHANGED <<keyFile, file, initLock, epoch>>,
           lock' \in Procs \cup {None},
           \A q \in Procs \ {p} : lock' = q <=> lock = q,
           env' \in Env, env.uids <= env'.uids,
           lock = p \/ Quiet(procs[p], t),
           t.token \in {procs[p].token, None}, Own(p)'
    PROVE  IInv' /\ Kept
<1>1. TypeOK /\ KeyKnown
  BY DEF IInv
<1>2. /\ procs' \in [Procs -> Process] /\ procs'[p] = t
      /\ \A q \in Procs \ {p} : procs'[q] = procs[q]
  BY <1>1, PutProcess
<1>3. TypeOK'
  BY <1>1, <1>2 DEF TypeOK
<1>4. KeyKnown'
  BY <1>1, <1>2 DEF KeyKnown
<1> QED
  BY <1>3, <1>4, StepOf

(* The frozen connection of a run stays sound. *)
LEMMA FrozenStays ==
    ASSUME IInv, NEW p \in Procs, NEW r \in RunConfig, r = procs[p].run,
           r.frozen # None, env'.uids \in Nat, env.uids <= env'.uids
    PROVE  /\ Sound(r.frozen)'
           /\ UNCHANGED file => SameSession(r.frozen, file.conns[r.id])'
<1>1. /\ Sound(r.frozen) /\ SameSession(r.frozen, file.conns[r.id])
      /\ r.frozen.gen \in Nat /\ env.uids \in Nat
  BY Parts, FileType, RunFields, ConnectionFields DEF Own, RunKnown
<1> QED
  BY <1>1 DEF Sound, SameSession

(* A process whose call is over, or that has none. *)
LEMMA RestOwn ==
    ASSUME IInv, NEW p \in Procs, NEW t \in Process, procs'[p] = t,
           t.pc \in {"keygen", "idle", "closed"}, t.job = NoJob,
           t.seen = None, t.run \in {procs[p].run, None},
           t.pc = "closed" => t = Closed,
           lock' # p, UNCHANGED <<file, epoch>>,
           env'.uids \in Nat, env.uids <= env'.uids
    PROVE  Own(p)'
<1>1. CallKnown(p)' /\ SeenKnown(p)' /\ WriteKnown(p)'
  BY NoJobType DEF CallKnown, SeenKnown, WriteKnown, Working
<1>2. RunKnown(p)'
  <2>1. CASE t.run = None
    BY <2>1, NoJobType DEF RunKnown
  <2>2. CASE t.run # None
    <3> DEFINE r == t.run
    <3>1. r \in RunConfig /\ r = procs[p].run /\ RunKnown(p)
      BY <2>2, Parts, ProcessFields DEF Own
    <3>2. r.frozen # None =>
            Sound(r.frozen)' /\ SameSession(r.frozen, file.conns[r.id])'
      BY <3>1, FrozenStays
    <3> QED
      BY <3>1, <3>2, NoJobType DEF RunKnown
  <2> QED
    BY <2>1, <2>2
<1> QED
  BY <1>1, <1>2 DEF Own

LEMMA NoCall ==
    ASSUME IInv, NEW p \in Procs, procs[p].pc \in {"closed", "keygen", "idle"}
    PROVE  procs[p].job = NoJob /\ procs[p].seen = None /\ lock # p
<1>1. CallKnown(p)
  BY Parts DEF Own
<1> QED
  BY <1>1, NoJobType DEF CallKnown, Working

LEMMA OpenStoreStep ==
    ASSUME IInv, NEW p \in Procs, OpenStore(p) PROVE IInv' /\ Kept
<1> DEFINE s == procs[p]
           t == Opened(s, keyFile)
<1>0. /\ TypeOK /\ KeyKnown /\ s \in Process /\ s.pc = "closed"
      /\ initLock = None /\ keyFile # 0 /\ keyFile \in Nat
      /\ UNCHANGED <<keyFile, file, lock, initLock, env, epoch>>
      /\ procs' = [procs EXCEPT ![p] = t]
  BY Parts DEF OpenStore, InitFree, TypeOK
<1>1. /\ t \in Process /\ t.pc = "idle" /\ t.store = keyFile
      /\ SameCall(s, t) /\ SameWait(s, t) /\ SameRun(s, t)
  BY <1>0, OpenedType
<1>2. s.job = NoJob /\ s.seen = None /\ lock # p
  BY <1>0, NoCall
<1> HIDE DEF t
<1>3. /\ procs' \in [Procs -> Process] /\ procs'[p] = t
      /\ \A q \in Procs \ {p} : procs'[q] = procs[q]
  BY <1>0, <1>1, PutProcess
<1>4. TypeOK' /\ KeyKnown'
  BY <1>0, <1>1, <1>3 DEF TypeOK, KeyKnown
<1>5. env'.uids \in Nat /\ env.uids <= env'.uids
  BY <1>0, FileType
<1>6. Own(p)'
  BY <1>0, <1>1, <1>2, <1>3, <1>5, RestOwn DEF SameCall, SameWait, SameRun
<1>7. Quiet(s, t) /\ t.token = s.token
  BY <1>1 DEF Quiet, SameWait, SameRun
<1> QED
  BY <1>0, <1>1, <1>4, <1>5, <1>6, <1>7, StepOf

LEMMA FindNoKeyStep ==
    ASSUME IInv, NEW p \in Procs, FindNoKey(p) PROVE IInv' /\ Kept
<1> DEFINE s == procs[p]
           t == At(s, "keygen")
<1>0. /\ TypeOK /\ KeyKnown /\ s \in Process /\ s.pc = "closed"
      /\ initLock = None /\ keyFile = 0 /\ file.state = "missing"
      /\ initLock' = p /\ UNCHANGED <<keyFile, file, lock, env, epoch>>
      /\ procs' = [procs EXCEPT ![p] = t]
  BY Parts DEF FindNoKey, InitFree, MayMakeKey
<1>1. /\ t \in Process /\ t.pc = "keygen" /\ t.store = s.store
      /\ SameCall(s, t) /\ SameWait(s, t) /\ SameRun(s, t)
  BY <1>0, AtType, PcNames
<1>2. s.job = NoJob /\ s.seen = None /\ lock # p
  BY <1>0, NoCall
<1> HIDE DEF t
<1>3. /\ procs' \in [Procs -> Process] /\ procs'[p] = t
      /\ \A q \in Procs \ {p} : procs'[q] = procs[q]
  BY <1>0, <1>1, PutProcess
<1>4. TypeOK' /\ KeyKnown'
  BY <1>0, <1>1, <1>3 DEF TypeOK, KeyKnown
<1>5. env'.uids \in Nat /\ env.uids <= env'.uids
  BY <1>0, FileType
<1>6. Own(p)'
  BY <1>0, <1>1, <1>2, <1>3, <1>5, RestOwn DEF SameCall, SameWait, SameRun
<1>7. Quiet(s, t) /\ t.token = s.token
  BY <1>1 DEF Quiet, SameWait, SameRun
<1> QED
  BY <1>0, <1>1, <1>4, <1>5, <1>6, <1>7, StepOf

LEMMA EnvType ==
    ASSUME TypeOK, NEW n \in Nat,
           \/ env' = env /\ n = 0
           \/ env' = [env EXCEPT !.uids = @ + n]
           \/ env' = [env EXCEPT !.faults = @ + 1] /\ n = 0
           \/ env' = [env EXCEPT !.crashes = @ + 1] /\ n = 0
    PROVE  /\ env' \in Env /\ env'.uids = env.uids + n /\ env.uids <= env'.uids
           /\ env'.uids \in Nat /\ env.uids \in Nat
<1>1. /\ env \in Env /\ env.uids \in Nat /\ env.faults + 1 \in Nat
      /\ env.crashes + 1 \in Nat /\ env.uids + n \in Nat
  BY DEF TypeOK, Env
<1>2. env' \in Env /\ env'.uids = env.uids + n
  BY <1>1 DEF Env
<1> QED
  BY <1>1, <1>2

LEMMA WriteKeyStep ==
    ASSUME IInv, NEW p \in Procs, WriteKey(p) PROVE IInv' /\ Kept
<1> DEFINE s == procs[p]
           key == env.uids + 1
           t == Opened(s, key)
<1>0. /\ TypeOK /\ KeyKnown /\ s \in Process /\ s.pc = "keygen"
      /\ initLock' = None /\ keyFile' = key
      /\ UNCHANGED <<file, lock, epoch>>
      /\ procs' = [procs EXCEPT ![p] = t]
  BY Parts DEF WriteKey
<1>1. /\ env' \in Env /\ env.uids <= env'.uids /\ env'.uids \in Nat
      /\ env.uids \in Nat /\ key \in Nat /\ key # 0
  BY <1>0, EnvType DEF WriteKey
<1> HIDE DEF key
<1>2. /\ t \in Process /\ t.pc = "idle" /\ t.store = key
      /\ SameCall(s, t) /\ SameWait(s, t) /\ SameRun(s, t)
  BY <1>0, <1>1, OpenedType
<1>3. s.job = NoJob /\ s.seen = None /\ lock # p
  BY <1>0, NoCall
<1> HIDE DEF t
<1>4. /\ procs' \in [Procs -> Process] /\ procs'[p] = t
      /\ \A q \in Procs \ {p} : procs'[q] = procs[q]
  BY <1>0, <1>2, PutProcess
<1>5. TypeOK'
  BY <1>0, <1>1, <1>4 DEF TypeOK
<1>6. KeyKnown'
  <2>1. initLock = p /\ keyFile = 0 /\ file.state = "missing"
    BY <1>0 DEF KeyKnown
  <2>2. \A q \in Procs \ {p} : procs[q].pc = "closed"
    BY <1>0, <2>1 DEF KeyKnown
  <2> QED
    BY <1>0, <1>1, <1>2, <1>4, <2>1, <2>2 DEF KeyKnown
<1>7. Own(p)'
  BY <1>0, <1>1, <1>2, <1>3, <1>4, RestOwn DEF SameCall, SameWait, SameRun
<1>8. Quiet(s, t) /\ t.token = s.token
  BY <1>2 DEF Quiet, SameWait, SameRun
<1> QED
  BY <1>0, <1>1, <1>2, <1>5, <1>6, <1>7, <1>8, StepOf

(* A call that ends, well or badly, without changing the document. *)
LEMMA EndStep ==
    ASSUME IInv, NEW p \in Procs, Working(procs[p]),
           procs' = [procs EXCEPT ![p] = Failed(@)]
             \/ procs' = [procs EXCEPT ![p] = Ended(@)],
           Unlocked(p), UNCHANGED <<keyFile, file, initLock, epoch>>,
           env' = env \/ env' = [env EXCEPT !.faults = @ + 1]
    PROVE  IInv' /\ Kept
<1> DEFINE s == procs[p]
<1>0. TypeOK /\ s \in Process
  BY Parts
<1>1. /\ env' \in Env /\ env.uids <= env'.uids /\ env'.uids \in Nat
  BY <1>0, EnvType
<1>2. PICK t \in Process :
        /\ procs' = [procs EXCEPT ![p] = t] /\ t.pc = "idle"
        /\ t.store = s.store /\ t.job = NoJob /\ t.seen = None
        /\ t.run \in {s.run, None} /\ t.token = s.token
  BY <1>0, FailedType, EndedType DEF SameRun
<1>3. procs'[p] = t
  BY <1>0, <1>2, PutProcess
<1>4. /\ lock' \in Procs \cup {None} /\ lock' # p
      /\ \A q \in Procs \ {p} : lock' = q <=> lock = q
  BY <1>0 DEF Unlocked, TypeOK
<1>5. Own(p)'
  BY <1>1, <1>2, <1>3, <1>4, RestOwn
<1>6. Quiet(s, t)
  BY <1>2 DEF Quiet
<1> QED
  BY <1>1, <1>2, <1>4, <1>5, <1>6, CallStep DEF Working

-----------------------------------------------------------------------------
(* Calls begin. *)
LEMMA AskStep ==
    ASSUME IInv, NEW p \in Procs, NEW j \in Job, Ask(p, j),
           j.kind \in {"refresh", "delete", "clear", "signin", "start", "save",
                       "token"},
           j.kind # "refresh" => j.id \in Ids,
           j.create => j.id \in Ids,
           j.kind = "save" => j.name # None /\ j.ident # None,
           j.kind = "token" =>
             /\ procs[p].run # None /\ procs[p].run.id = j.id
             /\ procs[p].run.ident.mode = "oauth" /\ procs[p].run.ready
    PROVE  IInv' /\ Kept
<1> DEFINE s == procs[p]
           t == Asking(s, j)
<1>0. /\ TypeOK /\ s \in Process /\ s.pc = "idle" /\ Own(p)
      /\ UNCHANGED <<keyFile, file, lock, initLock, epoch>>
      /\ procs' = [procs EXCEPT ![p] = t]
  BY Parts DEF Ask
<1>1. /\ t \in Process /\ t.pc = "lock" /\ t.job = j /\ t.store = s.store
      /\ SameWait(s, t) /\ t.run = s.run /\ t.token = None
  BY <1>0, AskingType
<1>2. s.seen = None /\ lock # p
  BY <1>0, NoCall
<1> HIDE DEF t
<1>3. env' \in Env /\ env'.uids = env.uids /\ env.uids \in Nat
  <2>1. /\ env \in Env /\ env.uids \in Nat /\ env.ops + 1 \in Nat
        /\ (IF j.create THEN env.made \cup {j.id} ELSE env.made) \in SUBSET Ids
    BY <1>0 DEF TypeOK, Env
  <2> QED
    BY <2>1 DEF Ask, Env
<1>4. procs'[p] = t
  BY <1>0, <1>1, PutProcess
<1>5. CallKnown(p)' /\ SeenKnown(p)' /\ WriteKnown(p)'
  BY <1>0, <1>1, <1>2, <1>4 DEF CallKnown, SeenKnown, WriteKnown, SameWait, Working
<1>6. RunKnown(p)'
  <2>1. ASSUME s.run # None, s.run.frozen # None
        PROVE  Sound(s.run.frozen)' /\ SameSession(s.run.frozen, file.conns[s.run.id])'
    BY <1>0, <1>1, <1>3, <1>4, <2>1 DEF Own, RunKnown, Sound, SameSession
  <2> QED
    BY <1>0, <1>1, <1>4, <2>1 DEF Own, RunKnown
<1> QED
  <2>1. lock' \in Procs \cup {None} /\ t.token \in {s.token, None}
    BY <1>0, <1>1 DEF TypeOK
  <2>2. Quiet(s, t)
    BY <1>1 DEF Quiet, SameWait
  <2>3. env.uids <= env'.uids
    BY <1>3
  <2> QED
    BY <1>0, <1>1, <1>3, <1>5, <1>6, <2>1, <2>2, <2>3, CallStep DEF Own

LEMMA JobOfType ==
    ASSUME NEW kind \in Kinds, NEW i \in Ids \cup {None}
    PROVE  /\ JobOf(kind, i) \in Job /\ JobOf(kind, i).kind = kind
           /\ JobOf(kind, i).id = i /\ ~ JobOf(kind, i).create
<1>1. NoJob \in Job /\ ~ NoJob.create
  BY NoJobType DEF NoJob
<1> QED
  BY <1>1 DEF JobOf, Job

LEMMA IdentityType ==
    ASSUME NEW d \in Form, Valid(d)
    PROVE  Normalized(d) \in Identity /\ Normalized(d) # None
<1>1. /\ d.mode \in {"api_key", "oauth"} /\ d.endpoint \in Endpoints
      /\ d.tenant \in Tenants \cup {None}
  BY DEF Form
<1>2. /\ Normalized(d) \in Form /\ Normalized(d).mode = d.mode
      /\ Normalized(d).tenant = IF d.mode = "oauth" THEN d.tenant ELSE None
  BY <1>1 DEF Normalized, Form
<1> QED
  BY <1>1, <1>2 DEF Identity, Valid

LEMMA AskAnyStep ==
    ASSUME IInv, NEW p \in Procs,
           AskRefresh(p) \/ AskDelete(p) \/ AskClear(p) \/ AskSignIn(p)
             \/ AskStart(p) \/ AskSave(p) \/ AskToken(p)
    PROVE  IInv' /\ Kept
<1>0. env.made \subseteq Ids /\ procs[p] \in Process
  BY Parts DEF TypeOK, Env
<1>1. CASE AskRefresh(p)
  <2> DEFINE j == JobOf("refresh", None)
  <2>1. j \in Job /\ j.kind = "refresh" /\ ~ j.create
    BY JobOfType, KindNames
  <2>2. Ask(p, j)
    BY <1>1 DEF AskRefresh
  <2> HIDE DEF j
  <2> QED
    BY <2>1, <2>2, AskStep
<1>2. ASSUME NEW k \in {"delete", "clear", "signin", "start"}, NEW i \in Ids,
             Ask(p, JobOf(k, i))
      PROVE  IInv' /\ Kept
  <2> DEFINE j == JobOf(k, i)
  <2>1. j \in Job /\ j.kind = k /\ j.id = i
    BY JobOfType, KindNames
  <2>2. Ask(p, j)
    BY <1>2
  <2> HIDE DEF j
  <2> QED
    BY <2>1, <2>2, AskStep
<1>3. CASE AskSave(p)
  <2>1. PICK i \in Ids, n \in Names, d \in Form, typed \in BOOLEAN,
             create \in BOOLEAN :
          /\ Valid(d)
          /\ Ask(p, [kind |-> "save", id |-> i, name |-> n,
                     ident |-> Normalized(d), typed |-> TypedKey(d, typed),
                     create |-> create])
    BY <1>3 DEF AskSave
  <2> DEFINE j == [kind |-> "save", id |-> i, name |-> n,
                   ident |-> Normalized(d), typed |-> TypedKey(d, typed),
                   create |-> create]
  <2>2. TypedKey(d, typed) \in BOOLEAN
    BY DEF TypedKey
  <2>3. /\ j \in Job /\ j.kind = "save" /\ j.id = i /\ j.name # None
        /\ j.ident # None
    BY <2>1, <2>2, IdentityType, KindNames DEF Job
  <2>4. Ask(p, j)
    BY <2>1
  <2> HIDE DEF j
  <2> QED
    BY <2>3, <2>4, AskStep
<1>4. CASE AskToken(p)
  <2> DEFINE j == JobOf("token", procs[p].run.id)
  <2>1. /\ procs[p].run \in RunConfig /\ procs[p].run # None
        /\ procs[p].run.ready /\ procs[p].run.ident.mode = "oauth"
    BY <1>0, <1>4, ProcessFields DEF AskToken
  <2>2. procs[p].run.id \in Ids
    BY <2>1, RunFields
  <2>3. j \in Job /\ j.kind = "token" /\ j.id = procs[p].run.id
    BY <2>2, JobOfType, KindNames
  <2>4. Ask(p, j)
    BY <1>4 DEF AskToken
  <2> HIDE DEF j
  <2> QED
    BY <2>1, <2>2, <2>3, <2>4, AskStep
<1> QED
  BY <1>0, <1>1, <1>2, <1>3, <1>4 DEF AskDelete, AskClear, AskSignIn, AskStart

(* A step that keeps the call, and may drop the run of an idle process. *)
LEMMA EndRunStep ==
    ASSUME IInv, NEW p \in Procs, EndRun(p) PROVE IInv' /\ Kept
<1> DEFINE s == procs[p]
           t == WithoutRun(s)
<1>0. /\ TypeOK /\ s \in Process /\ s.pc = "idle"
      /\ UNCHANGED <<keyFile, file, lock, initLock, env, epoch>>
      /\ procs' = [procs EXCEPT ![p] = t]
  BY Parts DEF EndRun
<1>1. /\ t \in Process /\ t.pc = "idle" /\ t.store = s.store /\ SameCall(s, t)
      /\ SameWait(s, t) /\ t.run = None /\ t.token = None
  BY <1>0, WithoutRunType
<1>2. s.job = NoJob /\ s.seen = None /\ lock # p
  BY <1>0, NoCall
<1> HIDE DEF t
<1>3. procs'[p] = t
  BY <1>0, <1>1, PutProcess
<1>4. env' \in Env /\ env'.uids \in Nat /\ env.uids <= env'.uids
  BY <1>0, EnvType
<1>5. Own(p)' /\ Quiet(s, t) /\ lock' \in Procs \cup {None}
  BY <1>0, <1>1, <1>2, <1>3, <1>4, RestOwn DEF SameCall, SameWait, Quiet, TypeOK
<1> QED
  BY <1>0, <1>1, <1>4, <1>5, CallStep

LEMMA CancelStep ==
    ASSUME IInv, NEW p \in Procs, Cancel(p) PROVE IInv' /\ Kept
<1> DEFINE s == procs[p]
           t == Cancelled(s)
<1>0. /\ TypeOK /\ s \in Process /\ Own(p) /\ s.job # NoJob
      /\ UNCHANGED <<keyFile, file, lock, initLock, env, epoch>>
      /\ procs' = [procs EXCEPT ![p] = t]
  BY Parts, NoJobType DEF Cancel, Cancellable
<1>1. /\ t \in Process /\ t.pc = s.pc /\ t.store = s.store /\ SameCall(s, t)
      /\ SameWait(s, t) /\ SameRun(s, t)
  BY <1>0, CancelledType
<1>2. Working(s)
  BY <1>0 DEF Own, CallKnown
<1> HIDE DEF t
<1>3. /\ procs'[p] = t /\ \A q \in Procs \ {p} : procs'[q] = procs[q]
  BY <1>0, <1>1, PutProcess
<1>4. env' \in Env /\ env'.uids \in Nat /\ env.uids <= env'.uids
  BY <1>0, EnvType
<1>5. CallKnown(p)'
  BY <1>0, <1>1, <1>2, <1>3 DEF Own, CallKnown, SameCall, SameWait, Working
<1>6. SeenKnown(p)'
  BY <1>0, <1>1, <1>3
     DEF Own, SeenKnown, SameCall, SameWait, Sound, SameSession, Fits
<1>7. RunKnown(p)'
  BY <1>0, <1>1, <1>3, ZenonT(60)
  DEF Own, RunKnown, SameCall, SameWait, SameRun, Sound, SameSession
<1>8. WriteKnown(p)'
  <2>1. \A g : NewGen(g) => NewGen(g)'
    BY <1>1, <1>3 DEF NewGen, SameWait, SameRun
  <2>2. \A i : Turns(p, i)' <=> Turns(p, i)
    BY <1>0, <1>1, <1>3 DEF Turns, SameCall
  <2> QED
    BY <1>0, <1>1, <1>3, <2>1, <2>2, ZenonT(60)
    DEF Own, WriteKnown, SameCall, SameWait, Sound, Fits
<1>9. Quiet(s, t) /\ lock' \in Procs \cup {None} /\ t.token = s.token
  BY <1>0, <1>1 DEF SameWait, SameRun, Quiet, TypeOK
<1>10. s.pc \notin {"closed", "keygen"} /\ t.pc \notin {"closed", "keygen"}
  BY <1>1, <1>2 DEF Working
<1> QED
  BY <1>0, <1>1, <1>4, <1>5, <1>6, <1>7, <1>8, <1>9, <1>10, CallStep DEF Own

-----------------------------------------------------------------------------
(* Steps within a call. *)

(* A run stays known while its call goes on. *)
LEMMA RunStays ==
    ASSUME IInv, NEW p \in Procs, NEW t \in Process, procs'[p] = t,
           t.job = procs[p].job, t.seen = procs[p].seen,
           t.run = procs[p].run, UNCHANGED file,
           env'.uids \in Nat, env.uids <= env'.uids
    PROVE  RunKnown(p)'
<1> DEFINE s == procs[p]
           r == procs[p].run
<1>1. RunKnown(p) /\ r \in RunConfig \cup {None}
  BY Parts, ProcessFields DEF Own
<1>2. r # None /\ r.frozen # None =>
        Sound(r.frozen)' /\ SameSession(r.frozen, file.conns[r.id])'
  BY <1>1, FrozenStays
<1> QED
  BY <1>1, <1>2 DEF RunKnown

(* So does what the browser was asked about. *)
LEMMA SeenStays ==
    ASSUME IInv, NEW p \in Procs, NEW t \in Process, procs'[p] = t,
           t.job = procs[p].job, t.seen = procs[p].seen,
           t.begun = procs[p].begun, t.answer = procs[p].answer,
           t.pc = "answer" <=> procs[p].pc = "answer", UNCHANGED <<file, epoch>>,
           env'.uids \in Nat, env.uids <= env'.uids
    PROVE  SeenKnown(p)'
<1> DEFINE c == procs[p].seen
<1>1. SeenKnown(p) /\ c \in Connection \cup {None} /\ env.uids \in Nat
  BY Parts, ProcessFields, FileType DEF Own
<1>2. c # None => Sound(c)'
  <2>1. c # None => c.gen \in Nat /\ Sound(c)
    BY <1>1, ConnectionFields DEF SeenKnown
  <2> QED
    BY <1>1, <2>1 DEF Sound
<1> QED
  BY <1>1, <1>2 DEF SeenKnown, SameSession, Fits

LEMMA LockRegistryStep ==
    ASSUME IInv, NEW p \in Procs, LockRegistry(p) PROVE IInv' /\ Kept
<1> DEFINE s == procs[p]
           pc == IF file.state # "damaged" /\ Readable(p)
                 THEN "look" ELSE "drop"
           t == Reading(s, pc, file.conns)
<1>0. /\ TypeOK /\ KeyKnown /\ s \in Process /\ Own(p) /\ s.pc = "lock"
      /\ lock = None /\ lock' = p
      /\ UNCHANGED <<keyFile, file, initLock, env, epoch>>
      /\ procs' = [procs EXCEPT ![p] = t]
  BY Parts DEF LockRegistry, LockFree
<1>1. pc \in {"look", "drop"} /\ (pc = "drop" => file.state = "damaged")
  BY <1>0, FileType DEF KeyKnown, Readable
<1>2. pc \in Pcs /\ file.conns \in Registry
  BY <1>0, <1>1, FileType, PcNames
<1> HIDE DEF pc
<1>3. /\ t \in Process /\ t.pc = pc /\ t.store = s.store /\ t.job = s.job
      /\ t.buf = file.conns /\ SameWait(s, t) /\ SameRun(s, t)
  BY <1>0, <1>2, ReadingType
<1> HIDE DEF t
<1>4. procs'[p] = t
  BY <1>0, <1>3, PutProcess
<1>5. env' \in Env /\ env'.uids \in Nat /\ env.uids <= env'.uids
  BY <1>0, EnvType
<1>6. CallKnown(p)'
  BY <1>0, <1>1, <1>3, <1>4 DEF Own, CallKnown, SameWait, Working
<1>7. SeenKnown(p)' /\ RunKnown(p)'
  BY <1>0, <1>1, <1>3, <1>4, <1>5, SeenStays, RunStays DEF SameWait, SameRun
<1>8. WriteKnown(p)'
  BY <1>1, <1>3, <1>4 DEF WriteKnown
<1>9. /\ Quiet(s, t) /\ lock' \in Procs \cup {None} /\ t.token = s.token
      /\ \A q \in Procs \ {p} : lock' = q <=> lock = q
  BY <1>0, <1>3 DEF SameWait, SameRun, Quiet
<1>10. s.pc \notin {"closed", "keygen"} /\ t.pc \notin {"closed", "keygen"}
  BY <1>0, <1>1, <1>3
<1> QED
  BY <1>0, <1>3, <1>5, <1>6, <1>7, <1>8, <1>9, <1>10, CallStep DEF Own

(* The browser or the provider answers. *)
LEMMA AnswerStep ==
    ASSUME IInv, NEW p \in Procs, SignInAnswered(p) \/ TokenAnswered(p)
    PROVE  IInv' /\ Kept
<1> DEFINE s == procs[p]
           i == procs[p].job.id
<1>0. /\ TypeOK /\ s \in Process /\ Own(p) /\ s.pc = "answer"
      /\ UNCHANGED <<keyFile, file, lock, initLock, env, epoch>>
      /\ s.seen # None /\ s.seen \in Connection
  <2>1. Own(p) /\ s \in Process /\ s.pc = "answer"
    BY Parts DEF SignInAnswered, TokenAnswered, Answer
  <2> QED
    BY <2>1, Parts, ProcessFields
       DEF SignInAnswered, TokenAnswered, Answer, Own, CallKnown
<1>1. PICK a \in Secret :
        /\ procs' = [procs EXCEPT ![p] = Answered(s, a)]
        /\ IF s.job.kind = "renew" THEN a = s.seen.secret
           ELSE a.ident = s.seen.ident /\ a.begun = s.begun
  <2>1. CASE SignInAnswered(p)
    <3>1. PICK b \in Accounts :
            procs' = [procs EXCEPT ![p] =
                        Answered(@, [ident |-> s.seen.ident, account |-> b,
                                     begun |-> s.begun])]
      BY <2>1 DEF SignInAnswered, Answer
    <3>2. s.job.kind # "renew" /\ s.seen.ident \in Identity /\ s.begun \in Nat
      BY <1>0, <2>1, ConnectionFields, ProcessFields DEF SignInAnswered
    <3>3. [ident |-> s.seen.ident, account |-> b, begun |-> s.begun] \in Secret
      BY <3>2 DEF Secret
    <3> QED
      BY <3>1, <3>2, <3>3
  <2>2. CASE TokenAnswered(p)
    <3>1. s.job.kind = "renew" /\ s.seen.secret # None
      BY <1>0, <2>2 DEF TokenAnswered, Own, SeenKnown
    <3>2. s.seen.secret \in Secret
      BY <1>0, <3>1, ConnectionFields
    <3> QED
      BY <2>2, <3>1, <3>2 DEF TokenAnswered, Answer
  <2> QED
    BY <2>1, <2>2
<1> DEFINE t == Answered(s, a)
<1>2. /\ t \in Process /\ t.pc = "lock" /\ t.store = s.store
      /\ SameCall(s, t) /\ t.seen = s.seen /\ t.begun = s.begun
      /\ t.answer = a /\ SameRun(s, t)
  BY <1>0, AnsweredType
<1>3. a # None
  BY <1>1
<1>4. procs' = [procs EXCEPT ![p] = t]
  BY <1>1
<1> HIDE DEF t
<1>5. procs'[p] = t
  BY <1>0, <1>2, <1>4, PutProcess
<1>6. env' \in Env /\ env'.uids \in Nat /\ env.uids <= env'.uids
  BY <1>0, EnvType
<1>7. CallKnown(p)' /\ WriteKnown(p)' /\ lock # p
  BY <1>0, <1>2, <1>5 DEF Own, CallKnown, WriteKnown, SameCall, Working
<1>8. SeenKnown(p)'
  BY <1>0, <1>1, <1>2, <1>3, <1>5
     DEF Own, SeenKnown, SameCall, Sound, SameSession, Fits
<1>9. RunKnown(p)'
  BY <1>0, <1>2, <1>5, <1>6, RunStays DEF SameCall, SameRun
<1>10. Quiet(s, t) /\ lock' \in Procs \cup {None} /\ t.token = s.token
  BY <1>0, <1>2 DEF SameRun, Quiet, TypeOK
<1>11. s.pc \notin {"closed", "keygen"} /\ t.pc \notin {"closed", "keygen"}
  BY <1>0, <1>2
<1> QED
  BY <1>0, <1>2, <1>4, <1>6, <1>7, <1>8, <1>9, <1>10, <1>11, CallStep DEF Own

-----------------------------------------------------------------------------
(* What a call does with the document it read. *)
LEMMA LookFacts ==
    ASSUME IInv, NEW p \in Procs, procs[p].pc = "look",
           procs[p].job.kind \notin {"none", "refresh"}
    PROVE  /\ TypeOK /\ procs[p] \in Process /\ Own(p) /\ lock = p
           /\ procs[p].buf = file.conns /\ procs[p].job.id \in Ids
           /\ Found(p) = file.conns[procs[p].job.id]
           /\ Found(p) \in Connection \cup {None}
           /\ epoch[procs[p].job.id] \in Nat /\ env.uids \in Nat
           /\ Found(p) # None =>
                Sound(Found(p)) /\ Fits(Found(p), epoch[procs[p].job.id])
<1>1. /\ TypeOK /\ procs[p] \in Process /\ Own(p) /\ FileKnown
  BY Parts
<1>2. /\ lock = p /\ procs[p].buf = file.conns /\ procs[p].job.id \in Ids
  BY <1>1 DEF Own, CallKnown
<1> QED
  BY <1>1, <1>2, FileType DEF Found, FileKnown

LEMMA RefuseStep ==
    ASSUME IInv, NEW p \in Procs, procs[p].pc = "look", Refuse(p)
    PROVE  IInv' /\ Kept
BY EndStep DEF Refuse, Working

LEMMA FreezeStep ==
    ASSUME IInv, NEW p \in Procs, procs[p].pc = "look", NEW kind, Freeze(p, kind),
           Found(p) # None,
           \/ procs[p].job.kind = "signin" /\ kind = "signedin"
                /\ Found(p).ident.mode = "oauth"
           \/ procs[p].job.kind = "token" /\ kind = "renew"
                /\ SignedIn(Found(p))
                /\ StillFrozen(Found(p), procs[p].run.frozen)
    PROVE  IInv' /\ Kept
<1> DEFINE s == procs[p]
           i == procs[p].job.id
           c == Found(p)
           w == Waiting(s, c, epoch[i])
           t == Second(w, "answer", kind)
<1>0. /\ TypeOK /\ s \in Process /\ Own(p) /\ lock = p /\ i \in Ids
      /\ c = file.conns[i] /\ c \in Connection /\ c # None
      /\ Sound(c) /\ Fits(c, epoch[i]) /\ epoch[i] \in Nat
      /\ s.job.kind \in {"signin", "token"} /\ kind \in {"signedin", "renew"}
      /\ UNCHANGED <<keyFile, file, initLock, env, epoch>>
      /\ procs' = [procs EXCEPT ![p] = t]
  BY LookFacts DEF Freeze
<1>1. /\ w \in Process /\ w.store = s.store /\ SameCall(s, w)
      /\ w.seen = c /\ w.begun = epoch[i] /\ SameRun(s, w)
  <2> DEFINE e == epoch[i]
  <2>1. s \in Process /\ c \in Connection /\ e \in Nat
    BY <1>0
  <2>2. w = Waiting(s, c, e)
    OBVIOUS
  <2> HIDE DEF s, c, e, w
  <2>3. /\ w \in Process /\ w.store = s.store /\ SameCall(s, w)
        /\ w.seen = c /\ w.begun = e /\ SameRun(s, w)
    BY <2>1, <2>2, WaitingType
  <2> QED
    BY <2>3 DEF e
<1> HIDE DEF w
<1>2. /\ t \in Process /\ t.pc = "answer" /\ t.store = s.store
      /\ t.job.kind = kind /\ t.job.id = i
      /\ t.seen = c /\ t.begun = epoch[i] /\ SameRun(s, t)
  <2>1. /\ t \in Process /\ t.pc = "answer" /\ t.store = w.store
        /\ t.job.kind = kind /\ t.job.id = w.job.id
        /\ SameWait(w, t) /\ SameRun(w, t)
    <3>1. kind \in Kinds /\ "answer" \in Pcs /\ w \in Process
      BY <1>0, <1>1, PcNames, KindNames
    <3> QED
      BY <3>1, SecondType
  <2> HIDE DEF t, c
  <2> QED
    BY <1>1, <2>1 DEF SameWait, SameCall, SameRun
<1> HIDE DEF t
<1>3. procs'[p] = t
  BY <1>0, <1>2, PutProcess
<1>4. env' \in Env /\ env'.uids \in Nat /\ env.uids <= env'.uids
  BY <1>0, EnvType
<1>5. /\ lock' \in Procs \cup {None} /\ lock' # p
      /\ \A q \in Procs \ {p} : lock' = q <=> lock = q
  BY <1>0 DEF Freeze, Unlocked
<1>6. CallKnown(p)' /\ WriteKnown(p)'
  BY <1>0, <1>2, <1>3, <1>5 DEF CallKnown, WriteKnown, Working
<1>7. SeenKnown(p)'
  <2>1. c.gen # 0 /\ (kind = "renew" => c.secret # None)
    BY <1>0 DEF Sound, SignedIn
  <2> HIDE DEF c, i
  <2>2. kind = "renew" => Fits(c, epoch[i])
    BY <1>0
  <2> QED
    BY <1>0, <1>2, <1>3, <2>1, <2>2 DEF SeenKnown, Sound, SameSession, Fits
<1>8. RunKnown(p)'
  <2>1. PICK r \in RunConfig \cup {None} : r = s.run /\ t.run = r /\ RunKnown(p)
    BY <1>0, <1>2, ProcessFields DEF SameRun, Own
  <2>2. r # None /\ r.frozen # None =>
          Sound(r.frozen)' /\ SameSession(r.frozen, file.conns[r.id])'
    <3>1. UNCHANGED file /\ r = procs[p].run
      BY <1>0, <2>1
    <3> QED
      BY <1>4, <2>1, <3>1, FrozenStays
  <2>3. kind = "renew" => /\ s.job.kind = "token"
                          /\ c.gen = r.frozen.gen /\ c.ident = r.frozen.ident
                          /\ c.secret = r.frozen.secret
    BY <1>0, <2>1 DEF RunKnown, StillFrozen, SameIdentity, SameSignIn, SameSession
  <2> HIDE DEF c
  <2> QED
    BY <1>0, <1>2, <1>3, <2>1, <2>2, <2>3, ZenonT(60) DEF RunKnown
<1>9. t.token = s.token
  BY <1>2 DEF SameRun
<1>10. s.pc \notin {"closed", "keygen"} /\ t.pc \notin {"closed", "keygen"}
  BY <1>2
<1> QED
  BY <1>0, <1>2, <1>4, <1>5, <1>6, <1>7, <1>8, <1>9, <1>10, CallStep DEF Own

(* Sign-in and a token request only read, and remember what they read. *)
LEMMA LookWaitStep ==
    ASSUME IInv, NEW p \in Procs, LookSignIn(p) \/ LookToken(p)
    PROVE  IInv' /\ Kept
<1>1. CASE LookSignIn(p)
  BY <1>1, RefuseStep, FreezeStep DEF LookSignIn, Looking
<1>2. CASE LookToken(p)
  BY <1>2, RefuseStep, FreezeStep DEF LookToken, Looking
<1> QED
  BY <1>1, <1>2

LEMMA ConfigType ==
    ASSUME NEW i \in Ids, NEW c \in Connection
    PROVE  /\ ConfigOf(i, c) \in RunConfig /\ ConfigOf(i, c).id = i
           /\ ConfigOf(i, c) # None
           /\ ConfigOf(i, c).ident = c.ident
           /\ IF c.ident.mode = "oauth"
              THEN ConfigOf(i, c).frozen = None /\ ~ ConfigOf(i, c).ready
              ELSE ConfigOf(i, c).frozen = c
<1>1. c.ident \in Identity /\ c # None
  BY ConnectionFields
<1>2. ConfigOf(i, c) \in RunConfig
  BY <1>1 DEF ConfigOf, RunConfig
<1> QED
  BY <1>1, <1>2 DEF ConfigOf

LEMMA LookStartStep ==
    ASSUME IInv, NEW p \in Procs, LookStart(p) PROVE IInv' /\ Kept
<1>1. CASE Found(p) = None
  BY <1>1, RefuseStep DEF LookStart, Looking
<1>2. CASE Found(p) # None
  <2> DEFINE s == procs[p]
             i == procs[p].job.id
             c == Found(p)
             r == ConfigOf(i, c)
             u == IF c.ident.mode = "oauth" THEN Second(s, "lock", "freeze")
                  ELSE Ended(s)
             t == WithRun(u, r)
  <2>0. /\ TypeOK /\ s \in Process /\ lock = p /\ i \in Ids /\ s.pc = "look"
        /\ c = file.conns[i] /\ c \in Connection /\ Sound(c)
        /\ Own(p) /\ s.job.kind = "start"
        /\ UNCHANGED <<keyFile, file, initLock, env, epoch>>
        /\ procs' = [procs EXCEPT ![p] = t]
    BY <1>2, LookFacts DEF LookStart, Looking
  <2>1. /\ r \in RunConfig /\ r # None /\ r.id = i /\ r.ident = c.ident
        /\ IF c.ident.mode = "oauth" THEN r.frozen = None /\ ~ r.ready
           ELSE r.frozen = c
    BY <2>0, ConfigType, ZenonT(60)
  <2>2. s.seen = None
    BY <2>0 DEF Own, CallKnown
  <2>3. /\ u \in Process /\ u.store = s.store /\ u.seen = None
        /\ u.token = s.token
        /\ IF c.ident.mode = "oauth"
           THEN u.pc = "lock" /\ u.job.kind = "freeze" /\ u.job.id = i
           ELSE u.pc = "idle" /\ u.job = NoJob
    <3>1. CASE c.ident.mode = "oauth"
      <4>1. /\ u \in Process /\ u.store = s.store /\ u.pc = "lock"
            /\ u.job.kind = "freeze" /\ u.job.id = i
            /\ SameWait(s, u) /\ SameRun(s, u)
        <5>1. "lock" \in Pcs /\ "freeze" \in Kinds
          BY PcNames, KindNames
        <5> DEFINE w == Second(s, "lock", "freeze")
        <5>2. /\ w \in Process /\ w.store = s.store /\ w.pc = "lock"
              /\ w.job.kind = "freeze" /\ w.job.id = i
              /\ SameWait(s, w) /\ SameRun(s, w)
          BY <2>0, <5>1, SecondType
        <5>3. u = w
          BY <3>1
        <5> HIDE DEF u, w
        <5> QED
          BY <5>2, <5>3
      <4> QED
        BY <2>2, <3>1, <4>1 DEF SameWait, SameRun
    <3>2. CASE c.ident.mode # "oauth"
      BY <2>0, <3>2, EndedType DEF SameRun
    <3> QED
      BY <3>1, <3>2
  <2> HIDE DEF u, r
  <2>4. /\ t \in Process /\ t.pc = u.pc /\ t.store = u.store /\ t.job = u.job
        /\ t.seen = u.seen /\ t.run = r /\ t.token = u.token
    BY <2>1, <2>3, WithRunType DEF SameCall, SameWait
  <2> HIDE DEF t
  <2>5. procs'[p] = t
    BY <2>0, <2>4, PutProcess
  <2>6. env' \in Env /\ env'.uids \in Nat /\ env.uids <= env'.uids
    BY <2>0, EnvType
  <2>7. /\ lock' \in Procs \cup {None} /\ lock' # p
        /\ \A q \in Procs \ {p} : lock' = q <=> lock = q
    BY <1>2, <2>0 DEF LookStart, Unlocked
  <2> HIDE DEF c, i
  <2>8. CallKnown(p)' /\ SeenKnown(p)' /\ WriteKnown(p)'
    BY <2>0, <2>3, <2>4, <2>5, <2>7, NoJobType, ZenonT(60)
    DEF CallKnown, SeenKnown, WriteKnown, Working
  <2>9. RunKnown(p)'
    BY <2>0, <2>1, <2>3, <2>4, <2>5, NoJobType
       DEF RunKnown, Sound, SameSession
  <2>10. s.pc \notin {"closed", "keygen"} /\ t.pc \notin {"closed", "keygen"}
    BY <2>0, <2>3, <2>4
  <2> QED
    BY <2>0, <2>3, <2>4, <2>6, <2>7, <2>8, <2>9, <2>10, CallStep DEF Own
<1> QED
  BY <1>1, <1>2

LEMMA LookFreezeStep ==
    ASSUME IInv, NEW p \in Procs, LookFreeze(p) PROVE IInv' /\ Kept
<1> DEFINE s == procs[p]
           i == procs[p].job.id
           c == Found(p)
           r == [s.run EXCEPT !.frozen = c]
           u == Second(s, "lock", "token")
           t == WithRun(u, r)
<1>1. CASE Refuse(p)
  BY <1>1, RefuseStep DEF LookFreeze, Looking
<1>2. CASE ~ Refuse(p)
  <2>0. /\ TypeOK /\ s \in Process /\ lock = p /\ i \in Ids /\ s.pc = "look"
        /\ c = file.conns[i] /\ c \in Connection \cup {None}
        /\ (c # None => Sound(c))
        /\ Own(p) /\ s.job.kind = "freeze"
    BY LookFacts DEF LookFreeze, Looking
  <2>1. /\ c # None /\ SignedIn(c) /\ c.ident.endpoint = s.run.ident.endpoint
        /\ UNCHANGED <<keyFile, file, initLock, env, epoch>>
        /\ procs' = [procs EXCEPT ![p] = t]
        /\ Unlocked(p)
    BY <1>2 DEF LookFreeze
  <2>2. /\ s.run \in RunConfig /\ s.run.id = i /\ s.run.ident.mode = "oauth"
        /\ s.seen = None
    BY <2>0, ProcessFields DEF Own, RunKnown, CallKnown
  <2>3. /\ r \in RunConfig /\ r # None /\ r.id = i /\ r.ident = s.run.ident
        /\ r.frozen = c
    BY <2>0, <2>1, <2>2 DEF RunConfig
  <2> HIDE DEF r
  <2>4. /\ u \in Process /\ u.pc = "lock" /\ u.store = s.store
        /\ u.job.kind = "token" /\ u.job.id = i
        /\ SameWait(s, u) /\ SameRun(s, u)
    <3>1. "lock" \in Pcs /\ "token" \in Kinds
      BY PcNames, KindNames
    <3> QED
      BY <2>0, <3>1, SecondType
  <2> HIDE DEF u
  <2>5. /\ t \in Process /\ t.pc = "lock" /\ t.store = s.store
        /\ t.job.kind = "token" /\ t.job.id = i
        /\ t.seen = None /\ t.run = r /\ t.token = s.token
    BY <2>2, <2>3, <2>4, WithRunType DEF SameCall, SameWait, SameRun
  <2> HIDE DEF t
  <2>6. procs'[p] = t
    BY <2>0, <2>1, <2>5, PutProcess
  <2>7. env' \in Env /\ env'.uids \in Nat /\ env.uids <= env'.uids
    BY <2>0, <2>1, EnvType
  <2>8. /\ lock' \in Procs \cup {None} /\ lock' # p
        /\ \A q \in Procs \ {p} : lock' = q <=> lock = q
    BY <2>0, <2>1 DEF Unlocked
  <2> HIDE DEF c, i
  <2>9. CallKnown(p)' /\ SeenKnown(p)' /\ WriteKnown(p)'
    BY <2>0, <2>5, <2>6, <2>8
       DEF CallKnown, SeenKnown, WriteKnown, Working
  <2>10. RunKnown(p)'
    <3>1. c.gen # 0 /\ c.secret # None
      BY <2>1 DEF SignedIn
    <3> QED
      BY <2>0, <2>1, <2>2, <2>3, <2>5, <2>6, <3>1
         DEF RunKnown, Sound, SameSession
  <2>11. s.pc \notin {"closed", "keygen"} /\ t.pc \notin {"closed", "keygen"}
    BY <2>0, <2>5
  <2> QED
    BY <2>0, <2>1, <2>5, <2>7, <2>8, <2>9, <2>10, <2>11, CallStep DEF Own
<1> QED
  BY <1>1, <1>2

(* uid() returns what no process has seen or frozen. *)
LEMMA FreshGen ==
    ASSUME IInv PROVE NewGen(env.uids + 1)
<1>1. ASSUME NEW q \in Procs
      PROVE  /\ procs[q].seen # None => procs[q].seen.gen # env.uids + 1
             /\ procs[q].run # None /\ procs[q].run.frozen # None =>
                  procs[q].run.frozen.gen # env.uids + 1
  <2>1. /\ Own(q) /\ procs[q].seen \in Connection \cup {None}
        /\ procs[q].run \in RunConfig \cup {None} /\ env.uids \in Nat
    BY Parts, ProcessFields, FileType
  <2>2. procs[q].seen # None =>
          procs[q].seen.gen \in Nat /\ procs[q].seen.gen <= env.uids
    BY <2>1, ConnectionFields DEF Own, SeenKnown, Sound
  <2>3. procs[q].run # None /\ procs[q].run.frozen # None =>
          procs[q].run.frozen.gen \in Nat /\ procs[q].run.frozen.gen <= env.uids
    BY <2>1, RunFields, ConnectionFields DEF Own, RunKnown, Sound
  <2> QED
    BY <2>1, <2>2, <2>3
<1> QED
  BY <1>1 DEF NewGen

(* What makes an update fit to be written. *)
LEMMA WriteOwn ==
    ASSUME NEW p \in Procs, NEW t \in Process, NEW i \in Ids,
           NEW c \in Connection \cup {None}, NEW d \in Connection \cup {None},
           NEW e \in Nat, NEW turned \in BOOLEAN, procs'[p] = t, t.job.kind \notin {"none", "refresh"},
           t.job.id = i, t.buf[i] = c, file'.conns[i] = d,
           \A j \in Ids \ {i} : t.buf[j] = file'.conns[j],
           Turns(p, i)' <=> turned,
           e = IF turned THEN epoch'[i] + 1 ELSE epoch'[i],
           c # None =>
             /\ c.gen <= env'.uids
             /\ c.ident.mode = "oauth" => c.gen # 0
             /\ c.secret # None => c.secret.ident = c.ident
             /\ c.secret # None /\ c.secret.account # None =>
                  c.secret.begun + 1 = e
             /\ \/ c.gen = 0
                \/ /\ d # None /\ c.gen = d.gen /\ c.ident = d.ident
                   /\ c.secret = d.secret /\ ~ turned
                \/ \A q \in Procs :
                     /\ procs'[q].seen # None => procs'[q].seen.gen # c.gen
                     /\ procs'[q].run # None /\ procs'[q].run.frozen # None =>
                          procs'[q].run.frozen.gen # c.gen,
           t.job.kind = "renew" => c # None /\ c.secret = t.answer
    PROVE  WriteKnown(p)'
<1>1. procs'[p].job.id = i /\ procs'[p].buf[i] = c
  OBVIOUS
<1>2. c # None => Sound(c)'
  BY DEF Sound
<1>3. c # None => Fits(c, IF Turns(p, i) THEN epoch[i] + 1 ELSE epoch[i])'
  BY DEF Fits
<1>4. c # None => \/ c.gen = 0
                  \/ /\ d # None /\ c.gen = d.gen /\ c.ident = d.ident
                     /\ c.secret = d.secret /\ ~ Turns(p, i)'
                  \/ NewGen(c.gen)'
  BY DEF NewGen
<1> QED
  BY <1>1, <1>2, <1>3, <1>4 DEF WriteKnown

(* An update of the call's connection to c, with n new numbers of uid(). *)
LEMMA ChangeStep ==
    ASSUME IInv, NEW p \in Procs, procs[p].pc = "look",
           procs[p].job.kind \notin {"none", "refresh"},
           NEW c \in Connection \cup {None}, NEW n \in Nat, Change(p, c, n),
           c # None =>
             /\ c.gen <= env.uids + n
             /\ c.ident.mode = "oauth" => c.gen # 0
             /\ c.secret # None => c.secret.ident = c.ident
             /\ Fits(c, IF Turns(p, procs[p].job.id)
                        THEN epoch[procs[p].job.id] + 1
                        ELSE epoch[procs[p].job.id])
             /\ \/ c.gen = 0
                \/ /\ Found(p) # None /\ c.gen = Found(p).gen
                   /\ c.ident = Found(p).ident /\ c.secret = Found(p).secret
                   /\ ~ Turns(p, procs[p].job.id)
                \/ c.gen = env.uids + 1,
           procs[p].job.kind = "renew" =>
             c # None /\ c.secret = procs[p].answer
    PROVE  IInv' /\ Kept
<1> DEFINE s == procs[p]
           i == procs[p].job.id
           t == Changing(s, c)
           b == [s.buf EXCEPT ![i] = c]
<1>0. /\ TypeOK /\ s \in Process /\ Own(p) /\ lock = p /\ i \in Ids
      /\ s.buf = file.conns /\ Found(p) = file.conns[i] /\ env.uids \in Nat
      /\ UNCHANGED <<keyFile, file, lock, initLock, epoch>>
      /\ procs' = [procs EXCEPT ![p] = t] /\ file.conns \in Registry
  BY LookFacts, FileType DEF Change
<1>1. /\ t \in Process /\ t.pc = "write" /\ t.store = s.store /\ t.job = s.job
      /\ t.buf = b /\ SameWait(s, t) /\ SameRun(s, t)
  BY <1>0, ChangingType
<1>2. b[i] = c /\ \A j \in Ids \ {i} : b[j] = file.conns[j]
  BY <1>0 DEF Registry
<1> HIDE DEF t, b
<1>3. /\ procs'[p] = t /\ \A q \in Procs \ {p} : procs'[q] = procs[q]
  BY <1>0, <1>1, PutProcess
<1>4. /\ env' \in Env /\ env'.uids \in Nat /\ env.uids <= env'.uids
      /\ env'.uids = env.uids + n
  <2>1. env' = [env EXCEPT !.uids = @ + n]
    BY DEF Change
  <2> QED
    BY <1>0, <2>1, EnvType
<1>5. CallKnown(p)'
  BY <1>0, <1>1, <1>3 DEF Own, CallKnown, SameWait, Working
<1>6. SeenKnown(p)' /\ RunKnown(p)'
  BY <1>0, <1>1, <1>3, <1>4, SeenStays, RunStays DEF SameWait, SameRun
<1>7. WriteKnown(p)'
  <2>0. PICK k \in Ids : k = i
    BY <1>0
  <2>1. \A q \in Procs : /\ procs'[q].seen = procs[q].seen
                         /\ procs'[q].run = procs[q].run
    BY <1>1, <1>3 DEF SameWait, SameRun
  <2>2. c # None /\ c.gen = env.uids + 1 =>
          \A q \in Procs :
            /\ procs'[q].seen # None => procs'[q].seen.gen # c.gen
            /\ procs'[q].run # None /\ procs'[q].run.frozen # None =>
                 procs'[q].run.frozen.gen # c.gen
    BY <2>1, FreshGen DEF NewGen
  <2>3. Turns(p, k)' <=> Turns(p, k)
    BY <1>0, <1>1, <1>3 DEF Turns
  <2> DEFINE turned == Turns(p, k)
             e == IF turned THEN epoch[k] + 1 ELSE epoch[k]
             d == file.conns[k]
  <2>4. c # None =>
          /\ c.gen <= env'.uids
          /\ c.ident.mode = "oauth" => c.gen # 0
          /\ c.secret # None => c.secret.ident = c.ident
          /\ c.secret # None /\ c.secret.account # None =>
               c.secret.begun + 1 = e
          /\ \/ c.gen = 0
             \/ /\ d # None /\ c.gen = d.gen /\ c.ident = d.ident
                /\ c.secret = d.secret /\ ~ turned
             \/ \A q \in Procs :
                  /\ procs'[q].seen # None => procs'[q].seen.gen # c.gen
                  /\ procs'[q].run # None /\ procs'[q].run.frozen # None =>
                       procs'[q].run.frozen.gen # c.gen
    BY <1>0, <1>4, <2>0, <2>2 DEF Fits
  <2>5. t.job.kind = "renew" => c # None /\ c.secret = t.answer
    BY <1>1 DEF SameWait
  <2>6. /\ t.job.id = k /\ t.buf[k] = c /\ file'.conns[k] = d
        /\ t.job.kind \notin {"none", "refresh"}
        /\ \A j \in Ids \ {k} : t.buf[j] = file'.conns[j]
        /\ e = IF turned THEN epoch'[k] + 1 ELSE epoch'[k]
    BY <1>0, <1>1, <1>2, <2>0
  <2>7. Turns(p, k)' <=> turned
    BY <2>3
  <2>8. /\ d \in Connection \cup {None} /\ e \in Nat
        /\ turned \in BOOLEAN
    BY <1>0, <2>0, LookFacts DEF Turns
  <2> HIDE DEF e, d, turned
  <2> QED
    BY <1>1, <1>3, <2>4, <2>5, <2>6, <2>7, <2>8, WriteOwn
<1>8. /\ lock' \in Procs \cup {None} /\ t.token = s.token
      /\ \A q \in Procs \ {p} : lock' = q <=> lock = q
  BY <1>0, <1>1 DEF SameRun
<1>9. s.pc \notin {"closed", "keygen"} /\ t.pc \notin {"closed", "keygen"}
  BY <1>1
<1> QED
  BY <1>0, <1>1, <1>4, <1>5, <1>6, <1>7, <1>8, <1>9, CallStep DEF Own

LEMMA LookDeleteStep ==
    ASSUME IInv, NEW p \in Procs, LookDelete(p) PROVE IInv' /\ Kept
<1>1. CASE Found(p) = None
  BY <1>1, RefuseStep DEF LookDelete, Looking
<1>2. CASE Found(p) # None
  <2>1. /\ procs[p].pc = "look" /\ procs[p].job.kind = "delete"
        /\ Change(p, None, 0)
    BY <1>2 DEF LookDelete, Looking
  <2> QED
    BY <2>1, ChangeStep
<1> QED
  BY <1>1, <1>2

LEMMA LookClearStep ==
    ASSUME IInv, NEW p \in Procs, LookClear(p) PROVE IInv' /\ Kept
<1>1. CASE Found(p) = None
  BY <1>1, RefuseStep DEF LookClear, Looking
<1>2. CASE Found(p) # None
  <2> DEFINE g == env.uids + 1
             c == [Found(p) EXCEPT !.secret = None, !.gen = g]
  <2>1. /\ procs[p].pc = "look" /\ procs[p].job.kind = "clear"
        /\ Change(p, c, 1)
    BY <1>2 DEF LookClear, Looking
  <2>2. Found(p) \in Connection /\ g \in Nat /\ g # 0
    BY <1>2, <2>1, LookFacts
  <2>3. /\ c \in Connection /\ c.secret = None /\ c.gen = g
    <3> DEFINE x == Found(p)
    <3>1. /\ x \in Connection /\ g \in Nat
          /\ c = [x EXCEPT !.secret = None, !.gen = g]
      BY <2>2
    <3> HIDE DEF x, g, c
    <3> QED
      BY <3>1 DEF Connection
  <2>4. g <= env.uids + 1 /\ g = env.uids + 1 /\ 1 \in Nat
    BY <2>2
  <2> HIDE DEF c, g
  <2>5. Fits(c, IF Turns(p, procs[p].job.id) THEN epoch[procs[p].job.id] + 1
                ELSE epoch[procs[p].job.id])
    BY <2>3 DEF Fits
  <2> QED
    BY <2>1, <2>2, <2>3, <2>4, <2>5, ChangeStep
<1> QED
  BY <1>1, <1>2

LEMMA LookSignedInStep ==
    ASSUME IInv, NEW p \in Procs, LookSignedIn(p) PROVE IInv' /\ Kept
<1>1. CASE ~ Unchanged(p)
  BY <1>1, RefuseStep DEF LookSignedIn, Looking
<1>2. CASE Unchanged(p)
  <2> DEFINE s == procs[p]
             i == procs[p].job.id
             g == env.uids + 1
             c == [Found(p) EXCEPT !.secret = s.answer, !.gen = g]
             e == IF Turns(p, i) THEN epoch[i] + 1 ELSE epoch[i]
  <2>1. s.pc = "look" /\ s.job.kind = "signedin" /\ Change(p, c, 1)
    BY <1>2 DEF LookSignedIn, Looking
  <2>2. /\ Found(p) \in Connection /\ g \in Nat /\ g # 0 /\ Own(p)
        /\ Found(p) = file.conns[i] /\ epoch[i] \in Nat /\ s \in Process
    BY <1>2, <2>1, LookFacts DEF Unchanged
  <2>3. /\ s.seen # None /\ s.answer # None /\ s.answer \in Secret
        /\ s.answer.ident = Found(p).ident /\ s.answer.begun = epoch[i]
    <3>1. s.seen # None /\ s.answer \in Secret \cup {None}
      BY <2>1, <2>2, ProcessFields DEF Own, CallKnown
    <3> QED
      BY <1>2, <2>1, <2>2, <3>1
         DEF Own, SeenKnown, Unchanged, SameIdentity, SameSignIn
  <2>4. /\ c \in Connection /\ c.ident = Found(p).ident
        /\ c.secret = s.answer /\ c.gen = g
    <3> DEFINE x == Found(p)
               a == s.answer
    <3>1. /\ x \in Connection /\ a \in Secret \cup {None} /\ g \in Nat
          /\ c = [x EXCEPT !.secret = a, !.gen = g]
      BY <2>2, <2>3
    <3>2. x = Found(p) /\ a = s.answer
      OBVIOUS
    <3> HIDE DEF x, a, g, c
    <3>3. c \in Connection /\ c.ident = x.ident /\ c.secret = a /\ c.gen = g
      BY <3>1 DEF Connection
    <3> QED
      BY <3>2, <3>3
  <2>5. g <= env.uids + 1 /\ g = env.uids + 1 /\ 1 \in Nat
    BY <2>2
  <2> HIDE DEF c, g
  <2>6. Fits(c, e)
    <3>1. Turns(p, i)
      BY <2>1 DEF Turns
    <3> QED
      BY <2>3, <2>4, <3>1 DEF Fits
  <2> QED
    BY <2>1, <2>2, <2>3, <2>4, <2>5, <2>6, ChangeStep
<1> QED
  BY <1>1, <1>2

LEMMA LookRenewStep ==
    ASSUME IInv, NEW p \in Procs, LookRenew(p) PROVE IInv' /\ Kept
<1>1. CASE ~ Unchanged(p)
  BY <1>1, RefuseStep DEF LookRenew, Looking
<1>2. CASE Unchanged(p)
  <2> DEFINE s == procs[p]
             i == procs[p].job.id
             c == [Found(p) EXCEPT !.secret = s.answer]
             e == IF Turns(p, i) THEN epoch[i] + 1 ELSE epoch[i]
  <2>1. s.pc = "look" /\ s.job.kind = "renew" /\ Change(p, c, 0)
    BY <1>2 DEF LookRenew, Looking
  <2>2. /\ Found(p) \in Connection /\ Own(p) /\ env.uids \in Nat
        /\ Found(p) = file.conns[i] /\ epoch[i] \in Nat /\ s \in Process
        /\ Sound(Found(p)) /\ Fits(Found(p), epoch[i]) /\ Found(p) # None
    BY <1>2, <2>1, LookFacts DEF Unchanged
  <2>3. s.seen # None /\ s.answer \in Secret \cup {None}
    BY <2>1, <2>2, ProcessFields DEF Own, CallKnown
  <2>4. s.answer \in Secret /\ s.answer = Found(p).secret
    BY <1>2, <2>1, <2>2, <2>3
       DEF Own, SeenKnown, Unchanged, SameIdentity, SameSignIn, SameSession
  <2>5. /\ c \in Connection /\ c.ident = Found(p).ident
        /\ c.secret = s.answer /\ c.gen = Found(p).gen
    <3> DEFINE x == Found(p)
               a == s.answer
    <3>1. /\ x \in Connection /\ a \in Secret
          /\ c = [x EXCEPT !.secret = a]
      BY <2>2, <2>4
    <3>2. x = Found(p) /\ a = s.answer
      OBVIOUS
    <3> HIDE DEF x, a, c
    <3>3. c \in Connection /\ c.ident = x.ident /\ c.secret = a /\ c.gen = x.gen
      BY <3>1 DEF Connection
    <3> QED
      BY <3>2, <3>3
  <2> HIDE DEF c
  <2>6. ~ Turns(p, i)
    BY <2>1 DEF Turns
  <2>7. Fits(c, e)
    BY <2>2, <2>4, <2>5, <2>6 DEF Fits
  <2>8. c.gen <= env.uids + 0 /\ 0 \in Nat
    <3> DEFINE g == c.gen
               n == env.uids
    <3>1. g <= n
      BY <2>2, <2>5 DEF Sound
    <3>2. n \in Nat
      BY <2>2
    <3> HIDE DEF g, n
    <3>3. g <= n + 0
      BY <3>1, <3>2
    <3> QED
      BY <3>3 DEF g, n
  <2>9. /\ c.ident.mode = "oauth" => c.gen # 0
        /\ c.secret.ident = c.ident /\ c # None
    BY <2>2, <2>4, <2>5, ConnectionFields DEF Sound
  <2> QED
    BY <2>1, <2>2, <2>4, <2>5, <2>6, <2>7, <2>8, <2>9, ChangeStep
<1> QED
  BY <1>1, <1>2

(* What personalConnection makes of a form, beside the connection it edits. *)
LEMMA SavedType ==
    ASSUME NEW j \in Job, j.name # None, j.ident # None,
           NEW old \in Connection \cup {None}, env.uids \in Nat,
           NEW c, c = SavedConnection(j, old)
    PROVE  /\ c \in Connection
           /\ c.ident = j.ident
           /\ \/ /\ \/ old = None
                    \/ old.ident # j.ident
                 /\ c.gen = (IF j.ident.mode = "oauth" THEN env.uids + 1 ELSE 0)
                 /\ c.secret = TypedSecret(j)
              \/ /\ old # None /\ old.ident = j.ident
                 /\ j.ident.mode = "oauth"
                 /\ c.secret = old.secret /\ c.gen = old.gen
              \/ /\ old # None /\ old.ident = j.ident
                 /\ j.ident.mode = "api_key" /\ c.gen = 0
                 /\ c.secret \in {TypedSecret(j), old.secret}
<1> DEFINE k == TypedSecret(j)
           g == IF j.ident.mode = "oauth" THEN env.uids + 1 ELSE 0
           fresh == [name |-> j.name, ident |-> j.ident, secret |-> k, gen |-> g]
<1>1. /\ j.name \in Names /\ j.ident \in Identity /\ g \in Nat
      /\ j.ident.mode \in {"api_key", "oauth"}
  BY JobFields DEF Identity, Form
<1>2. k \in Secret \cup {None}
  BY <1>1 DEF TypedSecret, Secret
<1>3. fresh \in Connection /\ fresh.ident = j.ident /\ fresh.secret = k
      /\ fresh.gen = g
  BY <1>1, <1>2 DEF Connection
<1>4. CASE old = None \/ old.ident # j.ident
  <2>1. c = fresh
    BY <1>3, <1>4 DEF SavedConnection, SameIdentity
  <2> QED
    BY <1>3, <1>4, <2>1
<1>5. CASE /\ old # None /\ old.ident = j.ident /\ j.ident.mode = "oauth"
  <2>1. c = [fresh EXCEPT !.secret = old.secret, !.gen = old.gen]
    BY <1>3, <1>5 DEF SavedConnection, SameIdentity
  <2>2. old.secret \in Secret \cup {None} /\ old.gen \in Nat
    BY <1>5, ConnectionFields
  <2> HIDE DEF fresh
  <2> QED
    BY <1>3, <1>5, <2>1, <2>2 DEF Connection
<1>6. CASE /\ old # None /\ old.ident = j.ident /\ j.ident.mode = "api_key"
  <2> DEFINE x == IF j.typed THEN k ELSE old.secret
  <2>1. c = [fresh EXCEPT !.secret = x]
    BY <1>3, <1>6 DEF SavedConnection, SameIdentity
  <2>2. x \in Secret \cup {None} /\ x \in {k, old.secret}
    BY <1>2, <1>6, ConnectionFields
  <2>3. g = 0
    BY <1>6
  <2> HIDE DEF fresh, x, g
  <2> QED
    BY <1>3, <1>6, <2>1, <2>2, <2>3 DEF Connection
<1> QED
  BY <1>1, <1>4, <1>5, <1>6

LEMMA LookSaveStep ==
    ASSUME IInv, NEW p \in Procs, LookSave(p) PROVE IInv' /\ Kept
<1> DEFINE s == procs[p]
           j == procs[p].job
           i == procs[p].job.id
           old == Found(p)
           c == SavedConnection(j, old)
           e == IF Turns(p, i) THEN epoch[i] + 1 ELSE epoch[i]
<1>0. /\ s.pc = "look" /\ j.kind = "save" /\ (Refuse(p) \/ Change(p, c, 1))
  BY DEF LookSave, Looking
<1>1. CASE Refuse(p)
  BY <1>0, <1>1, RefuseStep
<1>2. CASE Change(p, c, 1)
  <2>1. /\ j \in Job /\ old \in Connection \cup {None} /\ Own(p)
        /\ old = file.conns[i] /\ epoch[i] \in Nat /\ env.uids \in Nat
        /\ (old # None => Sound(old) /\ Fits(old, epoch[i]))
    BY <1>0, LookFacts, ProcessFields
  <2>2. j.name # None /\ j.ident # None
    BY <1>0, <2>1 DEF Own, CallKnown
  <2>3. Turns(p, i) <=> old # None /\ old.ident # j.ident
    BY <1>0, <2>1 DEF Turns
  <2>4. /\ TypedSecret(j) # None => TypedSecret(j).ident = j.ident
        /\ c \in Connection
        /\ c.ident = j.ident
        /\ \/ /\ old = None \/ old.ident # j.ident
              /\ c.gen = (IF j.ident.mode = "oauth" THEN env.uids + 1 ELSE 0)
              /\ c.secret = TypedSecret(j)
           \/ /\ old # None /\ old.ident = j.ident
              /\ j.ident.mode = "oauth"
              /\ c.secret = old.secret /\ c.gen = old.gen
           \/ /\ old # None /\ old.ident = j.ident
              /\ j.ident.mode = "api_key" /\ c.gen = 0
              /\ c.secret \in {TypedSecret(j), old.secret}
    <3>1. TypedSecret(j) # None => TypedSecret(j).ident = j.ident
      BY DEF TypedSecret
    <3> HIDE DEF j, c, old
    <3>2. c = SavedConnection(j, old)
      BY DEF c
    <3>3. j \in Job /\ old \in Connection \cup {None} /\ env.uids \in Nat
      BY <2>1
    <3>4. /\ c \in Connection
          /\ c.ident = j.ident
          /\ \/ /\ old = None \/ old.ident # j.ident
                /\ c.gen = (IF j.ident.mode = "oauth" THEN env.uids + 1 ELSE 0)
                /\ c.secret = TypedSecret(j)
             \/ /\ old # None /\ old.ident = j.ident
                /\ j.ident.mode = "oauth"
                /\ c.secret = old.secret /\ c.gen = old.gen
             \/ /\ old # None /\ old.ident = j.ident
                /\ j.ident.mode = "api_key" /\ c.gen = 0
                /\ c.secret \in {TypedSecret(j), old.secret}
      BY <2>2, <3>2, <3>3, SavedType
    <3> QED
      BY <3>1, <3>4
  <2>5. TypedSecret(j) # None => TypedSecret(j).account = None
    BY DEF TypedSecret
  <2>6. c # None /\ 1 \in Nat
    BY <2>4, ConnectionFields
  <2> HIDE DEF c, old
  <2>7. /\ c.gen <= env.uids + 1
        /\ c.ident.mode = "oauth" => c.gen # 0
        /\ c.secret # None => c.secret.ident = c.ident
    <3>1. old # None => /\ old.gen \in Nat /\ old.gen <= env.uids
                        /\ old.ident.mode = "oauth" => old.gen # 0
                        /\ old.secret # None => old.secret.ident = old.ident
      BY <2>1, ConnectionFields DEF Sound
    <3> DEFINE n == env.uids
               y == TypedSecret(j)
               k == j.ident
    <3>2. n \in Nat /\ (y # None => y.ident = k)
      BY <2>1, <2>4
    <3>3. c.ident = k
      BY <2>4
    <3>4. /\ c.gen = n + 1 \/ c.gen = 0 \/ (old # None /\ c.gen = old.gen)
          /\ k.mode = "oauth" => \/ c.gen = n + 1
                                 \/ old # None /\ old.ident = k /\ c.gen = old.gen
          /\ c.secret = y \/ (old # None /\ old.ident = k /\ c.secret = old.secret)
      BY <2>4
    <3> HIDE DEF n, y, k
    <3>5. c.gen <= n + 1 /\ (k.mode = "oauth" => c.gen # 0)
      <4> DEFINE g == c.gen
                 h == old.gen
      <4>1. g = n + 1 \/ g = 0 \/ (h \in Nat /\ h <= n /\ g = h)
        BY <3>1, <3>4 DEF n
      <4>2. k.mode = "oauth" => g = n + 1 \/ g # 0
        BY <3>1, <3>4
      <4> HIDE DEF g, h
      <4>3. g <= n + 1 /\ (k.mode = "oauth" => g # 0)
        BY <3>2, <4>1, <4>2
      <4> QED
        BY <4>3 DEF g
    <3>6. c.secret # None => c.secret.ident = k
      BY <3>1, <3>2, <3>4
    <3> QED
      BY <3>3, <3>5, <3>6 DEF n
  <2>8. Fits(c, e)
    BY <2>1, <2>3, <2>4, <2>5 DEF Fits
  <2>9. \/ c.gen = 0
        \/ /\ old # None /\ c.gen = old.gen /\ c.ident = old.ident
           /\ c.secret = old.secret /\ ~ Turns(p, i)
        \/ c.gen = env.uids + 1
    BY <2>1, <2>3, <2>4
  <2> QED
    BY <1>0, <1>2, <2>4, <2>6, <2>7, <2>8, <2>9, ChangeStep DEF old
<1> QED
  BY <1>0, <1>1, <1>2

-----------------------------------------------------------------------------
(* The document is replaced. *)
LEMMA AfterWriteType ==
    ASSUME NEW s \in Process, s.job.kind = "renew" => s.run # None
    PROVE  /\ AfterWrite(s) \in Process /\ AfterWrite(s).pc = "idle"
           /\ AfterWrite(s).store = s.store /\ AfterWrite(s).job = NoJob
           /\ AfterWrite(s).seen = None
           /\ IF s.job.kind = "renew"
              THEN /\ AfterWrite(s).token = s.answer
                   /\ AfterWrite(s).run \in RunConfig
                   /\ AfterWrite(s).run # None
                   /\ AfterWrite(s).run.id = s.run.id
                   /\ AfterWrite(s).run.ident = s.run.ident
                   /\ AfterWrite(s).run.frozen = s.run.frozen
              ELSE SameRun(s, AfterWrite(s))
<1>1. CASE s.job.kind # "renew"
  BY <1>1, EndedType DEF AfterWrite
<1>2. CASE s.job.kind = "renew"
  <2> DEFINE u == Ended(s)
             a == s.answer
             r == [s.run EXCEPT !.ready = TRUE]
  <2>1. /\ u \in Process /\ u.pc = "idle" /\ u.store = s.store /\ u.job = NoJob
        /\ u.seen = None
    BY EndedType
  <2>2. s.run \in RunConfig /\ a \in Secret \cup {None}
    BY <1>2, ProcessFields
  <2>3. /\ r \in RunConfig /\ r # None /\ r.id = s.run.id
        /\ r.ident = s.run.ident /\ r.frozen = s.run.frozen
    BY <2>2 DEF RunConfig
  <2>4. AfterWrite(s) = [u EXCEPT !.token = a, !.run = r] /\ a = s.answer
    BY <1>2 DEF AfterWrite
  <2> HIDE DEF u, r, a
  <2> QED
    BY <1>2, <2>1, <2>2, <2>3, <2>4, ZenonT(60) DEF Process
<1> QED
  BY <1>1, <1>2

LEMMA WriteFacts ==
    ASSUME IInv, NEW p \in Procs, WriteRegistry(p)
    PROVE  /\ procs[p].job.id \in Ids /\ lock = p /\ lock' = None
           /\ file'.state = "saved" /\ file'.conns = procs[p].buf
           /\ \A j \in Ids :
                /\ j # procs[p].job.id => /\ file'.conns[j] = file.conns[j]
                                          /\ epoch'[j] = epoch[j]
                /\ j = procs[p].job.id /\ ~ Turns(p, j) => epoch'[j] = epoch[j]
                /\ j = procs[p].job.id /\ Turns(p, j) =>
                     epoch'[j] = epoch[j] + 1
<1>1. Own(p) /\ procs[p].pc = "write"
  BY Parts DEF WriteRegistry
<1>2. lock = p /\ procs[p].job.id \in Ids /\ WriteKnown(p)
  BY <1>1 DEF Own, CallKnown, WriteKnown
<1>3. \A j \in Ids : epoch'[j] = IF Turns(p, j) THEN epoch[j] + 1 ELSE epoch[j]
  BY DEF WriteRegistry
<1>4. \A j \in Ids : Turns(p, j) => j = procs[p].job.id
  BY DEF Turns
<1>5. file'.conns = procs[p].buf /\ file'.state = "saved"
  BY DEF WriteRegistry
<1> QED
  BY <1>1, <1>2, <1>3, <1>4, <1>5 DEF WriteRegistry, Unlocked, WriteKnown

(* What was frozen or shown before stays a session of its connection. *)
LEMMA SessionStays ==
    ASSUME IInv, NEW p \in Procs, WriteRegistry(p), NEW f \in Connection,
           NEW j \in Ids, \A g : NewGen(g) => f.gen # g,
           SameSession(f, file.conns[j])
    PROVE  /\ SameSession(f, file.conns[j])'
           /\ file'.conns[j] # None /\ file'.conns[j].gen = f.gen /\ f.gen # 0 =>
                /\ file.conns[j] # None /\ file.conns[j].gen = f.gen
                /\ epoch'[j] = epoch[j]
<1>1. WriteKnown(p) /\ procs[p].pc = "write"
  BY Parts DEF WriteRegistry, Own
<1>2. CASE j # procs[p].job.id
  BY <1>2, WriteFacts DEF SameSession
<1>3. CASE j = procs[p].job.id
  <2> DEFINE c == file'.conns[j]
             d == file.conns[j]
  <2>1. c # None => \/ c.gen = 0
                    \/ /\ d # None /\ c.gen = d.gen /\ c.ident = d.ident
                       /\ c.secret = d.secret /\ ~ Turns(p, j)
                    \/ NewGen(c.gen)
    BY <1>1, <1>3, WriteFacts DEF WriteKnown
  <2>2. c # None /\ c.gen = f.gen /\ f.gen # 0 =>
          /\ d # None /\ c.gen = d.gen /\ c.ident = d.ident
          /\ c.secret = d.secret /\ epoch'[j] = epoch[j]
    BY <1>3, <2>1, WriteFacts
  <2> QED
    BY <2>2 DEF SameSession
<1> QED
  BY <1>2, <1>3

LEMMA SeenOverWrite ==
    ASSUME IInv, NEW p \in Procs, WriteRegistry(p), NEW q \in Procs \ {p},
           procs'[q] = procs[q]
    PROVE  SeenKnown(q)'
<1> SUFFICES ASSUME procs[q].seen # None PROVE SeenKnown(q)'
  BY DEF SeenKnown
<1>1. /\ Own(q) /\ procs[q] \in Process /\ UNCHANGED env
      /\ procs[q].seen \in Connection
  BY Parts, ProcessFields DEF WriteRegistry
<1>2. PICK f \in Connection, j \in Ids : f = procs[q].seen /\ j = procs[q].job.id
  BY <1>1 DEF Own, CallKnown
<1>3. /\ Sound(f) /\ f.gen # 0 /\ SameSession(f, file.conns[j])
      /\ \A g : NewGen(g) => f.gen # g
  BY <1>1, <1>2 DEF Own, SeenKnown, NewGen
<1>4. /\ SameSession(f, file.conns[j])'
      /\ file'.conns[j] # None /\ file'.conns[j].gen = f.gen =>
           /\ file.conns[j] # None /\ file.conns[j].gen = f.gen
           /\ epoch'[j] = epoch[j]
  BY <1>3, SessionStays
<1>5. Sound(f)'
  BY <1>1, <1>3 DEF Sound
<1>6. procs'[q].seen = f /\ procs'[q].job.id = j
  BY <1>2
<1>7. file.conns[j] # None /\ file.conns[j].gen = f.gen =>
        epoch[j] = procs[q].begun
  BY <1>1, <1>2 DEF Own, SeenKnown
<1> QED
  BY <1>1, <1>2, <1>3, <1>4, <1>5, <1>6, <1>7 DEF Own, SeenKnown, Fits

(* The run of any process, the writer's included. *)
LEMMA FrozenOverWrite ==
    ASSUME IInv, NEW p \in Procs, WriteRegistry(p), NEW q \in Procs,
           NEW r \in RunConfig, procs[q].run # None,
           r.frozen # None, r.frozen = procs[q].run.frozen,
           r.id = procs[q].run.id
    PROVE  Sound(r.frozen)' /\ SameSession(r.frozen, file.conns[r.id])'
<1>1. Own(q) /\ UNCHANGED env /\ r.frozen \in Connection /\ r.id \in Ids
  BY Parts, RunFields DEF WriteRegistry
<1>2. /\ Sound(r.frozen) /\ SameSession(r.frozen, file.conns[r.id])
      /\ \A g : NewGen(g) => r.frozen.gen # g
  BY <1>1 DEF Own, RunKnown, NewGen
<1>3. SameSession(r.frozen, file.conns[r.id])'
  BY <1>1, <1>2, SessionStays
<1>4. Sound(r.frozen)'
  BY <1>1, <1>2 DEF Sound
<1> QED
  BY <1>3, <1>4

LEMMA OtherOverWrite ==
    ASSUME IInv, NEW p \in Procs, WriteRegistry(p), NEW q \in Procs \ {p},
           procs'[q] = procs[q]
    PROVE  Own(q)'
<1>1. Own(q) /\ procs[q] \in Process /\ lock = p /\ lock' = None
  BY Parts, WriteFacts
<1>2. procs[q].pc \notin {"drop", "look", "write"}
  BY <1>1 DEF Own, CallKnown
<1>3. CallKnown(q)' /\ WriteKnown(q)'
  BY <1>1, <1>2 DEF Own, CallKnown, WriteKnown, Working
<1>4. RunKnown(q)'
  <2> DEFINE r == procs[q].run
  <2>1. r \in RunConfig \cup {None} /\ RunKnown(q)
    BY <1>1, ProcessFields DEF Own
  <2>2. r # None /\ r.frozen # None =>
          \A x \in RunConfig : x = r => Sound(x.frozen)' /\ SameSession(x.frozen, file.conns[x.id])'
    BY FrozenOverWrite
  <2>3. CASE r = None
    BY <2>1, <2>3 DEF RunKnown
  <2>4. CASE r # None
    <3>1. PICK x \in RunConfig : x = r
      BY <2>1, <2>4
    <3>2. x.frozen # None => Sound(x.frozen)' /\ SameSession(x.frozen, file.conns[x.id])'
      BY <2>2, <2>4, <3>1
    <3>3. procs'[q].run = x
      BY <3>1
    <3> QED
      BY <2>1, <2>4, <3>1, <3>2, <3>3 DEF RunKnown
  <2> QED
    BY <2>3, <2>4
<1> QED
  BY <1>3, <1>4, SeenOverWrite DEF Own

LEMMA WriteRegistryStep ==
    ASSUME IInv, NEW p \in Procs, WriteRegistry(p) PROVE IInv' /\ Kept
<1> DEFINE s == procs[p]
           i == procs[p].job.id
           t == AfterWrite(s)
<1>0. /\ TypeOK /\ KeyKnown /\ FileKnown /\ s \in Process /\ s.pc = "write"
      /\ Own(p) /\ UNCHANGED <<keyFile, initLock, env>>
      /\ procs' = [procs EXCEPT ![p] = t]
      /\ file' = [state |-> "saved", key |-> s.store, conns |-> s.buf]
  BY Parts DEF WriteRegistry
<1>1. /\ i \in Ids /\ lock = p /\ lock' = None
      /\ file'.state = "saved" /\ file'.conns = s.buf /\ file'.key = s.store
      /\ \A j \in Ids \ {i} : /\ file'.conns[j] = file.conns[j]
                              /\ epoch'[j] = epoch[j]
  BY <1>0, WriteFacts
<1>2. s.job.kind = "renew" =>
        /\ s.run \in RunConfig /\ s.run # None /\ s.run.id = i
        /\ s.run.ident.mode = "oauth"
        /\ s.run.frozen # None /\ s.run.frozen.gen # 0
        /\ s.run.frozen.secret # None
        /\ s.run.frozen.ident.endpoint = s.run.ident.endpoint
        /\ s.answer = s.run.frozen.secret
        /\ s.answer.ident = s.run.frozen.ident
        /\ s.buf[i] # None /\ s.buf[i].secret = s.answer
  <2> SUFFICES ASSUME s.job.kind = "renew"
               PROVE  /\ s.run \in RunConfig /\ s.run # None /\ s.run.id = i
                      /\ s.run.ident.mode = "oauth"
                      /\ s.run.frozen # None /\ s.run.frozen.gen # 0
                      /\ s.run.frozen.secret # None
                      /\ s.run.frozen.ident.endpoint = s.run.ident.endpoint
                      /\ s.answer = s.run.frozen.secret
                      /\ s.answer.ident = s.run.frozen.ident
                      /\ s.buf[i] # None /\ s.buf[i].secret = s.answer
    OBVIOUS
  <2>1. /\ s.run \in RunConfig /\ s.run # None /\ s.run.id = i
        /\ s.run.ident.mode = "oauth"
    BY <1>0, ProcessFields DEF Own, RunKnown
  <2>2. /\ s.run.frozen # None /\ s.run.frozen.gen # 0
        /\ s.run.frozen.secret # None
        /\ s.run.frozen.ident.endpoint = s.run.ident.endpoint
        /\ s.seen.ident = s.run.frozen.ident
        /\ s.seen.secret = s.run.frozen.secret
    BY <1>0, <2>1 DEF Own, RunKnown
  <2>3. s.seen # None
    BY <1>0 DEF Own, CallKnown
  <2>4. s.answer = s.seen.secret /\ Sound(s.seen) /\ s.seen.secret # None
    BY <1>0, <2>3 DEF Own, SeenKnown
  <2>5. s.buf[i] # None /\ s.buf[i].secret = s.answer
    BY <1>0 DEF Own, WriteKnown
  <2> QED
    BY <2>1, <2>2, <2>4, <2>5 DEF Sound
<1>3. /\ t \in Process /\ t.pc = "idle" /\ t.store = s.store /\ t.job = NoJob
      /\ t.seen = None
      /\ IF s.job.kind = "renew"
         THEN /\ t.token = s.answer /\ t.run \in RunConfig /\ t.run # None
              /\ t.run.id = s.run.id /\ t.run.ident = s.run.ident
              /\ t.run.frozen = s.run.frozen
         ELSE t.run = s.run /\ t.token = s.token
  BY <1>0, <1>2, AfterWriteType DEF SameRun
<1> HIDE DEF t
<1>4. /\ procs' \in [Procs -> Process] /\ procs'[p] = t
      /\ \A q \in Procs \ {p} : procs'[q] = procs[q]
  BY <1>0, <1>3, PutProcess
<1>5. TypeOK'
  <2>1. s.buf \in Registry /\ s.store \in Nat
    BY <1>0, ProcessFields
  <2>2. file' \in Document
    BY <1>0, <2>1 DEF Document
  <2>3. epoch' \in [Ids -> Nat]
    BY <1>0 DEF WriteRegistry, TypeOK
  <2> QED
    BY <1>0, <1>1, <1>4, <2>2, <2>3 DEF TypeOK
<1>6. KeyKnown'
  BY <1>0, <1>1, <1>3, <1>4 DEF KeyKnown
<1>7. FileKnown'
  <2>1. ASSUME NEW j \in Ids, file'.conns[j] # None
        PROVE  Sound(file.conns[j])' /\ Fits(file.conns[j], epoch[j])'
    <3>1. CASE j # i
      BY <1>0, <1>1, <2>1, <3>1 DEF FileKnown, Sound, Fits
    <3>2. CASE j = i
      BY <1>0, <1>1, <2>1, <3>2, WriteFacts DEF Own, WriteKnown, Sound, Fits
    <3> QED
      BY <3>1, <3>2
  <2> QED
    BY <2>1 DEF FileKnown
<1>8. \A q \in Procs \ {p} : Own(q)'
  BY <1>4, OtherOverWrite
<1>9. Own(p)'
  <2>1. CallKnown(p)' /\ SeenKnown(p)' /\ WriteKnown(p)'
    BY <1>1, <1>3, <1>4, NoJobType DEF CallKnown, SeenKnown, WriteKnown, Working
  <2>2. RunKnown(p)'
    <3>1. CASE t.run = None
      BY <1>3, <1>4, <3>1, NoJobType DEF RunKnown
    <3>2. CASE t.run # None
      <4>1. PICK r \in RunConfig : r = t.run
        BY <1>3, <3>2, ProcessFields
      <4>2. /\ s.run # None /\ r.frozen = s.run.frozen /\ r.id = s.run.id
            /\ r.ident = s.run.ident
        BY <1>2, <1>3, <3>2, <4>1
      <4>3. r.frozen # None =>
              Sound(r.frozen)' /\ SameSession(r.frozen, file.conns[r.id])'
        BY <4>2, FrozenOverWrite
      <4>4. r.ident.mode = "oauth" /\ r.ready =>
              /\ r.frozen # None /\ r.frozen.gen # 0 /\ r.frozen.secret # None
              /\ r.frozen.ident.endpoint = r.ident.endpoint
        BY <1>0, <1>2, <1>3, <4>1, <4>2 DEF Own, RunKnown
      <4>5. procs'[p].run = r /\ procs'[p].job.kind = "none"
        BY <1>3, <1>4, <4>1, NoJobType
      <4> QED
        BY <3>2, <4>1, <4>3, <4>4, <4>5 DEF RunKnown
    <3> QED
      BY <3>1, <3>2
  <2> QED
    BY <2>1, <2>2 DEF Own
<1>10. Saves
  BY <1>1 DEF Saves
<1>11. Tokens
  <2>1. ASSUME NEW q \in Procs, procs'[q].token # None, procs[q].token = None
        PROVE  q = p /\ s.job.kind = "renew"
    BY <1>3, <1>4, <2>1
  <2> QED
    BY <1>1, <1>2, <1>3, <1>4, <2>1 DEF Tokens
<1> QED
  BY <1>5, <1>6, <1>7, <1>8, <1>9, <1>10, <1>11 DEF IInv, Kept

-----------------------------------------------------------------------------
(* A damaged document is thrown away; processes and files fail. *)
LEMMA DropInvalidStep ==
    ASSUME IInv, NEW p \in Procs, DropInvalid(p) PROVE IInv' /\ Kept
<1> DEFINE s == procs[p]
           t == Reading(s, "look", Empty)
<1>0. /\ TypeOK /\ KeyKnown /\ s \in Process /\ s.pc = "drop" /\ Own(p)
      /\ UNCHANGED <<keyFile, lock, initLock, env, epoch>>
      /\ procs' = [procs EXCEPT ![p] = t] /\ file' = Missing
  BY Parts DEF DropInvalid
<1>1. /\ t \in Process /\ t.pc = "look" /\ t.store = s.store /\ t.job = s.job
      /\ t.buf = Empty /\ t.seen = s.seen /\ t.begun = s.begun
      /\ t.answer = s.answer /\ t.run = s.run /\ t.token = s.token
  <2>1. "look" \in Pcs /\ Empty \in Registry
    BY PcNames, EmptyType
  <2> QED
    BY <1>0, <2>1, ReadingType DEF SameWait, SameRun
<1> HIDE DEF t
<1>2. /\ procs' \in [Procs -> Process] /\ procs'[p] = t
      /\ \A q \in Procs \ {p} : procs'[q] = procs[q]
  BY <1>0, <1>1, PutProcess
<1>3. /\ file' \in Document /\ file'.state = "missing" /\ file'.conns = Empty
      /\ \A i \in Ids : file'.conns[i] = None
  BY <1>0, EmptyType DEF Missing, Document
<1>4. TypeOK' /\ FileKnown'
  BY <1>0, <1>2, <1>3 DEF TypeOK, FileKnown
<1>5. KeyKnown'
  BY <1>0, <1>1, <1>2, <1>3 DEF KeyKnown
<1>6. lock = p /\ file.state = "damaged"
  BY <1>0 DEF Own, CallKnown
<1>7. ASSUME NEW q \in Procs
      PROVE  Own(q)'
  <2>1. /\ Own(q) /\ procs[q] \in Process
        /\ q # p => procs[q].pc \notin {"drop", "look", "write"}
    BY <1>6, Parts DEF Own, CallKnown
  <2>2. /\ procs'[q].pc = procs[q].pc \/ q = p
        /\ procs'[q].job = procs[q].job /\ procs'[q].seen = procs[q].seen
        /\ procs'[q].begun = procs[q].begun
        /\ procs'[q].answer = procs[q].answer
        /\ procs'[q].run = procs[q].run
        /\ q # p => procs'[q] = procs[q]
    BY <1>1, <1>2
  <2>3. CallKnown(q)'
    BY <1>0, <1>1, <1>2, <1>3, <1>6, <2>1, <2>2 DEF Own, CallKnown, Working
  <2>4. WriteKnown(q)'
    BY <1>1, <1>2, <2>1 DEF WriteKnown
  <2>5. SeenKnown(q)'
    <3> SUFFICES ASSUME procs[q].seen # None PROVE SeenKnown(q)'
      BY <2>2 DEF SeenKnown
    <3>1. PICK i \in Ids : i = procs[q].job.id
      BY <2>1 DEF Own, CallKnown
    <3>2. file'.conns[i] = None
      BY <1>3
    <3>3. procs'[q].pc = "answer" <=> procs[q].pc = "answer"
      BY <1>0, <1>1, <1>2, <2>2
    <3> QED
      BY <1>0, <2>1, <2>2, <3>1, <3>2, <3>3
         DEF Own, SeenKnown, Sound, SameSession, Fits
  <2>6. RunKnown(q)'
    <3>1. procs[q].run # None => procs[q].run.id \in Ids
      BY <2>1, ProcessFields, RunFields
    <3>2. procs[q].run # None => file'.conns[procs[q].run.id] = None
      BY <1>3, <3>1
    <3> QED
      BY <1>0, <2>1, <2>2, <3>2, ZenonT(60) DEF Own, RunKnown, Sound, SameSession
  <2> QED
    BY <2>3, <2>4, <2>5, <2>6 DEF Own
<1>8. Saves /\ Tokens
  BY <1>1, <1>2, <1>3, <1>6 DEF Saves, Tokens
<1> QED
  BY <1>4, <1>5, <1>7, <1>8 DEF IInv, Kept

LEMMA CrashStep ==
    ASSUME IInv, NEW p \in Procs, Crash(p) PROVE IInv' /\ Kept
<1>0. /\ TypeOK /\ KeyKnown /\ procs[p] \in Process
      /\ UNCHANGED <<keyFile, file, epoch>>
      /\ procs' = [procs EXCEPT ![p] = Closed]
  BY Parts DEF Crash
<1>1. /\ procs' \in [Procs -> Process] /\ procs'[p] = Closed
      /\ \A q \in Procs \ {p} : procs'[q] = procs[q]
  BY <1>0, ClosedType, PutProcess
<1>2. env' \in Env /\ env'.uids \in Nat /\ env.uids <= env'.uids
  <2>1. env' = [env EXCEPT !.crashes = @ + 1]
    BY DEF Crash
  <2> QED
    BY <1>0, <2>1, EnvType
<1>3. /\ lock' \in Procs \cup {None} /\ lock' # p
      /\ \A q \in Procs \ {p} : lock' = q <=> lock = q
      /\ initLock' \in Procs \cup {None} /\ initLock' # p
      /\ \A q \in Procs \ {p} : initLock' = q <=> initLock = q
      /\ initLock' # None => initLock # None
  BY <1>0 DEF Crash, Unlocked, TypeOK
<1>4. TypeOK' /\ KeyKnown'
  BY <1>0, <1>1, <1>2, <1>3, ClosedType DEF TypeOK, KeyKnown
<1>5. Own(p)'
  BY <1>0, <1>1, <1>2, <1>3, ClosedType, RestOwn
<1>6. Quiet(procs[p], Closed)
  BY ClosedType DEF Quiet
<1> QED
  BY <1>0, <1>2, <1>3, <1>4, <1>5, <1>6, ClosedType, StepOf

LEMMA DamageStep == ASSUME IInv, Damage PROVE IInv' /\ Kept
<1>0. /\ TypeOK /\ KeyKnown /\ file \in Document /\ file.state = "saved"
      /\ UNCHANGED <<keyFile, lock, initLock, procs, epoch>>
  BY DEF Damage, IInv, TypeOK
<1>1. /\ file' \in Document /\ file'.state = "damaged"
      /\ file'.conns = file.conns
  BY <1>0 DEF Damage, Document
<1>2. env' \in Env /\ env'.uids \in Nat /\ env.uids <= env'.uids
  <2>1. env' = [env EXCEPT !.faults = @ + 1]
    BY DEF Damage
  <2> QED
    BY <1>0, <2>1, EnvType
<1>3. TypeOK' /\ KeyKnown'
  BY <1>0, <1>1, <1>2 DEF TypeOK, KeyKnown
<1>4. FileKnown'
  BY <1>0, <1>1, <1>2, FileKnownStays
<1>5. \A q \in Procs : Own(q)'
  BY <1>0, <1>1, <1>2, OthersKeep DEF Untouched, Quiet
<1>6. Saves /\ Tokens
  BY <1>0, <1>1 DEF Saves, Tokens
<1> QED
  BY <1>3, <1>4, <1>5, <1>6 DEF IInv, Kept

LEMMA LoseKeyStep == ASSUME IInv, LoseKey PROVE IInv' /\ Kept
<1>0. /\ TypeOK /\ KeyKnown /\ keyFile' = 0
      /\ \A q \in Procs : procs[q].pc = "closed"
      /\ UNCHANGED <<file, lock, initLock, procs, epoch>>
  BY DEF LoseKey, IInv
<1>1. env' \in Env /\ env'.uids \in Nat /\ env.uids <= env'.uids
  <2>1. env' = [env EXCEPT !.faults = @ + 1]
    BY DEF LoseKey
  <2> QED
    BY <1>0, <2>1, EnvType
<1>2. TypeOK' /\ KeyKnown'
  BY <1>0, <1>1 DEF TypeOK, KeyKnown
<1>3. FileKnown'
  BY <1>0, <1>1, FileKnownStays
<1>4. \A q \in Procs : Own(q)'
  BY <1>0, <1>1, OthersKeep DEF Untouched, Quiet
<1>5. Tokens
  BY <1>0 DEF Tokens
<1> QED
  BY <1>0, <1>2, <1>3, <1>4, <1>5 DEF IInv, Kept

-----------------------------------------------------------------------------
(* The invariant, and what follows from it. *)
LEMMA InitIInv == Init => IInv
<1> SUFFICES ASSUME Init PROVE IInv
  OBVIOUS
<1>1. /\ \A p \in Procs : procs[p] = Closed
      /\ keyFile = 0 /\ lock = None /\ initLock = None
      /\ file = Missing /\ Missing.state = "missing" /\ Missing.conns = Empty
  BY DEF Init, Missing
<1>2. Missing \in Document
  BY EmptyType DEF Missing, Document
<1>3. TypeOK
  BY <1>2, ClosedType DEF Init, TypeOK, Env
<1>4. KeyKnown /\ FileKnown
  BY <1>1, ClosedType, EmptyType DEF KeyKnown, FileKnown
<1>5. \A p \in Procs : Own(p)
  BY <1>1, ClosedType, NoJobType
     DEF Own, CallKnown, SeenKnown, RunKnown, WriteKnown, Working
<1> QED
  BY <1>3, <1>4, <1>5 DEF IInv

LEMMA VisitStep ==
    ASSUME IInv, NEW p \in Procs, Visit(p) PROVE IInv' /\ Kept
<1>1. CASE GiveUp(p)
  BY <1>1, EndStep DEF GiveUp, Working
<1>2. CASE LookRefresh(p)
  BY <1>2, EndStep DEF LookRefresh, Looking, Working
<1> QED
  BY <1>1, <1>2, LockRegistryStep, DropInvalidStep, LookSaveStep,
     LookDeleteStep, LookClearStep, LookWaitStep, AnswerStep,
     LookSignedInStep, LookStartStep, LookFreezeStep, LookRenewStep,
     WriteRegistryStep DEF Visit

LEMMA BeginStep ==
    ASSUME IInv, NEW p \in Procs, Begin(p) PROVE IInv' /\ Kept
BY OpenStoreStep, FindNoKeyStep, WriteKeyStep, AskAnyStep, EndRunStep,
   CancelStep DEF Begin

LEMMA NextIInv == IInv /\ [Next]_vars => IInv' /\ Kept
<1> SUFFICES ASSUME IInv, [Next]_vars PROVE IInv' /\ Kept
  OBVIOUS
<1>1. CASE UNCHANGED vars
  <2>1. /\ TypeOK /\ KeyKnown /\ env.uids \in Nat
        /\ UNCHANGED <<keyFile, file, lock, initLock, procs, env, epoch>>
    BY <1>1, FileType DEF IInv, vars
  <2>2. env'.uids \in Nat /\ env.uids <= env'.uids
    BY <2>1
  <2>3. TypeOK' /\ KeyKnown'
    BY <2>1 DEF TypeOK, KeyKnown
  <2>4. FileKnown'
    BY <2>1, <2>2, FileKnownStays
  <2>5. \A q \in Procs : Own(q)'
    BY <2>1, <2>2, OthersKeep DEF Untouched, Quiet
  <2>6. Tokens
    BY <2>1 DEF Tokens
  <2> QED
    BY <2>1, <2>3, <2>4, <2>5, <2>6 DEF IInv, Kept
<1>2. CASE Next
  BY <1>2, BeginStep, VisitStep, CrashStep, DamageStep, LoseKeyStep DEF Next
<1> QED
  BY <1>1, <1>2

(* The strengthening that makes the properties inductive: one key for all
   processes, one holder of the lock who has the document as it is on disk,
   and numbers of uid() that name one sign-in each. *)
THEOREM Invariance == Spec => []IInv
<1>1. Init => IInv
  BY InitIInv
<1>2. IInv /\ [Next]_vars => IInv'
  BY NextIInv
<1> QED
  BY <1>1, <1>2, PTL DEF Spec

(* Every variable keeps the shape of the Go types it stands for. *)
THEOREM TypeCorrect == Spec => []TypeOK
<1>1. IInv => TypeOK
  BY DEF IInv
<1> QED
  BY <1>1, Invariance, PTL

(* Whatever processes there are, no answer of a browser or provider that was
   asked before a sign-out, a deletion, a change of identity or another
   sign-in brings credentials back. *)
THEOREM SignOutStands == Spec => []SignOutWins
<1>1. IInv => SignOutWins
  BY DEF IInv, FileKnown, Fits, SignOutWins
<1> QED
  BY <1>1, Invariance, PTL

(* A stored key or session is for the address, tenant and mode beside it. *)
THEOREM CredentialStays == Spec => []CredentialBelongs
<1>1. IInv => CredentialBelongs
  BY DEF IInv, FileKnown, Sound, CredentialBelongs
<1> QED
  BY <1>1, Invariance, PTL

(* No replacement of the document takes back what another process saved, and
   only a damaged one is thrown away. *)
THEOREM UpdatesKept == Spec => NoLostUpdate
<1>1. IInv /\ [Next]_vars =>
        [/\ file'.state = "saved" =>
              \A i, j \in Ids : file'.conns[i] # file.conns[i]
                                /\ file'.conns[j] # file.conns[j] => i = j
         /\ file'.state = "missing" => file.state = "damaged"]_file
  BY NextIInv DEF Kept, Saves
<1> QED
  BY <1>1, Invariance, PTL DEF Spec, NoLostUpdate

(* A token reaches only the run that froze its account, for the address in
   its configuration, while the connection is still signed in with it. *)
THEOREM TokensBelong == Spec => TokensOfTheRun
<1>1. IInv /\ [Next]_vars => Tokens
  BY NextIInv DEF Kept
<1> QED
  BY <1>1, Invariance, PTL DEF Spec, TokensOfTheRun, Tokens
=============================================================================
