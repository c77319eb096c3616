-------------------------- MODULE Workspaces_proofs --------------------------
(***************************************************************************)
(* Proofs about Workspaces for every value of its constants: a process     *)
(* that may edit holds the lock, and with it no write of another process   *)
(* is lost, no deleted workspace returns and no rule changes unseen.       *)
(***************************************************************************)
EXTENDS Workspaces, TLAPS

USE NoneAssumption, BoundAssumption, SettingAssumption DEF Env

-----------------------------------------------------------------------------
(* The inductive invariant: the shapes, which ids were given out, and for
   each process what it holds and knows. *)
Shapes == /\ settings \in [Ids -> Setting \cup {None}]
          /\ trash \in [Ids -> Setting \cup {None}]
          /\ selected \in Ids \cup {None}
          /\ lock \in [Ids -> Procs \cup {None}]
          /\ ruleLock \in [Ids -> [Rules -> Procs \cup {None}]]
          /\ procs \in [Procs -> Process]
          /\ env \in [ops : Nat, faults : Nat, crashes : Nat,
                      made : SUBSET Ids]
Given == \A w \in Ids :
           settings[w] # None \/ trash[w] # None \/ lock[w] # None => w \in env.made

(* The locks of a process are its lease and the one its call just took. *)
LeaseKnown(p) ==
    LET s == procs[p] IN
    /\ s.active = None <=> s.cfg = None
    /\ s.lease = IF s.readOnly THEN None ELSE s.active
    /\ \A w \in Ids : lock[w] = p <=> s.lease = w \/ (s.job.fresh /\ s.job.id = w)
    /\ s.job.fresh => s.lease # s.job.id /\ s.pc \in {"adopt", "write", "select"}

(* Its rule locks are the editor's and those of the call that publishes. *)
RulesKnown(p) ==
    LET s == procs[p] IN
    /\ s.rule = None <=> s.ruleWs = None
    /\ s.rule # None => s.ruleWs = s.lease
    /\ \A w \in Ids, r \in Rules :
         ruleLock[w][r] = p <=>
           \/ s.ruleWs = w /\ s.rule = r
           \/ s.pc = "publish" /\ s.job.id = w /\ r \in s.job.locks

(* What each call works on, and with which lease. *)
CallKnown(p) ==
    LET s == procs[p] IN
    /\ s.pc \in {"idle", "closed"} => s.job = NoJob
    /\ s.pc = "closed" => s = Closed
    /\ s.pc \notin {"idle", "closed"} => s.job.id \in env.made
    /\ s.job.others \subseteq env.made
    /\ s.pc \in {"lock", "publish", "move", "unselect", "rollback"} =>
         s.job.id = s.lease
    /\ s.pc \in {"write", "select"} =>
         \/ s.job.kind = "create" /\ s.job.fresh
         \/ s.job.kind # "create" /\ s.job.id = s.lease /\ ~ s.job.fresh
    /\ s.pc = "write" =>
         s.job.kind \in {"save", "rename", "set", "retarget", "create"}
    /\ s.pc = "adopt" => (s.job.owned <=> s.lease # s.job.id /\ ~ s.job.fresh)
    /\ s.pc \in {"lock", "publish"} =>
         /\ s.job.edits \subseteq s.job.locks
         /\ \A r \in Rules : IF r \in s.job.edits
              THEN s.job.kind = "rules" => s.drafts[s.job.id][r] = s.cfg.rules[r]
              ELSE s.job.rules[r] = s.cfg.rules[r]

(* What a process knows of the setting it may replace. *)
Knows(s, p, stored) == /\ stored # None
                       /\ stored.rules = s.cfg.rules
                       /\ stored = s.cfg \/ stored.by = p
ContentKnown(p) ==
    LET s == procs[p] IN
    /\ s.lease # None => Knows(s, p, IF s.pc \in {"unselect", "rollback"}
                                     THEN trash[s.lease] ELSE settings[s.lease])
    /\ s.pc \in {"unselect", "rollback"} => settings[s.job.id] = None
    /\ s.pc \in {"lease", "adopt"} =>
         s.job.read # None /\ (s.lease = s.job.id => s.job.read = settings[s.job.id])
    /\ s.pc = "select" => /\ s.job.read = settings[s.job.id]
                          /\ s.job.read # None /\ s.job.read.by = p
    /\ s.pc = "write" /\ s.job.kind = "create" =>
         settings[s.job.id] = None /\ trash[s.job.id] = None

Own(p) == LeaseKnown(p) /\ RulesKnown(p) /\ CallKnown(p) /\ ContentKnown(p)

IInv == Shapes /\ Given /\ \A p \in Procs : Own(p)

(* What a step may do to the settings. *)
Overwrites ==
    \A w \in Ids :
      settings[w] # None /\ settings'[w] \notin {None, settings[w]} =>
        LET p == settings'[w].by IN
        settings[w] = procs[p].cfg \/ settings[w].by = p
Returns ==
    \A w \in Ids :
      settings[w] = None /\ settings'[w] # None =>
        \E p \in Procs :
          /\ procs[p].job.id = w
          /\ \/ procs[p].pc = "rollback"
             \/ procs[p].job.kind = "create" /\ trash[w] = None
RuleChanges ==
    \A w \in Ids, r \in Rules :
      LET p == settings'[w].by
          old == settings[w].rules[r]
          new == settings'[w].rules[r]
      IN settings[w] # None /\ settings'[w] \notin {None, settings[w]}
           /\ new # old =>
           /\ ruleLock[w][r] = p
           /\ r \in procs[p].job.edits
           /\ procs[p].job.kind = "rules" =>
                procs[p].drafts[w][r] = old
Kept == Overwrites /\ Returns /\ RuleChanges

LEMMA SettingsKept == ASSUME UNCHANGED settings PROVE Kept
  BY DEF Kept, Overwrites, Returns, RuleChanges

-----------------------------------------------------------------------------
(* Processes and their calls. *)

(* The program counters that a running call may have. *)
Pcs == {"closed", "idle", "read", "lease", "adopt", "lock", "publish", "write",
        "select", "move", "unselect", "rollback"}

(* Everything of a process but its call. *)
Same(s, t) == /\ t.active = s.active /\ t.cfg = s.cfg /\ t.readOnly = s.readOnly
              /\ t.lease = s.lease /\ t.ruleWs = s.ruleWs /\ t.rule = s.rule
              /\ t.drafts = s.drafts

LEMMA ProcessFields ==
    ASSUME NEW s \in Process
    PROVE  /\ s.pc \in Pcs /\ s.active \in Ids \cup {None}
           /\ s.cfg \in Setting \cup {None} /\ s.readOnly \in BOOLEAN
           /\ s.lease \in Ids \cup {None} /\ s.ruleWs \in Ids \cup {None}
           /\ s.rule \in Rules \cup {None} /\ s.drafts \in [Ids -> Package]
           /\ s.job \in Job
  BY DEF Process, Pcs

LEMMA JobFields ==
    ASSUME NEW j \in Job
    PROVE  /\ j.kind \in Kinds /\ j.id \in Ids \cup {None}
           /\ j.read \in Setting \cup {None} /\ j.persist \in BOOLEAN
           /\ j.fresh \in BOOLEAN /\ j.owned \in BOOLEAN /\ j.rules \in Package
           /\ j.locks \in SUBSET Rules /\ j.edits \in SUBSET Rules
           /\ j.others \in SUBSET Ids
  BY DEF Job

LEMMA PcNames ==
    /\ "idle" \in Pcs /\ "read" \in Pcs /\ "lease" \in Pcs /\ "adopt" \in Pcs
    /\ "lock" \in Pcs /\ "publish" \in Pcs /\ "write" \in Pcs
    /\ "select" \in Pcs /\ "move" \in Pcs /\ "unselect" \in Pcs
    /\ "rollback" \in Pcs
  BY DEF Pcs

LEMMA KindNames ==
    /\ "select" \in Kinds /\ "save" \in Kinds /\ "rename" \in Kinds
    /\ "set" \in Kinds /\ "retarget" \in Kinds /\ "create" \in Kinds
    /\ "delete" \in Kinds /\ "rules" \in Kinds /\ "import" \in Kinds
    /\ "unrule" \in Kinds
  BY DEF Kinds

LEMMA PutCall ==
    ASSUME NEW s \in Process, NEW c \in Pcs, NEW j \in Job
    PROVE  /\ Called(s, c, j) \in Process
           /\ Called(s, c, j).pc = c
           /\ Called(s, c, j).job = j
           /\ Same(s, Called(s, c, j))
  BY ZenonT(60) DEF Process, Pcs, Same, Called, Advanced

LEMMA PutPc ==
    ASSUME NEW s \in Process, NEW c \in Pcs
    PROVE  /\ Advanced(s, c) \in Process
           /\ Advanced(s, c).pc = c
           /\ Advanced(s, c).job = s.job
           /\ Same(s, Advanced(s, c))
  BY DEF Process, Pcs, Same, Called, Advanced

LEMMA NoJobType ==
    /\ NoJob \in Job /\ NoJob.fresh = FALSE /\ NoJob.owned = FALSE
    /\ NoJob.kind = "none" /\ NoJob.id = None /\ NoJob.read = None
    /\ NoJob.others = {} /\ NoJob.locks = {} /\ NoJob.edits = {} /\ NoRules \in Package
  BY DEF NoJob, Job, Kinds, NoRules, Package

LEMMA EndedType ==
    ASSUME NEW s \in Process
    PROVE  /\ Ended(s) \in Process /\ Ended(s).pc = "idle"
           /\ Ended(s).job = NoJob /\ Same(s, Ended(s))
  BY PutCall, NoJobType DEF Ended, Pcs

LEMMA ClosedType ==
    /\ Closed \in Process /\ Closed.pc = "closed" /\ Closed.active = None
    /\ Closed.cfg = None /\ Closed.readOnly = FALSE /\ Closed.lease = None
    /\ Closed.ruleWs = None /\ Closed.rule = None /\ Closed.job = NoJob
<1>1. [w \in Ids |-> NoRules] \in [Ids -> Package]
  BY NoJobType
<1> QED
  BY <1>1, NoJobType DEF Closed, Process

LEMMA JobOfType ==
    ASSUME NEW kind \in Kinds, NEW id \in Ids
    PROVE  /\ JobOf(kind, id) \in Job /\ JobOf(kind, id).kind = kind
           /\ JobOf(kind, id).id = id /\ ~ JobOf(kind, id).fresh
           /\ ~ JobOf(kind, id).owned /\ JobOf(kind, id).others = {}
  BY NoJobType DEF JobOf, Job

(* A process is replaced, the others stay. *)
LEMMA PutProcess ==
    ASSUME Shapes, NEW p \in Procs, NEW t \in Process,
           procs' = [procs EXCEPT ![p] = t]
    PROVE  /\ procs' \in [Procs -> Process] /\ procs'[p] = t
           /\ \A q \in Procs \ {p} : procs'[q] = procs[q]
  BY DEF Shapes

LEMMA Parts ==
    ASSUME IInv, NEW p \in Procs
    PROVE  /\ Shapes /\ Given /\ Own(p)
           /\ procs[p] \in Process /\ procs[p].job \in Job
  BY ProcessFields DEF IInv, Shapes

LEMMA MadeAreIds == IInv => env.made \subseteq Ids
  BY DEF IInv, Shapes, Env

-----------------------------------------------------------------------------
(* What no step of another process touches: the locks a process holds and
   the settings they protect. *)
Untouched(q) ==
    /\ procs'[q] = procs[q] /\ env.made \subseteq env'.made
    /\ \A w \in Ids : /\ lock'[w] = q <=> lock[w] = q
                      /\ \A r \in Rules : ruleLock'[w][r] = q <=> ruleLock[w][r] = q
                      /\ lock[w] = q => /\ settings'[w] = settings[w]
                                        /\ trash'[w] = trash[w]

LEMMA OthersKeep ==
    ASSUME IInv, NEW q \in Procs, Untouched(q) PROVE Own(q)'
<1>0. /\ Own(q) /\ procs[q] \in Process /\ procs[q].job \in Job
      /\ procs'[q] = procs[q]
  BY Parts DEF Untouched
<1>1. LeaseKnown(q)'
  BY <1>0 DEF Own, LeaseKnown, Untouched
<1>2. RulesKnown(q)'
  BY <1>0 DEF Own, RulesKnown, Untouched
<1>3. CallKnown(q)'
  BY <1>0 DEF Own, CallKnown, Untouched
<1>4. ContentKnown(q)'
  <2>1. procs[q].lease # None =>
          /\ procs[q].lease \in Ids /\ lock[procs[q].lease] = q
          /\ settings'[procs[q].lease] = settings[procs[q].lease]
          /\ trash'[procs[q].lease] = trash[procs[q].lease]
    BY <1>0, ProcessFields DEF Own, LeaseKnown, Untouched
  <2>2. procs[q].pc \in {"unselect", "rollback", "select", "write"} =>
          /\ procs[q].job.id \in Ids /\ lock[procs[q].job.id] = q
          /\ settings'[procs[q].job.id] = settings[procs[q].job.id]
          /\ trash'[procs[q].job.id] = trash[procs[q].job.id]
    BY <1>0, MadeAreIds DEF Own, LeaseKnown, CallKnown, Untouched
  <2>3. procs[q].pc \in {"lease", "adopt"} => procs[q].job.id # None
    BY <1>0, MadeAreIds DEF Own, CallKnown
  <2> QED
    BY <1>0, <2>1, <2>2, <2>3 DEF Own, ContentKnown, Knows
<1> QED
  BY <1>1, <1>2, <1>3, <1>4 DEF Own

(* A step of one process: what has to be shown of it. *)
LEMMA StepOf ==
    ASSUME IInv, NEW p \in Procs, Shapes', Given', Own(p)',
           \A q \in Procs \ {p} : Untouched(q)
    PROVE  IInv'
  BY OthersKeep DEF IInv

(* A step that changes nothing but the call of a process. *)
LEMMA CallOnly ==
    ASSUME IInv, NEW p \in Procs, NEW t \in Process,
           procs' = [procs EXCEPT ![p] = t], Same(procs[p], t),
           UNCHANGED <<files, locks>>, env' \in Env, env.made \subseteq env'.made,
           ~ procs[p].job.fresh, ~ t.job.fresh,
           procs[p].pc \notin {"publish", "unselect", "rollback"},
           t.pc \notin {"publish", "unselect", "rollback", "select"},
           CallKnown(p)',
           t.pc \in {"lease", "adopt"} =>
             /\ t.job.read # None
             /\ t.lease = t.job.id => t.job.read = settings[t.job.id],
           t.pc = "write" => t.job.kind # "create"
    PROVE  IInv' /\ Kept
<1>0. /\ Shapes /\ Given /\ Own(p) /\ procs[p] \in Process
      /\ UNCHANGED <<settings, trash, selected, lock, ruleLock>>
  BY Parts DEF files, locks
<1>1. /\ procs' \in [Procs -> Process] /\ procs'[p] = t
      /\ \A q \in Procs \ {p} : procs'[q] = procs[q]
  BY <1>0, PutProcess
<1>2. Shapes' /\ Given'
  BY <1>0, <1>1 DEF Shapes, Given, Env
<1>3. LeaseKnown(p)'
  BY <1>0, <1>1 DEF Own, LeaseKnown, Same
<1>4. RulesKnown(p)'
  BY <1>0, <1>1 DEF Own, RulesKnown, Same
<1>5. ContentKnown(p)'
  BY <1>0, <1>1 DEF Own, ContentKnown, Knows, Same
<1>6. \A q \in Procs \ {p} : Untouched(q)
  BY <1>0, <1>1 DEF Untouched
<1> QED
  BY <1>0, <1>2, <1>3, <1>4, <1>5, <1>6, StepOf, SettingsKept DEF Own

-----------------------------------------------------------------------------
(* Opening a workspace. *)

(* A process without a call has no call. *)
LEMMA AtRest ==
    ASSUME IInv, NEW p \in Procs, procs[p].pc \in {"idle", "closed"}
    PROVE  procs[p].job = NoJob /\ ~ procs[p].job.fresh
<1>1. procs[p].job = NoJob
  BY Parts DEF Own, CallKnown
<1> QED
  BY <1>1, NoJobType

LEMMA EnvKept ==
    ASSUME IInv, env' = env \/ env' = [env EXCEPT !.ops = @ + 1]
                   \/ env' = [env EXCEPT !.faults = @ + 1]
                   \/ env' = [env EXCEPT !.crashes = @ + 1]
    PROVE  env' \in Env /\ env'.made = env.made
<1>1. env \in Env
  BY DEF IInv, Shapes
<1> QED
  BY <1>1 DEF Env

LEMMA InitIInv == Init => IInv
<1> SUFFICES ASSUME Init PROVE IInv
  OBVIOUS
<1>1. PICK old \in SUBSET Ids, rules \in Package :
        /\ settings = [w \in Ids |-> IF w \in old
                         THEN [rev |-> 0, rules |-> rules, by |-> None] ELSE None]
        /\ env = [ops |-> 0, faults |-> 0, crashes |-> 0, made |-> old]
        /\ trash = [w \in Ids |-> None]
        /\ selected = None
        /\ lock = [w \in Ids |-> None]
        /\ ruleLock = [w \in Ids |-> [r \in Rules |-> None]]
        /\ procs = [p \in Procs |-> Closed]
  BY ZenonT(60) DEF Init
<1>2. [rev |-> 0, rules |-> rules, by |-> None] \in Setting
  BY DEF Setting
<1>3. Shapes
  BY <1>1, <1>2, ClosedType DEF Shapes, Env
<1>4. Given
  BY <1>1 DEF Given
<1>5. ASSUME NEW p \in Procs PROVE Own(p)
  <2>1. procs[p] = Closed
    BY <1>1
  <2> QED
    BY <1>1, <2>1, ClosedType, NoJobType
       DEF Own, LeaseKnown, RulesKnown, CallKnown, ContentKnown
<1> QED
  BY <1>3, <1>4, <1>5 DEF IInv

(* A call asked for by an idle process that works on its own workspace, or
   only reads. *)
LEMMA AskStep ==
    ASSUME IInv, NEW p \in Procs, NEW j \in Job, NEW c \in Pcs, Ask(p, j, c),
           ~ j.fresh, j.id \in env.made, j.others \subseteq env.made,
           c \in {"read", "lock", "write", "move"},
           c # "read" => j.id = procs[p].lease,
           c = "write" => j.kind \in {"save", "rename", "set", "retarget"},
           c = "lock" =>
             /\ j.edits \subseteq j.locks
             /\ \A r \in Rules : IF r \in j.edits
                  THEN j.kind = "rules" =>
                         procs[p].drafts[j.id][r] = procs[p].cfg.rules[r]
                  ELSE j.rules[r] = procs[p].cfg.rules[r]
    PROVE  IInv' /\ Kept
<1> DEFINE t == Called(procs[p], c, j)
<1>1. /\ procs[p].pc = "idle" /\ procs' = [procs EXCEPT ![p] = t]
      /\ UNCHANGED <<files, locks>>
  BY DEF Ask, Doing
<1>2. t \in Process /\ t.pc = c /\ t.job = j /\ Same(procs[p], t)
  BY Parts, PutCall
<1>3. env' \in Env /\ env.made \subseteq env'.made
  BY EnvKept DEF Ask
<1> HIDE DEF t
<1>4. procs'[p] = t
  BY <1>1, <1>2, Parts, PutProcess
<1>5. CallKnown(p)'
  BY <1>2, <1>3, <1>4 DEF CallKnown, Same
<1> QED
  BY <1>1, <1>2, <1>3, <1>5, AtRest, CallOnly

LEMMA StartStep ==
    ASSUME IInv, NEW p \in Procs, Start(p) PROVE IInv' /\ Kept
<1>0. /\ procs[p].pc = "closed" /\ UNCHANGED <<files, locks>>
      /\ env' \in Env /\ env.made \subseteq env'.made
  BY EnvKept DEF Start, Doing
<1>1. CASE Goto(p, "idle")
  <2> DEFINE t == Advanced(procs[p], "idle")
  <2>1. /\ t \in Process /\ t.pc = "idle" /\ t.job = NoJob
        /\ Same(procs[p], t)
    BY <1>0, Parts, PutPc, AtRest DEF Pcs
  <2>2. procs' = [procs EXCEPT ![p] = t]
    BY <1>1 DEF Goto
  <2> HIDE DEF t
  <2>3. procs'[p] = t
    BY <2>1, <2>2, Parts, PutProcess
  <2>4. CallKnown(p)'
    BY <2>1, <2>3, NoJobType DEF CallKnown
  <2> QED
    BY <1>0, <2>1, <2>2, <2>4, AtRest, NoJobType, CallOnly
<1>2. ASSUME NEW w \in Existing,
             procs' = [procs EXCEPT ![p] = Called(@, "read", JobOf("select", w))]
      PROVE  IInv' /\ Kept
  <2> DEFINE j == JobOf("select", w)
             t == Called(procs[p], "read", j)
  <2>1. j \in Job /\ ~ j.fresh /\ j.id \in env.made /\ j.others = {}
    BY JobOfType, KindNames, Parts DEF Existing, Given
  <2> HIDE DEF j
  <2>2. t \in Process /\ t.pc = "read" /\ t.job = j /\ Same(procs[p], t)
    BY <2>1, Parts, PutCall, PcNames
  <2>3. procs' = [procs EXCEPT ![p] = t]
    BY <1>2 DEF j
  <2> HIDE DEF t
  <2>4. procs'[p] = t
    BY <2>2, <2>3, Parts, PutProcess
  <2>5. CallKnown(p)'
    BY <1>0, <2>1, <2>2, <2>4 DEF CallKnown
  <2> QED
    BY <1>0, <2>1, <2>2, <2>3, <2>5, AtRest, CallOnly
<1> QED
  BY <1>1, <1>2 DEF Start

LEMMA ReadSettingStep ==
    ASSUME IInv, NEW p \in Procs, ReadSetting(p) PROVE IInv' /\ Kept
<1> DEFINE s == procs[p]
           id == procs[p].job.id
<1>0. /\ s.pc = "read" /\ UNCHANGED <<files, locks>>
      /\ env' \in Env /\ env.made \subseteq env'.made
  BY EnvKept DEF ReadSetting, Doing
<1>1. /\ s \in Process /\ s.job \in Job /\ id \in Ids /\ id \in env.made
      /\ ~ s.job.fresh /\ s.job.others \subseteq env.made
      /\ settings[id] \in Setting \cup {None}
  BY <1>0, Parts, MadeAreIds DEF Own, CallKnown, LeaseKnown, Shapes
<1>2. CASE settings[id] = None
  <2> DEFINE t == Ended(s)
  <2>1. procs' = [procs EXCEPT ![p] = t]
    BY <1>2 DEF ReadSetting, Target
  <2>2. t \in Process /\ t.pc = "idle" /\ t.job = NoJob /\ Same(s, t)
    BY <1>1, EndedType
  <2> HIDE DEF t
  <2>3. procs'[p] = t
    BY <2>1, <2>2, Parts, PutProcess
  <2>4. CallKnown(p)'
    BY <2>2, <2>3, NoJobType DEF CallKnown
  <2> QED
    BY <1>0, <1>1, <2>1, <2>2, <2>4, NoJobType, CallOnly
<1>3. CASE settings[id] # None
  <2> DEFINE j == [s.job EXCEPT !.read = settings[id]]
             t == Called(s, "lease", j)
  <2>1. /\ j \in Job /\ j.read = settings[id] /\ j.id = id /\ ~ j.fresh
        /\ j.others = s.job.others
    BY <1>1 DEF Job
  <2>2. procs' = [procs EXCEPT ![p] = t]
    BY <1>3 DEF ReadSetting, Target
  <2> HIDE DEF j
  <2>3. t \in Process /\ t.pc = "lease" /\ t.job = j /\ Same(s, t)
    <3>1. j \in Job /\ s \in Process /\ "lease" \in Pcs
      BY <1>1, <2>1, PcNames
    <3> QED
      BY <3>1, PutCall
  <2> HIDE DEF t
  <2>4. procs'[p] = t
    BY <2>2, <2>3, Parts, PutProcess
  <2>5. CallKnown(p)'
    BY <1>0, <1>1, <2>1, <2>3, <2>4 DEF CallKnown
  <2> QED
    BY <1>0, <1>1, <1>3, <2>1, <2>2, <2>3, <2>5, CallOnly
<1> QED
  BY <1>2, <1>3
(* The lease: a free lock is taken, a busy one is left. *)
LEMMA TakeLeaseStep ==
    ASSUME IInv, NEW p \in Procs, TakeLease(p) PROVE IInv' /\ Kept
<1> DEFINE s == procs[p]
           id == procs[p].job.id
           own == procs[p].lease = id
           free == lock[id] = None
           j == [s.job EXCEPT !.fresh = ~ own /\ free, !.owned = ~ own /\ ~ free]
           t == Called(s, "adopt", j)
<1>0. /\ Shapes /\ Given /\ Own(p) /\ s \in Process /\ s.job \in Job
      /\ s.pc = "lease" /\ id \in env.made /\ id \in Ids
      /\ UNCHANGED <<settings, trash, selected, ruleLock, env>>
  BY Parts, MadeAreIds DEF TakeLease, Doing, files, Own, CallKnown
<1>1. /\ j \in Job /\ j.id = id /\ (j.fresh <=> ~ own /\ free)
      /\ (j.owned <=> ~ own /\ ~ free)
      /\ j.read = s.job.read /\ j.others = s.job.others
  BY <1>0 DEF Job
<1>2. /\ procs' = [procs EXCEPT ![p] = t]
      /\ lock' = IF ~ own /\ free THEN [lock EXCEPT ![id] = p] ELSE lock
  BY DEF TakeLease, Target, LockFree
<1> HIDE DEF j
<1>3. t \in Process /\ t.pc = "adopt" /\ t.job = j /\ Same(s, t)
  <2>1. j \in Job /\ s \in Process /\ "adopt" \in Pcs
    BY <1>0, <1>1, PcNames
  <2> QED
    BY <2>1, PutCall
<1> HIDE DEF t
<1>4. /\ procs' \in [Procs -> Process] /\ procs'[p] = t
      /\ \A q \in Procs \ {p} : procs'[q] = procs[q]
  BY <1>0, <1>2, <1>3, PutProcess
<1>5. /\ lock' \in [Ids -> Procs \cup {None}]
      /\ \A w \in Ids : lock'[w] = IF w = id /\ ~ own /\ free THEN p ELSE lock[w]
  BY <1>0, <1>2 DEF Shapes
<1>6. Shapes' /\ Given'
  BY <1>0, <1>4, <1>5 DEF Shapes, Given
<1>7. LeaseKnown(p)'
  <2>1. LeaseKnown(p) /\ ~ s.job.fresh
    BY <1>0 DEF Own, LeaseKnown
  <2>2. \A w \in Ids : lock'[w] = p <=> t.lease = w \/ (t.job.fresh /\ t.job.id = w)
    BY <1>1, <1>3, <1>5, <2>1 DEF LeaseKnown, Same
  <2> QED
    BY <1>1, <1>3, <1>4, <2>1, <2>2 DEF LeaseKnown, Same
<1>8. RulesKnown(p)'
  BY <1>0, <1>3, <1>4 DEF Own, RulesKnown, Same
<1>9. CallKnown(p)'
  BY <1>0, <1>1, <1>3, <1>4 DEF Own, CallKnown, Same
<1>10. ContentKnown(p)'
  BY <1>0, <1>1, <1>3, <1>4 DEF Own, ContentKnown, Knows, Same
<1>11. \A q \in Procs \ {p} : Untouched(q)
  BY <1>0, <1>4, <1>5 DEF Untouched
<1> QED
  BY <1>0, <1>6, <1>7, <1>8, <1>9, <1>10, <1>11, StepOf, SettingsKept DEF Own
-----------------------------------------------------------------------------
(* Giving locks back. *)

LEMMA NoRuleType ==
    ASSUME NEW s \in Process
    PROVE  /\ NoRule(s) \in Process /\ NoRule(s).ruleWs = None
           /\ NoRule(s).rule = None /\ NoRule(s).pc = s.pc
           /\ NoRule(s).job = s.job /\ NoRule(s).active = s.active
           /\ NoRule(s).cfg = s.cfg /\ NoRule(s).readOnly = s.readOnly
           /\ NoRule(s).lease = s.lease /\ NoRule(s).drafts = s.drafts
  BY DEF NoRule, Process

LEMMA LeasedType ==
    ASSUME NEW s \in Process, NEW l \in Ids \cup {None}
    PROVE  /\ Leased(s, l) \in Process /\ Leased(s, l).lease = l
           /\ Leased(s, l).pc = s.pc /\ Leased(s, l).job = s.job
           /\ Leased(s, l).active = s.active /\ Leased(s, l).cfg = s.cfg
           /\ Leased(s, l).readOnly = s.readOnly
           /\ Leased(s, l).ruleWs = s.ruleWs /\ Leased(s, l).rule = s.rule
           /\ Leased(s, l).drafts = s.drafts
  BY DEF Leased, Process

LEMMA ShowingType ==
    ASSUME NEW s \in Process, NEW id \in Ids, NEW c \in Setting, NEW ro \in BOOLEAN
    PROVE  /\ Showing(s, id, c, ro) \in Process
           /\ Showing(s, id, c, ro).pc = "idle"
           /\ Showing(s, id, c, ro).job = NoJob
           /\ Showing(s, id, c, ro).active = id
           /\ Showing(s, id, c, ro).cfg = c
           /\ Showing(s, id, c, ro).readOnly = ro
           /\ Showing(s, id, c, ro).lease = s.lease
           /\ Showing(s, id, c, ro).ruleWs = s.ruleWs
           /\ Showing(s, id, c, ro).rule = s.rule
           /\ Showing(s, id, c, ro).drafts = s.drafts
<1>1. /\ Ended(s) \in Process /\ Ended(s).pc = "idle"
      /\ Ended(s).job = NoJob /\ Same(s, Ended(s))
  BY EndedType
<1> QED
  BY <1>1 DEF Showing, Process, Same

(* The editor's rule lease is free again, all others stay. *)
LEMMA WithoutRuleValue ==
    ASSUME IInv, NEW p \in Procs
    PROVE  /\ WithoutRule(p) \in [Ids -> [Rules -> Procs \cup {None}]]
           /\ \A w \in Ids, r \in Rules :
                WithoutRule(p)[w][r] = IF procs[p].ruleWs = w /\ procs[p].rule = r
                                       THEN None ELSE ruleLock[w][r]
           /\ \A q \in Procs \ {p}, w \in Ids, r \in Rules :
                WithoutRule(p)[w][r] = q <=> ruleLock[w][r] = q
           /\ procs[p].pc # "publish" =>
                \A w \in Ids, r \in Rules : WithoutRule(p)[w][r] # p
<1> DEFINE s == procs[p]
<1>0. /\ ruleLock \in [Ids -> [Rules -> Procs \cup {None}]]
      /\ RulesKnown(p) /\ s \in Process
      /\ s.ruleWs \in Ids \cup {None} /\ s.rule \in Rules \cup {None}
  BY Parts, ProcessFields DEF Shapes, Own
<1>1. /\ WithoutRule(p) \in [Ids -> [Rules -> Procs \cup {None}]]
      /\ \A w \in Ids, r \in Rules :
           WithoutRule(p)[w][r] = IF s.ruleWs = w /\ s.rule = r
                                  THEN None ELSE ruleLock[w][r]
  <2>1. CASE s.rule = None
    BY <1>0, <2>1 DEF WithoutRule
  <2>2. CASE s.rule # None
    <3>1. s.ruleWs \in Ids /\ s.rule \in Rules
      BY <1>0, <2>2 DEF RulesKnown
    <3>2. WithoutRule(p) = [ruleLock EXCEPT ![s.ruleWs] =
                              [ruleLock[s.ruleWs] EXCEPT ![s.rule] = None]]
      BY <2>2 DEF WithoutRule
    <3>3. [ruleLock[s.ruleWs] EXCEPT ![s.rule] = None] \in [Rules -> Procs \cup {None}]
      BY <1>0, <3>1
    <3> QED
      BY <1>0, <3>1, <3>2, <3>3
  <2> QED
    BY <2>1, <2>2
<1>2. \A q \in Procs \ {p}, w \in Ids, r \in Rules :
        WithoutRule(p)[w][r] = q <=> ruleLock[w][r] = q
  BY <1>0, <1>1 DEF RulesKnown
<1>3. s.pc # "publish" => \A w \in Ids, r \in Rules : WithoutRule(p)[w][r] # p
  BY <1>0, <1>1 DEF RulesKnown
<1> QED
  BY <1>1, <1>2, <1>3

(* A call that ends without the lease it took. *)
LEMMA GiveBackStep ==
    ASSUME IInv, NEW p \in Procs, procs[p].pc \in {"adopt", "write", "select"},
           NotAdopted(p), UNCHANGED <<settings, trash, ruleLock>>,
           selected' \in Ids \cup {None},
           env' \in Env, env'.made = env.made
    PROVE  IInv'
<1> DEFINE s == procs[p]
           id == procs[p].job.id
           t == Ended(s)
<1>0. /\ Shapes /\ Given /\ Own(p) /\ s \in Process /\ s.job \in Job
      /\ id \in env.made /\ id \in Ids
  BY Parts, MadeAreIds DEF Own, CallKnown
<1>1. /\ procs' = [procs EXCEPT ![p] = t]
      /\ lock' = IF s.job.fresh THEN [lock EXCEPT ![id] = None] ELSE lock
  BY DEF NotAdopted, GiveBack, Target
<1>2. t \in Process /\ t.pc = "idle" /\ t.job = NoJob /\ Same(s, t)
  BY <1>0, EndedType
<1> HIDE DEF t
<1>3. /\ procs' \in [Procs -> Process] /\ procs'[p] = t
      /\ \A q \in Procs \ {p} : procs'[q] = procs[q]
  BY <1>0, <1>1, <1>2, PutProcess
<1>4. /\ lock' \in [Ids -> Procs \cup {None}]
      /\ \A w \in Ids : lock'[w] = IF w = id /\ s.job.fresh THEN None ELSE lock[w]
  BY <1>0, <1>1 DEF Shapes
<1>5. Shapes' /\ Given'
  BY <1>0, <1>3, <1>4 DEF Shapes, Given
<1>6. LeaseKnown(p)'
  <2>1. LeaseKnown(p) /\ ~ t.job.fresh
    BY <1>0, <1>2, NoJobType DEF Own
  <2>2. \A w \in Ids : lock'[w] = p <=> t.lease = w
    BY <1>2, <1>4, <2>1 DEF LeaseKnown, Same
  <2> QED
    BY <1>2, <1>3, <2>1, <2>2 DEF LeaseKnown, Same
<1>7. RulesKnown(p)'
  BY <1>0, <1>2, <1>3 DEF Own, RulesKnown, Same
<1>8. CallKnown(p)'
  BY <1>2, <1>3, NoJobType DEF CallKnown
<1>9. ContentKnown(p)'
  BY <1>0, <1>2, <1>3 DEF Own, ContentKnown, Knows, Same
<1>10. \A q \in Procs \ {p} : Untouched(q)
  <2>1. s.job.fresh => lock[id] = p
    BY <1>0 DEF Own, LeaseKnown
  <2> QED
    BY <1>0, <1>3, <1>4, <2>1 DEF Untouched
<1> QED
  BY <1>5, <1>6, <1>7, <1>8, <1>9, <1>10, StepOf DEF Own

(* A call that ends with another workspace shown, leased or for reading. *)
LEMMA AdoptLeaseStep ==
    ASSUME IInv, NEW p \in Procs, procs[p].pc \in {"adopt", "select"},
           NEW c \in Setting, NEW ro \in BOOLEAN, NEW lease,
           lease = IF ro THEN None ELSE procs[p].job.id,
           AdoptLease(p, procs[p].job.id, lease,
                      Showing(procs[p], procs[p].job.id, c, ro)),
           ro => procs[p].lease # procs[p].job.id /\ ~ procs[p].job.fresh,
           ~ ro => lock[procs[p].job.id] = p /\ c = settings[procs[p].job.id],
           UNCHANGED <<settings, trash>>, selected' \in Ids \cup {None},
           env' \in Env, env'.made = env.made
    PROVE  IInv'
<1> DEFINE s == procs[p]
           id == procs[p].job.id
           u == Showing(s, id, c, ro)
           t == IF s.lease # id THEN Leased(NoRule(u), lease) ELSE Leased(u, lease)
<1>0. /\ Shapes /\ Given /\ Own(p) /\ s \in Process /\ s.job \in Job
      /\ id \in env.made /\ id \in Ids /\ lease \in Ids \cup {None}
      /\ s.lease \in Ids \cup {None}
  BY Parts, MadeAreIds, ProcessFields DEF Own, CallKnown
<1>1. /\ procs' = [procs EXCEPT ![p] = t]
      /\ ruleLock' = IF s.lease # id THEN WithoutRule(p) ELSE ruleLock
      /\ lock' = IF s.lease \in {None, lease} THEN lock
                 ELSE [lock EXCEPT ![s.lease] = None]
  BY DEF AdoptLease, LeaseMoves
<1>2. /\ t \in Process /\ t.pc = "idle" /\ t.job = NoJob /\ t.active = id
      /\ t.cfg = c /\ t.readOnly = ro /\ t.lease = lease
      /\ IF s.lease # id THEN t.rule = None /\ t.ruleWs = None
                         ELSE t.rule = s.rule /\ t.ruleWs = s.ruleWs
  <2>1. /\ u \in Process /\ u.pc = "idle" /\ u.job = NoJob /\ u.active = id
        /\ u.cfg = c /\ u.readOnly = ro /\ u.ruleWs = s.ruleWs /\ u.rule = s.rule
    BY <1>0, ShowingType
  <2> HIDE DEF u
  <2>2. CASE s.lease # id
    <3> DEFINE v == NoRule(u)
    <3>1. /\ v \in Process /\ v.pc = "idle" /\ v.job = NoJob /\ v.active = id
          /\ v.cfg = c /\ v.readOnly = ro /\ v.ruleWs = None /\ v.rule = None
      BY <2>1, NoRuleType
    <3>2. t = Leased(v, lease)
      BY <2>2
    <3> HIDE DEF v, t
    <3>3. /\ Leased(v, lease) \in Process /\ Leased(v, lease).lease = lease
          /\ Leased(v, lease).pc = v.pc /\ Leased(v, lease).job = v.job
          /\ Leased(v, lease).active = v.active /\ Leased(v, lease).cfg = v.cfg
          /\ Leased(v, lease).ruleWs = v.ruleWs /\ Leased(v, lease).rule = v.rule
          /\ Leased(v, lease).readOnly = v.readOnly
      <4>1. v \in Process /\ lease \in Ids \cup {None}
        BY <1>0, <3>1
      <4> QED
        BY <4>1, LeasedType
    <3> QED
      BY <2>2, <3>1, <3>2, <3>3
  <2>3. CASE s.lease = id
    BY <1>0, <2>1, <2>3, LeasedType, ZenonT(60)
  <2> QED
    BY <2>2, <2>3
<1> HIDE DEF t, u
<1>3. /\ procs' \in [Procs -> Process] /\ procs'[p] = t
      /\ \A q \in Procs \ {p} : procs'[q] = procs[q]
  BY <1>0, <1>1, <1>2, PutProcess
<1>4. /\ lock' \in [Ids -> Procs \cup {None}]
      /\ \A w \in Ids : lock'[w] = IF w = s.lease /\ s.lease # lease
                                   THEN None ELSE lock[w]
  BY <1>0, <1>1 DEF Shapes
<1>5. /\ ruleLock' \in [Ids -> [Rules -> Procs \cup {None}]]
      /\ \A q \in Procs \ {p}, w \in Ids, r \in Rules :
           ruleLock'[w][r] = q <=> ruleLock[w][r] = q
      /\ s.lease # id => \A w \in Ids, r \in Rules : ruleLock'[w][r] # p
      /\ s.lease = id => ruleLock' = ruleLock
  <2>1. CASE s.lease # id
    <3>1. ruleLock' = WithoutRule(p) /\ s.pc # "publish"
      BY <1>1, <2>1
    <3> QED
      BY <2>1, <3>1, WithoutRuleValue
  <2>2. CASE s.lease = id
    <3>1. ruleLock' = ruleLock
      BY <1>1, <2>2
    <3> QED
      BY <1>0, <2>2, <3>1 DEF Shapes
  <2> QED
    BY <2>1, <2>2
<1>6. Shapes' /\ Given'
  BY <1>0, <1>3, <1>4, <1>5 DEF Shapes, Given
<1>7. LeaseKnown(p)'
  <2>1. LeaseKnown(p) /\ ~ t.job.fresh
    BY <1>0, <1>2, NoJobType DEF Own
  <2>2. \A w \in Ids : lock'[w] = p <=> t.lease = w
    BY <1>0, <1>2, <1>4, <2>1 DEF LeaseKnown
  <2> QED
    BY <1>0, <1>2, <1>3, <2>1, <2>2 DEF LeaseKnown
<1>8. RulesKnown(p)'
  BY <1>0, <1>2, <1>3, <1>5 DEF Own, RulesKnown
<1>9. CallKnown(p)'
  BY <1>2, <1>3, NoJobType DEF CallKnown
<1>10. ContentKnown(p)'
  BY <1>0, <1>2, <1>3 DEF ContentKnown, Knows
<1>11. \A q \in Procs \ {p} : Untouched(q)
  <2>1. s.lease # None => lock[s.lease] = p
    BY <1>0 DEF Own, LeaseKnown
  <2> QED
    BY <1>0, <1>3, <1>4, <1>5, <2>1 DEF Untouched
<1> QED
  BY <1>6, <1>7, <1>8, <1>9, <1>10, <1>11, StepOf DEF Own
LEMMA FaultEnv == ASSUME IInv, Fault PROVE env' \in Env /\ env'.made = env.made
  BY EnvKept DEF Fault

LEMMA AdoptStep ==
    ASSUME IInv, NEW p \in Procs, Adopt(p) PROVE IInv' /\ Kept
<1> DEFINE s == procs[p]
           id == procs[p].job.id
           now == ReadAgain(p)
           lease == IF s.job.owned THEN None ELSE id
<1>0. /\ Shapes /\ Own(p) /\ s \in Process /\ s.job \in Job
      /\ s.pc = "adopt" /\ id \in Ids /\ env \in Env
      /\ UNCHANGED <<settings, trash>>
  BY Parts, MadeAreIds DEF Adopt, Doing, Own, CallKnown, Shapes
<1>1. now \in Setting \cup {None}
  BY <1>0, JobFields DEF ReadAgain, Target, Shapes
<1>2. CASE /\ now # None
           /\ selected' = IF s.job.persist THEN id ELSE selected
           /\ AdoptLease(p, id, lease, Showing(s, id, now, s.job.owned))
           /\ UNCHANGED env
  <2>1. s.job.owned \in BOOLEAN /\ s.job.fresh \in BOOLEAN
    BY <1>0, JobFields
  <2>2. s.job.owned => s.lease # id /\ ~ s.job.fresh
    BY <1>0 DEF Own, CallKnown
  <2>3. ~ s.job.owned => lock[id] = p
    BY <1>0 DEF Own, CallKnown, LeaseKnown
  <2>4. ~ s.job.owned => now = settings[id]
    BY <1>0 DEF Own, CallKnown, ContentKnown, ReadAgain, Target
  <2>5. selected' \in Ids \cup {None}
    BY <1>0, <1>2 DEF Shapes
  <2>6. now \in Setting /\ lease = IF s.job.owned THEN None ELSE id
    BY <1>1, <1>2
  <2> HIDE DEF now, lease
  <2>7. IInv'
    BY <1>0, <1>2, <2>1, <2>2, <2>3, <2>4, <2>5, <2>6, AdoptLeaseStep
  <2> QED
    BY <1>0, <2>7, SettingsKept
<1>3. CASE NotAdopted(p) /\ UNCHANGED <<selected, ruleLock, env>>
  BY <1>0, <1>3, GiveBackStep, SettingsKept DEF Shapes
<1>4. CASE Fault /\ NotAdopted(p) /\ UNCHANGED <<selected, ruleLock>>
  BY <1>0, <1>4, GiveBackStep, SettingsKept, FaultEnv DEF Shapes
<1> QED
  BY <1>2, <1>3, <1>4 DEF Adopt, Target

(* The selection after a write. *)
LEMMA WriteSelectedStep ==
    ASSUME IInv, NEW p \in Procs, WriteSelected(p) PROVE IInv' /\ Kept
<1> DEFINE s == procs[p]
           id == procs[p].job.id
<1>0. /\ Shapes /\ Own(p) /\ s \in Process /\ s.job \in Job
      /\ s.pc = "select" /\ id \in Ids /\ env \in Env
      /\ UNCHANGED <<settings, trash>>
  BY Parts, MadeAreIds DEF WriteSelected, Doing, Own, CallKnown, Shapes
<1>1. CASE /\ selected' = id
           /\ AdoptLease(p, id, id, Showing(s, id, s.job.read, FALSE))
           /\ UNCHANGED env
  <2>1. lock[id] = p
    BY <1>0 DEF Own, CallKnown, LeaseKnown
  <2>2. s.job.read \in Setting /\ s.job.read = settings[id]
    BY <1>0, JobFields DEF Own, ContentKnown
  <2>3. FALSE \in BOOLEAN /\ id = IF FALSE THEN None ELSE id
    OBVIOUS
  <2>4. IInv'
    BY <1>0, <1>1, <2>1, <2>2, <2>3, AdoptLeaseStep
  <2> QED
    BY <1>0, <2>4, SettingsKept
<1>2. CASE Fault /\ NotAdopted(p) /\ UNCHANGED <<selected, ruleLock>>
  BY <1>0, <1>2, GiveBackStep, SettingsKept, FaultEnv DEF Shapes
<1> QED
  BY <1>1, <1>2 DEF WriteSelected, Target

(* Creating: the lock of a new id. *)
LEMMA CreateStep ==
    ASSUME IInv, NEW p \in Procs, procs[p].pc = "idle", NEW rules \in Package,
           Create(p, rules)
    PROVE  IInv' /\ Kept
<1> DEFINE s == procs[p]
<1>1. PICK w \in Ids \ env.made :
        /\ env' = [env EXCEPT !.ops = @ + 1, !.made = @ \cup {w}]
        /\ lock' = [lock EXCEPT ![w] = p]
        /\ procs' = [procs EXCEPT ![p] = Called(@, "write",
             [JobOf("create", w) EXCEPT !.fresh = TRUE, !.rules = rules])]
  BY DEF Create
<1> DEFINE j == [JobOf("create", w) EXCEPT !.fresh = TRUE, !.rules = rules]
           t == Called(s, "write", j)
<1>0. /\ Shapes /\ Given /\ Own(p) /\ s \in Process
      /\ s.job = NoJob /\ ~ s.job.fresh
      /\ UNCHANGED <<settings, trash, selected, ruleLock>>
  BY Parts, AtRest DEF Create, files
<1>2. /\ j \in Job /\ j.kind = "create" /\ j.id = w /\ j.fresh /\ j.others = {}
  <2>1. /\ JobOf("create", w) \in Job /\ JobOf("create", w).kind = "create"
        /\ JobOf("create", w).id = w /\ JobOf("create", w).others = {}
    BY JobOfType, KindNames
  <2> QED
    BY <2>1 DEF Job
<1> HIDE DEF j
<1>3. t \in Process /\ t.pc = "write" /\ t.job = j /\ Same(s, t)
  <2>1. s \in Process /\ j \in Job /\ "write" \in Pcs
    BY <1>0, <1>2, PcNames
  <2> QED
    BY <2>1, PutCall
<1>4. procs' = [procs EXCEPT ![p] = t]
  BY <1>1 DEF j
<1> HIDE DEF t
<1>5. /\ procs' \in [Procs -> Process] /\ procs'[p] = t
      /\ \A q \in Procs \ {p} : procs'[q] = procs[q]
  BY <1>0, <1>3, <1>4, PutProcess
<1>6. /\ lock' \in [Ids -> Procs \cup {None}]
      /\ \A v \in Ids : lock'[v] = IF v = w THEN p ELSE lock[v]
      /\ lock[w] = None /\ settings[w] = None /\ trash[w] = None
  BY <1>0, <1>1 DEF Shapes, Given
<1>7. env' \in Env /\ env'.made = env.made \cup {w}
  <2>1. env \in Env /\ env.ops + 1 \in Nat /\ env.made \cup {w} \in SUBSET Ids
    BY <1>0 DEF Shapes
  <2> QED
    BY <1>1, <2>1
<1>8. Shapes' /\ Given'
  BY <1>0, <1>5, <1>6, <1>7 DEF Shapes, Given
<1>9. LeaseKnown(p)'
  <2>1. LeaseKnown(p) /\ s.lease # w
    BY <1>0, <1>6 DEF Own, LeaseKnown
  <2>2. \A v \in Ids : lock'[v] = p <=> t.lease = v \/ (t.job.fresh /\ t.job.id = v)
    BY <1>0, <1>2, <1>3, <1>6, <2>1 DEF LeaseKnown, Same
  <2> QED
    BY <1>2, <1>3, <1>5, <2>1, <2>2 DEF LeaseKnown, Same
<1>10. RulesKnown(p)'
  BY <1>0, <1>3, <1>5 DEF Own, RulesKnown, Same
<1>11. CallKnown(p)'
  BY <1>2, <1>3, <1>5, <1>7 DEF CallKnown
<1>12. ContentKnown(p)'
  BY <1>0, <1>2, <1>3, <1>5, <1>6 DEF Own, ContentKnown, Knows, Same
<1>13. \A q \in Procs \ {p} : Untouched(q)
  BY <1>0, <1>5, <1>6, <1>7 DEF Untouched
<1> QED
  BY <1>0, <1>8, <1>9, <1>10, <1>11, <1>12, <1>13, StepOf, SettingsKept DEF Own

(* What a process that may edit is like. *)
LEMMA EditableParts ==
    ASSUME IInv, NEW p \in Procs, Editable(p)
    PROVE  LET w == procs[p].active IN
           /\ procs[p].pc = "idle" /\ procs[p].lease = w /\ w \in Ids
           /\ w \in env.made /\ lock[w] = p /\ procs[p].cfg \in Setting
           /\ procs[p].cfg.rules \in Package
           /\ settings[w] \in Setting /\ Knows(procs[p], p, settings[w])
<1> DEFINE s == procs[p]
           w == procs[p].active
<1>0. /\ Shapes /\ Given /\ Own(p) /\ s \in Process
      /\ s.pc = "idle" /\ s.lease = w /\ w # None
  BY Parts DEF Editable, Doing
<1>1. /\ w \in Ids /\ lock[w] = p /\ s.cfg \in Setting
  BY <1>0, ProcessFields DEF Own, LeaseKnown
<1>2. w \in env.made
  BY <1>0, <1>1 DEF Given
<1>3. settings[w] \in Setting /\ Knows(s, p, settings[w])
  BY <1>0, <1>1 DEF Own, ContentKnown, Knows, Shapes
<1> QED
  BY <1>0, <1>1, <1>2, <1>3 DEF Setting

LEMMA AskEditStep ==
    ASSUME IInv, NEW p \in Procs,
           AskSelect(p) \/ AskSave(p) \/ AskRename(p) \/ AskSet(p)
             \/ AskRetarget(p) \/ AskCreate(p) \/ AskDuplicate(p) \/ AskDelete(p)
    PROVE  IInv' /\ Kept
<1>1. CASE AskSelect(p)
  <2>1. PICK w \in env.made : Ask(p, [JobOf("select", w) EXCEPT !.persist = TRUE], "read")
    BY <1>1 DEF AskSelect
  <2> DEFINE j == [JobOf("select", w) EXCEPT !.persist = TRUE]
  <2>2. /\ JobOf("select", w) \in Job /\ JobOf("select", w).id = w
        /\ ~ JobOf("select", w).fresh /\ JobOf("select", w).others = {}
    BY JobOfType, KindNames, MadeAreIds
  <2>3. /\ j \in Job /\ j.id = w /\ ~ j.fresh /\ j.others = {}
    BY <2>2 DEF Job
  <2> HIDE DEF j
  <2>4. Ask(p, j, "read") /\ "read" \in Pcs
    BY <2>1, PcNames DEF j
  <2> QED
    BY <2>3, <2>4, AskStep
<1>2. ASSUME NEW k \in {"save", "rename", "set", "retarget"}, Editable(p),
             Ask(p, JobOf(k, procs[p].active), "write")
      PROVE  IInv' /\ Kept
  <2> DEFINE j == JobOf(k, procs[p].active)
  <2>1. /\ procs[p].lease = procs[p].active /\ procs[p].active \in Ids
        /\ procs[p].active \in env.made
    BY <1>2, EditableParts
  <2>2. k \in Kinds
    BY DEF Kinds
  <2>3. /\ j \in Job /\ j.id = procs[p].active /\ ~ j.fresh /\ j.others = {}
        /\ j.kind = k
    BY <2>1, <2>2, JobOfType
  <2> HIDE DEF j
  <2>4. Ask(p, j, "write") /\ "write" \in Pcs
    BY <1>2, PcNames DEF j
  <2> QED
    BY <2>1, <2>3, <2>4, AskStep
<1>3. CASE AskCreate(p)
  BY <1>3, CreateStep, NoJobType DEF AskCreate, Doing
<1>4. CASE AskDuplicate(p)
  <2>1. procs[p].pc = "idle" /\ procs[p].cfg.rules \in Package
    BY <1>4, EditableParts DEF AskDuplicate
  <2> QED
    BY <1>4, <2>1, CreateStep DEF AskDuplicate
<1>5. CASE AskDelete(p)
  <2> DEFINE w == procs[p].active
             i == JobOf("delete", w)
             j == [i EXCEPT !.others = Existing \ {w}]
  <2>1. /\ procs[p].lease = w /\ w \in Ids /\ w \in env.made
    BY <1>5, EditableParts DEF AskDelete
  <2>2. i \in Job /\ i.id = w /\ ~ i.fresh
    BY <2>1, JobOfType, KindNames
  <2>3. Existing \ {w} \subseteq env.made /\ Existing \ {w} \in SUBSET Ids
    BY Parts DEF Existing, Given
  <2>4. Ask(p, j, "move") /\ "move" \in Pcs
    BY <1>5, PcNames DEF AskDelete
  <2> HIDE DEF i
  <2>5. /\ j \in Job /\ j.id = w /\ ~ j.fresh /\ j.others = Existing \ {w}
    BY <2>2, <2>3 DEF Job
  <2> HIDE DEF j
  <2> QED
    BY <2>1, <2>3, <2>4, <2>5, AskStep
<1> QED
  BY <1>1, <1>2, <1>3, <1>4, <1>5 DEF AskSave, AskRename, AskSet, AskRetarget
-----------------------------------------------------------------------------
(* Replacing setting.json. *)

LEMMA WrittenType ==
    ASSUME IInv, NEW p \in Procs, procs[p].job.id \in Ids, NEW rules \in Package
    PROVE  /\ Written(p, rules) \in Setting /\ Written(p, rules) # None
           /\ Written(p, rules).rules = rules /\ Written(p, rules).by = p
<1>1. settings[procs[p].job.id] \in Setting \cup {None}
  BY DEF IInv, Shapes
<1>2. settings[procs[p].job.id] # None => settings[procs[p].job.id].rev + 1 \in Nat
  BY <1>1 DEF Setting
<1> QED
  BY <1>1, <1>2 DEF Written, Target, Setting

(* One setting is replaced by one process that holds its lock: what that
   process knew decides the action properties. *)
LEMMA WriteKept ==
    ASSUME IInv, NEW p \in Procs, NEW id \in Ids, NEW new \in Setting,
           settings' = [settings EXCEPT ![id] = new], new.by = p,
           settings[id] = None =>
             /\ procs[p].job.id = id
             /\ procs[p].job.kind = "create" /\ trash[id] = None,
           settings[id] # None =>
             /\ Knows(procs[p], p, settings[id])
             /\ \A r \in Rules : new.rules[r] # procs[p].cfg.rules[r] =>
                  /\ ruleLock[id][r] = p
                  /\ r \in procs[p].job.edits
                  /\ procs[p].job.kind = "rules" =>
                       procs[p].drafts[id][r] = procs[p].cfg.rules[r]
    PROVE  Kept
<1>1. \A w \in Ids : settings'[w] = IF w = id THEN new ELSE settings[w]
  BY DEF IInv, Shapes
<1>2. Overwrites
  BY <1>1 DEF Overwrites, Knows
<1>3. Returns
  BY <1>1 DEF Returns
<1>4. RuleChanges
  <2>1. ASSUME NEW w \in Ids, NEW r \in Rules,
               settings[w] # None, settings'[w] \notin {None, settings[w]},
               settings'[w].rules[r] # settings[w].rules[r]
        PROVE  /\ ruleLock[w][r] = settings'[w].by
               /\ r \in procs[settings'[w].by].job.edits
               /\ procs[settings'[w].by].job.kind = "rules" =>
                    procs[settings'[w].by].drafts[w][r] = settings[w].rules[r]
    <3>1. w = id /\ settings'[w] = new
      BY <1>1, <2>1
    <3>2. settings[w].rules = procs[p].cfg.rules
      BY <2>1, <3>1 DEF Knows
    <3> QED
      BY <2>1, <3>1, <3>2
  <2> QED
    BY <2>1 DEF RuleChanges
<1> QED
  BY <1>2, <1>3, <1>4 DEF Kept

(* The frame of a write: the lock of its workspace keeps the others away. *)
LEMMA WriteUntouched ==
    ASSUME IInv, NEW p \in Procs, NEW id \in Ids, lock[id] = p,
           \A w \in Ids \ {id} : settings'[w] = settings[w] /\ trash'[w] = trash[w],
           \A q \in Procs \ {p} : procs'[q] = procs[q],
           \A q \in Procs \ {p}, w \in Ids :
             /\ lock'[w] = q <=> lock[w] = q
             /\ \A r \in Rules : ruleLock'[w][r] = q <=> ruleLock[w][r] = q,
           env.made \subseteq env'.made
    PROVE  \A q \in Procs \ {p} : Untouched(q)
  BY DEF Untouched

LEMMA WriteSettingStep ==
    ASSUME IInv, NEW p \in Procs, WriteSetting(p) PROVE IInv' /\ Kept
<1> DEFINE s == procs[p]
           id == procs[p].job.id
           creating == s.job.kind = "create"
           new == Written(p, PackageOf(p))
<1>0. /\ Shapes /\ Given /\ Own(p) /\ s \in Process /\ s.job \in Job
      /\ s.pc = "write" /\ id \in env.made /\ id \in Ids /\ env \in Env
      /\ UNCHANGED <<trash, selected>>
  BY Parts, MadeAreIds DEF WriteSetting, Doing, Own, CallKnown, Shapes
<1>1. /\ lock[id] = p
      /\ creating <=> s.job.fresh
      /\ creating => settings[id] = None /\ trash[id] = None
      /\ ~ creating => /\ s.lease = id /\ Knows(s, p, settings[id])
                       /\ s.cfg \in Setting
  <2>1. /\ lock[id] = p
        /\ creating <=> s.job.fresh
        /\ ~ creating => s.lease = id
    BY <1>0 DEF Own, CallKnown, LeaseKnown
  <2>2. creating => settings[id] = None /\ trash[id] = None
    BY <1>0 DEF Own, ContentKnown
  <2>3. ~ creating => Knows(s, p, settings[id])
    BY <1>0, <2>1 DEF Own, ContentKnown
  <2>4. ~ creating => s.cfg \in Setting
    BY <1>0, <2>1, ProcessFields DEF Own, LeaseKnown
  <2> QED
    BY <2>1, <2>2, <2>3, <2>4
<1>2. CASE Fault /\ NotAdopted(p) /\ UNCHANGED <<settings, ruleLock>>
  BY <1>0, <1>2, GiveBackStep, SettingsKept, FaultEnv DEF Shapes
<1>3. ASSUME settings' = [settings EXCEPT ![id] = new], UNCHANGED env,
             UNCHANGED lock,
             ruleLock' = ruleLock \/ ruleLock' = WithoutRule(p),
             NEW t \in Process, procs' = [procs EXCEPT ![p] = t],
             t.active = s.active, t.readOnly = s.readOnly, t.lease = s.lease,
             t.drafts = s.drafts,
             ruleLock' = ruleLock => t.ruleWs = s.ruleWs /\ t.rule = s.rule,
             ruleLock' # ruleLock => t.ruleWs = None /\ t.rule = None,
             \/ /\ t.pc = "select" /\ t.cfg = s.cfg
                /\ t.job.id = id /\ t.job.kind = s.job.kind
                /\ t.job.fresh <=> s.job.fresh
                /\ t.job.others = s.job.others /\ t.job.read = new
             \/ t.pc = "idle" /\ t.cfg = new /\ t.job = NoJob /\ ~ creating
      PROVE  IInv' /\ Kept
  <2>1. /\ PackageOf(p) \in Package
        /\ ~ creating => PackageOf(p) = s.cfg.rules
    BY <1>0, <1>1, JobFields DEF PackageOf, Setting
  <2>2. /\ new \in Setting /\ new # None /\ new.rules = PackageOf(p) /\ new.by = p
    BY <1>0, <2>1, WrittenType
  <2> HIDE DEF new
  <2>3. /\ procs' \in [Procs -> Process] /\ procs'[p] = t
        /\ \A q \in Procs \ {p} : procs'[q] = procs[q]
    BY <1>0, <1>3, PutProcess
  <2>4. /\ settings' \in [Ids -> Setting \cup {None}]
        /\ \A w \in Ids : settings'[w] = IF w = id THEN new ELSE settings[w]
    BY <1>0, <1>3, <2>2 DEF Shapes
  <2>5. /\ ruleLock' \in [Ids -> [Rules -> Procs \cup {None}]]
        /\ \A q \in Procs \ {p}, w \in Ids, r \in Rules :
             ruleLock'[w][r] = q <=> ruleLock[w][r] = q
        /\ ruleLock' # ruleLock => \A w \in Ids, r \in Rules : ruleLock'[w][r] # p
    <3>1. CASE ruleLock' = ruleLock
      BY <1>0, <3>1 DEF Shapes
    <3>2. CASE ruleLock' = WithoutRule(p)
      <4>1. s.pc # "publish"
        BY <1>0
      <4> QED
        BY <3>2, <4>1, WithoutRuleValue
    <3> QED
      BY <1>3, <3>1, <3>2
  <2>6. Shapes' /\ Given'
    BY <1>0, <1>3, <2>3, <2>4, <2>5 DEF Shapes, Given
  <2>7. LeaseKnown(p)'
    BY <1>0, <1>1, <1>3, <2>2, <2>3, NoJobType DEF Own, LeaseKnown
  <2>8. RulesKnown(p)'
    BY <1>0, <1>3, <2>3, <2>5 DEF Own, RulesKnown
  <2>9. CallKnown(p)'
    BY <1>0, <1>3, <2>3, NoJobType DEF Own, CallKnown
  <2>10. ContentKnown(p)'
    <3>1. s.lease # None => Knows(t, p, settings'[s.lease])
      <4>1. CASE creating /\ s.lease # None
        <5>1. /\ s.lease # id /\ s.lease \in Ids /\ t.cfg = s.cfg
              /\ settings'[s.lease] = settings[s.lease]
          BY <1>0, <1>1, <1>3, <2>4, <4>1, ProcessFields DEF Own, LeaseKnown
        <5> QED
          BY <1>0, <4>1, <5>1 DEF Own, ContentKnown, Knows
      <4>2. CASE ~ creating
        BY <1>0, <1>1, <1>3, <2>1, <2>2, <2>4, <4>2 DEF Knows
      <4> QED
        BY <4>1, <4>2
    <3> QED
      BY <1>0, <1>3, <2>2, <2>3, <2>4, <3>1 DEF ContentKnown
  <2>11. \A q \in Procs \ {p} : Untouched(q)
    BY <1>0, <1>1, <1>3, <2>3, <2>4, <2>5, WriteUntouched
  <2>12. Kept
    <3>1. settings[id] = None => creating /\ trash[id] = None
      BY <1>1 DEF Knows
    <3>2. settings[id] # None =>
            Knows(s, p, settings[id]) /\ new.rules = s.cfg.rules
      BY <1>1, <2>1, <2>2
    <3> QED
      BY <1>0, <1>3, <2>2, <3>1, <3>2, WriteKept
  <2> QED
    BY <2>6, <2>7, <2>8, <2>9, <2>10, <2>11, <2>12, StepOf DEF Own
<1>4. CASE /\ settings' = [settings EXCEPT ![id] = new] /\ UNCHANGED env
           /\ s.job.kind \in {"save", "rename", "create"}
           /\ procs' = [procs EXCEPT ![p] =
                          Called(@, "select", [@.job EXCEPT !.read = new])]
           /\ UNCHANGED locks
  <2> DEFINE j == [s.job EXCEPT !.read = new]
             t == Called(s, "select", j)
  <2>1. PackageOf(p) \in Package
    BY <1>0, <1>1, JobFields DEF PackageOf, Setting
  <2>2. new \in Setting
    BY <1>0, <2>1, WrittenType
  <2> HIDE DEF new
  <2>3. /\ j \in Job /\ j.id = id /\ j.kind = s.job.kind
        /\ (j.fresh <=> s.job.fresh) /\ j.others = s.job.others /\ j.read = new
    BY <1>0, <2>2 DEF Job
  <2>4. procs' = [procs EXCEPT ![p] = t]
    BY <1>4
  <2> HIDE DEF j
  <2>5. t \in Process /\ t.pc = "select" /\ t.job = j /\ Same(s, t)
    <3>1. s \in Process /\ j \in Job /\ "select" \in Pcs
      BY <1>0, <2>3, PcNames
    <3> QED
      BY <3>1, PutCall
  <2> HIDE DEF t
  <2> QED
    BY <1>3, <1>4, <2>3, <2>4, <2>5 DEF Same, locks
<1>5. CASE /\ settings' = [settings EXCEPT ![id] = new] /\ UNCHANGED env
           /\ s.job.kind = "set"
           /\ procs' = [procs EXCEPT ![p] = [Ended(@) EXCEPT !.cfg = new]]
           /\ UNCHANGED locks
  <2> DEFINE u == Ended(s)
             t == [u EXCEPT !.cfg = new]
  <2>1. new \in Setting
    BY <1>0, <1>1, <1>5, WrittenType DEF PackageOf, Setting
  <2> HIDE DEF new
  <2>2. u \in Process /\ u.pc = "idle" /\ u.job = NoJob /\ Same(s, u)
    BY <1>0, EndedType
  <2>3. procs' = [procs EXCEPT ![p] = t]
    BY <1>5
  <2> HIDE DEF u
  <2>4. /\ t \in Process /\ t.pc = "idle" /\ t.job = NoJob /\ t.cfg = new
        /\ t.active = s.active /\ t.readOnly = s.readOnly /\ t.lease = s.lease
        /\ t.drafts = s.drafts /\ t.ruleWs = s.ruleWs /\ t.rule = s.rule
    BY <2>1, <2>2 DEF Process, Same
  <2> HIDE DEF t
  <2> QED
    BY <1>3, <1>5, <2>3, <2>4 DEF locks
<1>6. CASE /\ settings' = [settings EXCEPT ![id] = new] /\ UNCHANGED env
           /\ s.job.kind = "retarget"
           /\ procs' = [procs EXCEPT ![p] = [NoRule(Ended(@)) EXCEPT !.cfg = new]]
           /\ ruleLock' = WithoutRule(p)
           /\ UNCHANGED lock
  <2> DEFINE u == NoRule(Ended(s))
             t == [u EXCEPT !.cfg = new]
  <2>1. new \in Setting
    BY <1>0, <1>1, <1>6, WrittenType DEF PackageOf, Setting
  <2> HIDE DEF new
  <2>2. Ended(s) \in Process /\ Ended(s).pc = "idle" /\ Ended(s).job = NoJob
        /\ Same(s, Ended(s))
    BY <1>0, EndedType
  <2>3. /\ u \in Process /\ u.pc = "idle" /\ u.job = NoJob
        /\ u.active = s.active /\ u.readOnly = s.readOnly /\ u.lease = s.lease
        /\ u.drafts = s.drafts /\ u.ruleWs = None /\ u.rule = None
    BY <2>2, NoRuleType DEF Same
  <2>4. procs' = [procs EXCEPT ![p] = t]
    BY <1>6
  <2> HIDE DEF u
  <2>5. /\ t \in Process /\ t.pc = "idle" /\ t.job = NoJob /\ t.cfg = new
        /\ t.active = s.active /\ t.readOnly = s.readOnly /\ t.lease = s.lease
        /\ t.drafts = s.drafts /\ t.ruleWs = None /\ t.rule = None
    BY <2>1, <2>3 DEF Process
  <2> HIDE DEF t
  <2>6. ruleLock' = ruleLock => s.ruleWs = None /\ s.rule = None
    <3>1. /\ s.rule \in Rules \cup {None} /\ s.ruleWs \in Ids \cup {None}
          /\ RulesKnown(p)
      BY <1>0, ProcessFields DEF Own
    <3>2. \A w \in Ids, r \in Rules : WithoutRule(p)[w][r] # p
      BY <1>0, WithoutRuleValue
    <3> QED
      BY <1>6, <3>1, <3>2 DEF RulesKnown
  <2> QED
    BY <1>3, <1>6, <2>4, <2>5, <2>6
<1>7. s.job.kind \in {"save", "rename", "set", "retarget", "create"}
  BY <1>0 DEF Own, CallKnown
<1> QED
  BY <1>2, <1>4, <1>5, <1>6, <1>7 DEF WriteSetting, Target
-----------------------------------------------------------------------------
(* Deleting. *)

LEMMA AdvancedType ==
    ASSUME NEW s \in Process, NEW c \in Pcs
    PROVE  /\ Advanced(s, c) \in Process /\ Advanced(s, c).pc = c
           /\ Advanced(s, c).job = s.job /\ Same(s, Advanced(s, c))
  BY PutPc

LEMMA MoveStep ==
    ASSUME IInv, NEW p \in Procs, Move(p) PROVE IInv' /\ Kept
<1> DEFINE s == procs[p]
           id == procs[p].job.id
<1>0. /\ Shapes /\ Given /\ Own(p) /\ s \in Process /\ s.job \in Job
      /\ s.pc = "move" /\ id \in env.made /\ id \in Ids
      /\ s.lease = id /\ lock[id] = p /\ ~ s.job.fresh
      /\ UNCHANGED <<selected, lock, ruleLock>>
  BY Parts, MadeAreIds DEF Move, Doing, Own, CallKnown, LeaseKnown, locks
<1>1. CASE /\ trash' = [trash EXCEPT ![id] = settings[id]]
           /\ settings' = [settings EXCEPT ![id] = None]
           /\ Goto(p, "unselect")
           /\ UNCHANGED env
  <2> DEFINE t == Advanced(s, "unselect")
  <2>1. t \in Process /\ t.pc = "unselect" /\ t.job = s.job /\ Same(s, t)
    BY <1>0, AdvancedType, PcNames
  <2>2. procs' = [procs EXCEPT ![p] = t]
    BY <1>1 DEF Goto
  <2> HIDE DEF t
  <2>3. /\ procs' \in [Procs -> Process] /\ procs'[p] = t
        /\ \A q \in Procs \ {p} : procs'[q] = procs[q]
    BY <1>0, <2>1, <2>2, PutProcess
  <2>4. /\ settings' \in [Ids -> Setting \cup {None}]
        /\ trash' \in [Ids -> Setting \cup {None}]
        /\ \A w \in Ids : /\ settings'[w] = IF w = id THEN None ELSE settings[w]
                          /\ trash'[w] = IF w = id THEN settings[id] ELSE trash[w]
    BY <1>0, <1>1 DEF Shapes
  <2>5. Shapes' /\ Given'
    BY <1>0, <1>1, <2>3, <2>4 DEF Shapes, Given
  <2>6. LeaseKnown(p)'
    BY <1>0, <2>1, <2>3 DEF Own, LeaseKnown, Same
  <2>7. RulesKnown(p)'
    BY <1>0, <2>1, <2>3 DEF Own, RulesKnown, Same
  <2>8. CallKnown(p)'
    BY <1>0, <1>1, <2>1, <2>3 DEF Own, CallKnown, Same
  <2>9. ContentKnown(p)'
    BY <1>0, <2>1, <2>3, <2>4 DEF Own, ContentKnown, Knows, Same
  <2>10. \A q \in Procs \ {p} : Untouched(q)
    BY <1>0, <1>1, <2>3, <2>4, WriteUntouched
  <2>11. Kept
    BY <2>4 DEF Kept, Overwrites, Returns, RuleChanges
  <2> QED
    BY <2>5, <2>6, <2>7, <2>8, <2>9, <2>10, <2>11, StepOf DEF Own
<1>2. CASE /\ Fault
           /\ procs' = [procs EXCEPT ![p] = Ended(@)]
           /\ UNCHANGED <<trash, settings>>
  <2> DEFINE t == Ended(s)
  <2>1. t \in Process /\ t.pc = "idle" /\ t.job = NoJob /\ Same(s, t)
    BY <1>0, EndedType
  <2>2. procs' = [procs EXCEPT ![p] = t]
    BY <1>2
  <2> HIDE DEF t
  <2>3. procs'[p] = t
    BY <1>0, <2>1, <2>2, PutProcess
  <2>4. CallKnown(p)'
    BY <2>1, <2>3, NoJobType DEF CallKnown
  <2> QED
    BY <1>0, <1>2, <2>1, <2>2, <2>4, FaultEnv, NoJobType, CallOnly
       DEF files, locks
<1> QED
  BY <1>1, <1>2 DEF Move, Target

(* A process that drops its authority edits nothing and holds nothing. *)
LEMMA DropType ==
    ASSUME NEW s \in Process
    PROVE  /\ DropAuthority(s) \in Process /\ DropAuthority(s).active = None
           /\ DropAuthority(s).cfg = None /\ DropAuthority(s).lease = None
           /\ DropAuthority(s).ruleWs = None /\ DropAuthority(s).rule = None
           /\ DropAuthority(s).pc = s.pc /\ DropAuthority(s).job = s.job
           /\ DropAuthority(s).readOnly = s.readOnly
           /\ DropAuthority(s).drafts = s.drafts
  BY DEF DropAuthority, Process

LEMMA ResetStep ==
    ASSUME IInv, NEW p \in Procs, procs[p].pc \in {"unselect", "rollback"},
           NEW t \in Process, Reset(p, t), t.pc \in {"idle", "read"},
           t.active = None, t.cfg = None, t.lease = None, t.ruleWs = None,
           t.rule = None, ~ t.job.fresh, t.job.others = {},
           t.pc = "idle" => t.job = NoJob,
           t.pc = "read" => t.job.id \in env.made,
           UNCHANGED <<settings, trash>>, selected' \in Ids \cup {None},
           env' \in Env, env'.made = env.made
    PROVE  IInv' /\ Kept
<1> DEFINE s == procs[p]
<1>0. /\ Shapes /\ Given /\ Own(p) /\ s \in Process
      /\ s.lease \in Ids /\ lock[s.lease] = p /\ ~ s.job.fresh
  BY Parts, MadeAreIds DEF Own, CallKnown, LeaseKnown
<1>1. /\ procs' \in [Procs -> Process] /\ procs'[p] = t
      /\ \A q \in Procs \ {p} : procs'[q] = procs[q]
  BY <1>0, PutProcess DEF Reset
<1>2. /\ lock' \in [Ids -> Procs \cup {None}]
      /\ \A w \in Ids : lock'[w] = IF w = s.lease THEN None ELSE lock[w]
  BY <1>0 DEF Shapes, Reset
<1>3. /\ ruleLock' \in [Ids -> [Rules -> Procs \cup {None}]]
      /\ \A q \in Procs \ {p}, w \in Ids, r \in Rules :
           ruleLock'[w][r] = q <=> ruleLock[w][r] = q
      /\ \A w \in Ids, r \in Rules : ruleLock'[w][r] # p
  <2>1. ruleLock' = WithoutRule(p) /\ s.pc # "publish"
    BY DEF Reset
  <2> QED
    BY <2>1, WithoutRuleValue
<1>4. Shapes' /\ Given'
  BY <1>0, <1>1, <1>2, <1>3 DEF Shapes, Given
<1>5. LeaseKnown(p)'
  <2>1. \A w \in Ids : lock'[w] # p
    BY <1>0, <1>2 DEF Own, LeaseKnown
  <2> QED
    BY <1>1, <2>1 DEF LeaseKnown
<1>6. RulesKnown(p)'
  BY <1>1, <1>3 DEF RulesKnown
<1>7. CallKnown(p)' /\ ContentKnown(p)'
  BY <1>1 DEF CallKnown, ContentKnown
<1>8. \A q \in Procs \ {p} : Untouched(q)
  BY <1>0, <1>1, <1>2, <1>3 DEF Untouched
<1> QED
  BY <1>4, <1>5, <1>6, <1>7, <1>8, StepOf, SettingsKept DEF Own

LEMMA UnselectStep ==
    ASSUME IInv, NEW p \in Procs, Unselect(p) PROVE IInv' /\ Kept
<1> DEFINE s == procs[p]
           id == procs[p].job.id
<1>0. /\ Shapes /\ Given /\ Own(p) /\ s \in Process /\ s.job \in Job
      /\ s.pc = "unselect" /\ id \in env.made /\ id \in Ids /\ env \in Env
      /\ s.lease = id /\ ~ s.job.fresh /\ s.job.others \subseteq env.made
      /\ UNCHANGED <<settings, trash>>
  BY Parts, MadeAreIds DEF Unselect, Doing, Own, CallKnown, LeaseKnown, Shapes
<1>1. ASSUME NEW next \in IF s.job.others = {} THEN {None} ELSE s.job.others,
             selected' = next, UNCHANGED env,
             Reset(p, IF next = None THEN Ended(DropAuthority(s))
                      ELSE Called(DropAuthority(s), "read", JobOf("select", next)))
      PROVE  IInv' /\ Kept
  <2>0. next \in env.made \cup {None} /\ next \in Ids \cup {None}
    BY <1>0, <1>1, MadeAreIds
  <2> DEFINE d == DropAuthority(s)
  <2>1. /\ d \in Process /\ d.active = None /\ d.cfg = None /\ d.lease = None
        /\ d.ruleWs = None /\ d.rule = None
    BY <1>0, DropType
  <2>2. CASE next = None
    <3> DEFINE t == Ended(d)
    <3>1. Reset(p, t)
      BY <1>1, <2>2
    <3> HIDE DEF d
    <3>2. t \in Process /\ t.pc = "idle" /\ t.job = NoJob /\ Same(d, t)
      BY <2>1, EndedType
    <3> HIDE DEF t
    <3> QED
      BY <1>0, <1>1, <2>0, <2>1, <3>1, <3>2, ResetStep, NoJobType DEF Same
  <2>3. CASE next # None
    <3> DEFINE j == JobOf("select", next)
               t == Called(d, "read", j)
    <3>1. Reset(p, t)
      BY <1>1, <2>3
    <3>2. j \in Job /\ j.id = next /\ ~ j.fresh /\ j.others = {}
      BY <2>0, <2>3, JobOfType, KindNames
    <3> HIDE DEF d, j
    <3>3. t \in Process /\ t.pc = "read" /\ t.job = j /\ Same(d, t)
      <4>1. d \in Process /\ j \in Job /\ "read" \in Pcs
        BY <2>1, <3>2, PcNames
      <4> QED
        BY <4>1, PutCall
    <3> HIDE DEF t
    <3> QED
      BY <1>0, <1>1, <2>0, <2>1, <2>3, <3>1, <3>2, <3>3, ResetStep DEF Same
  <2> QED
    BY <2>2, <2>3
<1>2. CASE Fault /\ Goto(p, "rollback") /\ UNCHANGED <<selected, locks>>
  <2> DEFINE t == Advanced(s, "rollback")
  <2>1. t \in Process /\ t.pc = "rollback" /\ t.job = s.job /\ Same(s, t)
    BY <1>0, AdvancedType, PcNames
  <2>2. procs' = [procs EXCEPT ![p] = t]
    BY <1>2 DEF Goto
  <2> HIDE DEF t
  <2>3. /\ procs' \in [Procs -> Process] /\ procs'[p] = t
        /\ \A q \in Procs \ {p} : procs'[q] = procs[q]
    BY <1>0, <2>1, <2>2, PutProcess
  <2>4. env' \in Env /\ env'.made = env.made /\ UNCHANGED <<lock, ruleLock>>
    BY <1>2, FaultEnv DEF locks
  <2>5. Shapes' /\ Given'
    BY <1>0, <1>2, <2>3, <2>4 DEF Shapes, Given
  <2>6. LeaseKnown(p)' /\ RulesKnown(p)'
    BY <1>0, <2>1, <2>3, <2>4 DEF Own, LeaseKnown, RulesKnown, Same
  <2>7. CallKnown(p)' /\ ContentKnown(p)'
    BY <1>0, <2>1, <2>3, <2>4 DEF Own, CallKnown, ContentKnown, Knows, Same
  <2>8. \A q \in Procs \ {p} : Untouched(q)
    BY <1>0, <2>3, <2>4 DEF Untouched
  <2> QED
    BY <1>0, <2>5, <2>6, <2>7, <2>8, StepOf, SettingsKept DEF Own
<1> QED
  BY <1>1, <1>2 DEF Unselect

LEMMA RollbackStep ==
    ASSUME IInv, NEW p \in Procs, Rollback(p) PROVE IInv' /\ Kept
<1> DEFINE s == procs[p]
           id == procs[p].job.id
<1>0. /\ Shapes /\ Given /\ Own(p) /\ s \in Process /\ s.job \in Job
      /\ s.pc = "rollback" /\ id \in env.made /\ id \in Ids /\ env \in Env
      /\ s.lease = id /\ lock[id] = p /\ ~ s.job.fresh
      /\ UNCHANGED selected
  BY Parts, MadeAreIds DEF Rollback, Doing, Own, CallKnown, LeaseKnown, Shapes
<1>1. CASE /\ settings[id] = None
           /\ settings' = [settings EXCEPT ![id] = trash[id]]
           /\ trash' = [trash EXCEPT ![id] = None]
           /\ procs' = [procs EXCEPT ![p] = Ended(@)]
           /\ UNCHANGED <<locks, env>>
  <2> DEFINE t == Ended(s)
  <2>1. t \in Process /\ t.pc = "idle" /\ t.job = NoJob /\ Same(s, t)
    BY <1>0, EndedType
  <2>2. procs' = [procs EXCEPT ![p] = t]
    BY <1>1
  <2> HIDE DEF t
  <2>3. /\ procs' \in [Procs -> Process] /\ procs'[p] = t
        /\ \A q \in Procs \ {p} : procs'[q] = procs[q]
    BY <1>0, <2>1, <2>2, PutProcess
  <2>4. /\ settings' \in [Ids -> Setting \cup {None}]
        /\ trash' \in [Ids -> Setting \cup {None}]
        /\ \A w \in Ids : /\ settings'[w] = IF w = id THEN trash[id] ELSE settings[w]
                          /\ trash'[w] = IF w = id THEN None ELSE trash[w]
        /\ UNCHANGED <<lock, ruleLock>>
    BY <1>0, <1>1 DEF Shapes, locks
  <2>5. Shapes' /\ Given'
    BY <1>0, <1>1, <2>3, <2>4 DEF Shapes, Given
  <2>6. LeaseKnown(p)' /\ RulesKnown(p)'
    BY <1>0, <2>1, <2>3, <2>4, NoJobType DEF Own, LeaseKnown, RulesKnown, Same
  <2>7. CallKnown(p)'
    BY <2>1, <2>3, NoJobType DEF CallKnown
  <2>8. ContentKnown(p)'
    BY <1>0, <2>1, <2>3, <2>4 DEF Own, ContentKnown, Knows, Same
  <2>9. \A q \in Procs \ {p} : Untouched(q)
    BY <1>0, <1>1, <2>3, <2>4, WriteUntouched
  <2>10. Kept
    BY <1>0, <1>1, <2>4, ZenonT(60) DEF Kept, Overwrites, Returns, RuleChanges
  <2> QED
    BY <2>5, <2>6, <2>7, <2>8, <2>9, <2>10, StepOf DEF Own
<1>2. CASE /\ Fault
           /\ Reset(p, DropAuthority(Ended(s)))
           /\ UNCHANGED <<settings, trash>>
  <2> DEFINE e == Ended(s)
             t == DropAuthority(e)
  <2>1. e \in Process /\ e.pc = "idle" /\ e.job = NoJob
    BY <1>0, EndedType
  <2>2. Reset(p, t)
    BY <1>2
  <2> HIDE DEF e
  <2>3. /\ t \in Process /\ t.active = None /\ t.cfg = None /\ t.lease = None
        /\ t.ruleWs = None /\ t.rule = None /\ t.pc = "idle" /\ t.job = NoJob
    BY <2>1, DropType
  <2> HIDE DEF t
  <2>4. env' \in Env /\ env'.made = env.made /\ selected' \in Ids \cup {None}
    BY <1>0, <1>2, FaultEnv DEF Shapes
  <2> QED
    BY <1>0, <1>2, <2>2, <2>3, <2>4, ResetStep, NoJobType
<1> QED
  BY <1>1, <1>2 DEF Rollback, Target
-----------------------------------------------------------------------------
(* Rules. *)

LEMMA EditingType ==
    ASSUME NEW s \in Process, NEW w \in Ids, NEW r \in Rules,
           NEW rev \in Revisions \cup {None}
    PROVE  /\ Editing(s, w, r, rev) \in Process /\ Editing(s, w, r, rev).pc = s.pc
           /\ Editing(s, w, r, rev).job = s.job
           /\ Editing(s, w, r, rev).active = s.active
           /\ Editing(s, w, r, rev).cfg = s.cfg
           /\ Editing(s, w, r, rev).readOnly = s.readOnly
           /\ Editing(s, w, r, rev).lease = s.lease
           /\ Editing(s, w, r, rev).ruleWs = w /\ Editing(s, w, r, rev).rule = r
<1> DEFINE d == [s.drafts EXCEPT ![w][r] = rev]
<1>1. d \in [Ids -> Package]
  <2>1. s.drafts \in [Ids -> Package] /\ [s.drafts[w] EXCEPT ![r] = rev] \in Package
    BY DEF Process, Package
  <2>2. d = [s.drafts EXCEPT ![w] = [s.drafts[w] EXCEPT ![r] = rev]]
    OBVIOUS
  <2> QED
    BY <2>1, <2>2
<1>2. Editing(s, w, r, rev) = [s EXCEPT !.ruleWs = w, !.rule = r, !.drafts = d]
  BY DEF Editing
<1> HIDE DEF d
<1> QED
  BY <1>1, <1>2 DEF Process

(* The editor turns to another rule or to none. *)
LEMMA EditorStep ==
    ASSUME IInv, NEW p \in Procs, procs[p].pc = "idle",
           NEW t \in Process, procs' = [procs EXCEPT ![p] = t],
           t.pc = "idle", t.job = procs[p].job, t.active = procs[p].active,
           t.cfg = procs[p].cfg, t.readOnly = procs[p].readOnly,
           t.lease = procs[p].lease,
           t.rule = None <=> t.ruleWs = None,
           t.rule # None => t.ruleWs = t.lease,
           ruleLock' \in [Ids -> [Rules -> Procs \cup {None}]],
           \A q \in Procs \ {p}, w \in Ids, r \in Rules :
             ruleLock'[w][r] = q <=> ruleLock[w][r] = q,
           \A w \in Ids, r \in Rules :
             ruleLock'[w][r] = p <=> t.ruleWs = w /\ t.rule = r,
           UNCHANGED <<files, lock>>, env' \in Env, env'.made = env.made
    PROVE  IInv' /\ Kept
<1>0. /\ Shapes /\ Given /\ Own(p) /\ UNCHANGED <<settings, trash, selected>>
  BY Parts DEF files
<1>1. /\ procs' \in [Procs -> Process] /\ procs'[p] = t
      /\ \A q \in Procs \ {p} : procs'[q] = procs[q]
  BY <1>0, PutProcess
<1>2. Shapes' /\ Given'
  BY <1>0, <1>1 DEF Shapes, Given
<1>3. LeaseKnown(p)'
  BY <1>0, <1>1 DEF Own, LeaseKnown
<1>4. RulesKnown(p)'
  BY <1>1 DEF RulesKnown
<1>5. CallKnown(p)'
  BY <1>0, <1>1 DEF Own, CallKnown
<1>6. ContentKnown(p)'
  BY <1>0, <1>1 DEF Own, ContentKnown, Knows
<1>7. \A q \in Procs \ {p} : Untouched(q)
  BY <1>0, <1>1 DEF Untouched
<1> QED
  BY <1>0, <1>2, <1>3, <1>4, <1>5, <1>6, <1>7, StepOf, SettingsKept DEF Own

(* The editor is closed: no rule of any workspace stays leased. *)
LEMMA EditorClosed ==
    ASSUME IInv, NEW p \in Procs, procs[p].pc = "idle",
           procs' = [procs EXCEPT ![p] = NoRule(@)], ruleLock' = WithoutRule(p),
           UNCHANGED <<files, lock>>, env' \in Env, env'.made = env.made
    PROVE  IInv' /\ Kept
<1> DEFINE s == procs[p]
           t == NoRule(s)
<1>1. /\ t \in Process /\ t.pc = "idle" /\ t.job = s.job /\ t.active = s.active
      /\ t.cfg = s.cfg /\ t.readOnly = s.readOnly /\ t.lease = s.lease
      /\ t.ruleWs = None /\ t.rule = None
  <2>1. s \in Process
    BY Parts
  <2> QED
    BY <2>1, NoRuleType
<1>2. /\ ruleLock' \in [Ids -> [Rules -> Procs \cup {None}]]
      /\ \A q \in Procs \ {p}, w \in Ids, r \in Rules :
           ruleLock'[w][r] = q <=> ruleLock[w][r] = q
      /\ \A w \in Ids, r \in Rules : ruleLock'[w][r] # p
  BY WithoutRuleValue
<1>3. procs' = [procs EXCEPT ![p] = t]
  OBVIOUS
<1> HIDE DEF t
<1>4. \A w \in Ids, r \in Rules : ruleLock'[w][r] = p <=> t.ruleWs = w /\ t.rule = r
  BY <1>1, <1>2
<1> QED
  BY <1>1, <1>2, <1>3, <1>4, EditorStep, ZenonT(60)

LEMMA OpenRuleStep ==
    ASSUME IInv, NEW p \in Procs, NEW r \in Rules, OpenRule(p, r)
    PROVE  IInv' /\ Kept
<1> DEFINE s == procs[p]
           w == procs[p].active
           rev == settings[w].rules[r]
           t == Editing(s, w, r, rev)
<1>0. /\ s.pc = "idle" /\ s \in Process /\ Own(p) /\ Shapes
      /\ UNCHANGED <<files, lock>> /\ env' \in Env /\ env'.made = env.made
  BY Parts, EnvKept DEF OpenRule, Doing
<1>1. CASE ruleLock' = WithoutRule(p) /\ procs' = [procs EXCEPT ![p] = NoRule(@)]
  BY <1>0, <1>1, EditorClosed
<1>2. CASE /\ Editable(p)
           /\ ruleLock' = [WithoutRule(p) EXCEPT ![w][r] = p]
           /\ procs' = [procs EXCEPT ![p] = Editing(@, w, r, rev)]
           /\ \/ s.ruleWs = w /\ s.rule = r
              \/ WithoutRule(p)[w][r] = None
  <2>1. /\ w \in Ids /\ s.lease = w /\ rev \in Revisions \cup {None}
    BY <1>2, EditableParts DEF Setting, Package
  <2>2. /\ t \in Process /\ t.pc = s.pc /\ t.job = s.job /\ t.active = s.active
        /\ t.cfg = s.cfg /\ t.readOnly = s.readOnly /\ t.lease = s.lease
        /\ t.ruleWs = w /\ t.rule = r
    <3> HIDE DEF rev
    <3>1. s \in Process /\ w \in Ids /\ rev \in Revisions \cup {None}
      BY <1>0, <2>1
    <3> QED
      BY <3>1, EditingType
  <2>3. procs' = [procs EXCEPT ![p] = t]
    BY <1>2
  <2> DEFINE base == WithoutRule(p)
  <2>4. /\ base \in [Ids -> [Rules -> Procs \cup {None}]]
        /\ \A q \in Procs \ {p}, v \in Ids, x \in Rules :
             base[v][x] = q <=> ruleLock[v][x] = q
        /\ \A v \in Ids, x \in Rules : base[v][x] # p
    BY <1>0, WithoutRuleValue
  <2>5. base[w][r] = None
    BY <1>2, <2>1, WithoutRuleValue
  <2>6. ruleLock' = [base EXCEPT ![w] = [base[w] EXCEPT ![r] = p]]
    BY <1>2
  <2> HIDE DEF base, t
  <2>7. /\ ruleLock' \in [Ids -> [Rules -> Procs \cup {None}]]
        /\ \A v \in Ids, x \in Rules :
             ruleLock'[v][x] = IF v = w /\ x = r THEN p ELSE base[v][x]
    <3>1. [base[w] EXCEPT ![r] = p] \in [Rules -> Procs \cup {None}]
      BY <2>1, <2>4
    <3> QED
      BY <2>1, <2>4, <2>6, <3>1
  <2>8. \A q \in Procs \ {p}, v \in Ids, x \in Rules :
          ruleLock'[v][x] = q <=> ruleLock[v][x] = q
    BY <2>4, <2>5, <2>7
  <2>9. \A v \in Ids, x \in Rules : ruleLock'[v][x] = p <=> t.ruleWs = v /\ t.rule = x
    BY <2>2, <2>4, <2>7
  <2>10. t.rule # None /\ t.ruleWs # None /\ t.ruleWs = t.lease /\ t.pc = "idle"
    BY <1>0, <2>1, <2>2
  <2> QED
    BY <1>0, <2>2, <2>3, <2>7, <2>8, <2>9, <2>10, EditorStep, ZenonT(60)
<1> QED
  BY <1>1, <1>2 DEF OpenRule, LockFree

LEMMA CloseRuleStep ==
    ASSUME IInv, NEW p \in Procs, CloseRule(p) PROVE IInv' /\ Kept
<1>1. env' \in Env /\ env'.made = env.made
  BY EnvKept DEF CloseRule
<1> QED
  BY <1>1, EditorClosed DEF CloseRule, Doing

LEMMA OverType ==
    ASSUME NEW S \in SUBSET Rules, NEW new \in [S -> Revisions \cup {None}],
           NEW old \in Package
    PROVE  /\ Over(new, old) \in Package
           /\ \A r \in Rules : Over(new, old)[r] = IF r \in S THEN new[r] ELSE old[r]
  BY DEF Over, Package

(* A call that will lock its rules: it leaves every rule it does not name as
   the process knows it, and a draft is based on what it knows. *)
LEMMA AskRulesStep ==
    ASSUME IInv, NEW p \in Procs, Editable(p), NEW kind \in Kinds,
           NEW rules \in Package, NEW edited \in SUBSET Rules,
           NEW locked \in SUBSET Rules, edited \subseteq locked,
           Ask(p, RulesJob(p, kind, rules, edited, locked), "lock"),
           \A r \in Rules : IF r \in edited
             THEN kind = "rules" =>
                    procs[p].drafts[procs[p].active][r] = procs[p].cfg.rules[r]
             ELSE rules[r] = procs[p].cfg.rules[r]
    PROVE  IInv' /\ Kept
<1> DEFINE j == RulesJob(p, kind, rules, edited, locked)
<1>1. /\ procs[p].active \in Ids /\ procs[p].active \in env.made
      /\ procs[p].lease = procs[p].active
  BY EditableParts
<1>2. Ask(p, j, "lock") /\ "lock" \in Pcs
  BY PcNames
<1>3. /\ j \in Job /\ j.kind = kind /\ j.id = procs[p].active
      /\ ~ j.fresh /\ j.others = {} /\ j.rules = rules /\ j.edits = edited
      /\ j.locks = locked
  <2> DEFINE i == JobOf(kind, procs[p].active)
  <2>1. /\ i \in Job /\ i.kind = kind /\ i.id = procs[p].active
        /\ ~ i.fresh /\ i.others = {}
    BY <1>1, JobOfType
  <2>2. j = [i EXCEPT !.rules = rules, !.edits = edited, !.locks = locked]
    BY DEF RulesJob
  <2> HIDE DEF i, j
  <2>3. j \in Job
    BY <2>1, <2>2 DEF Job
  <2>4. j.kind = i.kind /\ j.id = i.id /\ j.fresh = i.fresh /\ j.others = i.others
    BY <2>1, <2>2 DEF Job
  <2>5. j.rules = rules /\ j.edits = edited /\ j.locks = locked
    BY <2>1, <2>2 DEF Job
  <2> QED
    BY <2>1, <2>3, <2>4, <2>5
<1> HIDE DEF j
<1> QED
  BY <1>1, <1>2, <1>3, AskStep

LEMMA RulesRequestStep ==
    ASSUME IInv, NEW p \in Procs, NEW ids \in SUBSET Rules,
           SaveRules(p, ids) \/ MergeRules(p, ids) \/ ReplaceRules(p, ids)
    PROVE  IInv' /\ Kept
<1> DEFINE w == procs[p].active
           known == procs[p].cfg.rules
<1>0. /\ Editable(p) /\ known \in Package
      /\ settings[w] # None /\ settings[w].rules = known
      /\ NoRules \in Package
  BY EditableParts, NoJobType DEF SaveRules, MergeRules, ReplaceRules, Knows
<1>1. CASE SaveRules(p, ids)
  <2>1. PICK new \in [ids -> Revisions] :
          Ask(p, RulesJob(p, "rules", Over(new, known), ids, ids), "lock")
    BY <1>0, <1>1 DEF SaveRules
  <2>2. \A r \in ids : procs[p].drafts[w][r] = known[r]
    BY <1>0, <1>1 DEF SaveRules, SameRevision
  <2>3. /\ Over(new, known) \in Package
        /\ \A r \in Rules : Over(new, known)[r] = IF r \in ids THEN new[r] ELSE known[r]
    <3>1. new \in [ids -> Revisions \cup {None}]
      OBVIOUS
    <3> HIDE DEF known
    <3> QED
      BY <1>0, <3>1, OverType
  <2>4. \A r \in Rules : IF r \in ids
          THEN "rules" = "rules" => procs[p].drafts[w][r] = known[r]
          ELSE Over(new, known)[r] = known[r]
    BY <2>2, <2>3
  <2>5. "rules" \in Kinds
    BY KindNames
  <2> QED
    BY <1>0, <2>1, <2>3, <2>4, <2>5, AskRulesStep
<1>2. ASSUME NEW old \in Package, NEW edited \in SUBSET Rules, ids \subseteq edited,
             edited \subseteq ids \cup Present(known),
             \A r \in Rules \ edited : old[r] = known[r],
             \E new \in [ids -> Revisions] : Import(p, new, old, edited)
      PROVE  IInv' /\ Kept
  <2>1. PICK new \in [ids -> Revisions] :
          Ask(p, RulesJob(p, "import", Over(new, old), edited,
                          ids \cup Present(known)), "lock")
    BY <1>2 DEF Import, InMemory
  <2>2. /\ Over(new, old) \in Package
        /\ \A r \in Rules : Over(new, old)[r] = IF r \in ids THEN new[r] ELSE old[r]
    <3>1. new \in [ids -> Revisions \cup {None}]
      OBVIOUS
    <3> QED
      BY <3>1, OverType
  <2>3. \A r \in Rules : IF r \in edited
          THEN "import" = "rules" => procs[p].drafts[w][r] = known[r]
          ELSE Over(new, old)[r] = known[r]
    BY <1>2, <2>2
  <2>4. "import" \in Kinds /\ ids \cup Present(known) \in SUBSET Rules
    BY KindNames DEF Present
  <2> QED
    BY <1>0, <1>2, <2>1, <2>2, <2>3, <2>4, AskRulesStep
<1>3. CASE MergeRules(p, ids)
  BY <1>0, <1>2, <1>3 DEF MergeRules, InMemory
<1>4. CASE ReplaceRules(p, ids)
  <2>1. \A r \in Rules \ (ids \cup Present(known)) : NoRules[r] = known[r]
    BY DEF Present, NoRules
  <2>2. ids \cup Present(known) \in SUBSET Rules
    BY DEF Present
  <2> QED
    BY <1>0, <1>2, <1>4, <2>1, <2>2 DEF ReplaceRules, InMemory
<1> QED
  BY <1>1, <1>3, <1>4

LEMMA DeleteRuleStep ==
    ASSUME IInv, NEW p \in Procs, NEW r \in Rules, DeleteRule(p, r)
    PROVE  IInv' /\ Kept
<1> DEFINE known == procs[p].cfg.rules
           rules == [known EXCEPT ![r] = None]
<1>1. /\ Editable(p) /\ known \in Package
      /\ Ask(p, RulesJob(p, "unrule", rules, {r}, {r}), "lock")
  BY EditableParts DEF DeleteRule, InMemory
<1>2. /\ rules \in Package
      /\ \A x \in Rules : x # r => rules[x] = known[x]
  BY <1>1 DEF Package
<1>3. "unrule" \in Kinds /\ {r} \in SUBSET Rules
  BY KindNames
<1> HIDE DEF rules
<1>4. \A x \in Rules : IF x \in {r}
        THEN "unrule" = "rules" =>
               procs[p].drafts[procs[p].active][x] = procs[p].cfg.rules[x]
        ELSE rules[x] = procs[p].cfg.rules[x]
  BY <1>2
<1> QED
  BY <1>1, <1>2, <1>3, <1>4, AskRulesStep

(* The rules of a call are locked together or not at all. *)
LEMMA LockRulesStep ==
    ASSUME IInv, NEW p \in Procs, LockRules(p) PROVE IInv' /\ Kept
<1> DEFINE s == procs[p]
           w == procs[p].job.id
           unrule == s.job.kind = "unrule"
           base == IF unrule THEN WithoutRule(p) ELSE ruleLock
           kept == IF unrule THEN NoRule(s) ELSE s
           mine(r) == s.ruleWs = w /\ s.rule = r
           busy == {r \in s.job.locks : base[w][r] # None /\ ~ mine(r)}
           all == [base EXCEPT ![w] = [r \in Rules |->
                     IF r \in s.job.locks THEN p ELSE base[w][r]]]
<1>0. /\ Shapes /\ Given /\ Own(p) /\ s \in Process /\ s.job \in Job
      /\ s.pc = "lock" /\ w \in Ids /\ w \in env.made /\ s.lease = w
      /\ ~ s.job.fresh /\ UNCHANGED <<settings, trash, selected, lock, env>>
  BY Parts, MadeAreIds DEF LockRules, Doing, Own, CallKnown, LeaseKnown, files
<1>1. /\ kept \in Process /\ kept.pc = "lock" /\ kept.job = s.job
      /\ kept.active = s.active /\ kept.cfg = s.cfg
      /\ kept.readOnly = s.readOnly /\ kept.lease = s.lease
      /\ kept.drafts = s.drafts
      /\ unrule => kept.ruleWs = None /\ kept.rule = None
      /\ ~ unrule => kept.ruleWs = s.ruleWs /\ kept.rule = s.rule
  BY <1>0, NoRuleType
<1>2. /\ base \in [Ids -> [Rules -> Procs \cup {None}]]
      /\ \A q \in Procs \ {p}, v \in Ids, x \in Rules :
           base[v][x] = q <=> ruleLock[v][x] = q
      /\ \A v \in Ids, x \in Rules :
           base[v][x] = p <=> kept.ruleWs = v /\ kept.rule = x
  <2>1. CASE unrule
    <3>1. base = WithoutRule(p)
      BY <2>1
    <3> QED
      BY <1>0, <1>1, <2>1, <3>1, WithoutRuleValue
  <2>2. CASE ~ unrule
    <3>1. base = ruleLock /\ RulesKnown(p)
      BY <1>0, <2>2 DEF Own
    <3> QED
      BY <1>0, <1>1, <2>2, <3>1 DEF Shapes, RulesKnown
  <2> QED
    BY <2>1, <2>2
<1>3. /\ kept.rule = None <=> kept.ruleWs = None
      /\ kept.rule # None => kept.ruleWs = kept.lease
  BY <1>0, <1>1 DEF Own, RulesKnown
<1>4. s.job.locks \in SUBSET Rules
  BY <1>0, JobFields
<1>5. ASSUME NEW t \in Process, procs' = [procs EXCEPT ![p] = t],
             t.active = s.active, t.cfg = s.cfg, t.readOnly = s.readOnly,
             t.lease = s.lease, t.drafts = s.drafts,
             t.ruleWs = kept.ruleWs, t.rule = kept.rule,
             \/ t.pc = "publish" /\ t.job = s.job
             \/ t.pc = "idle" /\ t.job = NoJob,
             ruleLock' \in [Ids -> [Rules -> Procs \cup {None}]],
             \A q \in Procs \ {p}, v \in Ids, x \in Rules :
               ruleLock'[v][x] = q <=> ruleLock[v][x] = q,
             \A v \in Ids, x \in Rules : ruleLock'[v][x] = p <=>
               \/ t.ruleWs = v /\ t.rule = x
               \/ t.pc = "publish" /\ w = v /\ x \in s.job.locks
      PROVE  IInv' /\ Kept
  <2> HIDE DEF base, kept
  <2>1. /\ procs' \in [Procs -> Process] /\ procs'[p] = t
        /\ \A q \in Procs \ {p} : procs'[q] = procs[q]
    BY <1>0, <1>5, PutProcess
  <2>2. Shapes' /\ Given'
    BY <1>0, <1>5, <2>1 DEF Shapes, Given
  <2>3. LeaseKnown(p)'
    BY <1>0, <1>5, <2>1, NoJobType DEF Own, LeaseKnown
  <2>4. RulesKnown(p)'
    BY <1>1, <1>3, <1>5, <2>1 DEF RulesKnown
  <2>5. CallKnown(p)'
    BY <1>0, <1>5, <2>1, NoJobType DEF Own, CallKnown
  <2>6. ContentKnown(p)'
    BY <1>0, <1>5, <2>1 DEF Own, ContentKnown, Knows
  <2>7. \A q \in Procs \ {p} : Untouched(q)
    BY <1>0, <1>5, <2>1 DEF Untouched
  <2> QED
    BY <1>0, <2>2, <2>3, <2>4, <2>5, <2>6, <2>7, StepOf, SettingsKept DEF Own
<1>6. CASE busy = {} /\ ruleLock' = all
           /\ procs' = [procs EXCEPT ![p] = Advanced(kept, "publish")]
  <2> DEFINE t == Advanced(kept, "publish")
  <2>1. t \in Process /\ t.pc = "publish" /\ t.job = s.job /\ Same(kept, t)
    <3>1. kept \in Process /\ "publish" \in Pcs /\ kept.job = s.job
      BY <1>1, PcNames
    <3> HIDE DEF kept
    <3> QED
      BY <3>1, AdvancedType
  <2>2. \A x \in s.job.locks : base[w][x] # None => mine(x)
    BY <1>6
  <2>3. \A x \in s.job.locks : base[w][x] # None => ruleLock[w][x] = p
    BY <1>0, <1>4, <2>2 DEF Own, RulesKnown
  <2>4. procs' = [procs EXCEPT ![p] = t]
    BY <1>6
  <2>5. /\ ruleLock' \in [Ids -> [Rules -> Procs \cup {None}]]
        /\ \A v \in Ids, x \in Rules : ruleLock'[v][x] =
             IF v = w /\ x \in s.job.locks THEN p ELSE base[v][x]
    <3> HIDE DEF base
    <3>1. [r \in Rules |-> IF r \in s.job.locks THEN p ELSE base[w][r]]
             \in [Rules -> Procs \cup {None}]
      BY <1>0, <1>2
    <3> QED
      BY <1>0, <1>2, <1>6, <3>1
  <2> HIDE DEF base, kept, t, mine
  <2>6. \A q \in Procs \ {p}, v \in Ids, x \in Rules :
          ruleLock'[v][x] = q <=> ruleLock[v][x] = q
    BY <1>2, <2>3, <2>5
  <2>7. \A v \in Ids, x \in Rules : ruleLock'[v][x] = p <=>
          \/ t.ruleWs = v /\ t.rule = x
          \/ t.pc = "publish" /\ w = v /\ x \in s.job.locks
    BY <1>2, <2>1, <2>5 DEF Same
  <2> QED
    BY <1>1, <1>5, <2>1, <2>4, <2>5, <2>6, <2>7, ZenonT(60) DEF Same
<1>7. CASE ruleLock' = base /\ procs' = [procs EXCEPT ![p] =
                IF unrule THEN NoRule(Ended(@)) ELSE Ended(@)]
  <2> DEFINE e == Ended(s)
             t == IF unrule THEN NoRule(e) ELSE e
  <2>1. e \in Process /\ e.pc = "idle" /\ e.job = NoJob /\ Same(s, e)
    BY <1>0, EndedType
  <2>2. procs' = [procs EXCEPT ![p] = t]
    BY <1>7
  <2> HIDE DEF e
  <2>3. /\ t \in Process /\ t.pc = "idle" /\ t.job = NoJob
        /\ t.active = s.active /\ t.cfg = s.cfg /\ t.readOnly = s.readOnly
        /\ t.lease = s.lease /\ t.drafts = s.drafts
        /\ t.ruleWs = kept.ruleWs /\ t.rule = kept.rule
    <3> HIDE DEF kept
    <3>1. CASE unrule
      BY <1>1, <2>1, <3>1, NoRuleType DEF Same
    <3>2. CASE ~ unrule
      BY <1>1, <2>1, <3>2 DEF Same
    <3> QED
      BY <3>1, <3>2
  <2>4. ruleLock' = base
    BY <1>7
  <2> HIDE DEF base, kept, t
  <2>5. /\ ruleLock' \in [Ids -> [Rules -> Procs \cup {None}]]
        /\ \A q \in Procs \ {p}, v \in Ids, x \in Rules :
             ruleLock'[v][x] = q <=> ruleLock[v][x] = q
        /\ \A v \in Ids, x \in Rules : ruleLock'[v][x] = p <=>
             \/ t.ruleWs = v /\ t.rule = x
             \/ t.pc = "publish" /\ w = v /\ x \in s.job.locks
    BY <1>2, <2>3, <2>4
  <2> HIDE DEF w, unrule
  <2> QED
    BY <1>5, <2>2, <2>3, <2>5
<1> QED
  <2>1. CASE busy = {}
    <3>1. procs' = [procs EXCEPT ![p] = IF unrule THEN Advanced(NoRule(s), "publish")
                                        ELSE Advanced(s, "publish")]
      BY <2>1 DEF LockRules, LockFree, Target
    <3>2. ruleLock' = all
      BY <2>1 DEF LockRules, LockFree, Target
    <3> QED
      BY <1>6, <2>1, <3>1, <3>2
  <2>2. CASE busy # {}
    BY <1>7, <2>2 DEF LockRules, LockFree, Target
  <2> QED
    BY <2>1, <2>2

(* What a call that installs its rules gives back. *)
LEMMA ReleaseValue ==
    ASSUME IInv, NEW p \in Procs, procs[p].pc = "publish", NEW all \in BOOLEAN,
           ReleaseRules(p, all)
    PROVE  /\ ruleLock' \in [Ids -> [Rules -> Procs \cup {None}]]
           /\ \A q \in Procs \ {p}, w \in Ids, r \in Rules :
                ruleLock'[w][r] = q <=> ruleLock[w][r] = q
           /\ \A w \in Ids, r \in Rules :
                ruleLock'[w][r] = p <=>
                  ~ all /\ procs[p].ruleWs = w /\ procs[p].rule = r
<1> DEFINE s == procs[p]
           id == procs[p].job.id
           mine == IF all THEN s.job.locks \cup {s.rule} ELSE Taken(p)
<1>0. /\ ruleLock \in [Ids -> [Rules -> Procs \cup {None}]] /\ id \in Ids
      /\ RulesKnown(p) /\ s.lease = id
      /\ s.ruleWs \in Ids \cup {None} /\ s.rule \in Rules \cup {None}
  BY Parts, MadeAreIds, ProcessFields DEF Shapes, Own, CallKnown
<1>1. /\ ruleLock' \in [Ids -> [Rules -> Procs \cup {None}]]
      /\ \A w \in Ids, r \in Rules : ruleLock'[w][r] =
           IF w = id /\ r \in mine /\ ruleLock[w][r] = p THEN None ELSE ruleLock[w][r]
  <2> DEFINE left == [r \in Rules |-> IF r \in mine /\ ruleLock[id][r] = p
                                      THEN None ELSE ruleLock[id][r]]
  <2>1. ruleLock' = [ruleLock EXCEPT ![id] = left]
    BY DEF ReleaseRules, Target
  <2>2. /\ left \in [Rules -> Procs \cup {None}]
        /\ \A r \in Rules : left[r] = IF r \in mine /\ ruleLock[id][r] = p
                                      THEN None ELSE ruleLock[id][r]
    BY <1>0
  <2> HIDE DEF left, mine
  <2> QED
    BY <1>0, <2>1, <2>2
<1>2. \A w \in Ids, r \in Rules : ruleLock[w][r] = p =>
        /\ w = id
        /\ r \in mine <=> all \/ ~ (s.ruleWs = w /\ s.rule = r)
  BY <1>0 DEF RulesKnown, Taken, Target
<1>3. \A w \in Ids, r \in Rules :
        s.ruleWs = w /\ s.rule = r => ruleLock[w][r] = p
  BY <1>0 DEF RulesKnown
<1> HIDE DEF mine
<1> QED
  BY <1>0, <1>1, <1>2, <1>3

(* New rules are installed: setting.json names them. *)
LEMMA PublishStep ==
    ASSUME IInv, NEW p \in Procs, Publish(p) PROVE IInv' /\ Kept
<1> DEFINE s == procs[p]
           id == procs[p].job.id
           new == Written(p, s.job.rules)
           importing == s.job.kind = "import"
           drafts == IF s.job.kind = "rules"
                     THEN [s.drafts EXCEPT ![id] =
                             Over([r \in s.job.edits |-> None], s.drafts[id])]
                     ELSE s.drafts
           done == [Ended(s) EXCEPT !.cfg = new, !.drafts = drafts]
<1>0. /\ Shapes /\ Given /\ Own(p) /\ s \in Process /\ s.job \in Job
      /\ s.pc = "publish" /\ id \in env.made /\ id \in Ids /\ s.lease = id
      /\ lock[id] = p /\ ~ s.job.fresh /\ env \in Env
      /\ UNCHANGED <<trash, selected, lock>>
  <2>1. Shapes /\ Given /\ Own(p) /\ s \in Process /\ s.job \in Job
    BY Parts
  <2>2. s.pc = "publish" /\ UNCHANGED <<trash, selected, lock>>
    BY DEF Publish, Doing
  <2>3. id \in env.made /\ s.lease = id
    BY <2>1, <2>2 DEF Own, CallKnown
  <2>4. id \in Ids /\ env \in Env
    BY <2>1, <2>3, MadeAreIds DEF Shapes
  <2>5. lock[id] = p /\ ~ s.job.fresh
    BY <2>1, <2>2, <2>3, <2>4 DEF Own, LeaseKnown
  <2> QED
    BY <2>1, <2>2, <2>3, <2>4, <2>5
<1>1. /\ new \in Setting /\ new # None /\ new.rules = s.job.rules /\ new.by = p
  BY <1>0, JobFields, WrittenType
<1>2. Knows(s, p, settings[id])
  BY <1>0 DEF Own, ContentKnown
<1> HIDE DEF new
<1>3. drafts \in [Ids -> Package]
  <2> DEFINE edits == s.job.edits
             old == s.drafts[id]
             none == [r \in edits |-> None]
  <2>1. s.drafts \in [Ids -> Package] /\ edits \in SUBSET Rules
    BY <1>0, ProcessFields, JobFields
  <2>2. none \in [edits -> Revisions \cup {None}] /\ old \in Package
    BY <1>0, <2>1
  <2>3. Over(none, old) \in Package
    <3> HIDE DEF none, old, edits
    <3> QED
      BY <2>1, <2>2, OverType
  <2> QED
    BY <1>0, <2>1, <2>3
<1> HIDE DEF drafts
<1>4. /\ done \in Process /\ done.pc = "idle" /\ done.job = NoJob
      /\ done.active = s.active /\ done.cfg = new
      /\ done.readOnly = s.readOnly /\ done.lease = s.lease
      /\ done.ruleWs = s.ruleWs /\ done.rule = s.rule
  <2> DEFINE u == Ended(s)
  <2>1. u \in Process /\ u.pc = "idle" /\ u.job = NoJob /\ Same(s, u)
    BY <1>0, EndedType
  <2>2. done = [u EXCEPT !.cfg = new, !.drafts = drafts]
    OBVIOUS
  <2> HIDE DEF u, done
  <2>3. done \in Process
    BY <1>1, <1>3, <2>1, <2>2 DEF Process
  <2>4. /\ done.pc = u.pc /\ done.job = u.job /\ done.active = u.active
        /\ done.readOnly = u.readOnly /\ done.lease = u.lease
        /\ done.ruleWs = u.ruleWs /\ done.rule = u.rule /\ done.cfg = new
    BY <2>1, <2>2 DEF Process
  <2> QED
    BY <2>1, <2>3, <2>4 DEF Same
<1>5. ASSUME NEW t \in Process, procs' = [procs EXCEPT ![p] = t],
             t.pc = "idle", t.job = NoJob, t.active = s.active, t.cfg = new,
             t.readOnly = s.readOnly, t.lease = s.lease,
             NEW all \in BOOLEAN, ReleaseRules(p, all),
             IF all THEN t.ruleWs = None /\ t.rule = None
                    ELSE t.ruleWs = s.ruleWs /\ t.rule = s.rule,
             settings' = [settings EXCEPT ![id] = new], UNCHANGED env
      PROVE  IInv' /\ Kept
  <2>1. /\ procs' \in [Procs -> Process] /\ procs'[p] = t
        /\ \A q \in Procs \ {p} : procs'[q] = procs[q]
    BY <1>0, <1>5, PutProcess
  <2>2. /\ settings' \in [Ids -> Setting \cup {None}]
        /\ \A w \in Ids : settings'[w] = IF w = id THEN new ELSE settings[w]
    BY <1>0, <1>1, <1>5 DEF Shapes
  <2>3. /\ ruleLock' \in [Ids -> [Rules -> Procs \cup {None}]]
        /\ \A q \in Procs \ {p}, w \in Ids, r \in Rules :
             ruleLock'[w][r] = q <=> ruleLock[w][r] = q
        /\ \A w \in Ids, r \in Rules :
             ruleLock'[w][r] = p <=> ~ all /\ s.ruleWs = w /\ s.rule = r
    BY <1>0, <1>5, ReleaseValue
  <2>4. Shapes' /\ Given'
    BY <1>0, <1>5, <2>1, <2>2, <2>3 DEF Shapes, Given
  <2>5. LeaseKnown(p)'
    BY <1>0, <1>1, <1>5, <2>1, NoJobType DEF Own, LeaseKnown
  <2>6. RulesKnown(p)'
    BY <1>0, <1>5, <2>1, <2>3 DEF Own, RulesKnown
  <2>7. CallKnown(p)'
    BY <1>5, <2>1, NoJobType DEF CallKnown
  <2>8. ContentKnown(p)'
    BY <1>0, <1>1, <1>5, <2>1, <2>2 DEF ContentKnown, Knows
  <2>9. \A q \in Procs \ {p} : Untouched(q)
    BY <1>0, <1>5, <2>1, <2>2, <2>3, WriteUntouched
  <2>10. Kept
    <3>1. \A r \in Rules : new.rules[r] # s.cfg.rules[r] =>
            /\ ruleLock[id][r] = p
            /\ r \in s.job.edits
            /\ s.job.kind = "rules" => s.drafts[id][r] = s.cfg.rules[r]
      BY <1>0, <1>1 DEF Own, CallKnown, RulesKnown
    <3>2. settings[id] # None
      BY <1>2 DEF Knows
    <3>3. settings' = [settings EXCEPT ![id] = new]
      BY <1>5
    <3> QED
      BY <1>0, <1>1, <1>2, <3>1, <3>2, <3>3, WriteKept
  <2> QED
    BY <2>4, <2>5, <2>6, <2>7, <2>8, <2>9, <2>10, StepOf DEF Own
<1>6. CASE /\ settings' = [settings EXCEPT ![id] = new] /\ UNCHANGED env
           /\ procs' = [procs EXCEPT ![p] = IF importing THEN NoRule(done) ELSE done]
           /\ ReleaseRules(p, importing)
  <2> HIDE DEF done
  <2>1. CASE importing
    <3> DEFINE t == NoRule(done)
    <3>1. /\ t \in Process /\ t.pc = "idle" /\ t.job = NoJob
          /\ t.active = s.active /\ t.cfg = new /\ t.readOnly = s.readOnly
          /\ t.lease = s.lease /\ t.ruleWs = None /\ t.rule = None
      BY <1>4, NoRuleType
    <3>2. procs' = [procs EXCEPT ![p] = t] /\ ReleaseRules(p, TRUE)
      BY <1>6, <2>1
    <3> HIDE DEF t
    <3> QED
      BY <1>5, <1>6, <3>1, <3>2
  <2>2. CASE ~ importing
    <3>1. procs' = [procs EXCEPT ![p] = done] /\ ReleaseRules(p, FALSE)
      BY <1>6, <2>2
    <3> QED
      BY <1>4, <1>5, <1>6, <3>1
  <2> QED
    BY <2>1, <2>2
<1>7. CASE /\ Fault /\ procs' = [procs EXCEPT ![p] = Ended(@)]
           /\ ReleaseRules(p, FALSE) /\ UNCHANGED settings
  <2> DEFINE t == Ended(s)
  <2>1. t \in Process /\ t.pc = "idle" /\ t.job = NoJob /\ Same(s, t)
    BY <1>0, EndedType
  <2>2. procs' = [procs EXCEPT ![p] = t]
    BY <1>7
  <2> HIDE DEF t
  <2>3. /\ procs' \in [Procs -> Process] /\ procs'[p] = t
        /\ \A q \in Procs \ {p} : procs'[q] = procs[q]
    BY <1>0, <2>1, <2>2, PutProcess
  <2>4. /\ ruleLock' \in [Ids -> [Rules -> Procs \cup {None}]]
        /\ \A q \in Procs \ {p}, w \in Ids, r \in Rules :
             ruleLock'[w][r] = q <=> ruleLock[w][r] = q
        /\ \A w \in Ids, r \in Rules :
             ruleLock'[w][r] = p <=> s.ruleWs = w /\ s.rule = r
    <3> DEFINE all == FALSE
    <3>1. s.pc = "publish" /\ ReleaseRules(p, all) /\ all \in BOOLEAN /\ ~ all
      BY <1>0, <1>7
    <3> HIDE DEF all
    <3> QED
      BY <3>1, ReleaseValue
  <2>5. env' \in Env /\ env'.made = env.made
    BY <1>7, FaultEnv
  <2>6. Shapes' /\ Given'
    BY <1>0, <1>7, <2>3, <2>4, <2>5 DEF Shapes, Given
  <2>7. LeaseKnown(p)' /\ RulesKnown(p)'
    BY <1>0, <2>1, <2>3, <2>4, NoJobType DEF Own, LeaseKnown, RulesKnown, Same
  <2>8. CallKnown(p)'
    BY <2>1, <2>3, NoJobType DEF CallKnown
  <2>9. ContentKnown(p)'
    BY <1>0, <1>7, <2>1, <2>3 DEF Own, ContentKnown, Knows, Same
  <2>10. \A q \in Procs \ {p} : Untouched(q)
    BY <1>0, <1>7, <2>3, <2>4, <2>5 DEF Untouched
  <2> QED
    BY <1>7, <2>6, <2>7, <2>8, <2>9, <2>10, StepOf, SettingsKept DEF Own
<1> QED
  <2>1. done = [Ended(s) EXCEPT !.cfg = new,
                  !.drafts = IF s.job.kind = "rules"
                             THEN [@ EXCEPT ![id] =
                               Over([r \in s.job.edits |-> None], s.drafts[id])]
                             ELSE @]
    BY <1>0, EndedType DEF drafts, Same
  <2> HIDE DEF done
  <2> QED
    BY <1>6, <1>7, <2>1 DEF Publish, Target, new

-----------------------------------------------------------------------------
(* The end of a process: the system releases its locks. *)
LEMMA EndStep ==
    ASSUME IInv, NEW p \in Procs, procs' = [procs EXCEPT ![p] = Closed],
           UNCHANGED files, env' \in Env, env'.made = env.made,
           lock' \in [Ids -> Procs \cup {None}],
           \A w \in Ids : lock'[w] = IF lock[w] = p THEN None ELSE lock[w],
           ruleLock' \in [Ids -> [Rules -> Procs \cup {None}]],
           \A q \in Procs \ {p}, w \in Ids, r \in Rules :
             ruleLock'[w][r] = q <=> ruleLock[w][r] = q,
           \A w \in Ids, r \in Rules : ruleLock'[w][r] # p
    PROVE  IInv' /\ Kept
<1>0. Shapes /\ Given /\ Own(p) /\ UNCHANGED <<settings, trash, selected>>
  BY Parts DEF files
<1>1. /\ procs' \in [Procs -> Process] /\ procs'[p] = Closed
      /\ \A q \in Procs \ {p} : procs'[q] = procs[q]
  BY <1>0, ClosedType, PutProcess
<1>2. Shapes' /\ Given'
  BY <1>0, <1>1 DEF Shapes, Given
<1>3. Own(p)'
  BY <1>1, ClosedType, NoJobType
     DEF Own, LeaseKnown, RulesKnown, CallKnown, ContentKnown
<1>4. \A q \in Procs \ {p} : Untouched(q)
  BY <1>0, <1>1 DEF Untouched
<1> QED
  BY <1>0, <1>2, <1>3, <1>4, StepOf, SettingsKept

LEMMA CloseStep == ASSUME IInv, NEW p \in Procs, Close(p) PROVE IInv' /\ Kept
<1>0. /\ Shapes /\ Own(p) /\ procs[p].pc = "idle" /\ ~ procs[p].job.fresh
      /\ procs[p].lease \in Ids \cup {None}
  BY Parts, AtRest, ProcessFields DEF Close, Doing
<1>1. /\ lock' \in [Ids -> Procs \cup {None}]
      /\ \A w \in Ids : lock'[w] = IF lock[w] = p THEN None ELSE lock[w]
  BY <1>0 DEF Close, Shapes, Own, LeaseKnown
<1>2. env' \in Env /\ env'.made = env.made
  BY EnvKept DEF Close
<1>3. ruleLock' = WithoutRule(p) /\ procs[p].pc # "publish"
  BY <1>0 DEF Close
<1>4. /\ ruleLock' \in [Ids -> [Rules -> Procs \cup {None}]]
      /\ \A q \in Procs \ {p}, w \in Ids, r \in Rules :
           ruleLock'[w][r] = q <=> ruleLock[w][r] = q
      /\ \A w \in Ids, r \in Rules : ruleLock'[w][r] # p
  BY <1>3, WithoutRuleValue
<1>5. procs' = [procs EXCEPT ![p] = Closed] /\ UNCHANGED files
  BY DEF Close
<1> QED
  BY <1>1, <1>2, <1>4, <1>5, EndStep

LEMMA CrashStep == ASSUME IInv, NEW p \in Procs, Crash(p) PROVE IInv' /\ Kept
<1>1. /\ lock' \in [Ids -> Procs \cup {None}]
      /\ \A w \in Ids : lock'[w] = IF lock[w] = p THEN None ELSE lock[w]
      /\ ruleLock' \in [Ids -> [Rules -> Procs \cup {None}]]
      /\ \A w \in Ids, r \in Rules : ruleLock'[w][r] =
           IF ruleLock[w][r] = p THEN None ELSE ruleLock[w][r]
  BY Parts DEF Crash, Shapes
<1>2. env' \in Env /\ env'.made = env.made
  BY EnvKept DEF Crash
<1> QED
  BY <1>1, <1>2, EndStep DEF Crash

-----------------------------------------------------------------------------
(* Every step keeps the invariant and what it says of the settings. *)
LEMMA NextIInv == ASSUME IInv, [Next]_vars PROVE IInv' /\ Kept
<1>1. CASE Next
  <2>1. PICK p \in Procs : Open(p) \/ Edit(p) \/ Delete(p) \/ EditRules(p)
                             \/ Close(p) \/ Crash(p)
    BY <1>1 DEF Next
  <2>2. CASE Open(p)
    BY <2>2, StartStep, AskEditStep, ReadSettingStep, TakeLeaseStep, AdoptStep
       DEF Open
  <2>3. CASE Edit(p)
    BY <2>3, AskEditStep, WriteSettingStep, WriteSelectedStep DEF Edit
  <2>4. CASE Delete(p)
    BY <2>4, AskEditStep, MoveStep, UnselectStep, RollbackStep DEF Delete
  <2>5. CASE EditRules(p)
    BY <2>5, OpenRuleStep, DeleteRuleStep, RulesRequestStep, CloseRuleStep,
       LockRulesStep, PublishStep DEF EditRules
  <2>6. CASE Close(p)
    BY <2>6, CloseStep
  <2>7. CASE Crash(p)
    BY <2>7, CrashStep
  <2> QED
    BY <2>1, <2>2, <2>3, <2>4, <2>5, <2>6, <2>7
<1>2. CASE UNCHANGED vars
  <2>1. UNCHANGED <<settings, trash, selected, lock, ruleLock, procs, env>>
    BY <1>2 DEF vars, files, locks
  <2>2. Shapes' /\ Given'
    BY <2>1 DEF IInv, Shapes, Given
  <2>3. \A p \in Procs : Own(p)'
    <3> TAKE p \in Procs
    <3>1. Untouched(p)
      BY <2>1 DEF Untouched
    <3> QED
      BY <3>1, OthersKeep
  <2> QED
    BY <2>1, <2>2, <2>3, SettingsKept DEF IInv
<1> QED
  BY <1>1, <1>2

(* The inductive invariant holds in every reachable state. *)
THEOREM Invariance == Spec => []IInv
<1>1. IInv /\ [Next]_vars => IInv'
  BY NextIInv
<1> QED
  BY InitIInv, <1>1, PTL DEF Spec

(* Every variable keeps its shape, and a process shows a configuration
   exactly when it shows a workspace: Service.workspace and the files under
   workspaces/. *)
THEOREM TypeCorrect == Spec => []TypeOK
<1>1. IInv => TypeOK
  BY DEF IInv, Shapes, Own, LeaseKnown, TypeOK
<1> QED
  BY Invariance, <1>1, PTL

(* A process that may edit holds the lock file of its workspace, only that
   process leases the workspace's rules, and between calls it holds exactly
   the locks it knows of, whatever calls failed or crashed before:
   obtainWorkspaceLease, adoptWorkspaceLease, resetAfterWorkspaceDelete. *)
THEOREM EditorsHoldTheirLocks == Spec => []AuthorityHeld
<1>1. IInv => AuthorityHeld
  <2> SUFFICES ASSUME IInv PROVE AuthorityHeld
    OBVIOUS
  <2>1. ASSUME NEW p \in Procs, procs[p].active # None, ~ procs[p].readOnly
        PROVE  procs[p].lease = procs[p].active /\ lock[procs[p].active] = p
    <3>1. LeaseKnown(p) /\ procs[p].active \in Ids
      BY <2>1, Parts, ProcessFields DEF Own
    <3> QED
      BY <2>1, <3>1 DEF LeaseKnown
  <2>2. ASSUME NEW w \in Ids, NEW r \in Rules, ruleLock[w][r] # None
        PROVE  lock[w] = ruleLock[w][r]
    <3>1. PICK p \in Procs : ruleLock[w][r] = p
      BY <2>2 DEF IInv, Shapes
    <3>2. LeaseKnown(p) /\ RulesKnown(p) /\ CallKnown(p)
      BY Parts DEF Own
    <3>3. procs[p].lease = w
      BY <3>1, <3>2 DEF RulesKnown, CallKnown
    <3> QED
      BY <3>1, <3>2, <3>3 DEF LeaseKnown
  <2>3. ASSUME NEW p \in Procs, procs[p].pc \in {"idle", "closed"}
        PROVE  /\ \A w \in Ids : lock[w] = p <=> procs[p].lease = w
               /\ \A w \in Ids, r \in Rules :
                    ruleLock[w][r] = p <=> /\ procs[p].ruleWs = w
                                           /\ procs[p].rule = r
    BY <2>3, Parts, AtRest DEF Own, LeaseKnown, RulesKnown
  <2> QED
    BY <2>1, <2>2, <2>3 DEF AuthorityHeld
<1> QED
  BY Invariance, <1>1, PTL

(* No setting.json of another process is overwritten unseen: saveSettings,
   RenameWorkspace, installRuleVersion. *)
THEOREM NothingOverwritten == Spec => NoForeignOverwrite
<1>1. IInv /\ [Next]_vars => Overwrites
  BY NextIInv DEF Kept
<1> QED
  BY Invariance, <1>1, PTL DEF Spec, NoForeignOverwrite, Overwrites

(* Only the rollback of its own deletion brings a workspace back:
   DeleteWorkspace. *)
THEOREM DeletedAreGone == Spec => DeletedStays
<1>1. IInv /\ [Next]_vars => Returns
  BY NextIInv DEF Kept
<1> QED
  BY Invariance, <1>1, PTL DEF Spec, DeletedStays, Returns

(* A rule changes under its lease, by a call that names it, and from the
   revision the draft was opened at: SaveRules, installRuleVersion. *)
THEOREM RulesAreCurrent == Spec => RulesFromLatest
<1>1. IInv /\ [Next]_vars => RuleChanges
  BY NextIInv DEF Kept
<1> QED
  BY Invariance, <1>1, PTL DEF Spec, RulesFromLatest, RuleChanges
=============================================================================
