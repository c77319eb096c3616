----------------------------- MODULE Workspaces -----------------------------
(***************************************************************************)
(* The workspaces of a user, shared by every process over one application *)
(* directory: engine/workspace.go, workspace_access.go, delete.go,         *)
(* rule_editor.go, rule_batch.go, rule_package.go and the lock files of    *)
(* store/workspace_lock.go.                                                *)
(*                                                                         *)
(* Service.op leaves one call at a time in a process, so a process is one  *)
(* thread.  Processes meet in the files and in the OS locks, which are     *)
(* tried once and never waited for.  A call is cut where it changes a file *)
(* or takes a lock; it may fail at each of those places.                   *)
(*                                                                         *)
(* Abstractions.  A setting.json is the number of writes it has seen, the  *)
(* rules of the package it names and, for the properties, who wrote it.    *)
(* A rule is its revision, a digest of its content.                        *)
(* A package that no setting names yet is part of the call that made it.   *)
(* What opening a workspace restores from its queue is left to Execution.  *)
(***************************************************************************)
EXTENDS Naturals, FiniteSets

CONSTANTS Procs,      \* processes of one user: windows and command lines
          Ids,        \* workspace ids that uid() may return
          Rules,      \* rule ids
          Revisions,  \* what a rule may say
          None,       \* no workspace, setting, rule, revision or holder
          MaxOps,     \* bound: processes started and calls begun
          MaxFaults,  \* bound: failing calls
          MaxCrashes  \* bound: process ends within a call

ASSUME NoneAssumption == None \notin Procs \cup Ids \cup Rules \cup Revisions
ASSUME BoundAssumption == /\ MaxOps \in Nat
                          /\ MaxFaults \in Nat
                          /\ MaxCrashes \in Nat

VARIABLES settings,  \* workspaces/<id>/setting.json
          trash,     \* workspace-trash
          selected,  \* the selection in the application's settings
          lock,      \* holders of workspace-locks/<id>/.edit.lock
          ruleLock,  \* holders of workspace-locks/<id>/rule-locks
          procs,     \* the Service of each process
          env        \* bounds, and the ids given out

files == <<settings, trash, selected>>
locks == <<lock, ruleLock>>
vars == <<files, locks, procs, env>>

-----------------------------------------------------------------------------
(* Types. *)
Package == [Rules -> Revisions \cup {None}]
Setting == [rev : Nat, rules : Package, by : Procs \cup {None}]
ASSUME SettingAssumption == None \notin Setting
Kinds == {"none", "select", "save", "rename", "set", "retarget", "create",
          "delete", "rules", "import", "unrule"}
Job == [kind : Kinds, id : Ids \cup {None}, read : Setting \cup {None},
        persist : BOOLEAN, fresh : BOOLEAN, owned : BOOLEAN,
        rules : Package, locks : SUBSET Rules, edits : SUBSET Rules,
        others : SUBSET Ids]
Process == [pc : {"closed", "idle", "read", "lease", "adopt", "lock",
                  "publish", "write", "select", "move", "unselect",
                  "rollback"},
            active : Ids \cup {None}, cfg : Setting \cup {None},
            readOnly : BOOLEAN, lease : Ids \cup {None},
            ruleWs : Ids \cup {None}, rule : Rules \cup {None},
            drafts : [Ids -> Package], job : Job]
(* The bounds used up, and the ids given out. *)
Env == [ops : Nat, faults : Nat, crashes : Nat, made : SUBSET Ids]

NoRules == [r \in Rules |-> None]
NoJob == [kind |-> "none", id |-> None, read |-> None, persist |-> FALSE,
          fresh |-> FALSE, owned |-> FALSE, rules |-> NoRules, locks |-> {},
          edits |-> {}, others |-> {}]
Closed == [pc |-> "closed", active |-> None, cfg |-> None,
           readOnly |-> FALSE, lease |-> None, ruleWs |-> None,
           rule |-> None, drafts |-> [w \in Ids |-> NoRules], job |-> NoJob]

(* Some workspaces exist, each with rules. *)
Init == \E old \in SUBSET Ids, rules \in Package :
    /\ settings = [w \in Ids |-> IF w \in old
                     THEN [rev |-> 0, rules |-> rules, by |-> None] ELSE None]
    /\ trash = [w \in Ids |-> None]
    /\ selected = None
    /\ lock = [w \in Ids |-> None]
    /\ ruleLock = [w \in Ids |-> [r \in Rules |-> None]]
    /\ procs = [p \in Procs |-> Closed]
    /\ env = [ops |-> 0, faults |-> 0, crashes |-> 0, made |-> old]

(* A process turns to the next step of a call. *)
Called(s, pc, job) == [s EXCEPT !.pc = pc, !.job = job]
Advanced(s, pc) == [s EXCEPT !.pc = pc]

Existing == {w \in Ids : settings[w] # None}
Doing(p, pc) == procs[p].pc = pc
Target(p) == procs[p].job.id

-----------------------------------------------------------------------------
(* Leases.  A lock file is never removed, so it locks the same inode before *)
(* and after a deletion. *)
LockFree(l) == l = None
WithoutRule(p) ==
    IF procs[p].rule = None THEN ruleLock
    ELSE [ruleLock EXCEPT ![procs[p].ruleWs][procs[p].rule] = None]
NoRule(s) == [s EXCEPT !.ruleWs = None, !.rule = None]
Leased(s, lease) == [s EXCEPT !.lease = lease]
(* adoptWorkspaceLease: another workspace's rule lease goes first. *)
LeaseMoves(p, id) == procs[p].lease # id
AdoptLease(p, id, lease, s) ==
    /\ lock' = IF procs[p].lease \in {None, lease} THEN lock
               ELSE [lock EXCEPT ![procs[p].lease] = None]
    /\ IF LeaseMoves(p, id)
       THEN /\ ruleLock' = WithoutRule(p)
            /\ procs' = [procs EXCEPT ![p] = Leased(NoRule(s), lease)]
       ELSE /\ procs' = [procs EXCEPT ![p] = Leased(s, lease)]
            /\ UNCHANGED ruleLock

Ended(s) == Called(s, "idle", NoJob)
Showing(s, id, cfg, readOnly) ==
    [Ended(s) EXCEPT !.active = id, !.cfg = cfg, !.readOnly = readOnly]
Goto(p, pc) == procs' = [procs EXCEPT ![p] = Advanced(@, pc)]
Fault == /\ env.faults < MaxFaults
         /\ env' = [env EXCEPT !.faults = @ + 1]

(* idle and editable. *)
Editable(p) == /\ Doing(p, "idle")
               /\ procs[p].active # None
               /\ ~ procs[p].readOnly
               /\ procs[p].lease = procs[p].active

Ask(p, job, pc) ==
    /\ Doing(p, "idle")
    /\ env.ops < MaxOps
    /\ env' = [env EXCEPT !.ops = @ + 1]
    /\ procs' = [procs EXCEPT ![p] = Called(@, pc, job)]
    /\ UNCHANGED <<files, locks>>
JobOf(kind, id) == [NoJob EXCEPT !.kind = kind, !.id = id]

-----------------------------------------------------------------------------
(* activateWorkspace: read the setting, try the lease, read the setting
   again when the lease is new, save the selection, adopt. *)
Start(p) ==
    /\ Doing(p, "closed")
    /\ env.ops < MaxOps
    /\ env' = [env EXCEPT !.ops = @ + 1]
    /\ \/ /\ Existing = {}
          /\ Goto(p, "idle")
       \/ \E w \in Existing :
            /\ selected \in Existing => w = selected
            /\ procs' = [procs EXCEPT ![p] =
                            Called(@, "read", JobOf("select", w))]
    /\ UNCHANGED <<files, locks>>

AskSelect(p) == \E w \in env.made :
    Ask(p, [JobOf("select", w) EXCEPT !.persist = TRUE], "read")

ReadSetting(p) ==
    /\ Doing(p, "read")
    /\ procs' = [procs EXCEPT ![p] =
         IF settings[Target(p)] = None THEN Ended(@)
         ELSE Called(@, "lease", [@.job EXCEPT !.read = settings[Target(p)]])]
    /\ UNCHANGED <<files, locks, env>>

(* obtainWorkspaceLease.  A busy workspace opens for reading. *)
TakeLease(p) ==
    LET own == procs[p].lease = Target(p)
        free == LockFree(lock[Target(p)])
    IN /\ Doing(p, "lease")
       /\ lock' = IF ~ own /\ free THEN [lock EXCEPT ![Target(p)] = p]
                  ELSE lock
       /\ procs' = [procs EXCEPT ![p] = Called(@, "adopt",
                       [@.job EXCEPT !.fresh = ~ own /\ free,
                                     !.owned = ~ own /\ ~ free])]
       /\ UNCHANGED <<files, ruleLock, env>>

ReadBefore(p) == procs[p].job.read
ReadAgain(p) == IF procs[p].job.fresh THEN settings[Target(p)]
                ELSE procs[p].job.read

(* The deferred release of a lease that was not adopted. *)
GiveBack(p) ==
    /\ procs' = [procs EXCEPT ![p] = Ended(@)]
    /\ lock' = IF procs[p].job.fresh
               THEN [lock EXCEPT ![Target(p)] = None] ELSE lock
(* Variant: the lease stays. *)
KeepLease(p) == procs' = [procs EXCEPT ![p] = Ended(@)] /\ UNCHANGED lock
NotAdopted(p) == GiveBack(p)

Adopt(p) ==
    /\ Doing(p, "adopt")
    /\ LET now == ReadAgain(p)
           lease == IF procs[p].job.owned THEN None ELSE Target(p)
       IN \/ /\ now # None
             /\ selected' = IF procs[p].job.persist THEN Target(p)
                            ELSE selected
             /\ AdoptLease(p, Target(p), lease,
                  Showing(procs[p], Target(p), now, procs[p].job.owned))
             /\ UNCHANGED env
          \/ /\ now = None
             /\ NotAdopted(p)
             /\ UNCHANGED <<selected, ruleLock, env>>
          \/ /\ Fault
             /\ NotAdopted(p)
             /\ UNCHANGED <<selected, ruleLock>>
    /\ UNCHANGED <<settings, trash>>

-----------------------------------------------------------------------------
(* Calls that replace setting.json of the workspace being edited: settings,
   name, target folder, diagnostics, connection. *)
AskSave(p) == /\ Editable(p)
              /\ settings[procs[p].active] # None
              /\ Ask(p, JobOf("save", procs[p].active), "write")
AskRename(p) == /\ Editable(p)
                /\ Ask(p, JobOf("rename", procs[p].active), "write")
AskSet(p) == /\ Editable(p)
             /\ Ask(p, JobOf("set", procs[p].active), "write")
AskRetarget(p) == /\ Editable(p)
                  /\ settings[procs[p].active] # None
                  /\ Ask(p, JobOf("retarget", procs[p].active), "write")

(* createWorkspace: a new id, its lease, a copy of the rules when another
   workspace is duplicated. *)
Create(p, rules) ==
    /\ env.ops < MaxOps
    /\ \E w \in Ids \ env.made :
         /\ env' = [env EXCEPT !.ops = @ + 1, !.made = @ \cup {w}]
         /\ lock' = [lock EXCEPT ![w] = p]
         /\ procs' = [procs EXCEPT ![p] = Called(@, "write",
              [JobOf("create", w) EXCEPT !.fresh = TRUE, !.rules = rules])]
    /\ UNCHANGED <<files, ruleLock>>
AskCreate(p) == Doing(p, "idle") /\ Create(p, NoRules)
AskDuplicate(p) ==
    /\ Editable(p)
    /\ Create(p, procs[p].cfg.rules)

PackageOf(p) == IF procs[p].job.kind = "create" THEN procs[p].job.rules
                ELSE procs[p].cfg.rules
Written(p, rules) ==
    LET old == settings[Target(p)] IN
    [rev |-> IF old = None THEN 0 ELSE old.rev + 1, rules |-> rules,
     by |-> p]

WriteSetting(p) ==
    /\ Doing(p, "write")
    /\ LET new == Written(p, PackageOf(p)) IN
       \/ /\ settings' = [settings EXCEPT ![Target(p)] = new]
          /\ UNCHANGED env
          /\ CASE procs[p].job.kind \in {"save", "rename", "create"} ->
                    /\ procs' = [procs EXCEPT ![p] =
                         Called(@, "select", [@.job EXCEPT !.read = new])]
                    /\ UNCHANGED locks
               [] procs[p].job.kind = "set" ->
                    /\ procs' = [procs EXCEPT
                                   ![p] = [Ended(@) EXCEPT !.cfg = new]]
                    /\ UNCHANGED locks
               [] procs[p].job.kind = "retarget" ->
                    /\ procs' = [procs EXCEPT
                         ![p] = [NoRule(Ended(@)) EXCEPT !.cfg = new]]
                    /\ ruleLock' = WithoutRule(p)
                    /\ UNCHANGED lock
       \/ /\ Fault
          /\ NotAdopted(p)
          /\ UNCHANGED <<settings, ruleLock>>
    /\ UNCHANGED <<trash, selected>>

(* The selection follows; the call fails with the setting replaced when it
   cannot be saved. *)
WriteSelected(p) ==
    /\ Doing(p, "select")
    /\ \/ /\ selected' = Target(p)
          /\ AdoptLease(p, Target(p), Target(p),
               Showing(procs[p], Target(p), procs[p].job.read, FALSE))
          /\ UNCHANGED env
       \/ /\ Fault
          /\ NotAdopted(p)
          /\ UNCHANGED <<selected, ruleLock>>
    /\ UNCHANGED <<settings, trash>>

-----------------------------------------------------------------------------
(* DeleteWorkspace holds its lease through the move and the rollback. *)
AskDelete(p) ==
    /\ Editable(p)
    /\ settings[procs[p].active] # None
    /\ Ask(p, [JobOf("delete", procs[p].active) EXCEPT
                 !.others = Existing \ {procs[p].active}], "move")

Move(p) ==
    /\ Doing(p, "move")
    /\ \/ /\ trash' = [trash EXCEPT ![Target(p)] = settings[Target(p)]]
          /\ settings' = [settings EXCEPT ![Target(p)] = None]
          /\ Goto(p, "unselect")
          /\ UNCHANGED env
       \/ /\ Fault
          /\ procs' = [procs EXCEPT ![p] = Ended(@)]
          /\ UNCHANGED <<trash, settings>>
    /\ UNCHANGED <<selected, locks>>

(* resetAfterWorkspaceDelete: the process edits nothing any more. *)
KeepAuthority(s) == s
DropSelection(s) == [s EXCEPT !.active = None, !.lease = None,
                              !.ruleWs = None, !.rule = None]
DropAuthority(s) == [s EXCEPT !.active = None, !.cfg = None, !.lease = None,
                              !.ruleWs = None, !.rule = None]
Reset(p, s) ==
    /\ procs' = [procs EXCEPT ![p] = s]
    /\ lock' = [lock EXCEPT ![procs[p].lease] = None]
    /\ ruleLock' = WithoutRule(p)

Unselect(p) ==
    /\ Doing(p, "unselect")
    /\ \/ \E next \in IF procs[p].job.others = {} THEN {None}
                      ELSE procs[p].job.others :
            /\ selected' = next
            /\ Reset(p, LET s == DropAuthority(procs[p]) IN
                 IF next = None THEN Ended(s)
                 ELSE Called(s, "read", JobOf("select", next)))
            /\ UNCHANGED env
       \/ /\ Fault
          /\ Goto(p, "rollback")
          /\ UNCHANGED <<selected, locks>>
    /\ UNCHANGED <<settings, trash>>

Rollback(p) ==
    /\ Doing(p, "rollback")
    /\ \/ /\ settings[Target(p)] = None
          /\ settings' = [settings EXCEPT ![Target(p)] = trash[Target(p)]]
          /\ trash' = [trash EXCEPT ![Target(p)] = None]
          /\ procs' = [procs EXCEPT ![p] = Ended(@)]
          /\ UNCHANGED <<locks, env>>
       \/ /\ Fault
          /\ Reset(p, DropAuthority(Ended(procs[p])))
          /\ UNCHANGED <<settings, trash>>
    /\ UNCHANGED selected

-----------------------------------------------------------------------------
(* Rules.  OpenRule reads the package on disk and takes the rule's lease;
   the editor keeps the revision it showed. *)
Editing(s, w, r, rev) ==
    [s EXCEPT !.ruleWs = w, !.rule = r,
              !.drafts = [s.drafts EXCEPT ![w][r] = rev]]
OpenRule(p, r) ==
    LET w == procs[p].active
        rev == settings[w].rules[r]
        mine == procs[p].ruleWs = w /\ procs[p].rule = r
        free == LockFree(WithoutRule(p)[w][r])
    IN /\ Doing(p, "idle")
       /\ env.ops < MaxOps
       /\ env' = [env EXCEPT !.ops = @ + 1]
       /\ w # None
       /\ settings[w] # None
       /\ rev # None
       /\ \/ /\ procs[p].readOnly
             /\ ruleLock' = WithoutRule(p)
             /\ procs' = [procs EXCEPT ![p] = NoRule(@)]
          \/ /\ Editable(p)
             /\ ruleLock' = IF mine \/ free
                            THEN [WithoutRule(p) EXCEPT ![w][r] = p]
                            ELSE WithoutRule(p)
             /\ procs' = [procs EXCEPT ![p] =
                  IF mine \/ free
                  THEN Editing(@, w, r, rev)
                  ELSE NoRule(@)]
       /\ UNCHANGED <<files, lock>>

CloseRule(p) ==
    /\ Doing(p, "idle")
    /\ procs[p].rule # None
    /\ ruleLock' = WithoutRule(p)
    /\ procs' = [procs EXCEPT ![p] = NoRule(@)]
    /\ UNCHANGED <<files, lock, env>>

Over(new, old) == [r \in Rules |-> IF r \in DOMAIN new THEN new[r] ELSE old[r]]

(* saveRules: every draft must be based on the revision that is on disk; a
   draft without a revision creates its rule. *)
AnyRevision(draft, stored) == draft = None <=> stored = None
SameRevision(draft, stored) == draft = stored
RulesJob(p, kind, rules, edited, locked) ==
    [JobOf(kind, procs[p].active) EXCEPT
       !.rules = rules, !.edits = edited, !.locks = locked]
SaveRules(p, edits) ==
    LET w == procs[p].active
        stored == settings[w].rules
    IN /\ Editable(p)
       /\ settings[w] # None
       /\ edits # {}
       /\ \A r \in edits : SameRevision(procs[p].drafts[w][r], stored[r])
       /\ \E new \in [edits -> Revisions] :
            Ask(p, RulesJob(p, "rules", Over(new, stored), edits, edits), "lock")

(* ImportRulePackage and DeleteRule start from the package the process has
   in memory.  A merge renames what it brings in, a replacement does not. *)
InMemory(p) == procs[p].cfg.rules
Present(rules) == {r \in Rules : rules[r] # None}
Import(p, new, old, edited) ==
    Ask(p, RulesJob(p, "import", Over(new, old), edited,
                    DOMAIN new \cup Present(InMemory(p))), "lock")
MergeRules(p, ids) ==
    /\ Editable(p)
    /\ ids # {} /\ ids \cap Present(InMemory(p)) = {}
    /\ \E new \in [ids -> Revisions] : Import(p, new, InMemory(p), ids)
ReplaceRules(p, ids) ==
    /\ Editable(p)
    /\ ids # {}
    /\ \E new \in [ids -> Revisions] :
         Import(p, new, NoRules, ids \cup Present(InMemory(p)))
DeleteRule(p, r) ==
    /\ Editable(p)
    /\ r \in Present(InMemory(p))
    /\ Ask(p, RulesJob(p, "unrule", [InMemory(p) EXCEPT ![r] = None], {r},
                       {r}), "lock")

(* The editor's own lease counts; the others are tried one after another
   and given back when one of them is busy. *)
LockRules(p) ==
    LET w == Target(p)
        base == IF procs[p].job.kind = "unrule" THEN WithoutRule(p)
                ELSE ruleLock
        busy == {r \in procs[p].job.locks :
                   /\ ~ LockFree(base[w][r])
                   /\ ~ (procs[p].ruleWs = w /\ procs[p].rule = r)}
    IN /\ Doing(p, "lock")
       /\ IF busy = {}
          THEN /\ ruleLock' = [base EXCEPT ![w] = [r \in Rules |->
                     IF r \in procs[p].job.locks THEN p ELSE base[w][r]]]
               /\ procs' = [procs EXCEPT ![p] =
                    IF procs[p].job.kind = "unrule"
                    THEN Advanced(NoRule(@), "publish")
                    ELSE Advanced(@, "publish")]
          ELSE /\ ruleLock' = base
               /\ procs' = [procs EXCEPT ![p] =
                    IF procs[p].job.kind = "unrule" THEN NoRule(Ended(@))
                    ELSE Ended(@)]
       /\ UNCHANGED <<files, lock, env>>

(* The leases taken for this call alone; a successful import also closes
   the editor, whose rule may be gone. *)
Taken(p) == procs[p].job.locks \ (IF procs[p].ruleWs = Target(p)
                                  THEN {procs[p].rule} ELSE {})
ReleaseRules(p, all) ==
    LET mine == IF all THEN procs[p].job.locks \cup {procs[p].rule}
                ELSE Taken(p)
    IN ruleLock' = [ruleLock EXCEPT ![Target(p)] =
         [r \in Rules |-> IF r \in mine /\ ruleLock[Target(p)][r] = p
                          THEN None ELSE ruleLock[Target(p)][r]]]
(* installRuleVersion: a new version directory is filled and checked, and
   setting.json, the only commit point, names it. *)
Publish(p) ==
    /\ Doing(p, "publish")
    /\ LET new == Written(p, procs[p].job.rules)
           importing == procs[p].job.kind = "import"
           based == Over([r \in procs[p].job.edits |-> None],
                         procs[p].drafts[Target(p)])
           done == [Ended(procs[p]) EXCEPT !.cfg = new,
                      !.drafts = IF procs[p].job.kind = "rules"
                                 THEN [@ EXCEPT ![Target(p)] = based]
                                 ELSE @]
       IN \/ /\ settings[Target(p)] # None
             /\ settings' = [settings EXCEPT ![Target(p)] = new]
             /\ UNCHANGED env
             /\ procs' = [procs EXCEPT ![p] = IF importing THEN NoRule(done)
                                              ELSE done]
             /\ ReleaseRules(p, importing)
          \/ /\ Fault
             /\ procs' = [procs EXCEPT ![p] = Ended(@)]
             /\ ReleaseRules(p, FALSE)
             /\ UNCHANGED settings
    /\ UNCHANGED <<trash, selected, lock>>

-----------------------------------------------------------------------------
(* Close waits for the call under way; the system releases every lock of a
   process that dies. *)
Close(p) ==
    /\ Doing(p, "idle")
    /\ ruleLock' = WithoutRule(p)
    /\ lock' = IF procs[p].lease = None THEN lock
               ELSE [lock EXCEPT ![procs[p].lease] = None]
    /\ procs' = [procs EXCEPT ![p] = Closed]
    /\ UNCHANGED <<files, env>>

Crash(p) ==
    /\ procs[p].pc \notin {"closed", "idle"}
    /\ env.crashes < MaxCrashes
    /\ env' = [env EXCEPT !.crashes = @ + 1]
    /\ lock' = [w \in Ids |-> IF lock[w] = p THEN None ELSE lock[w]]
    /\ ruleLock' = [w \in Ids |-> [r \in Rules |->
                     IF ruleLock[w][r] = p THEN None ELSE ruleLock[w][r]]]
    /\ procs' = [procs EXCEPT ![p] = Closed]
    /\ UNCHANGED files

Open(p) == Start(p) \/ AskSelect(p) \/ ReadSetting(p) \/ TakeLease(p)
             \/ Adopt(p)
Edit(p) == AskSave(p) \/ AskRename(p) \/ AskSet(p) \/ AskRetarget(p)
             \/ AskCreate(p) \/ AskDuplicate(p) \/ WriteSetting(p)
             \/ WriteSelected(p)
Delete(p) == AskDelete(p) \/ Move(p) \/ Unselect(p) \/ Rollback(p)
EditRules(p) == \/ \E r \in Rules : OpenRule(p, r) \/ DeleteRule(p, r)
                \/ \E rs \in SUBSET Rules : SaveRules(p, rs)
                     \/ MergeRules(p, rs) \/ ReplaceRules(p, rs)
                \/ CloseRule(p) \/ LockRules(p) \/ Publish(p)
Next == \E p \in Procs : Open(p) \/ Edit(p) \/ Delete(p) \/ EditRules(p)
                           \/ Close(p) \/ Crash(p)

Spec == Init /\ [][Next]_vars

-----------------------------------------------------------------------------
(* Properties. *)

(* Every variable keeps its shape; a process has a configuration exactly
   when it shows a workspace, and reads without a lease. *)
TypeOK == /\ settings \in [Ids -> Setting \cup {None}]
          /\ trash \in [Ids -> Setting \cup {None}]
          /\ selected \in Ids \cup {None}
          /\ lock \in [Ids -> Procs \cup {None}]
          /\ ruleLock \in [Ids -> [Rules -> Procs \cup {None}]]
          /\ procs \in [Procs -> Process]
          /\ env \in Env
          /\ \A p \in Procs :
               /\ procs[p].active = None <=> procs[p].cfg = None
               /\ procs[p].readOnly => procs[p].lease = None

(* A process that believes it may edit a workspace holds its lock, and a
   rule is only leased by the process that edits the workspace: switching,
   deleting, creating or failing in the middle never leaves an authority
   without its lock.  Between two calls a process holds the locks it knows of
   and no others, so no failed call keeps a workspace or a rule busy. *)
AuthorityHeld ==
    /\ \A p \in Procs :
         procs[p].active # None /\ ~ procs[p].readOnly =>
           /\ procs[p].lease = procs[p].active
           /\ lock[procs[p].active] = p
    /\ \A w \in Ids, r \in Rules :
         ruleLock[w][r] # None => lock[w] = ruleLock[w][r]
    /\ \A p \in Procs : procs[p].pc \in {"idle", "closed"} =>
         /\ \A w \in Ids : lock[w] = p <=> procs[p].lease = w
         /\ \A w \in Ids, r \in Rules :
              ruleLock[w][r] = p <=> /\ procs[p].ruleWs = w
                                     /\ procs[p].rule = r

(* A setting is replaced by a process that knew it: what another process
   wrote is never overwritten unseen.  Only a write of its own whose call
   failed afterwards may be forgotten. *)
NoForeignOverwrite ==
    [][\A w \in Ids :
         settings[w] # None /\ settings'[w] \notin {None, settings[w]} =>
           LET p == settings'[w].by IN
           settings[w] = procs[p].cfg \/ settings[w].by = p]_vars

(* A deleted workspace comes back only by the rollback of the call that
   moved it away. *)
DeletedStays ==
    [][\A w \in Ids :
         settings[w] = None /\ settings'[w] # None =>
           \E p \in Procs :
             /\ procs[p].job.id = w
             /\ \/ procs[p].pc = "rollback"
                \/ procs[p].job.kind = "create" /\ trash[w] = None]_vars

(* A rule changes only under its lease and by a call that names it, and a
   draft replaces exactly the revision it was opened at, even when the
   workspace was edited elsewhere in between. *)
RulesFromLatest ==
    [][\A w \in Ids, r \in Rules :
         LET p == settings'[w].by
             old == settings[w].rules[r]
             new == settings'[w].rules[r]
         IN settings[w] # None /\ settings'[w] \notin {None, settings[w]}
              /\ new # old =>
              /\ ruleLock[w][r] = p
              /\ r \in procs[p].job.edits
              /\ procs[p].job.kind = "rules" =>
                   procs[p].drafts[w][r] = old]_vars

=============================================================================
