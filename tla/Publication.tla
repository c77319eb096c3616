----------------------------- MODULE Publication -----------------------------
(***************************************************************************)
(* Publishing the adopted result as one commit on a new branch of the      *)
(* user's repository: engine/result_publication.go with its journal        *)
(* queue.jsonl.publications.json.  The user's own Git client works on the  *)
(* same branches and on the private branch at any moment.                  *)
(*                                                                         *)
(* The service runs one of these calls at a time (Service.op) and only     *)
(* while no run is in progress; the lease and the queue lock keep other    *)
(* processes out.  A window without the lease may look at a preview at any *)
(* moment: it writes nothing, and it may get the lease later.              *)
(*                                                                         *)
(* Abstractions.  A private commit is a number, 0 the session base, and    *)
(* stands for its tree.  A published commit is its id and the private      *)
(* commit whose tree it carries, report file or not.  The digest over      *)
(* files and message is a number that changes with every run, retry or     *)
(* discard.  A git process fails by itself or is cancelled; one killed by  *)
(* somebody else is not modelled.                                          *)
(***************************************************************************)
EXTENDS Naturals, FiniteSets

CONSTANTS Branches,     \* branch names a user may ask for
          None,         \* no branch, no preview
          Foreign,      \* a commit the program did not make
          MaxRuns,      \* bound: runs, retries and discards
          MaxRequests,  \* bound: publications asked for
          MaxFaults,    \* bound: failing or cancelled calls
          MaxCrashes,   \* bound: process ends
          MaxForeign    \* bound: what the user's Git client does

ASSUME NoneAssumption == None \notin Branches /\ None # Foreign
ASSUME BoundAssumption == /\ MaxRuns \in Nat /\ MaxRequests \in Nat
                          /\ MaxFaults \in Nat /\ MaxCrashes \in Nat
                          /\ MaxForeign \in Nat

VARIABLES result,    \* the private branch, and what the queue says of it
          branches,  \* refs/heads of the user's repository
          journal,   \* the publications journal on disk
          seen,      \* the preview shown in the window that may edit
          viewed,    \* the preview shown in a read-only window
          pub,       \* the call in progress
          env,       \* bounds, and the ids given out
          made       \* history: the refs the program created

vars == <<result, branches, journal, seen, viewed, pub, env, made>>

-----------------------------------------------------------------------------
(* Types. *)
Commit == [id : Nat, source : Nat, revision : Nat]
Record == [branch : Branches, commit : Commit, state : {"prepared", "done"}]
(* ref: the private branch; accounted: the head the queue's history ends in;
   revision: the digest a preview would have. *)
Result == [ref : Nat, accounted : Nat, revision : Nat]
ASSUME CommitAssumption == None \notin Commit /\ Foreign \notin Commit
Preview == [source : Nat, revision : Nat]
Call == [pc : {"idle", "save", "preview", "recheck", "journal", "create",
               "undo", "finish"},
         branch : Branches \cup {None}, commit : Commit \cup {None},
         records : SUBSET Record, source : Nat]
(* The bounds used up, and the ids given out. *)
Env == [runs : Nat, requests : Nat, faults : Nat, crashes : Nat, foreign : Nat,
        ids : Nat]
NoCall == [pc |-> "idle", branch |-> None, commit |-> None, records |-> {},
           source |-> 0]

Init == /\ result = [ref |-> 0, accounted |-> 0, revision |-> 0]
        /\ branches = [b \in Branches |-> None]
        /\ journal = {}
        /\ seen = None
        /\ viewed = None
        /\ pub = NoCall
        /\ env = [runs |-> 0, requests |-> 0, faults |-> 0, crashes |-> 0,
                  foreign |-> 0, ids |-> 0]
        /\ made = {}

At(pc) == pub.pc = pc
Goto(pc) == pub' = [pub EXCEPT !.pc = pc]
End == pub' = NoCall
Fault == /\ env.faults < MaxFaults
         /\ env' = [env EXCEPT !.faults = @ + 1]

-----------------------------------------------------------------------------
(* loadResultPublications: an intent whose branch does not exist was never
   published, one whose branch is at its commit was; anything else stops
   every preview and publication. *)
Published(r) == branches[r.branch] = r.commit
Loadable(j) == \A r \in j : r.state = "prepared" =>
                 branches[r.branch] = None \/ Published(r)
LoadedAsDone(j) == {[r EXCEPT !.state = "done"] : r \in j}
Loaded(j) == {[r EXCEPT !.state = "done"] :
                r \in {s \in j : s.state = "done" \/ Published(s)}}
LoadedAsIs(j) == j
Reconciled(j) == Loaded(j)
OnlyIfPublished(j) == \E r \in j : r.state = "prepared" /\ Published(r)
NeedsSaving(j) == \E r \in j : r.state = "prepared"

(* validatePublicationWorktree: a clean worktree, no discard under way, no
   commit the queue does not know and none lost. *)
Valid == result.ref = result.accounted

-----------------------------------------------------------------------------
(* GetResultPublicationPreview in the window that may edit (editable): it
   reconciles the journal, saves it, then builds the preview. *)
OpenPreview ==
    /\ At("idle")
    /\ Loadable(journal)
    /\ IF NeedsSaving(journal)
       THEN pub' = [pub EXCEPT !.pc = "save", !.records = Loaded(journal)]
       ELSE Goto("preview")
    /\ UNCHANGED <<result, branches, journal, seen, viewed, env, made>>

SaveReconciled ==
    /\ At("save")
    /\ \/ /\ journal' = pub.records
          /\ pub' = [NoCall EXCEPT !.pc = "preview"]
          /\ UNCHANGED env
       \/ /\ Fault
          /\ End
          /\ UNCHANGED journal
    /\ UNCHANGED <<result, branches, seen, viewed, made>>

ShowPreview ==
    /\ At("preview")
    /\ seen' = IF Valid /\ Loadable(journal)
               THEN [source |-> result.ref, revision |-> result.revision]
               ELSE seen
    /\ End
    /\ UNCHANGED <<result, branches, journal, viewed, env, made>>

(* In a read-only window the preview is built from the journal as it is and
   nothing is saved; the queue it was loaded with may be of an earlier run. *)
ViewPreview ==
    /\ Valid
    /\ Loadable(journal)
    /\ \E revision \in 0 .. result.revision :
         viewed' = [source |-> result.ref, revision |-> revision]
    /\ UNCHANGED <<result, branches, journal, seen, pub, env, made>>

(* The window that edited let the lease go; the other one takes it, with the
   preview it shows. *)
TakeOver ==
    /\ At("idle")
    /\ viewed # None
    /\ seen' = viewed
    /\ viewed' = None
    /\ UNCHANGED <<result, branches, journal, pub, env, made>>

-----------------------------------------------------------------------------
(* PublishResults, which needs the lease. *)
RevisionMatches == seen.revision = result.revision

(* The preview is built again and compared with the one the user saw. *)
Request(b) ==
    /\ At("idle")
    /\ env.requests < MaxRequests
    /\ env' = [env EXCEPT !.requests = @ + 1]
    /\ seen # None
    /\ Valid
    /\ Loadable(journal)
    /\ RevisionMatches
    /\ branches[b] = None
    /\ pub' = [pub EXCEPT !.pc = "recheck", !.branch = b,
                          !.source = result.ref]
    /\ UNCHANGED <<result, branches, journal, seen, viewed, made>>

(* The worktree is looked at once more; commit-tree makes an object that no
   ref names yet. *)
Recheck ==
    /\ At("recheck")
    /\ IF Valid /\ result.ref = pub.source
       THEN /\ env' = [env EXCEPT !.ids = @ + 1]
            /\ pub' = [pub EXCEPT !.pc = "journal",
                         !.commit = [id |-> env.ids + 1,
                                     source |-> pub.source,
                                     revision |-> seen.revision]]
       ELSE End /\ UNCHANGED env
    /\ UNCHANGED <<result, branches, journal, seen, viewed, made>>

Intent(state) == [branch |-> pub.branch, commit |-> pub.commit,
                  state |-> state]
Prepare ==
    /\ At("journal")
    /\ \/ /\ Loadable(journal)
          /\ LET records == Reconciled(journal) \cup {Intent("prepared")}
             IN /\ journal' = records
                /\ pub' = [pub EXCEPT !.pc = "create", !.records = records]
          /\ UNCHANGED env
       \/ /\ ~ Loadable(journal)
          /\ End
          /\ UNCHANGED <<journal, env>>
       \/ /\ Fault
          /\ End
          /\ UNCHANGED journal
    /\ UNCHANGED <<result, branches, seen, viewed, made>>

(* update-ref --stdin: one transaction verifies the private branch and
   creates the new one.  When the call is cancelled it may have committed
   or not, and the intent stays; a rejection takes the intent back. *)
Absent == branches[pub.branch] = None
RefsFit == Absent /\ result.ref = pub.source
CreateRef == /\ branches' = [branches EXCEPT ![pub.branch] = pub.commit]
             /\ made' = made \cup {<<pub.branch, pub.commit>>}
CreateBranch ==
    /\ At("create")
    /\ \/ RefsFit /\ CreateRef /\ Goto("finish") /\ UNCHANGED env
       \/ RefsFit /\ CreateRef /\ End /\ Fault
       \/ ~ RefsFit /\ Goto("undo") /\ UNCHANGED <<branches, made, env>>
       \/ End /\ Fault /\ UNCHANGED <<branches, made>>
    /\ UNCHANGED <<result, journal, seen, viewed>>

WriteRecords(records) ==
    /\ \/ journal' = records /\ UNCHANGED env
       \/ Fault /\ UNCHANGED journal
    /\ End
    /\ UNCHANGED <<result, branches, seen, viewed, made>>
WithIntent == pub.records
WithoutIntent == pub.records \ {Intent("prepared")}
Undo == At("undo") /\ WriteRecords(WithoutIntent)
Finish == At("finish")
          /\ WriteRecords(WithoutIntent \cup {Intent("done")})

-----------------------------------------------------------------------------
(* Between two calls: a run, a retry or a discard changes what would be
   published, with a commit or without. *)
Run ==
    /\ At("idle")
    /\ Valid
    /\ env.runs < MaxRuns
    /\ \E commits \in {0, 1} :
         /\ env' = [env EXCEPT !.runs = @ + 1, !.ids = @ + commits]
         /\ result' = IF commits = 1
                      THEN [ref |-> env.ids + 1, accounted |-> env.ids + 1,
                            revision |-> result.revision + 1]
                      ELSE [result EXCEPT !.revision = @ + 1]
    /\ UNCHANGED <<branches, journal, seen, viewed, pub, made>>

Crash ==
    /\ env.crashes < MaxCrashes
    /\ env' = [env EXCEPT !.crashes = @ + 1]
    /\ End
    /\ seen' = None
    /\ UNCHANGED <<result, branches, journal, viewed, made>>

(* The user's Git client. *)
Outside == /\ env.foreign < MaxForeign
           /\ UNCHANGED <<journal, seen, viewed, pub, made>>
TakeBranch(b) ==
    /\ Outside
    /\ env' = [env EXCEPT !.foreign = @ + 1]
    /\ \E c \in {None, Foreign} : /\ c # branches[b]
                                  /\ branches' = [branches EXCEPT ![b] = c]
    /\ UNCHANGED result
CommitPrivately ==
    /\ Outside
    /\ env' = [env EXCEPT !.foreign = @ + 1, !.ids = @ + 1]
    /\ result' = [result EXCEPT !.ref = env.ids + 1]
    /\ UNCHANGED branches
ResetPrivately ==
    /\ Outside
    /\ ~ Valid
    /\ env' = [env EXCEPT !.foreign = @ + 1]
    /\ result' = [result EXCEPT !.ref = result.accounted]
    /\ UNCHANGED branches

Next == \/ OpenPreview \/ SaveReconciled \/ ShowPreview
        \/ ViewPreview \/ TakeOver
        \/ \E b \in Branches : Request(b) \/ TakeBranch(b)
        \/ Recheck \/ Prepare \/ CreateBranch \/ Undo \/ Finish
        \/ Run \/ Crash \/ CommitPrivately \/ ResetPrivately

Spec == Init /\ [][Next]_vars

-----------------------------------------------------------------------------
(* Properties. *)

(* Every variable keeps the shape of the Go types it stands for, and a
   branch and its commit are never named twice in the journal. *)
TypeOK == /\ result \in Result
          /\ branches \in [Branches -> Commit \cup {None, Foreign}]
          /\ journal \in SUBSET Record
          /\ seen \in Preview \cup {None} /\ viewed \in Preview \cup {None}
          /\ pub \in Call
          /\ env \in Env
          /\ made \subseteq Branches \X Commit
          /\ \A r, s \in journal :
               r.commit.id = s.commit.id => r = s

(* When the program creates a branch, nobody had it, its content is the
   private branch of that very moment, and it is what the user saw last:
   neither a run nor a foreign commit slipped in between. *)
PublishedAsReviewed ==
    [][\A b \in Branches :
         <<b, branches'[b]>> \in made' \ made =>
           /\ branches[b] = None
           /\ branches'[b].source = result.ref
           /\ result.ref = result.accounted
           /\ branches'[b].revision = result.revision
           /\ seen # None
           /\ seen.revision = result.revision]_vars

(* The journal on disk and the branches agree whatever was interrupted: a
   branch still at the commit the program gave it has an entry, and an
   entry that says done was really created. *)
JournalAgrees ==
    /\ \A m \in made : branches[m[1]] = m[2] =>
         \E r \in journal : r.branch = m[1] /\ r.commit = m[2]
    /\ \A r \in journal : r.state = "done" => <<r.branch, r.commit>> \in made

(* After the window that may edit has shown a preview no intent is left open
   on disk, so a branch that moves later cannot make the journal unreadable.
   A read-only window saves nothing and leaves the intent to the next one. *)
PreviewSettles ==
    [][At("preview") /\ seen' # seen /\ seen' # None =>
         \A r \in journal' : r.state = "done"]_vars

(* What makes the journal unloadable is a foreign commit on a branch it is
   waiting for; failures and retries of the program alone never do. *)
OnlyOthersBlock ==
    ~ Loadable(journal) =>
      \E r \in journal : r.state = "prepared" /\ branches[r.branch] = Foreign

=============================================================================
