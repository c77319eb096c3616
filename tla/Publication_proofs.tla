-------------------------- MODULE Publication_proofs --------------------------
(***************************************************************************)
(* Proofs about Publication for every value of its constants: what is on   *)
(* disk agrees with the branches whatever was interrupted, only others     *)
(* block a publication, and what is published is what was reviewed.        *)
(***************************************************************************)
EXTENDS Publication, TLAPS

USE NoneAssumption, BoundAssumption, CommitAssumption DEF Env

-----------------------------------------------------------------------------
(* The inductive invariant. *)

(* Every id was given out before it was used, and never twice. *)
IdsGiven ==
    /\ \A m \in made : m[2].id <= env.ids
    /\ \A r \in journal : r.commit.id <= env.ids
    /\ pub.commit # None => pub.commit.id <= env.ids
    /\ pub.pc \in {"journal", "create", "undo"} =>
         \A m \in made : m[2].id # pub.commit.id
    /\ pub.pc = "journal" =>
         \A r \in journal : r.commit.id # pub.commit.id

(* A branch is at a commit only if the program created it there. *)
RefsMade == \A b \in Branches : branches[b] \in {None, Foreign}
                                  \/ <<b, branches[b]>> \in made

(* No commit of the program but its own is where an intent waits. *)
IntentsWait == \A r \in journal : r.state = "prepared" =>
                 branches[r.branch] \in {None, Foreign, r.commit}

(* What the call in progress read is still so; only what others do to the
   refs may have come in between. *)
CallKeeps ==
    /\ pub.pc \in {"recheck", "journal", "create"} =>
         /\ seen # None /\ seen \in Preview /\ seen.revision = result.revision
    /\ pub.pc \in {"recheck", "journal", "create", "undo", "finish"} =>
         pub.branch \in Branches
    /\ pub.pc \in {"recheck", "journal", "create", "undo"} =>
         branches[pub.branch] \in {None, Foreign}
    /\ pub.pc \in {"journal", "create", "undo", "finish"} => pub.commit \in Commit
    /\ pub.pc \in {"journal", "create"} =>
         /\ pub.commit.source = pub.source
         /\ pub.commit.revision = result.revision
         /\ result.accounted = pub.source

(* What memory holds of the journal while it is written. *)
JournalHeld ==
    /\ pub.pc = "preview" => \A r \in journal : r.state = "done"
    /\ pub.pc \in {"create", "undo", "finish"} =>
         /\ pub.records = journal
         /\ Intent("prepared") \in journal
         /\ \A r \in journal : r.state = "done" \/ r = Intent("prepared")
    /\ pub.pc = "finish" => <<pub.branch, pub.commit>> \in made
    /\ pub.pc = "save" =>
         /\ \A r \in pub.records :
              /\ r.state = "done" /\ <<r.branch, r.commit>> \in made
              /\ \E s \in journal : r = [s EXCEPT !.state = "done"]
         /\ \A r \in journal : r.state = "done" \/ Published(r) =>
              [r EXCEPT !.state = "done"] \in pub.records

IInv == /\ TypeOK /\ JournalAgrees
        /\ IdsGiven /\ RefsMade /\ IntentsWait /\ CallKeeps /\ JournalHeld

(* What a step may do to the refs and to the preview. *)
Reviewed ==
    \A b \in Branches :
      <<b, branches'[b]>> \in made' \ made =>
        /\ branches[b] = None
        /\ branches'[b].source = result.ref
        /\ result.ref = result.accounted
        /\ branches'[b].revision = result.revision
        /\ seen # None
        /\ seen.revision = result.revision
Settles == At("preview") /\ seen' # seen /\ seen' # None =>
             \A r \in journal' : r.state = "done"

-----------------------------------------------------------------------------
(* A record said to be done is the same publication. *)
LEMMA DoneRecord ==
    ASSUME NEW r \in Record
    PROVE  /\ [r EXCEPT !.state = "done"] \in Record
           /\ [r EXCEPT !.state = "done"].state = "done"
           /\ [r EXCEPT !.state = "done"].branch = r.branch
           /\ [r EXCEPT !.state = "done"].commit = r.commit
  BY DEF Record

(* What reading a loadable journal leaves: the publications whose branch is
   there, all of them done and really made. *)
LEMMA LoadedRecords ==
    ASSUME IInv, NEW r \in Loaded(journal)
    PROVE  /\ r \in Record /\ r.state = "done"
           /\ <<r.branch, r.commit>> \in made
           /\ \E s \in journal : r = [s EXCEPT !.state = "done"]
<1>1. PICK s \in journal : /\ s.state = "done" \/ Published(s)
                           /\ r = [s EXCEPT !.state = "done"]
  BY DEF Loaded
<1>2. s \in Record
  BY DEF IInv, TypeOK
<1>3. s.state = "done" => <<s.branch, s.commit>> \in made
  BY DEF IInv, JournalAgrees
<1>4. Published(s) => <<s.branch, s.commit>> \in made
  BY <1>2 DEF IInv, RefsMade, Published, Record
<1> QED
  BY <1>1, <1>2, <1>3, <1>4, DoneRecord

(* Records that come from those of the journal name no commit twice. *)
LEMMA LoadedUnique ==
    ASSUME IInv, NEW r, NEW s, NEW p \in journal, NEW q \in journal,
           r = [p EXCEPT !.state = "done"], s = [q EXCEPT !.state = "done"],
           r.commit.id = s.commit.id
    PROVE  r = s
<1>1. p \in Record /\ q \in Record
  BY DEF IInv, TypeOK
<1>2. p.commit.id = q.commit.id
  BY <1>1, DoneRecord
<1> QED
  BY <1>2 DEF IInv, TypeOK

(* A commit in the journal is a commit, with an id. *)
LEMMA JournalTypes ==
    ASSUME IInv
    PROVE  /\ \A r \in journal : r \in Record /\ r.branch \in Branches
                                 /\ r.commit \in Commit /\ r.commit.id \in Nat
           /\ \A m \in made : m[1] \in Branches /\ m[2] \in Commit /\ m[2].id \in Nat
           /\ env.ids \in Nat /\ result.ref \in Nat /\ result.accounted \in Nat
           /\ result.revision \in Nat /\ pub.source \in Nat
           /\ pub.commit # None => pub.commit \in Commit /\ pub.commit.id \in Nat
  BY DEF IInv, TypeOK, Record, Commit, Result, Call

LEMMA InitIInv == Init => IInv
  BY DEF Init, IInv, TypeOK, JournalAgrees, IdsGiven, RefsMade, IntentsWait,
         CallKeeps, JournalHeld, NoCall, Result, Call, Preview

(* When the call ends with the refs, the journal and the ids untouched,
   nothing is left to agree with. *)
LEMMA CallEnds ==
    ASSUME IInv, pub' = NoCall, UNCHANGED <<result, branches, journal, made>>,
           seen' \in Preview \cup {None}, viewed' \in Preview \cup {None},
           env' \in Env,
           env'.ids = env.ids
    PROVE  IInv' /\ Reviewed
<1>1. TypeOK'
  BY DEF IInv, TypeOK, NoCall, Call
<1>2. JournalAgrees' /\ RefsMade' /\ IntentsWait'
  BY DEF IInv, JournalAgrees, RefsMade, IntentsWait
<1>3. IdsGiven' /\ CallKeeps' /\ JournalHeld'
  BY DEF IInv, IdsGiven, CallKeeps, JournalHeld, NoCall
<1> QED
  BY <1>1, <1>2, <1>3 DEF IInv, Reviewed

(* A failing call counts, and gives out no id. *)
LEMMA FaultKeeps ==
    ASSUME IInv, Fault
    PROVE  /\ env'.ids = env.ids
           /\ env' \in Env
  BY DEF IInv, TypeOK, Fault

-----------------------------------------------------------------------------
(* The preview. *)

LEMMA OpenPreviewStep ==
    ASSUME IInv, OpenPreview PROVE IInv' /\ Reviewed /\ Settles
<1> USE DEF OpenPreview, At, Goto
<1>0. IdsGiven' /\ JournalAgrees' /\ RefsMade' /\ IntentsWait' /\ CallKeeps'
  <2>1. pub'.pc \in {"save", "preview"} /\ pub'.commit = pub.commit
    BY DEF IInv, TypeOK, Call
  <2> QED
    BY <2>1 DEF IInv, IdsGiven, JournalAgrees, RefsMade, IntentsWait, CallKeeps
<1>1. CASE NeedsSaving(journal)
  <2>1. pub' = [pub EXCEPT !.pc = "save", !.records = Loaded(journal)]
    BY <1>1
  <2>2. pub' \in Call /\ pub'.pc = "save" /\ pub'.records = Loaded(journal)
    BY <2>1, LoadedRecords DEF IInv, TypeOK, Call
  <2>3. TypeOK'
    BY <2>2 DEF IInv, TypeOK
  <2>4. JournalHeld'
    <3>1. \A r \in journal : r.state = "done" \/ Published(r) =>
            [r EXCEPT !.state = "done"] \in Loaded(journal)
      BY DEF Loaded
    <3>2. \A r \in journal : Published(r)' <=> Published(r)
      BY DEF Published
    <3> QED
      BY <2>2, <3>1, <3>2, LoadedRecords DEF JournalHeld
  <2> QED
    BY <1>0, <2>3, <2>4 DEF IInv, Reviewed, Settles
<1>2. CASE ~ NeedsSaving(journal)
  <2>1. pub' = [pub EXCEPT !.pc = "preview"]
    BY <1>2
  <2>2. TypeOK'
    BY <2>1 DEF IInv, TypeOK, Call
  <2>3. JournalHeld'
    BY <1>2, <2>1 DEF IInv, TypeOK, Call, JournalHeld, NeedsSaving, Record
  <2> QED
    BY <1>0, <2>2, <2>3 DEF IInv, Reviewed, Settles
<1> QED
  BY <1>1, <1>2

LEMMA SaveReconciledStep ==
    ASSUME IInv, SaveReconciled PROVE IInv' /\ Reviewed /\ Settles
<1> USE DEF SaveReconciled, At
<1>1. CASE Fault /\ End /\ UNCHANGED journal
  BY <1>1, CallEnds, FaultKeeps DEF End, Settles, IInv, TypeOK
<1>2. CASE /\ journal' = pub.records
           /\ pub' = [NoCall EXCEPT !.pc = "preview"]
           /\ UNCHANGED env
  <2>1. \A r \in journal' : /\ r.state = "done" /\ <<r.branch, r.commit>> \in made
                            /\ \E s \in journal : r = [s EXCEPT !.state = "done"]
    BY <1>2 DEF IInv, JournalHeld
  <2>2. pub'.pc = "preview" /\ pub'.commit = None
    BY <1>2 DEF NoCall
  <2>3. TypeOK'
    <3>1. journal' \subseteq Record
      BY <2>1, JournalTypes, DoneRecord
    <3>2. ASSUME NEW r \in journal', NEW s \in journal', r.commit.id = s.commit.id
          PROVE  r = s
      <4>1. PICK p \in journal : r = [p EXCEPT !.state = "done"]
        BY <2>1
      <4>2. PICK q \in journal : s = [q EXCEPT !.state = "done"]
        BY <2>1
      <4> QED
        BY <3>2, <4>1, <4>2, LoadedUnique
    <3>3. pub' \in Call
      BY <1>2 DEF NoCall, Call
    <3> QED
      BY <1>2, <3>1, <3>2, <3>3 DEF IInv, TypeOK
  <2>4. JournalAgrees'
    <3>1. ASSUME NEW m \in made, branches[m[1]] = m[2]
          PROVE  \E r \in journal' : r.branch = m[1] /\ r.commit = m[2]
      <4>1. PICK r \in journal : r.branch = m[1] /\ r.commit = m[2]
        BY <3>1 DEF IInv, JournalAgrees
      <4>2. [r EXCEPT !.state = "done"] \in journal'
        BY <1>2, <3>1, <4>1 DEF IInv, JournalHeld, Published
      <4> QED
        BY <4>1, <4>2, JournalTypes, DoneRecord
    <3> QED
      BY <1>2, <2>1, <3>1 DEF JournalAgrees
  <2>5. IdsGiven'
    <3>1. \A r \in journal' : r.commit.id <= env.ids
      BY <2>1, JournalTypes, DoneRecord DEF IInv, IdsGiven
    <3> QED
      BY <1>2, <2>2, <3>1 DEF IInv, IdsGiven
  <2>6. RefsMade' /\ IntentsWait' /\ CallKeeps' /\ JournalHeld'
    BY <1>2, <2>1, <2>2 DEF IInv, RefsMade, IntentsWait, CallKeeps, JournalHeld
  <2> QED
    BY <2>3, <2>4, <2>5, <2>6 DEF IInv, Reviewed, Settles
<1> QED
  BY <1>1, <1>2

LEMMA ShowPreviewStep ==
    ASSUME IInv, ShowPreview PROVE IInv' /\ Reviewed /\ Settles
<1> USE DEF ShowPreview, At
<1>1. seen' \in Preview \cup {None}
  BY JournalTypes DEF IInv, TypeOK, Preview
<1>2. IInv' /\ Reviewed
  BY <1>1, CallEnds DEF End, IInv, TypeOK
<1>3. Settles
  BY DEF IInv, JournalHeld, Settles
<1> QED
  BY <1>2, <1>3

(* A read-only window looks, and may get the lease with what it shows: the
   refs, the journal and the call in progress stay as they are. *)
LEMMA ReadOnlyStep ==
    ASSUME IInv, ViewPreview \/ TakeOver PROVE IInv' /\ Reviewed /\ Settles
<1>1. UNCHANGED <<result, branches, journal, pub, env, made>>
  BY DEF ViewPreview, TakeOver
<1>2. seen' \in Preview \cup {None} /\ viewed' \in Preview \cup {None}
  <2>1. CASE ViewPreview
    <3>1. PICK revision \in 0 .. result.revision :
            viewed' = [source |-> result.ref, revision |-> revision]
      BY <2>1 DEF ViewPreview
    <3>2. seen' \in Preview \cup {None}
      BY <2>1 DEF ViewPreview, IInv, TypeOK
    <3> QED
      BY <3>1, <3>2, JournalTypes DEF Preview
  <2>2. CASE TakeOver
    BY <2>2 DEF TakeOver, IInv, TypeOK
  <2> QED
    BY <2>1, <2>2
<1>3. pub.pc = "idle" \/ UNCHANGED seen
  BY DEF ViewPreview, TakeOver, At
<1>4. TypeOK'
  BY <1>1, <1>2 DEF IInv, TypeOK
<1>5. JournalAgrees' /\ IdsGiven' /\ RefsMade' /\ IntentsWait'
  BY <1>1 DEF IInv, JournalAgrees, IdsGiven, RefsMade, IntentsWait
<1>6. CallKeeps'
  BY <1>1, <1>3 DEF IInv, CallKeeps
<1>7. JournalHeld'
  <2>1. /\ Intent("prepared")' = Intent("prepared")
        /\ \A r \in journal : Published(r)' <=> Published(r)
    BY <1>1 DEF Intent, Published
  <2> QED
    BY <1>1, <2>1 DEF IInv, JournalHeld
<1>8. Reviewed /\ Settles
  BY <1>1, <1>3 DEF Reviewed, Settles, At
<1> QED
  BY <1>4, <1>5, <1>6, <1>7, <1>8 DEF IInv

-----------------------------------------------------------------------------
(* The publication. *)

LEMMA RequestStep ==
    ASSUME IInv, NEW b \in Branches, Request(b)
    PROVE  IInv' /\ Reviewed /\ Settles
<1> USE DEF Request, At
<1>1. /\ pub' \in Call /\ pub'.pc = "recheck" /\ pub'.branch = b
      /\ pub'.commit = pub.commit
  BY JournalTypes DEF IInv, TypeOK, Call
<1>2. TypeOK' /\ env'.ids = env.ids
  BY <1>1 DEF IInv, TypeOK
<1>3. IdsGiven' /\ JournalAgrees' /\ RefsMade' /\ IntentsWait' /\ JournalHeld'
  BY <1>1, <1>2 DEF IInv, IdsGiven, JournalAgrees, RefsMade, IntentsWait, JournalHeld
<1>4. CallKeeps'
  BY <1>1 DEF IInv, TypeOK, CallKeeps, RevisionMatches
<1> QED
  BY <1>2, <1>3, <1>4 DEF IInv, Reviewed, Settles

LEMMA RecheckStep ==
    ASSUME IInv, Recheck PROVE IInv' /\ Reviewed /\ Settles
<1> USE DEF Recheck, At
<1>1. CASE Valid /\ result.ref = pub.source
  <2> DEFINE c == [id |-> env.ids + 1, source |-> pub.source,
                   revision |-> seen.revision]
  <2>1. seen \in Preview /\ seen.revision = result.revision
    BY DEF IInv, CallKeeps
  <2>2. /\ c \in Commit /\ c.id = env.ids + 1 /\ c.source = pub.source
        /\ c.revision = result.revision
    BY <2>1, JournalTypes DEF Commit
  <2>3. pub' = [pub EXCEPT !.pc = "journal", !.commit = c]
    BY <1>1
  <2> HIDE DEF c
  <2>4. /\ pub' \in Call /\ pub'.pc = "journal" /\ pub'.commit = c
        /\ pub'.branch = pub.branch /\ pub'.source = pub.source
    BY <2>2, <2>3 DEF IInv, TypeOK, Call
  <2>5. env' \in Env /\ env'.ids = env.ids + 1
    BY <1>1 DEF IInv, TypeOK
  <2>6. TypeOK'
    BY <2>4, <2>5 DEF IInv, TypeOK
  <2>7. IdsGiven'
    BY <2>2, <2>4, <2>5, JournalTypes DEF IInv, IdsGiven
  <2>8. JournalAgrees' /\ RefsMade' /\ IntentsWait' /\ JournalHeld'
    BY <2>4 DEF IInv, JournalAgrees, RefsMade, IntentsWait, JournalHeld
  <2>9. CallKeeps'
    BY <1>1, <2>1, <2>2, <2>4 DEF IInv, CallKeeps, Valid
  <2> QED
    BY <2>6, <2>7, <2>8, <2>9 DEF IInv, Reviewed, Settles
<1>2. CASE ~ (Valid /\ result.ref = pub.source)
  BY <1>2, CallEnds DEF End, IInv, TypeOK, Settles
<1> QED
  BY <1>1, <1>2

(* The intent of the call in progress is a record. *)
LEMMA IntentRecord ==
    ASSUME IInv, pub.pc \in {"journal", "create", "undo", "finish"},
           NEW state \in {"prepared", "done"}
    PROVE  /\ Intent(state) \in Record /\ Intent(state).state = state
           /\ Intent(state).branch = pub.branch /\ Intent(state).commit = pub.commit
  BY DEF IInv, CallKeeps, Intent, Record

LEMMA PrepareStep ==
    ASSUME IInv, Prepare PROVE IInv' /\ Reviewed /\ Settles
<1> USE DEF Prepare, At
<1>1. CASE /\ Loadable(journal)
           /\ journal' = Reconciled(journal) \cup {Intent("prepared")}
           /\ pub' = [pub EXCEPT !.pc = "create", !.records = journal']
           /\ UNCHANGED env
  <2>0. journal' = Loaded(journal) \cup {Intent("prepared")}
    BY <1>1 DEF Reconciled
  <2> DEFINE i == Intent("prepared")
  <2>1. /\ i \in Record /\ i.state = "prepared"
        /\ i.branch = pub.branch /\ i.commit = pub.commit
    BY IntentRecord
  <2>2. i \in journal'
    BY <2>0
  <2>3. \A r \in journal' : r # i =>
          /\ r \in Record /\ r.state = "done" /\ <<r.branch, r.commit>> \in made
          /\ \E s \in journal : r = [s EXCEPT !.state = "done"]
    BY <2>0, LoadedRecords
  <2> HIDE DEF i
  <2>4. journal' \subseteq Record
    BY <2>1, <2>3
  <2>5. /\ pub' \in Call /\ pub'.pc = "create" /\ pub'.records = journal'
        /\ pub'.branch = pub.branch /\ pub'.commit = pub.commit
        /\ pub'.source = pub.source
    BY <1>1, <2>4 DEF IInv, TypeOK, Call
  <2>6. \A r \in journal' : r # i =>
          r.commit.id <= env.ids /\ r.commit.id # pub.commit.id
    BY <2>3, JournalTypes, DoneRecord DEF IInv, IdsGiven
  <2>7. TypeOK'
    <3>1. ASSUME NEW r \in journal', NEW s \in journal', r.commit.id = s.commit.id
          PROVE  r = s
      <4>1. CASE r = i \/ s = i
        BY <2>1, <2>6, <3>1, <4>1
      <4>2. CASE r # i /\ s # i
        <5>1. PICK p \in journal : r = [p EXCEPT !.state = "done"]
          BY <2>3, <4>2
        <5>2. PICK q \in journal : s = [q EXCEPT !.state = "done"]
          BY <2>3, <4>2
        <5> QED
          BY <3>1, <5>1, <5>2, LoadedUnique
      <4> QED
        BY <4>1, <4>2
    <3> QED
      BY <1>1, <2>4, <2>5, <3>1 DEF IInv, TypeOK
  <2>8. JournalAgrees'
    <3>1. ASSUME NEW m \in made, branches[m[1]] = m[2]
          PROVE  \E r \in journal' : r.branch = m[1] /\ r.commit = m[2]
      <4>1. PICK r \in journal : r.branch = m[1] /\ r.commit = m[2]
        BY <3>1 DEF IInv, JournalAgrees
      <4>2. [r EXCEPT !.state = "done"] \in Loaded(journal)
        BY <3>1, <4>1 DEF Loaded, Published
      <4>3. /\ [r EXCEPT !.state = "done"].branch = m[1]
            /\ [r EXCEPT !.state = "done"].commit = m[2]
        BY <4>1, JournalTypes, DoneRecord
      <4>4. [r EXCEPT !.state = "done"] \in journal'
        BY <2>0, <4>2
      <4> QED
        BY <4>3, <4>4
    <3> QED
      BY <2>1, <2>3, <3>1 DEF JournalAgrees
  <2>9. IdsGiven'
    BY <1>1, <2>1, <2>5, <2>6, JournalTypes DEF IInv, IdsGiven, CallKeeps
  <2>10. RefsMade' /\ CallKeeps'
    BY <2>5 DEF IInv, RefsMade, CallKeeps
  <2>11. IntentsWait'
    BY <2>1, <2>3 DEF IInv, CallKeeps, IntentsWait
  <2>12. JournalHeld'
    <3>1. Intent("prepared")' = i
      BY <2>5 DEF Intent, i
    <3> QED
      BY <2>2, <2>3, <2>5, <3>1 DEF JournalHeld
  <2> QED
    BY <2>7, <2>8, <2>9, <2>10, <2>11, <2>12 DEF IInv, Reviewed, Settles
<1>2. CASE End /\ UNCHANGED <<journal, env>>
  BY <1>2, CallEnds DEF End, IInv, TypeOK, Settles
<1>3. CASE Fault /\ End /\ UNCHANGED journal
  BY <1>3, CallEnds, FaultKeeps DEF End, IInv, TypeOK, Settles
<1> QED
  BY <1>1, <1>2, <1>3

(* The transaction that creates the branch. *)
LEMMA CreateRefKeeps ==
    ASSUME IInv, pub.pc = "create", RefsFit, CreateRef,
           UNCHANGED <<result, journal, seen, viewed>>,
           env' = env \/ Fault,
           pub' = NoCall \/ pub' = [pub EXCEPT !.pc = "finish"]
    PROVE  IInv' /\ Reviewed /\ Settles
<1> USE DEF CreateRef
<1>1. /\ pub.branch \in Branches /\ pub.commit \in Commit
      /\ branches[pub.branch] = None
      /\ Intent("prepared") \in journal
  BY DEF IInv, CallKeeps, JournalHeld, RefsFit, Absent
<1>2. /\ branches' = [branches EXCEPT ![pub.branch] = pub.commit]
      /\ made' = made \cup {<<pub.branch, pub.commit>>}
      /\ \A b \in Branches : branches'[b] = IF b = pub.branch THEN pub.commit
                                                              ELSE branches[b]
  BY DEF IInv, TypeOK
<1>3. /\ env'.ids = env.ids
      /\ env' \in Env
  BY FaultKeeps DEF IInv, TypeOK
<1>4. /\ pub' \in Call
      /\ pub'.pc = "finish" => /\ pub'.branch = pub.branch
                               /\ pub'.commit = pub.commit
                               /\ pub'.records = pub.records
      /\ pub'.pc \in {"idle", "finish"}
      /\ pub'.commit \in {None, pub.commit}
  BY DEF IInv, TypeOK, Call, NoCall
<1>5. TypeOK'
  BY <1>1, <1>2, <1>3, <1>4 DEF IInv, TypeOK
<1>6. JournalAgrees'
  <2>1. Intent("prepared").branch = pub.branch /\ Intent("prepared").commit = pub.commit
    BY DEF Intent
  <2>2. ASSUME NEW m \in made', branches'[m[1]] = m[2]
        PROVE  \E r \in journal : r.branch = m[1] /\ r.commit = m[2]
    <3>1. CASE m[1] = pub.branch
      BY <1>1, <1>2, <2>1, <2>2, <3>1
    <3>2. CASE m[1] # pub.branch
      <4>1. m \in made /\ branches[m[1]] = m[2]
        BY <1>2, <2>2, <3>2, JournalTypes
      <4> QED
        BY <4>1 DEF IInv, JournalAgrees
    <3> QED
      BY <3>1, <3>2
  <2> QED
    BY <1>2, <2>2 DEF IInv, JournalAgrees
<1>7. IdsGiven'
  BY <1>1, <1>2, <1>3, <1>4 DEF IInv, IdsGiven
<1>8. RefsMade'
  BY <1>2 DEF IInv, RefsMade
<1>9. IntentsWait'
  <2>1. ASSUME NEW r \in journal, r.state = "prepared"
        PROVE  branches'[r.branch] \in {None, Foreign, r.commit}
    <3>1. r = Intent("prepared")
      BY <2>1 DEF IInv, JournalHeld
    <3> QED
      BY <1>1, <1>2, <3>1 DEF Intent
  <2> QED
    BY <2>1 DEF IntentsWait
<1>10. CallKeeps'
  BY <1>1, <1>4 DEF IInv, CallKeeps
<1>11. JournalHeld'
  <2>1. pub'.pc = "finish" => Intent("prepared")' = Intent("prepared")
    BY <1>4 DEF Intent
  <2>2. pub'.pc = "finish" => <<pub.branch, pub.commit>> \in made'
    BY <1>2
  <2> QED
    BY <1>4, <2>1, <2>2 DEF IInv, JournalHeld
<1>12. Reviewed
  <2>1. ASSUME NEW b \in Branches, <<b, branches'[b]>> \in made' \ made
        PROVE  b = pub.branch /\ branches'[b] = pub.commit
    BY <1>2, <2>1
  <2>2. /\ pub.commit.source = result.ref /\ result.ref = result.accounted
        /\ pub.commit.revision = result.revision
        /\ seen # None /\ seen.revision = result.revision
    BY DEF IInv, CallKeeps, RefsFit
  <2> QED
    BY <1>1, <2>1, <2>2 DEF Reviewed
<1> QED
  BY <1>5, <1>6, <1>7, <1>8, <1>9, <1>10, <1>11, <1>12 DEF IInv, Settles

LEMMA CreateBranchStep ==
    ASSUME IInv, CreateBranch PROVE IInv' /\ Reviewed /\ Settles
<1>0. /\ pub.pc = "create"
      /\ UNCHANGED <<result, journal, seen, viewed>>
  BY DEF CreateBranch, At
<1>1. CASE RefsFit /\ CreateRef /\ Goto("finish") /\ UNCHANGED env
  BY <1>0, <1>1, CreateRefKeeps DEF Goto
<1>2. CASE RefsFit /\ CreateRef /\ End /\ Fault
  BY <1>0, <1>2, CreateRefKeeps DEF End
<1>3. CASE ~ RefsFit /\ Goto("undo") /\ UNCHANGED <<branches, made, env>>
  <2>1. /\ pub' \in Call /\ pub'.pc = "undo" /\ pub'.branch = pub.branch
        /\ pub'.commit = pub.commit /\ pub'.records = pub.records
    BY <1>3 DEF Goto, IInv, TypeOK, Call
  <2>2. TypeOK'
    BY <1>0, <1>3, <2>1 DEF IInv, TypeOK
  <2>3. JournalAgrees' /\ RefsMade' /\ IntentsWait'
    BY <1>0, <1>3 DEF IInv, JournalAgrees, RefsMade, IntentsWait
  <2>4. IdsGiven' /\ CallKeeps'
    BY <1>0, <1>3, <2>1 DEF IInv, IdsGiven, CallKeeps
  <2>5. JournalHeld'
    <3>1. Intent("prepared")' = Intent("prepared")
      BY <2>1 DEF Intent
    <3> QED
      BY <1>0, <2>1, <3>1 DEF IInv, JournalHeld
  <2> QED
    BY <1>0, <1>3, <2>2, <2>3, <2>4, <2>5 DEF IInv, Reviewed, Settles
<1>4. CASE End /\ Fault /\ UNCHANGED <<branches, made>>
  BY <1>0, <1>4, CallEnds, FaultKeeps DEF End, IInv, TypeOK, Settles
<1> QED
  BY <1>1, <1>2, <1>3, <1>4 DEF CreateBranch

(* The last write: the intent is taken back or said to be done; a failing
   write leaves the intent on disk. *)
LEMMA WriteStep ==
    ASSUME IInv, pub.pc \in {"undo", "finish"}, NEW records,
           WriteRecords(records),
           \/ pub.pc = "undo" /\ records = WithoutIntent
           \/ pub.pc = "finish" /\ records = WithoutIntent \cup {Intent("done")}
    PROVE  IInv' /\ Reviewed /\ Settles
<1> DEFINE i == Intent("prepared")
           d == Intent("done")
<1>0. /\ pub' = NoCall
      /\ UNCHANGED <<result, branches, seen, viewed, made>>
  BY DEF WriteRecords, End
<1>1. CASE Fault /\ UNCHANGED journal
  BY <1>0, <1>1, CallEnds, FaultKeeps DEF IInv, TypeOK, Settles
<1>2. CASE journal' = records /\ UNCHANGED env
  <2>1. /\ i \in journal
        /\ \A r \in journal : r.state = "done" \/ r = i
        /\ pub.records = journal
        /\ pub.branch \in Branches /\ pub.commit \in Commit
    BY DEF IInv, JournalHeld, CallKeeps
  <2>2. /\ d \in Record /\ d.state = "done"
        /\ d.branch = pub.branch /\ d.commit = pub.commit
        /\ i.state = "prepared" /\ i.branch = pub.branch /\ i.commit = pub.commit
    BY IntentRecord
  <2>3. pub.pc = "undo" => journal' = journal \ {i}
    BY <1>2, <2>1 DEF WithoutIntent
  <2>4. pub.pc = "finish" => journal' = (journal \ {i}) \cup {d}
    BY <1>2, <2>1 DEF WithoutIntent
  <2>9. /\ pub.pc = "undo" => \A m \in made : m[2] # pub.commit
        /\ pub.pc = "finish" => <<pub.branch, pub.commit>> \in made
    BY DEF IInv, IdsGiven, JournalHeld
  <2> HIDE DEF i, d
  <2>5. TypeOK'
    <3>1. journal' \subseteq Record
      BY <2>2, <2>3, <2>4 DEF IInv, TypeOK
    <3>2. \A r \in journal : r.commit.id = pub.commit.id => r = i
      BY <2>1, <2>2 DEF IInv, TypeOK
    <3>3. \A r, s \in journal' : r.commit.id = s.commit.id => r = s
      BY <2>2, <2>3, <2>4, <3>2 DEF IInv, TypeOK
    <3> QED
      BY <1>0, <1>2, <3>1, <3>3 DEF IInv, TypeOK, NoCall, Call
  <2>6. JournalAgrees'
    <3>1. ASSUME NEW m \in made, branches[m[1]] = m[2]
          PROVE  \E r \in journal' : r.branch = m[1] /\ r.commit = m[2]
      <4>1. PICK r \in journal : r.branch = m[1] /\ r.commit = m[2]
        BY <3>1 DEF IInv, JournalAgrees
      <4>2. CASE r = i /\ pub.pc = "undo"
        BY <2>2, <2>9, <4>1, <4>2
      <4>3. CASE r = i /\ pub.pc = "finish"
        BY <2>2, <2>4, <4>1, <4>3
      <4>4. CASE r # i
        BY <2>3, <2>4, <4>1, <4>4
      <4> QED
        BY <4>2, <4>3, <4>4
    <3>2. \A r \in journal' : r.state = "done" => <<r.branch, r.commit>> \in made
      BY <2>2, <2>3, <2>4, <2>9 DEF IInv, JournalAgrees
    <3> QED
      BY <1>0, <3>1, <3>2 DEF JournalAgrees
  <2>7. IdsGiven'
    <3>1. \A r \in journal' : r.commit.id <= env.ids
      BY <2>1, <2>2, <2>3, <2>4 DEF IInv, IdsGiven
    <3> QED
      BY <1>0, <1>2, <3>1 DEF IInv, IdsGiven, NoCall
  <2>8. RefsMade' /\ IntentsWait' /\ CallKeeps' /\ JournalHeld'
    BY <1>0, <2>2, <2>3, <2>4
       DEF IInv, RefsMade, IntentsWait, CallKeeps, JournalHeld, NoCall
  <2> QED
    BY <1>0, <2>5, <2>6, <2>7, <2>8 DEF IInv, Reviewed, Settles
<1> QED
  BY <1>1, <1>2 DEF WriteRecords

LEMMA UndoFinishStep ==
    ASSUME IInv, Undo \/ Finish PROVE IInv' /\ Reviewed /\ Settles
<1>1. CASE Undo
  BY <1>1, WriteStep DEF Undo, At
<1>2. CASE Finish
  BY <1>2, WriteStep DEF Finish, At
<1> QED
  BY <1>1, <1>2

-----------------------------------------------------------------------------
(* Between two calls, and outside the program. *)

(* The bounds and the ids stay numbers. *)
LEMMA EnvType ==
    ASSUME NEW e \in Env, NEW n \in Nat, NEW i \in Nat
    PROVE  /\ [e EXCEPT !.runs = n, !.ids = i]
                \in Env
           /\ [e EXCEPT !.runs = n, !.ids = i].ids = i
           /\ [e EXCEPT !.foreign = n, !.ids = i]
                \in Env
           /\ [e EXCEPT !.foreign = n, !.ids = i].ids = i
           /\ [e EXCEPT !.foreign = n]
                \in Env
           /\ [e EXCEPT !.foreign = n].ids = e.ids
  OBVIOUS

LEMMA RunStep ==
    ASSUME IInv, Run PROVE IInv' /\ Reviewed /\ Settles
<1> USE DEF Run, At
<1>1. PICK commits \in {0, 1} :
        /\ env' = [env EXCEPT !.runs = @ + 1, !.ids = @ + commits]
        /\ result' = IF commits = 1
                     THEN [ref |-> env.ids + 1, accounted |-> env.ids + 1,
                           revision |-> result.revision + 1]
                     ELSE [result EXCEPT !.revision = @ + 1]
  OBVIOUS
<1>2. /\ env' \in Env
      /\ env.ids <= env'.ids /\ env'.ids \in Nat
  <2>1. env \in Env
    BY DEF IInv, TypeOK
  <2>2. /\ env.runs + 1 \in Nat /\ env.ids + commits \in Nat
        /\ env.ids <= env.ids + commits
    BY <2>1
  <2> QED
    BY <1>1, <2>1, <2>2, EnvType
<1>3. result' \in Result
  BY <1>1, JournalTypes DEF IInv, TypeOK, Result
<1>4. TypeOK'
  BY <1>2, <1>3 DEF IInv, TypeOK
<1>5. IdsGiven'
  BY <1>2, JournalTypes DEF IInv, IdsGiven
<1>6. JournalAgrees' /\ RefsMade' /\ IntentsWait' /\ CallKeeps' /\ JournalHeld'
  BY DEF IInv, JournalAgrees, RefsMade, IntentsWait, CallKeeps, JournalHeld
<1> QED
  BY <1>4, <1>5, <1>6 DEF IInv, Reviewed, Settles

LEMMA CrashStep ==
    ASSUME IInv, Crash PROVE IInv' /\ Reviewed /\ Settles
<1>1. /\ env'.ids = env.ids
      /\ env' \in Env
  BY DEF IInv, TypeOK, Crash
<1>2. viewed' \in Preview \cup {None}
  BY DEF IInv, TypeOK, Crash
<1> QED
  BY <1>1, <1>2, CallEnds DEF Crash, End, Settles

LEMMA TakeBranchStep ==
    ASSUME IInv, NEW b \in Branches, TakeBranch(b)
    PROVE  IInv' /\ Reviewed /\ Settles
<1>1. PICK c \in {None, Foreign} : branches' = [branches EXCEPT ![b] = c]
  BY DEF TakeBranch
<1>2. \A x \in Branches : branches'[x] = IF x = b THEN c ELSE branches[x]
  BY <1>1 DEF IInv, TypeOK
<1>3. UNCHANGED <<result, journal, seen, viewed, pub, made>>
  BY DEF TakeBranch, Outside
<1>4. /\ env'.ids = env.ids
      /\ env' \in Env
  BY DEF IInv, TypeOK, TakeBranch
<1>5. TypeOK'
  BY <1>1, <1>3, <1>4 DEF IInv, TypeOK
<1>6. JournalAgrees'
  <2>1. ASSUME NEW m \in made, branches'[m[1]] = m[2] PROVE branches[m[1]] = m[2]
    BY <1>1, <1>2, <2>1, JournalTypes
  <2> QED
    BY <1>3, <2>1 DEF IInv, JournalAgrees
<1>7. IdsGiven'
  BY <1>3, <1>4 DEF IInv, IdsGiven
<1>8. RefsMade'
  BY <1>1, <1>2, <1>3 DEF IInv, RefsMade
<1>9. IntentsWait'
  BY <1>1, <1>2, <1>3, JournalTypes DEF IInv, IntentsWait
<1>10. CallKeeps'
  BY <1>1, <1>2, <1>3 DEF IInv, CallKeeps
<1>11. JournalHeld'
  <2>1. Intent("prepared")' = Intent("prepared")
    BY <1>3 DEF Intent
  <2>2. ASSUME NEW r \in journal, Published(r)' PROVE Published(r)
    BY <1>1, <1>2, <1>3, <2>2, JournalTypes DEF Published
  <2> QED
    BY <1>3, <2>1, <2>2 DEF IInv, JournalHeld
<1> QED
  BY <1>3, <1>5, <1>6, <1>7, <1>8, <1>9, <1>10, <1>11 DEF IInv, Reviewed, Settles

LEMMA PrivatelyStep ==
    ASSUME IInv, CommitPrivately \/ ResetPrivately
    PROVE  IInv' /\ Reviewed /\ Settles
<1>1. UNCHANGED <<branches, journal, seen, viewed, pub, made>>
  BY DEF CommitPrivately, ResetPrivately, Outside
<1>2. /\ env.ids <= env'.ids /\ env'.ids \in Nat
      /\ env' \in Env
  <2>1. env \in Env
    BY DEF IInv, TypeOK
  <2>2. /\ env.foreign + 1 \in Nat /\ env.ids + 1 \in Nat /\ env.ids \in Nat
        /\ env.ids <= env.ids + 1 /\ env.ids <= env.ids
    BY <2>1
  <2>3. CASE CommitPrivately
    BY <2>1, <2>2, <2>3, EnvType DEF CommitPrivately
  <2>4. CASE ResetPrivately
    BY <2>1, <2>2, <2>4, EnvType DEF ResetPrivately
  <2> QED
    BY <2>3, <2>4
<1>3. /\ result' \in Result /\ result'.accounted = result.accounted
      /\ result'.revision = result.revision
  BY DEF IInv, TypeOK, Result, CommitPrivately, ResetPrivately
<1>4. TypeOK'
  BY <1>1, <1>2, <1>3 DEF IInv, TypeOK
<1>5. IdsGiven'
  BY <1>1, <1>2, JournalTypes DEF IInv, IdsGiven
<1>6. JournalAgrees' /\ RefsMade' /\ IntentsWait'
  BY <1>1 DEF IInv, JournalAgrees, RefsMade, IntentsWait
<1>7. CallKeeps'
  BY <1>1, <1>3 DEF IInv, CallKeeps
<1>8. JournalHeld'
  <2>1. /\ Intent("prepared")' = Intent("prepared")
        /\ \A r \in journal : Published(r)' <=> Published(r)
    BY <1>1 DEF Intent, Published
  <2> QED
    BY <1>1, <2>1 DEF IInv, JournalHeld
<1> QED
  BY <1>1, <1>4, <1>5, <1>6, <1>7, <1>8 DEF IInv, Reviewed, Settles

-----------------------------------------------------------------------------
(* The theorems. *)

LEMMA NextIInv == IInv /\ [Next]_vars => IInv' /\ Reviewed /\ Settles
<1> SUFFICES ASSUME IInv, [Next]_vars PROVE IInv' /\ Reviewed /\ Settles
  OBVIOUS
<1>1. CASE UNCHANGED vars
  <2>1. UNCHANGED <<result, branches, journal, seen, viewed, pub, env, made>>
    BY <1>1 DEF vars
  <2>2. /\ Intent("prepared")' = Intent("prepared")
        /\ \A r \in journal : Published(r)' <=> Published(r)
    BY <2>1 DEF Intent, Published
  <2> QED
    BY <2>1, <2>2 DEF IInv, TypeOK, JournalAgrees, IdsGiven, RefsMade,
         IntentsWait, CallKeeps, JournalHeld, Reviewed, Settles
<1>2. CASE OpenPreview \/ SaveReconciled \/ ShowPreview
  BY <1>2, OpenPreviewStep, SaveReconciledStep, ShowPreviewStep
<1>3. ASSUME NEW b \in Branches, Request(b) \/ TakeBranch(b)
      PROVE  IInv' /\ Reviewed /\ Settles
  BY <1>3, RequestStep, TakeBranchStep
<1>4. CASE Recheck \/ Prepare \/ CreateBranch \/ Undo \/ Finish
  BY <1>4, RecheckStep, PrepareStep, CreateBranchStep, UndoFinishStep
<1>5. CASE Run \/ Crash \/ CommitPrivately \/ ResetPrivately
  BY <1>5, RunStep, CrashStep, PrivatelyStep
<1>6. CASE ViewPreview \/ TakeOver
  BY <1>6, ReadOnlyStep
<1> QED
  BY <1>1, <1>2, <1>3, <1>4, <1>5, <1>6 DEF Next

LEMMA Invariance == Spec => []IInv
<1>1. Init => IInv
  BY InitIInv
<1>2. IInv /\ [Next]_vars => IInv'
  BY NextIInv
<1> QED
  BY <1>1, <1>2, PTL DEF Spec

(* The journal, the refs and the call in progress keep their shape, and no
   two entries of the journal name the same commit. *)
THEOREM TypeCorrect == Spec => []TypeOK
<1>1. IInv => TypeOK
  BY DEF IInv
<1> QED
  BY <1>1, Invariance, PTL

(* The journal and the branches agree: no branch of the program without its
   entry, no entry said to be done for a branch that was never created, when
   any call fails, the process ends anywhere and the user's Git client works
   on the branches meanwhile (PublishResults, loadResultPublications). *)
THEOREM JournalSound == Spec => []JournalAgrees
<1>1. IInv => JournalAgrees
  BY DEF IInv
<1> QED
  BY <1>1, Invariance, PTL

(* A journal that cannot be loaded is one that waits for a branch on which
   somebody else committed; the program never blocks itself. *)
THEOREM NeverBlocksItself == Spec => []OnlyOthersBlock
<1>1. IInv => OnlyOthersBlock
  BY DEF IInv, IntentsWait, OnlyOthersBlock, Loadable, Published
<1> QED
  BY <1>1, Invariance, PTL

(* What is published is the private branch of that moment, which is what the
   queue accounts for and what the user saw last. *)
THEOREM PublishesTheReviewed == Spec => PublishedAsReviewed
<1>1. IInv /\ [Next]_vars => Reviewed
  BY NextIInv
<1>2. Reviewed =>
        [\A b \in Branches :
           <<b, branches'[b]>> \in made' \ made =>
             /\ branches[b] = None
             /\ branches'[b].source = result.ref
             /\ result.ref = result.accounted
             /\ branches'[b].revision = result.revision
             /\ seen # None
             /\ seen.revision = result.revision]_vars
  BY DEF Reviewed
<1> QED
  BY <1>1, <1>2, Invariance, PTL DEF Spec, PublishedAsReviewed

(* The window that may edit shows a preview only with a journal that has no
   open intent, whatever read-only windows look at or hand over to it. *)
THEOREM PreviewLeavesNoIntent == Spec => PreviewSettles
<1>1. IInv /\ [Next]_vars => Settles
  BY NextIInv
<1>2. Settles =>
        [At("preview") /\ seen' # seen /\ seen' # None =>
           \A r \in journal' : r.state = "done"]_vars
  BY DEF Settles
<1> QED
  BY <1>1, <1>2, Invariance, PTL DEF Spec, PreviewSettles
=============================================================================
