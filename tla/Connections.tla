----------------------------- MODULE Connections -----------------------------
(***************************************************************************)
(* The encrypted registry of LLM connections, shared by every process of a *)
(* user: privateconfig/store.go and connections.go, the operations of      *)
(* engine/llm_connections.go, and sign-in, sign-out and token renewal of   *)
(* engine/llm_oauth.go over azureauth.                                     *)
(*                                                                         *)
(* Within a process Service.op, idle() and oauthTokenMu leave one user of  *)
(* the registry at a time, so a process is one thread here.  Processes     *)
(* meet in the two lock files only.                                        *)
(*                                                                         *)
(* Abstractions.  An identity is what sameConnectionIdentity compares; the *)
(* deployment is left out.  A credential, or the session of a sign-in, is  *)
(* the identity it was given for, the account and, for the properties, the *)
(* epoch of the connection in which it was begun.  uid() and a random key  *)
(* are numbers never used before.  Refreshed caches of one session are not *)
(* told apart.                                                             *)
(***************************************************************************)
EXTENDS Naturals, FiniteSets

CONSTANTS Procs,       \* processes of one user: windows and command lines
          Ids,         \* connection ids that uid() may return
          Names,       \* names, equal when strings.EqualFold says so
          Endpoints,   \* service addresses
          Tenants,     \* tenant and client of an app registration
          Accounts,    \* the Microsoft accounts of the user
          None,        \* an absent connection, secret or account
          MaxOps,      \* bound: operations begun
          MaxFaults,   \* bound: failing calls, damaged files, lost keys
          MaxCrashes   \* bound: process ends

ASSUME NoneAssumption == None \notin Procs \cup Ids \cup Names \cup Tenants
                                       \cup Accounts
ASSUME BoundAssumption == /\ MaxOps \in Nat
                          /\ MaxFaults \in Nat
                          /\ MaxCrashes \in Nat

VARIABLES keyFile,     \* the installation's key on disk, 0 when absent
          file,        \* the encrypted registry document
          lock,        \* holder of .connections.lock
          initLock,    \* holder of .init.lock
          procs,       \* the Service of each process
          env,         \* bounds, and what uid() has given out
          epoch        \* history: how often a connection's sign-in turned

vars == <<keyFile, file, lock, initLock, procs, env, epoch>>

-----------------------------------------------------------------------------
(* Types. *)
Form == [mode : {"api_key", "oauth"}, endpoint : Endpoints,
         tenant : Tenants \cup {None}]
Identity == {d \in Form : d.mode = "oauth" <=> d.tenant # None}
Secret == [ident : Identity, account : Accounts \cup {None}, begun : Nat]
Connection == [name : Names, ident : Identity, secret : Secret \cup {None},
               gen : Nat]
Registry == [Ids -> Connection \cup {None}]
Document == [state : {"missing", "saved", "damaged"}, key : Nat,
             conns : Registry]
(* A run's configuration: the connection it selected, the identity its
   requests go to, the connection frozen for its tokens. *)
RunConfig == [id : Ids, ident : Identity, frozen : Connection \cup {None},
              ready : BOOLEAN]
Kinds == {"none", "refresh", "save", "delete", "clear", "signin", "signedin",
          "start", "freeze", "token", "renew"}
Job == [kind : Kinds, id : Ids \cup {None}, name : Names \cup {None},
        ident : Identity \cup {None}, typed : BOOLEAN, create : BOOLEAN]
Process == [store : Nat, job : Job, buf : Registry,
            pc : {"closed", "keygen", "idle", "lock", "drop", "look",
                  "answer", "write"},
            seen : Connection \cup {None}, begun : Nat,
            answer : Secret \cup {None}, live : BOOLEAN,
            run : RunConfig \cup {None}, token : Secret \cup {None}]
(* The bounds used up, and what uid() has given out. *)
Env == [ops : Nat, faults : Nat, crashes : Nat, uids : Nat,
        made : SUBSET Ids]
ASSUME RecordAssumption ==
    None \notin Identity \cup Secret \cup Connection \cup RunConfig

Empty == [i \in Ids |-> None]
Missing == [state |-> "missing", key |-> 0, conns |-> Empty]
NoJob == [kind |-> "none", id |-> None, name |-> None, ident |-> None,
          typed |-> FALSE, create |-> FALSE]
Closed == [store |-> 0, job |-> NoJob, buf |-> Empty, pc |-> "closed",
           seen |-> None, begun |-> 0, answer |-> None, live |-> TRUE,
           run |-> None, token |-> None]
SignedIn(c) == c.ident.mode = "oauth" /\ c.secret # None /\ c.gen # 0

Init == /\ keyFile = 0
        /\ file = Missing
        /\ lock = None
        /\ initLock = None
        /\ procs = [p \in Procs |-> Closed]
        /\ env = [ops |-> 0, faults |-> 0, crashes |-> 0, uids |-> 0,
                 made |-> {}]
        /\ epoch = [i \in Ids |-> 0]

(* A process turns to the next step of its call, or the call to its second
   visit. *)
At(s, pc) == [s EXCEPT !.pc = pc]
Second(s, pc, kind) == [s EXCEPT !.pc = pc, !.job = [s.job EXCEPT !.kind = kind]]

-----------------------------------------------------------------------------
(* Open: a key is made once, under .init.lock, and never beside a registry
   it could not read. *)
Opened(s, key) == [s EXCEPT !.pc = "idle", !.store = key]
InitFree == initLock = None
MayMakeKey == keyFile = 0 /\ file.state = "missing"

OpenStore(p) ==
    /\ procs[p].pc = "closed"
    /\ InitFree
    /\ keyFile # 0
    /\ procs' = [procs EXCEPT ![p] = Opened(@, keyFile)]
    /\ UNCHANGED <<keyFile, file, lock, initLock, env, epoch>>

FindNoKey(p) ==
    /\ procs[p].pc = "closed"
    /\ InitFree
    /\ MayMakeKey
    /\ initLock' = p
    /\ procs' = [procs EXCEPT ![p] = At(@, "keygen")]
    /\ UNCHANGED <<keyFile, file, lock, env, epoch>>

(* The store keeps the key it generated; it does not read the file again. *)
WriteKey(p) ==
    /\ procs[p].pc = "keygen"
    /\ env' = [env EXCEPT !.uids = @ + 1]
    /\ keyFile' = env.uids + 1
    /\ procs' = [procs EXCEPT ![p] = Opened(@, env.uids + 1)]
    /\ initLock' = None
    /\ UNCHANGED <<file, lock, epoch>>

-----------------------------------------------------------------------------
(* A user's call, or a request of a run: every one of them visits the
   registry under the lock, some twice. *)
Asking(s, job) == [s EXCEPT !.pc = "lock", !.job = job, !.live = TRUE,
                            !.token = None]
Ask(p, job) ==
    /\ procs[p].pc = "idle"
    /\ env.ops < MaxOps
    /\ env' = [env EXCEPT !.ops = @ + 1,
                           !.made = IF job.create THEN @ \cup {job.id} ELSE @]
    /\ procs' = [procs EXCEPT ![p] = Asking(@, job)]
    /\ UNCHANGED <<keyFile, file, lock, initLock, epoch>>
JobOf(kind, i) == [NoJob EXCEPT !.kind = kind, !.id = i]
Idle(p) == procs[p].run = None

AskRefresh(p) == Idle(p) /\ Ask(p, JobOf("refresh", None))
AskDelete(p) == Idle(p) /\ \E i \in env.made : Ask(p, JobOf("delete", i))
AskClear(p) == Idle(p) /\ \E i \in env.made : Ask(p, JobOf("clear", i))
AskSignIn(p) == Idle(p) /\ \E i \in env.made : Ask(p, JobOf("signin", i))
AskStart(p) == Idle(p) /\ \E i \in env.made : Ask(p, JobOf("start", i))
(* normalizeConnection drops a tenant left over from OAuth and a credential
   typed for it, and Validate refuses OAuth without a tenant. *)
AsTyped(d) == d
Normalized(d) == [d EXCEPT !.tenant = IF d.mode = "oauth" THEN @ ELSE None]
TypedKey(d, typed) == typed /\ d.mode # "oauth"
Valid(d) == d.mode = "oauth" => d.tenant # None
(* The user fills in the form; a new connection gets an id nobody has. *)
AskSave(p) ==
    /\ Idle(p)
    /\ \E i \in Ids, n \in Names, d \in Form, typed, create \in BOOLEAN :
         /\ create <=> i \notin env.made
         /\ Valid(d)
         /\ Ask(p, [kind |-> "save", id |-> i, name |-> n,
                    ident |-> Normalized(d), typed |-> TypedKey(d, typed),
                    create |-> create])
AskToken(p) ==
    /\ procs[p].run # None
    /\ procs[p].run.ready
    /\ procs[p].run.ident.mode = "oauth"
    /\ Ask(p, JobOf("token", procs[p].run.id))

WithoutRun(s) == [s EXCEPT !.run = None, !.token = None]
EndRun(p) ==
    /\ procs[p].pc = "idle"
    /\ procs[p].run # None
    /\ procs' = [procs EXCEPT ![p] = WithoutRun(@)]
    /\ UNCHANGED <<keyFile, file, lock, initLock, env, epoch>>

(* CancelLLMSignIn, Stop, Close and the timeouts end the context. *)
Cancellable == {"signin", "signedin", "freeze", "token", "renew"}
Cancelled(s) == [s EXCEPT !.live = FALSE]
Cancel(p) ==
    /\ procs[p].job.kind \in Cancellable
    /\ procs[p].live
    /\ procs' = [procs EXCEPT ![p] = Cancelled(@)]
    /\ UNCHANGED <<keyFile, file, lock, initLock, env, epoch>>

-----------------------------------------------------------------------------
(* LoadConnections and UpdateConnections: lock, read, drop a document that
   cannot be read, look at it, and for an update replace it. *)
LockShared == TRUE
LockFree == lock = None
Readable(p) == file.state = "saved" => file.key = procs[p].store

Reading(s, pc, conns) == [s EXCEPT !.pc = pc, !.buf = conns]
LockRegistry(p) ==
    /\ procs[p].pc = "lock"
    /\ LockFree
    /\ lock' = p
    /\ procs' = [procs EXCEPT ![p] =
         Reading(@, IF file.state # "damaged" /\ Readable(p)
                    THEN "look" ELSE "drop", file.conns)]
    /\ UNCHANGED <<keyFile, file, initLock, env, epoch>>

DropInvalid(p) ==
    /\ procs[p].pc = "drop"
    /\ file' = Missing
    /\ procs' = [procs EXCEPT ![p] = Reading(@, "look", Empty)]
    /\ UNCHANGED <<keyFile, lock, initLock, env, epoch>>

(* Where a call that ends, well or badly, leaves its process.  A run whose
   first token failed ends with it. *)
Ended(s) == [s EXCEPT !.pc = "idle", !.job = NoJob, !.seen = None,
                      !.answer = None, !.buf = Empty, !.begun = 0,
                      !.live = TRUE]
Failed(s) == [Ended(s) EXCEPT
                !.run = IF s.run # None /\ s.run.ready THEN s.run ELSE None]
Unlocked(p) == lock' = IF lock = p THEN None ELSE lock

(* Any call may fail, and a cancelled one is given up where the code looks
   at its context; nothing has been replaced then. *)
GiveUp(p) ==
    /\ procs[p].pc \in {"lock", "drop", "look", "answer", "write"}
    /\ \/ /\ env.faults < MaxFaults
          /\ env' = [env EXCEPT !.faults = @ + 1]
       \/ /\ ~ procs[p].live
          /\ procs[p].pc \in {"look", "answer"}
          /\ procs[p].job.kind # "freeze"
          /\ UNCHANGED env
    /\ procs' = [procs EXCEPT ![p] = Failed(@)]
    /\ Unlocked(p)
    /\ UNCHANGED <<keyFile, file, initLock, epoch>>

-----------------------------------------------------------------------------
(* What each call does with the document it read. *)
Looking(p, kind) == /\ procs[p].pc = "look"
                    /\ procs[p].job.kind = kind
Found(p) == procs[p].buf[procs[p].job.id]
Refuse(p) ==
    /\ procs' = [procs EXCEPT ![p] = Failed(@)]
    /\ Unlocked(p)
    /\ UNCHANGED <<keyFile, file, initLock, env, epoch>>
(* The callback has changed its copy; saveValue follows. *)
Changing(s, c) ==
    [s EXCEPT !.pc = "write", !.buf = [s.buf EXCEPT ![s.job.id] = c]]
Change(p, c, uids) ==
    /\ procs' = [procs EXCEPT ![p] = Changing(@, c)]
    /\ env' = [env EXCEPT !.uids = @ + uids]
    /\ UNCHANGED <<keyFile, file, lock, initLock, epoch>>

LookRefresh(p) ==
    /\ Looking(p, "refresh")
    /\ procs' = [procs EXCEPT ![p] = Ended(@)]
    /\ Unlocked(p)
    /\ UNCHANGED <<keyFile, file, initLock, env, epoch>>

SameMode(c, d) == c.ident.mode = d.ident.mode
SameIdentity(c, d) == c.ident = d.ident
NameTaken(p) ==
    \E i \in Ids \ {procs[p].job.id} :
      /\ procs[p].buf[i] # None
      /\ procs[p].buf[i].name = procs[p].job.name
TypedSecret(j) == IF j.typed THEN [ident |-> j.ident, account |-> None,
                                   begun |-> 0] ELSE None
(* personalConnection, with what an unchanged identity keeps. *)
SavedConnection(j, old) ==
    LET fresh == [name |-> j.name, ident |-> j.ident,
                  secret |-> TypedSecret(j),
                  gen |-> IF j.ident.mode = "oauth" THEN env.uids + 1 ELSE 0]
    IN CASE old = None \/ ~ SameIdentity(fresh, old) -> fresh
         [] old # None /\ SameIdentity(fresh, old) /\ j.ident.mode = "oauth"
              -> [fresh EXCEPT !.secret = old.secret, !.gen = old.gen]
         [] old # None /\ SameIdentity(fresh, old) /\ j.ident.mode = "api_key"
              -> [fresh EXCEPT !.secret = IF j.typed THEN @ ELSE old.secret]

LookSave(p) ==
    LET j == procs[p].job IN
    /\ Looking(p, "save")
    /\ IF NameTaken(p) \/ (~ j.create /\ Found(p) = None)
       THEN Refuse(p)
       ELSE Change(p, SavedConnection(j, Found(p)), 1)

LookDelete(p) ==
    /\ Looking(p, "delete")
    /\ IF Found(p) = None THEN Refuse(p) ELSE Change(p, None, 0)

LookClear(p) ==
    /\ Looking(p, "clear")
    /\ IF Found(p) = None THEN Refuse(p)
       ELSE Change(p, [Found(p) EXCEPT !.secret = None,
                                       !.gen = env.uids + 1], 1)

-----------------------------------------------------------------------------
(* Sign-in.  The browser is open outside every lock. *)
Waiting(s, c, begun) == [s EXCEPT !.seen = c, !.begun = begun]
Freeze(p, kind) ==
    /\ procs' = [procs EXCEPT ![p] =
         Second(Waiting(@, Found(p), epoch[procs[p].job.id]), "answer", kind)]
    /\ Unlocked(p)
    /\ UNCHANGED <<keyFile, file, initLock, env, epoch>>

LookSignIn(p) ==
    /\ Looking(p, "signin")
    /\ procs[p].live
    /\ IF Found(p) = None \/ Found(p).ident.mode # "oauth"
       THEN Refuse(p) ELSE Freeze(p, "signedin")

Answered(s, secret) == [s EXCEPT !.answer = secret, !.pc = "lock"]
Answer(p, secret) ==
    /\ procs[p].pc = "answer"
    /\ procs[p].live
    /\ procs' = [procs EXCEPT ![p] = Answered(@, secret)]
    /\ UNCHANGED <<keyFile, file, lock, initLock, env, epoch>>
SignInAnswered(p) ==
    /\ procs[p].job.kind = "signedin"
    /\ \E a \in Accounts :
         Answer(p, [ident |-> procs[p].seen.ident, account |-> a,
                    begun |-> procs[p].begun])

SameAccount(c, seen) == c.gen # 0
SameSignIn(c, seen) == c.gen = seen.gen
Unchanged(p) == /\ Found(p) # None
                /\ SameIdentity(Found(p), procs[p].seen)
                /\ SameSignIn(Found(p), procs[p].seen)

LookSignedIn(p) ==
    /\ Looking(p, "signedin")
    /\ procs[p].live
    /\ IF Unchanged(p)
       THEN Change(p, [Found(p) EXCEPT !.secret = procs[p].answer,
                                       !.gen = env.uids + 1], 1)
       ELSE Refuse(p)

-----------------------------------------------------------------------------
(* Runs.  Start takes the selected connection into its configuration;
   oauthRunConfig freezes the connection, and each request of the run asks
   for a token of exactly that sign-in. *)
WithRun(s, run) == [s EXCEPT !.run = run]
ConfigOf(i, c) ==
    LET oauth == c.ident.mode = "oauth" IN
    [id |-> i, ident |-> c.ident, frozen |-> IF oauth THEN None ELSE c,
     ready |-> ~ oauth]
LookStart(p) ==
    /\ Looking(p, "start")
    /\ IF Found(p) = None THEN Refuse(p)
       ELSE /\ procs' = [procs EXCEPT ![p] =
                 WithRun(IF Found(p).ident.mode = "oauth"
                         THEN Second(@, "lock", "freeze") ELSE Ended(@),
                         ConfigOf(procs[p].job.id, Found(p)))]
            /\ Unlocked(p)
            /\ UNCHANGED <<keyFile, file, initLock, env, epoch>>

LookFreeze(p) ==
    /\ Looking(p, "freeze")
    /\ IF /\ Found(p) # None
          /\ SignedIn(Found(p))
          /\ Found(p).ident.endpoint = procs[p].run.ident.endpoint
       THEN /\ procs' = [procs EXCEPT ![p] =
                 WithRun(Second(@, "lock", "token"),
                         [procs[p].run EXCEPT !.frozen = Found(p)])]
            /\ Unlocked(p)
            /\ UNCHANGED <<keyFile, file, initLock, env, epoch>>
       ELSE Refuse(p)

FrozenAddress(c, frozen) == SameIdentity(c, frozen)
StillFrozen(c, frozen) == SameIdentity(c, frozen) /\ SameSignIn(c, frozen)

LookToken(p) ==
    /\ Looking(p, "token")
    /\ procs[p].live
    /\ IF /\ Found(p) # None
          /\ StillFrozen(Found(p), procs[p].run.frozen)
          /\ SignedIn(Found(p))
       THEN Freeze(p, "renew")
       ELSE Refuse(p)

(* AccessToken returns a token and the cache of the same account. *)
TokenAnswered(p) ==
    /\ procs[p].job.kind = "renew"
    /\ Answer(p, procs[p].seen.secret)

LookRenew(p) ==
    /\ Looking(p, "renew")
    /\ procs[p].live
    /\ IF Unchanged(p)
       THEN Change(p, [Found(p) EXCEPT !.secret = procs[p].answer], 0)
       ELSE Refuse(p)

-----------------------------------------------------------------------------
(* saveValue replaces the document and the lock is released.  What turns a
   connection's sign-in: signing in, signing out, deleting, and saving
   another identity. *)
Turns(p, i) ==
    /\ i = procs[p].job.id
    /\ \/ procs[p].job.kind \in {"delete", "clear", "signedin"}
       \/ /\ procs[p].job.kind = "save"
          /\ file.conns[i] # None
          /\ file.conns[i].ident # procs[p].job.ident
AfterWrite(s) ==
    IF s.job.kind = "renew"
    THEN [Ended(s) EXCEPT !.token = s.answer,
                          !.run = [s.run EXCEPT !.ready = TRUE]]
    ELSE Ended(s)

WriteRegistry(p) ==
    /\ procs[p].pc = "write"
    /\ file' = [state |-> "saved", key |-> procs[p].store,
                conns |-> procs[p].buf]
    /\ epoch' = [i \in Ids |-> IF Turns(p, i) THEN epoch[i] + 1
                               ELSE epoch[i]]
    /\ procs' = [procs EXCEPT ![p] = AfterWrite(@)]
    /\ Unlocked(p)
    /\ UNCHANGED <<keyFile, initLock, env>>

-----------------------------------------------------------------------------
(* What happens to the process and its files. *)
Crash(p) ==
    /\ procs[p].pc # "closed"
    /\ env.crashes < MaxCrashes
    /\ env' = [env EXCEPT !.crashes = @ + 1]
    /\ procs' = [procs EXCEPT ![p] = Closed]
    /\ Unlocked(p)
    /\ initLock' = IF initLock = p THEN None ELSE initLock
    /\ UNCHANGED <<keyFile, file, epoch>>

Damage ==
    /\ file.state = "saved"
    /\ env.faults < MaxFaults
    /\ env' = [env EXCEPT !.faults = @ + 1]
    /\ file' = [file EXCEPT !.state = "damaged"]
    /\ UNCHANGED <<keyFile, lock, initLock, procs, epoch>>

(* The key disappears while no window is open, as on a restored backup. *)
LoseKey ==
    /\ keyFile # 0
    /\ \A p \in Procs : procs[p].pc = "closed"
    /\ env.faults < MaxFaults
    /\ env' = [env EXCEPT !.faults = @ + 1]
    /\ keyFile' = 0
    /\ UNCHANGED <<file, lock, initLock, procs, epoch>>

Begin(p) == \/ OpenStore(p) \/ FindNoKey(p) \/ WriteKey(p)
            \/ AskRefresh(p) \/ AskDelete(p) \/ AskClear(p) \/ AskSignIn(p)
            \/ AskStart(p) \/ AskSave(p) \/ AskToken(p)
            \/ EndRun(p) \/ Cancel(p)
Visit(p) == \/ LockRegistry(p) \/ DropInvalid(p) \/ GiveUp(p)
            \/ LookRefresh(p) \/ LookSave(p) \/ LookDelete(p) \/ LookClear(p)
            \/ LookSignIn(p) \/ SignInAnswered(p) \/ LookSignedIn(p)
            \/ LookStart(p) \/ LookFreeze(p) \/ LookToken(p)
            \/ TokenAnswered(p) \/ LookRenew(p) \/ WriteRegistry(p)
Next == \/ \E p \in Procs : Begin(p) \/ Visit(p) \/ Crash(p)
        \/ Damage
        \/ LoseKey

Spec == Init /\ [][Next]_vars

-----------------------------------------------------------------------------
(* Properties. *)

(* Every variable keeps the shape of the Go types it stands for. *)
TypeOK == /\ keyFile \in Nat
          /\ file \in Document
          /\ lock \in Procs \cup {None}
          /\ initLock \in Procs \cup {None}
          /\ procs \in [Procs -> Process]
          /\ env \in Env
          /\ epoch \in [Ids -> Nat]

(* The session a connection holds comes from the last thing that happened
   to its sign-in: no sign-in begun before a sign-out, a change of identity
   or another sign-in, and no refresh under way meanwhile in any process,
   brings credentials back. *)
SignOutWins ==
    \A i \in Ids :
      LET c == file.conns[i] IN
      c # None => c.secret = None \/ c.secret.account = None
                  \/ c.secret.begun + 1 = epoch[i]

(* A stored key or session was given for the very address, tenant and mode
   the connection has now, so no request sends it elsewhere. *)
CredentialBelongs ==
    \A i \in Ids :
      LET c == file.conns[i] IN
      c # None /\ c.secret # None => c.secret.ident = c.ident

(* Each replacement of the document changes one connection, so that what
   another process saved meanwhile is never taken back, and the document is
   only thrown away when it was damaged: all processes share one key, so none
   takes another's document for an invalid one. *)
NoLostUpdate ==
    [][/\ file'.state = "saved" =>
            \A i, j \in Ids : file'.conns[i] # file.conns[i]
                              /\ file'.conns[j] # file.conns[j] => i = j
       /\ file'.state = "missing" => file.state = "damaged"]_file

(* A token handed to a run belongs to the account it froze and goes to the
   address in its configuration, and at that moment the connection is still
   signed in with it. *)
TokensOfTheRun ==
    [][\A p \in Procs :
         LET t == procs'[p].token
             r == procs'[p].run IN
         t # None /\ procs[p].token = None =>
           /\ t.account = r.frozen.secret.account
           /\ t.ident.endpoint = r.ident.endpoint
           /\ file'.conns[r.id] # None
           /\ file'.conns[r.id].secret = t]_vars

=============================================================================
