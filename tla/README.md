# OneByOne: verification project

OneByOne rewrites the source files of a Git repository one by one with a language
model, reviews each change, and adopts it as a commit on a private branch in a
private worktree. This directory holds TLA+ models of the program, the TLC
configurations that check them on small instances, and proofs that TLAPS checks for
every instance.

| module | what it is |
|---|---|
| `Ledger` | abstract: what the private branch and the queue on disk promise each other |
| `Execution` | the engine in file mode: workers, writer, journal, recovery, discards |
| `ExecutionInvariant` | the inductive invariants `IInv` and `LInv` of `Execution` |
| `Execution_proofs` | the theorems about `Execution` that rest on `IInv` |
| `Ledger_proofs` | those that rest on `LInv`: `Execution` implements `Ledger`, and more |
| `Connections` | the registry of LLM connections shared by all processes, sign-in and tokens |
| `Connections_proofs` | the theorems about `Connections` |
| `Publication` | publishing the result as a branch, its journal, the user's Git beside it |
| `Publication_proofs` | the theorems about `Publication` |
| `Workspaces` | workspaces, leases and rule editing by several processes over one directory |
| `Workspaces_proofs` | the theorems about `Workspaces` |
| `RepairLoop` | the attempts at one file: requests, plan, candidate, review, checkpoint, resume |
| `RepairLoop_proofs` | the theorems about `RepairLoop` |
| `Solution` | solution mode: the batch, builds, review, adoption journal and its recovery |
| `Solution_proofs` | the theorems about `Solution` |
| `History` | the records of runs: what they show and charge, across resumed attempts and crashes |
| `History_proofs` | the theorems about `History` |
| `Lines` | the lines a change report names, against definitions that do not compute them |
| `MCExecution`, `MCConnections`, `MCPublication`, `MCWorkspaces`, `MCRepairLoop`, `MCSolution`, `MCHistory`, `MCLines` | constants and symmetry for TLC; their `.cfg` files are the runs |

`PROJECT.json` maps every definition to the source lines it stands for.

## 1. Inventory

All paths are under `src/`.

### 1.1 Components, their state and their operations

**Engine, file mode** (`internal/engine/runner.go`, `parallel_run.go`,
`parallel_recovery.go`, `git.go`). State: the queue `Service.state.Tasks`, the
executions' writer (accepted head, first failure), the private branch and its
worktree. Operations: `run`, `runFiles`, `processOne`, `recover`, `rollbackAdoption`.
Workers propose changes side by side from one snapshot commit; a single goroutine
executes the closures they hand over, and only it writes the worktree, the branch and
the queue. Correct when: no commit is made that the queue on disk cannot explain, none
is made twice, and whatever a crash or a failing call leaves is recognised and finished
or undone by the next start, and bytes the program did not write make it stop.

**Discard** (`internal/engine/discard_changes.go`). State: `Task.Discards`, a
write-ahead journal in the queue. Operations: `DiscardFileChanges`, `recoverDiscards`,
`restorePendingDiscards`. Correct when: a journaled discard is completed once, and
afterwards the file counts as untouched.

**Service operations on the queue** (`internal/engine/service.go`,
`task_selection.go`). State: queue in memory, `queue.jsonl`, the session file, one
operation at a time under `Service.op`. Operations: `Start`, `Stop`, `RetryTasks`,
`Scan`, `LoadQueue`, `SetTaskSelection`, `persist`, `load`.

**Execution history** (`execution_history.go`). State: one record directory per run with
its snapshot, its summary and the artifacts it owns; the active record; the usage of
every attempt in the queue and in the attempt's checkpoint. Operations:
`beginExecution`, `persist` (which saves the active record too), `finishExecution`,
`flushFinishedExecution`, `loadExecutionRuns` with `recoverExecutionAccounting`. Correct
when: usage is never lost, a finished record never changes, and it shows what there was
when its run ended.

**Changed lines in reports** (`change_line_ranges.go`, `cumulative_report.go`). Pure
functions: the lines an edit changed, and where they are in the initial and in the
accepted text after later attempts. Correct when: no report names a line that did not
change, or drops a change that is still there.

**Report contents** (`execution_files.go`, `cumulative_detail.go`, `change_report.go`,
`report_sources.go`, `solution_trace.go`): what the other parts keep, laid out.

**Publication** (`result_publication.go`, `result_publication_report_file.go`). State:
the publications journal, branches of the user's repository. Operations:
`GetResultPublicationPreview`, `PublishResults`. Correct when: what was reviewed is
exactly what is published, once, and the journal agrees with the branches after a crash.
A read-only window shows the same preview, but saves nothing.

**Workspaces and leases** (`workspace.go`, `workspace_access.go`, `delete.go`,
`workspace_discovery.go`, `store/workspace_lock.go`, `rule_editor.go`,
`rule_package.go`, `rule_batch.go`). State: settings and lock files on disk, the lease
each process holds, the active workspace. Operations: create, open, rename, duplicate,
change target, delete, open and save rules. Correct when: one process edits a
workspace, no setting is overwritten from a stale copy, and a deleted workspace stays
deleted.

**LLM connections and sign-in** (`llm_connections.go`, `llm_oauth.go`,
`privateconfig/`, `azureauth/`). State: an encrypted registry shared by all processes,
sign-in generations, token caches. Operations: save, delete, clear, sign in, sign out,
acquire a token. Correct when: an update never loses another process's update and a
sign-out wins over a refresh that is still under way.

**Solution mode** (`solution.go`, `solution_batch.go`, `solution_git.go`,
`solution_trace.go`, `agent/solution.go`, `solution/`). State: the batch with one run
per selected solution, the private branch, the adoption journal. Correct when: only what
was approved and builds is adopted, what an earlier solution of the batch was built from
still builds, an interrupted adoption is completed, and every run is charged once.

**Repair loop** (`agent/repair_loop.go`, `incremental.go`, `repair_plan.go`,
`review.go`, `review_gate.go`, `review_recovery.go`, `partial_review.go`,
`execution_budget.go`, `engine/repair_checkpoint.go`). State: the plan, the candidate,
the reviews, the turn budget, all in a checkpoint saved before each request. Correct
when: nothing is adopted that the independent review did not pass for exactly those
bytes, and a resumed plan never spends more than its budget.

**Model clients** (`agent/client.go`, `providers.go`, `protocol.go`): requests, retries
and the decoding of answers.

**Catalog and rules** (`catalog/`, `rulepack/`, `ruleformat/`, `solutionrules/`,
`target_files.go`, `target_folder.go`, `sourceencoding/`, `text.go`,
`diagnostics/`): parsing, matching and text arithmetic, no
state of their own.

**Front ends** (`cmd/onebyone/`, `app.go`, `frontend/`): the command line, the desktop
bridge and the window; they call the service and show its snapshots.

**Demo project, scripts, packaging** (`demopreset/`, `scripts/`, `build/`): data and
build tools.

### 1.2 How they interact

The front ends call exported `Service` methods; each takes `Service.op`, checks that
nothing runs (`idle`) and, for edits, that the workspace lease is held (`editable`).
`Start` hands the rest to a goroutine, which keeps `Running` set instead of the mutex.
The goroutine talks to Git through processes, to the model through the agent package
and to the disk through `store` (write a temporary file, sync, rename). The agent calls
back into `processOne` to save checkpoints and to validate candidates; both callbacks
run as closures of the writer. Stop cancels a context. Processes of the same user meet
in lock files only.

### 1.3 What is hard

* Git commits and the queue file are two stores without a transaction. Every pair of
  steps on them can be cut by a crash, a full disk or a cancelled `git` process whose
  work was done all the same.
* Workers are based on an old snapshot while the branch grows under the writer.
* `recover` must tell its own half-done work from somebody's edit.
* Memory may run ahead of the disk after a failed save, and operations go on from it.
* Stop arrives anywhere, with closures queued and jobs not yet taken.

PROJECT.json lists these hazards line by line, with the properties that catch them.

## 2. Plan

Modules are written so that they can be proved about: constants with named assumptions,
one action per operation, invariants as conjunctions, no `RECURSIVE` operator beside a
theorem. Order, most important first:

1. `Ledger`, `Execution`, `ExecutionInvariant`, `Execution_proofs`, `Ledger_proofs` (done).
2. `Publication`: preview, publish, journal, the user's Git client beside it (done).
3. `Connections`: registry, generations, token refresh in several processes (done).
4. `Workspaces`: leases, settings, deletion, rule leases (done).
5. `RepairLoop`, `RepairLoop_proofs`: plan, candidate, review gates, usage, checkpoint
   and resume (done).
6. `Solution`, `Solution_proofs`: batch, builds, review, adoption journal and recovery
   (done, except the rule scope that later solutions inherit).
7. `History`, `History_proofs`: run records and accounting across crashes (done).
8. `Lines`: changed lines, against reference definitions (done). Path rules and encodings
   are left.

Runs: one per distinct question, about one per module beyond `Execution`, with two
processes or two workers, one or two files or workspaces, and one or two crashes and
failures. Questions that fit one instance share a run.

Theorems: for each state module the type invariant and its main safety properties (done
for `Execution`, `History`, `Publication`, `Workspaces`, `Connections`, `RepairLoop` and
`Solution`, and the refinement of `Ledger`, see section 5).

## 3. The core: Execution

### 3.1 State

| variable | code |
|---|---|
| `mem` | `Service.state.Tasks`: status, last attempt, last discard, recorded commits, adopted content |
| `disk` | `queue.jsonl` |
| `branch` | commits of the private branch after the session base; a commit id is a position |
| `work` | the worktree (index and files together) |
| `op` | the service operation in progress and how far it is |
| `run` | context, snapshot commit, `executionWriter` and its failure, jobs channel |
| `wk` | for each worker goroutine, which call of `processOne` comes next |
| `env` | counters of the bounded faults |

### 3.2 Actions

`TakeJob` to `RecordCommit` are the calls of `processOne` in order: `Begin` (attempt
saved), `ReadInput`, `OpenRepair` (checkpoint path saved), `Validate` (candidate
digests journaled), `Decline`, `Skip`, `Adopt` (journal `CommitBase`), `VerifySource`,
`WriteSource`, `CheckAdoption`, `JournalValidated`, `CommitAdoption`, `RecordCommit`. The
last seven are one closure of the writer, split wherever a crash can fall between two
effects; until it ends no other closure runs (`WriterFree`). A step that fails after the
file was written looks whether it may restore it (`CleanUp`; `Undo` where the code drops
the outcome of `cleanup`), and `RollBack` does so. Every save may fail before or after the
queue file was replaced. A commit that reports an error may have been made.

`Start`, `Retry`, `PrepareDiscard`, `Reload`, `Open`, `Stop` are the users' calls;
`CheckDiscard`, `RestoreSource`, `CommitDiscard`, `FindDiscard`, `FinishDiscard`,
`DiscardsDone` are `recoverDiscards`; `RecoverTree`, `ResetTree` and `RecoverTasks` are
`recover`; `RunFiles` and `FinishRun` bracket the workers. `Crash` drops memory at any
moment. `Edit` is somebody else writing into the worktree.

The program looks at a file before it overwrites it, but nothing ties the two together.
So each look is a step and each overwrite the next one: `VerifySource` and `WriteSource`,
`CleanUp` or `Undo` and `RollBack`, `CheckDiscard` and `RestoreSource`, `RecoverTree` and
`ResetTree`. `Edit` comes between them as well, and such an edit is lost, in the model as
in the code. `ForeignEditsSurvive` therefore names these windows (`Overwriting`) and says
two things of everything outside them: foreign bytes stay, and no window opens on them.

A worker repeats `processOne` while its file stays failed (`parallel_run.go:100-118`); the
code does not bound these attempts, the model ends them at `MaxAttempts` (`LeaveFile`).

Abstracted: what the agent does between two callbacks (any candidate, any number of
validations), file names and bytes (a few contents), ids (numbers), rule hashes and
settings (a resume may always be refused), Git's checks that only fail when Git fails.

### 3.3 Runs

Bounds count attempts and discards per file and faults, crashes and edits in all. Every
run of file mode uses contents `c0` (the base) and `c1`, `repeat` also `c2`; symmetry
is used where no property names a file or a worker, and never for liveness.

| run | instance | question |
|---|---|---|
| `parallel` | 2 files, 2 workers, 1 attempt, 1 discard, 1 fault, 1 crash | does the queue on disk explain branch and worktree through every interleaving? |
| `repeat` | 1 file, 1 worker, 2 attempts, 2 discards, 2 faults, 2 crashes, 1 edit | is anything committed twice over a long history, do foreign bytes survive it? |
| `ends` | 2 files, 2 workers, 1 attempt, 1 discard, 1 fault | does everything that was started end? |
| `discards_wait` | 2 files, 1 worker, 1 fault | can a journaled discard always be completed? (no) |

Two files and two workers are the smallest instance in which a snapshot can be older
than the accepted head and in which a closure can meet another one. One attempt more
than one discard lets an adopted file be discarded and adopted again. Two faults allow a
failed save followed by a failed cleanup.

Deadlock is not checked: the bounds may be used up and a workspace may stay closed.

`discards_wait` is expected to fail, and shows a defect: see `findings` in PROJECT.json.

### 3.4 Fairness

`StopSpec`: goroutines are scheduled and Git and the file system return, so a step of a
worker that stays possible is taken (`WF` of `Handle`), and so are the steps of an
operation. Closures reach the writer in FIFO order and each ends, so weak fairness is
enough. An agent is not assumed to answer: only a stopped one, because its requests run
under the cancelled context. `StopDrains` holds under this alone. `OperationsEnd` states
its further assumption, that agents answer, in the formula. Crashes, edits and user
calls have no fairness.

## 4. The other components

### 4.1 Connections

| variable | code |
|---|---|
| `keyFile`, `file` | the installation's key and the encrypted `connections` document |
| `lock`, `initLock` | holders of `.connections.lock` and `.init.lock` |
| `procs` | per process: the key it keeps, the call under way, the copy of the document it reads and changes, the answer of the browser or the provider, the run's frozen connection and its last token |
| `env`, `epoch` | bounds; how often a connection's sign-in turned (history) |

Every call is `Ask...` (the user or a request of a run), `LockRegistry` (lock and read;
`DropInvalid` when the document is unreadable), one `Look...` (the callback, which
refuses, freezes what it saw or changes its copy) and `WriteRegistry` (replace, unlock).
Sign-in and token renewal visit the registry twice, with the browser or the provider in
between and no lock held (`LookSignIn`, `SignInAnswered`, `LookSignedIn`; `LookToken`,
`TokenAnswered`, `LookRenew`). `GiveUp` is any failing call and every place where a
cancelled call notices; `Crash`, `Damage` and `LoseKey` are the world's.

Run `shared`: two processes, two connection ids, names, addresses and accounts, four
operations in all, one failure, one crash. Two processes and four operations are enough
for a sign-in (two visits) to be overtaken by a sign-out and a second sign-in or an
edit, and for a run to renew after somebody else's sign-in. The run answers: is an
update ever lost, does a sign-out win, does a credential stay with its identity, whose
tokens does a run get.

### 4.2 Publication

| variable | code |
|---|---|
| `result` | the private branch, the head its queue accounts for, the digest of a preview |
| `branches`, `journal` | the user's refs and `queue.jsonl.publications.json` |
| `seen`, `pub` | the preview the user reads in the window that may edit; the call under way |
| `viewed` | the preview that a read-only window shows |
| `env`, `made` | bounds; the refs the program created (history) |

`OpenPreview`, `SaveReconciled`, `ShowPreview` are the preview in the window that may
edit. `ViewPreview` is the preview of a read-only window: it is built from the journal as
it is, nothing is saved, and an open intent stays (`result_publication.go:57`); its queue
may be older than the one on disk. `TakeOver` is that window getting the lease, with the
preview it shows, which it may then publish. `PreviewSettles` speaks of the window that
may edit only; `PublishedAsReviewed` of whatever preview the publication came from.
`Request`, `Recheck`,
`Prepare`, `CreateBranch` and `Undo` or `Finish` are the publication, cut where a crash
or the user's Git client can come between two effects. A publication compares the
digest of the preview it builds again with the one the user saw, so a stale preview is
refused; `update-ref` checks the private branch and the absence of the new one in one
transaction, so `RefsFit` and `CreateRef` are one step.

Run `races`: two branch names, two runs, three requests, two failures, one crash, two
actions of the user's client. Three requests let a lost answer be followed by a retry
and another publication; two foreign actions let a branch be taken and freed again.

### 4.3 Workspaces

| variable | code |
|---|---|
| `settings`, `trash` | `workspaces/<id>/setting.json` with the rules it names; `workspace-trash` |
| `selected` | the selection in the application's settings |
| `lock`, `ruleLock` | holders of `.edit.lock` and of the rule locks of each workspace |
| `procs` | the `Service` of each process: active workspace, configuration in memory, read-only or not, its leases, drafts, and the call under way |
| `env` | bounds, and the ids given out |

Opening is `Start` or `AskSelect`, `ReadSetting`, `TakeLease`, `Adopt` (the second read,
the selection, and the exchange of leases). Every replacement of a setting is an `Ask...`,
`WriteSetting` and, where the code saves the selection afterwards, `WriteSelected`.
Deletion is `AskDelete`, `Move`, `Unselect`, `Rollback`. Rules are `OpenRule`,
`CloseRule`, and `SaveRules`, `MergeRules`, `ReplaceRules` or `DeleteRule` followed by
`LockRules` and `Publish`. `Close` and `Crash` end a process. A lock is tried once and
never waited for; a lock file is never deleted, so a lock on it means the same workspace
before and after a deletion. Writing a file fails before it is renamed or not at all
(`store.WriteFile` returns no error after the rename).

Abstracted: the contents of a setting (a revision count, its rules and its writer), the
checks of paths and packages (they refuse a call before it changes anything), the queue
a workspace restores, the directories of package versions. `SaveConfig` also accepts a
queue from its caller when no workspace is active; no front end does that
(docs/design.md:268) and it is not modelled.

Run `leases`: two processes, two workspaces, one rule with two revisions, six calls or
process starts, one failure, one crash. Two workspaces are needed to switch, one rule is
enough because rule leases of one workspace never interact except through the
workspace's own lease; six calls let one process lose a workspace, the other change it,
and the first come back with an old draft. The run answers: does whoever edits hold the
lock, are all locks given back, is anything another process wrote overwritten unseen,
does a deleted workspace stay deleted.

### 4.4 Repair attempts and review

| variable | code |
|---|---|
| `prov` | what the source, the rules and the settings are now |
| `task` | the file in the queue: status, whether its last attempt is open, recorded usage, result |
| `disk` | the repair checkpoint: provenance and `RepairState` |
| `run` | the call of `processOne` and `agent.Run` under way, with its copy of the state |
| `log` | history: requests sent, answers billed, what was approved, whether a review asked for a change |

`Begin`, `Attach` (the first save), `Enter` are the start of an attempt, with resume or
with a fresh state that keeps only what was spent. `AskEditor` and `AskReviewer` reserve
a request on disk before it is sent; `Resend`, `Answer`, `ContextLimit` and `Fail` are
its fates. `UpdatePlan`, `Stage`, `Validate`, `Validated`, `Final` are the editor's
tools, in any number and order that the code accepts. `Review`, `Conclude`, `Judge` are
the independent review; `Leave`, `Adopt`, `Reject`, `Finish` end the attempt. An error
before anything was spent leaves the file failed, to be tried again (`UnspentError`); every
other one is for a person. `Recover`,
`Retry`, `ChangeProv` and `Crash` come from outside. `Persist` is the code's `persist`:
when a save fails the attempt gives up and the deferred save is tried once more.

The editor and the reviewer are arbitrary. The model keeps of a plan its revision and
what it has decided (open, no change, change, change with a reservation, stuck); of a
candidate the plan revision, the edits, the result of the checks and the review. Reading
the source, the rollover of a conversation and the reviewer's partial records only lead
to another request. The reset of a plan made under other rules is not a step:
provenance is compared before a plan is resumed, so it finds nothing to reset. Journal
and commit belong to `Execution`.

| run | instance | question |
|---|---|---|
| `reviews` | 2 provenances, 2 edits, 6 requests, 2 revisions, 1 retry, 1 crash | is exactly what was approved adopted, and a demand never evaded? |
| `usage` | 2 provenances, 2 edits, 4 requests sent up to 3 times, 2 retries, 2 failed saves, 1 crash | are the books complete or marked incomplete? |

Six requests are an editor's candidate, a review that demands a change, a second
candidate and its review, with one conversation to spare on either side of an
interruption. `usage` needs fewer revisions and more ways for a request to end.

No liveness is claimed in this section: every step waits for a user or a provider.
Deadlock is not checked in its runs: a process may be closed, the bounds may be used up,
and nothing is owed then.

### 4.5 Solution mode

| variable | code |
|---|---|
| `compiles` | for each solution the trees that build; any set that looks at its own files only |
| `branch` | commits of the private branch, each with its run and its tree |
| `journal` | `queue.jsonl.solution-adoption.json` |
| `mem`, `disk` | attempts of all files (`tasks`) and the batch, in memory and in queue and session file |
| `call` | the service call and the `runSolution` under way, with its iteration, tree and candidate |
| `log` | history: what was billed and approved; bounds |

`Start` goes through recovery (`Forgotten`; or `Recover`, `Replay`; `NotRecovered`) to
`Scan` and `Batch`; `TakeNext`, `NoMore`, `Leave` and `End` are the loop of
`runSolutionBatch` with the deferred handlers. `Inner`, `Build`, `Ask`, `Propose`,
`Judge`, `NoAnswer` are `runSolution` and `agent.RunSolution`; `Adopt`, `Journal`,
`Merge` or `NotMerged`, `Record` are `adoptSolution`, cut where a crash can fall between
two effects. `Fails` is every other error. `Stop`, `Crash`, `Open` are the user and the
world. A save writes the queue, then the session, then the snapshot of the execution,
and may fail before, between or after (`HalfSaves`); memory has changed by then.

Abstracted: a session with the editor or the reviewer is one request; an adoption writes
one attempt per file, of which the first carries the usage, and is one entry here; a
solution may turn out to be unreadable at its start, which stands for every refusal of
`solution.Inspect`. `runSolution` calls the recovery again, and compares the branch with
the queue; `LedgerSettled` states that both find nothing to do. Nobody else moves the
private branch (`recoverSolutionAdoption` and `adoptSolution` refuse if somebody does).

Run `solution`: two solutions of one file in one batch, with two contents of the file and
any facts about which contents build; two iterations in each run, two executions, four
requests, one failure, one crash. Four requests are enough for both solutions to adopt,
so that a repair of the second one can break the first; two executions let a run be
interrupted or fail after its merge and be accounted for by the next one. The run
answers: is the branch accounted for and every run charged once, whatever fails; does
what is shown as completed still build; is each commit what was approved?

Two things the run does not claim. A completed result is checked within its batch: a
later execution in which the earlier solution fails, or is not selected, may adopt a
change that breaks it (`verifyEarlierSolutions` looks at the current batch only). And a
crash or failure after the merge, before the session file is written, leaves a run shown
as stopped or failed although its commit is adopted; queue and branch agree all the same.

### 4.6 History

| variable | code |
|---|---|
| `mem` | the process: where `Start` and `run` are, the queue in memory, `activeExecution`, the files under way |
| `queue` | `queue.jsonl`: for each attempt the run that made or resumed it, whether its checkpoint is known, its usage |
| `side` | beside the queue: checkpoints with the turns before and at all; how often an attempt's artifacts were written |
| `rec`, `evid` | `queue.jsonl.executions/<run>`: snapshot and summary; the copies in `attempts/` |
| `log` | history: turns spent in each run, what the artifacts were when it ended; bounds |

`Begin` is `Start` up to `beginExecution`; `RecoverRun` or `PrepareFails` come next, then
`BeginAttempt`, `Stage` (artifacts are written and the queue saved), `Attach` (the first
checkpoint), `Spend` (a turn, in the checkpoint only) and `FinishAttempt` of every file,
and `EndRun`. `Archive` is `finishExecution`, or its repetition by
`flushFinishedExecution` when it failed; `Retry` and `Retried` are `RetryTasks`. A new
process is `Open`, `Settle` for each record that was cut off, and `LoadDone` or
`LoadFails`. `Persist` writes the queue, the snapshot and the summary, and may fail or be
cut off after each; the copies of an archive may be made in part. `Spend` has no failing
save: a turn is reserved and then charged by saves of the checkpoint
(`runner.go:203-210`, `repair_loop.go:207`, `252`), and what a failure of these does to the
books is the subject of `RepairLoop` (`UsageCounted`).

Run `history`: one file, two runs, two attempts, two turns, two writes of an attempt's
artifacts, one failing save, one end of the process. Runs do not interact except through
the queue, an attempt and its artifacts; one file whose second run resumes the attempt of
the first is the case in which evidence is overwritten. More files add order, which
`Execution` has. The run answers: does a finished record ever change, does it show what
there was at the end of its run, do both books agree with what was spent?

What the properties exclude or allow, because the code does it:

* A run that follows an interrupted one takes its starting usage before `recover` adds
  the turns that only the checkpoint knew (`execution_history.go:53`). Both runs are then
  charged with them. `BooksAgree` states this surplus exactly (`log.late`).
* When a record cannot be settled the queue is loaded all the same
  (`workspace.go:652`), and the record is settled later, from a queue and artifacts of
  later attempts. Such runs are in `log.mixed`; the same holds when `beginExecution`
  wrote `snapshot.json` but not the summary, which leaves a run listed that never was.
  With three runs a late settlement may also replace copies that another finished record
  refers to; `EvidenceOfTheRun` leaves those out.
* A process that ends between the creation of a record's directory and its
  `snapshot.json` leaves a directory that makes every later load of the records fail
  (`LoadFails`).

### 4.7 Lines

A behaviour is one input and its result: `Compare` is `cumulativeLineMapping`, `Trace`
the ranges of a row of `cumulativeChangeReports` and of a change that waits for a
decision, `Locate` is `verifiedEditLineRanges`. A line is a letter where only equality
matters; where bytes matter a text is a sequence of letters and newlines.

The properties do not repeat the tables and walks of the code. `MappingJustified`
compares with the set of all longest alignments; `RowsJustified` with what all of them
agree on, on both sides: a recorded change is dropped only if each line it put in is gone
from the accepted text or was in the initial one, and each line it took out was not in the
initial text or is in the accepted one, so a pure deletion is judged by what it deleted;
`RangesExact` puts the changed bytes back together and looks at the text.

Run `lines`: two letters, all pairs of texts of up to four lines, all changes of one
region traced over texts of up to three lines, all edits in one or two pieces of texts of
up to five bytes with replacements of up to two bytes. The limit on the size of an
alignment is twelve cells, so texts on both sides of it occur. In texts of three lines a
line can be ambiguous, or have one partner and still not be forced; in four, beside a
line that is certain.

Left out: which rows a report keeps, and the refusal of a fragment that is too large or
mixes the changes of several items.

## 5. What is proved

`Execution_proofs` proves, for every set of files, workers and contents and for every
bound:

* `Invariant`: `Spec => []IInv`.
* `TypesHold`: `Spec => []TypeOK`.
* `BranchAccounted`: `Spec => []LedgerComplete`.
* `RecordsKept`: `Spec => NothingForgotten`.

The assumptions are `ContentAssumption` (the base content is a content, `Foreign` and
`None` are not) and `BoundAssumption` (bounds are numbers). TLC evaluates both.

`LedgerComplete` alone is not inductive: that the next commit is explained depends on
who holds the writer, on what that worker journaled, and on memory and disk agreeing at
that moment. `IInv` says so: a worker's file is its own (`FilesHeld`); both queues
account for the branch and memory knows what the disk knows (`QueuesAccount`); while a
discard is prepared both queues are equal and no worker runs (`DiscardsSaved`); recovery
leaves nothing open before workers start (`RecoverySettles`); one closure at a time, and
unless a write failed both queues know every commit (`WriterAlone`); and the attempt at
the commit is the one the disk calls validated (`AttemptsTracked`). The argument: a
commit is added only at `CommitAdoption` or `CommitDiscard`, both queues then know every
earlier commit and the journal on disk names the new one; later steps either record it
or leave the journal entry alone, because the failed writer adopts nothing more.

There is one lemma per action; steps of a worker before the commit share the lemma
`Kept`, built on five lemmas about the parts of the invariant.

`Ledger_proofs` proves, for the same constants:

* `LedgerInvariant`: `Spec => []LInv`.
* `CommitsOnce`: `Spec => []CommittedOnce`.
* `Recovers`: `Spec => []RecoveryAccepts`.
* `ForeignStands`: `Spec => ForeignEditsSurvive`, edits between a look and its overwrite
  excepted.
* `AdoptedStands`: `Spec /\ [](env.edits = 0) => []AdoptedIsHead`.
* `Implements`: `Spec /\ [](env.edits = 0) => LedgerSpec`, where `LedgerSpec` is the
  specification of `Ledger` under the refinement mapping of `Execution`.

`IInv` says which commits the queues know; these theorems need what the records say of
the commits and of the bytes. `LInv` adds four parts:

* `CommittedOnce` itself. To repeat it for one more commit, its number must be new on the
  branch: `AttemptsNumbered` and `DiscardsNumbered` say that the commits of a file carry
  numbers its records have reached, and the last number only if that commit is recorded
  or is the one at HEAD.
* `BranchTracked`: an open attempt read its input from the tree it is based on, and HEAD
  still has that input (`AttemptBased`), although other files were committed since; an
  attempt found at HEAD was journaled on HEAD's parent; the adopted content of a file is
  what HEAD has, or a change in flight put it there (`ContentFollows`).
* `SnapshotHeld`: during a run, a file whose job is not taken yet, or whose attempt is
  not committed yet, is at HEAD what it is in the snapshot of the run. This is why a
  worker may adopt on a HEAD later than the commit it read.
* `WorktreeKept`: at most one file of the worktree differs from HEAD, it is the one the
  writer or a discard works on, and both queues say why (`Explained`), so that recovery
  after a crash at any of these calls accepts it.

`BranchTracked` is stated by operators of a branch, a number of edits and one task, so
that a step that leaves the branch alone only has to show it of the task it replaces
(`QueueRewritten`, `Served`); `TrackedAfter` says what one more commit changes. There is
one lemma per action: the worker's calls rest on `Served`, the operations' that leave the
branch alone on `QuietKept`. The refinement is a case per kind of step: a
commit is `Extend`, a save that records a commit is `Note`, a save of a journal entry is
`Intend`, and every other step is a stutter.

Two theorems assume that nobody else edits the private worktree, because with such edits
the statement is false of the code: an edit between the comparison of the bytes and `git
add` (`runner.go:472`, listed as a hazard) is committed under the attempt's name, which
is a commit no journal entry intended and a content the queue does not record. The run
`parallel` checks both with `MaxEdits = 0`, the value at which the assumption holds of
every behaviour. `RecoveryAccepts` names this condition itself; `CommittedOnce`,
`LedgerComplete`, `NothingForgotten` and `ForeignEditsSurvive` need none.

`History_proofs` proves, for every finite set of files and for every bound:

* `TypeCorrect`: `Spec => []TypeOK`.
* `FinishedStay`: `Spec => FinishedKept`.
* `EvidenceKept`: `Spec => []EvidenceOfTheRun`.
* `BothBooksAgree`: `Spec => []BooksAgree`.

The assumptions are `FilesAssumption` (finitely many files, so that the turns in the
queue can be counted) and `BoundAssumption`. `FinishedKept` rests on where the process
is, which `Stages` says: while a run is under way its record is not finished, so the
saves of the queue may rewrite it; between the end of a run and the moment its record is
archived, the record is unfinished or is already what the next attempt to archive it
would write (`Archived`). The second part needs that nothing changes the queue, the
artifacts or the copies of other runs in that time, which is what
`flushFinishedExecution` at the start of every operation is for; `OwnersStay` shows that
making the copies does not change who owns them. There is one lemma per action; those
that save the queue share `SaveStep`, those of the workers `WorkerStep`.

The other two need three more invariants, each with one lemma per action (`...Course`,
`...Evidence`, `...Books`), all on the instance of the run `history` checked with TLC
before they were proved:

* `Course`: at most one record waits for its end, and while the process runs it is that of
  the active run (`Alone`); its start is the active run's (`Starts`); every attempt names
  a run that has begun (`Named`); and the attempt of a worker is the same one in the queue
  as in memory, of the same run (`Levels`). A load error puts the unsettled runs into
  `log.mixed`, for which neither property promises anything; `OpenRuns`, over which
  these invariants range where they speak of unfinished records, leaves them out.
* `Evidence`: if the run of an attempt already owns a copy of it, the copy is what the
  attempt's artifacts are now (`Fits`). This is why a later run may refer to that copy
  instead of making its own. Only a resumed attempt is written again, and resuming hands
  the attempt to the new run, which owns no copies while it runs (`NoCopies`). Of a run
  that was cut off nothing was written since it ended (`Shown`), so that the next process
  copies what the run itself would have copied, also when a first try made some of the
  copies (`Partial`).
* `Books`: the turns in the checkpoints are the turns that were spent (`Balance`); the
  queue's usage of an attempt is that of its checkpoint, or behind it while the file is
  marked as running (`Booked`); memory is never behind the queue (`Behind`); and a
  checkpoint was opened with no more than the attempts before had spent (`Priors`). While
  workers run, memory has every turn, only the attempts of this run may be behind in the
  queue, and the total at the start plus the turns of the run plus those it recovered is
  what was spent in all (`Works`). From this follows what a record will be charged with
  when its run ends (`Over`), and when it is cut off and the next process completes it
  from the checkpoints of its own attempts (`Due`); `Unspent` and `Began` start the
  argument for a new run.

The model counts turns as the size of a set (`SumUsage`, `Total`, `SpentInAll`): each turn
is an element that names its file and attempt, or its run. So no sum over the files has to
be defined by recursion, and the proofs need cardinalities only: `TotalIsSize`,
`SizeGrows`, `SizeMore` and `FullTotal` are the lemmas that relate the books.

`Publication_proofs` proves, for every set of branch names and every bound, all five
properties of the run `races`:

* `TypeCorrect`: `Spec => []TypeOK`.
* `JournalSound`: `Spec => []JournalAgrees`.
* `NeverBlocksItself`: `Spec => []OnlyOthersBlock`.
* `PublishesTheReviewed`: `Spec => PublishedAsReviewed`.
* `PreviewLeavesNoIntent`: `Spec => PreviewSettles`, for the window that may edit.

The assumptions are `NoneAssumption` and `CommitAssumption` (an absent branch and a
foreign commit are not commits of the program) and `BoundAssumption`. The invariant adds
to `JournalAgrees` that commit ids are given out before they are used (`IdsGiven`), that
only the program puts its commits on branches (`RefsMade`), that where an intent waits
there is nothing, something foreign or its own commit (`IntentsWait`, which is what makes
`OnlyOthersBlock` true), and what the call in progress still knows (`CallKeeps`,
`JournalHeld`): between two of its steps only the user's Git client moves refs, and the
journal on disk is the one the call read plus its own intent.

`Workspaces_proofs` proves, for every set of processes, workspaces, rules and revisions
and for every bound, all five properties of the run `leases`:

* `Invariance`, `TypeCorrect`: `Spec => []IInv`, `Spec => []TypeOK`.
* `EditorsHoldTheirLocks`: `Spec => []AuthorityHeld`.
* `NothingOverwritten`: `Spec => NoForeignOverwrite`.
* `DeletedAreGone`: `Spec => DeletedStays`.
* `RulesAreCurrent`: `Spec => RulesFromLatest`.

The assumptions are `NoneAssumption`, `SettingAssumption` (an absent setting is not a
setting) and `BoundAssumption`. `IInv` says of each process which locks it holds, no
more and no less (`LeaseKnown`, `RulesKnown`), which workspace its call works on and with
which lease (`CallKnown`), and what it knows of the setting it may replace
(`ContentKnown`): while it holds the lease, the stored setting is the one in memory or
one it wrote itself, with the same rules; this is why the second read under a new lease
is needed. A step of one process leaves all of this alone for every other process,
because a setting is replaced under its lease only; that frame is one lemma, and there
is one lemma per action.

`Connections_proofs` proves, for every set of processes, connections, names, addresses,
tenants and accounts and for every bound, all five properties of the run `shared`:

* `Invariance`, `TypeCorrect`: `Spec => []IInv`, `Spec => []TypeOK`.
* `SignOutStands`: `Spec => []SignOutWins`.
* `CredentialStays`: `Spec => []CredentialBelongs`.
* `UpdatesKept`: `Spec => NoLostUpdate`.
* `TokensBelong`: `Spec => TokensOfTheRun`.

The assumptions are `NoneAssumption`, `RecordAssumption` (an absent credential,
connection or run is none) and `BoundAssumption`. `IInv` has four ideas. All open
processes keep the key that is on disk, so none takes another's document for an invalid
one (`KeyKnown`). The holder of the lock has a copy that differs from the document in its
own connection only (`CallKnown`, `WriteKnown`). A number of `uid()` names one sign-in:
whoever froze or showed a connection and finds the same number again finds the same
identity, the same session and the same sign-in epoch (`SeenKnown`, `RunKnown`), because
what is about to be written keeps the old sign-in whole, has number 0, or has a number
nobody has seen (`NewGen`). And every stored credential is of the identity beside it and
of the latest sign-in (`FileKnown`). The four properties are read off these; the action
properties are proved of the step that replaces the document. `AfterWrite` and the other
small operators on a process have one lemma each that says which fields they keep.

`RepairLoop_proofs` proves, for every set of provenances and edits and for every bound,
all four properties of the runs `reviews` and `usage`:

* `Invariance`, `TypeCorrect`: `Spec => []IInv`, `Spec => []TypeOK`.
* `AdoptsTheReviewed`: `Spec => []ReviewedAsAdopted`.
* `DemandStands`: `Spec => NoSkipAfterDemand`.
* `BooksComplete`: `Spec => []UsageCounted`.

The assumptions are `NoneAssumption`, `RecordAssumption` (a verdict, candidate,
checkpoint or result is never none) and `BoundAssumption`. The state of an attempt is in
memory and in the checkpoint, and may come back from either, so `IInv` asks the same of
both (`Sound`): what is marked as accepted was approved for this provenance
(`Approved`), the last review is the candidate's (`Matches`), and once a change was
demanded an unchanged candidate is a refused one and a passed review belongs to the
changed candidate that it passed (`Demands`). `Where` says what each point of the loop
relies on; at `judged`, for instance, the checkpoint already holds the verdict, so a crash
there cannot evade it. A checkpoint may lag behind the requests that were sent, but only
with a request pending in it (`Saved`), and the books in memory lack only the tries of the
request under way (`Booked`); so whoever resumes either counts everything or marks the
total as uncertain. All steps that save share one lemma (`Persisted`), and so do those
that send a request, leave the loop or end the call; each action then has a lemma of its
own.

`Solution_proofs` proves, for every order of solutions that may share files in any way,
every set of contents, every notion of what builds and every bound, all five properties
of the run `solution`:

* `Invariance`, `TypeCorrect`: `Spec => []IInv`, `Spec => []TypeOK`.
* `LedgerAgrees`: `Spec => []LedgerSettled`.
* `ChargedOnce`: `Spec => []AccountedOnce`.
* `CompletedBuild`: `Spec => []CompletedStillBuild`.
* `AdoptsApproved`: `Spec => []AdoptedAsApproved`.

The assumptions are `SolutionAssumption` (the order is a sequence that is not empty, each
solution uses some of the files), `RecordAssumption` (a batch or a journal is never none)
and `BoundAssumption`; that a build sees only the files its solution uses is part of
`Init`. A queue with its session is in memory, on disk, half of each after a failed save,
or in the journal, so `IInv` says what such a pair is worth wherever it is (`Fit`): its
entries are right or marked as uncertain, every charged run is in it except the one under
way, what it shows as completed builds at the head, and it is either `Settled` with the
branch or to be redone from the journal (`Redo`), which then has everything it has and the
one commit more. A journal that recovery may still use carries the same promises for the
tree it would make the head (`Usable`). The queue and the session are two files: `Along`
(the disk is never ahead of the memory) is why the pair that a failed save leaves is fit
too (`QueueSaved`). The rest of `IInv` says what each point of the call relies on, for
instance that while a solution is edited the disk equals the memory (`Synced`) and that a
request on its way is pending there, so that a process that dies leaves an entry that
`load` marks as uncertain (`CrashKept`, `LoadedFit`). That all completed solutions build
before an adoption, although only those whose files changed are built again, is
`BuiltAll`: the others see no change. The steps that only move the call, save, replace the
record of the current run or add the journal's commit to the branch share a lemma each
(`Moved`, `Persisted`, `Reworked`, `Forwarded`). `IInv` was checked with TLC on three
variants of the run's instance before it was proved.

Model-checked only: the properties of `Lines` (`MappingJustified`, `RowsJustified`,
`RangesExact`), which say what the alignment tables and the sums over edits compute for every input
and would be an induction over data, and `StopDrains` and `OperationsEnd` of `Execution`, which are
liveness under fairness; both are beyond this prover. What `RecoveryAccepts` cannot
promise, a discard prepared beside a waiting one, is refuted by the run `discards_wait`.

## 6. Not modelled

The creation of the worktree (the model starts from a created workspace). The content of
reports, logs and messages. Everything in section 1 that the plan has not reached, with its
reason in `components`.

What the code does not promise, and no property claims: an edit of the private worktree by
somebody else that comes

* between the digest check and the write of a candidate (`runner.go:417`, `425`), the look
  and `git restore` of a rollback (`parallel_recovery.go:36`, `43`), the look and the write
  of a discard (`discard_changes.go:345`, `349`), or the checks and `reset --hard` with
  `clean` of a recovery (`parallel_recovery.go:74-101`, `git.go:206-223`) is overwritten:
  modelled, see `Overwriting`;
* between the last look at the bytes and `git add` (`runner.go:472`) is committed under the
  attempt's name: modelled by a commit of what the worktree holds at that moment.
