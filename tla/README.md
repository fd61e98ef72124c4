# A TLA+ model of token_bench

`token_bench` measures how many tokens a coding agent spends under different
conditions. It prepares runs, asks the user to approve a plan, queues the runs
in SQLite, has one worker at a time execute them with the `claude` command line,
and publishes the results as CSV and JSON files. This directory holds a TLA+
model of the parts where processes, threads, requests, crashes and files meet,
the TLC runs that check it, and the TLAPS proofs of its main properties.

    tlc -workers 2 -config workers.cfg MCQueueWorker     # one run
    tlapm QueueWorkerProofs.tla                          # one proof module

## 1. Inventory

| Part | Code | State | Operations | Meets |
|---|---|---|---|---|
| State store | `job_store.py` | tables `jobs`, `consumed_approvals` | enqueue, claim_next_queued, finish_job, delete_job, retry_job, requeue_job, requeue_orphaned_running | every other part, through SQLite transactions |
| Queue worker | `queue_runner.py`, `worker.worker_lock`, `storage.py` | worker.lock, current run, cancel and shutdown events | run, stop_current, stop | store, job processing, web threads |
| Job processing | `job_runner.py`, `worker.run_once` | the claude process, workdir, logs, result.json | process_job | store, evaluation, publication |
| Web API | `webapi.py`, `web/settings.js` | none of its own | estimate, approve, enqueue, retry, delete, stop, add-condition, log | store, queue worker, plan files |
| Publication transaction | `ledger._publish_transaction`, `_restore` | public files, journal, .publish.lock, stage | sync_published | worker, `publish`, `collect`, readers without a lock |
| Published tables | rest of `ledger.py`, `results.py` | rows and attempt keys of five files | _attempt_keys, _collect_jobs, _publish_jobs, rebuild_comparison | store (one read), result.json |
| Unattended collection | `bench.yml`, `collect.py` | the data branch, a checkout per tick | decide, run candidates, publish, commit, verify | command line, files |
| Estimates and approvals | `authorization.py`, `intake.py` | plan.json, approval.json | create_plan, approve_plan_file | workspace, store |
| Workspaces | `workspace.py` | .token-bench/runs/batch/run | prepare_batch, load_run_snapshot | intake, job processing |
| Conditions | `conditions.py`, `add_condition.py`, `models.py` | conditions.json, models.json | load, append_condition | web API, intake |
| Token accounting | `activity_log.py`, `transcript.py` | none | assistant_messages, extract_turns, reconcile, with_context_tax | publication |
| Comparison | `ledger.rebuild_comparison`, `_baseline_window` | none: comparison.csv is built anew each time | rebuild_comparison | publication, pages |
| Diagnoses | `diagnostics.py` | run-diagnostics.json | update_manifest | publication |
| Checks of a machine | `preflight.py`, `tooling.py`, `evaluation.py`, `claude_code.py` | none | check | intake, job processing |
| Pages, site, installers | `web/app.js`, `log_tail.py`, `build_site.py`, workflows, `quickstart.*` | none | render, deploy, install | published files |

What is hard in it:

* **Processes.** A web thread, command line workers and the scheduler may run on
  one database. The lock file allows one worker; requests need no lock.
* **Two events and a lock.** `stop_current` and the worker share
  `QueueRunner._lock`, but `stop` sets its two events without it, and one cancel
  event serves all runs, so it must be cleared between them.
* **Crashes.** A killed worker leaves a running row, a live claude process and a
  changed workdir; a killed publisher leaves half-replaced files and a journal.
* **Retries.** The same run id, workdir, log and result.json serve all attempts.
* **Identity.** An approval is known by a digest that leaves the batch out, a run
  by an id that all its attempts share.
* **Files that change.** Inputs are hashed when a plan is made, copied a moment
  later, checked when a worker takes the row and used after that.
* **An unattended loop.** A tick of `bench.yml` decides from what earlier ticks
  committed, on a machine that keeps nothing, with steps that run after failures.

What makes each part correct: in the store, a success is final, a batch keeps
its order, an approval starts one batch and a deleted run stays deleted. A
running row has one owner whose verdict is always accepted; stops and shutdowns
are neither lost nor applied to the wrong run; claims and shutdowns come to an
end. A publication happens as a whole or not at all. Attempts have one key each
in all tables. What is launched is what was approved. Ticks lose no published
row and give every sound condition its samples. The conditions file stays valid.
Token shares add up, and each run is compared with the right baseline.
`PROJECT.json` lists each hazard at its line with
the property that watches it.

## 2. Modules

| Module | Models |
|---|---|
| `JobStore` | the two tables; one action per operation; what any sequence of calls may do |
| `JobStoreProofs` | theorems about it |
| `QueueWorker` | extends `JobStore` with workers, their lock, events, `process_job`, `run_once`'s wait loop, requests and faults |
| `QueueWorkerProofs` | theorems, among them that it implements `JobStore` |
| `PublishedFiles` | the public files as sets of attempt keys |
| `AtomicPublish` | abstract: a publication is one step |
| `PublishTxn` | lock, journal, stage, swap and rollback, file by file |
| `PublishTxnProofs` | theorems, among them that `PublishTxn` implements `AtomicPublish` |
| `Publication` | extends `JobStore` with attempts, result.json, the log and `sync_published`: which attempt a published row is about |
| `PublicationProofs` | theorems about the published rows and their keys, and that the rows of the store change as `JobStore` allows |
| `Intake` | from create_plan over approve and enqueue to the launch, with inputs and run directories that anybody may edit |
| `IntakeProofs` | theorems about approvals, the rows made from them, what is launched, and the run directories |
| `AddCondition` | append_condition, its shared temporary file and the validator |
| `AddConditionProofs` | the theorem for requests one at a time |
| `BenchTick` | the ticks of bench.yml over the data branch: next-target, candidates, the queue of the tick, publish, commit, verify |
| `BenchTickProofs` | theorems about the data branch |
| `TokenAccounting` | the operators of activity_log.py over the lines of a transcript |
| `RunSummary` | uses them: runs that write transcripts, run-summary.csv, comparison.csv |
| `RunSummaryProofs` | theorems about the sums of the accounting and about the comparison |
| `MC*` | the small instances for TLC |

Operators under a comment that starts with *Bug:* or *Bugs:* are wrong variants
of the definition that follows them. No specification uses them: substituted for
the original they violate a property, which shows that the property depends on
that piece of code (`PROJECT.json`, "mutants").

### JobStore

Each operation is a `BEGIN IMMEDIATE` transaction, hence one step. One that
raises rolls back: its action is then not enabled. `status`, `sequence` and
`outcome` are columns of `jobs` (`outcome` stands for the columns finish_job
fills), `consumed` is the other table, `lastSeq` SQLite's counter. `Unused` joins
the three ways `enqueue` finds that an approval was used: in the two that return
rows, and in the one that raises, nothing changes. A run id contains its batch
id, so plans share no runs; but digests leave the batch id out, so two
plans may share a digest.

The counters are not bounded in the model: every plan is enqueued at most once,
so the state space is finite.

### QueueWorker

`pc[w]` is the place of a worker between two waits, transactions, critical
sections or changes of the file system:

    locking > recovering > checking > claiming > announcing > rearming > setting
            > loading > launching > running > settling > evaluating > saving > publishing > clearing > deciding

`polling` and `backoff` are the two waits, `aborting` is on the way to
`_end_without_run`, and a worker outside of run() is `returned0`, `returned1`,
`raised` or `killed`. `Processing` covers the phases in which `process_job` has
a claimed row that it has not given a status.

* The critical section that makes a run current is three steps, as `stop()` may
  come between them: `Announce` names the run and clears the cancel event,
  `LookAtShutdown` reads the shutdown event, `SetForShutdown` sets the cancel
  event again if it was set. `StopCurrent` is the web's `/api/stop`, which takes
  the same lock and so waits while a worker is `rearming` or `setting`;
  `StopSetsShutdown` and `StopSetsCancel` are the two statements of `stop()`, which
  takes none. What `stop` waits for (5 s) is not a bound on the thread: afterwards
  the process may go away at any point (`Die`).
* `verdict` is the status in hand. `RowStatusFor` is where the row's status
  leaves it: a run cut short, or without output, is `blocked` in the row while
  `process_job` returns `failed`.
* `dirty` holds the runs whose workdir differs from the snapshot. The agent
  writes there, a claude process left behind goes on writing there, and the
  evaluation may leave byte code. No code restores a workdir.
* `strays` are claude processes without a worker.
* `asked` is a history variable: for which run a stop was accepted.
* `Faults` chooses what else may happen: an exception that is not a
  `WorkerError`, an `EvaluationError`, a busy publication lock, a kill. Outcomes the
  code turns into a status (blocked preflight, failed launch, exit codes,
  timeout, usage limit) are always possible.
* A new process that starts is an ended worker that starts again.

Abstractions: what preflight and fingerprints find is a free choice; so are the
exit code and the contents of the transcript. The order of the tests in the wait
loop matters only through the event: a process that is stopped while the event
is set is `cancelled`, otherwise `timeout`. A stop that arrives after the
process exited leaves the measured status. The publication inside `process_job`
is one step here and the subject of `PublishTxn`. Ctrl-C in a command line
worker is a kill.

### PublishTxn

A publisher is a call of `sync_published`. `_OUTPUT_NAMES` are the files
`1..FileCount`, in the order in which the loops visit them; the content of a
file is `Absent` or the set of attempts it reflects. `Operate` is the operation
on the staging directory: it may add any rows the files do not have (how the
rows are found is a later module). `WriteJournal` is the replace that makes the
journal visible, `SwapFile` one replace, `Commit` the unlink of the journal.
`Abort` is a crash or exception at any place, which also drops the file lock.
`Published` is the abstract content: what the journal would bring back when
there is one, otherwise the files. Power failures are outside: the docstring
excludes them.

### Publication

`process_job` from the launch to its return, for one worker over the rows of
`JobStore`, next to one synchronisation at a time (.publish.lock; how its files
change at once is `PublishTxn`'s subject). `ended[r]` is how each attempt of a
run ended; its length is the attempt whose log is on disk, since `run_once`
truncates the log when it opens it (`OpensLog`), also when claude then cannot be
started (`FailToStart`). `saved[r]` is the attempt of result.json, `costless` the
runs whose result.json has no cost. A published row
has its key `run#n`, its status column and, as history, the attempts that
result.json and the log were of when it was made. The steps of a
synchronisation are `Begin` (lock, list_jobs, `_attempt_keys`), `Collect` (the rows
of run-summary.csv, with the status of the store and the turns of the log) and
`Commit` (the rows of token-bench-results.csv, all from result.json, and the
replacement). `_attempt_keys` raises when `TwoKeys`; `float()` raises for a success
without a cost, and the whole synchronisation goes (`CollectRaises`).

Commands, requests and deaths of the worker may come at any moment, and runs may
be launched again. What can go wrong then needs two things, which the
properties name. The history variable `disturbed` has the runs that a command
listed between finish_job and save, whose log was opened while they were listed,
or whose worker ended between finish_job and save: at these places the row,
result.json and the log may be of different attempts. And the log must have been
opened a second time. `Confusable` is both; the properties say that nothing else
confuses a row or its key. The run `keys_refuse` is the confusion itself. An
attempt without changes to its workdir is the one that can be launched again;
`QueueWorker` has the workdirs.

### Intake

`create_plan` is five actions for each batch: `StartEstimate` selects, expands
and filters; for each run `ReadInputs` reads the prompt and hashes the
fixture, `HashAssets` hashes the overlay, `MakeDirectory` copies; `CheckAndSave`
is preflight, the digest and plan.json. An error at any point is `Abandon`, and the
`prepare` command is an estimate that ends there. An input is a version number
(0: missing) and a hash is what it was computed from. `Approve(b)` confirms the
digest of the plan of *b*. A plan has the login (method and provider) and the subscription;
of these the digest has the login only. `Enqueue(b, a)` takes the plan of *b* with the approval of *a*. The
worker's `Claim`, `Load`, `Preflight`, `Launch` and `End` are the places of
`process_job` between which a file may change; the faults in between are
`QueueWorker`'s.

`source` may be edited and a run directory be written to at any moment, `MaxEdits`
times in all. History variables say which directories were made from inputs that
stood still (`pristine`), whether a change came after the worker's last look
(`worker.late`) and what was launched. Such a late change is launched: the claude process
uses the directory and the tool where they lie. `LaunchedAsApproved` excludes it by
name. Before the launch the worker only asks whether
there is a login, so it is not part of what is launched. Also as in the code: a second
batch with a digest that was used never gets rows; the runs of one batch may be prepared
from different versions of the fixture; prompt and hashed asset may hold different
versions of an overlay (the prompt was read first). Left out: an explicit
`--isolation`, `exclude` (the complement of an `include`), a plugin
directory with a relative path, and assets other than overlays.

### AddCondition

A file name leads to an inode: a rename moves the inode, and who has the file open
goes on writing to it. `OpenTmp` truncates the temporary file that all requests
share, `WriteTmp` fills it, `Validate` reads whatever has the name by then,
`Rename` moves it. `ValidDocument` is `load_conditions`; `wellFormed` sums up its
checks of types, keys and patterns. `SerialSpec` lets one request at a time be under
way, which is the case of the wizard. A document that was read before another
request renamed is written back without the other's condition; this needs no
run to be seen.

### BenchTick

`place` is the step of the tick, or how the last one ended. The plan job ranks the
candidates (`Schedule`, `Dispatch`) by the branch, or by nothing when its fetch fails
(`Fetched`). `Restore` begins the run job: an empty store, and data/ as it is on the
branch, or a bare directory when the fetch fails, whatever the reason; `restored`
says which. Then `Changed` is false for good: `git diff` does not see untracked
files. The candidates are in `left`; `queue` is the
store's queue, in which a usage-limited row of an earlier candidate comes first.
What the work command does with a row is one action per outcome: `Ends`,
`EndsSpoiled`, `TimesOut`, `IsCutShort`, `Dies`, `IsLimited`; `WorkReturns0` is an
empty queue. A
succeeded row is published with all that wait, a failed one waits (`waiting`)
until the next publication. `StepFails` skips to the commit step.

data/ is a tree of two files, the results and the summary, and of the journal of a
publication that was killed, if there is one. `Sync` first rolls back to a journal
(`Kept`), as `_publish_transaction` does. `CancelSync` is a cancellation inside a
publication: `KilledSync` says which files are new, in the order of
`_OUTPUT_NAMES`, and whether the journal is there. `Copied` is the copy onto
the branch, which takes no file away: a journal stays there. The ticks do not
overlap, so the branch is what was restored until `Commit`. `health` says how a
condition fares (`Kinds`), each time it is tried: it changes by `Repair` only. `Upset`
counts manual runs, repairs and everything that may go wrong in a tick besides.

A row is its condition, its preset and whether it is a sample; `number` tells equal
rows apart up to `MaxRows`. One model is active, and every success has a cost
(`cost_missing` is about one that has none). The data branch is there at first,
without a .gitignore for data/. Left out: the preflight
mode, the half-hour skip of the large preset, and a tick without a data branch,
in which `data/` is not tracked and nothing is committed, so that the orphan branch
of bench.yml:329 is never made.

### TokenAccounting and RunSummary

A line of a transcript is the message it belongs to (0 for all that
`assistant_messages` and `Transcript.load` skip), its context (the three kinds of
input tokens added up) and its output. The operators are those of `activity_log.py`
without the columns that nothing is computed from; `Total` is Python's `sum`, written
as a recursive function, and `Nth` picks the k-th message of those that a line begins, so that both
can be proved about. `RunSummary` makes runs one
after the other: `StartNew` for a new job, `StartAgain` for one that is retried or was
requeued and keeps its place in `jobs`, any `WriteLine`, `End` with any status. `Sync`
adds the rows of the jobs that wait (`Waiting`: ended, and not in the summary under
this status) in the order of the queue, as `_collect_jobs` goes through
`list_jobs`, and builds the comparison anew. It may come at any moment, so late too: the
worker publishes after a success only, and it may die before it does or find the lock
taken. A series is a
model and a prompt, a row of the comparison is its day, condition, series, runs and
BASE runs; means, deltas and rounding are functions of these. `lacks` is a missing
quality score or a missing cost. What a result.json or log of another attempt does
to a row is `Publication`'s subject: here each row is of its own attempt.

## 3. Runs

| Run | Instance | Shows |
|---|---|---|
| `store` | 3 batches (2+1+1 runs), 2 sharing a digest | outcome columns match the status, plan order, final successes, no return of deleted runs, one batch per digest |
| `workers` | web + `work --once`, 1 batch of 2 runs, all faults | ownership of running rows, accepted verdicts, stops kept, shutdown reaches the run, no foreign cancel, exit code 0 agrees with the row |
| `shutdown` | web worker, all faults, fair | a shut down worker ends; claimed rows leave running; tables only change as the store allows |
| `publish` | 2 publishers, 3 files, 2 attempts | atomic publication, nothing reported is lost, readers see at least what is published |
| `publication` | 1 run, 3 attempts, commands, requests, deaths and failed launches at every moment | a row and a key are of one attempt, and keys contradict each other only after the one kind of confusion; what returns leaves no success behind |
| `intake` | 2 batches over a plain condition and one with overlay and plugin, one edit | rows are those of the approved batch, what is launched was approved, a directory made in peace is accepted |
| `bench` | 3 conditions of which one may be broken in any way, or two, so that one has no tool and the other has none, dies or times out; 2 presets, 2 attempts per tick, 2 upsets; fair | published rows of a restored tick reach the branch, it is green only with its rows there, the branch loses no row but over a journal, sound conditions get their samples |
| `tokens` | BASE and a treatment, 2 series, 3 runs, new or made again, over 2 days, any transcript of up to 4, 3 and 2 lines over 2 contexts and 2 outputs | shares add up, repeated lines count once, each run is compared once, with BASE runs of its series and of its day or before, past days stay |

Why these bounds are enough to make the cases happen: two runs let the event,
lock and row of one run meet those of the next; two workers let one recover what
the other left, and a worker that starts again is a third. Two plans under one
digest are the least that can collide. Three files have a first, a middle and
a last one to replace; two attempts let files differ; two publishers let one
roll back for the other. `MaxAttempts` (a guard of `OpensLog` and of retries in
`Request`) bounds the attempts of a run in `Publication`: two are the least
that can be confused, and a third meets a run that already is. Nothing is cut off by
a state constraint.

The theorems of section 4 remove the bounds from all invariants and action properties of
these runs; liveness keeps them.

In `intake`, two batches are the least that can share a digest or exchange their
approvals; the two conditions differ in everything an injection
can make depend on a file or a tool. One edit (`MaxEdits`) is enough to put a change into any
gap between two looks, and which input or file it hits and how is free; the same run
passes with two edits over one batch. In `bench`, three conditions with two
attempts per tick let a broken one be tried before, between and after the sound
ones, and leave one untried. With two broken ones the attempts of a tick are used up,
which `OthersGetTheirTurn` excludes, unless they are one and the same.
`RunsPerPreset` and `MaxRows` are 1, the former where the code has 30: the preset changes when every condition has its count, whatever the count is.
`MaxUpsets` = 2 lets one failure hit while another is dealt with. In `tokens`,
`MaxLines` is what the first transcript may have, and each later run has one line
less; a run that is made again counts. Four lines hold a message, a repetition, a growing and a shrinking context. The window is 1
where the code has 10, so that three runs are enough for a window that moves.

Deadlock is checked in every run but `publication`, `intake`, `tokens` and `add_race`,
whose systems may be done; in the first, keys that contradict each other and a
deleted row leave nothing to do.

**Fairness.** `FairSpec` assumes weak fairness of each worker's own steps,
including ends of waits: a live thread goes on, `wait` has a timeout, and a run
has a deadline. `stop()` sets its second event after the first. Nothing is
assumed of starts, requests, agents, or faults. `ClaimedRunEnds`
excuses workers that went away (stop() may leave a thread to its process) or
were ended by an exception, for which `left_running` shows that it is false.

`Spec` of BenchTick assumes weak fairness of `TickStep`: the schedule goes on and a
tick goes through its steps, which the hosted service does by itself. Nothing
is assumed of upsets: they are bounded, and within the bound they may come
whenever they do most harm. `SoundAreSampled` holds for the first preset; with a
broken condition the preset never changes, as `next_preset` says.

Four runs end in a violation on purpose: they check what the repository says.

| Run | Statement | What the code does |
|---|---|---|
| `keys_refuse` | a partly published attempt is completed under one key (ledger.py:607) | between finish_job and save the old result.json is published under the new status, twice keyed, and every later synchronisation raises |
| `bench_unseen` | no success stays without a row in silence (bench.yml:342, CI-CD.md:94) | after a failed fetch data/ is untracked, nothing is committed, and the verify step is content with the working tree |
| `bench_starved` | one broken condition does not block the rest (collect.py:67) | a condition whose runs end, but never as a sample, keeps the fewest samples and is the one experiment of every tick |
| `add_race` | conditions.json is only written when the validator accepts it (add_condition.py:170) | of two requests one renames what the other has just truncated |

Nine more configurations refute statements of the repository in the same way, each
with one property:

    tlc -config round_crossed.cfg MCRunSummary

| Configuration | Module | Statement | What the code does |
|---|---|---|---|
| `success_lost.cfg` | `MCPublication` | a succeeded row is measured (job_store.py:406) | a worker that dies between finish_job and save leaves none, and a retry is refused |
| `cost_missing.cfg` | `MCPublication` | a missing cost is recorded as missing (results.py:4) and published as an empty cell (test_publish.py:190) | float() raises for it (ledger.py:427), for this publication and each later one |
| `bench_journal.cfg` | `MCBenchTick` | the restore keeps the history (bench.yml:148) | the journal of a killed publication is committed and stays: each later tick rolls back to it |
| `baseline_order.cfg` | `MCRunSummary` | the order of the file is that of the runs (ledger.py:416) | a run that is made again keeps its place in the queue; after a late synchronisation an older BASE run is in the window and a newer one is not |
| `round_crossed.cfg` | `MCRunSummary` | runs are compared within one round (ACTIVITY-LOG.md:147) | the baseline comes from any day (ledger.py:385, and so CI-CD.md:116) |
| `retry.cfg` | `MCQueueWorker` | a retry starts from the beginning (job_store.py:404) | the workdir is the changed one, and the attempt ends with config-error |
| `blocked.cfg` | `MCQueueWorker` | blocked stops a sequential worker (job_runner.py:58) | process_job returns the outcome's failed, and the worker goes on |
| `publish_lock.cfg` | `MCQueueWorker` | the web worker takes the next job after an error (docs/CI-CD.md:162) | a busy .publish.lock ends its thread: both locks raise one class |
| `left_running.cfg` | `MCQueueWorker` | no path leaves a job running (job_runner.py:4) | an OSError that is not wrapped does |

The command line workers of the last four drain the queue (`--exit-when-empty`); the
theorems hold for any mix of kinds. `pub_two_runs.cfg` (`MCPublication`) passes: the
keys of `publication` for two runs with one attempt each.

More disagreements are visible in the models and have no run of their own. After
`delete_job` of all its rows a used approval is refused with the message of a damaged store, where `enqueue`'s docstring promises its existing jobs. A killed
worker's claude process goes on (`strays`) while the next worker recovers its row,
of which `requeue_orphaned_running` says that nobody works on it. A tick of
`bench.yml` whose attempts
all time out skips its publish step and loses the timeout rows that
`PUBLISHABLE_STATUSES` wants to be seen. Two conditions that die before the model is
called use up `MAX_ATTEMPTS` in every tick, and one that is cut short each time ends
every tick without a sample, which `OthersGetTheirTurn` both excludes. The wizard says
that nothing was written when an overlay file was.

## 4. Proofs

All theorems hold for any sets of runs, plans, workers, publishers, conditions,
inputs and presets, any number of files, attempts, edits and days, and transcripts
of any length, under the assumptions named in the modules: `PlansAssumption` (plans
list distinct runs and share none), `WorkersAssumption` (kinds of workers; the null
values are new), `FilesAssumption`, `PublishersAssumption`, `PublicationAssumption`,
`IntakeAssumption`, `SelectionAssumption`, `BenchAssumption` and `SummaryAssumption`. TLC
evaluates them in the runs of their modules. Two more are in the statements that need them:

| Assumption | Theorems | What it says, and why |
|---|---|---|
| `Checkout` | `SerialOnlyValidated` | conditions.json is valid in a checkout |
| `NoneIsNew` | of `Intake` | the null value is no approval, plan, row, directory, launch or run. A representation of nothing has to differ from what it is not; TLC does it with a model value |

`SelectionAssumption` of
`Intake` is about TLA+ and not about the code: a `SelectSeq` of a sequence holds
members of it that pass the test. The prover has no rules for this operator of the
library; TLC evaluates the assumption.

* **JobStore.** `StoreTypeOK` and `OutcomeMatchesStatus` are inductive as they
  stand. Row order needs `KeysBounded`: no key exceeds `lastSeq`, so that a new
  batch sorts after all rows. Deletion and the one-batch property are temporal: they
  rest on `PresentIsSpent` (a row's digest is consumed), on `SpentStep` (what is
  consumed and without rows stays so) and on `DigestHasOneBatch`.
* **QueueWorker.** The inductive invariant has three layers. `LockInv`: a worker
  inside run() is the lock holder. `JobInv` and `VerdictInv`: which phases have a
  job, and what may be in hand there; with the lock they give `RunningIsOwned` and
  `FinishAccepted`, which are only inductive together. `CurrentInv`, `AnnounceInv`,
  `StopOrder` and `CauseInv` relate the events, the current run and the history;
  with them come `AcceptedStopKept` and `ShutdownReachesRun`. The cancel property
  and the refinement to `StoreSpec` follow from the invariant step by step: each
  action of a worker is a store action or leaves the tables alone. Through the
  refinement, the workers inherit `SucceededIsFinal`, and `SuccessInHand` (a success
  in hand is in the row, or deleted for good), from which `OnceReportsRow` follows.
* **PublishTxn.** `LockInv` says that at most one publisher is not idle. `PhaseInv`
  says what journal, files, `before` and stage are in each phase, in particular that
  while a swap is under way the journal is `before` and the files that the loop has
  passed are the staged ones. It makes `Commit` the only step that changes
  `Published`, which gives `PublishIsAtomic`.
* **Publication.** No theorem restricts what may happen. `PublicationTyped` relates the
  phases to the job, the attempts and who synchronises; with it each step is one of
  the store or leaves the rows alone (`PublicationKeepsStore`). `SoundInv` is said of
  each run that is not disturbed. `SettledOf`: its row, if it is in a publishable
  status, is that of the attempt of its log and its result.json, except between
  finish_job and save. `ListedOf`: what was listed still is so on disk while somebody
  synchronises. `BuiltOf` and `TablesOf`: the rows it has in hand are those of the
  files, and both tables are equal for this run and have one row for each status and
  each number. That a fresh number exists and
  is not taken (`FreshIsFree`) is a fact about finite sets: of the first n + 1
  numbers, n rows leave one out. `OnceInv` is said of each run, disturbed
  or not, whose log was opened at most once: all its rows, staged or
  published, are number 1 and tell of the one attempt there is
  (`OpenedOnceTellsOne`). A run is not confusable if it is of the first kind or of the
  second, so the two together (`BothInv`) give the other theorems: one shows that
  rows of runs which nobody met at the wrong moment are sound however often they are
  retried, the other that those of a run which was not retried are, whoever met it.
* **Intake.** `PlanInv`: a plan is saved once and its digest is that of its own
  fields. `ApprovalInv`: an approval keeps the plan of its batch. `RowInv`
  says that the rows, and what the worker holds, are runs of approved plans;
  approving again keeps the plan (a batch has one), which makes it inductive. For
  these, inputs, run directories and preflight are never opened: the theorems hold
  whatever is edited. `WorkerInv` follows the worker's looks: until somebody writes
  after the look, its directory and tool are what the row says. That no estimate
  writes to it needs `OwnRuns` (the runs of a plan are of its batch) and that the
  batch of a row has its estimate behind it. `LaunchedAsApproved` follows with
  `RowInv`. For the directories, `Underway` says how far an estimate is and that,
  while nothing moved, what it has read is still there; `Made` that each directory
  of a plan is there, and is as hashed when it was made in peace. With these
  `SteadyIsAccepted` is inductive, and its proof needs the types and the launch
  invariant beside it (`AllInv`).
* **BenchTick.** `JournalInv`: what a journal would bring back is a part of what the
  files hold, on the branch and in the tree. Four facts about a tick that was restored
  make the rest inductive: while it has its machine, its
  tree, rolled back, holds the branch, rolled back, and what it published
  (`TreeInv`); after the commit step the
  branch is the tree (`CommitInv`); a tick without a failed step has run and left
  nothing waiting (`OkInv`); and what the branch holds at the end (`EndInv`).
  A tick that was not restored changes nothing on the branch.
  Health, candidates and ranking are never opened.
* **TokenAccounting and RunSummary.** The accounting is sums. `TotalIs` proves that
  the recursive function exists and unfolds, `AllUpTo` is induction in the form of a
  least counterexample, and `AddedForEveryLaterTurn` sums by parts: what is added at
  a turn counts for every later one. A turn of `extract_turns` explains the growth
  of the context until the next (`TurnExplains`), so the shares add up for every
  transcript (`EveryBreakdownBalances`, compacted or not). `SummaryInv` says that
  the summary is a table of dated rows, in any order, and that the comparison is
  that of the summary. A window is in the BASE runs of its series, and up to its day
  if there are any (`BaselineIs`). Rows that are
  appended, all of later days, are not in the window of an earlier day: it stays as it
  was (`PastRowStays`), wherever they stand.
* **AddCondition.** `SerialInv` says that conditions.json and the temporary file are
  two inodes, that who writes does so to the one under the temporary name, and that
  who is about to rename has validated what is there now. With one request under way
  these are inductive; the race breaks the last. `ValidDocument` is never opened:
  the theorem holds for any validator.

Only model-checked: the liveness properties `ShutdownEnds`, `ClaimedRunEnds` and
`SoundAreSampled`, since the proof system has no rules for fairness, and the
violations, which are counterexamples. All invariants and action properties of the
passing runs are proved.

The library's induction theorems take an operator as a parameter, which the
installed provers cannot instantiate. Where a proof needs induction over the
naturals it uses the set of counterexamples instead, which has a least member
(`LeastElement`, from the well-foundedness of `<`).

## 5. Not modelled

Formatting of rows, messages and pages, the questions of the condition wizard,
database migrations, installers and the sample project the agent works on hold
no state that the properties above depend on. The texts a model writes about
a run (`diagnostics.py`) are a file of the publication like the others. The
proxy process around `run_once` is an outcome of the launch: no other part
reads its state. The workflows besides `bench.yml` deploy and repair what is finished.
`PROJECT.json` gives the reason for each component.

## 6. Plan

Done: the store, the worker, the publication, the intake, the conditions, the ticks and
the accounting, with proofs of all their safety properties. To come:

1. `AtomicPublish` as what a synchronisation of `Publication` is, so that
   `AddsNewKeys` need not be read next to `Additions`.
2. What of `SoundAreSampled` is safety: a tick tries no condition while one with fewer
   samples, that preflight accepts, is left out.
