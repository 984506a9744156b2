# GF Wordbench: TLA+ models, checks and proofs

GF Wordbench validates resource grammars of the Grammatical Framework: it scans the selected
sources, runs `gf` on each of them, plays scenarios against the compiled grammar, judges the
run and writes its evidence as reports. This directory models the parts of it that are
concurrent or that must survive failures, states what these parts promise, model-checks it on
small instances and proves most of it for instances of every size. Paths below are relative
to `src/src/gf_wordbench/`; `docs/` is `src/docs/`.

A run is one thread of Python. What makes it hard is what happens around that thread: two
pump threads per process; a child that forks, ignores signals or keeps pipes open; a GUI
thread that learns of the run through queued signals only; a user who cancels, closes or edits
at any moment; other processes at the same files; any system call that fails; and a stop
between any two of them.

## 1. Inventory

### 1.1 Parts that are modelled

| Part | State it keeps | Operations | What is hard | What makes it correct |
|---|---|---|---|---|
| Process output capture (`infrastructure/process/streams.py`) | lifecycle, reserved paths, one byte budget; per stream: sizes, flags, source and sink; the summary | open, start, two pumps (read, account, write, close), finalize (join, close, summarise) | two pumps draw on one budget while the owner closes their files under them; a descendant keeps the pipe open; any read or write fails | evidence bounded by the limit, complete when it says so, never silently cut, changed after its summary only by writes that were under way and are told as truncated; finalize returns |
| Process runner (`infrastructure/process/runner.py`, `termination.py`, `models.py`, `launcher.py`) | execution facts, cause, the process and its group | open the session, launch, monitor, terminate softly then by force, contain after an exception, reconcile, build the result | cancellation, timeout, output limit and exit race; descendants outlive the root; interrupts | the result tells the observed cause, a confirmed termination is one, what is released however a request ends, every request ends |
| Run application (`runs/application.py`), run result (`runs/result_builder.py`) | work item at hand, evidence per file and per scenario, overall status | probe, scan, compile, fingerprint, play a scenario, judge | cancellation between and inside process calls; one failing compilation among many; the sources change meanwhile | OK is earned by all the work, cancellation has a cause, launches stop after a request, failures of a compilation are contained as far as its except clause can write their evidence, the run ends |
| Run finalization (`runs/finalizer.py`, `lifecycle.py`) | the run's lifecycle state, the directory and its manifest, the last run, the failures of the call | mark, stop processes, close writers, prepare, publish reports and manifest in passes, verify, mark again, update the last run | each step may fail and the failure changes what must be published; writers nobody could close; a deadline; a second call | a finalized run is sealed against everything but another call, and tells its failures; the call returns |
| Run pipeline: orchestration, planning, stage execution, cancellation (`runs/orchestrator.py`, `planner.py`, `stage_executor.py`, `cancellation.py`) | phase, plan, a record per stage, abort reason, fatal stage, latch, budget | plan, preflight, the loop over the stages, the four kinds of result, finalize | the looks at the cancellation and the budget are not atomic with the start of a stage; a failure blocks some stages, aborts others and must leave the reports | stages run on their evidence, a stop stops, reports are attempted unless a call outside every handler raises |
| Artifact publication (`reporting/publisher.py`) | destination, staging and backup trees | verify sources, stage, conflict policy, move to backup, commit, verify, clean up | several publishers, failures in the cleanup itself, a stop between two renames | nothing is lost, what was published stays |
| GUI run lifecycle (`entrypoints/gui/window.py`, `runtime.py`, `workers.py`, `controller.py`) | the window's run state and pending close, the runtime's worker handle, worker and thread of each run, the queue of signals | start, cancel, close and its confirmation, end, thread clean-up, shutdown on exit and on a language switch | signals of an earlier run arrive under a later one; the confirmation dialog runs a nested event loop; shutdown blocks the thread that would deliver the quit it waits for | the window is busy exactly for the run it shows, it never goes away under a run, an accepted close happens |
| Startup window (`entrypoints/gui/startup.py`) | phase, chosen and remembered path, RGL root | load what is remembered, choose, probe, compose the runtime, remember, forget, switch language | state writes in the middle of an opening, each of which may fail or overlap one of another process | only what was opened is remembered |
| Application state, atomic file output (`state/repository.py`, `infrastructure/atomic_io.py`) | the canonical file, the legacy file | load, migrate, save; temporary file and replacement | load-change-save without a lock; reads that fail for a moment; a stop inside a migration | the file is never torn; nothing but a failing read or migration or an overlap loses a setting |
| Project replacement (`projects/filesystem_adapter.py`, `initializer.py`, `resetter.py`) | active, staged and rollback trees, the lifecycle lock | initialize and reset: check, stage, validate, swap, validate again, clean, complete or restore | every rename and removal may fail, also those of the recovery; a stop between the two renames | the tree a reset replaces survives until its successor is validated; the result tells the project it leaves |
| Gold updates (`validation/scenarios/gold_update.py`) | one gold file, the plan of each updater | prepare, look again, write, read back, restore, record | nothing locks the file: other updaters and editors are between any two steps; the restoration may fail, and so may the record that is built after the replacement | only what was confirmed becomes gold, an undisturbed update is all or nothing |

How they interact. The window starts a worker whose use case is one run; the run makes one
synchronous call of `run_process` per probe, compilation and scenario and reads its
`ProcessResult`. `run_process` owns a capture session for the length of the call; the pumps
and the monitor share the budget (under its lock) and the flags of the capture. A cancellation
is one flag that the GUI thread sets (`workers.py`) and the run reads through
`cancellation_check`; the monitor of a process polls the same flag through a token. The
startup window composes the runtime that owns the worker handle, shuts it down when the
language is switched, and is the only caller of the state repository. Publication, project
replacement and gold updates are operations of their own: each is called on files that no run
is writing, but that other processes may be.

### 1.2 Parts that are not modelled, and why

- **Continuation and preflight** (`runs/continuation.py`, `preflight.py`), **run budget**
  (`budgets.py`) and **run history** (`history.py`): decisions over one record of facts, checks of
  paths, arithmetic on deadlines, a selection from a list. `RunPipeline` sees the answer of the
  preflight and that the budget is spent.
- The **services and handlers** of the pipeline and the operations of a finalization: protocol
  classes whose implementations come from the caller. At this commit the callers are tests, and
  command line and GUI call `run_validation` of the run application instead. The models take from
  them every answer the protocols allow, and exceptions.
- **Failure classification** (`diagnostics/classification/`, and `_classify_diagnostic_item`):
  a function of the graph of failed modules, which `ValidationRun` abstracts with the
  compiler's messages.
- **Command line, bootstrap, automation**: parsing of arguments and one call of
  `run_validation`, without a cancellation check; the run is `ValidationRun`.
- **Compilation commands, scanning, selection, scenario parsing, diagnostics parsing, release
  decision, reports, profiles, configuration, kernel values, logging, paths, identity**:
  functions of one text, one document or one list. Where a modelled part calls them, the model
  takes every answer they can give.
- **Linguistic review, handoff, practical batches**: one-shot document transformations.
- Inside the modelled files: `CaptureSession` (the direct-file capture) and
  `LanguageRuntimeSwitcher` are constructed nowhere; reset and quarantine of the state
  repository are called nowhere; the archive of a project reset is an operations object that
  nothing constructs, so its steps are external answers.

By volume most of the repository is in this second list: text, documents and tests. The models
map a few percent of all lines, and most of the lines that order effects of several actors.

`PROJECT.json` lists every part with its sources, and under `hazards` the lines where each
hard behaviour bites and the properties that watch it.

## 2. Modules

| Module | Models | Built on |
|---|---|---|
| `StreamCapture` | `ProcessStreamCapture` and the pipe session around it | - |
| `ProcessRunner` | `run_process`, termination, the result's validation, and the processes | `EXTENDS StreamCapture` |
| `ProcessExecution` | abstract: what a call of `run_process` promises | - |
| `ValidationRun` | `execute_quick_run`, `execute_diagnostic_run`, `derive_overall_status` | a process call is `INSTANCE ProcessExecution` |
| `RunFinalization` | `finalize_run` and the lifecycle of the run it finalizes | - |
| `RunPipeline` | `RunOrchestrator.run`, `resolve_execution_plan`, `execute_plan` and the cancellation latch | - |
| `GuiRun` | window, runtime, worker and thread of the runs of one session | - |
| `StateRepository` | load, migration and save of the state file | - |
| `LanguageStartup` | the startup controller | `EXTENDS StateRepository` |
| `DirectoryPublication` | `_publish`, its conflict policies and its cleanup | - |
| `ProjectReplacement` | `ProjectInitializer`, `ProjectResetter` and the renames they use | - |
| `GoldUpdate` | `prepare_gold_update`, `apply_gold_update` | - |
| `RunExecution_proofs` | theorems about the two phases behind `execute_run` | `EXTENDS RunPipeline, RunFinalization`, TLAPS |
| `*_proofs` | theorems about the module they extend; those about the capture are in `ProcessRunner_proofs` | TLAPS |
| `MC*` | small instances for TLC | the module they extend |

The three layers of a process call fit together: `ProcessRunner` extends `StreamCapture` and
replaces its free owner by the runner's control; the run `runner_live` checks that it implements
`ProcessExecution` (`ImplementsPromise`, with `Phase` as the refinement mapping), and
`RunnerKeepsPromise` proves the safety part; `ValidationRun` uses only that promise.
`LanguageStartup` extends `StateRepository` in the same way: its sessions are the repository's
callers. `GuiRun` does not import `ValidationRun`: of a run the window sees only that it
ends, which is `RunEnds`.

### 2.1 StreamCapture

Bytes are counted, not represented: `produced[s]` were written into pipe `s`, `taken[s]` have left
it, `file[s]` are on disk. `budget` is `_OutputBudget`; `PumpAccount` is its critical section. A
pump is at `enter`, `reading`, `account`, `write`, `writing`, `close_source`, `close_sink` or
`done`, as in `_pump` with its `finally` block. The look at the sink and the write are two steps
(`PumpBeginsWrite`, `PumpWrite`): a `write(2)` that has begun outlasts `_close_sink` by the owner,
and may end, whole or in part, after the sizes were taken and the summary was built; one that has
not begun raises, as does what is left of a write when its sink is found closed
(`PumpWriteFails`). The owner is at the steps of `finalize` and `_drain_running_threads`: join
until the drain deadline, close the sources, join again for a bounded time, close the sinks,
summarise (`Summarize`), release the paths (`Release`). An interrupt may fall into any of these
(`FinalizeInterrupted`): what comes after it is skipped, but for the `finally` clause of the
session, which closes the parent's ends of the pipes, and `finalize` may be called again
(`MayFinalize`). A read in progress is not woken by the closing of its file (the pump stays at
`reading`), a read that begins afterwards raises. The child side (`WriterEmits`, `WriterCloses`,
`ChildInherits`) is external: a full pipe blocks it, a pipe without a reader refuses it.

### 2.2 ProcessRunner

`rpc` is the place in `run_process`; the steps of `_monitor_process` are separate actions in
the code's order (limit, cancellation, exit, deadline, sleep), so that every exit and every
request can fall between two of them. `proc` says of each process whether it is alive in the
group, has escaped from it (`setsid`) or is dead; `killed` remembers who has been sent a forced
signal. `FactsOf`, `Reconciled` and `ValidFacts` are `_facts_from_termination`,
`_reconcile_capture_limit` and the validation in `ProcessResult`, which may raise at the
caller. Interrupts, failing signals and a failing start of the pumps are the exception paths.
An interrupt may come while the child is monitored or contained (`Interrupted`), in the joins of a
start whose pumps did not run (`StartInterrupted`), before the child exists or after the
finalization (`InterruptedOutside`), and in `capture.finalize` itself
(`FinalizationInterrupted`): the `finally` clause of `open_capture_session` then finalizes once
more, and a second interrupt there goes to the caller with the release left undone. Not modelled:
an interrupt inside `open`, one inside `Popen` or between it and the start of the pumps, and a file
descriptor that is reused after it was closed under a write in progress.
`Containment` distinguishes a POSIX group from the platforms where only the root is known.

### 2.3 ProcessExecution

One launch at most, none after an early cancellation, the first terminal cause wins, one
verdict: the state of that cause, or an exception.

### 2.4 ValidationRun

`step` is the place in the loop. A source on disk is a version number that `EditSource` raises;
`work` and `items` remember the versions that the scan, gf and the fingerprint read. gf reads at
the moment a process settles, any time between its launch and its answer. `Cancelled` is
`cancellation_check`, read where the code reads it: at the head of the loop, before a compilation,
before a scenario, before a fingerprint in Quick mode only, by `run_process` once before its
launch, and by its monitor. A process call may complete, time out, be cancelled (by the token, or
for its output), fail to launch or raise. What comes before a call and what is done with its
answer may raise as well. A Diagnostic compilation that raises is handled by its `except` clause,
which is a step of its own (`containing`): `_compile_exception_evidence` makes a directory and
writes two files outside any handler, so it yields an ERROR item or ends the run as raised
(`ContainException`). `Overall` is `derive_overall_status`. `KeyboardInterrupt` in the run's own
thread is left out: it ends the program.

### 2.5 RunFinalization

A result is the set of failures it tells, the directory is what its reports tell and how often a
late writer changed it, and a manifest is the directory it was computed from. `pc` is the step
of `finalize_run`; the calls of `_prepare_result` are separate actions named for what follows
them. `Unable` is `_attempt` when its operation raises or the deadline has passed; `Moves` adds
the transition that `transition_lifecycle` refuses. The operations are supplied by the caller:
at this commit that is only the tests, and the model takes from them what the protocol classes
promise. `Call` may be repeated on the same directory, after a crash and on a run that is already
finalized: `mark_finalizing` then fails and the code goes on (`finalizer.py`, 436). `reopened`
remembers that a finalized run has been called again; no action reads it.

### 2.6 RunPipeline

A request is what the planner looks at: the mode, the target's kind and the switches. `Enabled`,
`RequiredStages` and `Needs` are the planner's tables. A record is its status together with
`prerequisite_available`. `phase` is the orchestrator's place, with its four looks at the latch
(`Check`) and its exception paths; `next` and `place` are the place in the loop of
`execute_plan`. The look at the cancellation, the look at the budget, the look at the
prerequisites and the start of the handler are separate actions, so that a request or the end
of the budget falls between any two of them. A handler may return any record the code accepts
and may raise, which the loop contains. What it does not contain leaves it before the reports are
attempted (`LeavesLoop`, `Uncontained`): the cancellation check, its reason, the budget
provider, the timeout of a stage, the clock, the record built for a cancelled stage and the
sink of the records.

### 2.7 DirectoryPublication

A tree is known by the run it holds and by whether it is whole. Each publisher steps through
`_publish`; every call is an action with its failure (`Fault`), a removal that fails leaves the
tree or a part of it, and `Crash` may stop a publisher between any two calls or in the middle
of a removal. `os.replace` onto a directory that holds files fails.

### 2.8 GuiRun

The runs of a session are numbered. `stage[r]` is `RunWorker.run` of run `r`, `thread[r]` its
`QThread`; both talk to the GUI thread only by appending to `events`, the queue that Qt
delivers in order. What Qt delivers in the worker's own thread is not in the queue; `thread.quit`
is, because the thread object lives in the GUI thread. `shown` is the run the progress panel
began last, `worker` the runtime's handle: the clean-up of an earlier thread may set it to none
under a later run (`WorkerCleaned`). A handler is one action, with everything it calls:
`RunEnded` is the terminal slot together with `_finish_worker_ui` and `notify_run_finished`.
`closeEvent` is split where its modal dialog runs a nested event loop (`CloseWindow`,
`AnswerConfirmation`). While `gui` is in one of its two waits, the GUI thread is inside
`shutdown()` and delivers nothing. Qt and the user are external.

### 2.9 StateRepository and LanguageStartup

A document is absent, malformed or a state of two fields, the remembered language and the RGL
root. A repository call steps through look, read, migrate, save, publish and verify; each read
and each write may fail on its own, and a failing read gives the defaults, as in the code.
`ideal` is what the file would tell if every change were atomic; `disturbed` becomes true when
a read or migration fails or two calls overlap. The callers are the sessions of the startup
window: `phase` is `StartupPhase`, and `at` is the place in the callback from which the GUI
thread called the repository, so that other processes act in the middle of
`_compose_main_runtime`. `Close` is both the shutdown and the death of a process. What a probe
finds, which directories exist and whether a runtime can be composed are external choices.

### 2.10 ProjectReplacement

`fs` holds the tree at the destination, at the stage and at the rollback place: absent, empty,
the user's work, a whole fresh template, or a torn one. A rename succeeds only onto nothing or
onto an empty directory; a removal may fail having removed a part. The initializer and the
resetter share the steps of `atomic_replace_directory` (`SwapOut`, `SwapIn`, `SwapUndo`) and
`restore_directory` (`Restore`, `RestoreIn`) and differ in whom an error is handed to
(`SwapRaises`, `CompleteFails`, `RollbackFails`). An initialization may have no lock: the
script that calls it supplies none. `UserWorks` puts files into a destination that has none.

### 2.11 GoldUpdate

The contents of the one file are values that stand for their hash. Each updater goes from its
plan over the last comparison, the read for the rollback, the write and the read-back to its
outcome. The `GoldUpdateRecord` is built after the replacement and outside the `try`
(`Record`): it bounds texts that the request does not bound, and reads the clock, so the call
may raise over a file that holds the candidate and that nobody restores (`unrecorded`). `Edit`
is an editor or a checkout, `Stop` the death of an updater. `touched` says
whether another one has changed the file since the plan, and whether that was after the last
comparison; `sources` collects what may legitimately be in the file.

## 3. Runs

| Run | Question | Distinct states |
|---|---|---|
| `capture` | Is the evidence bounded, flagged where cut, complete when it says so, and is a write told that outlasts the summary? Does finalize return and do the pipes drain? | 344,000 |
| `runner_group` | A POSIX group of a root and a descendant that may leave it: is every result true, is the root left running? | 2,635,000 |
| `runner_live` | Failing reads, writes and signals, interrupts, silent processes that hold the pipes: does every request end, with what is promised to be released, and is `ProcessExecution` implemented? | 327,000 |
| `run_contained` | Quick and Diagnostic runs with cancellation and edits at any time: the promises of a run | 872,000 |
| `finalization_repeated` | Two calls, failing steps, changing results, open writers, a deadline and crashes: is a finalized run sealed and true to its manifest until it is called again, does the call return? | 665,000 |
| `pipeline_requests` | Requests of every mode, a cancellation and a spent budget at any moment, one failure of any kind: do stages run on their evidence and stop when told, are reports attempted? | 1,748,000 |
| `publication_shared` | Two publishers, every policy, every failure, crashes: is anything lost, does what was published stay? | 1,965,000 |
| `gui_session` | Three runs of a session with late signals, cancellations, closes and a language switch: busy for the run shown, never gone under a run, closing when asked? | 5,200 |
| `startup_shared` | Two windows over one state file, with a legacy or a broken file, failures and stops: what is remembered, what is lost? | 3,500,000 |
| `project_lifecycle` | Two initializations or resets, every step failing, stops: does the project survive, is the result true? | 36,000 |
| `gold_reviewed` | Two updaters and an editor over one file, failures and stops: what becomes gold, what is overwritten? | 362,000 |
| `publication_backup` | a documented promise that the code breaks, see section 6 | counterexample |

**Bounds, and why they are enough.**

- *Capture*: limit 1 with chunks and pipes of 2 bytes and 2 bytes per stream. A chunk can fit,
  straddle the limit or lie beyond it, and the two streams together exceed it from either side.
  One writer: a pump learns of the holders of its pipe only whether there is one left, and that
  writer may close a stream or hold it for ever. Several are in the runner's runs.
- *Runner*: one byte per stream and a limit of one byte, so that either stream alone stays within
  the budget and both together do not. Root and descendant give every order of exits, and a
  process inside or outside the group. `runner_live` uses silent processes (`MaxBytes = 0`):
  output can only help a drain to end, and it has no cancellations, which `runner_group` has. It
  takes the group as on Windows, where only the root is asked; the proofs cover all three kinds of
  containment with and without faults.
- *Run*: two files, one scenario, one edit per source: a run with a first and a last file, an
  error before or after a success, required and optional scenarios, and an edit between any two
  reads of one source.
- *Finalization*: two calls of two passes each, two faults and one late write. A failure of the
  first pass can be published by the second, one of the second cannot; a second call follows a
  first one that finalized, did not, ran late or crashed.
- *Pipeline*: a request that compiles one file, a diagnosis that compiles nothing, a release and a
  request the planner refuses, with and without fail-fast and finalization. One mishap
  (`MaxMishaps`): it can fall on any stage, service, look, timeout, record or sink, and every
  blocked or skipped stage follows from it. The theorems take any set of requests and any number
  of mishaps.
- *Publication*: two publishers of the same or of different runs, any earlier tree, whole or
  broken; symmetric publishers. Deadlock is not checked there: publishers finish or crash.
- *GUI*: three runs (`MaxRuns`), so that the signals of a first run can still be in the queue
  while a second one ends and a third is started. The queue is bounded by the runs.
- *Startup*: two processes, two languages and one RGL root; the two kinds of names are symmetric.
  Two languages are what it takes for one process to overwrite what another remembered.
- *Project replacement*: two operations of the same kind at one destination, with or without a lock.
- *Gold*: two updaters, two candidates, one edit besides a removed and an unreadable file;
  symmetric updaters and candidates. An updater may make any number of attempts.

No counter is cut off inside a run of the code: the bounds are on the environment (`MaxBytes`,
`MaxEdits`, `MaxRuns`, `MaxFiles`, `MaxScenarios`, `MaxCalls`, `MaxFaults`, `MaxMishaps`,
`MaxWrites`) and on the constants' sets.

**Fairness, and why the code justifies it.** Without these no run could be shown to end;
nothing is assumed of the child, of the user or of failures.

- `CaptureFairness`: joins have timeouts, and a pump thread that can run is scheduled. A pump
  that blocks in `read` is not enabled until there is data or the end of the stream; nothing
  obliges a read to fail.
- `RunnerFairness`: the runner's thread is scheduled; the monotonic clock advances, so a
  deadline that is looked at again and again passes (strong fairness of `DeadlinePassed`); a
  process that was sent SIGKILL dies.
- `ValidationRun`: `run_process` always answers (`RequestEnds` of the runner) and the run's
  thread is scheduled.
- `RunFinalization`: `finalize_run` is synchronous and its operations return. Nothing obliges one
  to fail, to succeed, or the deadline to pass.
- `GuiRun`: a use case returns (`RunEnds`), Qt delivers posted events, and the wait inside
  `shutdown()` is bounded by its five seconds. The user owes nothing: a dialog may stay open for
  ever, and the event loop goes on under it.

The other modules have safety properties only and state no fairness.

**Mutants.** Each property of a passing run has a mutated definition that TLC must find
violated: a budget per chunk, an empty pipe taken for its end, a join without a
timeout, a previous tree removed instead of retained, a settings change made to the defaults,
a prerequisite that any failure blocks, a gold file put back from the candidate. They are the
operators marked `Mutant:` just before the definition they replace.

## 4. Properties

Each is stated in words above its definition, with the function it is about. Each module has
one type invariant, which a theorem states for every instance (section 5); only the runs of
`RunFinalization` and `RunPipeline`, whose type invariants also say which records and failures
there are, repeat it. Three more are left to their theorems: `CompletedWithinBudget` (runner),
`CancelledHasCause` (run) and `StateStaysWhole` (state). The others are these.

*Capture.* `EvidenceWithinLimit`; `NoSilentTruncation`; `CompleteMeansWhole`; `LateWriteIsTold`
(a pump that missed the deadline may still be writing when the summary is handed out: what it adds
was observed, and its stream is reported as truncated);
`FinalizeReturns`; `PipesAreDrained` (over the limit or after a failed write the pumps go on
reading).

*Runner.* `ResultTellsObservedCause`, `ConfirmedTermination`, `EverythingReleased` (it names the
interrupts after which reservation and evidence files are not given back), `RootNotLeftRunning`,
`RequestEnds`, `ImplementsPromise`.

*Run.* `OkMeansVerified`, `OneLaunchAfterRequest`, `CompilationsAreContained` (up to and into the
`except` clause, which contains what a compilation raises but not what it raises itself),
`RunEnds`.

*Finalization.* `FinalizedIsSealed` (no process or writer that could not be stopped touches the
directory of a finalized run until it is called again), `FinalizedIsManifested`,
`FinalizedTellsAll`, `LastRunIsTrue`, `Returns`.

*Pipeline.* `RanOnItsEvidence` (at any distance, though the planner drops a prerequisite that it
does not select), `BlockedByAFailure`, `OneStageAfterStop`, `ReportsAreAttempted` (unless
one of the calls that `execute_plan` does not contain raised, and then the run is not completed).

*Publication.* `FailedLosesNothing`, `PublishedStays`, `SomeWholeCopyAlone`.

*GUI.* `BusyForTheShownRun` (a late end never makes the window ready under the run that is going
on, and no two runs go on at once), `NoRunOutlivesWindow`, `ActiveCloseHappens`.

*Startup and state.* `OnlyDisturbancesLose` (what the file tells equals what it would tell if
every change were atomic, unless a read or migration failed or calls overlapped),
`RememberedWasOpened`.

*Project.* `PreviousSurvives`, `OutcomeTellsProject`.

*Gold.* `OnlyConfirmedBecomesGold`, `AllOrNothing` (the candidate stays after a raise only when
its record alone failed), `OnlyLateChangesAreOverwritten` (the time
between the last comparison and the replacement is the whole window for a lost change).

## 5. Proofs

The theorems hold for every value of the constants that satisfies the named assumptions:
`SizesAssumption`, `WritersAssumption`, `RunnerAssumption`, `PublicationAssumption`,
`RunAssumption`, `PipelineAssumption`, `FinalizationAssumption`, `GuiAssumption`,
`RepositoryAssumption`, `ReplacementAssumption` and `ContentsAssumption`. So they hold for any
limit, chunk and pipe size, any set of processes, publishers, sessions, operators, updaters or
requests, and any number of files, scenarios, edits, runs, calls and failures. The assumptions
only say that sizes are positive, that markers such as `NoPath` are not members of the sets they
mark the absence of, which kinds of containment exist, and that a finalization makes one to four
passes, as its request demands. TLC evaluates each of them in the runs of its module.

Every safety property that a run checks is a theorem.

- **`ProcessRunner_proofs`**, the capture: `CaptureTypeCorrect`, `EvidenceBounded`,
  `CompleteIsWhole`, `TruncationIsTold`, `LateWritesAreTold`. `EvidenceWithinLimit` is not
  inductive: what a pump has been granted and not yet written must count, hence
  `BudgetAccounts`. The other three rest on `BytesAccounted`, which says where every byte of a
  stream is until something is given up on, and on `SummaryAccounts`; together `CaptureInv`.
- **`ProcessRunner_proofs`**, the runner: all its safety properties (`RunnerTypeCorrect`,
  `ObservedCauseIsTold`, `CompletedKeptBudget`, `TerminationIsConfirmed`, `AllIsReleased`,
  `RootIsSignalled`), the capture's guarantees under it (`CaptureUnderRunner`), and
  `RunnerKeepsPromise`: initial states map to initial states of `ProcessExecution`, every step
  to a step or a stutter. First every step of the runner is shown to be a step of
  the capture or one of processes coming and going at the pipes (`RunnerStepsCapture`), so that
  `CaptureInv` carries over. `RunnerInv` adds where the capture is at each step of the runner
  (`Owned`), that nobody exists before the launch and that the root stays in its group (`Born`),
  what the facts say at each step (`Factual`) and who has been signalled (`RootSignalled`).
  `Factual` is what makes `ResultTellsObservedCause` inductive: between reconciliation and
  construction the facts tell the cause, or are of the one shape that `ProcessResult` rejects.
  `RootIsSignalled` has the hypothesis that no interrupt and no failing signal occurs; under
  them the root may be left running.
- **`ValidationRun_proofs`**: `RunTypeCorrect`, `OkIsVerified`, `CancellationHasCause`,
  `OneLateLaunch`, `RunIsFinite`, from `RunInv`, and `CompilationsContained`. That OK is earned
  needs the verdict tied to its cause (`CallInv`), the cause to what was read (`WorkInv`), the
  items to their work (`EvidenceInv`) and the outcome to the evidence (`OutcomeInv`). That at most
  one process starts after a request needs `LateInv`: once requested, only the call that has
  already looked at the token may launch, and it launches once.
- **`RunExecution_proofs`**, the pipeline: `PipelineTypeCorrect`, `StagesRunOnEvidence`,
  `BlockedOnlyByFailures`, `AtMostOneLateStart`, `ReportsComeLast`, `CalledOnce`, `RunIsBounded`,
  `FailFastStops`, `ResultIsTrue`, `UndisturbedRunsAreWhole`, from `PipelineInv`. The properties
  speak of prerequisites at any distance, the loop looks at the direct ones, so the invariant does
  too: a called stage has usable direct prerequisites (`DirectEvidence`), one left out has an
  unusable one (`DirectBlame`), and `InPlace` says what the place in the loop implies for the
  records. Two facts about the planner's tables carry this to all distances: a prerequisite always
  comes earlier in the order (`NeedsComeFirst`), and an accepted request selects whatever its
  normal stages need (`PlanIsClosed`), which is why the planner's dropping of unselected
  prerequisites cuts no chain. Evidence then spreads by one more distance at a time
  (`EvidenceReachesFarther`); blame follows the chain of blocked stages down to one that was
  called (`BlamesFarther`). `LateStart` ties the late start to the place the loop was at when the
  stop came. What a result says needs `EndInv`: an aborted loop stays stopped (`AbortStops`), the
  phase tells what has been reached and what has gone wrong (`PhaseTells`), so the result does
  (`ResultTells`), and no selected stage of an undisturbed run is passed without being called
  (`WorkDone`).
- **`RunExecution_proofs`**, the finalization: `FinalizationTypeCorrect`, `ReportsTellAll`,
  `ManifestIsTrue`, `LastRunIsTold`, `NothingWritesLater`, `OutcomeIsAccepted`,
  `IncompleteIsExplained`, `CallIsBounded`. `FinalizationInv` says at each step of the call what
  the reports and the result tell (`ReportsTold`) and that a process or writer left open was told
  as a failure that keeps the run from being finalized (`WritersTold`). A finalized run that was
  not called again is as its last call sealed it (`SealedOnce`). A further call may replace
  reports and manifest (section 6): `ManifestIsTrue`, `LastRunIsTold` and `NothingWritesLater`
  hold without a hypothesis because the properties themselves say "until it is called again".
- Termination is a liveness property, but its arithmetic is not: `RunIsFinite`, `RunIsBounded`
  and `CallIsBounded` show that every step of a validation run with its process calls, of a run
  of the pipeline and of a call of `finalize_run` lowers a natural number, whatever processes,
  services, handlers and operations answer.
- **`DirectoryPublication_proofs`**: `PublicationTypeCorrect`, `PublishedIsKept`,
  `FailureLosesNothing`, `WholeCopyAlone`. The invariant says what each publisher knows at each
  step (`Local`), and, as long as nobody replaces, that there are no backups and that at most one
  publisher owns the destination. A commit needs an empty destination and makes its publisher the
  owner; only the owner takes anything away. For a publisher that is alone `Lone` says where the
  previous tree is at each step, those of the cleanup included; a step of anybody else ends its
  being alone, which is why `LoneInv` is inductive.
- **`GuiRun_proofs`**: `GuiTypeCorrect`, `BusyIsTheShownRun`, `ShellOutlivesRuns`. The invariant
  ties the queue to the workers: which signals of which run may still be queued, at most once
  and in which stage of its worker, and that only the run shown last can be unfinished.
- **`LanguageStartup_proofs`**: `StartupTypeCorrect`, `RememberedPathsWereOpened`,
  `NothingElseLoses`, `WholeStaysWhole`. `StartupInv` says that every language in a document or
  in a call under way was opened (`Sourced`), what is chosen while a runtime is composed
  (`Chosen`), and, as long as nothing disturbs, that calls come one after another and what the
  one under way knows of the file (`Undisturbed`, `Knows`): the state it is about to save is the
  ideal state with its own change.
- **`ProjectReplacement_proofs`**: `ReplacementTypeCorrect`, `ResetKeepsPrevious`,
  `OutcomeIsTrue`. The lock makes one operator the only one at work; the invariants say which
  trees are where at each of its steps: where the previous tree is retained (`RetainedInv`) and
  what shape the stage and the destination have (`ShapeInv`).
- **`GoldUpdate_proofs`**: `GoldTypeCorrect`, `GoldHasASource`, `UpdateIsWhole`,
  `ReviewedIsReplaced`. The invariant says for each updater what the file holds at its step as
  long as nobody else touched it, and that what it may put back has a source.

Model-checked only: everything under fairness (`FinalizeReturns`, `PipesAreDrained`,
`RequestEnds`, `RunEnds`, `ActiveCloseHappens`, `Returns`, and the liveness part of
`ImplementsPromise`). Liveness under fairness and `ENABLED` are outside what the installed
provers handle, and so is induction over recursively defined data; no module uses a recursive
operator.

## 6. Where the code and its documentation differ

| Run | What happens |
|---|---|
| `publication_backup` | the removal of the backup fails after the commit was verified; the cleanup deletes the verified tree and restores the partly removed backup |

`PROJECT.json` quotes the line of the documentation it contradicts. Further promises
that the code does not keep are stated at the end of their modules, in the words of the
documentation, and are not part of a run:

- `CancellationIsNotSuccess` (`ValidationRun`): a run cancelled while its last, optional scenario
  plays is OK; `docs/validation/VALIDATION_PIPELINE.md`: "Cancellation is not reported as success."
- `ConfirmedCloseIsNotLost` (`GuiRun`): a run ends while the confirmation of a close is open; the
  close that the user then confirms waits for a run that is over, and the window stays
  (`docs/usage/GUI_REFERENCE.md`, 9).
- `EndsInTerminalState` (`RunFinalization`): once the deadline has passed, marking the run
  incomplete is skipped like every other step, and it stays in the state finalizing
  (`docs/decisions/ADR-0010-RUN-BUDGET-AND-FINALIZATION.md`).
- `IncompleteNeverSucceeds` (`RunFinalization`): a second call finalizes a run that the first told
  was incomplete; `docs/validation/VALIDATION_OVERVIEW.md`: repeating finalization cannot
  "transform an incomplete run into success". A second call on a finalized run replaces its reports
  and its manifest, though it never returns that it finalized it: `FinalizedIsSealed` exempts it.
- `EvidenceFrozen` (`StreamCapture`): a pump has begun a write when the drain deadline expires; the
  owner closes the sinks, takes the sizes and builds the summary, and the write then ends;
  `docs/architecture/PROCESS_EXECUTION_MODEL.md` (25): "leave captured evidence immutable after
  finalization."
- `FatalIsKept` (`RunPipeline`): a finalization stage that raises replaces the stage whose
  exception ended the run; `docs/validation/VALIDATION_PIPELINE.md` (33.4): "Finalization must not
  hide the original fatal error."
- `OverflowBecomesResult`, `ObservedCauseBecomesResult` (`ProcessRunner`): output that crosses
  the limit after the monitor's last look, and a child that exits between the observation of a
  timeout or cancellation and its termination, make `ProcessResult` raise `ValueError` at the
  caller, where `docs/architecture/PROCESS_EXECUTION_MODEL.md` (30, 39) promises a result.
- `NoOwnedProcessAfterResult` (`ProcessRunner`): descendants in the owned group outlive a root
  that completed, and nobody terminates them (same document, 40).
- `OneSourceState` (`ValidationRun`): an OK result whose fingerprint is of a version that gf
  never read, when a source is edited during the run.
- `UnreadableIsKept` (`StateRepository`): a malformed state file is overwritten by the next save,
  though `docs/configuration/CONFIGURATION_OVERVIEW.md` (12.6) keeps it until a policy permits.
- `OnlyEmptyIsReplaced` (`ProjectReplacement`): without a lock, `--allow-existing-empty-profile`
  of `scripts/init_project.py` replaces a directory that was empty when it was checked and is
  not any more.

## 7. Plan

What is left, in the order of what it would add.

1. `ValidationRun`, extended: the evidence paths. `_safe_stem` may give two sources one stem;
   state that each file's evidence is its own, and that a cancelled probe is told as a
   cancellation or as what it is.
2. `FailureClassification`: the relation between failed modules over all graphs of three
   modules, checked against its definition (a downstream failure reaches a direct one).
3. `GuiRun` over `ValidationRun`: the worker's use case as an instance of the run, with the
   cancellation flag they share, and progress events between them.
4. `RunPipeline` over `RunFinalization`, and the handlers of the pipeline, once an entry point
   supplies them.
