# ColdStart in TLA+

A verification project for ColdStart: it plans evaluation runs of AI agents on
benchmark tasks, drives them trial by trial through Harbor (an external
command), stores the results in a Phase 1 SQLite database and writes reports.

Contents: the system and its hazards (1), what is modelled (2), what is checked
(3), what is proved (4), what the documentation says and the code does not do
(5), what is left out (6), and what could come next (7).

## 1. The system

| Part | State it keeps | Operations | Interacts with | Modules |
|---|---|---|---|---|
| Orchestrator `eval/orchestrator.py` | `RunState` in memory, loop locals, `stop_reason` | `create_run`, `execute_loop`, `resume_evaluation`, `regenerate_reports`, `check_budget`, drift and preflight checks | all below | `RunLoop`, `RunProcesses`, `EvaluationPlan` |
| Manifest, state, events `eval/manifest.py` | `manifest.json` (written once), `state.json` (replaced atomically), `events.jsonl` (appended) | `write_manifest`, `write_state`, `read_state`, `append_event` | the file system; any later process | `RunState`, `RunLoop`, `RunProcesses` |
| Harbor runner `eval/harbor_runner.py` | the child process, two temporary output files | `run_trial`: launch, poll, time out, kill on interrupt | Harbor, progress callback | `HarborRunner` |
| Classifier `eval/classifier.py` | none | `classify_trial_result`, `classify_missing_result` | orchestrator | `HarborRunner` |
| Progress `eval/progress.py` | last phase, last heartbeat | `update`, `_maybe_heartbeat` | terminal | `HarborRunner` (heartbeat) |
| Planner `eval/planner.py` | none | `expand_trials`, `estimate_cost`, `build_plan` | configuration, git, task files, Phase 1 history | `EvaluationPlan` |
| Configuration `eval/config.py` | none | validation, defaults, path isolation | command line | `EvaluationPlan` |
| Hashing, git `eval/hashing.py`, `eval/git_info.py` | none | hash of a task directory, commit and status | planner, resume | `EvaluationPlan` |
| Ingestion `results/ingest.py`, `results/db.py` | SQLite tables keyed by natural keys | `ingest_jobs` (a savepoint per job, upserts) | job directories, other processes | `ResultStore` |
| Aggregation `results/aggregate.py` | none | by history or by an explicit list of trial keys | database | `ResultStore` |
| Reports `results/reports.py` | report files | `build_report`, rendering | database, report directories | `ResultStore` |
| Command lines | none | `coldctl eval ...`, `coldctl results ...` | operator | their effect, in all of them |
| Redaction | none | pure text filters | logs, reports | - |
| Artifact vault (sample task, Go) | PostgreSQL rows, staged and stored files | API upload, worker | agents under evaluation | - |

Three things are hard.

- *The run directory.*  One process works on it for hours and money is spent on
  every step.  It may die, be interrupted with Ctrl+C or stop by itself at the
  budget, at an authentication error or at an outcome nobody knows; another
  process goes on with nothing but `state.json` to go by, or two do at once.  The
  verdict, the cost, the Phase 1 row, the event and the report of one trial are
  written at different moments to different stores.
- *Harbor.*  It is a child that shares open files, and their offsets, with its
  parent, and whose job directory keeps the name it had when the last process
  died.
- *What is read when.*  A plan is made of a configuration, git, task files and a
  database that are read one after the other and may change in between; a
  report is made of many SELECTs while other jobs are committed.

What makes each part correct:

- **Orchestrator and state**: a verdict is never lost or run twice, one trial
  runs at a time, retries and spending are bounded, a run settles, `state.json`
  and `events.jsonl` agree, and several processes do not spoil the file.
- **Harbor runner, classifier, progress**: no Harbor process outlives its
  invocation, its output is complete, the outcome is that of the result it left,
  the line shown is fresh.
- **Planner, gates, configuration**: what is executed is what was planned, checked
  and allowed; trial ids are distinct; the estimate covers every trial.
- **Ingestion**: a job is in the database as a whole or not at all, jobs do not
  disturb each other, ingesting a job again leaves its rows alone, nothing committed is lost.
- **Reports**: exactly the trials asked for, though they are looked up in many SELECTs,
  with figures that match.

The full list of hazards, at their lines, with the properties that cover each or
the reason none does, is in `PROJECT.json`.

## 2. The modules

| Module | Models |
|---|---|
| `RunState` | `RunState`/`TrialState` of `manifest.py`, their selections, the backfill of trial keys |
| `RunLoop` | the processes of one run directory, one at a time, step by step, with their faults |
| `RunLedger` | the abstract specification: what `state.json` promises its readers |
| `RunProcesses` | several processes on one run directory, at the steps they can see of each other |
| `HarborRunner` | one attempt: `run_trial`, the child, the output files, classification, heartbeat |
| `ResultStore` | the Phase 1 database: ingestion by several processes, reports |
| `TrialLedger` | the abstract specification: what the database promises its readers |
| `EvaluationPlan` | configuration, planning and the gates of run and resume, while everything may be edited |
| `MC...` | the instances TLC checks |
| `RunLoopInv`, `...Proofs`, `RunLoopTheorems` | invariants, theorems and their proofs (section 4) |
| `DataLemmas` | what the proofs need of sums, finite sets and flattened sequences |

`RunProcesses` and `RunLoop` share `RunState`: the same selections and report
membership.  The others meet at an interface: what `RunLoop` takes for one
outcome of `HarborReturns` is what `HarborRunner` computes (`verdict`); what
`RunLoop` and `RunProcesses` do in one step, `IngestJob`, is `ResultStore`'s
transaction, which `WholeJobs` and `JobsAreIsolated` justify; that a recorded
trial key resolves when reports are made rests on `CommittedTrialsStay`; and
`EvaluationPlan`'s `Spend` stands for a round of `RunLoop`.

### RunLoop

| Variable | Code |
|---|---|
| `files` | which of `manifest.json`, `state.json` exist |
| `disk`, `mem` | the `RunState` in `state.json`, and the object in memory |
| `log` | `events.jsonl`: type, trial, attempt of each entry.  A set: no property reads the order of entries, or how often one occurs |
| `store` | Phase 1 trial rows: trial, job (attempt number), verdict |
| `reports` | the rows the report files of this run show |
| `pc`, `command` | where the process is, and which command it runs |
| `cur`, `try`, `outcome`, `cost`, `stop` | `trial_id`, `attempt_number`, `classification.outcome`, the result's `cost_usd`, `stop_reason` |
| `billed`, `faults`, `lastExit` | history: all costs reported, the number of faults, how the last process ended |

One action is one piece of code between two moments at which a fault can be
observed: a file write, a database commit, or an assignment to the `RunState`
that an interrupt would find unsaved.  Assignments nothing can separate (a list
append and a reason text beside `attempts`) belong to the action of the field
that decisions read.

| Step of the code | Actions |
|---|---|
| `create_run` | `CreateManifest`, `WriteInitialState`, `LogCreated` |
| `resume_evaluation` | `Resume`, or `ResumeRefused` (finished, over budget, nothing there) |
| entry of `execute_loop` | `EnterLoop`: requeue running trials, status running, write |
| loop head | `NothingPending`, `StopAtBudget`, `StartTrial` (the mark in memory), `WriteStarted`, `LogStarted` |
| Harbor and classification | `HarborReturns`: any outcome, any cost of `Costs` (external) |
| bookkeeping | `RecordAttempt`, `RecordCost` |
| outcome | `SettleScored` then `IngestJob` or `IngestFails`, `FlagIngested`, `RecordKey`; `SettleInfra`; `SettleAuth`; `SettleUnknown` |
| end of a round | `WriteOutcome`, `LogOutcome` |
| pause | `Pause`, `LogPaused` |
| end of a run | `WriteFinalStatus`, `CollectKeys`, `GenerateReports`, `WriteReportStatus`, `LogFinished` |
| `regenerate_reports` | `Regenerate`, then the last four |
| faults | `Interrupt` (inside the try block: pause), `InterruptUncaught` (outside it), `Crash` (anywhere) |

Abstractions: a job directory and a trial key are the attempt number that
produced them (`job_name` is `<trial_id>--tryNN`); costs are small numbers; a
crash keeps exactly what was written, because `atomic_write_json` and
`append_event` fsync; reports of all (task, system) pairs, private and public,
are written in one step.

### RunProcesses

| Variable | Code |
|---|---|
| `file`, `temp` | `state.json` and the temporary files of `atomic_write_json`, whole or not |
| `dirs`, `store` | Harbor's trial directories, and the rows ingested from them |
| `pc`, `next`, `mem`, `cur` | of each process: where it is, where it goes after a write, its `RunState`, its trial |
| `found` | of each process: the trial key that `ingest_jobs` has returned to it |

A write is three steps: `Save` (the state is changed, the temporary file created),
`FillTemp`, `ReplaceFile`.  Between them any other process may read, write, be interrupted
(`Interrupt` removes the temporary file and pauses) or killed (`Crash` leaves it).
`Resume`, `Regenerate`, `StartTrial`, `StopAtBudget` and `FinishLoop` begin from the
process's own copy, however old.  Two processes with the same trial and attempt number
share a job directory: `HarborReturns` adds a trial directory to it, and classification
(`ClassifyInvalid`, `ClassifyException`, `ClassifyScored`) and ingestion (`IngestJob`)
read all that are there, as `_find_trial_dirs` does.  The commit (`IngestJob`), the flag
(`FlagIngested`) and the key (`RecordKey`) are three steps, between which an interrupt may
save the state; a key it kept from being recorded is derived from the job directory when
reports are made (`CollectKeys`, or `BackfillKeys` with a write of its own, before
`GenerateReports`).  `InMemory` is what an interrupt can find while an attempt is being
counted.  The mark of `StartTrial` needs no step of its own here: an interrupt before the
write finds what one that removes the unfinished temporary file finds. Authentication and
unknown outcomes are left to `RunLoop`.

### HarborRunner

| Variable | Code |
|---|---|
| `pc`, `n`, `timeout`, `elapsed`, `timedOut`, `seen` | `run_trial`: where it is, which launch of the job, `timeout_sec`, the time, what `poll()` said |
| `position`, `tail` | of `_tail`: the position to restore, the text it read |
| `captured`, `verdict`, `shown` | what `run_trial` returns, the classification, the last heartbeat line |
| `child`, `file`, `linked`, `offset` | the operating system: processes, file contents, which descriptions point to the current files, and the offset parent and child share |
| `jobResult`, `result` | the job directory: its own `result.json`, and each launch's trial directory |
| `said`, `others`, `raced`, `ended` | history |

`Launch`, `EnterTry`, `Poll`, `TailRewind`/`TailScan`/`TailRestore` (the three steps
of `_tail`, between which the child may write), `Sleep`, `TimeOut`, `Exited`,
`Collect`, `Unlink`, `Classify`/`ClassifyRaises` are the parent's.  `Write`,
`WriteJobResult`, `WriteTrial`, `Exit` are Harbor's, of every launch still alive.
`Interrupt` runs the handler that kills the child; `CutShort` is a crash, or an
exception between `Popen` and the try block, that leaves the child alone: the next launch, with
the same job name, may find it still writing.  Output is counted in chunks; a
chunk says what the code looks for in it.

### ResultStore

| Variable | Code |
|---|---|
| `dirs` | the job directories: readable or not, one or more trial directories, valid or not |
| `store` | what is committed: `runs`, `trials`, dimension `scores`, failed `checks`, `artifacts`, `systems`, `setups` (models and agents rows) |
| `writer`, `work` | who holds SQLite's write lock, and what the transaction has changed |
| `pc`, `queue`, `todo` | of each `ingest_jobs`: where it is, the jobs and trial directories left |
| `rpc`, `scope`, `ids`, `figures`, `report` | of each report: where it is, what it was asked for, which rows, which aggregate, which attempts |

`Call`; per job `OpenJob` or `JobUnreadable`, `UpsertRun`; per trial directory
`UpsertTrial`, `ReplaceScores`, `ReplaceChecks`, or `TrialUnparsable`, `BadReward`, which
end the job without a change; `Release` (commit) or `CommitLocked`, when a reader is in
the way of it; `NoTrials`, `Return`, `Crash`.  A report is `Ask`, `FindTrials` (or
`Refuse`), `ComputeAggregate`, `ListAttempts`, `WriteReport`, each of which looks up
again, by ids, by keys or by the pair and JOINed with `runs`, what is committed then:
`Aggregate` counts the ids it was given and sums over those of them that have a row,
`Listed` are the keys that have a row and a run.  `Rewrite` is Harbor running again in a
directory no ingestion is reading.

### EvaluationPlan

| Variable | Code |
|---|---|
| `document`, `commit`, `content`, `history` | what can be edited: the configuration file, git's HEAD, the task files, the average costs in the database |
| `manifest`, `over`, `spent` | on disk: `manifest.json`, whether `state.json` is finished, its cost |
| `pc`, `args`, `config`, `plan` | the process: its step, its flags, the configuration it loaded, the plan so far |
| `edits`, `moved` | history: edits so far, and one since git was last asked |

`Run`, `Preflight`, `ReadHead`, `ReadStatus`, `HashTasks`, `Estimate`,
`CheckBudget`, `CreateRun` are `eval run`; `Resume`, `VerifyGit`, `VerifyTasks`,
`Preflight`, `Gate` are `eval resume`; `Refuse` is each of their errors; `Spend`,
`Finish`, `Stop` an execution.  `EditConfig`, `EditTask`, `Commit`, `Checkout`,
`Ingested` are the edits, between any two of these.  A hash is what it is a hash
of.  `Expanded`, `TrialId`, `Entry` and `EstimateCost` are the planner's functions.

## 3. What TLC checks

| Run | Bounds | Distinct states | Shows |
|---|---|---|---|
| `loop` | 2 trials, 1 retry, budget 3, costs 0 and 2, 1 fault | 590 550 | the invariants of `RunLoop`, `RefinesLedger`, `AttemptsBounded`, `InvocationEnds`, `RunSettles` |
| `processes` | 2 processes, 2 trials, no retry, budget 3, cost 2, 1 fault, 2 trial directories | 3 446 179 | `AtMostOneRunning`, `IngestedHasRow`, `CostIsSpent` |
| `racing` | 2 processes, 1 trial, 1 retry, budget 2, cost 2, 1 fault, 1 trial directory | 416 064 | `FileIsWhole`, `RaceSettles` |
| `harbor` | 2 launches, 1 chunk on each stream and a second on stdout of the last, with and without a timeout | 1 086 980 | `NoHarborLeftBehind`, `CapturedIsComplete`, `VerdictIsTheResults`, `HeartbeatIsFresh`, `RunTrialEnds` |
| `store` | 2 processes, 2 jobs of 6 kinds, 2 trial directories each, calls of up to 2 jobs, 3 in all, 1 rewrite, 1 reader | 251 737 | the properties of `ResultStore` and `RefinesLedger` |
| `plan` | 4 configurations, 2 tasks, 2 commits, 2 histories, 2 edits | 576 076 | the six properties of `EvaluationPlan` |
| `interrupted`, `unscored`, `flushed`, `stranded`, `auth`, `regenerated` | at most 1 fault, 1 launch, 2 jobs | - | counterexamples to six statements of the documentation (section 5) |

### Bounds

- `RunLoop`: two trials are enough for one that is settled while another runs, retries or
  waits, and for a plan order that differs from id order; with a budget of 3 a second
  result of cost 2 is launched and overshoots, and cost 0 keeps a run under its budget,
  where an error in counting attempts would otherwise hide behind it; a limit of 1 makes a
  trial fail, be retried and be exhausted.  One fault at any step is followed by a resume,
  a refusal or a regeneration; more faults are left to the proofs, which hold for every
  number of them. `MaxFaults` is the only bound of the model itself.
- `RunProcesses`: two processes are the race.  In `processes` each can start a trial while
  the other runs the other one, results of cost 2 make the second overshoot the budget of
  3, and a process that overwrites the file makes it forget what was spent; two trial
  directories are those of two jobs, or the two of one that both processes ran.  Without a
  retry the attempts of one trial are still several, as an interrupt records one without a
  verdict.  In `racing`, liveness needs the retry, which makes an invocation go round
  again, and fits with one trial and one directory.  The proofs are for any number of
  processes, trials, directories and faults.
- `HarborRunner`: two launches are one that dies and one that finds its files, job
  directory and child.  The last launch writes to stdout twice: the first write may fall
  between the seeks of `_tail`, and the second shows where the offset was left, before or
  after it was restored.  With one chunk nothing would follow a displaced write.  Elapsed
  time and ages stop at the largest value the code compares.
- `ResultStore`: the six kinds of directories are two trials of different names, two of one
  name, one that does not parse after a valid one, one whose reward is no number,
  none, and a job that cannot be read; two jobs in one call are the rollback of one
  after another; the third call ingests one again, and the rewrite changes it first.  Reports
  are of both keys of a job, one of which may be missing or come later, or of the pair.
- `EvaluationPlan`: the configurations are a valid official one, one with two systems of
  which one has no price, one with a named system, and one with a misplaced report
  path; two edits are one change and its undoing, or a change of files and a commit
  of it.  `MaxSpent` bounds the cost.

### What the properties say

`RunLoop`

- `OnlyInFlightUnsaved`: whenever the process dies, what is lost is about the one
  trial in flight: `state.json` shows it as running, or as waiting, and then nothing is
  lost but the mark that it runs.
- `AtMostOneRunning`: whatever crashed, one running trial; none in a finished run.
- `LoggedIsDurable`: an event announces what `state.json` holds, and keeps holding.
- `CostAccounting`, `OvershootBounded`: no result is paid for twice in the books;
  the recorded cost exceeds the budget by less than one result.
- `AttemptsBounded`: retries over the limit are one per fault at most.
- `IngestedAgreesWithStore`: `state.json` and the Phase 1 database agree on every
  trial called ingested.
- `FinishedRunIsReported`: the reports of a finished run are about exactly its
  ingested trials, also when an interrupt lost a key and `CollectKeys` derives it.
- `FreshRunKeepsPlanOrder`: true of a run that was never resumed only, because
  `state.json` is written with `sort_keys`.
- `RefinesLedger`: `state.json` is a behaviour of `RunLedger`: verdicts never
  change, attempts are counted one by one, a retry is within the limit, a
  pause saves at most one step of one trial (its mark, an attempt, its verdict), a run ends
  when all is settled.
- `InvocationEnds`, `RunSettles`: a process ends; a run that is resumed again and
  again settles every trial or reaches its budget.

`RunProcesses`: nothing locks the directory, so updates are lost.  What still holds:

- `FileIsWhole`: the file is one whole state.
- `AtMostOneRunning`: it has at most one running trial, and no open one when finished.
- `IngestedHasRow`: what it calls ingested has a row of its last attempt; the key, if it was
  recorded or derived, is that of such a row.
- `CostIsSpent`: it forgets costs and never invents or doubles one, and exceeds the budget
  by less than one result.
- `RaceSettles`: once one process is left, and only if that one resumes the run whenever it again
  and again can, the run is settled or at its budget, and stays so.

What does not hold, and is not claimed: that the verdicts on file are final, or that the
total spent stays under the budget; two processes can each spend it.

`HarborRunner`, where the second, the third and the end of the fourth speak of launches that
no Harbor of an older one disturbs:

- `NoHarborLeftBehind`: a `run_trial` that returned or was interrupted in its try block leaves no
  child alive.
- `CapturedIsComplete`: what it returns is all the child wrote, so `_tail` leaves the offset where
  the next write belongs.  stdout is excepted when the child wrote while `_tail` had moved the
  shared offset, because then it is not.
- `VerdictIsTheResults`: passed or failed exactly if the one result the attempt left says so,
  whatever the exit code, the timeout and dead launches before.
- `HeartbeatIsFresh`: the line shown is never older than the interval while Harbor runs,
  and in the end shows the phase the output ends in.
- `RunTrialEnds`: with a timeout, or when Harbor exits, `run_trial` ends.

`ResultStore`

- `WholeJobs`: every job in the database is there as a whole, with the scores and checks
  of one content of its directory.
- `CommittedTrialsStay`: a trial row once committed stays.
- `JobsAreIsolated`: one commit is one job; a job that fails changes nothing.
- `ReingestIsIdempotent`: an unchanged directory leaves the rows of its job as they are
  (run, trials, scores, checks, artifacts) and adds no model or agent, except that a NULL
  provider or version makes a new row each time (against the docstring of `_upsert`,
  `ingest.py:90-93`).  The rows of systems belong to no job: those it names get its
  configuration, as `regenerated` shows in a report.  `agent_kwargs_json`, overwritten
  with them, is left out.
- `RefinesLedger`: what readers find is a table of trials in which a job whose files can all be
  read is recorded as a whole and in one step, and from which nothing is removed
  (`TrialLedger`, with the refinement mapping in `ResultStore`).
- `ScopedReportIsExact`: a report of keys lists as many trials as it counted, and exactly
  these: none has lost its row or its run between the SELECT of the figures and that of
  the attempts.
- `FiguresMatchAttempts`: its figures are those of its attempts if no commit came between.

`EvaluationPlan`

- `ExecutesFrozenPlan`, `TasksAreAsPlanned`: an execution, first or resumed, has the
  configuration, commit and task files of the manifest, unless edited after the check.
- `OfficialIsCommitted`: an official run has the files committed in its commit.
- `SpendingIsAllowed`: estimated within the budget, or acknowledged.
- `EstimateCoversTrials`: the estimate is the sum over trials, and says when it lacks some.
- `TrialsAreDistinct`: one state per trial, if no task or system key occurs twice.

### Fairness

- `RunLoop`: `WF(Process)`, a process that can take its next step takes it.  For
  `HarborReturns` this assumes that Harbor ends: the command line builds
  `SubprocessHarborRunner()` without a timeout, so the code itself does not ensure
  it.  `SF(Resume)`, an operator who can resume the run again and again does so;
  strong, because a crash or a regeneration in between disables it.  `RunSettles`
  starts from a written `state.json`: after a crash between manifest and state
  neither `eval run` nor `eval resume` can go on, and nothing promises that they can.
- `RunProcesses`: `WF(Process(p))` for each process.  Nothing is assumed of resumes, except by
  `RaceSettles` itself, and there only of the one process that is left.
- `HarborRunner`: `WF(RunTrial)`, the parent's own steps only.  Nothing is assumed of Harbor:
  `RunTrialEnds` is promised with a timeout, or if Harbor exits.
- Faults, edits and other processes' commits are never fair.

Deadlock is checked in `RunLoop` and `RunProcesses`, where a run can always be resumed,
regenerated or refused.  It is not in the others, where everything may be done: the
launches, ingestions or edits the bounds allow are used up.

## 4. What TLAPS proves

For every value of the constants that their named assumptions allow (types, and that
`NULL`, `NoTrial`, `NoOne`, `Absent` are none of the values they stand beside): all safety
properties of all passing runs, both refinements, and for the two models of the orchestrator
that their processes run down and are never blocked.

Each proof module states an inductive `IInv` as a conjunction of named parts, shows in
a `...Step`, `...Next` or `...Keeps` lemma that every action keeps each part, and derives the
theorems.  What an action does to a nested record is stated once, in a `...Facts`
lemma, and used without expanding the record again.

**RunLoop** (`RunLoopInv`, `RunLoopProofs`, `RunLoopTheorems`).  That a crash
loses nothing else depends on where memory may be ahead of the disk, and that on the
program counter.  The layers, each inductive with those above it:

1. `TypeOK`, `ControlInv`: which locals are set at which step, and the status of
   the trial in flight.
2. `SyncInv`: outside of the steps `Ahead`, memory equals `state.json`; within them
   they differ in the trial in flight only; which trials may be running.
3. `AttemptInv`: the attempt in flight is the recorded one plus one.
4. `RetryInv`: an open trial has had room for one attempt more.
5. `CostInv`: what was billed is what memory knows, and the launch was under budget.
6. `LogInv`, `StoreInv`: the log, and the rows of ingested trials on both sides.

On top come `VerdictInv` (what is unsaved of a trial is one ledger step), `ReportInv`
(reports never hold a row of an open trial, and all rows after each generation) and
`OrderInv`.  `RefinementTheorem` maps `EnterLoop` to `Enter`, `WriteStarted` to `Start`,
`WriteOutcome` to `Settle`, `Pause` to `Pause` (which, after an interrupt between the mark and its
write, has one `Mark`), `WriteFinalStatus` to `Finish`, and every other step to a stutter.

What of termination is no matter of fairness is proved too, for finitely many trials (the
list that `expand_trials` made).  `Work` is how many launches `state.json` leaves, a trial
counting once and once more for each retry the limit still allows: no step raises it, a
crash or a resume included, and each recorded outcome lowers it (`WorkShrinks`).
`StepsLeft` is twelve times the launches that the process has left by its memory, plus its
place between the head of the loop and the end: each step but its death lowers it
(`ProcessRunsDown`), because a launch, the only step back, takes one from the launches.
`WorkIsBounded` bounds both by the plan. `NeverBlocked` is the rest: at each place where
the code picks a trial, maps an outcome or an event, or looks up a key, there is one.
Fairness is left to say that the process takes its steps; `InvocationEnds` and
`RunSettles` combine the two and are checked by TLC.

**RunProcesses** (`RunProcessesProofs`).  Nothing relates the copies of two processes,
since each may be arbitrarily old.  What is inductive is a statement about every
`RunState` wherever it is (in the file, in a process, in a full temporary file): it is
`Consistent` with the database, which only grows, and fits the step its process is at
(`AtStep`).  Then it does not matter who overwrites whom.  A process between the commit
and the write of the key has the row of that key in the database (`Fetched`), and a trial
that is ingested without a key gets it from the one directory of its last job, whose row
is there.

`CostIsSpent` needs one more idea.  A `RunState` that was overwritten has forgotten what
others spent, and one that was read before has counted results that the file no longer
shows, so its cost is no sum of its own.  But every process counts the cost of an attempt
when it counts the attempt, and counts each number once.  So a state's cost is covered by the
results of the trial directories whose attempt number it has counted (`Covered`), whoever
made them; `SpentInv` says so of every `RunState` wherever it is.  It is kept since
directories are never removed and the sum over more of them is no smaller.

That a process runs down holds here as well, against what the others do to its files
(`ProcessesRunDown`, `RaceIsBounded`): `StepsLeft(p)` depends only on the state, the place
and the trial in flight of `p` itself, so nobody raises it, and `p` lowers it whichever
results it finds in a job directory.  What others do could only block it: `NoneBlocked`
says that the temporary file it renames is there (`FlightInv`; `mkstemp` names it), and
that the database has the rows of the keys it reports.

**HarborRunner** (`HarborRunnerProofs`).  `ChildInv` (which children may live at which step) and
`DecideInv` hold always; `OutputInv`, about files, offsets, the captured text, the tail and the
trial directories, as long as the launch is `Alone`, that is no Harbor of an older launch is
alive.  It says that the file is what the child wrote and the shared offset its end, except
between the two seeks of `_tail`, when it is the remembered position.

**ResultStore** (`ResultStoreProofs`, `ResultReportProofs`).  `LockInv`: only the holder
of the write lock is inside a transaction.  `StoreInv`: what is committed is whole.
`WriterInv` says how far the working copy is: other jobs are as committed (`OthersKept`),
and for each table up to which trial directory it has the new rows (`Progress`), the
latest of those with one name being the one recorded.  `RefinementOfTheLedger` adds what
the guards have seen to: an opened job can be read (`ReadableInv`) and what the writer has
taken of it parses (`ParsedInv`); a commit is then `Record` of the entries of the job
(`ReleaseRecords`), every other step a stutter.  `SetupInv` is about what jobs share:
every system and model row that a committed job names is there, and a transaction has
added only the rows it had to and set the systems of its trials so far (`SetupsDone`),
which makes `ReingestKeeps`.  For reports, `TablesInv` (finite rows, each with its run; a
strict pass is NULL exactly if the reward is) and `ReaderInv`: `ScopeInv` holds however
the database moves, because the keys that were found stay in it, `UnmixedInv` until a
commit comes between.

**EvaluationPlan** (`EvaluationPlanProofs`).  `ConfigInv`: the configuration a process
holds is valid, and where it executes or has been compared, the manifest's.  `PlanInv`:
what `build_plan` has read so far is what is there, under the condition that nothing moved
since git was asked, and what `check_budget` admitted.  `ManifestInv`: a recorded estimate
fits the recorded budget. `ResumeInv`: what `verify_resume_compatibility` compared is
still so, under the same condition.

Two of its properties are about the planner's functions.  `expand_trials` makes its sequence by
three nested loops, which the model flattens: `ExpandedPlanned` says that each pair of task,
system and attempt has one place in it, and `ExpandedDistinct` that ids then differ.
`estimate_cost` adds a price times a number of attempts per pair of task and system, the
property adds a price per trial: `SumOfPairs` sums the second by pairs, and `EstimateOfTrials`
compares.  `EstimateInv` carries both from the plan to the manifest.

**Data** (`DataLemmas`).  A sum over a set and a flattened sequence are functions that
satisfy an equation, chosen by `CHOOSE`: the lemmas show that such a function exists and
is the only one.  An induction theorem with a predicate for a parameter could not be
instantiated, so induction is over a set: `SetInduction` says that a set with 0 and, for
each number it has, the next has all of `Nat` (because a set of naturals has a least
element, `Least`), and `FamilyInduction` the same of families of finite sets.  From these
come that a sum does not depend on the order, is monotone, splits over disjoint sets and
by classes (`SumByClass`), and that `FlattenSeq` has each element of each sequence at one
place (`FlattenLocated`).

Only model-checked: all liveness (`InvocationEnds`, `RunSettles`, `RaceSettles`,
`RunTrialEnds`), which rests on fairness, and absence of deadlock; both need `ENABLED`,
which is out of the prover's reach (of the first three, the part without `ENABLED` is
proved as said above).

## 5. Documentation and code

Six runs end in a counterexample on purpose; each checks a statement of the
repository.  The first five are of `docs/evaluation-runner.md`.

- `interrupted` (lines 130-131): an interrupt after the final status was written
  is not caught; the run stays `completed`, without reports, and `eval resume`
  does nothing.  (`eval regenerate-reports` does.)
- `flushed` (236-238): the interrupt handler saves memory, not what the disk held; a
  trial can end up `passed` and not ingested, never to be run or reported.
- `unscored` (250): after an authentication error or unknown outcome, `eval resume`
  skips that trial, completes the run and reports without it.
- `stranded` (238-240): interrupted between adding the cost and setting the
  status, a run may be over budget with a running trial; `eval resume` refuses
  before it would requeue it.
- `auth` (196): an authentication signal of a Harbor without a result is looked for in
  the first 500 characters of stderr only; behind them the attempt is retried.
- `regenerated` (`orchestrator.py:413-416`): regenerating a report of unchanged trials may change
  the system configuration it shows, which is that of the last ingestion of any run.

Seen while modelling, and stated here only:

- `harbor_runner.py:19-21` calls the captured output unabridged; `_tail` moves the offset the
  child writes at, so that output written between its two seeks lands elsewhere.
- `docs/evaluation-runner.md:348` says an estimate always prefers historical data; the
  history of a system with a `name` is never found, as the database knows it by model and
  agent.
- A partial estimate needs no acknowledgement, and counts what has no price as nothing.
- `git_info.py:30-32` says git may be not installed; `subprocess.run` then raises
  `FileNotFoundError`, which nothing catches.
- git is asked twice, and before the tasks are hashed: an edit in between gives a verified plan
  with other hashes.  Task files are not looked at again during the execution.
- Neither the estimate nor a dirty worktree is checked again on resume.
- `max_concurrent_trials` is accepted and has no effect.
- An exception beside a score makes the outcome that of the exception, while the aggregate
  counts the trial as scored and as an exception.
- A task listed twice, or two systems of one key, give equal trial ids, which collapse in
  `state.json`.

## 6. Not modelled

- The artifact vault and the files of its task: a program with planted defects that is given
  to the agents under evaluation.  ColdStart neither runs nor imports it.
- The failure of one (task, system) pair's report after those of others were written: needs a
  recorded key without a row, which `CommittedTrialsStay` excludes.
- Rendering of reports and of the live progress panel, redaction, argument parsing, `eval
  status`: they change no state and no decision depends on them.
- Averages, medians, token and version columns: straight functions of rows whose membership
  and counts are checked.
- The field by field type checks of a configuration: one flag, `wellFormed`.
- Float rounding of costs: sums of a handful of positive costs compared with a budget.
- Torn writes: `os.replace`, fsync and SQLite's commit are taken at their word.
- Two `eval run` with one run id: ids carry the time to the microsecond.

## 7. What could come next

1. Reports grouped by the name of a task, of which two may share one file.
2. One composition of `RunLoop` with `ResultStore`, in place of the interface above.
3. A bound on the steps of an ingestion and of a Harbor call once its child has ended, as proved
   for the loop.

## Running

    tlc -workers 2 -config RunLoop_loop.cfg MCRunLoop
    tlc -workers 2 -config ResultStore_store.cfg MCResultStore
    tlapm RunLoopProofs.tla
