------------------------------ MODULE RunLoop ------------------------------
(***************************************************************************)
(* One evaluation run and the processes that work on its directory, one at *)
(* a time: create_run, execute_loop, resume_evaluation and                 *)
(* regenerate_reports of eval/orchestrator.py.                             *)
(*                                                                         *)
(* A process is at a program counter pc between two steps that a crash, an *)
(* exception or a KeyboardInterrupt can separate.  What it knows is mem,   *)
(* the RunState object; what survives it is on disk: the manifest and      *)
(* state.json, events.jsonl, the Phase 1 database and the report files.    *)
(* Every write of a file is one step of its own (atomic_write_json), and   *)
(* every assignment to mem that an interrupt can find unsaved is another.  *)
(*                                                                         *)
(* Harbor is external: an invocation returns any outcome the classifier    *)
(* knows, with any reported cost.                                          *)
(***************************************************************************)
EXTENDS RunState

CONSTANTS
  NoTrial,          \* no trial is in flight
  PlanRank,         \* position of a trial in plan order (a fresh run's dict)
  IdRank,           \* position in id order (a dict read back: sort_keys=True)
  MaxInfraRetries,  \* execution.max_infra_retries
  MaxBudget,        \* execution.max_budget_usd
  HasEstimate,      \* the manifest's cost_estimate.total_usd is not None
  Costs,            \* the values of cost_usd a Harbor result reports
  MaxFaults         \* bound: crashes and interrupts in a behaviour

ASSUME RunLoopAssumption ==
  /\ NoTrial \notin Trials
  /\ PlanRank \in [Trials -> Nat]
  /\ IdRank \in [Trials -> Nat]
  /\ MaxInfraRetries \in Nat
  /\ MaxBudget \in Nat
  /\ HasEstimate \in BOOLEAN
  /\ Costs \subseteq Nat
  /\ MaxFaults \in Nat

VARIABLES
  \* On disk.
  files,     \* which of manifest.json and state.json exist
  disk,      \* what state.json holds (before it exists: what it will hold)
  log,       \* the entries of events.jsonl
  store,     \* the trial rows of the Phase 1 database
  reports,   \* the rows the report files of this run show
  \* In the process, lost with it.
  pc,        \* where it is; "down" if there is none
  command,   \* the coldctl eval command it runs
  mem,       \* its RunState object (with no process: equal to disk)
  cur,       \* execute_loop's trial_id
  try,       \* execute_loop's attempt_number
  outcome,   \* classification.outcome
  cost,      \* the cost the Harbor result reports, 0 if none
  stop,      \* stop_reason
  \* History, read by the properties and the fault bound only.
  billed,    \* sum of the costs Harbor's results reported
  faults,    \* number of crashes and interrupts so far
  lastExit   \* how the last process ended, until the next begins

disks   == <<files, disk, log, store, reports>>
locals  == <<cur, try, outcome, cost, stop>>
history == <<billed, faults, lastExit>>
vars    == <<disks, pc, command, mem, locals, history>>

Outcome == {"passed", "failed", "infra_invalid", "auth_error", "unknown"}

EventType ==
  {"run_created", "trial_started", "trial_completed", "trial_failed",
   "trial_infra_retry", "trial_infra_exhausted", "trial_auth_error",
   "trial_unknown_paused", "run_paused", "run_finished", "reports_regenerated"}

Event == [type : EventType, trial : Trials \cup {NoTrial}, try : Nat]

Row == [trial : Trials, try : Nat, verdict : Scored]

\* Where a KeyboardInterrupt is caught by execute_loop's try block.
InTry ==
  {"loop", "starting", "started", "harbor", "classified", "counted", "costed",
   "scored", "stored", "flagged", "settled", "recorded"}

PC ==
  InTry \cup
  {"down", "creating", "created", "entry", "pausing", "paused", "finishing",
   "collecting", "reporting", "reported", "closing"}

StopReason ==
  {"none", "budget_reached", "authentication_failure", "unknown_exception", "interrupted"}

TypeOK ==
  /\ files \in {"none", "manifest", "state"}
  /\ disk \in RunStateType
  /\ log \subseteq Event
  /\ store \subseteq Row
  /\ reports \subseteq Row
  /\ pc \in PC
  /\ command \in {"none", "run", "resume", "regenerate"}
  /\ mem \in RunStateType
  /\ cur \in Trials \cup {NoTrial}
  /\ try \in Nat
  /\ outcome \in Outcome \cup {"none"}
  /\ cost \in Nat
  /\ stop \in StopReason
  /\ billed \in Nat
  /\ faults \in 0..MaxFaults
  /\ lastExit \in {"none", "returned", "interrupted", "crashed"}

Init ==
  /\ files = "none"
  /\ disk = NewState
  /\ log = {}
  /\ store = {}
  /\ reports = {}
  /\ pc = "down"
  /\ command = "none"
  /\ mem = NewState
  /\ cur = NoTrial /\ try = 0 /\ outcome = "none" /\ cost = 0 /\ stop = "none"
  /\ billed = 0 /\ faults = 0 /\ lastExit = "none"

-----------------------------------------------------------------------------
(* Steps of a process.                                                     *)

Step(from, to) == pc = from /\ pc' = to

AppendEvent(type, t, n) == log' = log \cup {[type |-> type, trial |-> t, try |-> n]}

\* The process is gone, and with it everything it did not save.
Exit(how) ==
  /\ pc' = "down"
  /\ command' = "none"
  /\ mem' = disk'
  /\ cur' = NoTrial /\ try' = 0 /\ outcome' = "none" /\ cost' = 0 /\ stop' = "none"
  /\ lastExit' = how

(***************************************************************************)
(* create_run: the manifest, then the first state.json, then an event.  A  *)
(* second eval run under the same id meets ManifestExistsError.            *)
(***************************************************************************)
CreateManifest ==
  /\ Step("down", "creating")
  /\ files = "none" /\ files' = "manifest"
  /\ command' = "run"
  /\ lastExit' = "none"
  /\ UNCHANGED <<disk, log, store, reports, mem, locals, billed, faults>>

WriteInitialState ==
  /\ Step("creating", "created")
  /\ files' = "state"
  /\ disk' = mem
  /\ UNCHANGED <<log, store, reports, command, mem, locals, history>>

LogCreated ==
  /\ Step("created", "entry")
  /\ AppendEvent("run_created", NoTrial, 0)
  /\ UNCHANGED <<files, disk, store, reports, command, mem, locals, history>>

(***************************************************************************)
(* resume_evaluation, of a run whose configuration has not drifted, by an  *)
(* operator who acknowledges a missing estimate.                           *)
(***************************************************************************)
Finished(s) == s.status \in {"completed", "failed"}

WithinBudget(s) == HasEstimate => s.cost <= MaxBudget

Resume ==
  /\ Step("down", "entry")
  /\ files = "state"
  /\ ~Finished(disk)
  /\ WithinBudget(disk)
  /\ command' = "resume"
  /\ mem' = disk
  /\ lastExit' = "none"
  /\ UNCHANGED <<disks, locals, billed, faults>>

\* No run to resume, a finished one, or one over budget: nothing happens.
ResumeRefused ==
  /\ pc = "down"
  /\ files # "state" \/ Finished(disk) \/ ~WithinBudget(disk)
  /\ UNCHANGED vars

\* regenerate_reports reads the state, whatever the status of the run.
Regenerate ==
  /\ Step("down", "collecting")
  /\ files = "state"
  /\ command' = "regenerate"
  /\ mem' = disk
  /\ lastExit' = "none"
  /\ UNCHANGED <<disks, locals, billed, faults>>

\* Mutant: a trial left running stays running.
Requeued_Never(s) == s

\* A trial left running by an earlier process is not trusted.
Requeued(s) ==
  [s EXCEPT !.trial = [t \in Trials |->
     IF s.trial[t].status = "running" THEN [s.trial[t] EXCEPT !.status = "pending"]
                                      ELSE s.trial[t]]]

\* Mutant: the run status is not saved.
EnterLoop_Unsaved ==
  /\ Step("entry", "loop")
  /\ mem' = [Requeued(mem) EXCEPT !.status = "running"]
  /\ UNCHANGED <<disks, command, locals, history>>

EnterLoop ==
  /\ Step("entry", "loop")
  /\ mem' = [Requeued(mem) EXCEPT !.status = "running"]
  /\ disk' = mem'
  /\ UNCHANGED <<files, log, store, reports, command, locals, history>>

-----------------------------------------------------------------------------
(* One round of execute_loop.                                              *)

\* pending[0]: trials is a dict, in plan order until it is read back.
Rank == IF command = "run" THEN PlanRank ELSE IdRank

\* Mutant: any pending trial is next.
IsNext_Any(t) == t \in PendingTrials(mem)

IsNext(t) ==
  /\ t \in PendingTrials(mem)
  /\ \A u \in PendingTrials(mem) : Rank[t] <= Rank[u]

BudgetReached(s) == s.cost >= MaxBudget

NothingPending ==
  /\ Step("loop", "finishing")
  /\ PendingTrials(mem) = {}
  /\ UNCHANGED <<disks, command, mem, locals, history>>

StopAtBudget ==
  /\ Step("loop", "pausing")
  /\ PendingTrials(mem) # {}
  /\ BudgetReached(mem)
  /\ stop' = "budget_reached"
  /\ UNCHANGED <<disks, command, mem, cur, try, outcome, cost, history>>

\* Mutant: the budget is not asked.
StartTrial_Unchecked(t) ==
  /\ Step("loop", "starting")
  /\ IsNext(t)
  /\ mem' = [mem EXCEPT !.trial[t].status = "running"]
  /\ cur' = t
  /\ try' = mem.trial[t].attempts + 1
  /\ UNCHANGED <<disks, command, outcome, cost, stop, history>>

\* The trial is marked in memory; an interrupt can find the mark unsaved.
StartTrial(t) ==
  /\ Step("loop", "starting")
  /\ IsNext(t)
  /\ ~BudgetReached(mem)
  /\ mem' = [mem EXCEPT !.trial[t].status = "running"]
  /\ cur' = t
  /\ try' = mem.trial[t].attempts + 1
  /\ UNCHANGED <<disks, command, outcome, cost, stop, history>>

WriteStarted ==
  /\ Step("starting", "started")
  /\ disk' = mem
  /\ UNCHANGED <<files, log, store, reports, command, mem, locals, history>>

LogStarted ==
  /\ Step("started", "harbor")
  /\ AppendEvent("trial_started", cur, try)
  /\ UNCHANGED <<files, disk, store, reports, command, mem, locals, history>>

\* run_trial and _classify_invocation: Harbor has run and been classified.
HarborReturns(o, c) ==
  /\ Step("harbor", "classified")
  /\ outcome' = o
  /\ cost' = c
  /\ billed' = billed + c
  /\ UNCHANGED <<disks, command, mem, cur, try, stop, faults, lastExit>>

\* Mutant: the attempt is not counted.
RecordAttempt_Lost ==
  /\ Step("classified", "counted")
  /\ UNCHANGED <<disks, command, mem, locals, history>>

RecordAttempt ==
  /\ Step("classified", "counted")
  /\ mem' = [mem EXCEPT !.trial[cur].attempts = try]
  /\ UNCHANGED <<disks, command, locals, history>>

\* Mutant: the cost replaces the accumulated one.
RecordCost_Overwrites ==
  /\ Step("counted", "costed")
  /\ mem' = [mem EXCEPT !.cost = cost]
  /\ UNCHANGED <<disks, command, locals, history>>

RecordCost ==
  /\ Step("counted", "costed")
  /\ mem' = [mem EXCEPT !.cost = @ + cost]
  /\ UNCHANGED <<disks, command, locals, history>>

\* The status is set before the result is ingested.
SettleScored ==
  /\ Step("costed", "scored")
  /\ outcome \in Scored
  /\ mem' = [mem EXCEPT !.trial[cur].status = outcome]
  /\ UNCHANGED <<disks, command, locals, history>>

\* Mutants: the outcome's own name, and one retry too many.
InfraStatus_Outcome(n) == "infra_invalid"

InfraStatus_OneMore(n) ==
  IF n <= MaxInfraRetries + 1 THEN "infra_invalid_retry_scheduled"
                              ELSE "infra_invalid_exhausted"

InfraStatus(n) ==
  IF n < MaxInfraRetries + 1 THEN "infra_invalid_retry_scheduled"
                             ELSE "infra_invalid_exhausted"

SettleInfra ==
  /\ Step("costed", "settled")
  /\ outcome = "infra_invalid"
  /\ mem' = [mem EXCEPT !.trial[cur].status = InfraStatus(try)]
  /\ UNCHANGED <<disks, command, locals, history>>

SettleAuth ==
  /\ Step("costed", "settled")
  /\ outcome = "auth_error"
  /\ mem' = [mem EXCEPT !.trial[cur].status = "auth_error_paused"]
  /\ stop' = "authentication_failure"
  /\ UNCHANGED <<disks, command, cur, try, outcome, cost, history>>

SettleUnknown ==
  /\ Step("costed", "settled")
  /\ outcome = "unknown"
  /\ mem' = [mem EXCEPT !.trial[cur].status = "unknown_paused"]
  /\ stop' = "unknown_exception"
  /\ UNCHANGED <<disks, command, cur, try, outcome, cost, history>>

(***************************************************************************)
(* ingest_jobs: the row of the job is upserted and committed, or the job   *)
(* is rolled back to its savepoint and reported as not ok.                 *)
(***************************************************************************)
\* Mutant: the row is inserted beside an older one of the same job.
Upserted_Inserts(t, n, v) == store \cup {[trial |-> t, try |-> n, verdict |-> v]}

Upserted(t, n, v) ==
  {r \in store : ~(r.trial = t /\ r.try = n)} \cup {[trial |-> t, try |-> n, verdict |-> v]}

IngestJob ==
  /\ Step("scored", "stored")
  /\ store' = Upserted(cur, try, outcome)
  /\ UNCHANGED <<files, disk, log, reports, command, mem, locals, history>>

IngestFails ==
  /\ Step("scored", "settled")
  /\ UNCHANGED <<disks, command, mem, locals, history>>

FlagIngested ==
  /\ Step("stored", "flagged")
  /\ mem' = [mem EXCEPT !.trial[cur].ingested = TRUE]
  /\ UNCHANGED <<disks, command, locals, history>>

RecordKey ==
  /\ Step("flagged", "settled")
  /\ mem' = [mem EXCEPT !.trial[cur].key = try]
  /\ UNCHANGED <<disks, command, locals, history>>

\* Mutant: the event is written without the state.
WriteOutcome_Skipped ==
  /\ Step("settled", "recorded")
  /\ UNCHANGED <<disks, command, mem, locals, history>>

WriteOutcome ==
  /\ Step("settled", "recorded")
  /\ disk' = mem
  /\ UNCHANGED <<files, log, store, reports, command, mem, locals, history>>

OutcomeEvent ==
  [passed                        |-> "trial_completed",
   failed                        |-> "trial_failed",
   infra_invalid_retry_scheduled |-> "trial_infra_retry",
   infra_invalid_exhausted       |-> "trial_infra_exhausted",
   auth_error_paused             |-> "trial_auth_error",
   unknown_paused                |-> "trial_unknown_paused"]

LogOutcome ==
  /\ pc = "recorded"
  /\ pc' = IF stop = "none" THEN "loop" ELSE "pausing"
  /\ AppendEvent(OutcomeEvent[mem.trial[cur].status], cur, try)
  /\ cur' = NoTrial /\ try' = 0 /\ outcome' = "none" /\ cost' = 0
  /\ UNCHANGED <<files, disk, store, reports, command, mem, stop, history>>

-----------------------------------------------------------------------------
(* Leaving execute_loop.                                                   *)

Pause ==
  /\ Step("pausing", "paused")
  /\ mem' = [mem EXCEPT !.status = "paused"]
  /\ disk' = mem'
  /\ UNCHANGED <<files, log, store, reports, command, locals, history>>

LogPaused ==
  /\ pc = "paused"
  /\ AppendEvent("run_paused", NoTrial, 0)
  /\ UNCHANGED <<files, disk, store, reports, billed, faults>>
  /\ Exit(IF stop = "interrupted" THEN "interrupted" ELSE "returned")

FinalStatus(s) ==
  IF \E t \in Trials : s.trial[t].status = "infra_invalid_exhausted"
    THEN "failed" ELSE "completed"

WriteFinalStatus ==
  /\ Step("finishing", "collecting")
  /\ mem' = [mem EXCEPT !.status = FinalStatus(mem)]
  /\ disk' = mem'
  /\ UNCHANGED <<files, log, store, reports, command, locals, history>>

\* collect_trial_keys_by_pair writes state.json only if it filled in a key.
CollectKeys ==
  /\ Step("collecting", "reporting")
  /\ mem' = Backfilled(mem)
  /\ disk' = mem'
  /\ UNCHANGED <<files, log, store, reports, command, locals, history>>

(***************************************************************************)
(* generate_reports_for_run, all pairs at once.  A key without a row would *)
(* be a ReportMembershipError: the database only grows here, so that the   *)
(* guard never blocks (a deadlock would say otherwise).                    *)
(***************************************************************************)
KeyRows(s) == {r \in store : r.trial \in Reportable(s) /\ r.try = s.trial[r.trial].key}

KeysResolve(s) ==
  \A t \in Reportable(s) : s.trial[t].key # NoKey => \E r \in KeyRows(s) : r.trial = t

GenerateReports ==
  /\ Step("reporting", "reported")
  /\ KeysResolve(mem)
  /\ reports' = IF KeyRows(mem) = {} THEN reports ELSE KeyRows(mem)
  /\ mem' = [mem EXCEPT !.reported = (KeyRows(mem) # {})]
  /\ UNCHANGED <<files, disk, log, store, command, locals, history>>

WriteReportStatus ==
  /\ Step("reported", "closing")
  /\ disk' = mem
  /\ UNCHANGED <<files, log, store, reports, command, mem, locals, history>>

LogFinished ==
  /\ pc = "closing"
  /\ AppendEvent(IF command = "regenerate" THEN "reports_regenerated" ELSE "run_finished",
                 NoTrial, 0)
  /\ UNCHANGED <<files, disk, store, reports, billed, faults>>
  /\ Exit("returned")

-----------------------------------------------------------------------------
(* Faults.                                                                 *)

\* Ctrl+C inside the try block (Harbor, if it runs, is killed first).
Interrupt ==
  /\ pc \in InTry
  /\ pc' = "pausing"
  /\ stop' = "interrupted"
  /\ faults < MaxFaults /\ faults' = faults + 1
  /\ UNCHANGED <<disks, command, mem, cur, try, outcome, cost, billed, lastExit>>

\* Ctrl+C anywhere else ends the process where it is.
InterruptUncaught ==
  /\ pc \notin InTry \cup {"down"}
  /\ faults < MaxFaults /\ faults' = faults + 1
  /\ UNCHANGED <<disks, billed>>
  /\ Exit(IF command = "regenerate" THEN "crashed" ELSE "interrupted")

\* A kill, a power loss, or an exception nothing catches (sqlite3, OSError).
Crash ==
  /\ pc # "down"
  /\ faults < MaxFaults /\ faults' = faults + 1
  /\ UNCHANGED <<disks, billed>>
  /\ Exit("crashed")

-----------------------------------------------------------------------------
Round ==
  \/ NothingPending
  \/ StopAtBudget
  \/ \E t \in Trials : StartTrial(t)
  \/ WriteStarted \/ LogStarted
  \/ \E o \in Outcome, c \in Costs : HarborReturns(o, c)
  \/ RecordAttempt \/ RecordCost
  \/ SettleScored \/ SettleInfra \/ SettleAuth \/ SettleUnknown
  \/ IngestJob \/ IngestFails \/ FlagIngested \/ RecordKey
  \/ WriteOutcome \/ LogOutcome

Process ==
  \/ WriteInitialState \/ LogCreated \/ EnterLoop
  \/ Round
  \/ Pause \/ LogPaused
  \/ WriteFinalStatus \/ CollectKeys \/ GenerateReports
  \/ WriteReportStatus \/ LogFinished

Operator == CreateManifest \/ Resume \/ ResumeRefused \/ Regenerate

Fault == Interrupt \/ InterruptUncaught \/ Crash

Next == Process \/ Operator \/ Fault

Spec == Init /\ [][Next]_vars

(***************************************************************************)
(* A process goes on until it ends (Harbor returns: the command line sets  *)
(* no timeout, so this is an assumption about Harbor), and an operator who *)
(* can resume the run keeps trying.                                        *)
(***************************************************************************)
FairSpec == Spec /\ WF_vars(Process) /\ SF_vars(Resume)

-----------------------------------------------------------------------------
(* Properties.                                                             *)

\* What memory knows and state.json does not is about the trial in flight, and
\* state.json shows that trial as running, or else as waiting and then all that
\* is unsaved is the mark that it runs: whenever the process dies, no other trial
\* loses anything, and the next execute_loop requeues the trial or picks it.
OnlyInFlightUnsaved ==
  /\ mem.status = disk.status
  /\ \A t \in Trials :
       mem.trial[t] # disk.trial[t] =>
         /\ t = cur
         /\ \/ disk.trial[t].status = "running"
            \/ /\ disk.trial[t].status \in Waiting
               /\ mem.trial[t] = [disk.trial[t] EXCEPT !.status = "running"]

\* state.json never shows two running trials, whatever crashed before, and a
\* run it calls completed or failed has none that runs or waits.
AtMostOneRunning ==
  /\ \A t, u \in Trials :
       disk.trial[t].status = "running" /\ disk.trial[u].status = "running" => t = u
  /\ Finished(disk) => \A t \in Trials : disk.trial[t].status \in Settled

\* events.jsonl never runs ahead of state.json: an event that announces the
\* end of a trial is about the verdict and the attempt state.json still holds,
\* a retry about an attempt it counts, run_finished about a finished run.
LoggedIsDurable ==
  \A e \in log :
    /\ \A s \in Settled :
         e.type = OutcomeEvent[s] =>
           disk.trial[e.trial].status = s /\ disk.trial[e.trial].attempts = e.try
    /\ e.type = "trial_infra_retry" => disk.trial[e.trial].attempts >= e.try
    /\ e.type = "run_finished" => Finished(disk)

\* actual_cost_usd never counts a result twice, and over any number of pauses
\* and resumes counts every one of them unless a crash or an interrupt hit.
CostAccounting ==
  /\ disk.cost <= billed
  /\ faults = 0 /\ pc = "down" => disk.cost = billed

\* The budget is checked before a launch, not after: whatever the crashes and
\* resumes, the recorded cost exceeds it by less than one Harbor result.
OvershootBounded == disk.cost = 0 \/ \E c \in Costs : disk.cost < MaxBudget + c

\* An infrastructure failure is retried at most max_infra_retries times; only
\* a crash or an interrupt can make an attempt more.
AttemptsBounded ==
  \A t \in Trials : disk.trial[t].attempts <= MaxInfraRetries + 1 + faults

\* A trial state.json calls ingested has one row in the Phase 1 database for
\* its last job, with the verdict state.json holds, and no other key; crashes
\* between the commit and the write of state.json do not separate them.
IngestedAgreesWithStore ==
  \A t \in Trials :
    LET s == disk.trial[t] IN
    s.ingested =>
      /\ s.key \in {NoKey, s.attempts}
      /\ {r \in store : r.trial = t /\ r.try = s.attempts}
           = {[trial |-> t, try |-> s.attempts, verdict |-> s.status]}

\* The reports of a finished run show exactly its ingested trials, each with
\* its last verdict, the ones whose key an interrupt kept from being recorded
\* included (CollectKeys restores it); regenerating them changes nothing.
FinishedRunIsReported ==
  \A e \in log :
    e.type = "run_finished" =>
      reports = {[trial |-> t, try |-> disk.trial[t].attempts,
                  verdict |-> disk.trial[t].status] : t \in Reportable(disk)}

\* A run that was never resumed finishes a trial, retries included, before it
\* touches a later one of the plan.
FreshRunKeepsPlanOrder ==
  command = "run" =>
    \A t, u \in Trials :
      PlanRank[t] < PlanRank[u] /\ mem.trial[u] # NewTrial =>
        mem.trial[t].status \in Settled

\* state.json is a faithful ledger: its successive contents are a behaviour of
\* RunLedger.  In particular a verdict never changes, no attempt is forgotten,
\* one trial runs at a time and a run ends only when every trial is settled.
Ledger == INSTANCE RunLedger WITH
  runStatus <- disk.status,
  trialStatus <- [t \in Trials |-> disk.trial[t].status],
  attempts <- [t \in Trials |-> disk.trial[t].attempts]

RefinesLedger == Ledger!LedgerSpec

\* Every invocation of coldctl eval ends.
InvocationEnds == pc # "down" ~> pc = "down"

\* A run that has its state.json ends up with every trial settled, or has
\* spent its budget.
RunSettles ==
  files = "state" ~>
    (\A t \in Trials : disk.trial[t].status \in Settled) \/ BudgetReached(disk)

-----------------------------------------------------------------------------
(* What the documentation says and the code does not do.                   *)

\* docs/evaluation-runner.md: Ctrl+C "is caught; the run is atomically marked
\* paused and can be continued later with eval resume".
InterruptedRunCanResume ==
  pc = "down" /\ lastExit = "interrupted" => ~Finished(disk)

\* docs/evaluation-runner.md: "a trial that was mid-flight when the interrupt
\* landed keeps whatever status it last had on disk".
InterruptKeepsDiskStatus ==
  [][Pause /\ stop = "interrupted" =>
       \A t \in Trials : disk'.trial[t].status = disk.trial[t].status]_vars

\* docs/evaluation-runner.md: reports are generated "after every scheduled
\* trial reaches a terminal state".
ReportsWaitForEveryTrial ==
  (\E e \in log : e.type = "run_finished") => CompletedTrials(disk) = Trials

\* docs/evaluation-runner.md: eval resume normalizes any stuck running trial
\* back to pending, "so no trial is ever permanently stranded".
NoTrialStranded ==
  \A t \in Trials :
    pc = "down" /\ disk.trial[t].status = "running" ~> disk.trial[t].status # "running"

=============================================================================
