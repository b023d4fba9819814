---------------------------- MODULE RunProcesses ----------------------------
(***************************************************************************)
(* Several processes on one run directory.  Nothing keeps two of them from *)
(* resuming one run, or from regenerating its reports while it runs: each  *)
(* has read state.json into a RunState of its own and writes it back whole *)
(* (atomic_write_json), over what the others wrote.  They pick the same    *)
(* trial with the same attempt number, and so share a Harbor job directory.*)
(*                                                                         *)
(* Module RunLoop has every step of one process; here a step ends where    *)
(* another process can see or change something (the state file and its     *)
(* temporary files, the job directories, the Phase 1 database), and an     *)
(* interrupt finds memory after any of the assignments that lead there.    *)
(***************************************************************************)
EXTENDS RunState, FiniteSets, FiniteSetsExt

CONSTANTS
  Procs,            \* processes
  NoTrial,
  Absent,           \* no such file
  Rank,             \* position of a trial in pending_trial_ids
  MaxInfraRetries,  \* execution.max_infra_retries
  MaxBudget,        \* execution.max_budget_usd
  Verdicts,         \* what a Harbor result can be classified as
  Costs,            \* the values of cost_usd a Harbor result reports
  MaxDirs,          \* bound: trial directories Harbor makes
  MaxFaults         \* bound: crashes and interrupts in a behaviour

ASSUME RunProcessesAssumption ==
  /\ NoTrial \notin Trials
  /\ Procs # {}
  /\ Rank \in [Trials -> Nat]
  /\ Verdicts \subseteq Scored \cup {"infra_invalid"}
  /\ MaxInfraRetries \in Nat /\ MaxBudget \in Nat /\ Costs \subseteq Nat
  /\ MaxDirs \in Nat /\ MaxFaults \in Nat

VARIABLES
  \* On disk.
  file,    \* state.json
  temp,    \* the temporary files beside it
  dirs,    \* the trial directories below harbor_jobs
  store,   \* the trial rows of the Phase 1 database
  \* In each process.
  pc,
  next,    \* where it goes when it has saved its state
  mem,     \* its RunState
  cur,     \* the trial in flight
  found,   \* ingest_results[0].trials[0].trial_key, NoKey until there is one
  \* History.
  faults

disk   == <<file, temp, dirs, store>>
locals == <<pc, next, mem, cur, found>>
vars   == <<disk, locals, faults>>

\* What a file holds; not whole is what a reader cannot parse.
Content == [whole : BOOLEAN, state : RunStateType]

\* No file is not a file.
ASSUME AbsentAssumption == Absent \notin Content

\* A trial directory: its job (trial and attempt), its random name and its result.
TrialDir ==
  [trial : Trials, try : Nat \ {0}, name : 1..MaxDirs, verdict : Verdicts,
   cost : Costs]

InTry == {"loop", "harbor", "classify", "ingest", "stored", "flagged"}

TypeOK ==
  /\ file \in Content
  /\ temp \in [Procs -> Content \cup {Absent}]
  /\ dirs \subseteq TrialDir /\ store \subseteq TrialDir
  /\ pc \in [Procs -> InTry \cup {"down", "fill", "replace", "report", "render"}]
  /\ next \in [Procs -> {"down", "loop", "harbor", "report", "render"}]
  /\ mem \in [Procs -> RunStateType]
  /\ cur \in [Procs -> Trials \cup {NoTrial}]
  /\ found \in [Procs -> Nat]
  /\ faults \in 0..MaxFaults

\* eval run has made the run; any number of trials has been run since, or none.
Init ==
  /\ file = [whole |-> TRUE, state |-> NewState]
  /\ temp = [p \in Procs |-> Absent]
  /\ dirs = {} /\ store = {}
  /\ pc = [p \in Procs |-> "down"]
  /\ next = [p \in Procs |-> "down"]
  /\ mem = [p \in Procs |-> NewState]
  /\ cur = [p \in Procs |-> NoTrial]
  /\ found = [p \in Procs |-> NoKey]
  /\ faults = 0

-----------------------------------------------------------------------------
(* atomic_write_json.                                                      *)

Step(p, from, to) == pc[p] = from /\ pc' = [pc EXCEPT ![p] = to]

\* Mutant: the temporary file is state.json.tmp.
TempName_Fixed(p) == CHOOSE q \in Procs : TRUE

\* mkstemp: a name nobody else has.  One that a crash has left is never used again.
TempName(p) == p

\* Process p has made s of its state, begins to save it, and will go on at l.
Save(p, s, l) ==
  /\ mem' = [mem EXCEPT ![p] = s]
  /\ temp' = [temp EXCEPT ![TempName(p)] = [whole |-> FALSE, state |-> NewState]]
  /\ pc' = [pc EXCEPT ![p] = "fill"]
  /\ next' = [next EXCEPT ![p] = l]

FillTemp(p) ==
  /\ Step(p, "fill", "replace")
  /\ temp' = [temp EXCEPT ![TempName(p)] = [whole |-> TRUE, state |-> mem[p]]]
  /\ UNCHANGED <<file, dirs, store, next, mem, cur, found, faults>>

ReplaceFile(p) ==
  /\ temp[TempName(p)] # Absent
  /\ Step(p, "replace", next[p])
  /\ file' = temp[TempName(p)]
  /\ temp' = [temp EXCEPT ![TempName(p)] = Absent]
  /\ mem' = IF next[p] = "down" THEN [mem EXCEPT ![p] = NewState] ELSE mem
  /\ cur' = IF next[p] = "harbor" THEN cur ELSE [cur EXCEPT ![p] = NoTrial]
  /\ next' = [next EXCEPT ![p] = "down"]
  /\ UNCHANGED <<dirs, store, found, faults>>

-----------------------------------------------------------------------------
(* eval resume and eval regenerate-reports.                                *)

Finished(s) == s.status \in {"completed", "failed"}

\* Mutant: a trial left running stays running.
Requeued_Never(s) == s

\* A trial left running by an earlier process is not trusted.
Requeued(s) ==
  [s EXCEPT !.trial = [t \in Trials |->
     IF s.trial[t].status = "running" THEN [s.trial[t] EXCEPT !.status = "pending"]
                                      ELSE s.trial[t]]]

\* Whether the run has an estimate does not matter here: it has one.
Resume(p) ==
  /\ pc[p] = "down"
  /\ file.whole /\ ~Finished(file.state) /\ file.state.cost <= MaxBudget
  /\ Save(p, [Requeued(file.state) EXCEPT !.status = "running"], "loop")
  /\ UNCHANGED <<file, dirs, store, cur, found, faults>>

Regenerate(p) ==
  /\ Step(p, "down", "report")
  /\ file.whole
  /\ mem' = [mem EXCEPT ![p] = file.state]
  /\ UNCHANGED <<disk, next, cur, found, faults>>

-----------------------------------------------------------------------------
(* execute_loop.                                                           *)

IsNext(s, t) ==
  /\ t \in PendingTrials(s)
  /\ \A u \in PendingTrials(s) : Rank[t] <= Rank[u]

BudgetReached(s) == s.cost >= MaxBudget

FinalStatus(s) ==
  IF \E t \in Trials : s.trial[t].status = "infra_invalid_exhausted"
    THEN "failed" ELSE "completed"

FinishLoop(p) ==
  /\ pc[p] = "loop"
  /\ PendingTrials(mem[p]) = {}
  /\ Save(p, [mem[p] EXCEPT !.status = FinalStatus(mem[p])], "report")
  /\ UNCHANGED <<file, dirs, store, cur, found, faults>>

StopAtBudget(p) ==
  /\ pc[p] = "loop"
  /\ PendingTrials(mem[p]) # {} /\ BudgetReached(mem[p])
  /\ Save(p, [mem[p] EXCEPT !.status = "paused"], "down")
  /\ UNCHANGED <<file, dirs, store, cur, found, faults>>

\* The mark in memory and the write: an interrupt between the two finds what one
\* that removes the unfinished temporary file finds.
StartTrial(p, t) ==
  /\ pc[p] = "loop"
  /\ IsNext(mem[p], t) /\ ~BudgetReached(mem[p])
  /\ Save(p, [mem[p] EXCEPT !.trial[t].status = "running"], "harbor")
  /\ cur' = [cur EXCEPT ![p] = t]
  /\ UNCHANGED <<file, dirs, store, found, faults>>

Try(p) == mem[p].trial[cur[p]].attempts + 1

JobOf(p) == {d \in dirs : d.trial = cur[p] /\ d.try = Try(p)}

\* Harbor, external: a trial directory of a new name in the job directory, or none.
HarborReturns(p, v, c) ==
  /\ Step(p, "harbor", "classify")
  /\ dirs' \in
       {dirs,
        dirs \cup {[trial |-> cur[p], try |-> Try(p), name |-> n, verdict |-> v, cost |-> c] :
                     n \in {Cardinality(dirs) + 1} \cap (1..MaxDirs)}}
  /\ UNCHANGED <<file, temp, store, next, mem, cur, found, faults>>

\* Mutant: the outcome's own name.
InfraStatus_Outcome(n) == "infra_invalid"

InfraStatus(n) ==
  IF n < MaxInfraRetries + 1 THEN "infra_invalid_retry_scheduled"
                             ELSE "infra_invalid_exhausted"

\* What becomes of the state: the attempt is counted, then the cost of its result.
Counted(p) == [mem[p] EXCEPT !.trial[cur[p]].attempts = Try(p)]

\* Mutant: the attempt is not counted.
Attempted_Lost(p, d) == [mem[p] EXCEPT !.cost = @ + d.cost]

Attempted(p, d) == [Counted(p) EXCEPT !.cost = @ + d.cost]

\* _classify_invocation: exactly one trial directory, whoever made it.
ClassifyInvalid(p) ==
  /\ pc[p] = "classify"
  /\ Cardinality(JobOf(p)) # 1
  /\ Save(p, [Counted(p) EXCEPT !.trial[cur[p]].status = InfraStatus(Try(p))], "loop")
  /\ UNCHANGED <<file, dirs, store, cur, found, faults>>

ClassifyException(p) ==
  /\ pc[p] = "classify"
  /\ \E d \in JobOf(p) :
       /\ JobOf(p) = {d} /\ d.verdict \notin Scored
       /\ Save(p, [Attempted(p, d) EXCEPT !.trial[cur[p]].status = InfraStatus(Try(p))], "loop")
  /\ UNCHANGED <<file, dirs, store, cur, found, faults>>

ClassifyScored(p) ==
  /\ Step(p, "classify", "ingest")
  /\ \E d \in JobOf(p) :
       /\ JobOf(p) = {d} /\ d.verdict \in Scored
       /\ mem' = [mem EXCEPT ![p] = [Attempted(p, d) EXCEPT !.trial[cur[p]].status = d.verdict]]
  /\ UNCHANGED <<disk, next, cur, found, faults>>

\* The job of the attempt just counted.
JobCounted(p) ==
  {d \in dirs : d.trial = cur[p] /\ d.try = mem[p].trial[cur[p]].attempts}

\* Mutant: a trial has only the rows of its last job.
Ingested_Last(ds) == {r \in store : \A d \in ds : r.trial # d.trial} \cup ds

Ingested(ds) == store \cup ds

(***************************************************************************)
(* ingest_jobs reads the job directory again and commits what it finds.    *)
(* The key it returns first is that of the first of the trials, in the     *)
(* order of their random names; it is recorded after the flag is.          *)
(***************************************************************************)
IngestJob(p) ==
  /\ Step(p, "ingest", "stored")
  /\ store' = Ingested(JobCounted(p))
  /\ \E d \in JobCounted(p) : found' = [found EXCEPT ![p] = d.name]
  /\ UNCHANGED <<file, temp, dirs, next, mem, cur, faults>>

IngestFails(p) ==
  /\ pc[p] = "ingest"
  /\ Save(p, [mem[p] EXCEPT !.trial[cur[p]].ingested = FALSE], "loop")
  /\ UNCHANGED <<file, dirs, store, cur, found, faults>>

FlagIngested(p) ==
  /\ Step(p, "stored", "flagged")
  /\ mem' = [mem EXCEPT ![p].trial[cur[p]].ingested = TRUE]
  /\ UNCHANGED <<disk, next, cur, found, faults>>

RecordKey(p) ==
  /\ pc[p] = "flagged"
  /\ Save(p, [mem[p] EXCEPT !.trial[cur[p]].key = found[p]], "loop")
  /\ found' = [found EXCEPT ![p] = NoKey]
  /\ UNCHANGED <<file, dirs, store, cur, faults>>

-----------------------------------------------------------------------------
(* Reports.                                                                *)

LastJob(s, t) == {d \in dirs : d.trial = t /\ d.try = s.trial[t].attempts}

\* _derive_phase1_trial_key: a job with exactly one trial directory names it.
DerivedKey(s, t) ==
  IF Cardinality(LastJob(s, t)) = 1 THEN (CHOOSE d \in LastJob(s, t) : TRUE).name ELSE NoKey

WithKeys(s) ==
  [s EXCEPT !.trial = [t \in Trials |->
     IF t \in Reportable(s) /\ s.trial[t].key = NoKey
       THEN [s.trial[t] EXCEPT !.key = DerivedKey(s, t)]
       ELSE s.trial[t]]]

\* collect_trial_keys_by_pair writes state.json if it filled in a key.
CollectKeys(p) ==
  /\ Step(p, "report", "render")
  /\ WithKeys(mem[p]) = mem[p]
  /\ UNCHANGED <<disk, next, mem, cur, found, faults>>

BackfillKeys(p) ==
  /\ pc[p] = "report"
  /\ WithKeys(mem[p]) # mem[p]
  /\ Save(p, WithKeys(mem[p]), "render")
  /\ UNCHANGED <<file, dirs, store, cur, found, faults>>

Keyed(s) == {t \in Reportable(s) : s.trial[t].key # NoKey}

\* A key without a row would be a ReportMembershipError.
KeysResolve(s) ==
  \A t \in Keyed(s) : \E r \in store : r.trial = t /\ r.name = s.trial[t].key

\* generate_reports_for_run; a trial without a key is in no report.
GenerateReports(p) ==
  /\ pc[p] = "render"
  /\ KeysResolve(mem[p])
  /\ Save(p, [mem[p] EXCEPT !.reported = (Keyed(mem[p]) # {})], "down")
  /\ UNCHANGED <<file, dirs, store, cur, found, faults>>

-----------------------------------------------------------------------------
(* Faults.                                                                 *)

Down(p) ==
  /\ pc' = [pc EXCEPT ![p] = "down"]
  /\ next' = [next EXCEPT ![p] = "down"]
  /\ mem' = [mem EXCEPT ![p] = NewState]
  /\ cur' = [cur EXCEPT ![p] = NoTrial]
  /\ found' = [found EXCEPT ![p] = NoKey]

Faulty == faults < MaxFaults /\ faults' = faults + 1

\* A kill: the temporary file stays.
Crash(p) ==
  /\ pc[p] # "down"
  /\ Faulty
  /\ Down(p)
  /\ UNCHANGED disk

\* What an interrupt can find in memory: while an attempt is being counted, it or it
\* and its cost may be.
InMemory(p) ==
  IF pc[p] = "classify"
    THEN {mem[p], Counted(p)} \cup {Attempted(p, d) : d \in {e \in JobOf(p) : JobOf(p) = {e}}}
    ELSE {mem[p]}

\* Ctrl+C in the try block: a write removes its temporary file; the run is paused.
\* Anywhere else it is as a kill.
Interrupt(p) ==
  /\ \/ pc[p] \in InTry
     \/ pc[p] \in {"fill", "replace"} /\ cur[p] # NoTrial
  /\ Faulty
  /\ \E s \in InMemory(p) : Save(p, [s EXCEPT !.status = "paused"], "down")
  /\ cur' = [cur EXCEPT ![p] = NoTrial]
  /\ found' = [found EXCEPT ![p] = NoKey]
  /\ UNCHANGED <<file, dirs, store>>

-----------------------------------------------------------------------------
Process(p) ==
  \/ FillTemp(p) \/ ReplaceFile(p)
  \/ FinishLoop(p) \/ StopAtBudget(p) \/ (\E t \in Trials : StartTrial(p, t))
  \/ (\E v \in Verdicts, c \in Costs : HarborReturns(p, v, c))
  \/ ClassifyInvalid(p) \/ ClassifyException(p) \/ ClassifyScored(p)
  \/ IngestJob(p) \/ IngestFails(p) \/ FlagIngested(p) \/ RecordKey(p)
  \/ CollectKeys(p) \/ BackfillKeys(p) \/ GenerateReports(p)

Next ==
  \E p \in Procs : Resume(p) \/ Regenerate(p) \/ Process(p) \/ Crash(p) \/ Interrupt(p)

Spec == Init /\ [][Next]_vars

\* Each process goes on (Harbor returns); whether anybody resumes the run is open.
FairSpec == Spec /\ \A p \in Procs : WF_vars(Process(p))

-----------------------------------------------------------------------------
(* Properties.                                                             *)

\* Whoever writes state.json, is interrupted or killed in a write, or writes at the
\* same time: what is there is always one whole RunState.  (atomic_write_json)
FileIsWhole == file.whole

\* However their writes overwrite each other, state.json has at most one running
\* trial, and none running or waiting in a run it calls completed or failed.
\* (execute_loop, regenerate_reports)
AtMostOneRunning ==
  /\ \A t, u \in Trials :
       {file.state.trial[t].status, file.state.trial[u].status} = {"running"} => t = u
  /\ Finished(file.state) => \A t \in Trials : file.state.trial[t].status \in Settled

\* A trial that state.json calls ingested has a row of its last attempt in the
\* database, and its key, unless an interrupt kept that from being recorded, is the
\* key of such a row: also when another process has shared the job directory, has
\* ingested it again or has overwritten the file since, and when the key was derived
\* from the directory later.  (execute_loop, ingest_jobs, collect_trial_keys_by_pair)
IngestedHasRow ==
  \A t \in Trials :
    LET s == file.state.trial[t] IN
    s.ingested =>
      \E r \in store : r.trial = t /\ r.try = s.attempts /\ s.key \in {NoKey, r.name}

Billed == SumFunction([d \in dirs |-> d.cost])

\* The cost exceeds the budget by less than one result.
WithinBudget(s) == s.cost = 0 \/ \E c \in Costs : s.cost < MaxBudget + c

\* actual_cost_usd may forget what an overwritten process has spent, and never has
\* one result twice, though processes classify each other's results and those of a
\* process that died; it exceeds the budget by less than one result.  (execute_loop)
CostIsSpent ==
  /\ file.state.cost <= Billed
  /\ WithinBudget(file.state)

\* Whatever several processes have done to the run: once only one is left, if that one
\* resumes the run as often as it can be resumed, every trial is settled or the budget
\* is reached, and it stays so.  The others need not be able to resume it: they do not.
\* (resume_evaluation, execute_loop)
RaceSettles ==
  \A p \in Procs :
    <>[](\A q \in Procs \ {p} : pc[q] = "down") /\ SF_vars(Resume(p)) =>
      <>[]((\A t \in Trials : file.state.trial[t].status \in Settled)
             \/ BudgetReached(file.state))

=============================================================================
