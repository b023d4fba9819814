--------------------------- MODULE RunLoopProofs ---------------------------
(***************************************************************************)
(* Proofs that RunLoop keeps its type invariant and its safety properties, *)
(* for every set of trials, budget, retry limit and number of faults.      *)
(***************************************************************************)
EXTENDS RunLoopInv, TLAPS

-----------------------------------------------------------------------------
(* The shape of the state record.                                          *)

\* new_state is a run state.
LEMMA NewStateType == NewState \in RunStateType
  BY DEF NewState, NewTrial, RunStateType, TrialState, RunStatus, TrialStatus, NoKey

\* The fields of a run state.
LEMMA FieldTypes ==
  ASSUME NEW s \in RunStateType
  PROVE  /\ s.status \in RunStatus /\ s.cost \in Nat /\ s.reported \in BOOLEAN
         /\ \A t \in Trials :
              /\ s.trial[t] \in TrialState
              /\ s.trial[t].status \in TrialStatus
              /\ s.trial[t].attempts \in Nat
              /\ s.trial[t].ingested \in BOOLEAN
              /\ s.trial[t].key \in Nat
  BY DEF RunStateType, TrialState

\* Assigning a field of the run changes that only.
LEMMA SetRunStatus ==
  ASSUME NEW s \in RunStateType, NEW v \in RunStatus, NEW r, r = [s EXCEPT !.status = v]
  PROVE  /\ r \in RunStateType
         /\ r.status = v
         /\ r.trial = s.trial /\ r.cost = s.cost /\ r.reported = s.reported
  BY DEF RunStateType

\* Adding to the cost changes the cost only.
LEMMA AddCost ==
  ASSUME NEW s \in RunStateType, NEW v \in Nat, NEW r, r = [s EXCEPT !.cost = @ + v]
  PROVE  /\ r \in RunStateType
         /\ r.cost = s.cost + v
         /\ r.status = s.status /\ r.trial = s.trial /\ r.reported = s.reported
  BY DEF RunStateType

\* Assigning the report status changes that only.
LEMMA SetReported ==
  ASSUME NEW s \in RunStateType, NEW v \in BOOLEAN, NEW r, r = [s EXCEPT !.reported = v]
  PROVE  /\ r \in RunStateType
         /\ r.reported = v
         /\ r.status = s.status /\ r.trial = s.trial /\ r.cost = s.cost
  BY DEF RunStateType

\* Requeueing changes the status of running trials only.
LEMMA RequeuedFacts ==
  ASSUME NEW s \in RunStateType
  PROVE  /\ Requeued(s) \in RunStateType
         /\ \A t \in Trials :
              /\ s.trial[t].status = "running" =>
                   /\ Requeued(s).trial[t].status = "pending"
                   /\ Requeued(s).trial[t].attempts = s.trial[t].attempts
                   /\ Requeued(s).trial[t].ingested = s.trial[t].ingested
                   /\ Requeued(s).trial[t].key = s.trial[t].key
              /\ s.trial[t].status # "running" => Requeued(s).trial[t] = s.trial[t]
         /\ Requeued(s).status = s.status
         /\ Requeued(s).cost = s.cost
         /\ Requeued(s).reported = s.reported
<1>1. ASSUME NEW t \in Trials
      PROVE  /\ Requeued(s).trial[t] \in TrialState
             /\ s.trial[t].status # "running" => Requeued(s).trial[t] = s.trial[t]
             /\ s.trial[t].status = "running" =>
                  Requeued(s).trial[t] = [s.trial[t] EXCEPT !.status = "pending"]
  <2>1. s.trial[t] \in TrialState
    BY FieldTypes
  <2>2. [s.trial[t] EXCEPT !.status = "pending"] \in TrialState
    BY <2>1 DEF TrialState, TrialStatus
  <2>3. Requeued(s).trial[t] = IF s.trial[t].status = "running"
                                 THEN [s.trial[t] EXCEPT !.status = "pending"]
                                 ELSE s.trial[t]
    BY DEF Requeued, RunStateType
  <2> QED
    BY <2>1, <2>2, <2>3
<1>2. ASSUME NEW t \in Trials, s.trial[t].status = "running"
      PROVE  /\ Requeued(s).trial[t].status = "pending"
             /\ Requeued(s).trial[t].attempts = s.trial[t].attempts
             /\ Requeued(s).trial[t].ingested = s.trial[t].ingested
             /\ Requeued(s).trial[t].key = s.trial[t].key
  BY <1>1, <1>2, FieldTypes DEF TrialState
<1>3. Requeued(s) \in RunStateType
  BY <1>1 DEF Requeued, RunStateType
<1>4. /\ Requeued(s).status = s.status
      /\ Requeued(s).cost = s.cost
      /\ Requeued(s).reported = s.reported
  BY DEF Requeued, RunStateType
<1> QED
  BY <1>1, <1>2, <1>3, <1>4

\* Backfilling changes the missing keys of reportable trials only.
LEMMA BackfilledFacts ==
  ASSUME NEW s \in RunStateType
  PROVE  /\ Backfilled(s) \in RunStateType
         /\ \A t \in Trials :
              /\ Backfilled(s).trial[t].status = s.trial[t].status
              /\ Backfilled(s).trial[t].attempts = s.trial[t].attempts
              /\ Backfilled(s).trial[t].ingested = s.trial[t].ingested
              /\ Backfilled(s).trial[t].key \in {s.trial[t].key, s.trial[t].attempts}
              /\ ~s.trial[t].ingested => Backfilled(s).trial[t].key = s.trial[t].key
         /\ Backfilled(s).status = s.status
         /\ Backfilled(s).cost = s.cost
         /\ Backfilled(s).reported = s.reported
  BY DEF RunStateType, TrialState, Backfilled, Reportable

-----------------------------------------------------------------------------
(* What each step of a round does to memory.                               *)

LEMMA StartTrialFacts ==
  ASSUME TypeOK, ControlInv, NEW t \in Trials, StartTrial(t)
  PROVE  /\ mem' \in RunStateType
         /\ mem'.status = mem.status /\ mem'.cost = mem.cost /\ mem'.reported = mem.reported
         /\ \A u \in Trials \ {t} : mem'.trial[u] = mem.trial[u]
         /\ mem'.trial[t] = [mem.trial[t] EXCEPT !.status = "running"]
         /\ mem'.trial[t].status = "running"
         /\ mem'.trial[t].attempts = mem.trial[t].attempts
         /\ mem'.trial[t].ingested = mem.trial[t].ingested
         /\ mem'.trial[t].key = mem.trial[t].key
<1>1. mem \in RunStateType /\ t \in Trials /\ "running" \in TrialStatus
  BY RunLoopAssumption DEF TypeOK, ControlInv, InFlight, StartTrial, Step, TrialStatus
<1>2. mem' = [mem EXCEPT !.trial[t].status = "running"]
  BY DEF StartTrial
<1> QED
  BY ONLY <1>1, <1>2 DEF RunStateType, TrialState

LEMMA RecordAttemptFacts ==
  ASSUME TypeOK, ControlInv, RecordAttempt
  PROVE  /\ cur \in Trials
         /\ mem' \in RunStateType
         /\ mem'.status = mem.status /\ mem'.cost = mem.cost /\ mem'.reported = mem.reported
         /\ \A u \in Trials \ {cur} : mem'.trial[u] = mem.trial[u]
         /\ mem'.trial[cur].attempts = try
         /\ mem'.trial[cur].status = mem.trial[cur].status
         /\ mem'.trial[cur].ingested = mem.trial[cur].ingested
         /\ mem'.trial[cur].key = mem.trial[cur].key
<1>1. mem \in RunStateType /\ cur \in Trials /\ try \in Nat
  BY RunLoopAssumption DEF TypeOK, ControlInv, InFlight, RecordAttempt, Step
<1>2. mem' = [mem EXCEPT !.trial[cur].attempts = try]
  BY DEF RecordAttempt
<1> QED
  BY ONLY <1>1, <1>2 DEF RunStateType, TrialState

LEMMA SettleScoredFacts ==
  ASSUME TypeOK, ControlInv, SettleScored
  PROVE  /\ cur \in Trials
         /\ mem' \in RunStateType
         /\ mem'.status = mem.status /\ mem'.cost = mem.cost /\ mem'.reported = mem.reported
         /\ \A u \in Trials \ {cur} : mem'.trial[u] = mem.trial[u]
         /\ mem'.trial[cur].status = outcome
         /\ mem'.trial[cur].attempts = mem.trial[cur].attempts
         /\ mem'.trial[cur].ingested = mem.trial[cur].ingested
         /\ mem'.trial[cur].key = mem.trial[cur].key
<1>1. mem \in RunStateType /\ cur \in Trials /\ outcome \in TrialStatus
  BY RunLoopAssumption DEF TypeOK, ControlInv, InFlight, SettleScored, Step, Scored, TrialStatus
<1>2. mem' = [mem EXCEPT !.trial[cur].status = outcome]
  BY DEF SettleScored
<1> QED
  BY ONLY <1>1, <1>2 DEF RunStateType, TrialState

LEMMA SettleInfraFacts ==
  ASSUME TypeOK, ControlInv, SettleInfra
  PROVE  /\ cur \in Trials
         /\ mem' \in RunStateType
         /\ mem'.status = mem.status /\ mem'.cost = mem.cost /\ mem'.reported = mem.reported
         /\ \A u \in Trials \ {cur} : mem'.trial[u] = mem.trial[u]
         /\ mem'.trial[cur].status = InfraStatus(try)
         /\ mem'.trial[cur].attempts = mem.trial[cur].attempts
         /\ mem'.trial[cur].ingested = mem.trial[cur].ingested
         /\ mem'.trial[cur].key = mem.trial[cur].key
<1>1. mem \in RunStateType /\ cur \in Trials /\ InfraStatus(try) \in TrialStatus
  BY RunLoopAssumption DEF TypeOK, ControlInv, InFlight, SettleInfra, Step, InfraStatus, TrialStatus
<1>2. mem' = [mem EXCEPT !.trial[cur].status = InfraStatus(try)]
  BY DEF SettleInfra
<1> QED
  BY ONLY <1>1, <1>2 DEF RunStateType, TrialState

LEMMA SettleAuthFacts ==
  ASSUME TypeOK, ControlInv, SettleAuth
  PROVE  /\ cur \in Trials
         /\ mem' \in RunStateType
         /\ mem'.status = mem.status /\ mem'.cost = mem.cost /\ mem'.reported = mem.reported
         /\ \A u \in Trials \ {cur} : mem'.trial[u] = mem.trial[u]
         /\ mem'.trial[cur].status = "auth_error_paused"
         /\ mem'.trial[cur].attempts = mem.trial[cur].attempts
         /\ mem'.trial[cur].ingested = mem.trial[cur].ingested
         /\ mem'.trial[cur].key = mem.trial[cur].key
<1>1. mem \in RunStateType /\ cur \in Trials /\ "auth_error_paused" \in TrialStatus
  BY RunLoopAssumption DEF TypeOK, ControlInv, InFlight, SettleAuth, Step, TrialStatus
<1>2. mem' = [mem EXCEPT !.trial[cur].status = "auth_error_paused"]
  BY DEF SettleAuth
<1> QED
  BY ONLY <1>1, <1>2 DEF RunStateType, TrialState

LEMMA SettleUnknownFacts ==
  ASSUME TypeOK, ControlInv, SettleUnknown
  PROVE  /\ cur \in Trials
         /\ mem' \in RunStateType
         /\ mem'.status = mem.status /\ mem'.cost = mem.cost /\ mem'.reported = mem.reported
         /\ \A u \in Trials \ {cur} : mem'.trial[u] = mem.trial[u]
         /\ mem'.trial[cur].status = "unknown_paused"
         /\ mem'.trial[cur].attempts = mem.trial[cur].attempts
         /\ mem'.trial[cur].ingested = mem.trial[cur].ingested
         /\ mem'.trial[cur].key = mem.trial[cur].key
<1>1. mem \in RunStateType /\ cur \in Trials /\ "unknown_paused" \in TrialStatus
  BY RunLoopAssumption DEF TypeOK, ControlInv, InFlight, SettleUnknown, Step, TrialStatus
<1>2. mem' = [mem EXCEPT !.trial[cur].status = "unknown_paused"]
  BY DEF SettleUnknown
<1> QED
  BY ONLY <1>1, <1>2 DEF RunStateType, TrialState

LEMMA FlagIngestedFacts ==
  ASSUME TypeOK, ControlInv, FlagIngested
  PROVE  /\ cur \in Trials
         /\ mem' \in RunStateType
         /\ mem'.status = mem.status /\ mem'.cost = mem.cost /\ mem'.reported = mem.reported
         /\ \A u \in Trials \ {cur} : mem'.trial[u] = mem.trial[u]
         /\ mem'.trial[cur].ingested = TRUE
         /\ mem'.trial[cur].status = mem.trial[cur].status
         /\ mem'.trial[cur].attempts = mem.trial[cur].attempts
         /\ mem'.trial[cur].key = mem.trial[cur].key
<1>1. mem \in RunStateType /\ cur \in Trials
  BY RunLoopAssumption DEF TypeOK, ControlInv, InFlight, FlagIngested, Step
<1>2. mem' = [mem EXCEPT !.trial[cur].ingested = TRUE]
  BY DEF FlagIngested
<1> QED
  BY ONLY <1>1, <1>2 DEF RunStateType, TrialState

LEMMA RecordKeyFacts ==
  ASSUME TypeOK, ControlInv, RecordKey
  PROVE  /\ cur \in Trials
         /\ mem' \in RunStateType
         /\ mem'.status = mem.status /\ mem'.cost = mem.cost /\ mem'.reported = mem.reported
         /\ \A u \in Trials \ {cur} : mem'.trial[u] = mem.trial[u]
         /\ mem'.trial[cur].key = try
         /\ mem'.trial[cur].status = mem.trial[cur].status
         /\ mem'.trial[cur].attempts = mem.trial[cur].attempts
         /\ mem'.trial[cur].ingested = mem.trial[cur].ingested
<1>1. mem \in RunStateType /\ cur \in Trials /\ try \in Nat
  BY RunLoopAssumption DEF TypeOK, ControlInv, InFlight, RecordKey, Step
<1>2. mem' = [mem EXCEPT !.trial[cur].key = try]
  BY DEF RecordKey
<1> QED
  BY ONLY <1>1, <1>2 DEF RunStateType, TrialState

LEMMA EnterLoopFacts ==
  ASSUME TypeOK, EnterLoop
  PROVE  /\ mem' \in RunStateType
         /\ mem'.status = "running" /\ mem'.cost = mem.cost /\ mem'.reported = mem.reported
         /\ mem'.trial = Requeued(mem).trial
  BY RequeuedFacts, SetRunStatus DEF TypeOK, EnterLoop, RunStatus

-----------------------------------------------------------------------------
(* Types and control.                                                      *)

LEMMA ControlInit == Init => TypeOK /\ ControlInv
  BY NewStateType, RunLoopAssumption
  DEF Init, TypeOK, ControlInv, InFlight, PC, InTry, StopReason, NewState, NewTrial

LEMMA ControlStep == TypeOK /\ ControlInv /\ [Next]_vars => TypeOK' /\ ControlInv'
<1> SUFFICES ASSUME TypeOK, ControlInv, [Next]_vars
             PROVE  TypeOK' /\ ControlInv'
  OBVIOUS
<1> USE RunLoopAssumption DEF TypeOK, ControlInv, InFlight, Step, PC, InTry, StopReason,
        disks, locals, history
<1>1. CASE CreateManifest
  BY <1>1 DEF CreateManifest
<1>2. CASE WriteInitialState
  BY <1>2 DEF WriteInitialState
<1>3. CASE LogCreated
  BY <1>3 DEF LogCreated, AppendEvent, Event, EventType
<1>4. CASE Resume
  BY <1>4 DEF Resume
<1>5. CASE ResumeRefused
  BY <1>5 DEF ResumeRefused, vars
<1>6. CASE Regenerate
  BY <1>6 DEF Regenerate
<1>7. CASE EnterLoop
  BY <1>7, EnterLoopFacts DEF EnterLoop
<1>8. CASE NothingPending
  BY <1>8 DEF NothingPending
<1>9. CASE StopAtBudget
  BY <1>9 DEF StopAtBudget
<1>10. ASSUME NEW t \in Trials, StartTrial(t) PROVE TypeOK' /\ ControlInv'
  <2>1. mem' \in RunStateType
    BY <1>10, StartTrialFacts
  <2> QED
    BY <1>10, <2>1, FieldTypes DEF StartTrial
<1>10a. CASE WriteStarted
  BY <1>10a DEF WriteStarted
<1>11. CASE LogStarted
  BY <1>11 DEF LogStarted, AppendEvent, Event, EventType
<1>12. ASSUME NEW o \in Outcome, NEW c \in Costs, HarborReturns(o, c) PROVE TypeOK' /\ ControlInv'
  BY <1>12 DEF HarborReturns
<1>13. CASE RecordAttempt
  BY <1>13, RecordAttemptFacts DEF RecordAttempt
<1>14. CASE RecordCost
  BY <1>14, AddCost DEF RecordCost
<1>15. CASE SettleScored
  BY <1>15, SettleScoredFacts DEF SettleScored, Scored, TrialStatus
<1>16. CASE SettleInfra
  BY <1>16, SettleInfraFacts DEF SettleInfra, InfraStatus, TrialStatus
<1>17. CASE SettleAuth
  BY <1>17, SettleAuthFacts DEF SettleAuth, TrialStatus
<1>18. CASE SettleUnknown
  BY <1>18, SettleUnknownFacts DEF SettleUnknown, TrialStatus
<1>19. CASE IngestJob
  BY <1>19 DEF IngestJob, Upserted, Row
<1>20. CASE IngestFails
  BY <1>20 DEF IngestFails, Scored, TrialStatus
<1>21. CASE FlagIngested
  <2>1. mem' \in RunStateType /\ mem'.trial[cur].status = mem.trial[cur].status
    BY <1>21, FlagIngestedFacts
  <2> QED
    BY <1>21, <2>1 DEF FlagIngested
<1>22. CASE RecordKey
  BY <1>22, RecordKeyFacts DEF RecordKey, Scored, TrialStatus
<1>23. CASE WriteOutcome
  BY <1>23 DEF WriteOutcome
<1>24. CASE LogOutcome
  BY <1>24 DEF LogOutcome, AppendEvent, Event, EventType, OutcomeEvent, TrialStatus
<1>25. CASE Pause
  BY <1>25, SetRunStatus DEF Pause, RunStatus
<1>26. CASE LogPaused
  BY <1>26 DEF LogPaused, Exit, AppendEvent, Event, EventType
<1>27. CASE WriteFinalStatus
  BY <1>27, SetRunStatus DEF WriteFinalStatus, RunStatus, FinalStatus
<1>28. CASE CollectKeys
  BY <1>28, BackfilledFacts DEF CollectKeys
<1>29. CASE GenerateReports
  BY <1>29, SetReported DEF GenerateReports, KeyRows
<1>30. CASE WriteReportStatus
  BY <1>30 DEF WriteReportStatus
<1>31. CASE LogFinished
  BY <1>31 DEF LogFinished, Exit, AppendEvent, Event, EventType
<1>32. CASE Interrupt
  BY <1>32 DEF Interrupt
<1>33. CASE InterruptUncaught
  BY <1>33 DEF InterruptUncaught, Exit
<1>34. CASE Crash
  BY <1>34 DEF Crash, Exit
<1>35. CASE UNCHANGED vars
  BY <1>35 DEF vars
<1> QED
  BY <1>1, <1>2, <1>3, <1>4, <1>5, <1>6, <1>7, <1>8, <1>9, <1>10, <1>10a, <1>11, <1>12, <1>13,
     <1>14, <1>15, <1>16, <1>17, <1>18, <1>19, <1>20, <1>21, <1>22, <1>23, <1>24, <1>25,
     <1>26, <1>27, <1>28, <1>29, <1>30, <1>31, <1>32, <1>33, <1>34, <1>35 DEF Next,
     Process, Round, Operator, Fault

\* Every reachable state is well typed: in particular state.json only ever
\* holds one of the documented statuses for the run and for each trial.
THEOREM TypeInvariant == Spec => []TypeOK
<1>1. TypeOK /\ ControlInv /\ [Next]_vars => (TypeOK /\ ControlInv)'
  BY ControlStep
<1> QED
  BY <1>1, ControlInit, PTL DEF Spec

-----------------------------------------------------------------------------
(* Memory and state.json.                                                  *)

\* How a trial in memory and the same trial in state.json can differ.
LEMMA UnsavedFacts ==
  ASSUME TypeOK, OnlyInFlightUnsaved, NEW t \in Trials
  PROVE  /\ t # cur => mem.trial[t] = disk.trial[t]
         /\ disk.trial[t].status # "running" =>
              /\ mem.trial[t].attempts = disk.trial[t].attempts
              /\ mem.trial[t].ingested = disk.trial[t].ingested
              /\ mem.trial[t].key = disk.trial[t].key
              /\ \/ mem.trial[t].status = disk.trial[t].status
                 \/ mem.trial[t].status = "running" /\ disk.trial[t].status \in Waiting
<1>1. disk.trial[t] \in TrialState
  BY FieldTypes DEF TypeOK
<1>2. CASE mem.trial[t] = disk.trial[t]
  BY <1>2
<1>3. CASE mem.trial[t] = [disk.trial[t] EXCEPT !.status = "running"]
  BY <1>1, <1>3 DEF OnlyInFlightUnsaved, TrialState
<1> QED
  BY <1>2, <1>3 DEF OnlyInFlightUnsaved

LEMMA SyncInit == Init => SyncInv
  BY DEF Init, SyncInv, OnlyInFlightUnsaved, AtMostOneRunning, Ahead, InTry, InFlight,
     NewState, NewTrial, Finished

LEMMA SyncStep ==
  TypeOK /\ ControlInv /\ SyncInv /\ [Next]_vars => SyncInv'
<1> SUFFICES ASSUME TypeOK, ControlInv, SyncInv, [Next]_vars
             PROVE  SyncInv'
  OBVIOUS
<1> USE DEF SyncInv, OnlyInFlightUnsaved, AtMostOneRunning, Finished, Ahead, InTry, InFlight,
        Step, disks, locals, history
<1>1. CASE CreateManifest
  BY <1>1 DEF CreateManifest
<1>2. CASE WriteInitialState
  BY <1>2 DEF WriteInitialState
<1>3. CASE LogCreated
  BY <1>3 DEF LogCreated
<1>4. CASE Resume
  BY <1>4 DEF Resume, ControlInv
<1>5. CASE ResumeRefused
  BY <1>5 DEF ResumeRefused, vars
<1>6. CASE Regenerate
  BY <1>6 DEF Regenerate, ControlInv
<1>7. CASE EnterLoop
  BY <1>7, EnterLoopFacts, RequeuedFacts DEF EnterLoop, TypeOK, ControlInv
<1>8. CASE NothingPending
  BY <1>8, FieldTypes DEF NothingPending, TypeOK, ControlInv, PendingTrials, Settled
<1>9. CASE StopAtBudget
  BY <1>9 DEF StopAtBudget
<1>10. ASSUME NEW t \in Trials, StartTrial(t) PROVE SyncInv'
  <2>1. /\ pc = "loop" /\ pc' = "starting" /\ cur' = t /\ mem = disk /\ disk' = disk
        /\ files' = files /\ disk.trial[t].status \in Waiting
    BY <1>10 DEF StartTrial, IsNext, PendingTrials
  <2>2. /\ mem'.status = mem.status /\ mem'.cost = mem.cost /\ mem'.reported = mem.reported
        /\ \A u \in Trials \ {t} : mem'.trial[u] = mem.trial[u]
        /\ mem'.trial[t] = [mem.trial[t] EXCEPT !.status = "running"]
        /\ mem'.trial[t].status = "running"
    BY <1>10, StartTrialFacts
  <2>3. disk.cost \in Nat
    BY FieldTypes DEF TypeOK
  <2> QED
    BY <2>1, <2>2, <2>3
<1>10a. CASE WriteStarted
  <2>1. /\ pc = "starting" /\ pc' = "started" /\ disk' = mem /\ mem' = mem
        /\ files' = files /\ cur' = cur /\ cur \in Trials
    BY <1>10a DEF WriteStarted, ControlInv
  <2>2. /\ mem.trial[cur].status = "running"
        /\ \A u \in Trials \ {cur} : mem.trial[u] = disk.trial[u] /\ disk.trial[u].status # "running"
        /\ mem.status = disk.status /\ disk.status = "running" /\ files = "state"
    BY <2>1
  <2>3. mem.cost \in Nat
    BY FieldTypes DEF TypeOK
  <2> QED
    BY <2>1, <2>2, <2>3
<1>11. CASE LogStarted
  BY <1>11 DEF LogStarted
<1>12. ASSUME NEW o \in Outcome, NEW c \in Costs, HarborReturns(o, c) PROVE SyncInv'
  BY <1>12 DEF HarborReturns
<1>13. CASE RecordAttempt
  BY <1>13, RecordAttemptFacts DEF RecordAttempt, ControlInv
<1>14. CASE RecordCost
  BY <1>14, AddCost, FieldTypes DEF RecordCost, TypeOK, ControlInv
<1>15. CASE SettleScored
  BY <1>15, SettleScoredFacts DEF SettleScored
<1>16. CASE SettleInfra
  BY <1>16, SettleInfraFacts DEF SettleInfra
<1>17. CASE SettleAuth
  BY <1>17, SettleAuthFacts DEF SettleAuth
<1>18. CASE SettleUnknown
  BY <1>18, SettleUnknownFacts DEF SettleUnknown
<1>19. CASE IngestJob
  BY <1>19 DEF IngestJob
<1>20. CASE IngestFails
  BY <1>20 DEF IngestFails
<1>21. CASE FlagIngested
  BY <1>21, FlagIngestedFacts DEF FlagIngested
<1>22. CASE RecordKey
  BY <1>22, RecordKeyFacts DEF RecordKey
<1>23. CASE WriteOutcome
  <2>1. /\ pc = "settled" /\ pc' = "recorded" /\ disk' = mem /\ mem' = mem
        /\ files' = files /\ cur' = cur /\ cur \in Trials
        /\ mem.trial[cur].status \in TrialStatus \ {"pending", "running"}
    BY <1>23 DEF WriteOutcome, ControlInv
  <2>2. /\ \A u \in Trials \ {cur} : mem.trial[u] = disk.trial[u] /\ disk.trial[u].status # "running"
        /\ mem.status = disk.status /\ disk.status = "running" /\ files = "state"
    BY <2>1
  <2>3. mem.cost \in Nat
    BY FieldTypes DEF TypeOK
  <2> QED
    BY <2>1, <2>2, <2>3
<1>24. CASE LogOutcome
  BY <1>24 DEF LogOutcome, ControlInv
<1>25. CASE Pause
  <2>1. /\ pc = "pausing" /\ pc' = "paused" /\ disk' = mem' /\ files' = files /\ files = "state"
    BY <1>25 DEF Pause
  <2>2. /\ mem' \in RunStateType /\ mem'.status = "paused" /\ mem'.trial = mem.trial
        /\ mem'.cost \in Nat
    BY <1>25, SetRunStatus, FieldTypes DEF Pause, TypeOK, RunStatus
  <2>3. \A t, u \in Trials :
          mem.trial[t].status = "running" /\ mem.trial[u].status = "running" => t = u
    BY <2>1
  <2> QED
    BY <2>1, <2>2, <2>3
<1>26. CASE LogPaused
  BY <1>26 DEF LogPaused, Exit
<1>27. CASE WriteFinalStatus
  BY <1>27, SetRunStatus DEF WriteFinalStatus, TypeOK, ControlInv, RunStatus,
     FinalStatus
<1>28. CASE CollectKeys
  BY <1>28, BackfilledFacts DEF CollectKeys, TypeOK, ControlInv
<1>29. CASE GenerateReports
  BY <1>29, SetReported DEF GenerateReports, TypeOK, ControlInv
<1>30. CASE WriteReportStatus
  BY <1>30, FieldTypes DEF WriteReportStatus, TypeOK, ControlInv
<1>31. CASE LogFinished
  BY <1>31 DEF LogFinished, Exit
<1>32. CASE Interrupt
  BY <1>32 DEF Interrupt
<1>33. CASE InterruptUncaught
  BY <1>33, FieldTypes DEF InterruptUncaught, Exit, TypeOK, ControlInv
<1>34. CASE Crash
  BY <1>34, FieldTypes DEF Crash, Exit, TypeOK, ControlInv
<1>35. CASE UNCHANGED vars
  BY <1>35 DEF vars
<1> QED
  BY <1>1, <1>2, <1>3, <1>4, <1>5, <1>6, <1>7, <1>8, <1>9, <1>10, <1>10a, <1>11, <1>12, <1>13,
     <1>14, <1>15, <1>16, <1>17, <1>18, <1>19, <1>20, <1>21, <1>22, <1>23, <1>24, <1>25,
     <1>26, <1>27, <1>28, <1>29, <1>30, <1>31, <1>32, <1>33, <1>34, <1>35 DEF Next,
     Process, Round, Operator, Fault

-----------------------------------------------------------------------------
(* Attempts.                                                               *)

LEMMA AttemptInit == Init => AttemptInv
  BY DEF Init, AttemptInv, NewState, NewTrial

LEMMA AttemptStep ==
  TypeOK /\ ControlInv /\ SyncInv /\ AttemptInv /\ [Next]_vars => AttemptInv'
<1> SUFFICES ASSUME TypeOK, ControlInv, SyncInv, AttemptInv, [Next]_vars
             PROVE  AttemptInv'
  OBVIOUS
<1> USE DEF AttemptInv, TypeOK, ControlInv, SyncInv, Ahead, InTry, InFlight, Step, disks,
        locals, history
<1>1. CASE CreateManifest
  BY <1>1 DEF CreateManifest
<1>2. CASE WriteInitialState
  BY <1>2 DEF WriteInitialState
<1>3. CASE LogCreated
  BY <1>3 DEF LogCreated
<1>4. CASE Resume
  BY <1>4 DEF Resume
<1>5. CASE ResumeRefused
  BY <1>5 DEF ResumeRefused, vars
<1>6. CASE Regenerate
  BY <1>6 DEF Regenerate
<1>7. CASE EnterLoop
  BY <1>7, EnterLoopFacts, RequeuedFacts, FieldTypes DEF EnterLoop
<1>8. CASE NothingPending
  BY <1>8 DEF NothingPending
<1>9. CASE StopAtBudget
  BY <1>9 DEF StopAtBudget
<1>10. ASSUME NEW t \in Trials, StartTrial(t) PROVE AttemptInv'
  BY <1>10, StartTrialFacts, FieldTypes DEF StartTrial
<1>10a. CASE WriteStarted
  <2>1. mem.trial[cur].attempts = disk.trial[cur].attempts
    BY <1>10a, UnsavedFacts DEF WriteStarted, Waiting
  <2> QED
    BY <1>10a, <2>1, FieldTypes DEF WriteStarted
<1>11. CASE LogStarted
  BY <1>11 DEF LogStarted
<1>12. ASSUME NEW o \in Outcome, NEW c \in Costs, HarborReturns(o, c) PROVE AttemptInv'
  BY <1>12 DEF HarborReturns
<1>13. CASE RecordAttempt
  BY <1>13, RecordAttemptFacts, FieldTypes DEF RecordAttempt
<1>14. CASE RecordCost
  BY <1>14, AddCost, FieldTypes DEF RecordCost
<1>15. CASE SettleScored
  BY <1>15, SettleScoredFacts, FieldTypes DEF SettleScored
<1>16. CASE SettleInfra
  BY <1>16, SettleInfraFacts, FieldTypes DEF SettleInfra
<1>17. CASE SettleAuth
  BY <1>17, SettleAuthFacts, FieldTypes DEF SettleAuth
<1>18. CASE SettleUnknown
  BY <1>18, SettleUnknownFacts, FieldTypes DEF SettleUnknown
<1>19. CASE IngestJob
  BY <1>19 DEF IngestJob
<1>20. CASE IngestFails
  BY <1>20 DEF IngestFails
<1>21. CASE FlagIngested
  BY <1>21, FlagIngestedFacts, FieldTypes DEF FlagIngested
<1>22. CASE RecordKey
  BY <1>22, RecordKeyFacts, FieldTypes DEF RecordKey
<1>23. CASE WriteOutcome
  BY <1>23, FieldTypes DEF WriteOutcome
<1>24. CASE LogOutcome
  BY <1>24 DEF LogOutcome
<1>25. CASE Pause
  BY <1>25, SetRunStatus, FieldTypes DEF Pause, RunStatus
<1>26. CASE LogPaused
  BY <1>26, FieldTypes DEF LogPaused, Exit
<1>27. CASE WriteFinalStatus
  BY <1>27, SetRunStatus, FieldTypes DEF WriteFinalStatus, RunStatus, FinalStatus
<1>28. CASE CollectKeys
  BY <1>28, BackfilledFacts, FieldTypes DEF CollectKeys
<1>29. CASE GenerateReports
  BY <1>29, SetReported, FieldTypes DEF GenerateReports
<1>30. CASE WriteReportStatus
  BY <1>30, FieldTypes DEF WriteReportStatus
<1>31. CASE LogFinished
  BY <1>31, FieldTypes DEF LogFinished, Exit
<1>32. CASE Interrupt
  BY <1>32 DEF Interrupt
<1>33. CASE InterruptUncaught
  BY <1>33, FieldTypes DEF InterruptUncaught, Exit
<1>34. CASE Crash
  BY <1>34, FieldTypes DEF Crash, Exit
<1>35. CASE UNCHANGED vars
  BY <1>35 DEF vars
<1> QED
  BY <1>1, <1>2, <1>3, <1>4, <1>5, <1>6, <1>7, <1>8, <1>9, <1>10, <1>10a, <1>11, <1>12, <1>13,
     <1>14, <1>15, <1>16, <1>17, <1>18, <1>19, <1>20, <1>21, <1>22, <1>23, <1>24, <1>25,
     <1>26, <1>27, <1>28, <1>29, <1>30, <1>31, <1>32, <1>33, <1>34, <1>35 DEF Next,
     Process, Round, Operator, Fault

LEMMA RetryInit == Init => RetryInv
  BY RunLoopAssumption DEF Init, RetryInv, NewState, NewTrial

LEMMA RetryStep ==
  TypeOK /\ ControlInv /\ SyncInv /\ AttemptInv /\ RetryInv /\ [Next]_vars => RetryInv'
<1> SUFFICES ASSUME TypeOK, ControlInv, SyncInv, AttemptInv, RetryInv, [Next]_vars
             PROVE  RetryInv'
  OBVIOUS
<1> USE RunLoopAssumption DEF RetryInv, AttemptInv, TypeOK, ControlInv, SyncInv,
        OnlyInFlightUnsaved, Ahead, InTry, InFlight, Step, disks, locals, history, Waiting
<1>1. CASE CreateManifest
  BY <1>1 DEF CreateManifest
<1>2. CASE WriteInitialState
  BY <1>2 DEF WriteInitialState
<1>3. CASE LogCreated
  BY <1>3 DEF LogCreated
<1>4. CASE Resume
  BY <1>4 DEF Resume
<1>5. CASE ResumeRefused
  BY <1>5 DEF ResumeRefused, vars
<1>6. CASE Regenerate
  BY <1>6 DEF Regenerate
<1>7. CASE EnterLoop
  BY <1>7, EnterLoopFacts, RequeuedFacts, FieldTypes DEF EnterLoop
<1>8. CASE NothingPending
  BY <1>8 DEF NothingPending
<1>9. CASE StopAtBudget
  BY <1>9 DEF StopAtBudget
<1>10. ASSUME NEW t \in Trials, StartTrial(t) PROVE RetryInv'
  BY <1>10, StartTrialFacts, FieldTypes DEF StartTrial, IsNext, PendingTrials
<1>10a. CASE WriteStarted
  <2>1. \A t \in Trials :
          /\ mem.trial[t].attempts = disk.trial[t].attempts
          /\ \/ mem.trial[t].status = disk.trial[t].status
             \/ disk.trial[t].status \in Waiting
    BY <1>10a, UnsavedFacts DEF WriteStarted
  <2>2. pc' = "started" /\ disk' = mem /\ mem' = mem /\ faults' = faults
    BY <1>10a DEF WriteStarted
  <2> QED
    BY <2>1, <2>2
<1>11. CASE LogStarted
  BY <1>11 DEF LogStarted
<1>12. ASSUME NEW o \in Outcome, NEW c \in Costs, HarborReturns(o, c) PROVE RetryInv'
  BY <1>12 DEF HarborReturns
<1>13. CASE RecordAttempt
  BY <1>13, RecordAttemptFacts, FieldTypes DEF RecordAttempt
<1>14. CASE RecordCost
  BY <1>14, AddCost, FieldTypes DEF RecordCost
<1>15. CASE SettleScored
  BY <1>15, SettleScoredFacts, FieldTypes DEF SettleScored, Scored
<1>16. CASE SettleInfra
  BY <1>16, SettleInfraFacts, FieldTypes DEF SettleInfra, InfraStatus
<1>17. CASE SettleAuth
  BY <1>17, SettleAuthFacts, FieldTypes DEF SettleAuth
<1>18. CASE SettleUnknown
  BY <1>18, SettleUnknownFacts, FieldTypes DEF SettleUnknown
<1>19. CASE IngestJob
  BY <1>19 DEF IngestJob
<1>20. CASE IngestFails
  BY <1>20, FieldTypes DEF IngestFails, Scored
<1>21. CASE FlagIngested
  BY <1>21, FlagIngestedFacts, FieldTypes DEF FlagIngested
<1>22. CASE RecordKey
  BY <1>22, RecordKeyFacts, FieldTypes DEF RecordKey, Scored
<1>23. CASE WriteOutcome
  <2>1. /\ pc = "settled" /\ pc' = "recorded" /\ disk' = mem /\ mem' = mem /\ faults' = faults
        /\ cur \in Trials /\ mem.trial[cur].status \in TrialStatus \ {"pending", "running"}
        /\ disk.trial[cur].status = "running"
        /\ mem.trial[cur].attempts = disk.trial[cur].attempts + 1
        /\ try = mem.trial[cur].attempts
    BY <1>23 DEF WriteOutcome
  <2>2. \A u \in Trials \ {cur} : mem.trial[u] = disk.trial[u]
    BY UnsavedFacts
  <2>3. \A u \in Trials : disk.trial[u].attempts \in Nat /\ mem.trial[u].attempts \in Nat
    BY FieldTypes
  <2> QED
    BY <2>1, <2>2, <2>3
<1>24. CASE LogOutcome
  BY <1>24 DEF LogOutcome, OutcomeEvent
<1>25. CASE Pause
  BY <1>25, SetRunStatus, FieldTypes DEF Pause, RunStatus
<1>26. CASE LogPaused
  BY <1>26, FieldTypes DEF LogPaused, Exit
<1>27. CASE WriteFinalStatus
  BY <1>27, SetRunStatus, FieldTypes DEF WriteFinalStatus, RunStatus, FinalStatus
<1>28. CASE CollectKeys
  BY <1>28, BackfilledFacts, FieldTypes DEF CollectKeys
<1>29. CASE GenerateReports
  BY <1>29, SetReported, FieldTypes DEF GenerateReports
<1>30. CASE WriteReportStatus
  BY <1>30, FieldTypes DEF WriteReportStatus
<1>31. CASE LogFinished
  BY <1>31, FieldTypes DEF LogFinished, Exit
<1>32. CASE Interrupt
  <2>1. /\ pc \in InTry /\ pc' = "pausing" /\ disk' = disk /\ mem' = mem
        /\ faults \in Nat /\ faults' = faults + 1
    BY <1>32 DEF Interrupt
  <2>2. ASSUME NEW t \in Trials
        PROVE  /\ mem.trial[t].attempts <= MaxInfraRetries + 1 + faults'
               /\ mem.trial[t].status \in Waiting \cup {"running"} =>
                    mem.trial[t].attempts <= MaxInfraRetries + faults'
    <3>1. disk.trial[t].attempts \in Nat /\ mem.trial[t].attempts \in Nat
      BY FieldTypes
    <3>2. CASE mem.trial[t] = disk.trial[t] \/ disk.trial[t].status # "running"
      BY <2>1, <3>1, <3>2, UnsavedFacts
    <3>3. CASE t = cur /\ disk.trial[t].status = "running"
      BY <2>1, <3>1, <3>3
    <3> QED
      BY <3>2, <3>3, UnsavedFacts
  <2>3. \A t \in Trials : disk.trial[t].attempts \in Nat
    BY FieldTypes
  <2> QED
    BY <2>1, <2>2, <2>3
<1>33. CASE InterruptUncaught
  BY <1>33, FieldTypes DEF InterruptUncaught, Exit
<1>34. CASE Crash
  BY <1>34, FieldTypes DEF Crash, Exit
<1>35. CASE UNCHANGED vars
  BY <1>35 DEF vars
<1> QED
  BY <1>1, <1>2, <1>3, <1>4, <1>5, <1>6, <1>7, <1>8, <1>9, <1>10, <1>10a, <1>11, <1>12, <1>13,
     <1>14, <1>15, <1>16, <1>17, <1>18, <1>19, <1>20, <1>21, <1>22, <1>23, <1>24, <1>25,
     <1>26, <1>27, <1>28, <1>29, <1>30, <1>31, <1>32, <1>33, <1>34, <1>35 DEF Next,
     Process, Round, Operator, Fault

-----------------------------------------------------------------------------
(* Money.                                                                  *)

LEMMA CostInit == Init => CostInv
  BY DEF Init, CostInv, NewState

LEMMA CostStep ==
  TypeOK /\ ControlInv /\ SyncInv /\ CostInv /\ [Next]_vars => CostInv'
<1> SUFFICES ASSUME TypeOK, ControlInv, SyncInv, CostInv, [Next]_vars
             PROVE  CostInv'
  OBVIOUS
<1> USE RunLoopAssumption DEF CostInv, TypeOK, ControlInv, SyncInv, Ahead, InTry, InFlight,
        Step, disks, locals, history
<1>1. CASE CreateManifest
  BY <1>1 DEF CreateManifest
<1>2. CASE WriteInitialState
  BY <1>2 DEF WriteInitialState
<1>3. CASE LogCreated
  BY <1>3 DEF LogCreated
<1>4. CASE Resume
  BY <1>4 DEF Resume
<1>5. CASE ResumeRefused
  BY <1>5 DEF ResumeRefused, vars
<1>6. CASE Regenerate
  BY <1>6 DEF Regenerate
<1>7. CASE EnterLoop
  BY <1>7, EnterLoopFacts, FieldTypes DEF EnterLoop
<1>8. CASE NothingPending
  BY <1>8 DEF NothingPending
<1>9. CASE StopAtBudget
  BY <1>9 DEF StopAtBudget
<1>10. ASSUME NEW t \in Trials, StartTrial(t) PROVE CostInv'
  BY <1>10, StartTrialFacts, FieldTypes DEF StartTrial, BudgetReached
<1>10a. CASE WriteStarted
  BY <1>10a, FieldTypes DEF WriteStarted
<1>11. CASE LogStarted
  BY <1>11 DEF LogStarted
<1>12. ASSUME NEW o \in Outcome, NEW c \in Costs, HarborReturns(o, c) PROVE CostInv'
  <2>1. c \in Nat /\ mem.cost \in Nat /\ billed \in Nat
    BY FieldTypes
  <2>2. /\ pc = "harbor" /\ pc' = "classified" /\ cost' = c /\ billed' = billed + c
        /\ mem' = mem /\ faults' = faults
    BY <1>12 DEF HarborReturns
  <2>3. mem.cost <= billed /\ mem.cost < MaxBudget /\ (faults = 0 => billed = mem.cost)
    BY <2>2
  <2> QED
    BY <2>1, <2>2, <2>3
<1>13. CASE RecordAttempt
  BY <1>13, RecordAttemptFacts, FieldTypes DEF RecordAttempt
<1>14. CASE RecordCost
  BY <1>14, AddCost, FieldTypes DEF RecordCost
<1>15. CASE SettleScored
  BY <1>15, SettleScoredFacts, FieldTypes DEF SettleScored
<1>16. CASE SettleInfra
  BY <1>16, SettleInfraFacts, FieldTypes DEF SettleInfra
<1>17. CASE SettleAuth
  BY <1>17, SettleAuthFacts, FieldTypes DEF SettleAuth
<1>18. CASE SettleUnknown
  BY <1>18, SettleUnknownFacts, FieldTypes DEF SettleUnknown
<1>19. CASE IngestJob
  BY <1>19 DEF IngestJob
<1>20. CASE IngestFails
  BY <1>20 DEF IngestFails
<1>21. CASE FlagIngested
  BY <1>21, FlagIngestedFacts, FieldTypes DEF FlagIngested
<1>22. CASE RecordKey
  BY <1>22, RecordKeyFacts, FieldTypes DEF RecordKey
<1>23. CASE WriteOutcome
  BY <1>23, FieldTypes DEF WriteOutcome
<1>24. CASE LogOutcome
  BY <1>24 DEF LogOutcome
<1>25. CASE Pause
  BY <1>25, SetRunStatus, FieldTypes DEF Pause, RunStatus
<1>26. CASE LogPaused
  BY <1>26, FieldTypes DEF LogPaused, Exit
<1>27. CASE WriteFinalStatus
  BY <1>27, SetRunStatus, FieldTypes DEF WriteFinalStatus, RunStatus, FinalStatus
<1>28. CASE CollectKeys
  BY <1>28, BackfilledFacts, FieldTypes DEF CollectKeys
<1>29. CASE GenerateReports
  BY <1>29, SetReported, FieldTypes DEF GenerateReports
<1>30. CASE WriteReportStatus
  BY <1>30, FieldTypes DEF WriteReportStatus
<1>31. CASE LogFinished
  BY <1>31, FieldTypes DEF LogFinished, Exit
<1>32. CASE Interrupt
  BY <1>32 DEF Interrupt
<1>33. CASE InterruptUncaught
  BY <1>33, FieldTypes DEF InterruptUncaught, Exit
<1>34. CASE Crash
  BY <1>34, FieldTypes DEF Crash, Exit
<1>35. CASE UNCHANGED vars
  BY <1>35 DEF vars
<1> QED
  BY <1>1, <1>2, <1>3, <1>4, <1>5, <1>6, <1>7, <1>8, <1>9, <1>10, <1>10a, <1>11, <1>12, <1>13,
     <1>14, <1>15, <1>16, <1>17, <1>18, <1>19, <1>20, <1>21, <1>22, <1>23, <1>24, <1>25,
     <1>26, <1>27, <1>28, <1>29, <1>30, <1>31, <1>32, <1>33, <1>34, <1>35 DEF Next,
     Process, Round, Operator, Fault

-----------------------------------------------------------------------------
(* events.jsonl.                                                           *)

\* The names of the events that end a trial differ from each other and from
\* those of all other events.
LEMMA OutcomeEventNames ==
  /\ \A r, s \in Settled \cup {"infra_invalid_retry_scheduled"} :
       OutcomeEvent[r] = OutcomeEvent[s] => r = s
  /\ \A s \in Settled \cup {"infra_invalid_retry_scheduled"} :
       OutcomeEvent[s] \notin {"run_created", "trial_started", "run_paused", "run_finished",
                              "reports_regenerated"}
  /\ OutcomeEvent["infra_invalid_retry_scheduled"] = "trial_infra_retry"
  BY DEF OutcomeEvent, Settled, TrialStatus, Waiting

\* What the log says stays true as long as settled trials keep their status and
\* their attempts, attempts grow, and a finished run stays finished.
LEMMA LogKept ==
  ASSUME TypeOK, TypeOK', LogInv, log' = log,
         \A t \in Trials :
           /\ disk.trial[t].attempts <= disk'.trial[t].attempts
           /\ disk.trial[t].status \in Settled =>
                /\ disk'.trial[t].status = disk.trial[t].status
                /\ disk'.trial[t].attempts = disk.trial[t].attempts,
         Finished(disk) => Finished(disk')
  PROVE  LogInv'
<1> USE DEF LogInv, LoggedIsDurable
<1>1. ASSUME NEW e \in log, NEW s \in Settled, e.type = OutcomeEvent[s]
      PROVE  disk'.trial[e.trial].status = s /\ disk'.trial[e.trial].attempts = e.try
  BY <1>1
<1>2. ASSUME NEW e \in log, e.type = "trial_infra_retry"
      PROVE  disk'.trial[e.trial].attempts >= e.try
  <2>1. e.trial \in Trials /\ e.try \in Nat /\ disk.trial[e.trial].attempts >= e.try
    BY <1>2, OutcomeEventNames DEF TypeOK, Event
  <2> QED
    BY <2>1, FieldTypes DEF TypeOK
<1> QED
  BY <1>1, <1>2

\* An event that does not end a trial may be logged at any time, except that
\* run_finished needs a finished run.
LEMMA LogGrows ==
  ASSUME LogInv, disk' = disk,
         NEW type \in {"run_created", "trial_started", "run_paused", "run_finished",
                       "reports_regenerated"},
         NEW t, NEW n, AppendEvent(type, t, n),
         type = "run_finished" => Finished(disk)
  PROVE  LogInv'
<1>1. \A e \in log' : e \in log \/ e.type = type
  BY DEF AppendEvent
<1> QED
  BY <1>1, OutcomeEventNames DEF LogInv, LoggedIsDurable

LEMMA LogInit == Init => LogInv
  BY DEF Init, LogInv, LoggedIsDurable

LEMMA LogStep ==
  TypeOK /\ ControlInv /\ SyncInv /\ AttemptInv /\ LogInv /\ [Next]_vars => LogInv'
<1> SUFFICES ASSUME TypeOK, ControlInv, SyncInv, AttemptInv, LogInv, [Next]_vars
             PROVE  LogInv'
  OBVIOUS
<1> TypeOK'
  BY ControlStep
<1>0. /\ mem \in RunStateType
      /\ \A t \in Trials : disk.trial[t].attempts \in Nat /\ mem.trial[t].attempts \in Nat
  BY FieldTypes DEF TypeOK
<1> USE <1>0 DEF ControlInv, SyncInv, OnlyInFlightUnsaved, AttemptInv, Finished, Ahead, InTry,
        InFlight, Step, disks, locals, history
<1>1. CASE CreateManifest
  BY <1>1, LogKept DEF CreateManifest
<1>2. CASE WriteInitialState
  BY <1>2, LogKept DEF WriteInitialState
<1>3. CASE LogCreated
  BY <1>3, LogGrows DEF LogCreated
<1>4. CASE Resume
  BY <1>4, LogKept DEF Resume
<1>5. CASE ResumeRefused
  BY <1>5, LogKept DEF ResumeRefused, vars
<1>6. CASE Regenerate
  BY <1>6, LogKept DEF Regenerate
<1>7. CASE EnterLoop
  BY <1>7, LogKept, EnterLoopFacts, RequeuedFacts DEF EnterLoop, Settled, Waiting
<1>8. CASE NothingPending
  BY <1>8, LogKept DEF NothingPending
<1>9. CASE StopAtBudget
  BY <1>9, LogKept DEF StopAtBudget
<1>10. ASSUME NEW t \in Trials, StartTrial(t) PROVE LogInv'
  BY <1>10, LogKept, StartTrialFacts DEF StartTrial, IsNext, PendingTrials, Settled
<1>10a. CASE WriteStarted
  BY <1>10a, LogKept DEF WriteStarted, Settled, Waiting
<1>11. CASE LogStarted
  BY <1>11, LogGrows DEF LogStarted
<1>12. ASSUME NEW o \in Outcome, NEW c \in Costs, HarborReturns(o, c) PROVE LogInv'
  BY <1>12, LogKept DEF HarborReturns
<1>13. CASE RecordAttempt
  BY <1>13, LogKept DEF RecordAttempt
<1>14. CASE RecordCost
  BY <1>14, LogKept DEF RecordCost
<1>15. CASE SettleScored
  BY <1>15, LogKept DEF SettleScored
<1>16. CASE SettleInfra
  BY <1>16, LogKept DEF SettleInfra
<1>17. CASE SettleAuth
  BY <1>17, LogKept DEF SettleAuth
<1>18. CASE SettleUnknown
  BY <1>18, LogKept DEF SettleUnknown
<1>19. CASE IngestJob
  BY <1>19, LogKept DEF IngestJob
<1>20. CASE IngestFails
  BY <1>20, LogKept DEF IngestFails
<1>21. CASE FlagIngested
  BY <1>21, LogKept DEF FlagIngested
<1>22. CASE RecordKey
  BY <1>22, LogKept DEF RecordKey
<1>23. CASE WriteOutcome
  BY <1>23, LogKept DEF WriteOutcome, Settled
<1>24. CASE LogOutcome
  <2>1. cur \in Trials /\ mem.trial[cur].status \in TrialStatus \ {"pending", "running"}
    BY <1>24 DEF LogOutcome
  <2>2. mem = disk /\ disk' = disk /\ disk.trial[cur].attempts = try
    BY <1>24 DEF LogOutcome
  <2>3. \A e \in log' :
          \/ e \in log
          \/ e = [type |-> OutcomeEvent[mem.trial[cur].status], trial |-> cur, try |-> try]
    BY <1>24 DEF LogOutcome, AppendEvent
  <2>4. mem.trial[cur].status \in Settled \cup {"infra_invalid_retry_scheduled"}
    BY <2>1 DEF Settled, Waiting
  <2> QED
    BY <2>1, <2>2, <2>3, <2>4, OutcomeEventNames DEF LogInv, LoggedIsDurable, Settled, Waiting
<1>25. CASE Pause
  <2>1. /\ disk' = mem' /\ log' = log /\ mem'.trial = mem.trial /\ ~Finished(disk)
    BY <1>25, SetRunStatus DEF Pause, RunStatus
  <2>2. ASSUME NEW t \in Trials
        PROVE  /\ disk.trial[t].attempts <= mem.trial[t].attempts
               /\ disk.trial[t].status \in Settled =>
                    /\ mem.trial[t].status = disk.trial[t].status
                    /\ mem.trial[t].attempts = disk.trial[t].attempts
    BY UnsavedFacts DEF Settled, Waiting
  <2> QED
    BY <2>1, <2>2, LogKept
<1>26. CASE LogPaused
  BY <1>26, LogGrows DEF LogPaused, Exit
<1>27. CASE WriteFinalStatus
  BY <1>27, LogKept, SetRunStatus DEF WriteFinalStatus, RunStatus, FinalStatus
<1>28. CASE CollectKeys
  BY <1>28, LogKept, BackfilledFacts DEF CollectKeys
<1>29. CASE GenerateReports
  BY <1>29, LogKept DEF GenerateReports
<1>30. CASE WriteReportStatus
  BY <1>30, LogKept DEF WriteReportStatus
<1>31. CASE LogFinished
  BY <1>31, LogGrows DEF LogFinished, Exit
<1>32. CASE Interrupt
  BY <1>32, LogKept DEF Interrupt
<1>33. CASE InterruptUncaught
  BY <1>33, LogKept DEF InterruptUncaught, Exit
<1>34. CASE Crash
  BY <1>34, LogKept DEF Crash, Exit
<1>35. CASE UNCHANGED vars
  BY <1>35, LogKept DEF vars
<1> QED
  BY <1>1, <1>2, <1>3, <1>4, <1>5, <1>6, <1>7, <1>8, <1>9, <1>10, <1>10a, <1>11, <1>12, <1>13,
     <1>14, <1>15, <1>16, <1>17, <1>18, <1>19, <1>20, <1>21, <1>22, <1>23, <1>24, <1>25,
     <1>26, <1>27, <1>28, <1>29, <1>30, <1>31, <1>32, <1>33, <1>34, <1>35 DEF Next,
     Process, Round, Operator, Fault

-----------------------------------------------------------------------------
(* The Phase 1 database.                                                   *)

LEMMA StoreInit == Init => StoreInv
  BY DEF Init, StoreInv, Agrees, NewState, NewTrial

\* A trial that is not ingested may change in memory.
LEMMA AgreesKept ==
  ASSUME StoreInv, ~mem.trial[cur].ingested, store' = store, disk' = disk,
         \A u \in Trials \ {cur} : mem'.trial[u] = mem.trial[u],
         ~mem'.trial[cur].ingested,
         mem'.trial[cur].key = mem.trial[cur].key
  PROVE  (\A t \in Trials : Agrees(disk.trial[t], t) /\ Agrees(mem.trial[t], t))'
  BY DEF StoreInv, Agrees, RowsOf

LEMMA StoreStep ==
  TypeOK /\ ControlInv /\ SyncInv /\ AttemptInv /\ StoreInv /\ [Next]_vars => StoreInv'
<1> SUFFICES ASSUME TypeOK, ControlInv, SyncInv, AttemptInv, StoreInv, [Next]_vars
             PROVE  StoreInv'
  OBVIOUS
<1> USE DEF StoreInv, Agrees, RowsOf, ControlInv, SyncInv, OnlyInFlightUnsaved, AttemptInv,
        Ahead, InFlight, Step, disks, locals, history
<1>1. CASE CreateManifest
  BY <1>1 DEF CreateManifest
<1>2. CASE WriteInitialState
  BY <1>2 DEF WriteInitialState
<1>3. CASE LogCreated
  BY <1>3 DEF LogCreated
<1>4. CASE Resume
  BY <1>4 DEF Resume
<1>5. CASE ResumeRefused
  BY <1>5 DEF ResumeRefused, vars
<1>6. CASE Regenerate
  BY <1>6 DEF Regenerate
<1>7. CASE EnterLoop
  BY <1>7, EnterLoopFacts, RequeuedFacts DEF EnterLoop, TypeOK, Scored
<1>8. CASE NothingPending
  BY <1>8 DEF NothingPending
<1>9. CASE StopAtBudget
  BY <1>9 DEF StopAtBudget
<1>10. ASSUME NEW t \in Trials, StartTrial(t) PROVE StoreInv'
  <2>1. /\ mem = disk /\ disk' = disk /\ store' = store /\ pc' = "starting"
        /\ mem.trial[t].status \in Waiting
    BY <1>10 DEF StartTrial, IsNext, PendingTrials
  <2>2. ~mem.trial[t].ingested /\ mem.trial[t].key = NoKey
    BY <2>1 DEF Waiting, Scored
  <2>3. /\ \A u \in Trials \ {t} : mem'.trial[u] = mem.trial[u]
        /\ mem'.trial[t].ingested = mem.trial[t].ingested
        /\ mem'.trial[t].key = mem.trial[t].key
    BY <1>10, StartTrialFacts
  <2>4. ~mem'.trial[t].ingested
    BY <2>2, <2>3
  <2> QED
    BY <2>1, <2>2, <2>3, <2>4
<1>10a. CASE WriteStarted
  BY <1>10a DEF WriteStarted
<1>11. CASE LogStarted
  BY <1>11 DEF LogStarted
<1>12. ASSUME NEW o \in Outcome, NEW c \in Costs, HarborReturns(o, c) PROVE StoreInv'
  BY <1>12 DEF HarborReturns, Scored
<1>13. CASE RecordAttempt
  <2>1. /\ ~mem.trial[cur].ingested /\ store' = store /\ disk' = disk /\ cur' = cur
        /\ pc' = "counted"
    BY <1>13 DEF RecordAttempt
  <2>2. /\ \A u \in Trials \ {cur} : mem'.trial[u] = mem.trial[u]
        /\ mem'.trial[cur].ingested = mem.trial[cur].ingested
        /\ mem'.trial[cur].key = mem.trial[cur].key
    BY <1>13, RecordAttemptFacts
  <2>3. ~mem'.trial[cur].ingested
    BY <2>1, <2>2
  <2> QED
    BY <2>1, <2>2, <2>3, AgreesKept
<1>14. CASE RecordCost
  BY <1>14, AddCost DEF RecordCost, TypeOK
<1>15. CASE SettleScored
  <2>1. /\ ~mem.trial[cur].ingested /\ store' = store /\ disk' = disk /\ cur' = cur
        /\ pc' = "scored"
    BY <1>15 DEF SettleScored
  <2>2. /\ \A u \in Trials \ {cur} : mem'.trial[u] = mem.trial[u]
        /\ mem'.trial[cur].ingested = mem.trial[cur].ingested
        /\ mem'.trial[cur].key = mem.trial[cur].key
    BY <1>15, SettleScoredFacts
  <2>3. ~mem'.trial[cur].ingested
    BY <2>1, <2>2
  <2> QED
    BY <2>1, <2>2, <2>3, AgreesKept
<1>16. CASE SettleInfra
  <2>1. /\ ~mem.trial[cur].ingested /\ store' = store /\ disk' = disk /\ cur' = cur
        /\ pc' = "settled"
    BY <1>16 DEF SettleInfra
  <2>2. /\ \A u \in Trials \ {cur} : mem'.trial[u] = mem.trial[u]
        /\ mem'.trial[cur].ingested = mem.trial[cur].ingested
        /\ mem'.trial[cur].key = mem.trial[cur].key
    BY <1>16, SettleInfraFacts
  <2>3. ~mem'.trial[cur].ingested
    BY <2>1, <2>2
  <2> QED
    BY <2>1, <2>2, <2>3, AgreesKept
<1>17. CASE SettleAuth
  <2>1. /\ ~mem.trial[cur].ingested /\ store' = store /\ disk' = disk /\ cur' = cur
        /\ pc' = "settled"
    BY <1>17 DEF SettleAuth
  <2>2. /\ \A u \in Trials \ {cur} : mem'.trial[u] = mem.trial[u]
        /\ mem'.trial[cur].ingested = mem.trial[cur].ingested
        /\ mem'.trial[cur].key = mem.trial[cur].key
    BY <1>17, SettleAuthFacts
  <2>3. ~mem'.trial[cur].ingested
    BY <2>1, <2>2
  <2> QED
    BY <2>1, <2>2, <2>3, AgreesKept
<1>18. CASE SettleUnknown
  <2>1. /\ ~mem.trial[cur].ingested /\ store' = store /\ disk' = disk /\ cur' = cur
        /\ pc' = "settled"
    BY <1>18 DEF SettleUnknown
  <2>2. /\ \A u \in Trials \ {cur} : mem'.trial[u] = mem.trial[u]
        /\ mem'.trial[cur].ingested = mem.trial[cur].ingested
        /\ mem'.trial[cur].key = mem.trial[cur].key
    BY <1>18, SettleUnknownFacts
  <2>3. ~mem'.trial[cur].ingested
    BY <2>1, <2>2
  <2> QED
    BY <2>1, <2>2, <2>3, AgreesKept
<1>19. CASE IngestJob
  <2>1. cur \in Trials /\ ~mem.trial[cur].ingested /\ ~disk.trial[cur].ingested
    BY <1>19 DEF IngestJob, Scored
  <2>2. \A t \in Trials \ {cur}, n \in Nat : RowsOf(t, n)' = RowsOf(t, n)
    BY <1>19 DEF IngestJob, Upserted
  <2>3. RowsOf(cur, try)' = {RowOf(cur, try, outcome)}
    BY <1>19 DEF IngestJob, Upserted, RowOf
  <2>4. UNCHANGED <<mem, disk, cur, try, outcome>> /\ pc' = "stored"
    BY <1>19 DEF IngestJob
  <2>5. \A t \in Trials : Agrees(disk.trial[t], t)' /\ Agrees(mem.trial[t], t)'
    BY <2>1, <2>2, <2>4, FieldTypes DEF TypeOK
  <2> QED
    BY <2>1, <2>3, <2>4, <2>5
<1>20. CASE IngestFails
  BY <1>20 DEF IngestFails
<1>21. CASE FlagIngested
  <2>1. mem.trial[cur].status = outcome /\ mem.trial[cur].attempts = try
    BY <1>21 DEF FlagIngested
  <2>2. mem'.trial[cur].ingested
    BY <1>21, FlagIngestedFacts
  <2>3. outcome \in Scored /\ RowsOf(cur, try) = {RowOf(cur, try, outcome)}
    BY <1>21 DEF FlagIngested
  <2>4. mem.trial[cur].key = NoKey
    BY <1>21 DEF FlagIngested
  <2>5. /\ cur \in Trials
        /\ \A u \in Trials \ {cur} : mem'.trial[u] = mem.trial[u]
        /\ mem'.trial[cur].status = outcome
        /\ mem'.trial[cur].attempts = try
        /\ mem'.trial[cur].key = NoKey
    BY <1>21, <2>1, <2>4, FlagIngestedFacts
  <2>6. UNCHANGED <<store, disk, cur, try, outcome>> /\ pc' = "flagged"
    BY <1>21 DEF FlagIngested
  <2> QED
    BY <2>2, <2>3, <2>5, <2>6
<1>22. CASE RecordKey
  <2>1. mem.trial[cur].ingested /\ mem.trial[cur].status = outcome /\ mem.trial[cur].attempts = try
    BY <1>22 DEF RecordKey
  <2> QED
    BY <1>22, <2>1, RecordKeyFacts DEF RecordKey
<1>23. CASE WriteOutcome
  BY <1>23 DEF WriteOutcome
<1>24. CASE LogOutcome
  BY <1>24 DEF LogOutcome
<1>25. CASE Pause
  BY <1>25, SetRunStatus DEF Pause, TypeOK, RunStatus
<1>26. CASE LogPaused
  BY <1>26 DEF LogPaused, Exit
<1>27. CASE WriteFinalStatus
  BY <1>27, SetRunStatus DEF WriteFinalStatus, TypeOK, RunStatus, FinalStatus
<1>28. CASE CollectKeys
  <2>1. /\ mem \in RunStateType /\ mem' = Backfilled(mem) /\ disk' = mem'
        /\ store' = store /\ pc' = "reporting"
    BY <1>28 DEF CollectKeys, TypeOK
  <2>2. \A t \in Trials : Agrees(mem'.trial[t], t)
    BY <2>1, BackfilledFacts
  <2> QED
    BY <2>1, <2>2
<1>29. CASE GenerateReports
  BY <1>29, SetReported DEF GenerateReports, TypeOK
<1>30. CASE WriteReportStatus
  BY <1>30 DEF WriteReportStatus
<1>31. CASE LogFinished
  BY <1>31 DEF LogFinished, Exit
<1>32. CASE Interrupt
  BY <1>32 DEF Interrupt
<1>33. CASE InterruptUncaught
  BY <1>33 DEF InterruptUncaught, Exit
<1>34. CASE Crash
  BY <1>34 DEF Crash, Exit
<1>35. CASE UNCHANGED vars
  BY <1>35 DEF vars
<1> QED
  BY <1>1, <1>2, <1>3, <1>4, <1>5, <1>6, <1>7, <1>8, <1>9, <1>10, <1>10a, <1>11, <1>12, <1>13,
     <1>14, <1>15, <1>16, <1>17, <1>18, <1>19, <1>20, <1>21, <1>22, <1>23, <1>24, <1>25,
     <1>26, <1>27, <1>28, <1>29, <1>30, <1>31, <1>32, <1>33, <1>34, <1>35 DEF Next,
     Process, Round, Operator, Fault

-----------------------------------------------------------------------------
(* The safety properties.                                                  *)

LEMMA Inductive == Spec => []IInv
<1>1. Init => IInv
  BY ControlInit, SyncInit, AttemptInit, RetryInit, CostInit, LogInit, StoreInit DEF IInv
<1>2. IInv /\ [Next]_vars => IInv'
  BY ControlStep, SyncStep, AttemptStep, RetryStep, CostStep, LogStep, StoreStep DEF IInv
<1> QED
  BY <1>1, <1>2, PTL DEF Spec

\* Whatever the moment a process dies, state.json misses nothing but the outcome of
\* the one trial it shows as running, or the mark on the one about to be launched:
\* the next invocation requeues the first and picks the second.
THEOREM UnsavedTheorem == Spec => []OnlyInFlightUnsaved
<1>1. IInv => OnlyInFlightUnsaved
  BY DEF IInv, SyncInv
<1> QED
  BY <1>1, Inductive, PTL

\* No sequence of runs, resumes, crashes and interrupts makes state.json show two
\* running trials, or a finished run with an unsettled one.
THEOREM RunningTheorem == Spec => []AtMostOneRunning
<1>1. IInv => AtMostOneRunning
  BY DEF IInv, SyncInv
<1> QED
  BY <1>1, Inductive, PTL

\* events.jsonl announces only what state.json already holds, and what state.json
\* never takes back: write_state comes before append_event at every step.
THEOREM LogTheorem == Spec => []LoggedIsDurable
<1>1. IInv => LoggedIsDurable
  BY DEF IInv, LogInv
<1> QED
  BY <1>1, Inductive, PTL

\* The retry limit holds across resumes: only a crash or an interrupt between
\* recording an attempt and its verdict can add one.
THEOREM AttemptsTheorem == Spec => []AttemptsBounded
<1>1. IInv => AttemptsBounded
  BY DEF IInv, RetryInv, AttemptsBounded
<1> QED
  BY <1>1, Inductive, PTL

\* actual_cost_usd is what Harbor's results reported, and never more.
THEOREM CostTheorem == Spec => []CostAccounting
<1>1. IInv => CostAccounting
  <2> SUFFICES ASSUME IInv PROVE CostAccounting
    OBVIOUS
  <2>1. disk.cost \in Nat /\ mem.cost \in Nat /\ billed \in Nat
    BY FieldTypes DEF IInv, TypeOK
  <2>2. disk.cost <= mem.cost /\ mem.cost <= billed
    BY DEF IInv, SyncInv, CostInv
  <2>3. pc = "down" => mem = disk
    BY DEF IInv, SyncInv, Ahead
  <2>4. faults = 0 /\ pc = "down" => billed = mem.cost
    BY DEF IInv, CostInv
  <2> QED
    BY <2>1, <2>2, <2>3, <2>4 DEF CostAccounting
<1> QED
  BY <1>1, Inductive, PTL

\* The budget check before each launch bounds the overspending to one result.
THEOREM OvershootTheorem == Spec => []OvershootBounded
<1>1. IInv => OvershootBounded
  <2> SUFFICES ASSUME IInv PROVE OvershootBounded
    OBVIOUS
  <2>1. disk.cost \in Nat /\ mem.cost \in Nat /\ MaxBudget \in Nat /\ Costs \subseteq Nat
    BY FieldTypes, RunLoopAssumption DEF IInv, TypeOK
  <2>2. disk.cost <= mem.cost
    BY DEF IInv, SyncInv
  <2>3. mem.cost = 0 \/ \E c \in Costs : mem.cost < MaxBudget + c
    BY DEF IInv, CostInv
  <2> QED
    BY <2>1, <2>2, <2>3 DEF OvershootBounded
<1> QED
  BY <1>1, Inductive, PTL

\* A trial state.json calls ingested has its one row in the Phase 1 database,
\* with its verdict, although the two stores are written apart.
THEOREM IngestedTheorem == Spec => []IngestedAgreesWithStore
<1>1. IInv => IngestedAgreesWithStore
  BY DEF IInv, StoreInv, Agrees, RowsOf, RowOf, IngestedAgreesWithStore
<1> QED
  BY <1>1, Inductive, PTL

=============================================================================
