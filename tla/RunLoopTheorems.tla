-------------------------- MODULE RunLoopTheorems --------------------------
(***************************************************************************)
(* What follows from the inductive invariant of RunLoop: the order in      *)
(* which a run works through its plan, the reports a finished run leaves   *)
(* behind, that the successive contents of state.json are a behaviour of   *)
(* RunLedger, and how much a run and a process have left to do.            *)
(***************************************************************************)
EXTENDS RunLoopProofs, DataLemmas

-----------------------------------------------------------------------------
(* Plan order.                                                             *)

\* A new run is in plan order.
LEMMA OrderInit == Init => OrderInv
  BY DEF Init, OrderInv, FreshRunKeepsPlanOrder, NewState

\* Plan order survives a step that changes the trial in flight only.
LEMMA OrderKept ==
  ASSUME TypeOK, ControlInv, SyncInv, OrderInv, pc \in InFlight, command' = command,
         mem.trial[cur].status = "running" \/ mem.trial[cur].status = mem'.trial[cur].status,
         mem.trial[cur].status # "pending",
         \A u \in Trials \ {cur} : mem'.trial[u] = mem.trial[u]
  PROVE  FreshRunKeepsPlanOrder'
  BY DEF OrderInv, FreshRunKeepsPlanOrder, ControlInv, Settled, NewTrial

\* A step keeps plan order.
LEMMA OrderStep ==
  TypeOK /\ ControlInv /\ SyncInv /\ OrderInv /\ [Next]_vars => OrderInv'
<1> SUFFICES ASSUME TypeOK, ControlInv, SyncInv, OrderInv, [Next]_vars
             PROVE  OrderInv'
  OBVIOUS
<1> USE RunLoopAssumption DEF OrderInv, FreshRunKeepsPlanOrder, ControlInv, SyncInv, Ahead,
        InTry, InFlight, Step, disks, locals, history
<1>1. CASE CreateManifest
  BY <1>1 DEF CreateManifest
<1>2. CASE WriteInitialState
  BY <1>2 DEF WriteInitialState
<1>3. CASE LogCreated
  BY <1>3 DEF LogCreated
<1>4. CASE Resume
  BY <1>4 DEF Resume
<1>5. CASE ResumeRefused
  BY <1>5 DEF ResumeRefused, vars
<1>6. CASE Regenerate
  BY <1>6 DEF Regenerate
<1>7. CASE EnterLoop
  <2>1. files = "state" /\ files' = files /\ command' = command /\ pc' = "loop"
    BY <1>7 DEF EnterLoop
  <2>2. mem'.trial = Requeued(mem).trial
    BY <1>7, EnterLoopFacts
  <2>3. ASSUME command = "run", NEW t \in Trials PROVE mem'.trial[t] = NewTrial
    <3>1. mem.trial[t] = NewTrial /\ mem.trial[t].status # "running"
      <4>1. mem.trial[t] = NewTrial
        BY <1>7, <2>3 DEF EnterLoop
      <4> QED
        BY <4>1 DEF NewTrial
    <3> QED
      BY <2>2, <3>1, RequeuedFacts DEF TypeOK
  <2> QED
    BY <2>1, <2>3
<1>8. CASE NothingPending
  BY <1>8 DEF NothingPending
<1>9. CASE StopAtBudget
  BY <1>9 DEF StopAtBudget
<1>10. ASSUME NEW t \in Trials, StartTrial(t) PROVE OrderInv'
  BY <1>10, StartTrialFacts, FieldTypes DEF StartTrial, TypeOK, IsNext, PendingTrials,
     Rank, Settled
<1>10a. CASE WriteStarted
  BY <1>10a DEF WriteStarted
<1>11. CASE LogStarted
  BY <1>11 DEF LogStarted
<1>12. ASSUME NEW o \in Outcome, NEW c \in Costs, HarborReturns(o, c) PROVE OrderInv'
  BY <1>12 DEF HarborReturns
<1>13. CASE RecordAttempt
  <2>1. mem.trial[cur].status = "running" /\ files = "state" /\ command' = command
    BY <1>13 DEF RecordAttempt
  <2>2. \A u \in Trials \ {cur} : mem'.trial[u] = mem.trial[u]
    BY <1>13, RecordAttemptFacts
  <2>3. FreshRunKeepsPlanOrder'
    BY <1>13, <2>1, <2>2, OrderKept DEF RecordAttempt
  <2> QED
    BY <1>13, <2>1, <2>3, RecordAttemptFacts DEF RecordAttempt
<1>14. CASE RecordCost
  BY <1>14, AddCost DEF RecordCost, TypeOK
<1>15. CASE SettleScored
  <2>1. mem.trial[cur].status = "running" /\ files = "state" /\ command' = command
    BY <1>15 DEF SettleScored
  <2>2. \A u \in Trials \ {cur} : mem'.trial[u] = mem.trial[u]
    BY <1>15, SettleScoredFacts
  <2>3. FreshRunKeepsPlanOrder'
    BY <1>15, <2>1, <2>2, OrderKept DEF SettleScored
  <2> QED
    BY <1>15, <2>1, <2>3 DEF SettleScored
<1>16. CASE SettleInfra
  <2>1. mem.trial[cur].status = "running" /\ files = "state" /\ command' = command
    BY <1>16 DEF SettleInfra
  <2>2. \A u \in Trials \ {cur} : mem'.trial[u] = mem.trial[u]
    BY <1>16, SettleInfraFacts
  <2>3. FreshRunKeepsPlanOrder'
    BY <1>16, <2>1, <2>2, OrderKept DEF SettleInfra
  <2> QED
    BY <1>16, <2>1, <2>3 DEF SettleInfra
<1>17. CASE SettleAuth
  <2>1. mem.trial[cur].status = "running" /\ files = "state" /\ command' = command
    BY <1>17 DEF SettleAuth
  <2>2. \A u \in Trials \ {cur} : mem'.trial[u] = mem.trial[u]
    BY <1>17, SettleAuthFacts
  <2>3. FreshRunKeepsPlanOrder'
    BY <1>17, <2>1, <2>2, OrderKept DEF SettleAuth
  <2> QED
    BY <1>17, <2>1, <2>3 DEF SettleAuth
<1>18. CASE SettleUnknown
  <2>1. mem.trial[cur].status = "running" /\ files = "state" /\ command' = command
    BY <1>18 DEF SettleUnknown
  <2>2. \A u \in Trials \ {cur} : mem'.trial[u] = mem.trial[u]
    BY <1>18, SettleUnknownFacts
  <2>3. FreshRunKeepsPlanOrder'
    BY <1>18, <2>1, <2>2, OrderKept DEF SettleUnknown
  <2> QED
    BY <1>18, <2>1, <2>3 DEF SettleUnknown
<1>19. CASE IngestJob
  BY <1>19 DEF IngestJob
<1>20. CASE IngestFails
  BY <1>20 DEF IngestFails
<1>21. CASE FlagIngested
  <2>1. mem.trial[cur].status # "pending" /\ files = "state" /\ command' = command
    BY <1>21 DEF FlagIngested, Scored
  <2>2. /\ \A u \in Trials \ {cur} : mem'.trial[u] = mem.trial[u]
        /\ mem'.trial[cur].status = mem.trial[cur].status
    BY <1>21, FlagIngestedFacts
  <2>3. FreshRunKeepsPlanOrder'
    BY <1>21, <2>1, <2>2, OrderKept DEF FlagIngested
  <2> QED
    BY <1>21, <2>1, <2>3 DEF FlagIngested
<1>22. CASE RecordKey
  <2>1. mem.trial[cur].status # "pending" /\ files = "state" /\ command' = command
    BY <1>22 DEF RecordKey, Scored
  <2>2. /\ \A u \in Trials \ {cur} : mem'.trial[u] = mem.trial[u]
        /\ mem'.trial[cur].status = mem.trial[cur].status
    BY <1>22, RecordKeyFacts
  <2>3. FreshRunKeepsPlanOrder'
    BY <1>22, <2>1, <2>2, OrderKept DEF RecordKey
  <2> QED
    BY <1>22, <2>1, <2>3 DEF RecordKey
<1>23. CASE WriteOutcome
  BY <1>23 DEF WriteOutcome
<1>24. CASE LogOutcome
  BY <1>24 DEF LogOutcome
<1>25. CASE Pause
  BY <1>25, SetRunStatus DEF Pause, TypeOK, RunStatus
<1>26. CASE LogPaused
  BY <1>26 DEF LogPaused, Exit
<1>27. CASE WriteFinalStatus
  BY <1>27, SetRunStatus DEF WriteFinalStatus, TypeOK, RunStatus, FinalStatus
<1>28. CASE CollectKeys
  <2>1. files = "state" /\ files' = files /\ command' = command /\ pc' = "reporting"
    BY <1>28 DEF CollectKeys
  <2>2. ASSUME command = "run", NEW t \in Trials PROVE mem'.trial[t].status \in Settled
    <3>1. mem.trial[t].status \in Settled
      BY <1>28, <2>2 DEF CollectKeys, AtMostOneRunning
    <3> QED
      BY <1>28, <3>1, BackfilledFacts DEF CollectKeys, TypeOK
  <2> QED
    BY <2>1, <2>2
<1>29. CASE GenerateReports
  BY <1>29, SetReported DEF GenerateReports, TypeOK
<1>30. CASE WriteReportStatus
  BY <1>30 DEF WriteReportStatus
<1>31. CASE LogFinished
  BY <1>31 DEF LogFinished, Exit
<1>32. CASE Interrupt
  BY <1>32 DEF Interrupt
<1>33. CASE InterruptUncaught
  BY <1>33 DEF InterruptUncaught, Exit
<1>34. CASE Crash
  BY <1>34 DEF Crash, Exit
<1>35. CASE UNCHANGED vars
  BY <1>35 DEF vars
<1> QED
  BY <1>1, <1>2, <1>3, <1>4, <1>5, <1>6, <1>7, <1>8, <1>9, <1>10, <1>10a, <1>11, <1>12, <1>13,
     <1>14, <1>15, <1>16, <1>17, <1>18, <1>19, <1>20, <1>21, <1>22, <1>23, <1>24, <1>25,
     <1>26, <1>27, <1>28, <1>29, <1>30, <1>31, <1>32, <1>33, <1>34, <1>35 DEF Next,
     Process, Round, Operator, Fault

\* A run that is never resumed settles each trial, retries included, before it
\* touches the next one of the plan.
THEOREM PlanOrderTheorem == Spec => []FreshRunKeepsPlanOrder
<1>1. IInv /\ OrderInv /\ [Next]_vars => OrderInv'
  BY OrderStep DEF IInv
<1>2. OrderInv => FreshRunKeepsPlanOrder
  BY DEF OrderInv
<1> QED
  BY <1>1, <1>2, OrderInit, Inductive, PTL DEF Spec

-----------------------------------------------------------------------------
(* Reports.                                                                *)

\* A new run has no reports.
LEMMA ReportInit == Init => ReportInv
  BY DEF Init, ReportInv, FinishedRunIsReported

\* The reports keep their meaning as long as no reportable trial changes and,
\* once the run has finished, none is added.
LEMMA ReportsKept ==
  ASSUME ReportInv, reports' = reports,
         \A e \in log' : e.type = "run_finished" => e \in log,
         \A t \in Reportable(disk) :
           /\ t \in Reportable(disk')
           /\ disk'.trial[t].status = disk.trial[t].status
           /\ disk'.trial[t].attempts = disk.trial[t].attempts,
         (\E e \in log : e.type = "run_finished") => Reportable(disk') = Reportable(disk)
  PROVE  /\ FinishedRunIsReported'
         /\ (reports \subseteq ReportRows(disk))'
<1>1. ReportRows(disk) \subseteq ReportRows(disk')
  BY DEF ReportRows
<1>2. ASSUME NEW e \in log', e.type = "run_finished"
      PROVE  reports' = ReportRows(disk')
  <2>1. e \in log /\ reports = ReportRows(disk)
    BY <1>2 DEF ReportInv, FinishedRunIsReported, ReportRows, RowOf
  <2>2. ReportRows(disk') = ReportRows(disk)
    BY <2>1, <1>2 DEF ReportRows
  <2> QED
    BY <2>1, <2>2
<1> QED
  BY <1>1, <1>2 DEF ReportInv, FinishedRunIsReported, ReportRows, RowOf

\* With every key recorded, the rows the keys select are the rows to report.
LEMMA KeyRowsFacts ==
  ASSUME TypeOK, StoreInv,
         \A t \in Reportable(mem) : mem.trial[t].key = mem.trial[t].attempts
  PROVE  KeyRows(mem) = ReportRows(mem)
<1>1. ASSUME NEW t \in Reportable(mem)
      PROVE  /\ t \in Trials
             /\ mem.trial[t].key = mem.trial[t].attempts
             /\ {r \in store : r.trial = t /\ r.try = mem.trial[t].attempts}
                  = {RowOf(t, mem.trial[t].attempts, mem.trial[t].status)}
  BY <1>1 DEF Reportable, StoreInv, Agrees, RowsOf
<1>2. ASSUME NEW r \in KeyRows(mem) PROVE r \in ReportRows(mem)
  BY <1>1, <1>2 DEF KeyRows, ReportRows
<1>3. ASSUME NEW r \in ReportRows(mem) PROVE r \in KeyRows(mem)
  <2>1. PICK t \in Reportable(mem) :
          r = RowOf(t, mem.trial[t].attempts, mem.trial[t].status)
    BY <1>3 DEF ReportRows
  <2>2. r \in store /\ r.trial = t /\ r.try = mem.trial[t].key
    BY <1>1, <2>1
  <2> QED
    BY <2>1, <2>2 DEF KeyRows
<1> QED
  BY <1>2, <1>3

\* Memory has the reportable trials of state.json as they are there.
LEMMA ScoredKept ==
  ASSUME TypeOK, SyncInv, NEW t \in Reportable(disk)
  PROVE  /\ t \in Reportable(mem)
         /\ mem.trial[t].status = disk.trial[t].status
         /\ mem.trial[t].attempts = disk.trial[t].attempts
<1>1. t \in Trials /\ disk.trial[t].status \in Scored /\ disk.trial[t].ingested
  BY DEF Reportable
<1>2. /\ mem.trial[t].status = disk.trial[t].status
      /\ mem.trial[t].attempts = disk.trial[t].attempts
      /\ mem.trial[t].ingested = disk.trial[t].ingested
  BY <1>1, UnsavedFacts DEF SyncInv, Scored, Waiting
<1> QED
  BY <1>1, <1>2 DEF Reportable

LEMMA ReportStep ==
  TypeOK /\ ControlInv /\ SyncInv /\ LogInv /\ StoreInv /\ ReportInv /\ [Next]_vars => ReportInv'
<1> SUFFICES ASSUME TypeOK, ControlInv, SyncInv, LogInv, StoreInv, ReportInv, [Next]_vars
             PROVE  ReportInv'
  OBVIOUS
<1>0. /\ mem \in RunStateType
      /\ (\E e \in log : e.type = "run_finished") => Finished(disk)
  BY DEF TypeOK, LogInv, LoggedIsDurable
<1> USE <1>0 DEF ControlInv, SyncInv, Ahead, InTry, InFlight, Step, disks, locals, history
<1>1. CASE CreateManifest
  BY <1>1, ReportsKept DEF CreateManifest, ReportInv
<1>2. CASE WriteInitialState
  BY <1>2, ReportsKept DEF WriteInitialState, ReportInv
<1>3. CASE LogCreated
  BY <1>3, ReportsKept DEF LogCreated, ReportInv, AppendEvent
<1>4. CASE Resume
  BY <1>4, ReportsKept DEF Resume, ReportInv
<1>5. CASE ResumeRefused
  BY <1>5, ReportsKept DEF ResumeRefused, ReportInv, vars
<1>6. CASE Regenerate
  BY <1>6, ReportsKept DEF Regenerate, ReportInv
<1>7. CASE EnterLoop
  BY <1>7, ReportsKept, EnterLoopFacts, RequeuedFacts DEF EnterLoop, ReportInv,
     Reportable, Finished, Scored
<1>8. CASE NothingPending
  BY <1>8, ReportsKept DEF NothingPending, ReportInv
<1>9. CASE StopAtBudget
  BY <1>9, ReportsKept DEF StopAtBudget, ReportInv
<1>10. ASSUME NEW t \in Trials, StartTrial(t) PROVE ReportInv'
  BY <1>10, ReportsKept, StartTrialFacts DEF StartTrial, ReportInv, Reportable,
     Finished, Scored, IsNext, PendingTrials, Waiting
<1>10a. CASE WriteStarted
  <2>1. /\ disk' = mem /\ reports' = reports /\ log' = log /\ pc' = "started"
        /\ ~Finished(disk)
    BY <1>10a DEF WriteStarted, Finished
  <2>2. /\ FinishedRunIsReported'
        /\ (reports \subseteq ReportRows(disk))'
    BY <2>1, ReportsKept, ScoredKept
  <2> QED
    BY <2>1, <2>2 DEF ReportInv
<1>11. CASE LogStarted
  BY <1>11, ReportsKept DEF LogStarted, ReportInv, AppendEvent
<1>12. ASSUME NEW o \in Outcome, NEW c \in Costs, HarborReturns(o, c) PROVE ReportInv'
  BY <1>12, ReportsKept DEF HarborReturns, ReportInv
<1>13. CASE RecordAttempt
  BY <1>13, ReportsKept DEF RecordAttempt, ReportInv
<1>14. CASE RecordCost
  BY <1>14, ReportsKept DEF RecordCost, ReportInv
<1>15. CASE SettleScored
  BY <1>15, ReportsKept DEF SettleScored, ReportInv
<1>16. CASE SettleInfra
  BY <1>16, ReportsKept DEF SettleInfra, ReportInv
<1>17. CASE SettleAuth
  BY <1>17, ReportsKept DEF SettleAuth, ReportInv
<1>18. CASE SettleUnknown
  BY <1>18, ReportsKept DEF SettleUnknown, ReportInv
<1>19. CASE IngestJob
  BY <1>19, ReportsKept DEF IngestJob, ReportInv
<1>20. CASE IngestFails
  BY <1>20, ReportsKept DEF IngestFails, ReportInv
<1>21. CASE FlagIngested
  BY <1>21, ReportsKept DEF FlagIngested, ReportInv
<1>22. CASE RecordKey
  BY <1>22, ReportsKept DEF RecordKey, ReportInv
<1>23. CASE WriteOutcome
  BY <1>23, ReportsKept DEF WriteOutcome, ReportInv, Reportable, Finished, Scored,
     OnlyInFlightUnsaved
<1>24. CASE LogOutcome
  <2>1. OutcomeEvent[mem.trial[cur].status] # "run_finished"
    BY <1>24, OutcomeEventNames DEF LogOutcome, TypeOK, RunStateType, TrialState, Settled, Waiting
  <2> QED
    BY <1>24, <2>1, ReportsKept DEF LogOutcome, ReportInv, AppendEvent
<1>25. CASE Pause
  <2>1. /\ disk' = mem' /\ reports' = reports /\ log' = log /\ pc' = "paused"
        /\ ~Finished(disk) /\ mem'.trial = mem.trial
    BY <1>25, SetRunStatus DEF Pause, Finished, RunStatus
  <2>2. \A t \in Reportable(disk) : t \in Reportable(disk')
    BY <2>1, ScoredKept DEF Reportable
  <2>3. /\ FinishedRunIsReported'
        /\ (reports \subseteq ReportRows(disk))'
    BY <2>1, <2>2, ReportsKept, ScoredKept
  <2> QED
    BY <2>1, <2>3 DEF ReportInv
<1>26. CASE LogPaused
  BY <1>26, ReportsKept DEF LogPaused, ReportInv, AppendEvent, Exit
<1>27. CASE WriteFinalStatus
  BY <1>27, ReportsKept, SetRunStatus DEF WriteFinalStatus, ReportInv, Reportable,
     RunStatus, FinalStatus
<1>28. CASE CollectKeys
  <2>1. /\ mem = disk /\ disk' = mem' /\ mem' = Backfilled(mem) /\ pc' = "reporting"
        /\ reports' = reports /\ log' = log
    BY <1>28 DEF CollectKeys
  <2>2. \A t \in Trials :
          /\ disk'.trial[t].status = disk.trial[t].status
          /\ disk'.trial[t].attempts = disk.trial[t].attempts
          /\ disk'.trial[t].ingested = disk.trial[t].ingested
    BY <2>1, BackfilledFacts
  <2>3. Reportable(mem') = Reportable(mem)
    BY <2>1, <2>2 DEF Reportable
  <2>4. ASSUME NEW t \in Reportable(mem)
        PROVE  mem'.trial[t].key = mem'.trial[t].attempts
    <3>1. t \in Trials /\ mem.trial[t].key \in {NoKey, mem.trial[t].attempts}
      BY <2>4 DEF Reportable, StoreInv, Agrees
    <3>2. mem'.trial[t] = IF mem.trial[t].key = NoKey
                            THEN [mem.trial[t] EXCEPT !.key = mem.trial[t].attempts]
                            ELSE mem.trial[t]
      BY <2>1, <2>4, <3>1 DEF Backfilled, RunStateType
    <3>3. mem.trial[t] \in TrialState
      BY <3>1, FieldTypes
    <3> QED
      BY <3>1, <3>2, <3>3 DEF TrialState
  <2>5. /\ FinishedRunIsReported'
        /\ (reports \subseteq ReportRows(disk))'
    BY <2>1, <2>2, <2>3, ReportsKept DEF Reportable
  <2> QED
    BY <2>1, <2>3, <2>4, <2>5 DEF ReportInv
<1>29. CASE GenerateReports
  <2>1. /\ reports' = IF KeyRows(mem) = {} THEN reports ELSE KeyRows(mem)
        /\ mem = disk /\ disk' = disk /\ log' = log /\ pc' = "reported"
    BY <1>29 DEF GenerateReports
  <2>2. KeyRows(mem) = ReportRows(disk)
    BY <1>29, <2>1, KeyRowsFacts DEF GenerateReports, ReportInv
  <2>3. reports' = ReportRows(disk)
    BY <2>1, <2>2 DEF ReportInv
  <2> QED
    BY <2>1, <2>3 DEF ReportInv, FinishedRunIsReported, ReportRows, RowOf
<1>30. CASE WriteReportStatus
  BY <1>30, ReportsKept DEF WriteReportStatus, ReportInv, Reportable, ReportRows
<1>31. CASE LogFinished
  <2>1. reports' = ReportRows(disk) /\ disk' = disk /\ pc' = "down"
    BY <1>31 DEF LogFinished, Exit, ReportInv
  <2> QED
    BY <2>1 DEF ReportInv, FinishedRunIsReported, ReportRows, RowOf
<1>32. CASE Interrupt
  BY <1>32, ReportsKept DEF Interrupt, ReportInv
<1>33. CASE InterruptUncaught
  BY <1>33, ReportsKept DEF InterruptUncaught, ReportInv, Exit
<1>34. CASE Crash
  BY <1>34, ReportsKept DEF Crash, ReportInv, Exit
<1>35. CASE UNCHANGED vars
  BY <1>35, ReportsKept DEF vars, ReportInv, vars
<1> QED
  BY <1>1, <1>2, <1>3, <1>4, <1>5, <1>6, <1>7, <1>8, <1>9, <1>10, <1>10a, <1>11, <1>12, <1>13,
     <1>14, <1>15, <1>16, <1>17, <1>18, <1>19, <1>20, <1>21, <1>22, <1>23, <1>24, <1>25,
     <1>26, <1>27, <1>28, <1>29, <1>30, <1>31, <1>32, <1>33, <1>34, <1>35 DEF Next,
     Process, Round, Operator, Fault

\* The reports of a finished run show exactly its ingested trials with their
\* verdicts, also when a key had to be restored or reports were made before.
THEOREM ReportedTheorem == Spec => []FinishedRunIsReported
<1>1. IInv /\ ReportInv /\ [Next]_vars => ReportInv'
  BY ReportStep DEF IInv
<1>2. ReportInv => FinishedRunIsReported
  BY DEF ReportInv
<1> QED
  BY <1>1, <1>2, ReportInit, Inductive, PTL DEF Spec

-----------------------------------------------------------------------------
(* The ledger: every step of RunLoop is one step of it, or none.           *)

\* A new run has nothing unsaved.
LEMMA VerdictInit == Init => VerdictInv
  BY DEF Init, VerdictInv, UnsavedVerdict

\* A step keeps what is unsaved one ledger step ahead.
LEMMA VerdictStep ==
  TypeOK /\ ControlInv /\ SyncInv /\ AttemptInv /\ VerdictInv /\ [Next]_vars => VerdictInv'
<1> SUFFICES ASSUME TypeOK, ControlInv, SyncInv, AttemptInv, VerdictInv, [Next]_vars
             PROVE  VerdictInv'
  OBVIOUS
<1> USE RunLoopAssumption DEF VerdictInv, UnsavedVerdict, TypeOK, ControlInv, SyncInv,
        OnlyInFlightUnsaved, AttemptInv, Ahead, InFlight, Step, disks, locals, history
<1>1. CASE CreateManifest
  BY <1>1 DEF CreateManifest
<1>2. CASE WriteInitialState
  BY <1>2 DEF WriteInitialState
<1>3. CASE LogCreated
  BY <1>3 DEF LogCreated
<1>4. CASE Resume
  BY <1>4 DEF Resume
<1>5. CASE ResumeRefused
  BY <1>5 DEF ResumeRefused, vars
<1>6. CASE Regenerate
  BY <1>6 DEF Regenerate
<1>7. CASE EnterLoop
  BY <1>7 DEF EnterLoop
<1>8. CASE NothingPending
  BY <1>8 DEF NothingPending
<1>9. CASE StopAtBudget
  BY <1>9 DEF StopAtBudget
<1>10. ASSUME NEW t \in Trials, StartTrial(t) PROVE VerdictInv'
  <2>1. /\ mem = disk /\ disk' = disk /\ disk.trial[t].status \in Waiting
        /\ \A u \in Trials : disk.trial[u].status # "running"
    BY <1>10 DEF StartTrial, IsNext, PendingTrials
  <2>2. /\ mem'.trial[t].status = "running" /\ mem'.trial[t].attempts = mem.trial[t].attempts
        /\ \A u \in Trials \ {t} : mem'.trial[u] = mem.trial[u]
    BY <1>10, StartTrialFacts
  <2> QED
    BY <2>1, <2>2
<1>10a. CASE WriteStarted
  BY <1>10a DEF WriteStarted
<1>11. CASE LogStarted
  BY <1>11 DEF LogStarted
<1>12. ASSUME NEW o \in Outcome, NEW c \in Costs, HarborReturns(o, c) PROVE VerdictInv'
  BY <1>12 DEF HarborReturns
<1>13. CASE RecordAttempt
  BY <1>13, RecordAttemptFacts, FieldTypes DEF RecordAttempt
<1>14. CASE RecordCost
  BY <1>14, AddCost DEF RecordCost
<1>15. CASE SettleScored
  BY <1>15, SettleScoredFacts DEF SettleScored, Scored
<1>16. CASE SettleInfra
  BY <1>16, SettleInfraFacts DEF SettleInfra, InfraStatus
<1>17. CASE SettleAuth
  BY <1>17, SettleAuthFacts DEF SettleAuth
<1>18. CASE SettleUnknown
  BY <1>18, SettleUnknownFacts DEF SettleUnknown
<1>19. CASE IngestJob
  BY <1>19 DEF IngestJob
<1>20. CASE IngestFails
  BY <1>20 DEF IngestFails
<1>21. CASE FlagIngested
  BY <1>21, FlagIngestedFacts DEF FlagIngested
<1>22. CASE RecordKey
  BY <1>22, RecordKeyFacts DEF RecordKey
<1>23. CASE WriteOutcome
  BY <1>23 DEF WriteOutcome
<1>24. CASE LogOutcome
  BY <1>24 DEF LogOutcome
<1>25. CASE Pause
  BY <1>25 DEF Pause
<1>26. CASE LogPaused
  BY <1>26 DEF LogPaused, Exit
<1>27. CASE WriteFinalStatus
  BY <1>27 DEF WriteFinalStatus
<1>28. CASE CollectKeys
  BY <1>28 DEF CollectKeys
<1>29. CASE GenerateReports
  BY <1>29, SetReported DEF GenerateReports
<1>30. CASE WriteReportStatus
  BY <1>30 DEF WriteReportStatus
<1>31. CASE LogFinished
  BY <1>31 DEF LogFinished, Exit
<1>32. CASE Interrupt
  BY <1>32 DEF Interrupt
<1>33. CASE InterruptUncaught
  BY <1>33 DEF InterruptUncaught, Exit
<1>34. CASE Crash
  BY <1>34 DEF Crash, Exit
<1>35. CASE UNCHANGED vars
  BY <1>35 DEF vars
<1> QED
  BY <1>1, <1>2, <1>3, <1>4, <1>5, <1>6, <1>7, <1>8, <1>9, <1>10, <1>10a, <1>11, <1>12, <1>13,
     <1>14, <1>15, <1>16, <1>17, <1>18, <1>19, <1>20, <1>21, <1>22, <1>23, <1>24, <1>25,
     <1>26, <1>27, <1>28, <1>29, <1>30, <1>31, <1>32, <1>33, <1>34, <1>35 DEF Next,
     Process, Round, Operator, Fault

\* A step that leaves the statuses and the attempts of state.json alone is none.
LEMMA LedgerStutters ==
  ASSUME disk'.status = disk.status,
         \A t \in Trials : /\ disk'.trial[t].status = disk.trial[t].status
                           /\ disk'.trial[t].attempts = disk.trial[t].attempts
  PROVE  UNCHANGED Ledger!ledgerVars
  BY DEF Ledger!ledgerVars

\* A new run is a new ledger.
LEMMA LedgerInitially == Init => Ledger!LedgerInit
  BY DEF Init, NewState, NewTrial, Ledger!LedgerInit

\* A step is a step of the ledger or a stutter.
LEMMA LedgerSteps ==
  TypeOK /\ ControlInv /\ SyncInv /\ AttemptInv /\ RetryInv /\ VerdictInv /\ [Next]_vars
    => [Ledger!LedgerNext]_(Ledger!ledgerVars)
<1> SUFFICES ASSUME TypeOK, ControlInv, SyncInv, AttemptInv, RetryInv, VerdictInv, [Next]_vars
             PROVE  [Ledger!LedgerNext]_(Ledger!ledgerVars)
  OBVIOUS
<1> USE DEF Step, disks
<1>1. CASE CreateManifest
  BY <1>1, LedgerStutters DEF CreateManifest
<1>2. CASE WriteInitialState
  BY <1>2, LedgerStutters DEF WriteInitialState, SyncInv, Ahead
<1>3. CASE LogCreated
  BY <1>3, LedgerStutters DEF LogCreated
<1>4. CASE Resume
  BY <1>4, LedgerStutters DEF Resume
<1>5. CASE ResumeRefused
  BY <1>5, LedgerStutters DEF ResumeRefused, vars
<1>6. CASE Regenerate
  BY <1>6, LedgerStutters DEF Regenerate
<1>7. CASE EnterLoop
  <2>1. mem = disk /\ disk.status \in {"planned", "running", "paused"}
    BY <1>7 DEF EnterLoop, SyncInv, Ahead, Finished, TypeOK, RunStateType, RunStatus
  <2>2. disk'.status = "running" /\ disk'.trial = Requeued(disk).trial
    BY <1>7, <2>1, EnterLoopFacts DEF EnterLoop
  <2>3. \A t \in Trials :
          /\ disk'.trial[t].status =
               (IF disk.trial[t].status = "running" THEN "pending" ELSE disk.trial[t].status)
          /\ disk'.trial[t].attempts = disk.trial[t].attempts
    BY <2>2, RequeuedFacts DEF TypeOK
  <2>4. Ledger!Enter
    BY <2>1, <2>2, <2>3 DEF Ledger!Enter
  <2> QED
    BY <2>4 DEF Ledger!LedgerNext
<1>8. CASE NothingPending
  BY <1>8, LedgerStutters DEF NothingPending
<1>9. CASE StopAtBudget
  BY <1>9, LedgerStutters DEF StopAtBudget
<1>10. ASSUME NEW t \in Trials, StartTrial(t) PROVE [Ledger!LedgerNext]_(Ledger!ledgerVars)
  BY <1>10, LedgerStutters DEF StartTrial
<1>10a. CASE WriteStarted
  <2>1. /\ disk.status = "running" /\ disk' = mem /\ mem.status = disk.status
        /\ cur \in Trials /\ disk.trial[cur].status \in Waiting
        /\ \A u \in Trials : disk.trial[u].status # "running"
        /\ \A u \in Trials \ {cur} : mem.trial[u] = disk.trial[u]
        /\ mem.trial[cur].status = "running"
    BY <1>10a DEF WriteStarted, ControlInv, InFlight, InTry, SyncInv, OnlyInFlightUnsaved
  <2>2. mem.trial[cur].attempts = disk.trial[cur].attempts
    BY <2>1 DEF VerdictInv, UnsavedVerdict, Waiting
  <2>3. Ledger!Mark(cur)
    BY <2>1, <2>2 DEF Ledger!Mark, Waiting, Ledger!Waiting
  <2>4. Ledger!Start(cur)
    BY <2>1, <2>3 DEF Ledger!Start
  <2>5. \E t \in Trials : Ledger!Start(t)
    BY ONLY <2>1, <2>4 DEF Ledger!Start, Ledger!Mark
  <2> QED
    BY ONLY <2>5 DEF Ledger!LedgerNext
<1>11. CASE LogStarted
  BY <1>11, LedgerStutters DEF LogStarted
<1>12. ASSUME NEW o \in Outcome, NEW c \in Costs, HarborReturns(o, c)
       PROVE  [Ledger!LedgerNext]_(Ledger!ledgerVars)
  BY <1>12, LedgerStutters DEF HarborReturns
<1>13. CASE RecordAttempt
  BY <1>13, LedgerStutters DEF RecordAttempt
<1>14. CASE RecordCost
  BY <1>14, LedgerStutters DEF RecordCost
<1>15. CASE SettleScored
  BY <1>15, LedgerStutters DEF SettleScored
<1>16. CASE SettleInfra
  BY <1>16, LedgerStutters DEF SettleInfra
<1>17. CASE SettleAuth
  BY <1>17, LedgerStutters DEF SettleAuth
<1>18. CASE SettleUnknown
  BY <1>18, LedgerStutters DEF SettleUnknown
<1>19. CASE IngestJob
  BY <1>19, LedgerStutters DEF IngestJob
<1>20. CASE IngestFails
  BY <1>20, LedgerStutters DEF IngestFails
<1>21. CASE FlagIngested
  BY <1>21, LedgerStutters DEF FlagIngested
<1>22. CASE RecordKey
  BY <1>22, LedgerStutters DEF RecordKey
<1>23. CASE WriteOutcome
  <2>1. /\ cur \in Trials /\ disk' = mem
        /\ mem.trial[cur].status \in TrialStatus \ {"pending", "running"}
        /\ disk.trial[cur].status = "running" /\ disk.status = "running"
        /\ mem.status = disk.status
        /\ \A u \in Trials \ {cur} : mem.trial[u] = disk.trial[u]
    BY <1>23 DEF WriteOutcome, ControlInv, InFlight, InTry, SyncInv, OnlyInFlightUnsaved
  <2>2. /\ mem.trial[cur].attempts = disk.trial[cur].attempts + 1
        /\ mem.trial[cur].status = "infra_invalid_retry_scheduled" =>
             disk.trial[cur].attempts + 1 <= MaxInfraRetries
        /\ mem.trial[cur].status = "infra_invalid_exhausted" =>
             disk.trial[cur].attempts + 1 > MaxInfraRetries
    BY <2>1 DEF VerdictInv, UnsavedVerdict
  <2>3. Ledger!Verdict(cur, mem.trial[cur].status)
    BY <2>1, <2>2 DEF Ledger!Verdict
  <2>4. \E s \in Ledger!TrialStatus \ {"pending", "running"} : Ledger!Verdict(cur, s)
    <3>1. mem.trial[cur].status \in Ledger!TrialStatus \ {"pending", "running"}
      BY <2>1 DEF TrialStatus, Ledger!TrialStatus
    <3> QED
      BY ONLY <2>3, <3>1 DEF Ledger!Verdict
  <2>5. Ledger!Settle(cur)
    BY <2>1, <2>4 DEF Ledger!Settle
  <2> QED
    BY <2>1, <2>5 DEF Ledger!LedgerNext
<1>24. CASE LogOutcome
  BY <1>24, LedgerStutters DEF LogOutcome
<1>25. CASE Pause
  <2>1. /\ disk.status = "running" /\ disk'.status = "paused" /\ disk'.trial = mem.trial
        /\ \A u \in Trials : mem.trial[u] # disk.trial[u] => u = cur
    BY <1>25, SetRunStatus, UnsavedFacts DEF Pause, SyncInv, TypeOK, RunStatus
  <2>2. CASE \A t \in Trials : /\ mem.trial[t].status = disk.trial[t].status
                               /\ mem.trial[t].attempts = disk.trial[t].attempts
    BY <2>1, <2>2 DEF Ledger!LedgerNext, Ledger!Pause
  <2>3. ASSUME NEW t \in Trials, ~(/\ mem.trial[t].status = disk.trial[t].status
                                  /\ mem.trial[t].attempts = disk.trial[t].attempts)
        PROVE  Ledger!LedgerNext
    <3> USE <2>1, <2>3
    <3>1. \A u \in Trials \ {t} : mem.trial[u] = disk.trial[u]
      OBVIOUS
    <3>0. CASE /\ disk.trial[t].status \in Waiting
               /\ \A u \in Trials : disk.trial[u].status # "running"
               /\ mem.trial[t].status = "running"
               /\ mem.trial[t].attempts = disk.trial[t].attempts
      <4>1. Ledger!Mark(t)
        BY <3>0, <3>1 DEF Ledger!Mark, Waiting, Ledger!Waiting
      <4>2. Ledger!Pause
        BY <4>1 DEF Ledger!Pause
      <4> QED
        BY <4>2 DEF Ledger!LedgerNext
    <3> SUFFICES ASSUME disk.trial[t].status = "running",
                        mem.trial[t].attempts = disk.trial[t].attempts + 1
                 PROVE  Ledger!LedgerNext
      BY <3>0 DEF VerdictInv, UnsavedVerdict
    <3>2. /\ disk.trial[t].status = "running"
          /\ mem.trial[t].status \in TrialStatus \ {"pending"}
          /\ mem.trial[t].attempts = disk.trial[t].attempts + 1
          /\ mem.trial[t].status = "infra_invalid_retry_scheduled" =>
               disk.trial[t].attempts + 1 <= MaxInfraRetries
          /\ mem.trial[t].status = "infra_invalid_exhausted" =>
               disk.trial[t].attempts + 1 > MaxInfraRetries
      BY <2>3, FieldTypes DEF VerdictInv, UnsavedVerdict, TypeOK
    <3>3. Ledger!Verdict(t, mem.trial[t].status)
      BY <2>1, <3>1, <3>2 DEF Ledger!Verdict
    <3>4. mem.trial[t].status \in Ledger!TrialStatus \ {"pending"}
      BY <3>2 DEF TrialStatus, Ledger!TrialStatus
    <3>5. \E s \in Ledger!TrialStatus \ {"pending"} : Ledger!Verdict(t, s)
      BY ONLY <3>3, <3>4 DEF Ledger!Verdict
    <3>6. Ledger!Pause
      BY <2>1, <3>5 DEF Ledger!Pause
    <3> QED
      BY <3>6 DEF Ledger!LedgerNext
  <2> QED
    BY <2>2, <2>3
<1>26. CASE LogPaused
  BY <1>26, LedgerStutters DEF LogPaused
<1>27. CASE WriteFinalStatus
  <2>1. /\ mem = disk /\ disk.status = "running"
        /\ \A t \in Trials : disk.trial[t].status \in Settled
        /\ disk'.status = FinalStatus(disk) /\ disk'.trial = disk.trial
    BY <1>27, SetRunStatus
    DEF WriteFinalStatus, SyncInv, Ahead, TypeOK, RunStatus, FinalStatus
  <2>2. Ledger!Finish
    BY <2>1 DEF Ledger!Finish, FinalStatus, Settled, Ledger!Settled, TrialStatus,
       Ledger!TrialStatus, Waiting, Ledger!Waiting
  <2> QED
    BY <2>2 DEF Ledger!LedgerNext
<1>28. CASE CollectKeys
  BY <1>28, LedgerStutters, BackfilledFacts DEF CollectKeys, SyncInv, Ahead, TypeOK
<1>29. CASE GenerateReports
  BY <1>29, LedgerStutters DEF GenerateReports
<1>30. CASE WriteReportStatus
  BY <1>30, LedgerStutters DEF WriteReportStatus, SyncInv, OnlyInFlightUnsaved
<1>31. CASE LogFinished
  BY <1>31, LedgerStutters DEF LogFinished
<1>32. CASE Interrupt
  BY <1>32, LedgerStutters DEF Interrupt
<1>33. CASE InterruptUncaught
  BY <1>33, LedgerStutters DEF InterruptUncaught
<1>34. CASE Crash
  BY <1>34, LedgerStutters DEF Crash
<1>35. CASE UNCHANGED vars
  BY <1>35, LedgerStutters DEF vars, vars
<1> QED
  BY <1>1, <1>2, <1>3, <1>4, <1>5, <1>6, <1>7, <1>8, <1>9, <1>10, <1>10a, <1>11, <1>12, <1>13,
     <1>14, <1>15, <1>16, <1>17, <1>18, <1>19, <1>20, <1>21, <1>22, <1>23, <1>24, <1>25,
     <1>26, <1>27, <1>28, <1>29, <1>30, <1>31, <1>32, <1>33, <1>34, <1>35 DEF Next,
     Process, Round, Operator, Fault

\* The contents of state.json are a behaviour of the ledger, however often the
\* run is interrupted, crashes, is resumed or has its reports regenerated.
THEOREM RefinementTheorem == Spec => RefinesLedger
<1>1. Init => VerdictInv
  BY VerdictInit
<1>2. IInv /\ VerdictInv /\ [Next]_vars => VerdictInv'
  BY VerdictStep DEF IInv
<1>3. Init => Ledger!LedgerInit
  BY LedgerInitially
<1>4. IInv /\ VerdictInv /\ [Next]_vars => [Ledger!LedgerNext]_(Ledger!ledgerVars)
  BY LedgerSteps DEF IInv
<1> QED
  BY <1>1, <1>2, <1>3, <1>4, Inductive, PTL DEF Spec, RefinesLedger, Ledger!LedgerSpec

-----------------------------------------------------------------------------
(* Progress: how much a process, and a run, has left to do.                *)

\* The attempts that the retry limit leaves, attempt n included.
From(n) == IF n <= MaxInfraRetries THEN MaxInfraRetries + 1 - n ELSE 0

\* How often trial t of state s can be launched and recorded.
Launches(s, t) ==
  IF s.trial[t].status \in Settled THEN 0 ELSE 1 + From(s.trial[t].attempts + 1)

\* The same in a process, whose launch of the trial in flight is behind it.
LaunchesLeft(t) ==
  IF t = cur /\ mem.trial[t].status = "running" THEN From(try) ELSE Launches(mem, t)

\* What the run has left to do, by state.json.
Work == SumFunctionOnSet([t \in Trials |-> Launches(disk, t)], Trials)

\* What the process has.
ProcessWork == SumFunctionOnSet([t \in Trials |-> LaunchesLeft(t)], Trials)

\* The steps from a place in the code to the head of the loop, and from there to
\* the end, if no trial is launched.
Place ==
  [closing |-> 1, reported |-> 2, reporting |-> 3, collecting |-> 4, finishing |-> 5,
   paused |-> 1, pausing |-> 2, loop |-> 6, recorded |-> 7, settled |-> 8, flagged |-> 9,
   stored |-> 10, scored |-> 11, costed |-> 12, counted |-> 13, classified |-> 14,
   harbor |-> 15, started |-> 16, starting |-> 17, entry |-> 7, created |-> 8, creating |-> 9]

\* A launch is worth the steps of a round.
StepsLeft == IF pc = "down" THEN 0 ELSE 12 * ProcessWork + Place[pc]

MaxWork == (MaxInfraRetries + 1) * Cardinality(Trials)

\* An attempt more leaves one less, while any is left.
LEMMA FromFacts ==
  ASSUME NEW n \in Nat
  PROVE  /\ From(n) \in Nat /\ From(n) <= MaxInfraRetries + 1
         /\ From(n + 1) \in Nat /\ 1 + From(n + 1) <= MaxInfraRetries + 1
         /\ From(n + 1) <= From(n)
         /\ n <= MaxInfraRetries => From(n) = 1 + From(n + 1)
  BY RunLoopAssumption DEF From

\* A trial can be launched once and retried MaxInfraRetries times.
LEMMA LaunchesFacts ==
  ASSUME NEW s \in RunStateType, NEW t \in Trials
  PROVE  Launches(s, t) \in Nat /\ Launches(s, t) <= MaxInfraRetries + 1
<1>1. s.trial[t].attempts \in Nat
  BY FieldTypes
<1> QED
  BY <1>1, FromFacts, RunLoopAssumption DEF Launches

\* A trial that is as open as before, after as many attempts, is worth as much.
LEMMA LaunchesSame ==
  ASSUME NEW s, NEW r, NEW t \in Trials, r.trial[t].attempts = s.trial[t].attempts,
         r.trial[t].status \in Settled <=> s.trial[t].status \in Settled
  PROVE  Launches(r, t) = Launches(s, t)
  BY DEF Launches

\* What memory has not saved is worth less than what state.json has.
LEMMA UnsavedLaunches ==
  ASSUME TypeOK, NEW t \in Trials, UnsavedVerdict(t)
  PROVE  /\ Launches(mem, t) <= Launches(disk, t)
         /\ mem.trial[t].status \notin {"running", disk.trial[t].status} =>
              Launches(mem, t) < Launches(disk, t)
<1>1. /\ mem \in RunStateType /\ disk \in RunStateType
      /\ mem.trial[t].attempts \in Nat /\ disk.trial[t].attempts \in Nat
      /\ mem.trial[t].status \in TrialStatus
  BY FieldTypes DEF TypeOK
<1>2. CASE /\ mem.trial[t].status = disk.trial[t].status
           /\ mem.trial[t].attempts = disk.trial[t].attempts
  <2>1. Launches(mem, t) = Launches(disk, t)
    BY <1>2, LaunchesSame
  <2> QED
    BY <1>1, <1>2, <2>1, LaunchesFacts
<1>2a. CASE /\ disk.trial[t].status \in Waiting
            /\ mem.trial[t].status = "running"
            /\ mem.trial[t].attempts = disk.trial[t].attempts
  <2>1. Launches(mem, t) = Launches(disk, t)
    BY <1>2a, LaunchesSame DEF Settled, Waiting
  <2> QED
    BY <1>1, <1>2a, <2>1, LaunchesFacts
<1>3. CASE /\ disk.trial[t].status = "running"
           /\ mem.trial[t].status # "pending"
           /\ mem.trial[t].attempts = disk.trial[t].attempts + 1
           /\ mem.trial[t].status = "infra_invalid_retry_scheduled" =>
                mem.trial[t].attempts <= MaxInfraRetries
  <2> DEFINE n == mem.trial[t].attempts
  <2>1. Launches(disk, t) = 1 + From(n)
    BY <1>3 DEF Launches, Settled
  <2>2. From(n) \in Nat /\ From(n + 1) \in Nat /\ From(n + 1) <= From(n)
    BY <1>1, FromFacts
  <2>3. CASE mem.trial[t].status \in Settled
    <3>1. Launches(mem, t) = 0
      BY <2>3 DEF Launches
    <3> QED
      BY <2>1, <2>2, <3>1
  <2>4. CASE mem.trial[t].status = "running"
    <3>1. Launches(mem, t) = 1 + From(n + 1)
      BY <2>4 DEF Launches, Settled
    <3> QED
      BY <2>1, <2>2, <2>4, <3>1
  <2>5. CASE mem.trial[t].status = "infra_invalid_retry_scheduled"
    <3>1. Launches(mem, t) = 1 + From(n + 1)
      BY <2>5 DEF Launches, Settled, Waiting
    <3>2. From(n) = 1 + From(n + 1)
      BY <1>1, <1>3, <2>5, FromFacts
    <3> QED
      BY <2>1, <2>2, <3>1, <3>2
  <2> QED
    BY <1>1, <1>3, <2>3, <2>4, <2>5 DEF Settled, Waiting
<1> QED
  BY <1>2, <1>2a, <1>3 DEF UnsavedVerdict

\* A step leaves a trial of state.json as it was, or as open as it was, or makes it
\* what memory has.
LEMMA TrialOnDisk ==
  ASSUME TypeOK, ControlInv, SyncInv, [Next]_vars, NEW t \in Trials
  PROVE  \/ /\ disk'.trial[t].attempts = disk.trial[t].attempts
            /\ disk'.trial[t].status \in Settled <=> disk.trial[t].status \in Settled
         \/ /\ disk'.trial[t].attempts = mem.trial[t].attempts
            /\ disk'.trial[t].status = mem.trial[t].status
<1> DEFINE Goal == \/ /\ disk'.trial[t].attempts = disk.trial[t].attempts
                      /\ disk'.trial[t].status \in Settled <=> disk.trial[t].status \in Settled
                   \/ /\ disk'.trial[t].attempts = mem.trial[t].attempts
                      /\ disk'.trial[t].status = mem.trial[t].status
<1>1. CASE EnterLoop
  <2>1. mem = disk /\ disk' = mem' /\ mem \in RunStateType
    BY <1>1 DEF EnterLoop, Step, SyncInv, Ahead, TypeOK
  <2>2. mem'.trial = Requeued(mem).trial
    BY <1>1, EnterLoopFacts
  <2>3. /\ disk'.trial[t].attempts = disk.trial[t].attempts
        /\ \/ disk'.trial[t].status = disk.trial[t].status
           \/ disk.trial[t].status = "running" /\ disk'.trial[t].status = "pending"
    BY <2>1, <2>2, RequeuedFacts
  <2> QED
    BY <2>3 DEF Settled, Waiting
<1>3. CASE Pause \/ WriteFinalStatus
  <2>1. mem'.trial = mem.trial /\ disk' = mem'
    BY <1>3, SetRunStatus DEF Pause, WriteFinalStatus, TypeOK, RunStatus, FinalStatus
  <2> QED
    BY <2>1
<1>4. CASE CollectKeys
  BY <1>4, BackfilledFacts DEF CollectKeys, TypeOK
<1>5. CASE WriteInitialState \/ WriteStarted \/ WriteOutcome \/ WriteReportStatus
  BY <1>5 DEF WriteInitialState, WriteStarted, WriteOutcome, WriteReportStatus
<1>6. ASSUME disk' = disk PROVE Goal
  BY <1>6
<1>7. CASE Operator \/ Fault \/ UNCHANGED vars
  BY <1>6, <1>7 DEF Operator, Fault, CreateManifest, Resume, ResumeRefused, Regenerate, Interrupt,
     InterruptUncaught, Crash, vars, disks
<1>8. CASE \/ NothingPending \/ StopAtBudget \/ (\E u \in Trials : StartTrial(u)) \/ LogStarted
           \/ \E o \in Outcome, c \in Costs : HarborReturns(o, c)
           \/ RecordAttempt \/ RecordCost \/ SettleScored \/ SettleInfra \/ SettleAuth
           \/ SettleUnknown \/ IngestJob \/ IngestFails \/ FlagIngested \/ RecordKey \/ LogOutcome
  BY <1>6, <1>8 DEF NothingPending, StopAtBudget, StartTrial, LogStarted, HarborReturns, RecordAttempt,
     RecordCost, SettleScored, SettleInfra, SettleAuth, SettleUnknown, IngestJob, IngestFails,
     FlagIngested, RecordKey, LogOutcome, disks
<1>9. CASE LogCreated \/ LogPaused \/ GenerateReports \/ LogFinished
  BY <1>6, <1>9 DEF LogCreated, LogPaused, GenerateReports, LogFinished
<1> QED
  BY <1>1, <1>3, <1>4, <1>5, <1>7, <1>8, <1>9 DEF Next, Process, Round

\* What is left to do of a trial never grows, and recording its outcome makes it less.
LEMMA LaunchesStep ==
  ASSUME TypeOK, TypeOK', ControlInv, SyncInv, VerdictInv, [Next]_vars, NEW t \in Trials
  PROVE  /\ Launches(disk, t)' <= Launches(disk, t)
         /\ WriteOutcome /\ t = cur => Launches(disk, t)' < Launches(disk, t)
<1>0. disk \in RunStateType /\ disk' \in RunStateType /\ mem \in RunStateType
  BY DEF TypeOK
<1>1. Launches(disk', t) <= Launches(disk, t)
  <2>1. CASE /\ disk'.trial[t].attempts = disk.trial[t].attempts
             /\ disk'.trial[t].status \in Settled <=> disk.trial[t].status \in Settled
    BY <1>0, <2>1, LaunchesSame, LaunchesFacts
  <2>2. CASE /\ disk'.trial[t].attempts = mem.trial[t].attempts
             /\ disk'.trial[t].status = mem.trial[t].status
    <3>1. Launches(disk', t) = Launches(mem, t)
      BY <2>2, LaunchesSame
    <3> QED
      BY <3>1, UnsavedLaunches DEF VerdictInv
  <2> QED
    BY <2>1, <2>2, TrialOnDisk
<1>2. ASSUME WriteOutcome, t = cur PROVE Launches(disk', t) < Launches(disk, t)
  <2>1. disk' = mem /\ pc = "settled"
    BY <1>2 DEF WriteOutcome, Step
  <2>2. mem.trial[t].status \notin {"pending", "running"}
    BY <1>2, <2>1 DEF ControlInv
  <2>3. disk.trial[t].status = "running"
    BY <1>2, <2>1 DEF SyncInv, InFlight
  <2> QED
    BY <2>1, <2>2, <2>3, UnsavedLaunches DEF VerdictInv
<1> QED
  BY <1>1, <1>2

\* The steps by which the work of a run shrinks.
LEMMA WorkStep ==
  ASSUME IsFiniteSet(Trials), TypeOK, TypeOK', ControlInv, SyncInv, VerdictInv, [Next]_vars
  PROVE  Work' <= Work /\ (WriteOutcome => Work' < Work)
<1> DEFINE f == [t \in Trials |-> Launches(disk', t)]
           g == [t \in Trials |-> Launches(disk, t)]
<1>1. Work' = SumFunctionOnSet(f, Trials) /\ Work = SumFunctionOnSet(g, Trials)
  BY DEF Work
<1>2. \A t \in Trials : f[t] \in Nat /\ g[t] \in Nat /\ f[t] <= g[t]
  BY LaunchesStep, LaunchesFacts DEF TypeOK
<1>3. ASSUME WriteOutcome PROVE cur \in Trials /\ f[cur] < g[cur]
  <2>1. cur \in Trials
    BY <1>3 DEF WriteOutcome, Step, ControlInv, InFlight
  <2> QED
    BY <1>3, <2>1, LaunchesStep
<1> HIDE DEF f, g
<1>4. SumFunctionOnSet(f, Trials) <= SumFunctionOnSet(g, Trials)
  BY <1>2, SumAtMost
<1>5. ASSUME WriteOutcome PROVE SumFunctionOnSet(f, Trials) < SumFunctionOnSet(g, Trials)
  BY <1>2, <1>3, <1>5, SumLess
<1> QED
  BY <1>1, <1>4, <1>5

\* Nothing that happens to a run, crashes and interrupts included, gives it more to do,
\* and each outcome written to state.json leaves it less: however often a run of finitely
\* many trials is interrupted and resumed, its trials are settled after MaxWork recorded
\* outcomes.  (execute_loop)
THEOREM WorkShrinks ==
  ASSUME IsFiniteSet(Trials)
  PROVE  Spec => [][Work' <= Work /\ (WriteOutcome => Work' < Work)]_vars
<1>1. IInv /\ VerdictInv /\ [Next]_vars => VerdictInv'
  BY VerdictStep DEF IInv
<1>2. IInv /\ IInv' /\ VerdictInv /\ [Next]_vars =>
        [Work' <= Work /\ (WriteOutcome => Work' < Work)]_vars
  BY WorkStep DEF IInv
<1> QED
  BY <1>1, <1>2, VerdictInit, Inductive, PTL DEF Spec

\* The trial in flight is worth no more than any other.
LEMMA LaunchesLeftFacts ==
  ASSUME TypeOK, NEW t \in Trials
  PROVE  LaunchesLeft(t) \in Nat /\ LaunchesLeft(t) <= MaxInfraRetries + 1
  BY LaunchesFacts, FromFacts DEF TypeOK, LaunchesLeft

\* A trial whose status and attempts a process leaves alone is worth as much to it.
LEMMA LeftKept ==
  ASSUME NEW t \in Trials, cur' = cur, try' = try,
         mem'.trial[t].status = mem.trial[t].status,
         mem'.trial[t].attempts = mem.trial[t].attempts
  PROVE  LaunchesLeft(t)' = LaunchesLeft(t)
  BY DEF LaunchesLeft, Launches

\* A trial whose verdict a process finds is worth no more to it than its retries.
LEMMA LeftSettled ==
  ASSUME TypeOK, pc = "costed", AttemptInv, OrderInv, cur \in Trials, cur' = cur, try' = try,
         mem'.trial[cur].attempts = mem.trial[cur].attempts,
         \/ mem'.trial[cur].status \in Settled
         \/ mem'.trial[cur].status = "infra_invalid_retry_scheduled" /\ try <= MaxInfraRetries,
         \A u \in Trials \ {cur} : mem'.trial[u] = mem.trial[u],
         NEW t \in Trials
  PROVE  LaunchesLeft(t)' <= LaunchesLeft(t)
<1>1. CASE t # cur
  BY <1>1, LeftKept, LaunchesLeftFacts
<1>2. CASE t = cur
  <2>1. try \in Nat /\ LaunchesLeft(cur) = From(try)
    BY DEF OrderInv, LaunchesLeft, TypeOK
  <2>2. mem'.trial[cur].status # "running" /\ mem'.trial[cur].attempts = try
    BY DEF AttemptInv, Settled
  <2>3. CASE mem'.trial[cur].status \in Settled
    <3>1. LaunchesLeft(t)' = 0
      BY <1>2, <2>2, <2>3 DEF LaunchesLeft, Launches
    <3> QED
      BY <1>2, <2>1, <3>1, FromFacts
  <2>4. CASE mem'.trial[cur].status = "infra_invalid_retry_scheduled" /\ try <= MaxInfraRetries
    <3>1. LaunchesLeft(t)' = 1 + From(try + 1)
      BY <1>2, <2>2, <2>4 DEF LaunchesLeft, Launches, Settled, Waiting
    <3> QED
      BY <1>2, <2>1, <2>4, <3>1, FromFacts
  <2> QED
    BY <2>3, <2>4
<1> QED
  BY <1>1, <1>2

\* Launching a trial leaves less to do of it, and as much of the others.
LEMMA LeftStart ==
  ASSUME TypeOK, ControlInv, NEW u \in Trials, StartTrial(u), NEW t \in Trials
  PROVE  /\ LaunchesLeft(t)' <= LaunchesLeft(t)
         /\ t = u => LaunchesLeft(t)' < LaunchesLeft(t)
<1>0. LaunchesLeft(t) \in Nat /\ mem.trial[t].attempts \in Nat
  BY LaunchesLeftFacts, FieldTypes DEF TypeOK
<1>1. /\ cur \notin Trials /\ cur' = u /\ try' = mem.trial[u].attempts + 1
      /\ mem.trial[u].status \in Waiting
  BY RunLoopAssumption DEF StartTrial, Step, ControlInv, IsNext, PendingTrials
<1>2. mem'.trial[u].status = "running" /\ \A v \in Trials \ {u} : mem'.trial[v] = mem.trial[v]
  BY StartTrialFacts
<1>3. CASE t = u
  <2>1. LaunchesLeft(t)' = From(mem.trial[t].attempts + 1)
    BY <1>1, <1>2, <1>3 DEF LaunchesLeft
  <2>2. LaunchesLeft(t) = 1 + From(mem.trial[t].attempts + 1)
    BY <1>1, <1>3 DEF LaunchesLeft, Launches, Settled
  <2>3. From(mem.trial[t].attempts + 1) \in Nat
    BY <1>0, FromFacts
  <2> QED
    BY <2>1, <2>2, <2>3
<1>4. CASE t # u
  <2>1. LaunchesLeft(t)' = LaunchesLeft(t)
    BY <1>1, <1>2, <1>4 DEF LaunchesLeft, Launches
  <2> QED
    BY <1>0, <1>4, <2>1
<1> QED
  BY <1>3, <1>4

\* No step of a process gives it more to do of a trial.
LEMMA LeftStep ==
  ASSUME TypeOK, TypeOK', ControlInv, SyncInv, AttemptInv, OrderInv, Process \/ Interrupt,
         pc' # "down", NEW t \in Trials
  PROVE  LaunchesLeft(t)' <= LaunchesLeft(t)
<1>0. /\ LaunchesLeft(t)' \in Nat /\ LaunchesLeft(t) \in Nat /\ mem \in RunStateType
      /\ mem.trial[t].attempts \in Nat
  <2>1. LaunchesLeft(t) \in Nat
    BY LaunchesLeftFacts
  <2>2. LaunchesLeft(t)' \in Nat
    <3>1. Launches(mem', t) \in Nat /\ From(try') \in Nat
      BY LaunchesFacts, FromFacts DEF TypeOK
    <3> QED
      BY <3>1 DEF LaunchesLeft
  <2> QED
    BY <2>1, <2>2, FieldTypes DEF TypeOK
<1>1. CASE EnterLoop
  <2>1. cur \notin Trials /\ cur' = cur
    BY <1>1, RunLoopAssumption DEF EnterLoop, Step, ControlInv, locals
  <2>2. mem'.trial = Requeued(mem).trial
    BY <1>1, EnterLoopFacts
  <2>3. /\ mem'.trial[t].attempts = mem.trial[t].attempts
        /\ mem'.trial[t].status \in Settled <=> mem.trial[t].status \in Settled
    BY <1>0, <2>2, RequeuedFacts DEF Settled, Waiting
  <2>4. Launches(mem', t) = Launches(mem, t)
    BY <2>3, LaunchesSame
  <2> QED
    BY <1>0, <2>1, <2>4 DEF LaunchesLeft
<1>2. CASE \E u \in Trials : StartTrial(u)
  BY <1>2, LeftStart
<1>3. CASE RecordAttempt
  <2>1. /\ cur \in Trials /\ cur' = cur /\ try' = try /\ mem.trial[cur].status = "running"
    BY <1>3 DEF RecordAttempt, Step, ControlInv, InFlight, OrderInv, locals
  <2>2. /\ mem'.trial[cur].status = "running"
        /\ \A u \in Trials \ {cur} : mem'.trial[u] = mem.trial[u]
    BY <1>3, <2>1, RecordAttemptFacts
  <2>3. LaunchesLeft(t)' = LaunchesLeft(t)
    BY <2>1, <2>2 DEF LaunchesLeft, Launches
  <2> QED
    BY <1>0, <2>3
<1>4. CASE SettleScored \/ SettleInfra \/ SettleAuth \/ SettleUnknown
  <2>1. pc = "costed" /\ cur \in Trials /\ cur' = cur /\ try' = try
    BY <1>4 DEF SettleScored, SettleInfra, SettleAuth, SettleUnknown, Step, ControlInv, InFlight,
       locals
  <2>2. /\ mem'.trial[cur].attempts = mem.trial[cur].attempts
        /\ \A u \in Trials \ {cur} : mem'.trial[u] = mem.trial[u]
    BY <1>4, SettleScoredFacts, SettleInfraFacts, SettleAuthFacts, SettleUnknownFacts
  <2>3. \/ mem'.trial[cur].status \in Settled
        \/ mem'.trial[cur].status = "infra_invalid_retry_scheduled" /\ try <= MaxInfraRetries
    <3>1. CASE SettleScored
      BY <3>1, SettleScoredFacts DEF SettleScored, Scored, Settled, Waiting, TrialStatus
    <3>2. CASE SettleInfra
      BY <3>2, SettleInfraFacts, RunLoopAssumption
      DEF InfraStatus, Settled, Waiting, TrialStatus, TypeOK
    <3>3. CASE SettleAuth \/ SettleUnknown
      BY <3>3, SettleAuthFacts, SettleUnknownFacts DEF Settled, Waiting, TrialStatus
    <3> QED
      BY <1>4, <3>1, <3>2, <3>3
  <2> QED
    BY <2>1, <2>2, <2>3, LeftSettled
<1>5. CASE LogOutcome
  <2>1. /\ cur \in Trials /\ mem.trial[cur].status # "running"
        /\ mem' = mem /\ cur' \notin Trials
    BY <1>5, RunLoopAssumption DEF LogOutcome, ControlInv, InFlight
  <2>2. LaunchesLeft(t)' = LaunchesLeft(t)
    BY <2>1 DEF LaunchesLeft, Launches
  <2> QED
    BY <1>0, <2>2
<1>6. ASSUME cur' = cur, try' = try,
             /\ mem'.trial[t].status = mem.trial[t].status
             /\ mem'.trial[t].attempts = mem.trial[t].attempts
      PROVE  LaunchesLeft(t)' <= LaunchesLeft(t)
  BY <1>0, <1>6, LeftKept
<1>7. CASE \/ WriteInitialState \/ LogCreated \/ NothingPending \/ StopAtBudget
           \/ WriteStarted \/ LogStarted \/ (\E o \in Outcome, c \in Costs : HarborReturns(o, c))
           \/ IngestJob \/ IngestFails \/ WriteOutcome \/ WriteReportStatus \/ Interrupt
  BY <1>6, <1>7 DEF WriteInitialState, LogCreated, NothingPending, StopAtBudget, WriteStarted,
     LogStarted, HarborReturns, IngestJob, IngestFails, WriteOutcome, WriteReportStatus, Interrupt, locals
<1>8. CASE RecordCost \/ Pause \/ WriteFinalStatus \/ GenerateReports
  <2>1. mem'.trial = mem.trial
    <3>1. CASE RecordCost
      BY <3>1, AddCost DEF RecordCost, TypeOK
    <3>2. CASE Pause \/ WriteFinalStatus
      BY <3>2, SetRunStatus DEF Pause, WriteFinalStatus, TypeOK, RunStatus, FinalStatus
    <3>3. CASE GenerateReports
      BY <3>3, SetReported DEF GenerateReports, TypeOK
    <3> QED
      BY <1>8, <3>1, <3>2, <3>3
  <2> QED
    BY <1>6, <1>8, <2>1 DEF RecordCost, Pause, WriteFinalStatus, GenerateReports, locals
<1>9. CASE FlagIngested \/ RecordKey
  <2>1. /\ mem'.trial[t].status = mem.trial[t].status
        /\ mem'.trial[t].attempts = mem.trial[t].attempts
    BY <1>9, FlagIngestedFacts, RecordKeyFacts
  <2> QED
    BY <1>6, <1>9, <2>1 DEF FlagIngested, RecordKey, locals
<1>10. CASE CollectKeys
  <2>1. /\ mem'.trial[t].status = mem.trial[t].status
        /\ mem'.trial[t].attempts = mem.trial[t].attempts
    BY <1>0, <1>10, BackfilledFacts DEF CollectKeys
  <2> QED
    BY <1>6, <1>10, <2>1 DEF CollectKeys, locals
<1>11. CASE LogPaused \/ LogFinished
  BY <1>11 DEF LogPaused, LogFinished, Exit
<1> QED
  BY <1>1, <1>2, <1>3, <1>4, <1>5, <1>7, <1>8, <1>9, <1>10, <1>11 DEF Process, Round

\* The table of places, as equations.
LEMMA PlaceValues ==
  /\ Place["closing"] = 1 /\ Place["reported"] = 2 /\ Place["reporting"] = 3
  /\ Place["collecting"] = 4 /\ Place["finishing"] = 5 /\ Place["paused"] = 1
  /\ Place["pausing"] = 2 /\ Place["loop"] = 6 /\ Place["recorded"] = 7
  /\ Place["settled"] = 8 /\ Place["flagged"] = 9 /\ Place["stored"] = 10
  /\ Place["scored"] = 11 /\ Place["costed"] = 12 /\ Place["counted"] = 13
  /\ Place["classified"] = 14 /\ Place["harbor"] = 15 /\ Place["started"] = 16
  /\ Place["starting"] = 17 /\ Place["entry"] = 7 /\ Place["created"] = 8 /\ Place["creating"] = 9
  BY DEF Place

\* A step of a process brings it nearer to its end, or launches a trial.
LEMMA NearerStep ==
  ASSUME Process \/ Interrupt, pc' # "down"
  PROVE  /\ pc # "down" /\ Place[pc] \in 1..17 /\ Place[pc'] \in 1..17
         /\ \/ Place[pc'] < Place[pc]
            \/ \E t \in Trials : StartTrial(t) /\ Place[pc'] = Place[pc] + 11
<1> USE PlaceValues DEF Step
<1>1. CASE \E t \in Trials : StartTrial(t)
  <2>1. PICK t \in Trials : StartTrial(t)
    BY <1>1
  <2>2. pc = "loop" /\ pc' = "starting"
    BY <2>1 DEF StartTrial
  <2> QED
    BY <2>1, <2>2
<1>2. CASE \/ WriteInitialState \/ LogCreated \/ EnterLoop \/ NothingPending \/ StopAtBudget
           \/ WriteStarted \/ LogStarted \/ (\E o \in Outcome, c \in Costs : HarborReturns(o, c))
  BY <1>2 DEF WriteInitialState, LogCreated, EnterLoop, NothingPending, StopAtBudget,
     WriteStarted, LogStarted, HarborReturns
<1>3. CASE \/ RecordAttempt \/ RecordCost \/ SettleScored \/ SettleInfra \/ SettleAuth
           \/ SettleUnknown \/ IngestJob \/ IngestFails \/ FlagIngested \/ RecordKey
           \/ WriteOutcome \/ LogOutcome
  BY <1>3 DEF RecordAttempt, RecordCost, SettleScored, SettleInfra, SettleAuth, SettleUnknown,
     IngestJob, IngestFails, FlagIngested, RecordKey, WriteOutcome, LogOutcome
<1>4. CASE Pause \/ WriteFinalStatus \/ CollectKeys \/ GenerateReports \/ WriteReportStatus
  BY <1>4 DEF Pause, WriteFinalStatus, CollectKeys, GenerateReports, WriteReportStatus
<1>5. CASE LogPaused \/ LogFinished
  BY <1>5 DEF LogPaused, LogFinished, Exit
<1>6. CASE Interrupt
  BY <1>6 DEF Interrupt, InTry
<1> QED
  BY <1>1, <1>2, <1>3, <1>4, <1>5, <1>6 DEF Process, Round

\* The last step of a process.
LEMMA PlaceLast ==
  ASSUME Process \/ Interrupt, pc' = "down"
  PROVE  pc # "down" /\ Place[pc] \in 1..17
<1>1. pc \in {"paused", "closing"}
  <2>1. ~Round
    BY DEF Round, Step, NothingPending, StopAtBudget, StartTrial, WriteStarted, LogStarted, HarborReturns,
       RecordAttempt, RecordCost, SettleScored, SettleInfra, SettleAuth, SettleUnknown, IngestJob,
       IngestFails, FlagIngested, RecordKey, WriteOutcome, LogOutcome
  <2>2. ~Interrupt
    BY DEF Interrupt
  <2> QED
    BY <2>1, <2>2 DEF Process, Step, WriteInitialState, LogCreated, EnterLoop, Pause, LogPaused,
       WriteFinalStatus, CollectKeys, GenerateReports, WriteReportStatus, LogFinished
<1> QED
  BY <1>1, PlaceValues

\* A process that does not die has ever fewer steps left.
LEMMA StepsStep ==
  ASSUME IsFiniteSet(Trials), TypeOK, TypeOK', ControlInv, SyncInv, AttemptInv, OrderInv,
         Process \/ Interrupt
  PROVE  StepsLeft' < StepsLeft
<1> DEFINE f == [t \in Trials |-> LaunchesLeft(t)']
           g == [t \in Trials |-> LaunchesLeft(t)]
<1>1. ProcessWork' = SumFunctionOnSet(f, Trials) /\ ProcessWork = SumFunctionOnSet(g, Trials)
  BY DEF ProcessWork
<1>2. \A t \in Trials : f[t] \in Nat /\ g[t] \in Nat
  <2>1. ASSUME NEW t \in Trials PROVE LaunchesLeft(t)' \in Nat
    <3>1. Launches(mem', t) \in Nat /\ From(try') \in Nat
      BY LaunchesFacts, FromFacts DEF TypeOK
    <3> QED
      BY <3>1 DEF LaunchesLeft
  <2> QED
    BY <2>1, LaunchesLeftFacts
<1>3. ASSUME pc' # "down", NEW t \in Trials PROVE f[t] <= g[t]
  BY <1>3, LeftStep
<1>4. ASSUME NEW t \in Trials, StartTrial(t) PROVE f[t] < g[t]
  BY <1>4, LeftStart
<1> HIDE DEF f, g
<1>5. ProcessWork' \in Nat /\ ProcessWork \in Nat
  BY <1>1, <1>2, SumType
<1>6. CASE pc' = "down"
  <2>1. pc # "down" /\ Place[pc] \in 1..17
    BY <1>6, PlaceLast
  <2> QED
    BY <1>5, <1>6, <2>1 DEF StepsLeft
<1>7. CASE pc' # "down"
  <2>1. ProcessWork' <= ProcessWork
    BY <1>1, <1>2, <1>3, <1>7, SumAtMost
  <2>2. pc # "down" /\ Place[pc] \in 1..17 /\ Place[pc'] \in 1..17
    BY <1>7, NearerStep
  <2>3. StepsLeft' = 12 * ProcessWork' + Place[pc'] /\ StepsLeft = 12 * ProcessWork + Place[pc]
    BY <1>7, <2>2 DEF StepsLeft
  <2>4. CASE Place[pc'] < Place[pc]
    BY <1>5, <2>1, <2>2, <2>3, <2>4
  <2>5. ASSUME NEW t \in Trials, StartTrial(t), Place[pc'] = Place[pc] + 11
        PROVE  StepsLeft' < StepsLeft
    <3>1. ProcessWork' < ProcessWork
      BY <1>1, <1>2, <1>3, <1>4, <1>7, <2>5, SumLess
    <3> QED
      BY <1>5, <2>2, <2>3, <2>5, <3>1
  <2> QED
    BY <1>7, <2>4, <2>5, NearerStep
<1> QED
  BY <1>6, <1>7

\* The process that works on the run, unless it dies, comes nearer to its end with each
\* step, whatever Harbor returns and wherever it is interrupted: no loop of the code goes
\* round for ever.  (execute_loop, regenerate_reports)
THEOREM ProcessRunsDown ==
  ASSUME IsFiniteSet(Trials)
  PROVE  Spec => [][Process \/ Interrupt => StepsLeft' < StepsLeft]_vars
<1>1. IInv /\ OrderInv /\ [Next]_vars => OrderInv'
  BY OrderStep DEF IInv
<1>2. IInv /\ IInv' /\ OrderInv /\ [Next]_vars =>
        [Process \/ Interrupt => StepsLeft' < StepsLeft]_vars
  BY StepsStep DEF IInv
<1> QED
  BY <1>1, <1>2, OrderInit, Inductive, PTL DEF Spec

\* A sum of launches over the trials is at most MaxWork.
LEMMA WorkBound ==
  ASSUME IsFiniteSet(Trials), NEW f, \A t \in Trials : f[t] \in Nat /\ f[t] <= MaxInfraRetries + 1
  PROVE  SumFunctionOnSet(f, Trials) \in 0..MaxWork
<1> DEFINE g == [t \in Trials |-> MaxInfraRetries + 1]
<1>1. MaxInfraRetries + 1 \in Nat /\ \A t \in Trials : g[t] = MaxInfraRetries + 1
  BY RunLoopAssumption
<1> HIDE DEF g
<1>2. SumFunctionOnSet(f, Trials) <= SumFunctionOnSet(g, Trials)
  BY <1>1, SumAtMost
<1>3. SumFunctionOnSet(g, Trials) = MaxWork
  <2> DEFINE k == MaxInfraRetries + 1
  <2>1. k \in Nat /\ \A t \in Trials : g[t] = k
    BY <1>1
  <2> HIDE DEF k
  <2>2. SumFunctionOnSet(g, Trials) = k * Cardinality(Trials)
    BY <2>1, SumConstant
  <2> QED
    BY <2>2 DEF k, MaxWork
<1>4. SumFunctionOnSet(f, Trials) \in Nat /\ SumFunctionOnSet(g, Trials) \in Nat
  BY <1>1, SumType
<1> QED
  BY <1>2, <1>3, <1>4

\* The bounds on what a run and a process have left to do.
LEMMA StepsBound ==
  ASSUME IsFiniteSet(Trials), TypeOK
  PROVE  Work \in 0..MaxWork /\ StepsLeft \in 0..(12 * MaxWork + 17)
<1>1. Work \in 0..MaxWork
  <2> DEFINE f == [t \in Trials |-> Launches(disk, t)]
  <2>1. \A t \in Trials : f[t] \in Nat /\ f[t] <= MaxInfraRetries + 1
    BY LaunchesFacts DEF TypeOK
  <2> HIDE DEF f
  <2>2. SumFunctionOnSet(f, Trials) \in 0..MaxWork
    BY <2>1, WorkBound
  <2> QED
    BY <2>2 DEF Work, f
<1>2. ProcessWork \in 0..MaxWork
  <2> DEFINE f == [t \in Trials |-> LaunchesLeft(t)]
  <2>1. \A t \in Trials : f[t] \in Nat /\ f[t] <= MaxInfraRetries + 1
    BY LaunchesLeftFacts
  <2> HIDE DEF f
  <2>2. SumFunctionOnSet(f, Trials) \in 0..MaxWork
    BY <2>1, WorkBound
  <2> QED
    BY <2>2 DEF ProcessWork, f
<1>3. MaxWork \in Nat
  <2>1. Cardinality(Trials) \in Nat /\ MaxInfraRetries + 1 \in Nat
    BY FS_CardinalityType, RunLoopAssumption
  <2>2. \A m, n \in Nat : m * n \in Nat
    OBVIOUS
  <2> QED
    BY <2>1, <2>2 DEF MaxWork
<1>4. pc # "down" => Place[pc] \in 1..17
  BY PlaceValues DEF TypeOK, PC, InTry
<1> QED
  BY <1>1, <1>2, <1>3, <1>4 DEF StepsLeft

\* What a run and a process have left to do is bounded by the plan: a launch for each
\* trial and each retry, and a round of steps for each launch.  (execute_loop)
THEOREM WorkIsBounded ==
  ASSUME IsFiniteSet(Trials)
  PROVE  Spec => [](Work \in 0..MaxWork /\ StepsLeft \in 0..(12 * MaxWork + 17))
<1>1. IInv => Work \in 0..MaxWork /\ StepsLeft \in 0..(12 * MaxWork + 17)
  BY StepsBound DEF IInv
<1> QED
  BY <1>1, Inductive, PTL

\* What a process needs to take its next step, beside being there.
Unblocked ==
  /\ pc = "loop" => PendingTrials(mem) = {} \/ BudgetReached(mem) \/ \E t \in Trials : IsNext(t)
  /\ pc = "costed" => outcome \in Scored \cup {"infra_invalid", "auth_error", "unknown"}
  /\ pc = "recorded" => mem.trial[cur].status \in DOMAIN OutcomeEvent
  /\ pc = "reporting" => KeysResolve(mem)

\* A trial that waits has one that is first in order.
LEMMA NextTrial ==
  ASSUME PendingTrials(mem) # {}
  PROVE  \E t \in Trials : IsNext(t)
<1> DEFINE S == {Rank[t] : t \in PendingTrials(mem)}
<1>1. PendingTrials(mem) \subseteq Trials /\ \A t \in Trials : Rank[t] \in Nat
  BY RunLoopAssumption DEF PendingTrials, Rank
<1>2. S \in SUBSET Nat /\ S # {}
  BY <1>1
<1> HIDE DEF S
<1>3. PICK n \in S : \A m \in S : n <= m
  BY <1>2, Least
<1>4. PICK t \in PendingTrials(mem) : n = Rank[t]
  BY <1>3 DEF S
<1>5. \A u \in PendingTrials(mem) : Rank[u] \in S
  BY DEF S
<1> QED
  BY <1>1, <1>3, <1>4, <1>5 DEF IsNext

\* The step that a process is at has what it needs.
LEMMA UnblockedAlways == IInv /\ ReportInv => Unblocked
<1> SUFFICES ASSUME IInv, ReportInv PROVE Unblocked
  OBVIOUS
<1> USE DEF IInv
<1>1. pc = "loop" => PendingTrials(mem) = {} \/ \E t \in Trials : IsNext(t)
  BY NextTrial
<1>2. pc = "costed" => outcome \in Scored \cup {"infra_invalid", "auth_error", "unknown"}
  BY DEF ControlInv, Outcome, Scored
<1>3. pc = "recorded" => mem.trial[cur].status \in DOMAIN OutcomeEvent
  BY DEF ControlInv, OutcomeEvent, TrialStatus
<1>4. ASSUME pc = "reporting" PROVE KeysResolve(mem)
  <2>1. \A t \in Reportable(mem) : mem.trial[t].key = mem.trial[t].attempts
    BY <1>4 DEF ReportInv
  <2>2. KeyRows(mem) = ReportRows(mem)
    BY <2>1, KeyRowsFacts
  <2>3. ASSUME NEW t \in Reportable(mem)
        PROVE  \E r \in KeyRows(mem) : r.trial = t
    <3> DEFINE r == RowOf(t, mem.trial[t].attempts, mem.trial[t].status)
    <3>1. r \in KeyRows(mem)
      BY <2>2, <2>3 DEF ReportRows
    <3>2. r.trial = t
      BY DEF RowOf
    <3> QED
      BY <3>1, <3>2
  <2> QED
    BY <2>3 DEF KeysResolve
<1> QED
  BY <1>1, <1>2, <1>3, <1>4 DEF Unblocked

\* A process never comes to a place it cannot leave: a waiting trial can be picked, every
\* outcome has its branch and its event, and no recorded trial key lacks the row that a
\* report needs (ReportMembershipError is never raised).  (execute_loop,
\* generate_reports_for_run)
THEOREM NeverBlocked == Spec => []Unblocked
<1>1. IInv /\ ReportInv /\ [Next]_vars => ReportInv'
  BY ReportStep DEF IInv
<1> QED
  BY <1>1, UnblockedAlways, ReportInit, Inductive, PTL DEF Spec

=============================================================================
