------------------------- MODULE RunProcessesProofs -------------------------
(***************************************************************************)
(* Proofs that state.json stays a consistent record of the run, for every  *)
(* number of processes that write it, crashes and interrupts.              *)
(*                                                                         *)
(* Every RunState of a process or of a file is Consistent by itself, so it *)
(* does not matter which of them is written last; what a process may do to *)
(* its own depends on the step it is at (AtStep); a row whose key it has   *)
(* yet to record stays in the database (Fetched).  Its cost is bounded by  *)
(* the results of the attempts it has counted (SpentInv), and what it has  *)
(* left to do by its own state alone (StepsLeft).                          *)
(***************************************************************************)
EXTENDS RunProcesses, DataLemmas

NoneRunning(s) == \A t \in Trials : s.trial[t].status # "running"

HasRow(s, t, rows) ==
  \E r \in rows :
    r.trial = t /\ r.try = s.trial[t].attempts /\ s.trial[t].key \in {NoKey, r.name}

\* What holds of a RunState wherever it is, rows being those of the database.
Consistent(s, rows) ==
  /\ \A t, u \in Trials :
       s.trial[t].status = "running" /\ s.trial[u].status = "running" => t = u
  /\ Finished(s) => \A t \in Trials : s.trial[t].status \in Settled
  /\ \A t \in Trials :
       s.trial[t].ingested => s.trial[t].status \in Scored /\ HasRow(s, t, rows)
  /\ \A t \in Trials : s.trial[t].ingested \/ s.trial[t].key = NoKey
  /\ WithinBudget(s)

\* What holds of the RunState s of a process that is at l, with trial t in flight.
AtStep(s, l, t) ==
  /\ l \in InTry => s.status = "running"
  /\ l \in {"loop", "ingest", "stored", "flagged"} => NoneRunning(s)
  /\ l \in {"harbor", "classify"} =>
       /\ t \in Trials /\ s.trial[t].status = "running"
       /\ \A u \in Trials \ {t} : s.trial[u].status # "running"
       /\ s.cost < MaxBudget
  /\ l \in {"ingest", "stored", "flagged"} => t \in Trials /\ s.trial[t].status \in Scored
  /\ l \in {"ingest", "stored"} => ~s.trial[t].ingested
  /\ l = "flagged" => s.trial[t].ingested

\* Where the process is, or will be when it has saved its state.
Goal(p) == IF pc[p] \in {"fill", "replace"} THEN next[p] ELSE pc[p]

\* The row whose key process p is to record.
Fetched(p) ==
  pc[p] \in {"stored", "flagged"} =>
    \E r \in store :
      r.trial = cur[p] /\ r.try = mem[p].trial[cur[p]].attempts /\ r.name = found[p]

ProcessInv(p) ==
  /\ Consistent(mem[p], store)
  /\ temp[p] # Absent => Consistent(temp[p].state, store)
  /\ pc[p] = "replace" => temp[p].whole
  /\ AtStep(mem[p], Goal(p), cur[p])
  /\ Fetched(p)

IInv ==
  /\ TypeOK
  /\ IsFiniteSet(dirs) /\ store \subseteq dirs
  /\ file.whole /\ Consistent(file.state, store)
  /\ \A p \in Procs : ProcessInv(p)

-----------------------------------------------------------------------------
(* RunStates.                                                              *)

\* The fields of a run state.
LEMMA FieldTypes ==
  ASSUME NEW s \in RunStateType
  PROVE  /\ s.status \in RunStatus /\ s.cost \in Nat /\ s.reported \in BOOLEAN
         /\ s.trial \in [Trials -> TrialState]
         /\ \A t \in Trials :
              /\ s.trial[t].status \in TrialStatus
              /\ s.trial[t].attempts \in Nat
              /\ s.trial[t].ingested \in BOOLEAN
              /\ s.trial[t].key \in Nat
  BY DEF RunStateType, TrialState

\* The state a run begins with is consistent.
LEMMA NewStateConsistent ==
  ASSUME NEW rows
  PROVE  NewState \in RunStateType /\ Consistent(NewState, rows)
  BY DEF NewState, NewTrial, RunStateType, TrialState, RunStatus, TrialStatus, NoKey,
         Consistent, Finished, WithinBudget

\* A consistent state remains consistent as rows are added.
LEMMA MoreRows ==
  ASSUME NEW s, NEW rows, NEW more, rows \subseteq more, Consistent(s, rows)
  PROVE  Consistent(s, more)
  BY DEF Consistent, HasRow

\* A state that has the trials and the cost of a consistent one is consistent,
\* unless it calls finished a run that is not settled.
LEMMA SameTrials ==
  ASSUME NEW s, NEW r, NEW rows, Consistent(s, rows),
         r.trial = s.trial, r.cost = s.cost,
         Finished(r) => \A t \in Trials : s.trial[t].status \in Settled
  PROVE  Consistent(r, rows)
  BY DEF Consistent, HasRow, WithinBudget

\* Assigning the status of the run changes that only.
LEMMA SetRunStatus ==
  ASSUME NEW s \in RunStateType, NEW v \in RunStatus, NEW r, r = [s EXCEPT !.status = v]
  PROVE  /\ r \in RunStateType
         /\ r.status = v
         /\ r.trial = s.trial /\ r.cost = s.cost /\ r.reported = s.reported
  BY DEF RunStateType

\* A state with an attempt of a trial counted, with a trial's new status, with a
\* cost, with a trial's flag, with its key.
WithAttempts(s, t, n) == [s EXCEPT !.trial[t].attempts = n]
WithStatus(s, t, v)   == [s EXCEPT !.trial[t].status = v]
WithCost(s, c)        == [s EXCEPT !.cost = c]
WithIngested(s, t, b) == [s EXCEPT !.trial[t].ingested = b]
WithKey(s, t, k)      == [s EXCEPT !.trial[t].key = k]

\* Each changes that field only.
LEMMA WithAttemptsFacts ==
  ASSUME NEW s \in RunStateType, NEW t \in Trials, NEW n \in Nat
  PROVE  /\ WithAttempts(s, t, n) \in RunStateType
         /\ WithAttempts(s, t, n).status = s.status /\ WithAttempts(s, t, n).cost = s.cost
         /\ WithAttempts(s, t, n).trial[t].status = s.trial[t].status
         /\ WithAttempts(s, t, n).trial[t].attempts = n
         /\ WithAttempts(s, t, n).trial[t].ingested => s.trial[t].ingested
         /\ WithAttempts(s, t, n).trial[t].key = s.trial[t].key
         /\ \A u \in Trials \ {t} : WithAttempts(s, t, n).trial[u] = s.trial[u]
  BY DEF WithAttempts, RunStateType, TrialState

LEMMA WithStatusFacts ==
  ASSUME NEW s \in RunStateType, NEW t \in Trials, NEW v \in TrialStatus
  PROVE  /\ WithStatus(s, t, v) \in RunStateType
         /\ WithStatus(s, t, v).status = s.status /\ WithStatus(s, t, v).cost = s.cost
         /\ WithStatus(s, t, v).trial[t].status = v
         /\ WithStatus(s, t, v).trial[t].attempts = s.trial[t].attempts
         /\ WithStatus(s, t, v).trial[t].ingested => s.trial[t].ingested
         /\ WithStatus(s, t, v).trial[t].key = s.trial[t].key
         /\ \A u \in Trials \ {t} : WithStatus(s, t, v).trial[u] = s.trial[u]
  BY DEF WithStatus, RunStateType, TrialState

LEMMA WithCostFacts ==
  ASSUME NEW s \in RunStateType, NEW c \in Nat
  PROVE  /\ WithCost(s, c) \in RunStateType
         /\ WithCost(s, c).status = s.status /\ WithCost(s, c).cost = c
         /\ WithCost(s, c).trial = s.trial
  BY DEF WithCost, RunStateType

LEMMA WithIngestedFacts ==
  ASSUME NEW s \in RunStateType, NEW t \in Trials, NEW b \in BOOLEAN
  PROVE  /\ WithIngested(s, t, b) \in RunStateType
         /\ WithIngested(s, t, b).status = s.status /\ WithIngested(s, t, b).cost = s.cost
         /\ WithIngested(s, t, b).trial[t].status = s.trial[t].status
         /\ WithIngested(s, t, b).trial[t].attempts = s.trial[t].attempts
         /\ WithIngested(s, t, b).trial[t].key = s.trial[t].key
         /\ WithIngested(s, t, b).trial[t].ingested => b
         /\ b => WithIngested(s, t, b).trial[t].ingested
         /\ \A u \in Trials \ {t} : WithIngested(s, t, b).trial[u] = s.trial[u]
  BY DEF WithIngested, RunStateType, TrialState

LEMMA WithKeyFacts ==
  ASSUME NEW s \in RunStateType, NEW t \in Trials, NEW k \in Nat
  PROVE  /\ WithKey(s, t, k) \in RunStateType
         /\ WithKey(s, t, k).status = s.status /\ WithKey(s, t, k).cost = s.cost
         /\ WithKey(s, t, k).trial[t].status = s.trial[t].status
         /\ WithKey(s, t, k).trial[t].attempts = s.trial[t].attempts
         /\ WithKey(s, t, k).trial[t].key = k
         /\ s.trial[t].ingested => WithKey(s, t, k).trial[t].ingested
         /\ \A u \in Trials \ {t} : WithKey(s, t, k).trial[u] = s.trial[u]
  BY DEF WithKey, RunStateType, TrialState

\* A change of the running trial t alone, which does not make it ingested, with a
\* cost within the budget, keeps a state of an open run consistent.
LEMMA TrialDone ==
  ASSUME NEW s \in RunStateType, NEW r, NEW rows, NEW t \in Trials,
         Consistent(s, rows),
         s.status = "running", r.status = s.status,
         s.trial[t].status = "running",
         \A u \in Trials \ {t} : r.trial[u] = s.trial[u] /\ s.trial[u].status # "running",
         (r.trial[t].ingested => s.trial[t].ingested), r.trial[t].key = s.trial[t].key,
         r.cost = s.cost \/ \E c \in Costs : r.cost < MaxBudget + c
  PROVE  /\ Consistent(r, rows)
         /\ r.trial[t].status # "running" => NoneRunning(r)
         /\ ~r.trial[t].ingested
<1>1. (r.trial[t].status # "running" => NoneRunning(r)) /\ ~Finished(r)
  BY DEF NoneRunning, Finished
<1>2. ~s.trial[t].ingested /\ ~r.trial[t].ingested
  BY FieldTypes DEF Consistent, Scored
<1>3. ASSUME NEW u \in Trials, r.trial[u].ingested
      PROVE  r.trial[u].status \in Scored /\ HasRow(r, u, rows)
  BY <1>2, <1>3 DEF Consistent, HasRow
<1>4. WithinBudget(r)
  BY DEF Consistent, WithinBudget
<1>5. ASSUME NEW u \in Trials PROVE r.trial[u].ingested \/ r.trial[u].key = NoKey
  BY <1>2 DEF Consistent
<1>6. ASSUME NEW u \in Trials, r.trial[u].status = "running" PROVE u = t
  BY <1>6
<1> QED
  BY <1>1, <1>2, <1>3, <1>4, <1>5, <1>6 DEF Consistent

-----------------------------------------------------------------------------
(* Steps of several processes.                                             *)

\* A process keeps its invariant through a step of another one.
LEMMA OtherProcess ==
  ASSUME NEW q \in Procs, ProcessInv(q), store \subseteq store',
         mem'[q] = mem[q], temp'[q] = temp[q], pc'[q] = pc[q], next'[q] = next[q],
         cur'[q] = cur[q], found'[q] = found[q]
  PROVE  ProcessInv(q)'
<1>1. Consistent(mem'[q], store')
  BY MoreRows DEF ProcessInv
<1>2. temp'[q] # Absent => Consistent(temp'[q].state, store')
  BY MoreRows DEF ProcessInv
<1>3. Fetched(q)'
  BY DEF ProcessInv, Fetched
<1> QED
  BY <1>1, <1>2, <1>3 DEF ProcessInv, Goal

\* Beginning to save a consistent state keeps the invariant.
LEMMA SaveKeepsIInv ==
  ASSUME IInv, NEW p \in Procs, NEW s \in RunStateType,
         NEW l \in {"down", "loop", "harbor", "report", "render"}, Save(p, s, l),
         cur' \in [Procs -> Trials \cup {NoTrial}], found' \in [Procs -> Nat],
         \A q \in Procs \ {p} : cur'[q] = cur[q] /\ found'[q] = found[q],
         UNCHANGED <<file, dirs, store>>, faults' \in 0..MaxFaults,
         Consistent(s, store), AtStep(s, l, cur'[p])
  PROVE  IInv'
<1> DEFINE new == [whole |-> FALSE, state |-> NewState]
<1>1. /\ mem' = [mem EXCEPT ![p] = s]
      /\ temp' = [temp EXCEPT ![p] = new]
      /\ pc' = [pc EXCEPT ![p] = "fill"] /\ next' = [next EXCEPT ![p] = l]
  BY DEF Save, TempName
<1>2. new \in Content
  BY NewStateConsistent DEF Content
<1>3. TypeOK'
  BY <1>1, <1>2 DEF TypeOK, IInv
<1>4. /\ file'.whole /\ Consistent(file'.state, store')
      /\ IsFiniteSet(dirs') /\ store' \subseteq dirs'
  BY DEF IInv
<1>5. ProcessInv(p)'
  <2>1. mem'[p] = s /\ temp'[p] = new /\ pc'[p] = "fill" /\ next'[p] = l
    BY <1>1 DEF IInv, TypeOK
  <2>2. Consistent(new.state, store')
    BY NewStateConsistent
  <2> QED
    BY <2>1, <2>2 DEF ProcessInv, Goal, Fetched
<1>6. ASSUME NEW q \in Procs \ {p}
      PROVE  ProcessInv(q)'
  BY <1>1, OtherProcess DEF IInv, TypeOK
<1> QED
  BY <1>3, <1>4, <1>5, <1>6 DEF IInv

\* What the invariant says of the process that takes a step.
LEMMA ActingProcess ==
  ASSUME IInv, NEW p \in Procs
  PROVE  /\ mem[p] \in RunStateType /\ file.state \in RunStateType
         /\ Consistent(mem[p], store) /\ Consistent(file.state, store)
         /\ pc[p] \notin {"fill", "replace"} => AtStep(mem[p], pc[p], cur[p])
         /\ temp \in [Procs -> Content \cup {Absent}]
         /\ cur \in [Procs -> Trials \cup {NoTrial}] /\ found \in [Procs -> Nat]
         /\ pc \in [Procs -> InTry \cup {"down", "fill", "replace", "report", "render"}]
  BY DEF IInv, TypeOK, ProcessInv, Goal, Content

-----------------------------------------------------------------------------
(* The steps of a process.                                                 *)

LEMMA FillTempKeeps ==
  ASSUME IInv, NEW p \in Procs, FillTemp(p)
  PROVE  IInv'
<1> DEFINE new == [whole |-> TRUE, state |-> mem[p]]
<1>1. /\ pc[p] = "fill" /\ pc' = [pc EXCEPT ![p] = "replace"]
      /\ temp' = [temp EXCEPT ![p] = new]
      /\ UNCHANGED <<file, dirs, store, next, mem, cur, found, faults>>
  BY DEF FillTemp, Step, TempName
<1>2. new \in Content
  BY ActingProcess DEF Content
<1>3. TypeOK'
  BY <1>1, <1>2 DEF TypeOK, IInv
<1>4. ProcessInv(p)'
  <2>1. mem'[p] = mem[p] /\ temp'[p] = new /\ pc'[p] = "replace"
        /\ next'[p] = next[p] /\ cur'[p] = cur[p]
    BY <1>1 DEF IInv, TypeOK
  <2>2. new.whole /\ Consistent(new.state, store')
    BY <1>1, ActingProcess
  <2>3. AtStep(mem[p], next[p], cur[p])
    BY <1>1 DEF IInv, ProcessInv, Goal
  <2> QED
    BY <1>1, <2>1, <2>2, <2>3 DEF ProcessInv, Goal, Fetched
<1>5. ASSUME NEW q \in Procs \ {p}
      PROVE  ProcessInv(q)'
  BY <1>1, OtherProcess DEF IInv, TypeOK
<1> QED
  BY <1>1, <1>3, <1>4, <1>5 DEF IInv

LEMMA ReplaceFileKeeps ==
  ASSUME IInv, NEW p \in Procs, ReplaceFile(p)
  PROVE  IInv'
<1>1. /\ pc[p] = "replace" /\ temp[p] # Absent
      /\ pc' = [pc EXCEPT ![p] = next[p]]
      /\ file' = temp[p]
      /\ temp' = [temp EXCEPT ![p] = Absent]
      /\ mem' = IF next[p] = "down" THEN [mem EXCEPT ![p] = NewState] ELSE mem
      /\ cur' = IF next[p] = "harbor" THEN cur ELSE [cur EXCEPT ![p] = NoTrial]
      /\ next' = [next EXCEPT ![p] = "down"]
      /\ UNCHANGED <<dirs, store, found, faults>>
  BY DEF ReplaceFile, Step, TempName
<1>2. temp[p] \in Content /\ temp[p].whole /\ Consistent(temp[p].state, store)
  BY <1>1 DEF IInv, TypeOK, ProcessInv
<1>3. TypeOK'
  BY <1>1, <1>2, NewStateConsistent DEF TypeOK, IInv, InTry
<1>4. ProcessInv(p)'
  <2>1. temp'[p] = Absent /\ pc'[p] = next[p] /\ next[p] \in {"down", "loop", "harbor", "report", "render"}
    BY <1>1 DEF IInv, TypeOK
  <2>2. AtStep(mem[p], next[p], cur[p])
    BY <1>1 DEF IInv, ProcessInv, Goal
  <2>3. CASE next[p] = "down"
    <3>1. mem'[p] = NewState
      BY <1>1, <2>3 DEF IInv, TypeOK
    <3> QED
      BY <1>1, <2>1, <2>3, <3>1, NewStateConsistent DEF ProcessInv, Goal, AtStep, InTry, Fetched
  <2>4. CASE next[p] # "down"
    <3>1. mem'[p] = mem[p] /\ Consistent(mem'[p], store')
      BY <1>1, <2>4, ActingProcess
    <3>2. AtStep(mem[p], next[p], cur'[p])
      BY <1>1, <2>1, <2>2 DEF AtStep
    <3> QED
      BY <2>1, <3>1, <3>2 DEF ProcessInv, Goal, Fetched
  <2> QED
    BY <2>3, <2>4
<1>5. ASSUME NEW q \in Procs \ {p}
      PROVE  ProcessInv(q)'
  BY <1>1, OtherProcess DEF IInv, TypeOK
<1> QED
  BY <1>1, <1>2, <1>3, <1>4, <1>5 DEF IInv

\* What requeueing changes of a state: the status of its running trial.
LEMMA RequeuedFields ==
  ASSUME NEW s \in RunStateType
  PROVE  /\ Requeued(s) \in RunStateType
         /\ Requeued(s).status = s.status /\ Requeued(s).cost = s.cost
         /\ \A t \in Trials :
              /\ Requeued(s).trial[t].status # "running"
              /\ Requeued(s).trial[t].ingested => s.trial[t].ingested
              /\ s.trial[t].ingested => Requeued(s).trial[t].ingested
              /\ Requeued(s).trial[t].attempts = s.trial[t].attempts
              /\ Requeued(s).trial[t].key = s.trial[t].key
              /\ s.trial[t].status # "running" => Requeued(s).trial[t].status = s.trial[t].status
<1>1. /\ Requeued(s).status = s.status /\ Requeued(s).cost = s.cost
      /\ Requeued(s).reported = s.reported
      /\ Requeued(s).trial =
           [t \in Trials |-> IF s.trial[t].status = "running"
                               THEN [s.trial[t] EXCEPT !.status = "pending"] ELSE s.trial[t]]
  BY DEF Requeued, RunStateType
<1>2. ASSUME NEW t \in Trials
      PROVE  /\ Requeued(s).trial[t] \in TrialState
             /\ Requeued(s).trial[t].status # "running"
             /\ Requeued(s).trial[t].ingested => s.trial[t].ingested
             /\ s.trial[t].ingested => Requeued(s).trial[t].ingested
             /\ Requeued(s).trial[t].attempts = s.trial[t].attempts
             /\ Requeued(s).trial[t].key = s.trial[t].key
             /\ s.trial[t].status # "running" => Requeued(s).trial[t].status = s.trial[t].status
  <2>1. s.trial[t] \in TrialState
    BY DEF RunStateType
  <2>2. CASE s.trial[t].status = "running"
    <3>1. Requeued(s).trial[t] = [s.trial[t] EXCEPT !.status = "pending"]
      BY <1>1, <2>2
    <3> DEFINE r == s.trial[t]
    <3> HIDE DEF r
    <3>2. /\ [r EXCEPT !.status = "pending"] \in TrialState
          /\ [r EXCEPT !.status = "pending"].status = "pending"
          /\ [r EXCEPT !.status = "pending"].ingested = r.ingested
          /\ [r EXCEPT !.status = "pending"].attempts = r.attempts
          /\ [r EXCEPT !.status = "pending"].key = r.key
      <4>1. r \in TrialState
        BY <2>1 DEF r
      <4> QED
        BY ONLY <4>1 DEF TrialState, TrialStatus
    <3> QED
      BY <2>2, <3>1, <3>2 DEF r
  <2>3. CASE s.trial[t].status # "running"
    <3>1. Requeued(s).trial[t] = s.trial[t]
      BY <1>1, <2>3
    <3> QED
      BY <2>1, <2>3, <3>1
  <2> QED
    BY <2>2, <2>3
<1>3. Requeued(s) \in RunStateType
  <2>1. Requeued(s).trial \in [Trials -> TrialState]
    BY <1>1, <1>2
  <2> QED
    BY <2>1 DEF Requeued, RunStateType
<1> QED
  BY <1>1, <1>2, <1>3

\* Requeueing leaves no trial running and a consistent state consistent.
LEMMA RequeuedFacts ==
  ASSUME NEW s \in RunStateType, NEW rows, Consistent(s, rows), ~Finished(s)
  PROVE  /\ Requeued(s) \in RunStateType
         /\ NoneRunning(Requeued(s))
         /\ Consistent(Requeued(s), rows)
<1>1. ~Finished(Requeued(s))
  BY RequeuedFields DEF Finished
<1>2. ASSUME NEW t \in Trials, Requeued(s).trial[t].ingested
      PROVE  Requeued(s).trial[t].status \in Scored /\ HasRow(Requeued(s), t, rows)
  <2>1. s.trial[t].status \in Scored /\ HasRow(s, t, rows)
    BY <1>2, RequeuedFields DEF Consistent
  <2>2. s.trial[t].status # "running"
    BY <2>1 DEF Scored
  <2> QED
    BY <2>1, <2>2, RequeuedFields DEF HasRow
<1> QED
  BY <1>1, <1>2, RequeuedFields DEF Consistent, NoneRunning, WithinBudget

LEMMA ResumeKeeps ==
  ASSUME IInv, NEW p \in Procs, Resume(p)
  PROVE  IInv'
<1> DEFINE q == Requeued(file.state)
           s == [q EXCEPT !.status = "running"]
<1>1. /\ ~Finished(file.state) /\ Save(p, s, "loop")
      /\ UNCHANGED <<file, dirs, store, cur, found, faults>>
  BY DEF Resume
<1>2. q \in RunStateType /\ NoneRunning(q) /\ Consistent(q, store)
  BY <1>1, ActingProcess, RequeuedFacts
<1>3. /\ s \in RunStateType /\ s.status = "running"
      /\ s.trial = q.trial /\ s.cost = q.cost
  BY <1>2, SetRunStatus DEF RunStatus
<1>4. Consistent(s, store)
  BY <1>2, <1>3, SameTrials DEF Finished
<1>5. AtStep(s, "loop", cur'[p])
  BY <1>2, <1>3 DEF AtStep, NoneRunning
<1> HIDE DEF s, q
<1> QED
  BY <1>1, <1>3, <1>4, <1>5, SaveKeepsIInv, ActingProcess DEF IInv, TypeOK

LEMMA RegenerateKeeps ==
  ASSUME IInv, NEW p \in Procs, Regenerate(p)
  PROVE  IInv'
<1>1. /\ pc[p] = "down" /\ pc' = [pc EXCEPT ![p] = "report"]
      /\ mem' = [mem EXCEPT ![p] = file.state]
      /\ UNCHANGED <<file, temp, dirs, store, next, cur, found, faults>>
  BY DEF Regenerate, Step, disk
<1>2. TypeOK'
  BY <1>1, ActingProcess DEF TypeOK, IInv
<1>3. ProcessInv(p)'
  <2>1. mem'[p] = file.state /\ temp'[p] = temp[p] /\ pc'[p] = "report"
    BY <1>1 DEF IInv, TypeOK
  <2>2. Consistent(mem'[p], store') /\ (temp'[p] # Absent => Consistent(temp'[p].state, store'))
    BY <1>1, <2>1, ActingProcess DEF IInv, ProcessInv
  <2> QED
    BY <2>1, <2>2 DEF ProcessInv, Goal, AtStep, InTry, Fetched
<1>4. ASSUME NEW q \in Procs \ {p}
      PROVE  ProcessInv(q)'
  BY <1>1, OtherProcess DEF IInv, TypeOK
<1> QED
  BY <1>1, <1>2, <1>3, <1>4 DEF IInv

\* A save that keeps the trials and the cost of a consistent state.
LEMMA SaveSameTrialsKeeps ==
  ASSUME IInv, NEW p \in Procs, NEW s \in RunStateType, NEW r \in RunStateType,
         Consistent(r, store),
         NEW l \in {"down", "report"}, Save(p, s, l),
         s.trial = r.trial, s.cost = r.cost,
         Finished(s) => \A t \in Trials : s.trial[t].status \in Settled,
         cur' \in [Procs -> Trials \cup {NoTrial}], found' \in [Procs -> Nat],
         \A q \in Procs \ {p} : cur'[q] = cur[q] /\ found'[q] = found[q],
         UNCHANGED <<file, dirs, store>>, faults' \in 0..MaxFaults
  PROVE  IInv'
<1>1. Consistent(s, store)
  BY SameTrials
<1>2. AtStep(s, l, cur'[p])
  BY DEF AtStep, InTry
<1> QED
  BY <1>1, <1>2, SaveKeepsIInv DEF IInv, TypeOK

LEMMA FinishLoopKeeps ==
  ASSUME IInv, NEW p \in Procs, FinishLoop(p)
  PROVE  IInv'
<1> DEFINE s == [mem[p] EXCEPT !.status = FinalStatus(mem[p])]
<1>1. /\ pc[p] = "loop" /\ PendingTrials(mem[p]) = {} /\ Save(p, s, "report")
      /\ UNCHANGED <<file, dirs, store, cur, found, faults>>
  BY DEF FinishLoop
<1>2. FinalStatus(mem[p]) \in RunStatus
  BY DEF FinalStatus, RunStatus
<1>3. s \in RunStateType /\ s.trial = mem[p].trial /\ s.cost = mem[p].cost
  BY <1>2, SetRunStatus, ActingProcess
<1>4. ASSUME NEW t \in Trials
      PROVE  s.trial[t].status \in Settled
  <2>1. s.trial[t].status \in TrialStatus
    BY <1>3, FieldTypes
  <2>2. s.trial[t].status # "running"
    BY <1>1, <1>3, ActingProcess DEF AtStep, NoneRunning
  <2>3. s.trial[t].status \notin Waiting
    BY <1>1, <1>3 DEF PendingTrials
  <2> QED
    BY <2>1, <2>2, <2>3 DEF Settled
<1> HIDE DEF s
<1> QED
  BY <1>1, <1>3, <1>4, SaveSameTrialsKeeps, ActingProcess DEF IInv, TypeOK

LEMMA StopAtBudgetKeeps ==
  ASSUME IInv, NEW p \in Procs, StopAtBudget(p)
  PROVE  IInv'
<1> DEFINE s == [mem[p] EXCEPT !.status = "paused"]
<1>1. Save(p, s, "down") /\ UNCHANGED <<file, dirs, store, cur, found, faults>>
  BY DEF StopAtBudget
<1>2. /\ s \in RunStateType /\ s.status = "paused"
      /\ s.trial = mem[p].trial /\ s.cost = mem[p].cost
  BY SetRunStatus, ActingProcess DEF RunStatus
<1> HIDE DEF s
<1> QED
  BY <1>1, <1>2, SaveSameTrialsKeeps, ActingProcess DEF IInv, TypeOK, Finished

LEMMA GenerateReportsKeeps ==
  ASSUME IInv, NEW p \in Procs, GenerateReports(p)
  PROVE  IInv'
<1> DEFINE s == [mem[p] EXCEPT !.reported = (Keyed(mem[p]) # {})]
<1>1. Save(p, s, "down") /\ UNCHANGED <<file, dirs, store, cur, found, faults>>
  BY DEF GenerateReports
<1>2. /\ s \in RunStateType /\ s.status = mem[p].status
      /\ s.trial = mem[p].trial /\ s.cost = mem[p].cost
  BY ActingProcess DEF RunStateType
<1>3. Finished(s) => \A t \in Trials : s.trial[t].status \in Settled
  BY <1>2, ActingProcess DEF Finished, Consistent
<1> HIDE DEF s
<1> QED
  BY <1>1, <1>2, <1>3, SaveSameTrialsKeeps, ActingProcess DEF IInv, TypeOK

LEMMA CrashKeeps ==
  ASSUME IInv, NEW p \in Procs, Crash(p)
  PROVE  IInv'
<1>1. /\ pc' = [pc EXCEPT ![p] = "down"] /\ next' = [next EXCEPT ![p] = "down"]
      /\ mem' = [mem EXCEPT ![p] = NewState] /\ cur' = [cur EXCEPT ![p] = NoTrial]
      /\ found' = [found EXCEPT ![p] = NoKey]
      /\ faults < MaxFaults /\ faults' = faults + 1
      /\ UNCHANGED <<file, temp, dirs, store>>
  BY DEF Crash, Down, Faulty, disk
<1>2. TypeOK'
  BY <1>1, NewStateConsistent, RunProcessesAssumption DEF TypeOK, IInv, NoKey
<1>3. ProcessInv(p)'
  <2>1. mem'[p] = NewState /\ temp'[p] = temp[p] /\ pc'[p] = "down"
    BY <1>1 DEF IInv, TypeOK
  <2>2. temp'[p] # Absent => Consistent(temp'[p].state, store')
    BY <1>1 DEF IInv, ProcessInv
  <2> QED
    BY <2>1, <2>2, NewStateConsistent DEF ProcessInv, Goal, AtStep, InTry, Fetched
<1>4. ASSUME NEW q \in Procs \ {p}
      PROVE  ProcessInv(q)'
  BY <1>1, OtherProcess DEF IInv, TypeOK
<1> QED
  BY <1>1, <1>2, <1>3, <1>4 DEF IInv

LEMMA StartTrialKeeps ==
  ASSUME IInv, NEW p \in Procs, NEW t \in Trials, StartTrial(p, t)
  PROVE  IInv'
<1> DEFINE m == mem[p]
           s == [m EXCEPT !.trial[t].status = "running"]
<1>1. /\ pc[p] = "loop" /\ t \in PendingTrials(m) /\ ~(m.cost >= MaxBudget)
      /\ Save(p, s, "harbor")
      /\ cur' = [cur EXCEPT ![p] = t] /\ UNCHANGED <<file, dirs, store, found, faults>>
  BY DEF StartTrial, IsNext, BudgetReached
<1>2. m \in RunStateType /\ Consistent(m, store) /\ m.status = "running" /\ NoneRunning(m)
  BY <1>1, ActingProcess DEF AtStep, InTry
<1>3. /\ s \in RunStateType /\ s.status = m.status /\ s.cost = m.cost
      /\ s.trial[t].status = "running" /\ (s.trial[t].ingested => m.trial[t].ingested)
      /\ s.trial[t].key = m.trial[t].key
      /\ \A u \in Trials \ {t} : s.trial[u] = m.trial[u]
  <2>1. s = WithStatus(m, t, "running") /\ "running" \in TrialStatus
    BY Zenon DEF WithStatus, TrialStatus
  <2> HIDE DEF s
  <2> QED
    BY <1>2, <2>1, WithStatusFacts
<1>4. ~m.trial[t].ingested
  BY <1>1, <1>2 DEF PendingTrials, Waiting, Scored, Consistent
<1>5. Consistent(s, store)
  <2>1. ASSUME NEW u \in Trials, s.trial[u].ingested
        PROVE  s.trial[u].status \in Scored /\ HasRow(s, u, store)
    BY <1>2, <1>3, <1>4, <2>1 DEF Consistent, HasRow
  <2>3. ASSUME NEW u \in Trials PROVE s.trial[u].ingested \/ s.trial[u].key = NoKey
    BY <1>2, <1>3, <1>4 DEF Consistent
  <2>2. ASSUME NEW u \in Trials, s.trial[u].status = "running"
        PROVE  u = t
    BY <1>2, <1>3, <2>2 DEF NoneRunning
  <2> QED
    BY <1>1, <1>2, <1>3, <2>1, <2>2, <2>3 DEF Consistent, Finished, WithinBudget
<1>6. /\ cur' \in [Procs -> Trials \cup {NoTrial}] /\ cur'[p] = t
      /\ \A q \in Procs \ {p} : cur'[q] = cur[q]
  BY <1>1, ActingProcess
<1>7. m.cost < MaxBudget
  BY <1>1, <1>2, FieldTypes, RunProcessesAssumption
<1>8. AtStep(s, "harbor", cur'[p])
  BY <1>2, <1>3, <1>6, <1>7 DEF AtStep, NoneRunning
<1> HIDE DEF s
<1> QED
  BY <1>1, <1>3, <1>5, <1>6, <1>8, SaveKeepsIInv DEF IInv, TypeOK

\* The trial in flight and the directories of its job, before they are classified.
LEMMA InFlight ==
  ASSUME IInv, NEW p \in Procs, pc[p] \in {"harbor", "classify"}
  PROVE  /\ cur[p] \in Trials /\ Try(p) \in Nat \ {0} /\ JobOf(p) \subseteq TrialDir
         /\ mem[p].trial[cur[p]].status = "running" /\ mem[p].status = "running"
         /\ \A u \in Trials \ {cur[p]} : mem[p].trial[u].status # "running"
         /\ mem[p].cost \in Nat /\ mem[p].cost < MaxBudget
<1>1. AtStep(mem[p], pc[p], cur[p]) /\ mem[p] \in RunStateType
  BY ActingProcess
<1>2. cur[p] \in Trials
  BY <1>1 DEF AtStep
<1>3. mem[p].trial[cur[p]].attempts \in Nat /\ mem[p].cost \in Nat
  BY <1>1, <1>2, FieldTypes
<1>4. JobOf(p) \subseteq TrialDir
  BY DEF JobOf, IInv, TypeOK
<1> QED
  BY <1>1, <1>2, <1>3, <1>4 DEF AtStep, Try, InTry

LEMMA HarborReturnsKeeps ==
  ASSUME IInv, NEW p \in Procs, NEW v \in Verdicts, NEW c \in Costs, HarborReturns(p, v, c)
  PROVE  IInv'
<1>1. /\ pc[p] = "harbor" /\ pc' = [pc EXCEPT ![p] = "classify"]
      /\ UNCHANGED <<file, temp, store, next, mem, cur, found, faults>>
  BY DEF HarborReturns, Step
<1>2. dirs' \subseteq TrialDir
  <2>1. cur[p] \in Trials /\ Try(p) \in Nat \ {0}
    BY <1>1, InFlight
  <2>2. ASSUME NEW n \in {Cardinality(dirs) + 1} \cap (1..MaxDirs)
        PROVE  [trial |-> cur[p], try |-> Try(p), name |-> n, verdict |-> v, cost |-> c]
                 \in TrialDir
    BY <2>1 DEF TrialDir
  <2> QED
    BY <2>2 DEF HarborReturns, IInv, TypeOK
<1>3. TypeOK'
  BY <1>1, <1>2 DEF TypeOK, IInv, InTry
<1>6. IsFiniteSet(dirs') /\ store' \subseteq dirs'
  <2> DEFINE d(n) == [trial |-> cur[p], try |-> Try(p), name |-> n, verdict |-> v, cost |-> c]
             e == d(Cardinality(dirs) + 1)
  <2>1. dirs \subseteq dirs' /\ dirs' \subseteq dirs \cup {e}
    BY DEF HarborReturns
  <2> HIDE DEF e
  <2>2. IsFiniteSet(dirs \cup {e})
    BY FS_AddElement DEF IInv
  <2> QED
    BY <1>1, <2>1, <2>2, FS_Subset DEF IInv
<1>4. ProcessInv(p)'
  <2>1. /\ pc'[p] = "classify" /\ mem'[p] = mem[p] /\ cur'[p] = cur[p] /\ temp'[p] = temp[p]
    BY <1>1 DEF IInv, TypeOK
  <2>2. AtStep(mem[p], "harbor", cur[p])
    BY <1>1, ActingProcess
  <2>3. AtStep(mem[p], "classify", cur[p])
    BY <2>2 DEF AtStep, InTry
  <2> QED
    BY <1>1, <2>1, <2>3 DEF IInv, ProcessInv, Goal, Fetched
<1>5. ASSUME NEW q \in Procs \ {p}
      PROVE  ProcessInv(q)'
  BY <1>1, OtherProcess DEF IInv, TypeOK
<1> QED
  BY <1>1, <1>3, <1>4, <1>5, <1>6 DEF IInv

\* What holds of a state that process p may have while it counts an attempt.
OfAttempt(p, s) ==
  /\ s \in RunStateType /\ s.status = mem[p].status
  /\ s.trial[cur[p]].status = "running" /\ s.trial[cur[p]].attempts = Try(p)
  /\ s.trial[cur[p]].ingested => mem[p].trial[cur[p]].ingested
  /\ s.trial[cur[p]].key = mem[p].trial[cur[p]].key
  /\ \A u \in Trials \ {cur[p]} : s.trial[u] = mem[p].trial[u]

\* The attempt is counted.
LEMMA CountedFacts ==
  ASSUME IInv, NEW p \in Procs, pc[p] = "classify"
  PROVE  OfAttempt(p, Counted(p)) /\ Counted(p).cost = mem[p].cost
<1> DEFINE m == mem[p]
           t == cur[p]
           n == Try(p)
           s == Counted(p)
<1>1. m \in RunStateType /\ t \in Trials /\ m.trial[t].status = "running" /\ n \in Nat
  BY InFlight, ActingProcess
<1>2. s = WithAttempts(m, t, n)
  BY Zenon DEF Counted, WithAttempts
<1> HIDE DEF m, t, n, s
<1>3. /\ s \in RunStateType /\ s.status = m.status /\ s.cost = m.cost
      /\ s.trial[t].status = m.trial[t].status /\ s.trial[t].attempts = n
      /\ s.trial[t].ingested => m.trial[t].ingested
      /\ s.trial[t].key = m.trial[t].key
      /\ \A u \in Trials \ {t} : s.trial[u] = m.trial[u]
  BY ONLY <1>1, <1>2, WithAttemptsFacts
<1>4. s.trial[t].status = "running"
  BY ONLY <1>1, <1>3
<1> QED
  BY <1>3, <1>4 DEF OfAttempt, m, t, n, s

\* The cost of its result is counted.
LEMMA AttemptedFacts ==
  ASSUME IInv, NEW p \in Procs, pc[p] = "classify", NEW d \in JobOf(p)
  PROVE  /\ OfAttempt(p, Attempted(p, d))
         /\ Attempted(p, d).cost = mem[p].cost + d.cost
         /\ d.cost \in Costs /\ d.cost \in Nat /\ mem[p].cost \in Nat
<1> DEFINE b == Counted(p)
           s == Attempted(p, d)
           c == b.cost + d.cost
<1>1. OfAttempt(p, b) /\ b.cost = mem[p].cost
  BY CountedFacts
<1>2. d.cost \in Costs /\ d.cost \in Nat /\ mem[p].cost \in Nat
  <2>1. d \in TrialDir /\ mem[p].cost \in Nat
    BY InFlight
  <2>2. d.cost \in Costs
    BY ONLY <2>1 DEF TrialDir
  <2>3. d.cost \in Nat
    BY ONLY <2>2, RunProcessesAssumption
  <2> QED
    BY ONLY <2>1, <2>2, <2>3
<1>3. c \in Nat /\ c = mem[p].cost + d.cost
  BY <1>1, <1>2
<1>4. s = WithCost(b, c)
  BY Zenon DEF Attempted, WithCost
<1>5. b \in RunStateType
  BY <1>1 DEF OfAttempt
<1> HIDE DEF b, s, c
<1>6. /\ s \in RunStateType /\ s.status = b.status /\ s.cost = c /\ s.trial = b.trial
  BY ONLY <1>3, <1>4, <1>5, WithCostFacts
<1>7. OfAttempt(p, s)
  BY <1>1, <1>6 DEF OfAttempt
<1> QED
  BY <1>2, <1>3, <1>6, <1>7 DEF s

\* The states in memory once an attempt is counted, without and with the cost of a result.
Counting(p) == {Counted(p)} \cup {Attempted(p, d) : d \in JobOf(p)}

\* Its cost is that of the state before, or exceeds the budget by less than its result.
LEMMA AttemptCost ==
  ASSUME IInv, NEW p \in Procs, pc[p] = "classify",
         NEW s \in Counting(p)
  PROVE  /\ OfAttempt(p, s)
         /\ s.cost = mem[p].cost \/ \E c \in Costs : s.cost < MaxBudget + c
<1>1. CASE s = Counted(p)
  BY <1>1, CountedFacts
<1>2. CASE \E d \in JobOf(p) : s = Attempted(p, d)
  <2>1. PICK d \in JobOf(p) : s = Attempted(p, d)
    BY <1>2
  <2>2. OfAttempt(p, s) /\ s.cost = mem[p].cost + d.cost
    BY <2>1, AttemptedFacts
  <2>3. d.cost \in Costs /\ d.cost \in Nat /\ mem[p].cost \in Nat
    BY AttemptedFacts
  <2>4. mem[p].cost < MaxBudget /\ MaxBudget \in Nat
    BY InFlight, RunProcessesAssumption
  <2>5. s.cost < MaxBudget + d.cost
    BY ONLY <2>2, <2>3, <2>4
  <2> QED
    BY <2>2, <2>3, <2>5
<1> QED
  BY <1>1, <1>2 DEF Counting

\* It is consistent; so is it with what becomes of the trial, which is then not running.
LEMMA AttemptConsistent ==
  ASSUME IInv, NEW p \in Procs, pc[p] = "classify",
         NEW s \in Counting(p)
  PROVE  Consistent(s, store)
<1> DEFINE m == mem[p]
           t == cur[p]
<1>1. /\ m \in RunStateType /\ Consistent(m, store)
      /\ t \in Trials /\ m.trial[t].status = "running" /\ m.status = "running"
      /\ \A u \in Trials \ {t} : m.trial[u].status # "running"
  BY InFlight, ActingProcess
<1>2. OfAttempt(p, s) /\ (s.cost = m.cost \/ \E c \in Costs : s.cost < MaxBudget + c)
  BY AttemptCost
<1>3. /\ s.status = m.status
      /\ s.trial[t].ingested => m.trial[t].ingested
      /\ s.trial[t].key = m.trial[t].key
      /\ \A u \in Trials \ {t} : s.trial[u] = m.trial[u] /\ m.trial[u].status # "running"
  BY <1>1, <1>2 DEF OfAttempt
<1> HIDE DEF m, t
<1> QED
  BY <1>1, <1>2, <1>3, TrialDone

LEMMA OutcomeFacts ==
  ASSUME IInv, NEW p \in Procs, pc[p] = "classify",
         NEW s \in Counting(p), NEW v \in TrialStatus \ {"running"},
         NEW r, r = WithStatus(s, cur[p], v)
  PROVE  /\ r \in RunStateType /\ r.status = "running" /\ r.cost = s.cost
         /\ r.trial[cur[p]].status = v /\ r.trial[cur[p]].attempts = Try(p)
         /\ \A u \in Trials \ {cur[p]} : r.trial[u] = mem[p].trial[u]
         /\ Consistent(r, store) /\ NoneRunning(r) /\ ~r.trial[cur[p]].ingested
<1> DEFINE m == mem[p]
           t == cur[p]
           n == Try(p)
<1>1. /\ m \in RunStateType /\ Consistent(m, store)
      /\ t \in Trials /\ m.trial[t].status = "running" /\ m.status = "running"
      /\ \A u \in Trials \ {t} : m.trial[u].status # "running"
  BY InFlight, ActingProcess
<1>2. OfAttempt(p, s) /\ (s.cost = m.cost \/ \E c \in Costs : s.cost < MaxBudget + c)
  BY AttemptCost
<1>3. /\ s \in RunStateType /\ s.status = m.status
      /\ s.trial[t].attempts = n
      /\ s.trial[t].ingested => m.trial[t].ingested
      /\ s.trial[t].key = m.trial[t].key
      /\ \A u \in Trials \ {t} : s.trial[u] = m.trial[u]
  BY <1>2 DEF OfAttempt
<1> HIDE DEF m, t, n
<1>0. v \in TrialStatus /\ v # "running"
  OBVIOUS
<1>4. r = WithStatus(s, t, v)
  BY DEF t
<1>5. /\ r \in RunStateType /\ r.status = s.status /\ r.cost = s.cost
      /\ r.trial[t].status = v
      /\ r.trial[t].attempts = s.trial[t].attempts
      /\ r.trial[t].ingested => s.trial[t].ingested
      /\ r.trial[t].key = s.trial[t].key
      /\ \A u \in Trials \ {t} : r.trial[u] = s.trial[u]
  BY ONLY <1>1, <1>3, <1>4, <1>0, WithStatusFacts
<1>6. /\ r \in RunStateType /\ r.status = m.status
      /\ r.trial[t].status # "running"
      /\ r.trial[t].ingested => m.trial[t].ingested
      /\ r.trial[t].key = m.trial[t].key
      /\ \A u \in Trials \ {t} : r.trial[u] = m.trial[u] /\ m.trial[u].status # "running"
      /\ r.cost = m.cost \/ \E c \in Costs : r.cost < MaxBudget + c
  BY ONLY <1>1, <1>2, <1>3, <1>5, <1>0
<1>7. Consistent(r, store) /\ NoneRunning(r) /\ ~r.trial[t].ingested
  BY ONLY <1>1, <1>6, TrialDone
<1>8. r.status = "running" /\ r.trial[t].attempts = n
  BY ONLY <1>1, <1>3, <1>5
<1> QED
  BY <1>5, <1>6, <1>7, <1>8 DEF m, t, n

LEMMA ClassifyInvalidKeeps ==
  ASSUME IInv, NEW p \in Procs, ClassifyInvalid(p)
  PROVE  IInv'
<1> DEFINE v == InfraStatus(Try(p))
           s == WithStatus(Counted(p), cur[p], v)
<1>1. /\ pc[p] = "classify"
      /\ Save(p, [Counted(p) EXCEPT !.trial[cur[p]].status = v], "loop")
      /\ UNCHANGED <<file, dirs, store, cur, found, faults>>
  BY DEF ClassifyInvalid
<1>2. Save(p, s, "loop")
  BY <1>1, Zenon DEF WithStatus
<1>3. v \in TrialStatus \ {"running"} /\ Counted(p) \in Counting(p)
  BY DEF InfraStatus, TrialStatus, Counting
<1> HIDE DEF v
<1>4. s \in RunStateType /\ s.status = "running" /\ Consistent(s, store) /\ NoneRunning(s)
  BY <1>1, <1>3, OutcomeFacts
<1> HIDE DEF s
<1>5. AtStep(s, "loop", cur'[p])
  BY <1>4 DEF AtStep
<1> QED
  BY <1>1, <1>2, <1>4, <1>5, SaveKeepsIInv, ActingProcess DEF IInv, TypeOK

LEMMA ClassifyExceptionKeeps ==
  ASSUME IInv, NEW p \in Procs, ClassifyException(p)
  PROVE  IInv'
<1> DEFINE v == InfraStatus(Try(p))
<1>1. PICK d \in JobOf(p) :
        Save(p, [Attempted(p, d) EXCEPT !.trial[cur[p]].status = v], "loop")
  BY DEF ClassifyException
<1> DEFINE s == WithStatus(Attempted(p, d), cur[p], v)
<1>2. pc[p] = "classify" /\ UNCHANGED <<file, dirs, store, cur, found, faults>>
  BY DEF ClassifyException
<1>3. Save(p, s, "loop")
  BY <1>1, Zenon DEF WithStatus
<1>4. v \in TrialStatus \ {"running"} /\ Attempted(p, d) \in Counting(p)
  BY DEF InfraStatus, TrialStatus, Counting
<1> HIDE DEF v
<1>5. s \in RunStateType /\ s.status = "running" /\ Consistent(s, store) /\ NoneRunning(s)
  BY <1>2, <1>4, OutcomeFacts
<1> HIDE DEF s
<1>6. AtStep(s, "loop", cur'[p])
  BY <1>5 DEF AtStep
<1> QED
  BY <1>2, <1>3, <1>5, <1>6, SaveKeepsIInv, ActingProcess DEF IInv, TypeOK

LEMMA ClassifyScoredKeeps ==
  ASSUME IInv, NEW p \in Procs, ClassifyScored(p)
  PROVE  IInv'
<1>1. PICK d \in JobOf(p) :
        /\ d.verdict \in Scored
        /\ mem' = [mem EXCEPT ![p] = [Attempted(p, d) EXCEPT !.trial[cur[p]].status = d.verdict]]
  BY DEF ClassifyScored
<1> DEFINE s == WithStatus(Attempted(p, d), cur[p], d.verdict)
<1>2. /\ pc[p] = "classify" /\ pc' = [pc EXCEPT ![p] = "ingest"]
      /\ UNCHANGED <<file, temp, dirs, store, next, cur, found, faults>>
  BY DEF ClassifyScored, Step, disk
<1>3. mem' = [mem EXCEPT ![p] = s]
  BY <1>1, Zenon DEF WithStatus
<1>4. d.verdict \in TrialStatus \ {"running"} /\ Attempted(p, d) \in Counting(p)
  BY <1>1 DEF Scored, TrialStatus, Counting
<1>5. /\ s \in RunStateType /\ s.status = "running" /\ s.trial[cur[p]].status = d.verdict
      /\ Consistent(s, store) /\ NoneRunning(s) /\ ~s.trial[cur[p]].ingested
  BY <1>2, <1>4, OutcomeFacts
<1> HIDE DEF s
<1>6. TypeOK'
  BY <1>2, <1>3, <1>5 DEF TypeOK, IInv, InTry
<1>7. ProcessInv(p)'
  <2>1. /\ mem'[p] = s /\ temp'[p] = temp[p] /\ pc'[p] = "ingest" /\ cur'[p] = cur[p]
    BY <1>2, <1>3 DEF IInv, TypeOK
  <2>2. AtStep(s, "ingest", cur[p])
    BY <1>1, <1>2, <1>5, InFlight DEF AtStep
  <2> QED
    BY <1>2, <1>5, <2>1, <2>2 DEF IInv, ProcessInv, Goal, Fetched
<1>8. ASSUME NEW q \in Procs \ {p}
      PROVE  ProcessInv(q)'
  BY <1>2, <1>3, OtherProcess DEF IInv, TypeOK
<1> QED
  BY <1>2, <1>6, <1>7, <1>8 DEF IInv

\* The state of a process that is interrupted is consistent.
LEMMA InMemoryFacts ==
  ASSUME IInv, NEW p \in Procs, NEW s \in InMemory(p)
  PROVE  s \in RunStateType /\ Consistent(s, store)
<1>1. CASE s = mem[p]
  BY <1>1, ActingProcess
<1>2. CASE s # mem[p]
  <2>1. pc[p] = "classify" /\ s \in Counting(p)
    BY <1>2 DEF InMemory, Counting
  <2> QED
    BY <2>1, AttemptCost, AttemptConsistent DEF OfAttempt
<1> QED
  BY <1>1, <1>2

LEMMA InterruptKeeps ==
  ASSUME IInv, NEW p \in Procs, Interrupt(p)
  PROVE  IInv'
<1>1. PICK r \in InMemory(p) : Save(p, [r EXCEPT !.status = "paused"], "down")
  BY DEF Interrupt
<1> DEFINE s == [r EXCEPT !.status = "paused"]
<1>2. /\ UNCHANGED <<file, dirs, store>>
      /\ cur' = [cur EXCEPT ![p] = NoTrial] /\ found' = [found EXCEPT ![p] = NoKey]
      /\ faults < MaxFaults /\ faults' = faults + 1
  BY DEF Interrupt, Faulty
<1>3. r \in RunStateType /\ Consistent(r, store)
  BY InMemoryFacts
<1>4. s \in RunStateType /\ s.status = "paused" /\ s.trial = r.trial /\ s.cost = r.cost
  BY <1>3, SetRunStatus DEF RunStatus
<1>5. faults' \in 0..MaxFaults
  BY <1>2, RunProcessesAssumption DEF IInv, TypeOK
<1>6. /\ cur' \in [Procs -> Trials \cup {NoTrial}] /\ found' \in [Procs -> Nat]
      /\ \A q \in Procs \ {p} : cur'[q] = cur[q] /\ found'[q] = found[q]
  BY <1>2, ActingProcess DEF NoKey
<1>7. Save(p, s, "down")
  BY <1>1
<1> HIDE DEF s
<1> QED
  BY <1>2, <1>3, <1>4, <1>5, <1>6, <1>7, SaveSameTrialsKeeps DEF Finished

-----------------------------------------------------------------------------
(* Ingestion.                                                              *)

\* The trial whose result is ingested.
LEMMA InIngestion ==
  ASSUME IInv, NEW p \in Procs, pc[p] \in {"ingest", "stored", "flagged"}
  PROVE  /\ mem[p] \in RunStateType /\ mem[p].status = "running"
         /\ Consistent(mem[p], store) /\ NoneRunning(mem[p])
         /\ cur[p] \in Trials /\ mem[p].trial[cur[p]].status \in Scored
         /\ pc[p] \in {"ingest", "stored"} =>
              ~mem[p].trial[cur[p]].ingested /\ mem[p].trial[cur[p]].key = NoKey
         /\ pc[p] = "flagged" => mem[p].trial[cur[p]].ingested
<1>1. mem[p] \in RunStateType /\ Consistent(mem[p], store) /\ AtStep(mem[p], pc[p], cur[p])
  BY ActingProcess
<1> QED
  BY <1>1 DEF AtStep, InTry, Consistent

LEMMA IngestJobKeeps ==
  ASSUME IInv, NEW p \in Procs, IngestJob(p)
  PROVE  IInv'
<1>1. /\ pc[p] = "ingest" /\ pc' = [pc EXCEPT ![p] = "stored"]
      /\ store' = store \cup JobCounted(p)
      /\ UNCHANGED <<file, temp, dirs, next, mem, cur, faults>>
  BY DEF IngestJob, Step, Ingested
<1>2. PICK d \in JobCounted(p) : found' = [found EXCEPT ![p] = d.name]
  BY DEF IngestJob
<1>3. JobCounted(p) \subseteq dirs /\ JobCounted(p) \subseteq TrialDir
  BY DEF JobCounted, IInv, TypeOK
<1>4. /\ d.trial = cur[p] /\ d.try = mem[p].trial[cur[p]].attempts
      /\ d.name \in Nat /\ d \in store'
  BY <1>1, <1>3 DEF JobCounted, TrialDir
<1>5. TypeOK'
  BY <1>1, <1>2, <1>3, <1>4 DEF TypeOK, IInv, InTry
<1>6. /\ file'.whole /\ Consistent(file'.state, store')
      /\ IsFiniteSet(dirs') /\ store' \subseteq dirs'
  BY <1>1, <1>3, MoreRows DEF IInv
<1>7. ProcessInv(p)'
  <2>1. /\ mem'[p] = mem[p] /\ temp'[p] = temp[p] /\ pc'[p] = "stored" /\ cur'[p] = cur[p]
        /\ found'[p] = d.name
    BY <1>1, <1>2 DEF IInv, TypeOK
  <2>2. AtStep(mem[p], "stored", cur[p])
    BY <1>1, InIngestion DEF AtStep
  <2>3. Fetched(p)'
    BY <1>4, <2>1 DEF Fetched
  <2>4. /\ Consistent(mem'[p], store')
        /\ temp'[p] # Absent => Consistent(temp'[p].state, store')
    BY <1>1, <2>1, MoreRows DEF IInv, ProcessInv
  <2> QED
    BY <2>1, <2>2, <2>3, <2>4 DEF ProcessInv, Goal
<1>8. ASSUME NEW q \in Procs \ {p}
      PROVE  ProcessInv(q)'
  BY <1>1, <1>2, OtherProcess DEF IInv, TypeOK
<1> QED
  BY <1>5, <1>6, <1>7, <1>8 DEF IInv

LEMMA IngestFailsKeeps ==
  ASSUME IInv, NEW p \in Procs, IngestFails(p)
  PROVE  IInv'
<1> DEFINE m == mem[p]
           t == cur[p]
           s == WithIngested(m, t, FALSE)
<1>1. /\ pc[p] = "ingest" /\ Save(p, [m EXCEPT !.trial[t].ingested = FALSE], "loop")
      /\ UNCHANGED <<file, dirs, store, cur, found, faults>>
  BY DEF IngestFails
<1>2. Save(p, s, "loop")
  BY <1>1, Zenon DEF WithIngested
<1>3. /\ m \in RunStateType /\ Consistent(m, store) /\ NoneRunning(m)
      /\ t \in Trials /\ m.status = "running" /\ m.trial[t].key = NoKey
  BY <1>1, InIngestion
<1> HIDE DEF m, t
<1>4. /\ s \in RunStateType /\ s.status = m.status /\ s.cost = m.cost
      /\ \A u \in Trials \ {t} : s.trial[u] = m.trial[u]
      /\ s.trial[t].status = m.trial[t].status /\ s.trial[t].key = NoKey
      /\ ~s.trial[t].ingested
  BY ONLY <1>3, WithIngestedFacts
<1> HIDE DEF s
<1>5. NoneRunning(s)
  BY <1>3, <1>4 DEF NoneRunning
<1>6. Consistent(s, store)
  <2>1. ASSUME NEW u \in Trials, s.trial[u].ingested
        PROVE  s.trial[u].status \in Scored /\ HasRow(s, u, store)
    BY <1>3, <1>4, <2>1 DEF Consistent, HasRow
  <2>2. ASSUME NEW u \in Trials PROVE s.trial[u].ingested \/ s.trial[u].key = NoKey
    BY <1>3, <1>4 DEF Consistent
  <2> QED
    BY <1>3, <1>4, <1>5, <2>1, <2>2 DEF Consistent, NoneRunning, Finished, WithinBudget
<1>7. AtStep(s, "loop", cur'[p])
  BY <1>3, <1>4, <1>5 DEF AtStep
<1> QED
  BY <1>1, <1>2, <1>4, <1>6, <1>7, SaveKeepsIInv, ActingProcess DEF IInv, TypeOK

\* A trial whose row is in the database is flagged, or gets the key of its row.
LEMMA IngestedConsistent ==
  ASSUME NEW m \in RunStateType, NEW s \in RunStateType, NEW t \in Trials, NEW rows,
         Consistent(m, rows), NoneRunning(m), m.status = "running",
         s.status = m.status, s.cost = m.cost,
         \A u \in Trials \ {t} : s.trial[u] = m.trial[u],
         s.trial[t].status = m.trial[t].status, m.trial[t].status \in Scored,
         s.trial[t].ingested, HasRow(s, t, rows)
  PROVE  Consistent(s, rows) /\ NoneRunning(s)
<1>1. NoneRunning(s)
  BY DEF NoneRunning
<1>2. ASSUME NEW u \in Trials, s.trial[u].ingested
      PROVE  s.trial[u].status \in Scored /\ HasRow(s, u, rows)
  <2>1. CASE u = t
    BY <2>1
  <2>2. CASE u # t
    BY <1>2, <2>2 DEF Consistent, HasRow
  <2> QED
    BY <2>1, <2>2
<1>3. ASSUME NEW u \in Trials PROVE s.trial[u].ingested \/ s.trial[u].key = NoKey
  BY DEF Consistent
<1> QED
  BY <1>1, <1>2, <1>3 DEF Consistent, NoneRunning, Finished, WithinBudget

LEMMA FlagIngestedKeeps ==
  ASSUME IInv, NEW p \in Procs, FlagIngested(p)
  PROVE  IInv'
<1> DEFINE m == mem[p]
           t == cur[p]
           s == WithIngested(m, t, TRUE)
<1>1. /\ pc[p] = "stored" /\ pc' = [pc EXCEPT ![p] = "flagged"]
      /\ mem' = [mem EXCEPT ![p].trial[cur[p]].ingested = TRUE]
      /\ UNCHANGED <<file, temp, dirs, store, next, cur, found, faults>>
  BY DEF FlagIngested, Step, disk
<1>2. mem' = [mem EXCEPT ![p] = s]
  BY <1>1, Zenon DEF WithIngested
<1>3. /\ m \in RunStateType /\ Consistent(m, store) /\ NoneRunning(m) /\ m.status = "running"
      /\ t \in Trials /\ m.trial[t].status \in Scored /\ m.trial[t].key = NoKey
  BY <1>1, InIngestion
<1>4. PICK r \in store : r.trial = t /\ r.try = m.trial[t].attempts /\ r.name = found[p]
  BY <1>1 DEF IInv, ProcessInv, Fetched
<1> HIDE DEF m, t
<1>5. /\ s \in RunStateType /\ s.status = m.status /\ s.cost = m.cost
      /\ \A u \in Trials \ {t} : s.trial[u] = m.trial[u]
      /\ s.trial[t].status = m.trial[t].status /\ s.trial[t].key = NoKey
      /\ s.trial[t].attempts = m.trial[t].attempts
      /\ s.trial[t].ingested
  BY ONLY <1>3, WithIngestedFacts
<1> HIDE DEF s
<1>6. Consistent(s, store) /\ NoneRunning(s)
  <2>1. HasRow(s, t, store)
    BY <1>4, <1>5 DEF HasRow
  <2> QED
    BY <1>3, <1>5, <2>1, IngestedConsistent
<1>7. TypeOK'
  BY <1>1, <1>2, <1>5 DEF TypeOK, IInv, InTry
<1>8. ProcessInv(p)'
  <2>1. /\ mem'[p] = s /\ temp'[p] = temp[p] /\ pc'[p] = "flagged" /\ cur'[p] = t
        /\ found'[p] = found[p]
    BY <1>1, <1>2 DEF IInv, TypeOK, t
  <2>2. AtStep(s, "flagged", t)
    BY <1>3, <1>5, <1>6 DEF AtStep
  <2>3. Fetched(p)'
    BY <1>1, <1>4, <1>5, <2>1 DEF Fetched
  <2> QED
    BY <1>1, <1>6, <2>1, <2>2, <2>3 DEF IInv, ProcessInv, Goal
<1>9. ASSUME NEW q \in Procs \ {p}
      PROVE  ProcessInv(q)'
  BY <1>1, <1>2, OtherProcess DEF IInv, TypeOK
<1> QED
  BY <1>1, <1>7, <1>8, <1>9 DEF IInv

LEMMA RecordKeyKeeps ==
  ASSUME IInv, NEW p \in Procs, RecordKey(p)
  PROVE  IInv'
<1> DEFINE m == mem[p]
           t == cur[p]
           k == found[p]
           s == WithKey(m, t, k)
<1>1. /\ pc[p] = "flagged" /\ Save(p, [m EXCEPT !.trial[t].key = k], "loop")
      /\ found' = [found EXCEPT ![p] = NoKey]
      /\ UNCHANGED <<file, dirs, store, cur, faults>>
  BY DEF RecordKey
<1>2. Save(p, s, "loop")
  BY <1>1, Zenon DEF WithKey
<1>3. /\ m \in RunStateType /\ Consistent(m, store) /\ NoneRunning(m) /\ m.status = "running"
      /\ t \in Trials /\ m.trial[t].status \in Scored /\ m.trial[t].ingested
  BY <1>1, InIngestion
<1>4. PICK r \in store : r.trial = t /\ r.try = m.trial[t].attempts /\ r.name = k
  BY <1>1 DEF IInv, ProcessInv, Fetched
<1>5. k \in Nat
  BY ActingProcess
<1> HIDE DEF m, t, k
<1>6. /\ s \in RunStateType /\ s.status = m.status /\ s.cost = m.cost
      /\ \A u \in Trials \ {t} : s.trial[u] = m.trial[u]
      /\ s.trial[t].status = m.trial[t].status /\ s.trial[t].key = k
      /\ s.trial[t].attempts = m.trial[t].attempts
      /\ s.trial[t].ingested
  BY ONLY <1>3, <1>5, WithKeyFacts
<1> HIDE DEF s
<1>7. Consistent(s, store) /\ NoneRunning(s)
  <2>1. HasRow(s, t, store)
    BY <1>4, <1>6 DEF HasRow
  <2> QED
    BY <1>3, <1>6, <2>1, IngestedConsistent
<1>8. AtStep(s, "loop", cur'[p])
  BY <1>3, <1>6, <1>7 DEF AtStep
<1>9. found' \in [Procs -> Nat] /\ \A q \in Procs \ {p} : found'[q] = found[q]
  BY <1>1, ActingProcess DEF NoKey
<1> QED
  BY <1>1, <1>2, <1>6, <1>7, <1>8, <1>9, SaveKeepsIInv, ActingProcess DEF IInv, TypeOK

-----------------------------------------------------------------------------
(* The keys that a report derives.                                         *)

\* A job with one trial directory names it.
LEMMA DerivedKeyFacts ==
  ASSUME IInv, NEW s, NEW t
  PROVE  /\ DerivedKey(s, t) \in Nat
         /\ \A r \in store : r.trial = t /\ r.try = s.trial[t].attempts =>
              DerivedKey(s, t) \in {NoKey, r.name}
<1> DEFINE J == LastJob(s, t)
           d == CHOOSE d \in J : TRUE
<1>1. IsFiniteSet(J) /\ J \subseteq TrialDir
  BY FS_Subset DEF LastJob, IInv, TypeOK
<1>2. \A r \in store : r.trial = t /\ r.try = s.trial[t].attempts => r \in J
  BY DEF LastJob, IInv
<1>3. DerivedKey(s, t) = IF Cardinality(J) = 1 THEN d.name ELSE NoKey
  BY DEF DerivedKey
<1> HIDE DEF J
<1>4. CASE Cardinality(J) = 1
  <2>1. PICK e : J = {e}
    BY <1>1, <1>4, FS_Singleton
  <2>2. d = e /\ e \in TrialDir
    BY <1>1, <2>1
  <2>3. e.name \in Nat
    BY <2>2 DEF TrialDir
  <2>4. DerivedKey(s, t) = e.name
    BY <1>3, <1>4, <2>2
  <2>5. \A r \in store : r.trial = t /\ r.try = s.trial[t].attempts => r = e
    BY <1>2, <2>1
  <2> QED
    BY <2>3, <2>4, <2>5
<1>5. CASE Cardinality(J) # 1
  BY <1>3, <1>5 DEF NoKey
<1> QED
  BY <1>4, <1>5

\* Deriving keys changes keys, of ingested trials.
LEMMA WithKeysFields ==
  ASSUME IInv, NEW s \in RunStateType
  PROVE  /\ WithKeys(s) \in RunStateType
         /\ WithKeys(s).status = s.status /\ WithKeys(s).cost = s.cost
         /\ \A t \in Trials :
              /\ WithKeys(s).trial[t].status = s.trial[t].status
              /\ WithKeys(s).trial[t].attempts = s.trial[t].attempts
              /\ WithKeys(s).trial[t].ingested => s.trial[t].ingested
              /\ s.trial[t].ingested => WithKeys(s).trial[t].ingested
              /\ \/ WithKeys(s).trial[t].key = s.trial[t].key
                 \/ s.trial[t].ingested /\ WithKeys(s).trial[t].key = DerivedKey(s, t)
<1> DEFINE w == WithKeys(s)
           Missing(t) == t \in Reportable(s) /\ s.trial[t].key = NoKey
<1>1. /\ w.status = s.status /\ w.cost = s.cost /\ w.reported = s.reported
      /\ w.trial =
           [t \in Trials |-> IF Missing(t)
                               THEN [s.trial[t] EXCEPT !.key = DerivedKey(s, t)] ELSE s.trial[t]]
  BY DEF WithKeys, RunStateType
<1>2. ASSUME NEW t \in Trials
      PROVE  /\ w.trial[t] \in TrialState
             /\ w.trial[t].status = s.trial[t].status
             /\ w.trial[t].attempts = s.trial[t].attempts
             /\ w.trial[t].ingested => s.trial[t].ingested
             /\ s.trial[t].ingested => w.trial[t].ingested
             /\ \/ w.trial[t].key = s.trial[t].key
                \/ s.trial[t].ingested /\ w.trial[t].key = DerivedKey(s, t)
  <2> DEFINE r == s.trial[t]
             k == DerivedKey(s, t)
  <2>1. r \in TrialState /\ k \in Nat
    BY DerivedKeyFacts DEF RunStateType
  <2>2. CASE Missing(t)
    <3>1. w.trial[t] = [r EXCEPT !.key = k] /\ r.ingested
      BY <1>1, <2>2 DEF Reportable
    <3> HIDE DEF r, k, w
    <3>2. /\ [r EXCEPT !.key = k] \in TrialState
          /\ [r EXCEPT !.key = k].status = r.status
          /\ [r EXCEPT !.key = k].attempts = r.attempts
          /\ [r EXCEPT !.key = k].ingested => r.ingested
          /\ r.ingested => [r EXCEPT !.key = k].ingested
          /\ [r EXCEPT !.key = k].key = k
      BY ONLY <2>1 DEF TrialState
    <3> QED
      BY <3>1, <3>2 DEF r, k
  <2>3. CASE ~Missing(t)
    <3>1. w.trial[t] = r
      BY <1>1, <2>3
    <3> QED
      BY <2>1, <3>1
  <2> QED
    BY <2>2, <2>3
<1>3. w \in RunStateType
  <2>1. w.trial \in [Trials -> TrialState]
    BY <1>1, <1>2
  <2> QED
    BY <2>1 DEF WithKeys, RunStateType
<1> QED
  BY <1>1, <1>2, <1>3

\* What it derives for a trial that has a row is the key of that row.
LEMMA WithKeysConsistent ==
  ASSUME IInv, NEW s \in RunStateType, Consistent(s, store)
  PROVE  Consistent(WithKeys(s), store)
<1> DEFINE w == WithKeys(s)
<1>1. /\ w.status = s.status /\ w.cost = s.cost
      /\ \A t \in Trials :
           /\ w.trial[t].status = s.trial[t].status
           /\ w.trial[t].attempts = s.trial[t].attempts
           /\ w.trial[t].ingested => s.trial[t].ingested
           /\ s.trial[t].ingested => w.trial[t].ingested
           /\ \/ w.trial[t].key = s.trial[t].key
              \/ s.trial[t].ingested /\ w.trial[t].key = DerivedKey(s, t)
  BY WithKeysFields
<1> HIDE DEF w
<1>2. ASSUME NEW t \in Trials, w.trial[t].ingested
      PROVE  w.trial[t].status \in Scored /\ HasRow(w, t, store)
  <2>1. s.trial[t].status \in Scored /\ HasRow(s, t, store)
    BY <1>1, <1>2 DEF Consistent
  <2>2. PICK r \in store : /\ r.trial = t /\ r.try = s.trial[t].attempts
                           /\ s.trial[t].key \in {NoKey, r.name}
    BY <2>1 DEF HasRow
  <2>3. DerivedKey(s, t) \in {NoKey, r.name}
    BY <2>2, DerivedKeyFacts
  <2> QED
    BY <1>1, <2>1, <2>2, <2>3 DEF HasRow
<1>3. ASSUME NEW t \in Trials PROVE w.trial[t].ingested \/ w.trial[t].key = NoKey
  BY <1>1 DEF Consistent
<1>4. Finished(w) => Finished(s)
  BY <1>1 DEF Finished
<1>5. Consistent(w, store)
  BY <1>1, <1>2, <1>3, <1>4 DEF Consistent, WithinBudget
<1> QED
  BY <1>5 DEF w

LEMMA CollectKeysKeeps ==
  ASSUME IInv, NEW p \in Procs, CollectKeys(p)
  PROVE  IInv'
<1>1. /\ pc[p] = "report" /\ pc' = [pc EXCEPT ![p] = "render"]
      /\ UNCHANGED <<file, temp, dirs, store, next, mem, cur, found, faults>>
  BY DEF CollectKeys, Step, disk
<1>2. TypeOK'
  BY <1>1 DEF TypeOK, IInv
<1>3. ProcessInv(p)'
  <2>1. mem'[p] = mem[p] /\ temp'[p] = temp[p] /\ pc'[p] = "render"
    BY <1>1 DEF IInv, TypeOK
  <2> QED
    BY <1>1, <2>1 DEF IInv, ProcessInv, Goal, AtStep, InTry, Fetched
<1>4. ASSUME NEW q \in Procs \ {p}
      PROVE  ProcessInv(q)'
  BY <1>1, OtherProcess DEF IInv, TypeOK
<1> QED
  BY <1>1, <1>2, <1>3, <1>4 DEF IInv

LEMMA BackfillKeysKeeps ==
  ASSUME IInv, NEW p \in Procs, BackfillKeys(p)
  PROVE  IInv'
<1> DEFINE s == WithKeys(mem[p])
<1>1. /\ Save(p, s, "render") /\ UNCHANGED <<file, dirs, store, cur, found, faults>>
  BY DEF BackfillKeys
<1>2. s \in RunStateType /\ Consistent(s, store)
  BY ActingProcess, WithKeysFields, WithKeysConsistent
<1>3. AtStep(s, "render", cur'[p])
  BY DEF AtStep, InTry
<1> HIDE DEF s
<1> QED
  BY <1>1, <1>2, <1>3, SaveKeepsIInv, ActingProcess DEF IInv, TypeOK

-----------------------------------------------------------------------------
(* The theorems.                                                           *)

LEMMA InitIInv == Init => IInv
<1> SUFFICES ASSUME Init
             PROVE  IInv
  OBVIOUS
<1>1. TypeOK
  BY NewStateConsistent, RunProcessesAssumption DEF Init, TypeOK, Content, InTry, NoKey
<1>2. /\ file.whole /\ Consistent(file.state, store)
      /\ IsFiniteSet(dirs) /\ store \subseteq dirs
  BY NewStateConsistent, FS_EmptySet DEF Init
<1>3. ASSUME NEW p \in Procs
      PROVE  ProcessInv(p)
  BY NewStateConsistent DEF Init, ProcessInv, Goal, AtStep, InTry, Fetched
<1> QED
  BY <1>1, <1>2, <1>3 DEF IInv

LEMMA NextIInv == IInv /\ [Next]_vars => IInv'
<1> SUFFICES ASSUME IInv, [Next]_vars
             PROVE  IInv'
  OBVIOUS
<1>1. ASSUME NEW p \in Procs, Process(p)
      PROVE  IInv'
  BY <1>1, FillTempKeeps, ReplaceFileKeeps, FinishLoopKeeps, StopAtBudgetKeeps,
     StartTrialKeeps, HarborReturnsKeeps, ClassifyInvalidKeeps, ClassifyExceptionKeeps,
     ClassifyScoredKeeps, IngestJobKeeps, IngestFailsKeeps, FlagIngestedKeeps, RecordKeyKeeps,
     CollectKeysKeeps, BackfillKeysKeeps, GenerateReportsKeeps
  DEF Process
<1>2. CASE UNCHANGED vars
  BY <1>2 DEF vars, disk, locals, IInv, TypeOK, ProcessInv, Goal, Fetched
<1> QED
  BY <1>1, <1>2, ResumeKeeps, RegenerateKeeps, CrashKeeps, InterruptKeeps DEF Next

LEMMA SpecIInv == Spec => []IInv
  BY InitIInv, NextIInv, PTL DEF Spec

\* Every variable keeps its type.
THEOREM TypeCorrect == Spec => []TypeOK
<1>1. IInv => TypeOK
  BY DEF IInv
<1> QED
  BY <1>1, SpecIInv, PTL

\* For any number of writers, crashes and interrupts, state.json is one whole
\* RunState: what os.replace puts there, its writer has finished.  (atomic_write_json)
THEOREM FileStaysWhole == Spec => []FileIsWhole
<1>1. IInv => FileIsWhole
  BY DEF IInv, FileIsWhole
<1> QED
  BY <1>1, SpecIInv, PTL

\* However the writes of any number of processes overwrite each other, state.json
\* never has two running trials, nor a trial left to run in a finished run.
\* (execute_loop, regenerate_reports)
THEOREM OneRunningTrial == Spec => []AtMostOneRunning
<1>1. IInv => AtMostOneRunning
  BY DEF IInv, AtMostOneRunning, Consistent
<1> QED
  BY <1>1, SpecIInv, PTL

\* A trial that state.json calls ingested has a row of its last attempt, and the key of
\* such a row if it has one, whichever process has shared its job or has written last,
\* wherever an interrupt fell between the commit, the flag and the key, and also when
\* a report derived the key.  (execute_loop, ingest_jobs, collect_trial_keys_by_pair)
THEOREM IngestedStaysInStore == Spec => []IngestedHasRow
<1>1. IInv => IngestedHasRow
  BY DEF IInv, IngestedHasRow, Consistent, HasRow
<1> QED
  BY <1>1, SpecIInv, PTL

-----------------------------------------------------------------------------
(* What has been spent.                                                    *)
(*                                                                         *)
(* A RunState forgets what processes it knows nothing of have spent, so    *)
(* its cost is no sum of its own.  It has counted one result at most for   *)
(* each attempt it has counted: its cost is covered by the results of the  *)
(* jobs of those attempts, whoever made them.                              *)

CostOf == [d \in TrialDir |-> d.cost]

Spent(ds) == SumFunctionOnSet(CostOf, ds)

CountedDirs(s, ds) == {d \in ds : d.try <= s.trial[d.trial].attempts}

Covered(s, ds) == s.cost <= Spent(CountedDirs(s, ds))

SpentInv ==
  /\ Covered(file.state, dirs)
  /\ \A p \in Procs :
       /\ Covered(mem[p], dirs)
       /\ temp[p] # Absent => Covered(temp[p].state, dirs)

LEMMA CostTypes ==
  ASSUME NEW ds \in SUBSET TrialDir
  PROVE  \A d \in ds : CostOf[d] \in Nat /\ CostOf[d] = d.cost
<1> SUFFICES ASSUME NEW d \in TrialDir PROVE d.cost \in Nat
  BY DEF CostOf
<1>1. d.cost \in Costs
  BY DEF TrialDir
<1> QED
  BY <1>1, RunProcessesAssumption

\* A state of the same cost that has counted as many attempts, beside as many
\* results, is covered as well.
LEMMA CoveredMore ==
  ASSUME NEW s \in RunStateType, NEW r \in RunStateType,
         NEW ds \in SUBSET TrialDir, NEW es \in SUBSET TrialDir,
         IsFiniteSet(es), ds \subseteq es, Covered(s, ds),
         r.cost = s.cost,
         \A t \in Trials : s.trial[t].attempts <= r.trial[t].attempts
  PROVE  Covered(r, es)
<1>1. CountedDirs(s, ds) \subseteq CountedDirs(r, es)
  <2> SUFFICES ASSUME NEW d \in ds, d.try <= s.trial[d.trial].attempts
               PROVE  d.try <= r.trial[d.trial].attempts
    BY DEF CountedDirs
  <2>1. d.trial \in Trials /\ d.try \in Nat
    BY DEF TrialDir
  <2>2. s.trial[d.trial].attempts \in Nat /\ r.trial[d.trial].attempts \in Nat
    BY <2>1, FieldTypes
  <2> QED
    BY <2>1, <2>2
<1>2. IsFiniteSet(CountedDirs(r, es)) /\ CountedDirs(r, es) \in SUBSET TrialDir
  BY FS_Subset DEF CountedDirs
<1>3. IsFiniteSet(CountedDirs(s, ds)) /\ CountedDirs(s, ds) \in SUBSET TrialDir
  BY <1>1, <1>2, FS_Subset
<1> DEFINE C == CountedDirs(s, ds)
           D == CountedDirs(r, es)
<1> HIDE DEF C, D
<1>4. /\ C \in SUBSET D /\ IsFiniteSet(C) /\ IsFiniteSet(D)
      /\ \A d \in D : CostOf[d] \in Nat
      /\ \A d \in C : CostOf[d] \in Nat
  BY <1>1, <1>2, <1>3, CostTypes DEF C, D
<1>5. SumFunctionOnSet(CostOf, C) <= SumFunctionOnSet(CostOf, D)
  BY <1>4, SumSubset
<1>6. SumFunctionOnSet(CostOf, C) \in Nat /\ SumFunctionOnSet(CostOf, D) \in Nat
  BY <1>4, SumType
<1>7. s.cost \in Nat /\ s.cost <= SumFunctionOnSet(CostOf, C)
  BY FieldTypes DEF Covered, Spent, C
<1>8. r.cost <= SumFunctionOnSet(CostOf, D)
  BY <1>5, <1>6, <1>7
<1> QED
  BY <1>8 DEF Covered, Spent, D

\* A state that counts one more attempt of trial t and the cost of its result d,
\* which it had not counted, is covered.
LEMMA CoveredAttempt ==
  ASSUME NEW s \in RunStateType, NEW r \in RunStateType,
         NEW ds \in SUBSET TrialDir, IsFiniteSet(ds), Covered(s, ds),
         NEW d \in ds, r.cost = s.cost + d.cost,
         d.try = s.trial[d.trial].attempts + 1, r.trial[d.trial].attempts = d.try,
         \A t \in Trials : s.trial[t].attempts <= r.trial[t].attempts
  PROVE  Covered(r, ds)
<1> DEFINE C == CountedDirs(s, ds)
           D == CountedDirs(r, ds)
<1>0. d \in TrialDir /\ d.trial \in Trials /\ d.try \in Nat
  BY DEF TrialDir
<1>1. \A e \in ds : /\ e.trial \in Trials /\ e.try \in Nat
                    /\ s.trial[e.trial].attempts \in Nat
                    /\ r.trial[e.trial].attempts \in Nat
  BY FieldTypes DEF TrialDir
<1>2. C \cup {d} \in SUBSET D /\ d \notin C
  <2>1. d \in D /\ d \notin C
    BY <1>0, <1>1 DEF CountedDirs
  <2>2. ASSUME NEW e \in C PROVE e \in D
    BY <1>1 DEF CountedDirs
  <2> QED
    BY <2>1, <2>2
<1>3. D \in SUBSET TrialDir /\ IsFiniteSet(D) /\ C \in SUBSET TrialDir /\ IsFiniteSet(C)
  BY FS_Subset DEF CountedDirs
<1> HIDE DEF C, D
<1>4. /\ \A e \in D : CostOf[e] \in Nat
      /\ \A e \in C \cup {d} : CostOf[e] \in Nat
      /\ \A e \in C : CostOf[e] \in Nat
      /\ CostOf[d] = d.cost
  BY <1>0, <1>3, CostTypes
<1>5. SumFunctionOnSet(CostOf, C \cup {d}) <= SumFunctionOnSet(CostOf, D)
  <2> DEFINE E == C \cup {d}
  <2>1. E \in SUBSET D
    BY <1>2
  <2> HIDE DEF E
  <2>2. SumFunctionOnSet(CostOf, E) <= SumFunctionOnSet(CostOf, D)
    BY <1>3, <1>4, <2>1, SumSubset
  <2> QED
    BY <2>2 DEF E
<1>6. SumFunctionOnSet(CostOf, C \cup {d}) = d.cost + SumFunctionOnSet(CostOf, C)
  BY <1>2, <1>3, <1>4, SumAdd
<1>7. /\ SumFunctionOnSet(CostOf, C) \in Nat /\ SumFunctionOnSet(CostOf, D) \in Nat
      /\ d.cost \in Nat
  <2>1. d.cost \in Nat
    BY <1>2, <1>4
  <2> QED
    BY <1>3, <1>4, <2>1, SumType
<1>8. s.cost \in Nat /\ s.cost <= SumFunctionOnSet(CostOf, C)
  BY FieldTypes DEF Covered, Spent, C
<1>9. r.cost <= SumFunctionOnSet(CostOf, D)
  BY <1>5, <1>6, <1>7, <1>8
<1> QED
  BY <1>9 DEF Covered, Spent, D

LEMMA NewStateCovered ==
  ASSUME NEW ds \in SUBSET TrialDir, IsFiniteSet(ds)
  PROVE  Covered(NewState, ds)
<1> DEFINE C == CountedDirs(NewState, ds)
<1>1. IsFiniteSet(C) /\ C \in SUBSET TrialDir
  BY FS_Subset DEF CountedDirs
<1> HIDE DEF C
<1>2. \A d \in C : CostOf[d] \in Nat
  BY <1>1, CostTypes
<1>3. SumFunctionOnSet(CostOf, C) \in Nat
  BY <1>1, <1>2, SumType
<1>4. NewState.cost = 0
  BY DEF NewState
<1> QED
  BY <1>3, <1>4 DEF Covered, Spent, C

\* What a step leaves to show: that what it makes of the files and of p's own
\* state is covered.
LEMMA SpentStep ==
  ASSUME IInv, IInv', SpentInv, NEW p \in Procs,
         dirs \subseteq dirs', Covered(file'.state, dirs'), Covered(mem'[p], dirs'),
         temp'[p] # Absent => Covered(temp'[p].state, dirs'),
         \A q \in Procs \ {p} : mem'[q] = mem[q] /\ temp'[q] = temp[q]
  PROVE  SpentInv'
<1>1. dirs \in SUBSET TrialDir /\ dirs' \in SUBSET TrialDir /\ IsFiniteSet(dirs')
  BY DEF IInv, TypeOK
<1>2. ASSUME NEW s \in RunStateType, Covered(s, dirs) PROVE Covered(s, dirs')
  <2>1. \A t \in Trials : s.trial[t].attempts <= s.trial[t].attempts
    BY FieldTypes
  <2> QED
    BY <1>1, <1>2, <2>1, CoveredMore
<1>3. ASSUME NEW q \in Procs \ {p}
      PROVE  Covered(mem'[q], dirs') /\ (temp'[q] # Absent => Covered(temp'[q].state, dirs'))
  <2>1. Covered(mem[q], dirs) /\ (temp[q] # Absent => Covered(temp[q].state, dirs))
    BY DEF SpentInv
  <2>2. mem[q] \in RunStateType /\ (temp[q] # Absent => temp[q].state \in RunStateType)
    BY DEF IInv, TypeOK, Content
  <2> QED
    BY <1>2, <2>1, <2>2
<1> QED
  BY <1>3 DEF SpentInv

\* A save of a covered state.
LEMMA SaveSpent ==
  ASSUME IInv, IInv', SpentInv, NEW p \in Procs, NEW s, NEW l, Save(p, s, l),
         file' = file, dirs' = dirs, Covered(s, dirs)
  PROVE  SpentInv'
<1>1. /\ mem' = [mem EXCEPT ![p] = s]
      /\ temp' = [temp EXCEPT ![p] = [whole |-> FALSE, state |-> NewState]]
  BY DEF Save, TempName
<1>2. mem'[p] = s /\ temp'[p].state = NewState
  BY <1>1 DEF IInv, TypeOK
<1>3. \A q \in Procs \ {p} : mem'[q] = mem[q] /\ temp'[q] = temp[q]
  BY <1>1 DEF IInv, TypeOK
<1>4. Covered(NewState, dirs)
  BY NewStateCovered DEF IInv, TypeOK, SpentInv
<1> QED
  BY <1>2, <1>3, <1>4, SpentStep DEF SpentInv

\* A save of a state that has counted the same cost and as many attempts.
LEMMA SaveKeptSpent ==
  ASSUME IInv, IInv', SpentInv, NEW p \in Procs, NEW l,
         NEW r \in RunStateType, NEW s \in RunStateType, Save(p, s, l),
         file' = file, dirs' = dirs, Covered(r, dirs), s.cost = r.cost,
         \A t \in Trials : r.trial[t].attempts <= s.trial[t].attempts
  PROVE  SpentInv'
<1>1. Covered(s, dirs)
  BY CoveredMore DEF IInv, TypeOK, SpentInv
<1> QED
  BY <1>1, SaveSpent

LEMMA ActingSpent ==
  ASSUME IInv, SpentInv, NEW p \in Procs
  PROVE  /\ mem[p] \in RunStateType /\ Covered(mem[p], dirs)
         /\ \A t \in Trials : mem[p].trial[t].attempts <= mem[p].trial[t].attempts
         /\ file.state \in RunStateType /\ Covered(file.state, dirs)
         /\ dirs \in SUBSET TrialDir /\ IsFiniteSet(dirs)
<1>1. mem[p] \in RunStateType
  BY ActingProcess
<1>2. \A t \in Trials : mem[p].trial[t].attempts \in Nat
  BY <1>1, FieldTypes
<1> QED
  BY <1>1, <1>2, ActingProcess DEF SpentInv, IInv, TypeOK

\* A step that saves p's state with another status of the run, or of what is reported.
LEMMA SaveSameTrialsSpent ==
  ASSUME IInv, IInv', SpentInv, NEW p \in Procs, NEW s \in RunStateType, NEW l, Save(p, s, l),
         file' = file, dirs' = dirs, s.trial = mem[p].trial, s.cost = mem[p].cost
  PROVE  SpentInv'
  BY ActingSpent, SaveKeptSpent

LEMMA FillTempSpent ==
  ASSUME IInv, IInv', SpentInv, NEW p \in Procs, FillTemp(p)
  PROVE  SpentInv'
<1>1. /\ temp' = [temp EXCEPT ![p] = [whole |-> TRUE, state |-> mem[p]]]
      /\ UNCHANGED <<file, dirs, mem>>
  BY DEF FillTemp, TempName
<1>2. temp'[p].state = mem[p] /\ \A q \in Procs \ {p} : temp'[q] = temp[q]
  BY <1>1 DEF IInv, TypeOK
<1> QED
  BY <1>1, <1>2, ActingSpent, SpentStep

LEMMA ReplaceFileSpent ==
  ASSUME IInv, IInv', SpentInv, NEW p \in Procs, ReplaceFile(p)
  PROVE  SpentInv'
<1>1. /\ temp[p] # Absent /\ file' = temp[p]
      /\ temp' = [temp EXCEPT ![p] = Absent]
      /\ mem' = IF next[p] = "down" THEN [mem EXCEPT ![p] = NewState] ELSE mem
      /\ dirs' = dirs
  BY DEF ReplaceFile, TempName
<1>2. Covered(file'.state, dirs)
  BY <1>1 DEF SpentInv
<1>3. temp'[p] = Absent /\ \A q \in Procs \ {p} : temp'[q] = temp[q]
  BY <1>1 DEF IInv, TypeOK
<1>4. mem'[p] \in {NewState, mem[p]} /\ \A q \in Procs \ {p} : mem'[q] = mem[q]
  BY <1>1 DEF IInv, TypeOK
<1>5. Covered(mem'[p], dirs)
  BY <1>4, ActingSpent, NewStateCovered
<1> QED
  BY <1>1, <1>2, <1>3, <1>4, <1>5, ActingSpent, SpentStep

LEMMA ResumeSpent ==
  ASSUME IInv, IInv', SpentInv, NEW p \in Procs, Resume(p)
  PROVE  SpentInv'
<1> DEFINE q == Requeued(file.state)
           s == [q EXCEPT !.status = "running"]
<1>1. Save(p, s, "loop") /\ file' = file /\ dirs' = dirs
  BY DEF Resume
<1>2. file.state \in RunStateType /\ Covered(file.state, dirs)
  BY ActingSpent
<1>3. /\ q \in RunStateType /\ q.cost = file.state.cost
      /\ \A t \in Trials : q.trial[t].attempts = file.state.trial[t].attempts
  BY <1>2, RequeuedFields
<1> HIDE DEF q
<1>4. s \in RunStateType /\ s.trial = q.trial /\ s.cost = q.cost
  BY <1>3, SetRunStatus DEF RunStatus
<1>5. \A t \in Trials : file.state.trial[t].attempts <= s.trial[t].attempts
  BY <1>2, <1>3, <1>4, FieldTypes
<1> HIDE DEF s
<1> QED
  BY <1>1, <1>2, <1>3, <1>4, <1>5, SaveKeptSpent

LEMMA RegenerateSpent ==
  ASSUME IInv, IInv', SpentInv, NEW p \in Procs, Regenerate(p)
  PROVE  SpentInv'
<1>1. mem' = [mem EXCEPT ![p] = file.state] /\ UNCHANGED <<file, temp, dirs>>
  BY DEF Regenerate, disk
<1>2. mem'[p] = file.state /\ \A q \in Procs \ {p} : mem'[q] = mem[q]
  BY <1>1 DEF IInv, TypeOK
<1> QED
  BY <1>1, <1>2, ActingSpent, SpentStep DEF SpentInv

LEMMA FinishLoopSpent ==
  ASSUME IInv, IInv', SpentInv, NEW p \in Procs, FinishLoop(p)
  PROVE  SpentInv'
<1> DEFINE v == FinalStatus(mem[p])
           s == [mem[p] EXCEPT !.status = v]
<1>1. Save(p, s, "report") /\ file' = file /\ dirs' = dirs
  BY DEF FinishLoop
<1>2. v \in RunStatus
  BY DEF FinalStatus, RunStatus
<1> HIDE DEF v
<1>3. s \in RunStateType /\ s.trial = mem[p].trial /\ s.cost = mem[p].cost
  BY <1>2, ActingSpent, SetRunStatus
<1> HIDE DEF s
<1> QED
  BY <1>1, <1>3, SaveSameTrialsSpent

LEMMA StopAtBudgetSpent ==
  ASSUME IInv, IInv', SpentInv, NEW p \in Procs, StopAtBudget(p)
  PROVE  SpentInv'
<1> DEFINE s == [mem[p] EXCEPT !.status = "paused"]
<1>1. Save(p, s, "down") /\ file' = file /\ dirs' = dirs
  BY DEF StopAtBudget
<1>3. s \in RunStateType /\ s.trial = mem[p].trial /\ s.cost = mem[p].cost
  BY ActingSpent, SetRunStatus DEF RunStatus
<1> HIDE DEF s
<1> QED
  BY <1>1, <1>3, SaveSameTrialsSpent

LEMMA GenerateReportsSpent ==
  ASSUME IInv, IInv', SpentInv, NEW p \in Procs, GenerateReports(p)
  PROVE  SpentInv'
<1> DEFINE s == [mem[p] EXCEPT !.reported = (Keyed(mem[p]) # {})]
<1>1. Save(p, s, "down") /\ file' = file /\ dirs' = dirs
  BY DEF GenerateReports
<1>3. s \in RunStateType /\ s.trial = mem[p].trial /\ s.cost = mem[p].cost
  BY ActingSpent DEF RunStateType
<1> HIDE DEF s
<1> QED
  BY <1>1, <1>3, SaveSameTrialsSpent

LEMMA CrashSpent ==
  ASSUME IInv, IInv', SpentInv, NEW p \in Procs, Crash(p)
  PROVE  SpentInv'
<1>1. mem' = [mem EXCEPT ![p] = NewState] /\ UNCHANGED <<file, temp, dirs>>
  BY DEF Crash, Down, disk
<1>2. mem'[p] = NewState /\ \A q \in Procs \ {p} : mem'[q] = mem[q]
  BY <1>1 DEF IInv, TypeOK
<1> QED
  BY <1>1, <1>2, ActingSpent, NewStateCovered, SpentStep DEF SpentInv

\* Harbor adds a trial directory or none.
LEMMA HarborReturnsSpent ==
  ASSUME IInv, IInv', SpentInv, NEW p \in Procs, NEW v \in Verdicts, NEW c \in Costs,
         HarborReturns(p, v, c)
  PROVE  SpentInv'
<1>1. UNCHANGED <<file, temp, mem>>
  BY DEF HarborReturns
<1>2. dirs \subseteq dirs'
  BY DEF HarborReturns
<1>3. IsFiniteSet(dirs')
  BY DEF IInv
<1>4. ASSUME NEW s \in RunStateType, Covered(s, dirs) PROVE Covered(s, dirs')
  <2>1. \A t \in Trials : s.trial[t].attempts <= s.trial[t].attempts
    BY FieldTypes
  <2>2. dirs \in SUBSET TrialDir /\ dirs' \in SUBSET TrialDir
    BY DEF IInv, TypeOK
  <2> QED
    BY <1>2, <1>3, <1>4, <2>1, <2>2, CoveredMore
<1>5. Covered(file'.state, dirs') /\ Covered(mem'[p], dirs')
  BY <1>1, <1>4, ActingSpent
<1>6. temp'[p] # Absent => Covered(temp'[p].state, dirs')
  BY <1>1, <1>4 DEF IInv, TypeOK, Content, SpentInv
<1> QED
  BY <1>1, <1>2, <1>3, <1>5, <1>6, SpentStep

\* A change of one trial that takes none of its attempts back.
LEMMA OneTrialAttempts ==
  ASSUME NEW s \in RunStateType, NEW r, NEW t \in Trials,
         r.trial[t].attempts \in Nat, s.trial[t].attempts <= r.trial[t].attempts,
         \A u \in Trials \ {t} : r.trial[u] = s.trial[u]
  PROVE  \A u \in Trials : s.trial[u].attempts <= r.trial[u].attempts
<1> SUFFICES ASSUME NEW u \in Trials PROVE s.trial[u].attempts <= r.trial[u].attempts
  OBVIOUS
<1>1. CASE u = t
  BY <1>1
<1>2. CASE u # t
  BY <1>2, FieldTypes
<1> QED
  BY <1>1, <1>2

LEMMA StartTrialSpent ==
  ASSUME IInv, IInv', SpentInv, NEW p \in Procs, NEW t \in Trials, StartTrial(p, t)
  PROVE  SpentInv'
<1> DEFINE m == mem[p]
           s == [m EXCEPT !.trial[t].status = "running"]
<1>1. Save(p, s, "harbor") /\ file' = file /\ dirs' = dirs
  BY DEF StartTrial
<1>2. m \in RunStateType /\ Covered(m, dirs)
  BY ActingSpent
<1>3. s = WithStatus(m, t, "running")
  BY Zenon DEF WithStatus
<1> HIDE DEF s, m
<1>4. /\ s \in RunStateType /\ s.cost = m.cost
      /\ s.trial[t].attempts = m.trial[t].attempts
      /\ \A u \in Trials \ {t} : s.trial[u] = m.trial[u]
  <2>1. "running" \in TrialStatus
    BY DEF TrialStatus
  <2> QED
    BY <1>2, <1>3, <2>1, WithStatusFacts
<1>5. \A u \in Trials : m.trial[u].attempts <= s.trial[u].attempts
  <2>1. m.trial[t].attempts \in Nat
    BY <1>2, FieldTypes
  <2> QED
    BY <1>2, <1>4, <2>1, OneTrialAttempts
<1> QED
  BY <1>1, <1>2, <1>4, <1>5, SaveKeptSpent

\* A state that has counted the attempt, without and with the cost of its result, is
\* covered, and so is it with what becomes of the trial.
LEMMA AttemptCovered ==
  ASSUME IInv, SpentInv, NEW p \in Procs, pc[p] = "classify",
         NEW s \in Counting(p)
  PROVE  s \in RunStateType /\ Covered(s, dirs)
<1> DEFINE m == mem[p]
           t == cur[p]
           n == Try(p)
<1>1. m \in RunStateType /\ Covered(m, dirs) /\ t \in Trials /\ n \in Nat
      /\ dirs \in SUBSET TrialDir /\ IsFiniteSet(dirs)
  BY ActingSpent, InFlight
<1>2. n = m.trial[t].attempts + 1 /\ m.trial[t].attempts \in Nat
  BY <1>1, FieldTypes DEF Try
<1>3. OfAttempt(p, s)
  BY AttemptCost
<1>4. /\ s \in RunStateType /\ s.trial[t].attempts = n
      /\ \A u \in Trials \ {t} : s.trial[u] = m.trial[u]
  BY <1>3 DEF OfAttempt
<1>5. CASE s = Counted(p)
  <2>1. s.cost = m.cost
    BY <1>5, CountedFacts
  <2> HIDE DEF m, t, n
  <2>2. \A u \in Trials : m.trial[u].attempts <= s.trial[u].attempts
    <3>1. s.trial[t].attempts \in Nat /\ m.trial[t].attempts <= s.trial[t].attempts
      BY <1>1, <1>2, <1>4
    <3> QED
      BY <1>1, <1>4, <3>1, OneTrialAttempts
  <2> QED
    BY ONLY <1>1, <1>4, <2>1, <2>2, CoveredMore
<1>6. CASE \E d \in JobOf(p) : s = Attempted(p, d)
  <2>1. PICK d \in JobOf(p) : s = Attempted(p, d)
    BY <1>6
  <2>2. s.cost = m.cost + d.cost
    BY <2>1, AttemptedFacts
  <2>3. d \in dirs /\ d.trial = t /\ d.try = n
    BY DEF JobOf
  <2> HIDE DEF m, t, n
  <2>4. \A u \in Trials : m.trial[u].attempts <= s.trial[u].attempts
    <3>1. s.trial[t].attempts \in Nat /\ m.trial[t].attempts <= s.trial[t].attempts
      BY <1>1, <1>2, <1>4
    <3> QED
      BY <1>1, <1>4, <3>1, OneTrialAttempts
  <2>5. d.try = m.trial[d.trial].attempts + 1 /\ s.trial[d.trial].attempts = d.try
    BY ONLY <1>2, <1>4, <2>3
  <2>6. Covered(s, dirs)
    BY ONLY <1>1, <1>4, <2>2, <2>3, <2>4, <2>5, CoveredAttempt
  <2> QED
    BY <1>4, <2>6
<1> QED
  BY <1>5, <1>6 DEF Counting

LEMMA OutcomeCovered ==
  ASSUME IInv, SpentInv, NEW p \in Procs, pc[p] = "classify",
         NEW s \in Counting(p), NEW v \in TrialStatus \ {"running"},
         NEW r, r = WithStatus(s, cur[p], v)
  PROVE  Covered(r, dirs)
<1>1. s \in RunStateType /\ Covered(s, dirs) /\ OfAttempt(p, s)
  BY AttemptCovered, AttemptCost
<1>2. /\ r \in RunStateType /\ r.cost = s.cost
      /\ r.trial[cur[p]].attempts = Try(p)
      /\ \A u \in Trials \ {cur[p]} : r.trial[u] = mem[p].trial[u]
  BY OutcomeFacts
<1>3. ASSUME NEW u \in Trials PROVE s.trial[u].attempts = r.trial[u].attempts
  BY <1>1, <1>2 DEF OfAttempt
<1>4. \A u \in Trials : s.trial[u].attempts <= r.trial[u].attempts
  <2> TAKE u \in Trials
  <2>1. s.trial[u].attempts \in Nat
    BY <1>1, FieldTypes
  <2> QED
    BY <1>3, <2>1
<1>5. dirs \in SUBSET TrialDir /\ IsFiniteSet(dirs)
  BY ActingSpent
<1> QED
  BY ONLY <1>1, <1>2, <1>4, <1>5, CoveredMore

LEMMA ClassifyInvalidSpent ==
  ASSUME IInv, IInv', SpentInv, NEW p \in Procs, ClassifyInvalid(p)
  PROVE  SpentInv'
<1> DEFINE v == InfraStatus(Try(p))
           s == WithStatus(Counted(p), cur[p], v)
<1>1. /\ pc[p] = "classify" /\ file' = file /\ dirs' = dirs
      /\ Save(p, [Counted(p) EXCEPT !.trial[cur[p]].status = v], "loop")
  BY DEF ClassifyInvalid
<1>2. Save(p, s, "loop")
  BY <1>1, Zenon DEF WithStatus
<1>3. v \in TrialStatus \ {"running"} /\ Counted(p) \in Counting(p)
  BY DEF InfraStatus, TrialStatus, Counting
<1> HIDE DEF v
<1>4. Covered(s, dirs)
  BY <1>1, <1>3, OutcomeCovered
<1> HIDE DEF s
<1> QED
  BY <1>1, <1>2, <1>4, SaveSpent

LEMMA ClassifyExceptionSpent ==
  ASSUME IInv, IInv', SpentInv, NEW p \in Procs, ClassifyException(p)
  PROVE  SpentInv'
<1> DEFINE v == InfraStatus(Try(p))
<1>1. PICK d \in JobOf(p) :
        Save(p, [Attempted(p, d) EXCEPT !.trial[cur[p]].status = v], "loop")
  BY DEF ClassifyException
<1> DEFINE s == WithStatus(Attempted(p, d), cur[p], v)
<1>2. pc[p] = "classify" /\ file' = file /\ dirs' = dirs
  BY DEF ClassifyException
<1>3. Save(p, s, "loop")
  BY <1>1, Zenon DEF WithStatus
<1>4. v \in TrialStatus \ {"running"} /\ Attempted(p, d) \in Counting(p)
  BY DEF InfraStatus, TrialStatus, Counting
<1> HIDE DEF v
<1>5. Covered(s, dirs)
  BY <1>2, <1>4, OutcomeCovered
<1> HIDE DEF s
<1> QED
  BY <1>2, <1>3, <1>5, SaveSpent

LEMMA ClassifyScoredSpent ==
  ASSUME IInv, IInv', SpentInv, NEW p \in Procs, ClassifyScored(p)
  PROVE  SpentInv'
<1>1. PICK d \in JobOf(p) :
        /\ d.verdict \in Scored
        /\ mem' = [mem EXCEPT ![p] = [Attempted(p, d) EXCEPT !.trial[cur[p]].status = d.verdict]]
  BY DEF ClassifyScored
<1> DEFINE s == WithStatus(Attempted(p, d), cur[p], d.verdict)
<1>2. pc[p] = "classify" /\ UNCHANGED <<file, temp, dirs>>
  BY DEF ClassifyScored, Step, disk
<1>3. mem' = [mem EXCEPT ![p] = s]
  BY <1>1, Zenon DEF WithStatus
<1>4. d.verdict \in TrialStatus \ {"running"} /\ Attempted(p, d) \in Counting(p)
  BY <1>1 DEF Scored, TrialStatus, Counting
<1>5. Covered(s, dirs)
  BY <1>2, <1>4, OutcomeCovered
<1> HIDE DEF s
<1>6. mem'[p] = s /\ \A q \in Procs \ {p} : mem'[q] = mem[q]
  BY <1>3 DEF IInv, TypeOK
<1> QED
  BY <1>2, <1>5, <1>6, ActingSpent, SpentStep DEF SpentInv

LEMMA InterruptSpent ==
  ASSUME IInv, IInv', SpentInv, NEW p \in Procs, Interrupt(p)
  PROVE  SpentInv'
<1>1. PICK r \in InMemory(p) : Save(p, [r EXCEPT !.status = "paused"], "down")
  BY DEF Interrupt
<1> DEFINE s == [r EXCEPT !.status = "paused"]
<1>2. Save(p, s, "down") /\ file' = file /\ dirs' = dirs
  BY <1>1 DEF Interrupt
<1>3. r \in RunStateType /\ Covered(r, dirs)
  <2>1. CASE r = mem[p]
    BY <2>1, ActingSpent
  <2>2. CASE r # mem[p]
    <3>1. pc[p] = "classify" /\ r \in Counting(p)
      BY <2>2 DEF InMemory, Counting
    <3> QED
      BY <3>1, AttemptCovered
  <2> QED
    BY <2>1, <2>2
<1>4. s \in RunStateType /\ s.trial = r.trial /\ s.cost = r.cost
  BY <1>3, SetRunStatus DEF RunStatus
<1> HIDE DEF s
<1>5. \A t \in Trials : r.trial[t].attempts <= s.trial[t].attempts
  BY <1>3, <1>4, FieldTypes
<1> QED
  BY <1>2, <1>3, <1>4, <1>5, SaveKeptSpent

\* A step that leaves every state as it is.
LEMMA IngestSpent ==
  ASSUME IInv, IInv', SpentInv, NEW p \in Procs, IngestJob(p)
  PROVE  SpentInv'
  BY DEF IngestJob, SpentInv

LEMMA CollectKeysSpent ==
  ASSUME IInv, IInv', SpentInv, NEW p \in Procs, CollectKeys(p)
  PROVE  SpentInv'
  BY DEF CollectKeys, disk, SpentInv

LEMMA IngestFailsSpent ==
  ASSUME IInv, IInv', SpentInv, NEW p \in Procs, IngestFails(p)
  PROVE  SpentInv'
<1> DEFINE m == mem[p]
           t == cur[p]
           s == WithIngested(m, t, FALSE)
<1>1. /\ pc[p] = "ingest" /\ file' = file /\ dirs' = dirs
      /\ Save(p, [m EXCEPT !.trial[t].ingested = FALSE], "loop")
  BY DEF IngestFails
<1>2. Save(p, s, "loop")
  BY <1>1, Zenon DEF WithIngested
<1>3. m \in RunStateType /\ Covered(m, dirs) /\ t \in Trials
  BY <1>1, ActingSpent, InIngestion
<1> HIDE DEF m, t
<1>4. /\ s \in RunStateType /\ s.cost = m.cost /\ s.trial[t].attempts = m.trial[t].attempts
      /\ \A u \in Trials \ {t} : s.trial[u] = m.trial[u]
  BY ONLY <1>3, WithIngestedFacts
<1> HIDE DEF s
<1>5. \A u \in Trials : m.trial[u].attempts <= s.trial[u].attempts
  BY <1>3, <1>4, FieldTypes, OneTrialAttempts
<1> QED
  BY <1>1, <1>2, <1>3, <1>4, <1>5, SaveKeptSpent

LEMMA FlagIngestedSpent ==
  ASSUME IInv, IInv', SpentInv, NEW p \in Procs, FlagIngested(p)
  PROVE  SpentInv'
<1> DEFINE m == mem[p]
           t == cur[p]
           s == WithIngested(m, t, TRUE)
<1>1. /\ pc[p] = "stored" /\ UNCHANGED <<file, temp, dirs>>
      /\ mem' = [mem EXCEPT ![p].trial[cur[p]].ingested = TRUE]
  BY DEF FlagIngested, Step, disk
<1>2. mem' = [mem EXCEPT ![p] = s]
  BY <1>1, Zenon DEF WithIngested
<1>3. m \in RunStateType /\ Covered(m, dirs) /\ t \in Trials
      /\ dirs \in SUBSET TrialDir /\ IsFiniteSet(dirs)
  BY <1>1, ActingSpent, InIngestion
<1> HIDE DEF m, t
<1>4. /\ s \in RunStateType /\ s.cost = m.cost /\ s.trial[t].attempts = m.trial[t].attempts
      /\ \A u \in Trials \ {t} : s.trial[u] = m.trial[u]
  BY ONLY <1>3, WithIngestedFacts
<1> HIDE DEF s
<1>5. \A u \in Trials : m.trial[u].attempts <= s.trial[u].attempts
  BY <1>3, <1>4, FieldTypes, OneTrialAttempts
<1>6. Covered(s, dirs)
  BY ONLY <1>3, <1>4, <1>5, CoveredMore
<1>7. mem'[p] = s /\ \A q \in Procs \ {p} : mem'[q] = mem[q]
  BY <1>2 DEF IInv, TypeOK
<1> QED
  BY <1>1, <1>6, <1>7, ActingSpent, SpentStep DEF SpentInv

LEMMA RecordKeySpent ==
  ASSUME IInv, IInv', SpentInv, NEW p \in Procs, RecordKey(p)
  PROVE  SpentInv'
<1> DEFINE m == mem[p]
           t == cur[p]
           k == found[p]
           s == WithKey(m, t, k)
<1>1. /\ pc[p] = "flagged" /\ file' = file /\ dirs' = dirs
      /\ Save(p, [m EXCEPT !.trial[t].key = k], "loop")
  BY DEF RecordKey
<1>2. Save(p, s, "loop")
  BY <1>1, Zenon DEF WithKey
<1>3. m \in RunStateType /\ Covered(m, dirs) /\ t \in Trials /\ k \in Nat
  BY <1>1, ActingSpent, ActingProcess, InIngestion
<1> HIDE DEF m, t, k
<1>4. /\ s \in RunStateType /\ s.cost = m.cost /\ s.trial[t].attempts = m.trial[t].attempts
      /\ \A u \in Trials \ {t} : s.trial[u] = m.trial[u]
  BY ONLY <1>3, WithKeyFacts
<1> HIDE DEF s
<1>5. \A u \in Trials : m.trial[u].attempts <= s.trial[u].attempts
  BY <1>3, <1>4, FieldTypes, OneTrialAttempts
<1> QED
  BY <1>1, <1>2, <1>3, <1>4, <1>5, SaveKeptSpent

LEMMA BackfillKeysSpent ==
  ASSUME IInv, IInv', SpentInv, NEW p \in Procs, BackfillKeys(p)
  PROVE  SpentInv'
<1> DEFINE m == mem[p]
           s == WithKeys(m)
<1>1. Save(p, s, "render") /\ file' = file /\ dirs' = dirs
  BY DEF BackfillKeys
<1>2. m \in RunStateType /\ Covered(m, dirs)
  BY ActingSpent
<1>3. /\ s \in RunStateType /\ s.cost = m.cost
      /\ \A t \in Trials : s.trial[t].attempts = m.trial[t].attempts
  BY <1>2, WithKeysFields
<1> HIDE DEF s, m
<1>4. \A t \in Trials : m.trial[t].attempts <= s.trial[t].attempts
  BY <1>2, <1>3, FieldTypes
<1> QED
  BY <1>1, <1>2, <1>3, <1>4, SaveKeptSpent

LEMMA InitSpent == Init => SpentInv
<1> SUFFICES ASSUME Init PROVE SpentInv
  OBVIOUS
<1>1. Covered(NewState, {})
  BY NewStateCovered, FS_EmptySet
<1> QED
  BY <1>1, FS_EmptySet DEF Init, SpentInv

LEMMA NextSpent == IInv /\ IInv' /\ SpentInv /\ [Next]_vars => SpentInv'
<1> SUFFICES ASSUME IInv, IInv', SpentInv, [Next]_vars PROVE SpentInv'
  OBVIOUS
<1>1. CASE UNCHANGED vars
  BY <1>1 DEF vars, disk, locals, SpentInv
<1>2. ASSUME NEW p \in Procs, Resume(p) \/ Regenerate(p) \/ Crash(p) \/ Interrupt(p)
      PROVE  SpentInv'
  BY <1>2, ResumeSpent, RegenerateSpent, CrashSpent, InterruptSpent
<1>3. ASSUME NEW p \in Procs, Process(p)
      PROVE  SpentInv'
  BY <1>3, FillTempSpent, ReplaceFileSpent, FinishLoopSpent, StopAtBudgetSpent, StartTrialSpent,
     HarborReturnsSpent, ClassifyInvalidSpent, ClassifyExceptionSpent, ClassifyScoredSpent,
     IngestSpent, IngestFailsSpent, FlagIngestedSpent, RecordKeySpent, CollectKeysSpent,
     BackfillKeysSpent, GenerateReportsSpent DEF Process
<1> QED
  BY <1>1, <1>2, <1>3 DEF Next

\* However the processes overwrite each other's state.json and classify each
\* other's results, the cost it has is covered by results that Harbor made, none
\* counted twice, and exceeds the budget by less than one result.
THEOREM CostStaysSpent == Spec => []CostIsSpent
<1>1. Init => IInv /\ SpentInv
  BY InitIInv, InitSpent
<1>2. IInv /\ SpentInv /\ [Next]_vars => (IInv /\ SpentInv)'
  BY NextIInv, NextSpent
<1>3. IInv /\ SpentInv => CostIsSpent
  <2> SUFFICES ASSUME IInv, SpentInv PROVE CostIsSpent
    OBVIOUS
  <2> DEFINE f == [d \in dirs |-> d.cost]
             C == CountedDirs(file.state, dirs)
  <2>1. file.state \in RunStateType /\ dirs \in SUBSET TrialDir /\ IsFiniteSet(dirs)
    BY DEF IInv, TypeOK, Content
  <2>2. Billed = SumFunctionOnSet(f, dirs)
    BY DEF Billed, SumFunction
  <2>3. \A d \in dirs : CostOf[d] \in Nat /\ CostOf[d] = f[d]
    BY <2>1, CostTypes
  <2> HIDE DEF f
  <2>4. SumFunctionOnSet(CostOf, dirs) = SumFunctionOnSet(f, dirs)
    BY <2>1, <2>3, SumSame
  <2>5. C \in SUBSET dirs
    BY DEF CountedDirs
  <2>6. file.state.cost <= SumFunctionOnSet(CostOf, C)
    BY DEF SpentInv, Covered, Spent
  <2> HIDE DEF C
  <2>7. IsFiniteSet(C) /\ \A d \in C : CostOf[d] \in Nat
    BY <2>1, <2>3, <2>5, FS_Subset
  <2>8. SumFunctionOnSet(CostOf, C) <= SumFunctionOnSet(CostOf, dirs)
    BY <2>1, <2>3, <2>5, SumSubset
  <2>9. /\ SumFunctionOnSet(CostOf, C) \in Nat /\ SumFunctionOnSet(CostOf, dirs) \in Nat
        /\ file.state.cost \in Nat
    BY <2>1, <2>3, <2>7, SumType, FieldTypes
  <2>10. WithinBudget(file.state)
    BY DEF IInv, Consistent
  <2> QED
    BY <2>2, <2>4, <2>6, <2>8, <2>9, <2>10 DEF CostIsSpent
<1> QED
  BY <1>1, <1>2, <1>3, PTL DEF Spec

-----------------------------------------------------------------------------
(* Progress: how much a process has left to do.                            *)
(*                                                                         *)
(* What it has is in its own RunState and program counter, which no other  *)
(* process touches, so nothing the others do gives it more.                *)

\* The attempts that the retry limit leaves, attempt n included.
From(n) == IF n <= MaxInfraRetries THEN MaxInfraRetries + 1 - n ELSE 0

\* How often trial t of state s can be launched and recorded.
Launches(s, t) ==
  IF s.trial[t].status \in Settled THEN 0 ELSE 1 + From(s.trial[t].attempts + 1)

\* The same in process p, whose launch of the trial in flight is behind it.
LaunchesLeft(p, t) ==
  IF t = cur[p] /\ mem[p].trial[t].status = "running" THEN From(Try(p)) ELSE Launches(mem[p], t)

ProcessWork(p) == SumFunctionOnSet([t \in Trials |-> LaunchesLeft(p, t)], Trials)

\* The steps from a place in the code to the head of the loop, and from there to
\* the end, if no trial is launched; and those of a write of state.json before it.
Place == [down |-> 0, render |-> 3, report |-> 6, loop |-> 9, flagged |-> 12, stored |-> 13,
          ingest |-> 14, classify |-> 15, harbor |-> 16]

Delay(p) == IF pc[p] = "fill" THEN 2 ELSE IF pc[p] = "replace" THEN 1 ELSE 0

Away(p) == Place[Goal(p)] + Delay(p)

\* A launch is worth the steps of a round.
StepsLeft(p) == Away(p) + (IF Goal(p) \in InTry THEN 10 * ProcessWork(p) ELSE 0)

MaxWork == (MaxInfraRetries + 1) * Cardinality(Trials)

\* A trial is in flight from StartTrial until its outcome is saved.  The file a
\* process is about to rename is there: nobody else uses its name.
FlightInv ==
  \A p \in Procs :
    /\ pc[p] \in {"loop", "report", "render", "down"} => cur[p] = NoTrial
    /\ pc[p] \in {"fill", "replace"} /\ cur[p] # NoTrial => next[p] \in {"loop", "harbor"}
    /\ pc[p] = "replace" => temp[p] # Absent

\* A new run has no trial in flight.
LEMMA InitFlight == Init => FlightInv
  BY DEF Init, FlightInv

\* Beginning to save a state keeps FlightInv.
LEMMA SaveFlight ==
  ASSUME TypeOK, FlightInv, NEW p \in Procs, NEW s, NEW l, Save(p, s, l),
         cur' \in [Procs -> Trials \cup {NoTrial}],
         \A q \in Procs \ {p} : cur'[q] = cur[q],
         cur'[p] # NoTrial => l \in {"loop", "harbor"}
  PROVE  FlightInv'
<1>1. /\ pc'[p] = "fill" /\ next'[p] = l
      /\ \A q \in Procs \ {p} : pc'[q] = pc[q] /\ next'[q] = next[q] /\ temp'[q] = temp[q]
  BY DEF Save, TempName, TypeOK
<1> QED
  BY <1>1 DEF FlightInv

\* A step keeps FlightInv.
LEMMA FlightStep == TypeOK /\ FlightInv /\ [Next]_vars => FlightInv'
<1> SUFFICES ASSUME TypeOK, FlightInv, [Next]_vars PROVE FlightInv'
  OBVIOUS
<1>1. CASE UNCHANGED vars
  BY <1>1 DEF vars, disk, locals, FlightInv
<1>2. ASSUME NEW p \in Procs, FillTemp(p) PROVE FlightInv'
  <2>1. /\ pc[p] = "fill" /\ pc' = [pc EXCEPT ![p] = "replace"]
        /\ temp' = [temp EXCEPT ![p] = [whole |-> TRUE, state |-> mem[p]]]
        /\ UNCHANGED <<next, cur>>
    BY <1>2 DEF FillTemp, Step, TempName
  <2>2. [whole |-> TRUE, state |-> mem[p]] \in Content
    BY DEF TypeOK, Content
  <2> QED
    BY <2>1, <2>2, AbsentAssumption DEF FlightInv, TypeOK
<1>3. ASSUME NEW p \in Procs, ReplaceFile(p) PROVE FlightInv'
  <2>1. /\ pc[p] = "replace" /\ pc' = [pc EXCEPT ![p] = next[p]]
        /\ temp' = [temp EXCEPT ![p] = Absent] /\ next' = [next EXCEPT ![p] = "down"]
        /\ cur' = IF next[p] = "harbor" THEN cur ELSE [cur EXCEPT ![p] = NoTrial]
    BY <1>3 DEF ReplaceFile, Step, TempName
  <2> QED
    BY <2>1 DEF FlightInv, TypeOK
<1>4. ASSUME NEW p \in Procs, Regenerate(p) \/ Crash(p) PROVE FlightInv'
  BY <1>4 DEF Regenerate, Crash, Down, Step, disk, FlightInv, TypeOK
<1>5. ASSUME NEW p \in Procs,
             \/ Resume(p) \/ FinishLoop(p) \/ StopAtBudget(p)
             \/ BackfillKeys(p) \/ GenerateReports(p)
      PROVE  FlightInv'
  <2>1. cur[p] = NoTrial /\ cur' = cur
    BY <1>5 DEF Resume, FinishLoop, StopAtBudget, BackfillKeys, GenerateReports, FlightInv
  <2>2. PICK s, l : Save(p, s, l)
    BY <1>5 DEF Resume, FinishLoop, StopAtBudget, BackfillKeys, GenerateReports
  <2> QED
    BY <2>1, <2>2, SaveFlight DEF TypeOK
<1>6. ASSUME NEW p \in Procs, NEW t \in Trials, StartTrial(p, t) PROVE FlightInv'
  <2>1. PICK s : Save(p, s, "harbor")
    BY <1>6 DEF StartTrial
  <2>2. cur' = [cur EXCEPT ![p] = t]
    BY <1>6 DEF StartTrial
  <2> QED
    BY <2>1, <2>2, SaveFlight DEF TypeOK
<1>7. ASSUME NEW p \in Procs,
             \/ ClassifyInvalid(p) \/ ClassifyException(p) \/ IngestFails(p) \/ RecordKey(p)
      PROVE  FlightInv'
  <2>1. PICK s : Save(p, s, "loop")
    <3>1. CASE ClassifyInvalid(p)
      BY <3>1 DEF ClassifyInvalid
    <3>2. CASE ClassifyException(p)
      BY <3>2 DEF ClassifyException
    <3>3. CASE IngestFails(p)
      BY <3>3 DEF IngestFails
    <3>4. CASE RecordKey(p)
      BY <3>4 DEF RecordKey
    <3> QED
      BY <1>7, <3>1, <3>2, <3>3, <3>4
  <2>2. cur' = cur
    BY <1>7 DEF ClassifyInvalid, ClassifyException, IngestFails, RecordKey
  <2> QED
    BY <2>1, <2>2, SaveFlight DEF TypeOK
<1>8. ASSUME NEW p \in Procs,
             \/ ClassifyScored(p) \/ IngestJob(p) \/ FlagIngested(p)
             \/ \E v \in Verdicts, c \in Costs : HarborReturns(p, v, c)
      PROVE  FlightInv'
  <2>1. /\ \E l \in {"classify", "ingest", "stored", "flagged"} : pc' = [pc EXCEPT ![p] = l]
        /\ UNCHANGED <<temp, next, cur>>
    BY <1>8 DEF ClassifyScored, IngestJob, FlagIngested, HarborReturns, Step, disk
  <2> QED
    BY <2>1 DEF FlightInv, TypeOK
<1>10. ASSUME NEW p \in Procs, CollectKeys(p) PROVE FlightInv'
  <2>1. /\ pc[p] = "report" /\ pc' = [pc EXCEPT ![p] = "render"]
        /\ UNCHANGED <<temp, next, cur>>
    BY <1>10 DEF CollectKeys, Step, disk
  <2> QED
    BY <2>1 DEF FlightInv, TypeOK
<1>9. ASSUME NEW p \in Procs, Interrupt(p) PROVE FlightInv'
  <2>1. PICK s : Save(p, s, "down")
    BY <1>9 DEF Interrupt
  <2>2. cur' = [cur EXCEPT ![p] = NoTrial]
    BY <1>9 DEF Interrupt
  <2> QED
    BY <2>1, <2>2, SaveFlight DEF TypeOK
<1> QED
  BY <1>1, <1>2, <1>3, <1>4, <1>5, <1>6, <1>7, <1>8, <1>9, <1>10 DEF Next, Process

\* An attempt more leaves one less, while any is left.
LEMMA FromFacts ==
  ASSUME NEW n \in Nat
  PROVE  /\ From(n) \in Nat /\ From(n) <= MaxInfraRetries + 1
         /\ From(n + 1) \in Nat /\ 1 + From(n + 1) <= MaxInfraRetries + 1
         /\ From(n + 1) <= From(n)
         /\ n <= MaxInfraRetries => From(n) = 1 + From(n + 1)
  BY RunProcessesAssumption DEF From

\* A trial can be launched once and retried MaxInfraRetries times.
LEMMA LaunchesFacts ==
  ASSUME NEW s \in RunStateType, NEW t \in Trials
  PROVE  Launches(s, t) \in Nat /\ Launches(s, t) <= MaxInfraRetries + 1
<1>1. s.trial[t].attempts \in Nat
  BY FieldTypes
<1> QED
  BY <1>1, FromFacts, RunProcessesAssumption DEF Launches

\* The trial in flight is worth no more than any other.
LEMMA LaunchesLeftFacts ==
  ASSUME TypeOK, NEW p \in Procs, NEW t \in Trials
  PROVE  LaunchesLeft(p, t) \in Nat /\ LaunchesLeft(p, t) <= MaxInfraRetries + 1
<1>1. mem[p] \in RunStateType
  BY DEF TypeOK
<1>2. mem[p].trial[t].attempts + 1 \in Nat
  BY <1>1, FieldTypes
<1>3. t = cur[p] => Try(p) \in Nat
  BY <1>2 DEF Try
<1> QED
  BY <1>1, <1>3, LaunchesFacts, FromFacts DEF LaunchesLeft

\* A process at the head of the loop, or that will be there when it has saved its
\* state, has launched nothing, nor has one at an ingestion.
LEMMA NothingLaunched ==
  ASSUME IInv, NEW p \in Procs, Goal(p) \in {"loop", "ingest", "stored", "flagged"},
         NEW t \in Trials
  PROVE  LaunchesLeft(p, t) = Launches(mem[p], t)
  BY DEF IInv, ProcessInv, AtStep, NoneRunning, LaunchesLeft

\* A trial whose verdict a process finds is worth no more to it than its retries.
LEMMA LeftSettled ==
  ASSUME IInv, NEW p \in Procs, pc[p] = "classify", NEW s, NEW v,
         s.trial[cur[p]].attempts = Try(p), s.trial[cur[p]].status = v,
         v \in Settled \/ v = InfraStatus(Try(p)),
         \A u \in Trials \ {cur[p]} : s.trial[u] = mem[p].trial[u],
         NEW t \in Trials
  PROVE  Launches(s, t) <= LaunchesLeft(p, t)
<1>1. CASE t # cur[p]
  <2>1. Launches(s, t) = LaunchesLeft(p, t)
    BY <1>1 DEF Launches, LaunchesLeft
  <2> QED
    BY <2>1, LaunchesLeftFacts DEF IInv
<1>2. CASE t = cur[p]
  <2>1. Try(p) \in Nat /\ LaunchesLeft(p, t) = From(Try(p))
    BY <1>2, InFlight DEF LaunchesLeft
  <2>2. CASE v \in Settled
    <3>1. Launches(s, t) = 0
      BY <1>2, <2>2 DEF Launches
    <3> QED
      BY <2>1, <3>1, FromFacts
  <2>3. CASE v \notin Settled
    <3>1. v = "infra_invalid_retry_scheduled" /\ Try(p) <= MaxInfraRetries
      <4>1. v = InfraStatus(Try(p))
        BY <2>3
      <4>2. "infra_invalid_exhausted" \in Settled
        BY DEF Settled, TrialStatus, Waiting
      <4> QED
        BY <2>1, <2>3, <4>1, <4>2, RunProcessesAssumption DEF InfraStatus
    <3>2. Launches(s, t) = 1 + From(Try(p) + 1)
      BY <1>2, <2>3 DEF Launches
    <3> QED
      BY <2>1, <3>1, <3>2, FromFacts
  <2> QED
    BY <2>2, <2>3
<1> QED
  BY <1>1, <1>2

\* Launching a trial leaves less to do of it, and as much of the others.
LEMMA LeftStart ==
  ASSUME IInv, FlightInv, NEW p \in Procs, NEW u \in Trials, StartTrial(p, u), NEW t \in Trials
  PROVE  /\ LaunchesLeft(p, t)' <= LaunchesLeft(p, t)
         /\ t = u => LaunchesLeft(p, t)' < LaunchesLeft(p, t)
<1> DEFINE m == mem[p]
           s == WithStatus(m, u, "running")
<1>1. /\ pc[p] = "loop" /\ u \in PendingTrials(m)
      /\ Save(p, [m EXCEPT !.trial[u].status = "running"], "harbor")
      /\ cur' = [cur EXCEPT ![p] = u]
  BY DEF StartTrial, IsNext
<1>2. m \in RunStateType
  BY ActingProcess
<1>3. mem'[p] = s /\ cur'[p] = u
  BY <1>1 DEF Save, WithStatus, IInv, TypeOK
<1>4. LaunchesLeft(p, t) = Launches(m, t)
  BY <1>1, NothingLaunched DEF Goal
<1>5. "running" \in TrialStatus
  BY DEF TrialStatus
<1> HIDE DEF m, s
<1>6. /\ s.trial[u].status = "running" /\ s.trial[u].attempts = m.trial[u].attempts
      /\ \A w \in Trials \ {u} : s.trial[w] = m.trial[w]
  BY <1>2, <1>5, WithStatusFacts DEF s
<1>7. CASE t = u
  <2>1. m.trial[u].status \notin Settled
    BY <1>1 DEF PendingTrials, Settled
  <2>2. m.trial[u].attempts + 1 \in Nat
    BY <1>2, FieldTypes
  <2>3. LaunchesLeft(p, t)' = From(m.trial[u].attempts + 1)
    BY <1>3, <1>6, <1>7 DEF LaunchesLeft, Try
  <2>4. Launches(m, t) = 1 + From(m.trial[u].attempts + 1)
    BY <1>7, <2>1 DEF Launches
  <2> QED
    BY <1>4, <2>2, <2>3, <2>4, FromFacts
<1>8. CASE t # u
  <2>1. LaunchesLeft(p, t)' = Launches(m, t)
    BY <1>3, <1>6, <1>8 DEF LaunchesLeft, Launches
  <2> QED
    BY <1>2, <1>4, <1>8, <2>1, LaunchesFacts
<1> QED
  BY <1>7, <1>8

\* A state whose trials are as far as those of the process is worth as much.
LEMMA LaunchesSame ==
  ASSUME NEW s, NEW r, NEW t \in Trials, r.trial[t].attempts = s.trial[t].attempts,
         r.trial[t].status = s.trial[t].status
  PROVE  Launches(r, t) = Launches(s, t)
  BY DEF Launches

\* What ingestion changes of a trial is neither its status nor its attempts.
LEMMA IngestLeaves ==
  ASSUME IInv, NEW p \in Procs,
         IngestJob(p) \/ IngestFails(p) \/ FlagIngested(p) \/ RecordKey(p), NEW t \in Trials
  PROVE  /\ mem'[p].trial[t].status = mem[p].trial[t].status
         /\ mem'[p].trial[t].attempts = mem[p].trial[t].attempts
<1> DEFINE m == mem[p]
           u == cur[p]
           s == mem'[p]
<1>1. m \in RunStateType /\ u \in Trials /\ found[p] \in Nat
  BY ActingProcess, InIngestion DEF IngestJob, IngestFails, FlagIngested, RecordKey, Step
<1>2. CASE IngestJob(p)
  BY <1>2 DEF IngestJob
<1>3. ASSUME NEW b \in BOOLEAN, s = WithIngested(m, u, b)
      PROVE  s.trial[t].status = m.trial[t].status /\ s.trial[t].attempts = m.trial[t].attempts
  <2> HIDE DEF m, u, s
  <2> QED
    BY ONLY <1>1, <1>3, t \in Trials, WithIngestedFacts
<1>4. ASSUME s = WithKey(m, u, found[p])
      PROVE  s.trial[t].status = m.trial[t].status /\ s.trial[t].attempts = m.trial[t].attempts
  <2> HIDE DEF m, u, s
  <2> QED
    BY ONLY <1>1, <1>4, t \in Trials, WithKeyFacts
<1>5. CASE IngestFails(p)
  <2>1. Save(p, [m EXCEPT !.trial[u].ingested = FALSE], "loop")
    BY <1>5 DEF IngestFails
  <2>2. Save(p, WithIngested(m, u, FALSE), "loop")
    BY <2>1, Zenon DEF WithIngested
  <2> HIDE DEF m, u
  <2>3. s = WithIngested(m, u, FALSE)
    BY <2>2 DEF Save, IInv, TypeOK
  <2> QED
    BY <1>3, <2>3 DEF m, s
<1>6. CASE FlagIngested(p)
  <2>1. mem' = [mem EXCEPT ![p].trial[cur[p]].ingested = TRUE]
    BY <1>6 DEF FlagIngested
  <2>2. mem' = [mem EXCEPT ![p] = WithIngested(m, u, TRUE)]
    BY <2>1, Zenon DEF WithIngested
  <2> HIDE DEF m, u
  <2>3. s = WithIngested(m, u, TRUE)
    BY <2>2 DEF IInv, TypeOK
  <2> QED
    BY <1>3, <2>3 DEF m, s
<1>7. CASE RecordKey(p)
  <2>1. Save(p, [m EXCEPT !.trial[u].key = found[p]], "loop")
    BY <1>7 DEF RecordKey
  <2>2. Save(p, WithKey(m, u, found[p]), "loop")
    BY <2>1, Zenon DEF WithKey
  <2> HIDE DEF m, u
  <2>3. s = WithKey(m, u, found[p])
    BY <2>2 DEF Save, IInv, TypeOK
  <2> QED
    BY <1>4, <2>3 DEF m, s
<1> QED
  BY <1>2, <1>5, <1>6, <1>7

\* What a classification makes of the trial in flight.
LEMMA ClassifiedLeft ==
  ASSUME IInv, NEW p \in Procs,
         ClassifyInvalid(p) \/ ClassifyException(p) \/ ClassifyScored(p), NEW t \in Trials
  PROVE  Launches(mem'[p], t) <= LaunchesLeft(p, t)
<1> DEFINE w == InfraStatus(Try(p))
<1>1. pc[p] = "classify"
  BY DEF ClassifyInvalid, ClassifyException, ClassifyScored, Step
<1>2. w \in TrialStatus \ {"running"} /\ Counted(p) \in Counting(p)
      /\ \A d \in JobOf(p) : Attempted(p, d) \in Counting(p)
  BY DEF InfraStatus, TrialStatus, Counting
<1>3. \E s, v : /\ s \in Counting(p)
                /\ v \in TrialStatus \ {"running"} /\ (v \in Settled \/ v = w)
                /\ mem'[p] = WithStatus(s, cur[p], v)
  <2>1. CASE ClassifyInvalid(p)
    <3>1. Save(p, [Counted(p) EXCEPT !.trial[cur[p]].status = w], "loop")
      BY <2>1 DEF ClassifyInvalid
    <3>2. Save(p, WithStatus(Counted(p), cur[p], w), "loop")
      BY <3>1, Zenon DEF WithStatus
    <3> HIDE DEF w
    <3>3. mem'[p] = WithStatus(Counted(p), cur[p], w)
      BY <3>2 DEF Save, IInv, TypeOK
    <3> QED
      BY <1>2, <3>3
  <2>2. CASE ClassifyException(p)
    <3>1. PICK d \in JobOf(p) : Save(p, [Attempted(p, d) EXCEPT !.trial[cur[p]].status = w], "loop")
      BY <2>2 DEF ClassifyException
    <3>2. Save(p, WithStatus(Attempted(p, d), cur[p], w), "loop")
      BY <3>1, Zenon DEF WithStatus
    <3> HIDE DEF w
    <3>3. mem'[p] = WithStatus(Attempted(p, d), cur[p], w)
      BY <3>2 DEF Save, IInv, TypeOK
    <3> QED
      BY <1>2, <3>3
  <2>3. CASE ClassifyScored(p)
    <3>1. PICK d \in JobOf(p) :
            /\ d.verdict \in Scored
            /\ mem' = [mem EXCEPT ![p] = [Attempted(p, d) EXCEPT !.trial[cur[p]].status = d.verdict]]
      BY <2>3 DEF ClassifyScored
    <3>2. mem' = [mem EXCEPT ![p] = WithStatus(Attempted(p, d), cur[p], d.verdict)]
      BY <3>1, Zenon DEF WithStatus
    <3>3. mem'[p] = WithStatus(Attempted(p, d), cur[p], d.verdict)
      BY <3>2 DEF IInv, TypeOK
    <3>4. /\ d.verdict \in TrialStatus \ {"running"} /\ d.verdict \in Settled
      BY <3>1 DEF Scored, TrialStatus, Settled, Waiting
    <3> QED
      BY <1>2, <3>3, <3>4
  <2> QED
    BY <2>1, <2>2, <2>3
<1> HIDE DEF w
<1>4. PICK s, v : /\ s \in Counting(p)
                  /\ v \in TrialStatus \ {"running"} /\ (v \in Settled \/ v = w)
                  /\ mem'[p] = WithStatus(s, cur[p], v)
  BY <1>3
<1>5. /\ mem'[p].trial[cur[p]].status = v /\ mem'[p].trial[cur[p]].attempts = Try(p)
      /\ \A u \in Trials \ {cur[p]} : mem'[p].trial[u] = mem[p].trial[u]
  BY <1>1, <1>4, OutcomeFacts
<1> QED
  BY <1>1, <1>4, <1>5, LeftSettled DEF w

\* No step of a process that has a round ahead gives it more to do of a trial.
LEMMA LeftStep ==
  ASSUME IInv, IInv', FlightInv, NEW p \in Procs, Process(p), Goal(p)' \in InTry, NEW t \in Trials
  PROVE  LaunchesLeft(p, t)' <= LaunchesLeft(p, t)
<1>1. LaunchesLeft(p, t) \in Nat
  BY LaunchesLeftFacts DEF IInv
<1>2. ASSUME Goal(p)' \in {"loop", "ingest", "stored", "flagged"}
      PROVE  LaunchesLeft(p, t)' = Launches(mem'[p], t)
  BY <1>2 DEF IInv, ProcessInv, AtStep, NoneRunning, LaunchesLeft
<1>3. CASE FillTemp(p) \/ \E v \in Verdicts, c \in Costs : HarborReturns(p, v, c)
  <2>1. mem' = mem /\ cur' = cur
    BY <1>3 DEF FillTemp, HarborReturns
  <2>2. LaunchesLeft(p, t)' = LaunchesLeft(p, t)
    BY <2>1 DEF LaunchesLeft, Try
  <2> QED
    BY <1>1, <2>2
<1>4. CASE ReplaceFile(p)
  <2>1. /\ pc[p] = "replace" /\ pc'[p] = next[p]
        /\ mem' = IF next[p] = "down" THEN [mem EXCEPT ![p] = NewState] ELSE mem
        /\ cur' = IF next[p] = "harbor" THEN cur ELSE [cur EXCEPT ![p] = NoTrial]
        /\ next[p] \in {"down", "loop", "harbor", "report", "render"}
    BY <1>4 DEF ReplaceFile, Step, TempName, IInv, TypeOK
  <2>2. next[p] \in {"loop", "harbor"} /\ mem' = mem
    BY <2>1 DEF Goal, InTry
  <2>3. CASE next[p] = "harbor"
    <3>1. LaunchesLeft(p, t)' = LaunchesLeft(p, t)
      BY <2>1, <2>2, <2>3 DEF LaunchesLeft, Try
    <3> QED
      BY <1>1, <3>1
  <2>4. CASE next[p] = "loop"
    <3>1. Goal(p) = "loop" /\ Goal(p)' = "loop"
      BY <2>1, <2>4 DEF Goal
    <3>2. LaunchesLeft(p, t)' = LaunchesLeft(p, t)
      BY <1>2, <2>2, <3>1, NothingLaunched
    <3> QED
      BY <1>1, <3>2
  <2> QED
    BY <2>2, <2>3, <2>4
<1>5. CASE \/ FinishLoop(p) \/ StopAtBudget(p) \/ CollectKeys(p) \/ BackfillKeys(p)
            \/ GenerateReports(p)
  <2>1. Goal(p)' \in {"down", "report", "render"}
    BY <1>5 DEF FinishLoop, StopAtBudget, CollectKeys, BackfillKeys, GenerateReports, Save, Step,
                Goal, IInv, TypeOK
  <2> QED
    BY <2>1 DEF InTry
<1>6. CASE \E u \in Trials : StartTrial(p, u)
  BY <1>6, LeftStart
<1>7. CASE ClassifyInvalid(p) \/ ClassifyException(p) \/ ClassifyScored(p)
  <2>1. Goal(p)' \in {"loop", "ingest"}
    BY <1>7 DEF ClassifyInvalid, ClassifyException, ClassifyScored, Save, Step, Goal, IInv, TypeOK
  <2> QED
    BY <1>2, <1>7, <2>1, ClassifiedLeft
<1>8. CASE IngestJob(p) \/ IngestFails(p) \/ FlagIngested(p) \/ RecordKey(p)
  <2>1. /\ Goal(p) \in {"ingest", "stored", "flagged"}
        /\ Goal(p)' \in {"loop", "stored", "flagged"}
    BY <1>8 DEF IngestJob, IngestFails, FlagIngested, RecordKey, Save, Step, Goal, IInv, TypeOK
  <2>2. Launches(mem'[p], t) = Launches(mem[p], t)
    BY <1>8, IngestLeaves, LaunchesSame
  <2>3. LaunchesLeft(p, t)' = LaunchesLeft(p, t)
    BY <1>2, <2>1, <2>2, NothingLaunched
  <2> QED
    BY <1>1, <2>3
<1> QED
  BY <1>3, <1>4, <1>5, <1>6, <1>7, <1>8 DEF Process

\* The table of places, as equations.
LEMMA PlaceValues ==
  /\ Place["down"] = 0 /\ Place["render"] = 3 /\ Place["report"] = 6 /\ Place["loop"] = 9
  /\ Place["flagged"] = 12 /\ Place["stored"] = 13 /\ Place["ingest"] = 14
  /\ Place["classify"] = 15 /\ Place["harbor"] = 16
  BY DEF Place

\* How far away a process can be.
LEMMA AwayRange ==
  ASSUME TypeOK, NEW p \in Procs
  PROVE  /\ Away(p) \in 0..18
         /\ pc[p] # "down" => Away(p) > 0
         /\ Goal(p) \in InTry \cup {"down", "report", "render"}
<1>1. /\ pc[p] \in InTry \cup {"down", "fill", "replace", "report", "render"}
      /\ next[p] \in {"down", "loop", "harbor", "report", "render"}
  BY DEF TypeOK
<1> QED
  BY <1>1, PlaceValues DEF Away, Delay, Goal, InTry

\* A process that begins to save its state, to go on at l.
LEMMA AwaySave ==
  ASSUME TypeOK, NEW p \in Procs, NEW s, NEW l, Save(p, s, l)
  PROVE  Goal(p)' = l /\ Away(p)' = Place[l] + 2
<1>1. pc'[p] = "fill" /\ next'[p] = l
  BY DEF Save, TypeOK
<1> QED
  BY <1>1 DEF Away, Delay, Goal

\* A step of a process brings it nearer to its end, or launches a trial, and no step
\* but its first takes it into a round.
LEMMA NearerStep ==
  ASSUME TypeOK, FlightInv, NEW p \in Procs, Process(p) \/ Interrupt(p)
  PROVE  /\ \/ Away(p)' < Away(p)
            \/ \E t \in Trials : StartTrial(p, t) /\ Away(p)' = Away(p) + 9
         /\ Goal(p)' \in InTry => Goal(p) \in InTry
<1> USE PlaceValues
<1>1. ASSUME FillTemp(p)
      PROVE  Away(p)' < Away(p) /\ Goal(p)' = Goal(p)
  <2>1. pc[p] = "fill" /\ pc'[p] = "replace" /\ next'[p] = next[p]
    BY <1>1 DEF FillTemp, Step, TypeOK
  <2>2. next[p] \in {"down", "loop", "harbor", "report", "render"}
    BY DEF TypeOK
  <2> QED
    BY <2>1, <2>2 DEF Away, Delay, Goal
<1>2. ASSUME ReplaceFile(p)
      PROVE  Away(p)' < Away(p) /\ Goal(p)' = Goal(p)
  <2>1. pc[p] = "replace" /\ pc'[p] = next[p]
    BY <1>2 DEF ReplaceFile, Step, TypeOK
  <2>2. next[p] \in {"down", "loop", "harbor", "report", "render"}
    BY DEF TypeOK
  <2> QED
    BY <2>1, <2>2 DEF Away, Delay, Goal
<1>3. ASSUME \/ FinishLoop(p) \/ StopAtBudget(p) \/ CollectKeys(p) \/ BackfillKeys(p)
             \/ GenerateReports(p)
      PROVE  Away(p)' < Away(p) /\ Goal(p)' \in {"down", "report", "render"}
  <2>1. CASE FinishLoop(p)
    <3>1. pc[p] = "loop" /\ Goal(p)' = "report" /\ Away(p)' = Place["report"] + 2
      BY <2>1, AwaySave DEF FinishLoop
    <3> QED
      BY <3>1 DEF Away, Delay, Goal
  <2>2. CASE StopAtBudget(p) \/ GenerateReports(p)
    <3>1. pc[p] \in {"loop", "render"} /\ Goal(p)' = "down" /\ Away(p)' = Place["down"] + 2
      BY <2>2, AwaySave DEF StopAtBudget, GenerateReports
    <3> QED
      BY <3>1 DEF Away, Delay, Goal
  <2>3. CASE BackfillKeys(p)
    <3>1. pc[p] = "report" /\ Goal(p)' = "render" /\ Away(p)' = Place["render"] + 2
      BY <2>3, AwaySave DEF BackfillKeys
    <3> QED
      BY <3>1 DEF Away, Delay, Goal
  <2>4. CASE CollectKeys(p)
    <3>1. pc[p] = "report" /\ pc'[p] = "render"
      BY <2>4 DEF CollectKeys, Step, TypeOK
    <3> QED
      BY <3>1 DEF Away, Delay, Goal
  <2> QED
    BY <1>3, <2>1, <2>2, <2>3, <2>4
<1>4. ASSUME NEW t \in Trials, StartTrial(p, t)
      PROVE  Away(p)' = Away(p) + 9 /\ Goal(p) = "loop"
  <2>1. pc[p] = "loop" /\ Away(p)' = Place["harbor"] + 2
    BY <1>4, AwaySave DEF StartTrial
  <2> QED
    BY <2>1 DEF Away, Delay, Goal
<1>5. ASSUME \/ ClassifyScored(p) \/ IngestJob(p) \/ FlagIngested(p)
             \/ \E v \in Verdicts, c \in Costs : HarborReturns(p, v, c)
      PROVE  Away(p)' < Away(p) /\ Goal(p) \in InTry
  <2>1. \/ pc[p] = "classify" /\ pc'[p] = "ingest"
        \/ pc[p] = "harbor" /\ pc'[p] = "classify"
        \/ pc[p] = "ingest" /\ pc'[p] = "stored"
        \/ pc[p] = "stored" /\ pc'[p] = "flagged"
    BY <1>5 DEF ClassifyScored, IngestJob, FlagIngested, HarborReturns, Step, TypeOK
  <2> QED
    BY <2>1 DEF Away, Delay, Goal, InTry
<1>6. ASSUME ClassifyInvalid(p) \/ ClassifyException(p) \/ IngestFails(p) \/ RecordKey(p)
      PROVE  Away(p)' < Away(p) /\ Goal(p) \in InTry
  <2>1. pc[p] \in {"classify", "ingest", "flagged"}
    BY <1>6 DEF ClassifyInvalid, ClassifyException, IngestFails, RecordKey
  <2>2. PICK s : Save(p, s, "loop")
    <3>1. CASE ClassifyInvalid(p)
      BY <3>1 DEF ClassifyInvalid
    <3>2. CASE ClassifyException(p)
      BY <3>2 DEF ClassifyException
    <3>3. CASE IngestFails(p)
      BY <3>3 DEF IngestFails
    <3>4. CASE RecordKey(p)
      BY <3>4 DEF RecordKey
    <3> QED
      BY <1>6, <3>1, <3>2, <3>3, <3>4
  <2>3. Away(p)' = Place["loop"] + 2
    BY <2>2, AwaySave
  <2> QED
    BY <2>1, <2>3 DEF Away, Delay, Goal, InTry
<1>7. ASSUME Interrupt(p)
      PROVE  Away(p)' < Away(p) /\ Goal(p)' = "down"
  <2>1. Goal(p) \in InTry
    BY <1>7 DEF Interrupt, FlightInv, Goal, InTry
  <2>2. PICK s : Save(p, s, "down")
    BY <1>7 DEF Interrupt
  <2>3. Goal(p)' = "down" /\ Away(p)' = 2
    BY <2>2, AwaySave
  <2>4. Away(p) >= 6
    BY <2>1 DEF Away, Delay, InTry
  <2> QED
    BY <2>3, <2>4, AwayRange
<1>8. ASSUME Goal(p)' \in InTry PROVE Goal(p) \in InTry
  <2>1. "loop" \in InTry /\ "down" \notin InTry /\ "report" \notin InTry
        /\ "render" \notin InTry
    BY DEF InTry
  <2> QED
    BY <1>1, <1>2, <1>3, <1>4, <1>5, <1>6, <1>7, <1>8, <2>1 DEF Process
<1> QED
  BY <1>1, <1>2, <1>3, <1>4, <1>5, <1>6, <1>7, <1>8 DEF Process

\* What a process has left to do, after a step as before it, is a number.
LEMMA WorkNext ==
  ASSUME IsFiniteSet(Trials), TypeOK, TypeOK', NEW p \in Procs
  PROVE  /\ \A t \in Trials : LaunchesLeft(p, t)' \in Nat /\ LaunchesLeft(p, t) \in Nat
         /\ ProcessWork(p)' \in Nat /\ ProcessWork(p) \in Nat
<1>1. ASSUME NEW t \in Trials PROVE LaunchesLeft(p, t)' \in Nat
  <2>1. mem'[p] \in RunStateType
    BY DEF TypeOK
  <2>2. mem'[p].trial[t].attempts + 1 \in Nat
    BY <2>1, FieldTypes
  <2>3. t = cur'[p] => Try(p)' \in Nat
    BY <2>2 DEF Try
  <2> QED
    BY <2>1, <2>3, LaunchesFacts, FromFacts DEF LaunchesLeft
<1>2. \A t \in Trials : LaunchesLeft(p, t) \in Nat
  BY LaunchesLeftFacts
<1> DEFINE f == [t \in Trials |-> LaunchesLeft(p, t)']
           g == [t \in Trials |-> LaunchesLeft(p, t)]
<1>3. ProcessWork(p)' = SumFunctionOnSet(f, Trials) /\ ProcessWork(p) = SumFunctionOnSet(g, Trials)
  BY DEF ProcessWork
<1>4. \A t \in Trials : f[t] \in Nat /\ g[t] \in Nat
  BY <1>1, <1>2
<1> HIDE DEF f, g
<1>5. SumFunctionOnSet(f, Trials) \in Nat /\ SumFunctionOnSet(g, Trials) \in Nat
  BY <1>4, SumType
<1> QED
  BY <1>1, <1>2, <1>3, <1>5

\* A process that has a round ahead has no more to do than before, and less if it
\* launches a trial.
LEMMA ProcessWorkStep ==
  ASSUME IsFiniteSet(Trials), IInv, IInv', FlightInv, NEW p \in Procs, Process(p),
         Goal(p)' \in InTry
  PROVE  /\ ProcessWork(p)' <= ProcessWork(p)
         /\ (\E t \in Trials : StartTrial(p, t)) => ProcessWork(p)' < ProcessWork(p)
<1> DEFINE f == [t \in Trials |-> LaunchesLeft(p, t)']
           g == [t \in Trials |-> LaunchesLeft(p, t)]
<1>1. ProcessWork(p)' = SumFunctionOnSet(f, Trials) /\ ProcessWork(p) = SumFunctionOnSet(g, Trials)
  BY DEF ProcessWork
<1>2. \A t \in Trials : f[t] \in Nat /\ g[t] \in Nat
  BY WorkNext DEF IInv
<1>3. \A t \in Trials : f[t] <= g[t]
  BY LeftStep
<1>4. ASSUME NEW t \in Trials, StartTrial(p, t) PROVE f[t] < g[t]
  BY <1>4, LeftStart
<1> HIDE DEF f, g
<1>5. SumFunctionOnSet(f, Trials) <= SumFunctionOnSet(g, Trials)
  BY <1>2, <1>3, SumAtMost
<1>6. ASSUME NEW t \in Trials, StartTrial(p, t)
      PROVE  SumFunctionOnSet(f, Trials) < SumFunctionOnSet(g, Trials)
  BY <1>2, <1>3, <1>4, <1>6, SumLess
<1> QED
  BY <1>1, <1>5, <1>6

\* A process that does not die has ever fewer steps left.
LEMMA StepsStep ==
  ASSUME IsFiniteSet(Trials), IInv, IInv', FlightInv, NEW p \in Procs, Process(p) \/ Interrupt(p)
  PROVE  StepsLeft(p)' < StepsLeft(p)
<1>1. ProcessWork(p)' \in Nat /\ ProcessWork(p) \in Nat
  BY WorkNext DEF IInv
<1>2. Away(p) \in 0..18 /\ Away(p)' \in 0..18
  <2>1. pc'[p] \in InTry \cup {"down", "fill", "replace", "report", "render"}
        /\ next'[p] \in {"down", "loop", "harbor", "report", "render"}
    BY DEF IInv, TypeOK
  <2>2. Away(p)' \in 0..18
    BY <2>1, PlaceValues DEF Away, Delay, Goal, InTry
  <2> QED
    BY <2>2, AwayRange DEF IInv
<1>3. CASE Goal(p)' \notin InTry
  <2>1. Away(p)' < Away(p)
    <3>1. ASSUME NEW t \in Trials, StartTrial(p, t) PROVE FALSE
      BY <1>3, <3>1, AwaySave DEF StartTrial, IInv, InTry
    <3> QED
      BY <3>1, NearerStep DEF IInv
  <2>2. StepsLeft(p)' = Away(p)'
    BY <1>2, <1>3 DEF StepsLeft
  <2> QED
    BY <1>1, <1>2, <2>1, <2>2 DEF StepsLeft
<1>4. CASE Goal(p)' \in InTry
  <2>1. Goal(p) \in InTry
    BY <1>4, NearerStep DEF IInv
  <2>2. /\ StepsLeft(p)' = Away(p)' + 10 * ProcessWork(p)'
        /\ StepsLeft(p) = Away(p) + 10 * ProcessWork(p)
    BY <1>4, <2>1 DEF StepsLeft
  <2>3. ~Interrupt(p)
    <3>1. ASSUME Interrupt(p) PROVE Goal(p)' = "down"
      BY <3>1, AwaySave DEF Interrupt, IInv
    <3> QED
      BY <1>4, <3>1 DEF InTry
  <2>4. Process(p)
    BY <2>3
  <2>5. CASE Away(p)' < Away(p)
    <3>1. ProcessWork(p)' <= ProcessWork(p)
      BY <1>4, <2>4, ProcessWorkStep
    <3> QED
      BY <1>1, <1>2, <2>2, <2>5, <3>1
  <2>6. ASSUME NEW t \in Trials, StartTrial(p, t), Away(p)' = Away(p) + 9
        PROVE  StepsLeft(p)' < StepsLeft(p)
    <3>1. ProcessWork(p)' < ProcessWork(p)
      BY <1>4, <2>4, <2>6, ProcessWorkStep
    <3> QED
      BY <1>1, <1>2, <2>2, <2>6, <3>1
  <2> QED
    BY <2>5, <2>6, NearerStep DEF IInv
<1> QED
  BY <1>3, <1>4

\* What another process does leaves a process as it was.
LEMMA OthersSteps ==
  ASSUME IInv, NEW p \in Procs, NEW q \in Procs \ {p},
         Resume(q) \/ Regenerate(q) \/ Process(q) \/ Crash(q) \/ Interrupt(q)
  PROVE  StepsLeft(p)' = StepsLeft(p)
<1>1. /\ mem'[p] = mem[p] /\ cur'[p] = cur[p] /\ pc'[p] = pc[p] /\ next'[p] = next[p]
  <2> USE DEF IInv, TypeOK
  <2>1. ASSUME NEW s, NEW l, Save(q, s, l), cur' = cur \/ \E x : cur' = [cur EXCEPT ![q] = x]
        PROVE  mem'[p] = mem[p] /\ cur'[p] = cur[p] /\ pc'[p] = pc[p] /\ next'[p] = next[p]
    BY <2>1 DEF Save
  <2>2. CASE \/ Resume(q) \/ FinishLoop(q) \/ StopAtBudget(q) \/ BackfillKeys(q)
             \/ GenerateReports(q) \/ Interrupt(q) \/ \E t \in Trials : StartTrial(q, t)
    BY <2>1, <2>2 DEF Resume, FinishLoop, StopAtBudget, BackfillKeys, GenerateReports, Interrupt,
                      StartTrial
  <2>3. CASE ClassifyInvalid(q) \/ ClassifyException(q)
    BY <2>1, <2>3 DEF ClassifyInvalid, ClassifyException
  <2>4. CASE IngestFails(q) \/ RecordKey(q)
    BY <2>1, <2>4 DEF IngestFails, RecordKey
  <2>5. CASE FillTemp(q) \/ ReplaceFile(q)
    BY <2>5 DEF FillTemp, ReplaceFile, Step
  <2>6. CASE ClassifyScored(q) \/ IngestJob(q) \/ FlagIngested(q) \/ CollectKeys(q)
    BY <2>6 DEF ClassifyScored, IngestJob, FlagIngested, CollectKeys, Step
  <2>7. CASE \E v \in Verdicts, c \in Costs : HarborReturns(q, v, c)
    BY <2>7 DEF HarborReturns, Step
  <2>8. CASE Regenerate(q) \/ Crash(q)
    BY <2>8 DEF Regenerate, Crash, Down, Step
  <2> QED
    BY <2>2, <2>3, <2>4, <2>5, <2>6, <2>7, <2>8 DEF Process
<1>2. Goal(p)' = Goal(p) /\ Away(p)' = Away(p)
  BY <1>1 DEF Goal, Away, Delay
<1>3. \A t \in Trials : LaunchesLeft(p, t)' = LaunchesLeft(p, t)
  BY <1>1 DEF LaunchesLeft, Try
<1>4. ProcessWork(p)' = ProcessWork(p)
  BY <1>3 DEF ProcessWork
<1> QED
  BY <1>2, <1>4 DEF StepsLeft

\* Every step of a process that works on the run brings it nearer to its end, whatever
\* the others do to the files meanwhile, whichever results it finds in a job directory
\* it shares, and wherever it is interrupted; and nothing another process does sets it
\* back.  (execute_loop, resume_evaluation, regenerate_reports)
THEOREM ProcessesRunDown ==
  ASSUME IsFiniteSet(Trials)
  PROVE  Spec => [][\A p \in Procs :
                      /\ Process(p) \/ Interrupt(p) => StepsLeft(p)' < StepsLeft(p)
                      /\ pc[p] # "down" => StepsLeft(p)' <= StepsLeft(p)]_vars
<1> DEFINE A == \A p \in Procs :
                  /\ Process(p) \/ Interrupt(p) => StepsLeft(p)' < StepsLeft(p)
                  /\ pc[p] # "down" => StepsLeft(p)' <= StepsLeft(p)
<1>1. IInv /\ FlightInv /\ [Next]_vars => (IInv /\ FlightInv)'
  BY NextIInv, FlightStep DEF IInv
<1>2. IInv /\ IInv' /\ FlightInv /\ [Next]_vars => [A]_vars
  <2> SUFFICES ASSUME IInv, IInv', FlightInv, Next, NEW p \in Procs
               PROVE  /\ Process(p) \/ Interrupt(p) => StepsLeft(p)' < StepsLeft(p)
                      /\ pc[p] # "down" => StepsLeft(p)' <= StepsLeft(p)
    OBVIOUS
  <2>1. StepsLeft(p) \in Nat
    BY AwayRange, WorkNext DEF IInv, StepsLeft
  <2>2. StepsLeft(p)' \in Nat
    <3>1. ProcessWork(p)' \in Nat
      BY WorkNext DEF IInv
    <3>2. Away(p)' \in 0..18
      <4>1. pc'[p] \in InTry \cup {"down", "fill", "replace", "report", "render"}
            /\ next'[p] \in {"down", "loop", "harbor", "report", "render"}
        BY DEF IInv, TypeOK
      <4> QED
        BY <4>1, PlaceValues DEF Away, Delay, Goal, InTry
    <3> QED
      BY <3>1, <3>2 DEF StepsLeft
  <2>3. Process(p) \/ Interrupt(p) => StepsLeft(p)' < StepsLeft(p)
    BY StepsStep
  <2>4. ASSUME pc[p] # "down" PROVE StepsLeft(p)' <= StepsLeft(p)
    <3>1. PICK q \in Procs : Resume(q) \/ Regenerate(q) \/ Process(q) \/ Crash(q) \/ Interrupt(q)
      BY DEF Next
    <3>2. CASE q # p
      BY <2>1, <3>1, <3>2, OthersSteps
    <3>3. CASE q = p /\ (Process(p) \/ Interrupt(p))
      BY <2>1, <2>2, <2>3, <3>3
    <3>4. CASE q = p /\ Crash(p)
      <4>1. pc'[p] = "down"
        BY <3>4 DEF Crash, Down, IInv, TypeOK
      <4>2. StepsLeft(p)' = 0
        BY <4>1, PlaceValues DEF StepsLeft, Away, Delay, Goal, InTry
      <4> QED
        BY <2>1, <4>2
    <3>5. ~Resume(p) /\ ~Regenerate(p)
      BY <2>4 DEF Resume, Regenerate, Step
    <3> QED
      BY <3>1, <3>2, <3>3, <3>4, <3>5
  <2> QED
    BY <2>3, <2>4
<1> QED
  BY <1>1, <1>2, InitIInv, InitFlight, PTL DEF Spec

\* What a process has left to do is bounded by the plan, however many processes there
\* are and however old the state is that it resumed: a launch for each trial and each
\* retry, and a round of steps for each launch.  (execute_loop, resume_evaluation)
THEOREM RaceIsBounded ==
  ASSUME IsFiniteSet(Trials)
  PROVE  Spec => [](\A p \in Procs : StepsLeft(p) \in 0..(10 * MaxWork + 18))
<1>1. IInv => \A p \in Procs : StepsLeft(p) \in 0..(10 * MaxWork + 18)
  <2> SUFFICES ASSUME IInv, NEW p \in Procs PROVE StepsLeft(p) \in 0..(10 * MaxWork + 18)
    OBVIOUS
  <2> DEFINE f == [t \in Trials |-> LaunchesLeft(p, t)]
             g == [t \in Trials |-> MaxInfraRetries + 1]
             k == MaxInfraRetries + 1
  <2>1. k \in Nat /\ \A t \in Trials : g[t] = k
    BY RunProcessesAssumption
  <2>2. \A t \in Trials : f[t] \in Nat /\ f[t] <= k
    BY LaunchesLeftFacts DEF IInv
  <2>3. ProcessWork(p) = SumFunctionOnSet(f, Trials)
    BY DEF ProcessWork
  <2>4. MaxWork = k * Cardinality(Trials)
    BY DEF MaxWork
  <2>5. Cardinality(Trials) \in Nat
    BY FS_CardinalityType
  <2> HIDE DEF f, g, k
  <2>6. SumFunctionOnSet(f, Trials) <= SumFunctionOnSet(g, Trials)
    BY <2>1, <2>2, SumAtMost
  <2>7. SumFunctionOnSet(g, Trials) = k * Cardinality(Trials)
    BY <2>1, SumConstant
  <2>8. SumFunctionOnSet(f, Trials) \in Nat /\ SumFunctionOnSet(g, Trials) \in Nat
    BY <2>1, <2>2, SumType
  <2>9. ProcessWork(p) \in Nat /\ MaxWork \in Nat /\ ProcessWork(p) <= MaxWork
    BY <2>3, <2>4, <2>6, <2>7, <2>8
  <2> QED
    BY <2>9, AwayRange DEF IInv, StepsLeft
<1> QED
  BY <1>1, InitIInv, NextIInv, PTL DEF Spec

\* What process p needs to take its next step, beside being there.
Unblocked(p) ==
  /\ pc[p] = "replace" => temp[TempName(p)] # Absent
  /\ pc[p] = "loop" =>
       PendingTrials(mem[p]) = {} \/ BudgetReached(mem[p]) \/ \E t \in Trials : IsNext(mem[p], t)
  /\ pc[p] = "classify" => Cardinality(JobOf(p)) # 1 \/ \E d \in JobOf(p) : JobOf(p) = {d}
  /\ pc[p] = "render" => KeysResolve(mem[p])

\* A trial that waits has one that is first in order.
LEMMA NextTrial ==
  ASSUME NEW s, PendingTrials(s) # {}
  PROVE  \E t \in Trials : IsNext(s, t)
<1> DEFINE S == {Rank[t] : t \in PendingTrials(s)}
<1>1. PendingTrials(s) \subseteq Trials /\ \A t \in Trials : Rank[t] \in Nat
  BY RunProcessesAssumption DEF PendingTrials
<1>2. S \in SUBSET Nat /\ S # {}
  BY <1>1
<1> HIDE DEF S
<1>3. PICK n \in S : \A m \in S : n <= m
  BY <1>2, Least
<1>4. PICK t \in PendingTrials(s) : n = Rank[t]
  BY <1>3 DEF S
<1>5. \A u \in PendingTrials(s) : Rank[u] \in S
  BY DEF S
<1> QED
  BY <1>1, <1>3, <1>4, <1>5 DEF IsNext

\* No process can be kept from its next step by what another has done to the files: the
\* temporary file it renames is still there, and the database has the row of every key
\* it reports, recorded or derived, so that no ReportMembershipError is ever raised.
\* (atomic_write_json, collect_trial_keys_by_pair, generate_reports_for_run)
THEOREM NoneBlocked == Spec => [](\A p \in Procs : Unblocked(p))
<1>1. IInv /\ SpentInv /\ FlightInv => \A p \in Procs : Unblocked(p)
  <2> SUFFICES ASSUME IInv, SpentInv, FlightInv, NEW p \in Procs PROVE Unblocked(p)
    OBVIOUS
  <2>1. pc[p] = "replace" => temp[TempName(p)] # Absent
    BY DEF FlightInv, TempName
  <2>2. PendingTrials(mem[p]) = {} \/ \E t \in Trials : IsNext(mem[p], t)
    BY NextTrial
  <2>3. Cardinality(JobOf(p)) # 1 \/ \E d \in JobOf(p) : JobOf(p) = {d}
    <3>1. IsFiniteSet(JobOf(p))
      BY FS_Subset DEF IInv, JobOf
    <3> QED
      BY <3>1, FS_Singleton
  <2>4. KeysResolve(mem[p])
    <3>1. Consistent(mem[p], store)
      BY ActingProcess
    <3> QED
      BY <3>1 DEF Consistent, HasRow, KeysResolve, Keyed, Reportable
  <2> QED
    BY <2>1, <2>2, <2>3, <2>4 DEF Unblocked
<1>2. IInv /\ SpentInv /\ FlightInv /\ [Next]_vars => (IInv /\ SpentInv /\ FlightInv)'
  BY NextIInv, NextSpent, FlightStep DEF IInv
<1> QED
  BY <1>1, <1>2, InitIInv, InitSpent, InitFlight, PTL DEF Spec
====
