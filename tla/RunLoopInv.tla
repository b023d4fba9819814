----------------------------- MODULE RunLoopInv -----------------------------
(***************************************************************************)
(* The inductive invariant of RunLoop, in layers: each part is inductive   *)
(* together with the parts before it.  RunLoopProofs proves them, and from *)
(* them the safety properties of RunLoop.                                  *)
(***************************************************************************)
EXTENDS RunLoop

\* A trial is in flight: chosen, and its outcome not yet logged.
InFlight ==
  {"starting", "started", "harbor", "classified", "counted", "costed", "scored",
   "stored", "flagged", "settled", "recorded"}

\* Memory may be ahead of state.json.
Ahead ==
  {"starting", "counted", "costed", "scored", "stored", "flagged", "settled", "pausing",
   "reported"}

\* What the program counter says of the locals and of the run.
ControlInv ==
  /\ pc \in InFlight => cur \in Trials
  /\ pc \in {"down", "creating", "created", "entry", "loop", "finishing", "collecting",
             "reporting", "reported", "closing"} => cur = NoTrial
  /\ pc \in {"classified", "counted", "costed"} => outcome \in Outcome
  /\ pc \in {"scored", "stored", "flagged"} =>
       outcome \in Scored /\ mem.trial[cur].status = outcome
  /\ pc \in {"settled", "recorded"} =>
       mem.trial[cur].status \in TrialStatus \ {"pending", "running"}

\* How far memory is ahead of state.json, and which trials run.
SyncInv ==
  /\ OnlyInFlightUnsaved
  /\ AtMostOneRunning
  /\ disk.cost <= mem.cost
  /\ pc \notin Ahead => mem = disk
  /\ pc = "reported" => mem.trial = disk.trial
  /\ pc # "reported" => mem.reported = disk.reported
  /\ pc \in InTry \cup {"pausing", "finishing"} => disk.status = "running"
  /\ files # "state" => pc \in {"down", "creating"}
  /\ files # "state" \/ pc \in {"creating", "created"} => disk.status = "planned"
  /\ pc = "entry" => ~Finished(disk)
  /\ pc = "starting" =>
       disk.trial[cur].status \in Waiting /\ mem.trial[cur].status = "running"
  /\ pc \in InFlight \ {"starting", "recorded"} => disk.trial[cur].status = "running"
  /\ pc \in InFlight \cup {"pausing"} =>
       \A t \in Trials : disk.trial[t].status = "running" => t = cur
  /\ pc \in {"loop", "starting", "recorded", "finishing"} =>
       \A t \in Trials : disk.trial[t].status # "running"
  /\ pc = "finishing" => \A t \in Trials : disk.trial[t].status \in Settled
  /\ pc \in {"collecting", "reporting", "reported", "closing"} /\ command # "regenerate" =>
       Finished(disk)

\* Which attempt is in flight.
AttemptInv ==
  /\ pc \in {"starting", "started", "harbor", "classified"} => try = disk.trial[cur].attempts + 1
  /\ pc \in {"counted", "costed", "scored", "stored", "flagged", "settled"} =>
       try = disk.trial[cur].attempts + 1 /\ mem.trial[cur].attempts = try
  /\ pc = "recorded" => disk.trial[cur].attempts = try
  /\ \A t \in Trials : disk.trial[t].attempts <= mem.trial[t].attempts

\* Retries are bounded: an open trial has had room for one attempt more, and
\* one that an interrupt left counted without a verdict is paid by that fault.
RetryInv ==
  /\ \A t \in Trials :
       /\ disk.trial[t].attempts <= MaxInfraRetries + 1 + faults
       /\ disk.trial[t].status \in Waiting \cup {"running"} =>
            disk.trial[t].attempts <= MaxInfraRetries + faults
  /\ pc = "pausing" =>
       \A t \in Trials :
         /\ mem.trial[t].attempts <= MaxInfraRetries + 1 + faults
         /\ mem.trial[t].status \in Waiting \cup {"running"} =>
              mem.trial[t].attempts <= MaxInfraRetries + faults
  /\ pc = "settled" /\ mem.trial[cur].status = "infra_invalid_retry_scheduled" =>
       try <= MaxInfraRetries
  /\ pc = "settled" /\ mem.trial[cur].status = "infra_invalid_exhausted" =>
       try > MaxInfraRetries

\* Events.
LogInv ==
  /\ LoggedIsDurable
  /\ \A e \in log : \A s \in Settled \cup {"infra_invalid_retry_scheduled"} :
       e.type = OutcomeEvent[s] => e.trial \in Trials

\* Money.
CostInv ==
  /\ mem.cost <= billed
  /\ pc \in {"classified", "counted"} => mem.cost + cost <= billed
  /\ faults = 0 =>
       billed = IF pc \in {"classified", "counted"} THEN mem.cost + cost ELSE mem.cost
  /\ pc \in {"starting", "started", "harbor", "classified", "counted"} => mem.cost < MaxBudget
  /\ pc \in {"classified", "counted"} => cost \in Costs
  /\ mem.cost = 0 \/ \E c \in Costs : mem.cost < MaxBudget + c

RowOf(t, n, v) == [trial |-> t, try |-> n, verdict |-> v]

RowsOf(t, n) == {r \in store : r.trial = t /\ r.try = n}

\* The Phase 1 rows of the trials a state calls ingested.
Agrees(s, t) ==
  /\ s.ingested => /\ s.status \in Scored
                   /\ s.key \in {NoKey, s.attempts}
                   /\ RowsOf(t, s.attempts) = {RowOf(t, s.attempts, s.status)}
  /\ ~s.ingested => s.key = NoKey

StoreInv ==
  /\ \A t \in Trials : Agrees(disk.trial[t], t) /\ Agrees(mem.trial[t], t)
  /\ pc \in {"classified", "counted", "costed", "scored", "stored"} => ~mem.trial[cur].ingested
  /\ pc = "flagged" => mem.trial[cur].ingested
  /\ pc \in {"stored", "flagged"} => RowsOf(cur, try) = {RowOf(cur, try, outcome)}

\* The inductive invariant.  The layers below need it, and it does not need them.
IInv ==
  TypeOK /\ ControlInv /\ SyncInv /\ AttemptInv /\ RetryInv /\ CostInv /\ LogInv /\ StoreInv

\* What memory has not saved of a trial is the mark that it runs, or an attempt
\* more, with a verdict or not, and a retry or an exhaustion that the limit allows.
UnsavedVerdict(t) ==
  \/ /\ mem.trial[t].status = disk.trial[t].status
     /\ mem.trial[t].attempts = disk.trial[t].attempts
  \/ /\ disk.trial[t].status \in Waiting
     /\ \A u \in Trials : disk.trial[u].status # "running"
     /\ mem.trial[t].status = "running"
     /\ mem.trial[t].attempts = disk.trial[t].attempts
  \/ /\ disk.trial[t].status = "running"
     /\ mem.trial[t].status # "pending"
     /\ mem.trial[t].attempts = disk.trial[t].attempts + 1
     /\ mem.trial[t].status = "infra_invalid_retry_scheduled" =>
          mem.trial[t].attempts <= MaxInfraRetries
     /\ mem.trial[t].status = "infra_invalid_exhausted" =>
          mem.trial[t].attempts > MaxInfraRetries

VerdictInv == \A t \in Trials : UnsavedVerdict(t)

\* The rows a report of state s shows.
ReportRows(s) ==
  {RowOf(t, s.trial[t].attempts, s.trial[t].status) : t \in Reportable(s)}

\* Report files: never a row of a trial that is not settled, and all of them once
\* the reports of an invocation are written.
ReportInv ==
  /\ FinishedRunIsReported
  /\ reports \subseteq ReportRows(disk)
  /\ pc = "reporting" => \A t \in Reportable(mem) : mem.trial[t].key = mem.trial[t].attempts
  /\ pc \in {"reported", "closing"} => reports = ReportRows(disk)

\* Plan order, in a run that was never resumed.
OrderInv ==
  /\ FreshRunKeepsPlanOrder
  /\ files # "state" \/ (command = "run" /\ pc \in {"creating", "created", "entry"}) =>
       \A t \in Trials : mem.trial[t] = NewTrial
  /\ pc = "creating" => command = "run"
  /\ pc \in {"starting", "started", "harbor", "classified", "counted", "costed"} =>
       mem.trial[cur].status = "running"

=============================================================================
