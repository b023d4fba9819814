----------------------------- MODULE RunLedger -----------------------------
(***************************************************************************)
(* What a run directory promises to whoever reads its state.json: the      *)
(* status of the run, and the status and number of recorded attempts of    *)
(* every planned trial.  Nothing here knows about processes, memory,       *)
(* crashes or the order of file writes; module RunLoop is the orchestrator *)
(* that keeps this promise, and its property RefinesLedger says so.              *)
(***************************************************************************)
EXTENDS RunState

CONSTANT MaxInfraRetries   \* execution.max_infra_retries

VARIABLES
  runStatus,        \* RunState.status
  trialStatus,      \* TrialState.status of every trial
  attempts          \* TrialState.attempts of every trial

ledgerVars == <<runStatus, trialStatus, attempts>>

LedgerInit ==
  /\ runStatus = "planned"
  /\ trialStatus = [t \in Trials |-> "pending"]
  /\ attempts = [t \in Trials |-> 0]

(***************************************************************************)
(* An invocation begins (eval run, or eval resume of a run that is not     *)
(* over): a trial left running by an earlier one goes back to pending.     *)
(***************************************************************************)
Enter ==
  /\ runStatus \in {"planned", "running", "paused"}
  /\ runStatus' = "running"
  /\ trialStatus' = [t \in Trials |-> IF trialStatus[t] = "running"
                                        THEN "pending" ELSE trialStatus[t]]
  /\ UNCHANGED attempts

\* A waiting trial is marked as the one that runs; there is no other.
Mark(t) ==
  /\ trialStatus[t] \in Waiting
  /\ \A u \in Trials : trialStatus[u] # "running"
  /\ trialStatus' = [trialStatus EXCEPT ![t] = "running"]
  /\ UNCHANGED attempts

\* One trial at a time is handed to Harbor.
Start(t) ==
  /\ runStatus = "running"
  /\ Mark(t)
  /\ UNCHANGED runStatus

\* The running trial gets the verdict s of one more attempt.
Verdict(t, s) ==
  /\ trialStatus[t] = "running"
  /\ s = "infra_invalid_retry_scheduled" => attempts[t] + 1 <= MaxInfraRetries
  /\ s = "infra_invalid_exhausted" => attempts[t] + 1 > MaxInfraRetries
  /\ trialStatus' = [trialStatus EXCEPT ![t] = s]
  /\ attempts' = [attempts EXCEPT ![t] = @ + 1]

Settle(t) ==
  /\ runStatus = "running"
  /\ \E s \in TrialStatus \ {"pending", "running"} : Verdict(t, s)
  /\ UNCHANGED runStatus

(***************************************************************************)
(* The run stops early.  What the orchestrator knew of the trial in flight *)
(* may be saved with it: nothing, that it was about to run (it never did), *)
(* an attempt without a verdict, a verdict.                                *)
(***************************************************************************)
Pause ==
  /\ runStatus = "running"
  /\ runStatus' = "paused"
  /\ \/ UNCHANGED <<trialStatus, attempts>>
     \/ \E t \in Trials : Mark(t)
     \/ \E t \in Trials, s \in TrialStatus \ {"pending"} : Verdict(t, s)

\* The run is over once no trial waits or runs.
Finish ==
  /\ runStatus = "running"
  /\ \A t \in Trials : trialStatus[t] \in Settled
  /\ runStatus' = IF \E t \in Trials : trialStatus[t] = "infra_invalid_exhausted"
                    THEN "failed" ELSE "completed"
  /\ UNCHANGED <<trialStatus, attempts>>

LedgerNext ==
  \/ Enter
  \/ \E t \in Trials : Start(t) \/ Settle(t)
  \/ Pause
  \/ Finish

LedgerSpec == LedgerInit /\ [][LedgerNext]_ledgerVars

=============================================================================
