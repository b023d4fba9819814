------------------------------ MODULE RunState ------------------------------
(***************************************************************************)
(* The mutable record of one evaluation run, RunState of eval/manifest.py: *)
(* what state.json holds and what the orchestrator keeps in memory.        *)
(*                                                                         *)
(* Left out, because no decision of the program reads them: timestamps,    *)
(* evidence texts, last_event, per-trial cost_usd, and the displayed total *)
(* invalid_infrastructure_attempts.  A job directory and a Phase 1 trial   *)
(* key are named by the number of the attempt that made them (job_name is  *)
(* "<trial_id>--tryNN"), so harbor_job_dirs[-1] is the number attempts,    *)
(* and a key is that number, or NoKey.                                     *)
(***************************************************************************)
EXTENDS Integers

CONSTANT Trials     \* ids of the planned trials

\* "cancelled", the sixth status manifest.py lists, is never assigned.
RunStatus == {"planned", "running", "paused", "completed", "failed"}

TrialStatus ==
  {"pending", "running", "passed", "failed", "infra_invalid_retry_scheduled",
   "infra_invalid_exhausted", "auth_error_paused", "unknown_paused"}

\* The statuses a trial can be picked from (RunState.pending_trial_ids).
Waiting == {"pending", "infra_invalid_retry_scheduled"}

\* The verdicts of a trial that Harbor ran and the verifier scored.
Scored == {"passed", "failed"}

\* The statuses counted as completed (RunState.completed_trial_ids).
CompletedStatus == Scored \cup {"infra_invalid_exhausted"}

\* The statuses from which no invocation ever picks or requeues a trial.
Settled == TrialStatus \ (Waiting \cup {"running"})

NoKey == 0

TrialState ==
  [status : TrialStatus, attempts : Nat, ingested : BOOLEAN, key : Nat]

RunStateType ==
  [status : RunStatus, trial : [Trials -> TrialState], cost : Nat, reported : BOOLEAN]

\* new_state: every trial pending, the run planned.
NewTrial == [status |-> "pending", attempts |-> 0, ingested |-> FALSE, key |-> NoKey]

NewState ==
  [status |-> "planned", trial |-> [t \in Trials |-> NewTrial],
   cost |-> 0, reported |-> FALSE]

\* Mutant: a trial paused for review is picked again.
PendingTrials_Review(s) ==
  {t \in Trials : s.trial[t].status \in Waiting \cup {"unknown_paused"}}

PendingTrials(s) == {t \in Trials : s.trial[t].status \in Waiting}

CompletedTrials(s) == {t \in Trials : s.trial[t].status \in CompletedStatus}

(***************************************************************************)
(* collect_trial_keys_by_pair: the trials a report of this state is about. *)
(* Only a scored trial whose ingestion succeeded contributes its key.      *)
(***************************************************************************)
Reportable(s) == {t \in Trials : s.trial[t].status \in Scored /\ s.trial[t].ingested}

\* Mutant: a key that was not recorded is never derived.
Backfilled_Never(s) == s

(***************************************************************************)
(* The backfill of collect_trial_keys_by_pair: a reportable trial without  *)
(* a key gets the one of its last recorded job directory.                  *)
(***************************************************************************)
Backfilled(s) ==
  [s EXCEPT !.trial = [t \in Trials |->
     IF t \in Reportable(s) /\ s.trial[t].key = NoKey
       THEN [s.trial[t] EXCEPT !.key = s.trial[t].attempts]
       ELSE s.trial[t]]]

=============================================================================
