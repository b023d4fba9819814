---------------------------- MODULE HarborRunner ----------------------------
(***************************************************************************)
(* One attempt of a trial: SubprocessHarborRunner.run_trial of             *)
(* eval/harbor_runner.py, the heartbeat of eval/progress.py that it calls, *)
(* and the classification of what Harbor left behind (orchestrator.py's    *)
(* _classify_invocation, eval/classifier.py).                              *)
(*                                                                         *)
(* An attempt that a crash or an interrupt cuts short is not recorded, so  *)
(* that the next launch has the same job name: the same output files and   *)
(* job directory, and perhaps a Harbor of an earlier launch still writing. *)
(*                                                                         *)
(* Harbor is external.  It inherits the open file descriptions of the      *)
(* parent, and with them one offset per file for both.  Output is counted  *)
(* in chunks.  Ages and elapsed time stop at the largest value compared.   *)
(***************************************************************************)
EXTENDS Naturals, Sequences, FiniteSets

CONSTANTS
  MaxLaunches,  \* bound: launches under one job name
  MaxOut,       \* bound: chunks the Harbor of each launch writes, to each stream
  Says,         \* what a chunk of each stream can say
  Timeouts,     \* the values of timeout_sec, in poll intervals
  NoTimeout,    \* None, the value the command line leaves it at
  Interval,     \* heartbeat_interval_sec, in poll intervals
  TailSize,     \* max_chars of _tail, in chunks
  HeadSize,     \* what classify_missing_result looks at of stderr, in chunks
  Results       \* what a result.json of a trial can say

Launches == 1..MaxLaunches

Stream == {"stdout", "stderr"}

\* What a chunk says: nothing of interest, that the verifier runs, that the
\* provider refused the key; and what a read finds where nothing was written.
Chunk == {"plain", "verifying", "auth", "hole"}

\* exception_info, by what of it _AUTH_SIGNALS and the two infrastructure lists
\* match first, and the coldstart_pass reward.
Result ==
  [raised : {"none", "auth", "infra", "other"},
   scored : {"none", "pass", "fail", "not_a_number"}]

\* A trial directory that is not there, or whose result.json does not parse yet.
NoTrialDir == [raised |-> "none", scored |-> "no_directory"]
HalfWritten == [raised |-> "none", scored |-> "half_written"]

ASSUME HarborRunnerAssumption ==
  /\ MaxLaunches \in Nat
  /\ MaxOut \in [Launches -> [Stream -> Nat]]
  /\ Says \in [Stream -> SUBSET (Chunk \ {"hole"})]
  /\ NoTimeout \notin Nat /\ Timeouts \subseteq Nat \cup {NoTimeout}
  /\ Interval \in Nat \ {0} /\ TailSize \in Nat \ {0} /\ HeadSize \in Nat
  /\ Results \subseteq Result

VARIABLES
  \* run_trial and its caller.
  pc,        \* where the process is; "down" if there is none
  n,         \* the number of the launch
  timeout,   \* timeout_sec
  seen,      \* what poll() returned, as the child's state
  elapsed, timedOut,
  position, tail,   \* of _tail
  captured,  \* stdout_text and stderr_text
  verdict,   \* the outcome of the classification
  shown,     \* the last heartbeat line: its phase and its age
  \* The operating system.
  child,     \* the Harbor process of every launch
  file,      \* the contents of the two temporary files
  linked,    \* the launches whose descriptions are of the files now at the paths
  offset,    \* of the description of every launch and stream
  \* The job directory.
  jobResult, \* its own result.json is there
  result,    \* the trial directory of every launch
  \* History.
  said,      \* what the Harbor of this launch has written to each stream
  others,    \* Harbors of earlier launches alive at the last launch
  raced,     \* the child has written while _tail was at work
  ended      \* how each launch's run_trial ended

runner  == <<pc, n, timeout, seen, elapsed, timedOut, position, tail, captured, verdict, shown>>
system  == <<child, file, linked, offset>>
jobDir  == <<jobResult, result>>
history == <<said, others, raced, ended>>
vars    == <<runner, system, jobDir, history>>

Polling == {"poll", "rewind", "scan", "restore", "decide"}

Ended == {"collect", "unlink", "returned", "classified"}

Outcome == {"passed", "failed", "infra_invalid", "auth_error", "unknown"}

Phase == {"launching_harbor", "agent_running", "verifying"}

TypeOK ==
  /\ pc \in {"down", "launched"} \cup Polling \cup Ended
  /\ n \in 0..MaxLaunches
  /\ timeout \in Timeouts
  /\ seen \in {"alive", "exited"}
  /\ elapsed \in Nat /\ timedOut \in BOOLEAN
  /\ position \in Nat
  /\ tail \in Seq(Chunk)
  /\ captured \in [Stream -> Seq(Chunk)]
  /\ verdict \in Outcome \cup {"none"}
  /\ shown \in [phase : Phase, age : 0..Interval]
  /\ child \in [Launches -> {"none", "alive", "exited"}]
  /\ file \in [Stream -> Seq(Chunk)]
  /\ linked \subseteq Launches
  /\ offset \in [Launches -> [Stream -> Nat]]
  /\ jobResult \in BOOLEAN
  /\ result \in [Launches -> {NoTrialDir, HalfWritten} \cup Results]
  /\ said \in [Stream -> Seq(Chunk)]
  /\ others \subseteq Launches
  /\ raced \in BOOLEAN
  /\ ended \in [Launches -> {"no", "returned", "interrupted", "cut_short"}]

Nothing == [s \in Stream |-> << >>]

Init ==
  /\ pc = "down" /\ n = 0
  /\ timeout \in Timeouts
  /\ seen = "alive" /\ elapsed = 0 /\ timedOut = FALSE
  /\ position = 0 /\ tail = << >>
  /\ captured = Nothing
  /\ verdict = "none"
  /\ shown = [phase |-> "launching_harbor", age |-> 0]
  /\ child = [l \in Launches |-> "none"]
  /\ file = Nothing
  /\ linked = {}
  /\ offset = [l \in Launches |-> [s \in Stream |-> 0]]
  /\ jobResult = FALSE
  /\ result = [l \in Launches |-> NoTrialDir]
  /\ said = Nothing
  /\ others = {} /\ raced = FALSE
  /\ ended = [l \in Launches |-> "no"]

-----------------------------------------------------------------------------
(* run_trial.                                                              *)

\* What the process knows, and the history of its launch, when run_trial begins.
Fresh ==
  /\ seen' = "alive" /\ elapsed' = 0 /\ timedOut' = FALSE
  /\ position' = 0 /\ tail' = << >>
  /\ captured' = Nothing /\ verdict' = "none"
  /\ shown' = [phase |-> "launching_harbor", age |-> 0]
  /\ said' = Nothing /\ raced' = FALSE

Step(from, to) == pc = from /\ pc' = to

Alive == {l \in Launches : child[l] = "alive"}

(***************************************************************************)
(* The files are opened with "w+": one left by an earlier launch is        *)
(* emptied, not replaced.  The caller has just shown launching_harbor.     *)
(***************************************************************************)
Launch ==
  /\ Step("down", "launched")
  /\ n < MaxLaunches
  /\ n' = n + 1
  /\ file' = Nothing
  /\ linked' = linked \cup {n + 1}
  /\ child' = [child EXCEPT ![n + 1] = "alive"]
  /\ offset' = [l \in Launches |-> IF l \in Alive THEN offset[l] ELSE [s \in Stream |-> 0]]
  /\ others' = Alive
  /\ Fresh
  /\ UNCHANGED <<timeout, jobDir, ended>>

EnterTry ==
  /\ Step("launched", "poll")
  /\ UNCHANGED <<n, timeout, seen, elapsed, timedOut, position, tail, captured, verdict, shown,
                 system, jobDir, history>>

\* poll(), the clock, and tell(): on the description the child writes through.
Poll ==
  /\ Step("poll", "rewind")
  /\ seen' = child[n]
  /\ position' = offset[n]["stdout"]
  /\ UNCHANGED <<n, timeout, elapsed, timedOut, tail, captured, verdict, shown,
                 system, jobDir, history>>

Seek(o) == offset' = [offset EXCEPT ![n]["stdout"] = o]

TailRewind ==
  /\ Step("rewind", "scan")
  /\ Seek(0)
  /\ UNCHANGED <<n, timeout, seen, elapsed, timedOut, position, tail, captured, verdict, shown,
                 child, file, linked, jobDir, history>>

Rest(f, from) == SubSeq(f, from + 1, Len(f))

Last(f, k) == IF Len(f) <= k THEN f ELSE Rest(f, Len(f) - k)

\* read() leaves the offset at the end, or where it was if that is past it.
TailScan ==
  /\ Step("scan", "restore")
  /\ tail' = Last(Rest(file["stdout"], offset[n]["stdout"]), TailSize)
  /\ Seek(IF offset[n]["stdout"] < Len(file["stdout"]) THEN Len(file["stdout"])
          ELSE offset[n]["stdout"])
  /\ UNCHANGED <<n, timeout, seen, elapsed, timedOut, position, captured, verdict, shown,
                 child, file, linked, jobDir, history>>

\* _on_harbor_progress: _VERIFYING_SIGNAL_RE.search(stdout_tail).
PhaseOf(t) ==
  IF \E i \in DOMAIN t : t[i] = "verifying" THEN "verifying" ELSE "agent_running"

\* Mutant: a heartbeat is printed when it is due only.
Due_ByTime(phase) == shown.age >= Interval

Due(phase) == phase # shown.phase \/ shown.age >= Interval

\* The offset goes back to where it was before, and on_progress is called.
TailRestore ==
  /\ Step("restore", "decide")
  /\ Seek(position)
  /\ position' = 0
  /\ shown' = IF Due(PhaseOf(tail)) THEN [phase |-> PhaseOf(tail), age |-> 0] ELSE shown
  /\ UNCHANGED <<n, timeout, seen, elapsed, timedOut, tail, captured, verdict,
                 child, file, linked, jobDir, history>>

Exited ==
  /\ Step("decide", "collect")
  /\ seen = "exited"
  /\ tail' = << >>
  /\ UNCHANGED <<n, timeout, seen, elapsed, timedOut, position, captured, verdict, shown,
                 system, jobDir, history>>

\* Mutant: the timeout is never reached.
Late_Never == FALSE

Late == timeout # NoTimeout /\ elapsed >= timeout

\* Mutant: nothing is killed.
Killed_Left == child

Killed == [child EXCEPT ![n] = "exited"]

\* process.kill() and wait(), also of a child that has exited since poll().
TimeOut ==
  /\ Step("decide", "collect")
  /\ seen = "alive" /\ Late
  /\ timedOut' = TRUE
  /\ child' = Killed
  /\ tail' = << >>
  /\ UNCHANGED <<n, timeout, seen, elapsed, position, captured, verdict, shown,
                 file, linked, offset, jobDir, history>>

Sleep ==
  /\ Step("decide", "poll")
  /\ seen = "alive" /\ ~Late
  /\ elapsed' = IF timeout # NoTimeout /\ elapsed < timeout THEN elapsed + 1 ELSE elapsed
  /\ shown' = [shown EXCEPT !.age = IF @ < Interval THEN @ + 1 ELSE @]
  /\ tail' = << >>
  /\ UNCHANGED <<n, timeout, seen, timedOut, position, captured, verdict,
                 system, jobDir, history>>

\* Mutant: read from the offset, where the writer is.
Captured_NoSeek == [s \in Stream |-> Rest(file[s], offset[n][s])]

Captured == file

Collect ==
  /\ Step("collect", "unlink")
  /\ captured' = Captured
  /\ UNCHANGED <<n, timeout, seen, elapsed, timedOut, position, tail, verdict, shown,
                 system, jobDir, history>>

Unlink ==
  /\ Step("unlink", "returned")
  /\ linked' = {} /\ file' = Nothing
  /\ ended' = [ended EXCEPT ![n] = "returned"]
  /\ UNCHANGED <<n, timeout, seen, elapsed, timedOut, position, tail, captured, verdict, shown,
                 child, offset, jobDir, said, others, raced>>

-----------------------------------------------------------------------------
(* _classify_invocation.                                                   *)

TrialDirs == {l \in Launches : result[l] # NoTrialDir}

Head500(f, k) == SubSeq(f, 1, IF Len(f) <= k THEN Len(f) ELSE k)

\* classify_missing_result on Harbor's stderr.
MissingOutcome(text) ==
  IF \E i \in DOMAIN Head500(text, HeadSize) : text[i] = "auth" THEN "auth_error" ELSE "infra_invalid"

\* Mutant: the reward's own words.
ResultOutcome_Score(r) == r.scored

\* classify_trial_result.
ResultOutcome(r) ==
  CASE r.raised = "none" /\ r.scored = "none" -> "unknown"
    [] r.raised = "none" /\ r.scored = "pass" -> "passed"
    [] r.raised = "none" /\ r.scored = "fail" -> "failed"
    [] r.raised = "auth" -> "auth_error"
    [] r.raised = "infra" -> "infra_invalid"
    [] r.raised = "other" -> "unknown"

Unscorable(r) == r.raised = "none" /\ r.scored = "not_a_number"

\* Mutant: the first of several trial directories is taken.
TheTrial_First == IF TrialDirs = {} THEN {} ELSE {CHOOSE l \in TrialDirs : TRUE}

\* The one trial directory, if there is exactly one.
TheTrial == IF Cardinality(TrialDirs) = 1 THEN TrialDirs ELSE {}

\* The texts that stand in for stderr: the count of directories says nothing of
\* authentication, an error of json.loads may have a position with 401 in it.
Classifications ==
  IF ~jobResult THEN {MissingOutcome(captured["stderr"])}
  ELSE IF TheTrial = {} THEN {"infra_invalid"}
  ELSE UNION {IF result[l] = HalfWritten THEN {"infra_invalid", "auth_error"}
              ELSE {ResultOutcome(result[l])} : l \in TheTrial}

Classify ==
  /\ Step("returned", "classified")
  /\ ~ (jobResult /\ \E l \in TheTrial : Unscorable(result[l]))
  /\ verdict' \in Classifications
  /\ UNCHANGED <<n, timeout, seen, elapsed, timedOut, position, tail, captured, shown,
                 system, jobDir, history>>

\* float() of the reward raises: the exception ends the process.
ClassifyRaises ==
  /\ Step("returned", "down")
  /\ jobResult /\ \E l \in TheTrial : Unscorable(result[l])
  /\ Fresh
  /\ others' = {}
  /\ UNCHANGED <<n, timeout, system, jobDir, ended>>

-----------------------------------------------------------------------------
(* Faults.                                                                 *)

\* except KeyboardInterrupt: kill, wait, raise.
Interrupt ==
  /\ pc \in Polling
  /\ pc' = "down"
  /\ child' = Killed
  /\ ended' = [ended EXCEPT ![n] = "interrupted"]
  /\ Fresh
  /\ others' = {}
  /\ UNCHANGED <<n, timeout, file, linked, offset, jobDir>>

\* The process dies, or an exception leaves run_trial that is no KeyboardInterrupt
\* (of on_progress, say), or it is one before or after the polling loop.
CutShort ==
  /\ pc # "down"
  /\ pc' = "down"
  /\ ended' = [ended EXCEPT ![n] = IF @ = "no" THEN "cut_short" ELSE @]
  /\ Fresh
  /\ others' = {}
  /\ UNCHANGED <<n, timeout, system, jobDir>>

-----------------------------------------------------------------------------
(* Harbor.                                                                 *)

\* write() at an offset, which may be past the end.
Written(f, o, chunk) ==
  [i \in 1..(IF o < Len(f) THEN Len(f) ELSE o + 1) |->
     IF i = o + 1 THEN chunk ELSE IF i <= Len(f) THEN f[i] ELSE "hole"]

Current(l) == l = n /\ pc # "down"

Write(l, s) ==
  /\ child[l] = "alive"
  /\ offset[l][s] < MaxOut[l][s] /\ (Current(l) => Len(said[s]) < MaxOut[l][s])
  /\ \E chunk \in Says[s] :
       /\ said' = IF Current(l) THEN [said EXCEPT ![s] = Append(@, chunk)] ELSE said
       /\ file' = IF l \in linked
                    THEN [file EXCEPT ![s] = Written(@, offset[l][s], chunk)] ELSE file
  /\ offset' = [offset EXCEPT ![l][s] = @ + 1]
  /\ raced' = (raced \/ (l = n /\ s = "stdout" /\ pc \in {"rewind", "scan", "restore"}))
  /\ UNCHANGED <<runner, child, linked, jobDir, others, ended>>

WriteJobResult(l) ==
  /\ child[l] = "alive"
  /\ ~jobResult /\ jobResult' = TRUE
  /\ UNCHANGED <<runner, system, result, history>>

\* The trial's config.json and result.json, the latter not atomically.
WriteTrial(l) ==
  /\ child[l] = "alive"
  /\ \/ result[l] = NoTrialDir /\ result' = [result EXCEPT ![l] = HalfWritten]
     \/ result[l] = HalfWritten /\ \E r \in Results : result' = [result EXCEPT ![l] = r]
  /\ UNCHANGED <<runner, system, jobResult, history>>

Exit(l) ==
  /\ child[l] = "alive"
  /\ child' = [child EXCEPT ![l] = "exited"]
  /\ UNCHANGED <<runner, file, linked, offset, jobDir, history>>

Harbor(l) == (\E s \in Stream : Write(l, s)) \/ WriteJobResult(l) \/ WriteTrial(l) \/ Exit(l)

-----------------------------------------------------------------------------
RunTrial ==
  \/ EnterTry \/ Poll \/ TailRewind \/ TailScan \/ TailRestore
  \/ Exited \/ TimeOut \/ Sleep \/ Collect \/ Unlink \/ Classify \/ ClassifyRaises

Next ==
  \/ Launch \/ RunTrial \/ Interrupt \/ CutShort
  \/ \E l \in Launches : Harbor(l)

Spec == Init /\ [][Next]_vars

\* The process keeps going; nothing is assumed of Harbor.
FairSpec == Spec /\ WF_vars(RunTrial)

-----------------------------------------------------------------------------
(* Properties.                                                             *)

\* A run_trial that has returned, by Harbor's exit or by its timeout, or that an
\* interrupt has ended, leaves no Harbor of its own behind that goes on spending,
\* whatever the child did between poll() and the kill.  (run_trial)
NoHarborLeftBehind ==
  /\ \A l \in Launches : ended[l] \in {"returned", "interrupted"} => child[l] # "alive"
  /\ pc \in Ended => child[n] = "exited"

\* With no Harbor of an earlier launch alive, stderr is returned unabridged, and
\* so is stdout unless Harbor wrote to it while _tail had moved the offset, even
\* after a timeout and over a file that an earlier launch left.  (run_trial, _tail)
CapturedIsComplete ==
  (pc \in {"unlink", "returned", "classified"} /\ others = {}) =>
    /\ captured["stderr"] = said["stderr"]
    /\ ~raced => captured["stdout"] = said["stdout"]

\* A verdict of the verifier is that of the only result the attempt has left, and
\* one that it has left is never lost: whatever Harbor's exit code, the timeout,
\* and launches that died before.  (_classify_invocation, classify_trial_result)
VerdictIsTheResults ==
  (pc = "classified" /\ others = {}) =>
    \A score \in {"pass", "fail"} :
      (verdict = IF score = "pass" THEN "passed" ELSE "failed")
        <=> /\ jobResult
            /\ \E l \in TrialDirs : /\ TrialDirs = {l}
                                    /\ result[l] = [raised |-> "none", scored |-> score]

\* While Harbor runs, the last line shown is never older than the interval, and
\* when it has exited by itself, the last line shows the phase that its whole
\* output ends in.  (_maybe_heartbeat, _on_harbor_progress)
HeartbeatIsFresh ==
  /\ pc = "decide" => shown.phase = PhaseOf(tail) /\ shown.age < Interval
  /\ (pc \in Ended /\ ~timedOut /\ others = {} /\ ~raced) =>
       shown.phase = PhaseOf(Last(said["stdout"], TailSize))

\* run_trial ends when its Harbor has exited, and with a timeout even if it never
\* does.  (run_trial)
RunTrialEnds ==
  (pc \in {"launched"} \cup Polling /\ (timeout # NoTimeout \/ child[n] = "exited"))
    ~> pc \in {"down", "classified"}

\* docs/evaluation-runner.md:196: "Authentication/invalid-API-key signals in the
\* exception or process output | **Never** -- stops the run immediately".  An
\* attempt whose Harbor wrote such a signal and left no result is not retried.
AuthSignalStopsRun ==
  ( /\ pc = "classified" /\ others = {}
    /\ \E i \in DOMAIN said["stderr"] : said["stderr"][i] = "auth"
    /\ TrialDirs = {} )
  => verdict # "infra_invalid"

=============================================================================
