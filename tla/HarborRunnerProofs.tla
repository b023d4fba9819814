------------------------- MODULE HarborRunnerProofs -------------------------
(***************************************************************************)
(* Proofs of the safety properties of HarborRunner, for any number of      *)
(* launches under one job name, chunks of output and results.              *)
(***************************************************************************)
EXTENDS HarborRunner, FiniteSetTheorems, SequenceTheorems, TLAPS

\* The launch of this process is the only Harbor alive.
Alone == pc # "down" /\ others = {}

\* The output files are there, and the child writes to them.
Writing == {"launched", "collect"} \cup Polling

\* What is known of the children: those of later launches are yet to come, and
\* those that were waited for, or that poll() saw exit, have exited.
ChildInv ==
  /\ \A l \in Launches : l > n => child[l] = "none" /\ ended[l] = "no"
  /\ \A l \in Launches : ended[l] \in {"returned", "interrupted"} => child[l] # "alive"
  /\ pc # "down" => n \in Launches /\ child[n] # "none"
  /\ (pc \in Polling \ {"poll"} /\ seen = "exited") \/ pc \in Ended => child[n] = "exited"
  /\ Alone => \A l \in Launches \ {n} : child[l] # "alive"

\* stderr has what the child has written to it, and the child writes at its end.
\* So it is with stdout, but for the offset while _tail is at work, until the
\* child writes at that moment.
StderrInv ==
  pc \in Writing =>
    /\ n \in linked
    /\ file["stderr"] = said["stderr"]
    /\ offset[n]["stderr"] = Len(said["stderr"])

StdoutInv ==
  (~raced /\ pc \in Writing) =>
    /\ file["stdout"] = said["stdout"]
    /\ pc \notin {"scan", "restore"} => offset[n]["stdout"] = Len(said["stdout"])
    /\ pc \in {"rewind", "scan", "restore"} => position = Len(said["stdout"])
    /\ pc = "scan" => offset[n]["stdout"] = 0

CapturedInv ==
  pc \in {"unlink", "returned", "classified"} =>
    /\ captured["stderr"] = said["stderr"]
    /\ ~raced => captured["stdout"] = said["stdout"]

\* What _tail has read after the child's exit is the end of its output.
TailInv ==
  ~raced =>
    /\ (pc \in {"restore", "decide"} /\ seen = "exited") =>
         tail = Last(said["stdout"], TailSize)
    /\ (pc \in Ended /\ ~timedOut) => shown.phase = PhaseOf(Last(said["stdout"], TailSize))

Raising == jobResult /\ \E l \in TheTrial : Unscorable(result[l])

\* Nobody writes to the job directory any more.
VerdictInv == pc = "classified" => ~Raising /\ verdict \in Classifications

OutputInv == StderrInv /\ StdoutInv /\ CapturedInv /\ TailInv /\ VerdictInv

DecideInv == pc = "decide" => shown.phase = PhaseOf(tail) /\ shown.age < Interval

IInv == TypeOK /\ ChildInv /\ (Alone => OutputInv) /\ DecideInv

-----------------------------------------------------------------------------
(* Sequences of chunks.                                                    *)

\* Writing gives a sequence of chunks, and at the end of the file appends.
LEMMA WrittenFacts ==
  ASSUME NEW f \in Seq(Chunk), NEW o \in Nat, NEW chunk \in Chunk
  PROVE  /\ Written(f, o, chunk) \in Seq(Chunk)
         /\ o = Len(f) => Written(f, o, chunk) = Append(f, chunk)
<1>1. Len(f) \in Nat /\ \A i \in 1..Len(f) : f[i] \in Chunk
  BY ElementOfSeq
<1> DEFINE k == IF o < Len(f) THEN Len(f) ELSE o + 1
           e(i) == IF i = o + 1 THEN chunk ELSE IF i <= Len(f) THEN f[i] ELSE "hole"
<1>2. k \in Nat
  BY <1>1
<1>3. \A i \in 1..k : e(i) \in Chunk
  BY <1>1, <1>2 DEF Chunk
<1>4. Written(f, o, chunk) = [i \in 1..k |-> e(i)]
  BY DEF Written
<1> HIDE DEF k, e
<1>5. Written(f, o, chunk) \in Seq(Chunk) /\ Len(Written(f, o, chunk)) = k
  BY <1>2, <1>3, <1>4, IsASeq
<1>6. ASSUME o = Len(f)
      PROVE  Written(f, o, chunk) = Append(f, chunk)
  <2>1. k = Len(f) + 1
    BY <1>1, <1>6 DEF k
  <2>2. /\ Append(f, chunk) \in Seq(Chunk) /\ Len(Append(f, chunk)) = Len(f) + 1
        /\ \A i \in 1..Len(f) : Append(f, chunk)[i] = f[i]
        /\ Append(f, chunk)[Len(f) + 1] = chunk
    BY AppendProperties
  <2>3. \A i \in 1..k : Written(f, o, chunk)[i] = Append(f, chunk)[i]
    BY <1>1, <1>4, <1>6, <2>1, <2>2 DEF e
  <2> QED
    BY <1>5, <2>1, <2>2, <2>3, SeqEqual
<1> QED
  BY <1>5, <1>6

\* Reading gives a sequence of chunks, and from the beginning the whole of it.
LEMMA RestFacts ==
  ASSUME NEW f \in Seq(Chunk), NEW k \in Nat
  PROVE  Rest(f, k) \in Seq(Chunk) /\ Rest(f, 0) = f
<1>1. Len(f) \in Nat /\ \A i \in 1..Len(f) : f[i] \in Chunk
  BY ElementOfSeq
<1>2. ASSUME NEW j \in Nat
      PROVE  /\ Rest(f, j) \in Seq(Chunk)
             /\ Len(Rest(f, j)) = IF j + 1 <= Len(f) THEN Len(f) - j ELSE 0
             /\ \A i \in 1 .. Len(f) - j : Rest(f, j)[i] = f[j + i]
  <2>1. \A i \in j + 1 .. Len(f) : f[i] \in Chunk
    BY <1>1
  <2>2. /\ SubSeq(f, j + 1, Len(f)) \in Seq(Chunk)
        /\ Len(SubSeq(f, j + 1, Len(f))) = IF j + 1 <= Len(f) THEN Len(f) - (j + 1) + 1 ELSE 0
        /\ \A i \in 1 .. Len(f) - (j + 1) + 1 : SubSeq(f, j + 1, Len(f))[i] = f[j + 1 + i - 1]
    <3>1. j + 1 \in Int /\ Len(f) \in Int
      BY <1>1
    <3> QED
      BY <2>1, <3>1, SubSeqProperties
  <2> QED
    BY <1>1, <2>2 DEF Rest
<1>3. Rest(f, 0) = f
  <2>1. /\ Rest(f, 0) \in Seq(Chunk) /\ Len(Rest(f, 0)) = Len(f)
        /\ \A i \in 1..Len(f) : Rest(f, 0)[i] = f[i]
    <3>1. /\ Rest(f, 0) \in Seq(Chunk)
          /\ Len(Rest(f, 0)) = IF 0 + 1 <= Len(f) THEN Len(f) - 0 ELSE 0
          /\ \A i \in 1 .. Len(f) - 0 : Rest(f, 0)[i] = f[0 + i]
      BY <1>2
    <3>2. ASSUME NEW i \in 1..Len(f)
          PROVE  Rest(f, 0)[i] = f[i]
      <4>1. i \in 1 .. Len(f) - 0 /\ 0 + i = i
        BY <1>1
      <4> QED
        BY <3>1, <4>1
    <3> QED
      BY <1>1, <3>1, <3>2
  <2> QED
    BY <2>1, SeqEqual
<1> QED
  BY <1>2, <1>3

LEMMA LastFacts ==
  ASSUME NEW f \in Seq(Chunk), NEW k \in Nat
  PROVE  Last(f, k) \in Seq(Chunk)
<1>1. Len(f) \in Nat
  BY ElementOfSeq
<1> QED
  BY <1>1, RestFacts DEF Last

LEMMA NothingFacts ==
  /\ Nothing \in [Stream -> Seq(Chunk)]
  /\ \A s \in Stream : Nothing[s] = << >> /\ Len(Nothing[s]) = 0
  BY DEF Nothing

-----------------------------------------------------------------------------
(* Types.                                                                  *)

\* A launch begins with values of the right types.
LEMMA FreshType ==
  ASSUME Fresh
  PROVE  /\ seen' \in {"alive", "exited"} /\ elapsed' \in Nat /\ timedOut' \in BOOLEAN
         /\ position' \in Nat /\ tail' \in Seq(Chunk)
         /\ captured' \in [Stream -> Seq(Chunk)]
         /\ verdict' \in Outcome \cup {"none"}
         /\ shown' \in [phase : Phase, age : 0..Interval]
         /\ said' \in [Stream -> Seq(Chunk)] /\ raced' \in BOOLEAN
<1>1. [phase |-> "launching_harbor", age |-> 0] \in [phase : Phase, age : 0..Interval]
  BY HarborRunnerAssumption DEF Phase
<1>2. << >> \in Seq(Chunk)
  OBVIOUS
<1> QED
  BY <1>1, <1>2, NothingFacts DEF Fresh

\* classify_missing_result and classify_trial_result name an outcome.
LEMMA ClassificationsType ==
  ASSUME TypeOK, ~Raising
  PROVE  Classifications \subseteq Outcome
<1>1. MissingOutcome(captured["stderr"]) \in Outcome
  BY DEF MissingOutcome, Outcome
<1>2. ASSUME jobResult, NEW l \in TheTrial
      PROVE  IF result[l] = HalfWritten THEN {"infra_invalid", "auth_error"} \subseteq Outcome
             ELSE ResultOutcome(result[l]) \in Outcome
  <2>1. l \in TrialDirs /\ l \in Launches /\ result[l] # NoTrialDir
    BY DEF TheTrial, TrialDirs
  <2>2. CASE result[l] = HalfWritten
    BY <2>2 DEF Outcome
  <2>3. CASE result[l] # HalfWritten
    <3>1. result[l] \in Result
      BY <2>1, <2>3, HarborRunnerAssumption DEF TypeOK
    <3>2. ~Unscorable(result[l])
      BY <1>2 DEF Raising
    <3> QED
      BY <2>3, <3>1, <3>2 DEF Result, Unscorable, ResultOutcome, Outcome
  <2> QED
    BY <2>2, <2>3
<1> QED
  BY <1>1, <1>2 DEF Classifications, Outcome

LEMMA TypeInit == Init => TypeOK
<1> SUFFICES ASSUME Init
             PROVE  TypeOK
  OBVIOUS
<1>1. /\ 0 \in 0..MaxLaunches /\ << >> \in Seq(Chunk)
      /\ [phase |-> "launching_harbor", age |-> 0] \in [phase : Phase, age : 0..Interval]
  BY HarborRunnerAssumption DEF Phase
<1>2. /\ shown \in [phase : Phase, age : 0..Interval]
      /\ offset \in [Launches -> [Stream -> Nat]]
      /\ child \in [Launches -> {"none", "alive", "exited"}]
      /\ result \in [Launches -> {NoTrialDir, HalfWritten} \cup Results]
      /\ ended \in [Launches -> {"no", "returned", "interrupted", "cut_short"}]
  BY <1>1 DEF Init
<1> QED
  BY <1>1, <1>2, NothingFacts DEF Init, TypeOK

LEMMA TypeNext == TypeOK /\ ChildInv /\ [Next]_vars => TypeOK'
<1> SUFFICES ASSUME TypeOK, ChildInv, [Next]_vars
             PROVE  TypeOK'
  OBVIOUS
<1> USE DEF runner, system, jobDir, history
<1>1. CASE Launch
  <2>1. n + 1 \in Launches /\ n' = n + 1 /\ n' \in 0..MaxLaunches
    BY <1>1, HarborRunnerAssumption DEF Launch, TypeOK, Launches
  <2>2. Alive \subseteq Launches
    BY DEF Alive
  <2>3. offset' \in [Launches -> [Stream -> Nat]]
    BY <1>1 DEF Launch, TypeOK
  <2>4. child' \in [Launches -> {"none", "alive", "exited"}] /\ linked' \subseteq Launches
    BY <1>1, <2>1 DEF Launch, TypeOK
  <2>5. Fresh /\ pc' = "launched" /\ file' = Nothing /\ others' = Alive
        /\ UNCHANGED <<timeout, jobResult, result, ended>>
    BY <1>1 DEF Launch, Step
  <2> QED
    BY <2>1, <2>2, <2>3, <2>4, <2>5, FreshType, NothingFacts DEF TypeOK
<1>2. CASE EnterTry
  BY <1>2 DEF EnterTry, Step, TypeOK, Polling
<1>3. CASE Poll
  <2>1. n \in Launches /\ child[n] \in {"alive", "exited"}
    BY <1>3 DEF Poll, Step, ChildInv, TypeOK
  <2>2. offset[n]["stdout"] \in Nat
    BY <2>1 DEF TypeOK, Stream
  <2> QED
    BY <1>3, <2>1, <2>2 DEF Poll, Step, TypeOK, Polling
<1>4. CASE TailRewind
  BY <1>4 DEF TailRewind, Seek, Step, TypeOK, Polling, Stream
<1>5. CASE TailScan
  <2>1. n \in Launches /\ offset[n]["stdout"] \in Nat /\ file["stdout"] \in Seq(Chunk)
    BY <1>5 DEF TailScan, Step, ChildInv, TypeOK, Stream
  <2>2. Len(file["stdout"]) \in Nat
    BY <2>1, ElementOfSeq
  <2>3. tail' \in Seq(Chunk)
    BY <1>5, <2>1, RestFacts, LastFacts, HarborRunnerAssumption DEF TailScan
  <2>4. offset' \in [Launches -> [Stream -> Nat]]
    BY <1>5, <2>1, <2>2 DEF TailScan, Seek, TypeOK
  <2> QED
    BY <1>5, <2>3, <2>4 DEF TailScan, Step, TypeOK, Polling
<1>6. CASE TailRestore
  <2>1. PhaseOf(tail) \in Phase /\ 0 \in 0..Interval
    BY HarborRunnerAssumption DEF PhaseOf, Phase
  <2>2. shown' \in [phase : Phase, age : 0..Interval]
    BY <1>6, <2>1 DEF TailRestore, TypeOK
  <2>3. offset' \in [Launches -> [Stream -> Nat]]
    BY <1>6 DEF TailRestore, Seek, TypeOK
  <2> QED
    BY <1>6, <2>2, <2>3 DEF TailRestore, Step, TypeOK, Polling
<1>7. CASE Exited
  BY <1>7 DEF Exited, Step, TypeOK, Ended
<1>8. CASE TimeOut
  <2>1. child' \in [Launches -> {"none", "alive", "exited"}]
    BY <1>8 DEF TimeOut, Killed, TypeOK
  <2>2. timedOut' \in BOOLEAN /\ tail' \in Seq(Chunk)
    BY <1>8 DEF TimeOut
  <2> QED
    BY <1>8, <2>1, <2>2 DEF TimeOut, Step, TypeOK, Ended
<1>9. CASE Sleep
  <2>1. shown' \in [phase : Phase, age : 0..Interval]
    <3> DEFINE a == IF shown.age < Interval THEN shown.age + 1 ELSE shown.age
    <3>1. shown \in [phase : Phase, age : 0..Interval]
      BY DEF TypeOK
    <3>2. a \in 0..Interval
      BY <3>1, HarborRunnerAssumption
    <3>3. shown' = [shown EXCEPT !.age = a]
      BY <1>9 DEF Sleep
    <3> HIDE DEF a
    <3> QED
      BY <3>1, <3>2, <3>3
  <2>2. elapsed' \in Nat /\ tail' \in Seq(Chunk)
    BY <1>9 DEF Sleep, TypeOK
  <2> QED
    BY <1>9, <2>1, <2>2 DEF Sleep, Step, TypeOK, Polling
<1>10. CASE Collect
  BY <1>10 DEF Collect, Captured, Step, TypeOK, Ended
<1>11. CASE Unlink
  BY <1>11, NothingFacts DEF Unlink, Step, TypeOK, Ended
<1>12. CASE Classify
  <2>1. verdict' \in Outcome
    BY <1>12, ClassificationsType DEF Classify, Raising
  <2> QED
    BY <1>12, <2>1 DEF Classify, Step, TypeOK, Ended
<1>13. CASE ClassifyRaises
  BY <1>13, FreshType DEF ClassifyRaises, Step, TypeOK
<1>14. CASE Interrupt
  BY <1>14, FreshType DEF Interrupt, Killed, TypeOK
<1>15. CASE CutShort
  <2>1. ended' \in [Launches -> {"no", "returned", "interrupted", "cut_short"}]
    BY <1>15 DEF CutShort, TypeOK
  <2> QED
    BY <1>15, <2>1, FreshType DEF CutShort, TypeOK
<1>16. ASSUME NEW l \in Launches, Harbor(l)
       PROVE  TypeOK'
  <2>1. ASSUME NEW s \in Stream, Write(l, s)
        PROVE  TypeOK'
    <3>1. PICK chunk \in Says[s] :
            /\ said' = IF Current(l) THEN [said EXCEPT ![s] = Append(@, chunk)] ELSE said
            /\ file' = IF l \in linked
                         THEN [file EXCEPT ![s] = Written(@, offset[l][s], chunk)] ELSE file
      BY <2>1 DEF Write
    <3>2. chunk \in Chunk
      BY HarborRunnerAssumption
    <3>3. Written(file[s], offset[l][s], chunk) \in Seq(Chunk) /\ Append(said[s], chunk) \in Seq(Chunk)
      <4>1. file[s] \in Seq(Chunk) /\ offset[l][s] \in Nat /\ said[s] \in Seq(Chunk)
        BY DEF TypeOK
      <4> QED
        BY <3>2, <4>1, WrittenFacts, AppendProperties
    <3>4. said' \in [Stream -> Seq(Chunk)] /\ file' \in [Stream -> Seq(Chunk)]
      BY <3>1, <3>3 DEF TypeOK
    <3>5. raced' \in BOOLEAN
      BY <2>1 DEF Write, TypeOK
    <3>6. offset' \in [Launches -> [Stream -> Nat]]
      BY <2>1 DEF Write, TypeOK
    <3> QED
      <4>1. UNCHANGED <<runner, child, linked, jobDir, others, ended>>
        BY <2>1 DEF Write
      <4> QED
        BY <3>4, <3>5, <3>6, <4>1 DEF runner, jobDir, TypeOK
  <2>2. CASE WriteJobResult(l)
    BY <2>2 DEF WriteJobResult, TypeOK
  <2>3. CASE WriteTrial(l)
    <3>1. result' \in [Launches -> {NoTrialDir, HalfWritten} \cup Results]
      BY <2>3 DEF WriteTrial, TypeOK
    <3>2. UNCHANGED <<runner, system, jobResult, history>>
      BY <2>3 DEF WriteTrial
    <3> QED
      BY <3>1, <3>2 DEF runner, system, history, TypeOK
  <2>4. CASE Exit(l)
    BY <2>4 DEF Exit, TypeOK
  <2> QED
    BY <1>16, <2>1, <2>2, <2>3, <2>4 DEF Harbor
<1>17. CASE UNCHANGED vars
  BY <1>17 DEF vars, TypeOK
<1> QED
  BY <1>1, <1>2, <1>3, <1>4, <1>5, <1>6, <1>7, <1>8, <1>9, <1>10, <1>11, <1>12, <1>13,
     <1>14, <1>15, <1>16, <1>17 DEF Next, RunTrial

-----------------------------------------------------------------------------
(* Children.                                                               *)

LEMMA ChildInit == Init => ChildInv /\ ~Alone
  BY HarborRunnerAssumption DEF Init, ChildInv, Alone, Launches, Polling, Ended

LEMMA ChildNext == TypeOK /\ ChildInv /\ [Next]_vars => ChildInv'
<1> SUFFICES ASSUME TypeOK, ChildInv, [Next]_vars
             PROVE  ChildInv'
  OBVIOUS
<1> USE DEF runner, system, jobDir, history
<1>1. CASE Launch
  <2>1. n + 1 \in Launches /\ n \in Nat
    BY <1>1, HarborRunnerAssumption DEF Launch, TypeOK, Launches
  <2>2. /\ n' = n + 1 /\ pc' = "launched" /\ child' = [child EXCEPT ![n + 1] = "alive"]
        /\ others' = Alive /\ ended' = ended /\ seen' = "alive"
    BY <1>1 DEF Launch, Step, Fresh
  <2>3. \A l \in Launches : l > n' => child'[l] = "none" /\ ended'[l] = "no"
    BY <2>1, <2>2 DEF ChildInv, TypeOK, Launches
  <2>4. \A l \in Launches : ended'[l] \in {"returned", "interrupted"} => child'[l] # "alive"
    BY <2>1, <2>2 DEF ChildInv, TypeOK, Launches
  <2>5. child'[n'] = "alive"
    BY <2>1, <2>2 DEF TypeOK
  <2>6. Alone' => \A l \in Launches \ {n'} : child'[l] # "alive"
    BY <2>1, <2>2 DEF Alone, Alive, TypeOK
  <2> QED
    BY <2>1, <2>2, <2>3, <2>4, <2>5, <2>6 DEF ChildInv, Polling, Ended
<1>2. CASE EnterTry \/ TailRewind \/ TailScan \/ TailRestore \/ Exited \/ Sleep \/ Collect \/ Classify
  <2>1. UNCHANGED <<n, child, ended, others, seen>>
    BY <1>2 DEF EnterTry, TailRewind, TailScan, TailRestore, Exited, Sleep, Collect, Classify, Seek
  <2>2. /\ pc # "down" /\ pc' # "down"
        /\ (pc' \in Polling \ {"poll"} /\ seen = "exited") \/ pc' \in Ended =>
             (pc \in Polling \ {"poll"} /\ seen = "exited") \/ pc \in Ended
    BY <1>2 DEF EnterTry, TailRewind, TailScan, TailRestore, Exited, Sleep, Collect, Classify,
                Step, Polling, Ended
  <2> QED
    BY <2>1, <2>2 DEF ChildInv, Alone
<1>3. CASE Poll
  BY <1>3 DEF Poll, Step, ChildInv, Alone, Polling, Ended
<1>4. CASE TimeOut \/ Interrupt
  <2>1. /\ n' = n /\ pc # "down" /\ child' = [child EXCEPT ![n] = "exited"]
        /\ ended' = ended \/ ended' = [ended EXCEPT ![n] = "interrupted"]
        /\ others' = others \/ pc' = "down"
    BY <1>4 DEF TimeOut, Interrupt, Killed, Step, Polling
  <2>2. n \in Launches
    BY <2>1 DEF ChildInv
  <2>3. child'[n] = "exited" /\ \A l \in Launches \ {n} : child'[l] = child[l]
    BY <2>1, <2>2 DEF TypeOK
  <2>4. \A l \in Launches \ {n} : ended'[l] = ended[l]
    BY <2>1, <2>2 DEF TypeOK
  <2>5. \A l \in Launches : l > n => l # n
    BY DEF Launches, TypeOK
  <2> QED
    BY <2>1, <2>2, <2>3, <2>4, <2>5 DEF ChildInv, Alone
<1>5. CASE Unlink \/ CutShort \/ ClassifyRaises
  <2>1. /\ n' = n /\ pc # "down" /\ child' = child /\ (seen' = seen \/ pc' = "down")
        /\ others' = others \/ pc' = "down"
        /\ pc' = "down" \/ (pc' = "returned" /\ pc \in Ended)
    BY <1>5 DEF Unlink, CutShort, ClassifyRaises, Step, Ended
  <2>2. n \in Launches
    BY <2>1 DEF ChildInv
  <2>3. \A l \in Launches : ended'[l] = ended[l] \/ (l = n /\ (ended'[l] = "cut_short" \/ child[n] = "exited"))
    BY <1>5, <2>2 DEF Unlink, CutShort, ClassifyRaises, Step, TypeOK, ChildInv, Ended
  <2>4. \A l \in Launches : l > n => l # n
    BY DEF Launches, TypeOK
  <2> QED
    BY <2>1, <2>2, <2>3, <2>4 DEF ChildInv, Alone, Polling, Ended
<1>6. ASSUME NEW l \in Launches, Harbor(l)
      PROVE  ChildInv'
  <2>1. /\ UNCHANGED <<n, ended, others, pc, seen>>
        /\ child' = child \/ child' = [child EXCEPT ![l] = "exited"]
        /\ child[l] = "alive"
    BY <1>6 DEF Harbor, Write, WriteJobResult, WriteTrial, Exit
  <2>2. \A k \in Launches : child'[k] = child[k] \/ (k = l /\ child'[k] = "exited")
    BY <2>1 DEF TypeOK
  <2>3. \A k \in Launches : k > n => child'[k] = "none" /\ ended[k] = "no"
    BY <2>1, <2>2 DEF ChildInv
  <2>4. pc # "down" => n \in Launches /\ child'[n] # "none"
    BY <2>2 DEF ChildInv
  <2>5. \A k \in Launches : child[k] # "alive" => child'[k] # "alive"
    BY <2>2
  <2>6. n \in Launches /\ child[n] = "exited" => child'[n] = "exited"
    BY <2>2
  <2>7. (pc \in Polling \ {"poll"} /\ seen = "exited") \/ pc \in Ended => child'[n] = "exited"
    BY <2>6 DEF ChildInv, Polling, Ended
  <2> QED
    BY <2>1, <2>3, <2>4, <2>5, <2>7 DEF ChildInv, Alone
<1>7. CASE UNCHANGED vars
  BY <1>7 DEF vars, ChildInv, Alone
<1> QED
  BY <1>1, <1>2, <1>3, <1>4, <1>5, <1>6, <1>7 DEF Next, RunTrial

-----------------------------------------------------------------------------
(* Output and verdict, while no Harbor of an earlier launch is alive.      *)

LEMMA LaunchOutput ==
  ASSUME TypeOK, ChildInv, Launch, Alone'
  PROVE  OutputInv'
<1>1. /\ pc' = "launched" /\ n' = n + 1 /\ n + 1 \in Launches
      /\ linked' = linked \cup {n + 1} /\ file' = Nothing /\ said' = Nothing
      /\ offset' = [l \in Launches |-> IF l \in Alive THEN offset[l] ELSE [s \in Stream |-> 0]]
  BY HarborRunnerAssumption DEF Launch, Fresh, Step, TypeOK, Launches
<1>2. n + 1 \notin Alive
  <2>1. n + 1 > n
    BY HarborRunnerAssumption DEF TypeOK
  <2>2. child[n + 1] = "none"
    BY <1>1, <2>1 DEF ChildInv
  <2> QED
    BY <2>2 DEF Alive
<1>3. offset'[n'] = [s \in Stream |-> 0]
  BY <1>1, <1>2
<1>4. offset'[n']["stdout"] = 0 /\ offset'[n']["stderr"] = 0
  BY <1>3 DEF Stream
<1>5. Len(said'["stdout"]) = 0 /\ Len(said'["stderr"]) = 0
  BY <1>1, NothingFacts DEF Stream
<1> QED
  BY <1>1, <1>4, <1>5
  DEF OutputInv, StderrInv, StdoutInv, CapturedInv, TailInv, VerdictInv, Writing, Polling, Ended

\* The steps of _tail move the offset of stdout only.
LEMMA SeekFacts ==
  ASSUME TypeOK, n \in Launches, NEW o \in Nat, Seek(o)
  PROVE  offset'[n]["stdout"] = o /\ offset'[n]["stderr"] = offset[n]["stderr"]
  BY DEF Seek, TypeOK, Stream

LEMMA TailOutput ==
  ASSUME TypeOK, ChildInv, Alone, OutputInv,
         TailRewind \/ TailScan \/ TailRestore
  PROVE  OutputInv'
<1>1. /\ UNCHANGED <<n, linked, file, said, raced, seen, captured>>
      /\ pc \in {"rewind", "scan", "restore"} /\ pc' \in {"scan", "restore", "decide"}
      /\ n \in Launches
  BY DEF TailRewind, TailScan, TailRestore, system, jobDir, history, Step, ChildInv
<1>2. /\ offset[n]["stdout"] \in Nat /\ position \in Nat
      /\ file["stdout"] \in Seq(Chunk) /\ Len(file["stdout"]) \in Nat
  <2>1. offset[n]["stdout"] \in Nat /\ position \in Nat /\ file["stdout"] \in Seq(Chunk)
    BY <1>1 DEF TypeOK, Stream
  <2> QED
    BY <2>1, ElementOfSeq
<1>3. PICK o \in Nat : Seek(o) /\ (pc = "rewind" => o = 0) /\ (pc = "restore" => o = position)
  <2>1. CASE TailRewind
    BY <2>1 DEF TailRewind, Step
  <2>2. CASE TailScan
    BY <1>2, <2>2 DEF TailScan, Step
  <2>3. CASE TailRestore
    BY <1>2, <2>3 DEF TailRestore, Step
  <2> QED
    BY <2>1, <2>2, <2>3
<1>4. offset'[n]["stdout"] = o /\ offset'[n]["stderr"] = offset[n]["stderr"]
  BY <1>1, <1>3, SeekFacts
<1>5. StderrInv'
  BY <1>1, <1>4 DEF OutputInv, StderrInv, Writing, Polling
<1>6. StdoutInv'
  BY <1>1, <1>3, <1>4
  DEF OutputInv, StdoutInv, Writing, Polling, TailRewind, TailScan, TailRestore, Step
<1>7. TailInv'
  <2>1. CASE TailScan
    <3>1. tail' = Last(Rest(file["stdout"], offset[n]["stdout"]), TailSize) /\ pc = "scan" /\ pc' = "restore"
      BY <2>1 DEF TailScan, Step
    <3>2. ~raced => file["stdout"] = said["stdout"] /\ offset[n]["stdout"] = 0
      BY <3>1 DEF OutputInv, StdoutInv, Writing, Polling
    <3>3. ~raced => tail' = Last(said["stdout"], TailSize)
      BY <1>2, <3>1, <3>2, RestFacts
    <3> QED
      BY <1>1, <3>1, <3>3 DEF TailInv, Ended
  <2>2. CASE TailRestore
    BY <1>1, <2>2 DEF TailRestore, Step, OutputInv, TailInv, Ended
  <2>3. CASE TailRewind
    BY <1>1, <2>3 DEF TailRewind, Step, TailInv, Ended
  <2> QED
    BY <2>1, <2>2, <2>3
<1> QED
  BY <1>1, <1>5, <1>6, <1>7 DEF OutputInv, CapturedInv, VerdictInv

LEMMA RunOutput ==
  ASSUME TypeOK, ChildInv, Alone, OutputInv, DecideInv,
         EnterTry \/ Poll \/ Exited \/ TimeOut \/ Sleep \/ Collect \/ Unlink \/ Classify
  PROVE  OutputInv'
<1> USE DEF runner, system, jobDir, history
<1>1. UNCHANGED <<n, offset, said, raced, jobResult, result>>
  BY DEF EnterTry, Poll, Exited, TimeOut, Sleep, Collect, Unlink, Classify
<1>2. CASE EnterTry \/ Sleep
  BY <1>1, <1>2
  DEF EnterTry, Sleep, Step, OutputInv, StderrInv, StdoutInv, CapturedInv, TailInv, VerdictInv,
      Writing, Polling, Ended
<1>3. CASE Poll
  BY <1>1, <1>3
  DEF Poll, Step, OutputInv, StderrInv, StdoutInv, CapturedInv, TailInv, VerdictInv,
      Writing, Polling, Ended
<1>4. CASE Exited
  <2>1. /\ pc = "decide" /\ pc' = "collect" /\ seen = "exited"
        /\ UNCHANGED <<file, linked, shown, timedOut>>
    BY <1>4 DEF Exited, Step
  <2>2. ~raced => shown.phase = PhaseOf(Last(said["stdout"], TailSize))
    BY <2>1 DEF DecideInv, OutputInv, TailInv
  <2> QED
    BY <1>1, <2>1, <2>2
    DEF OutputInv, StderrInv, StdoutInv, CapturedInv, TailInv, VerdictInv, Writing, Polling, Ended
<1>5. CASE TimeOut
  <2>1. /\ pc = "decide" /\ pc' = "collect" /\ timedOut' = TRUE
        /\ UNCHANGED <<file, linked>>
    BY <1>5 DEF TimeOut, Step
  <2> QED
    BY <1>1, <2>1
    DEF OutputInv, StderrInv, StdoutInv, CapturedInv, TailInv, VerdictInv, Writing, Polling, Ended
<1>6. CASE Collect
  <2>1. /\ pc = "collect" /\ pc' = "unlink" /\ captured' = file
        /\ UNCHANGED <<shown, timedOut>>
    BY <1>6 DEF Collect, Captured, Step
  <2> QED
    BY <1>1, <2>1
    DEF OutputInv, StderrInv, StdoutInv, CapturedInv, TailInv, VerdictInv, Writing, Polling, Ended
<1>7. CASE Unlink
  <2>1. /\ pc = "unlink" /\ pc' = "returned" /\ UNCHANGED <<captured, shown, timedOut>>
    BY <1>7 DEF Unlink, Step
  <2> QED
    BY <1>1, <2>1
    DEF OutputInv, StderrInv, StdoutInv, CapturedInv, TailInv, VerdictInv, Writing, Polling, Ended
<1>8. CASE Classify
  <2>1. /\ pc = "returned" /\ pc' = "classified" /\ UNCHANGED <<captured, shown, timedOut>>
        /\ ~Raising /\ verdict' \in Classifications
    BY <1>8 DEF Classify, Raising, Step
  <2>2. VerdictInv'
    BY <1>1, <2>1 DEF VerdictInv, Raising, Classifications, TheTrial, TrialDirs
  <2> QED
    BY <1>1, <2>1, <2>2
    DEF OutputInv, StderrInv, StdoutInv, CapturedInv, TailInv, Writing, Polling, Ended
<1> QED
  BY <1>2, <1>3, <1>4, <1>5, <1>6, <1>7, <1>8

LEMMA HarborOutput ==
  ASSUME TypeOK, ChildInv, Alone, OutputInv, NEW l \in Launches, Harbor(l)
  PROVE  OutputInv'
<1> USE DEF runner, system, jobDir, history
<1>1. /\ child[l] = "alive" /\ UNCHANGED <<pc, n, seen, timedOut, position, tail, captured, verdict, shown, linked>>
  BY DEF Harbor, Write, WriteJobResult, WriteTrial, Exit
<1>2. l = n /\ pc \in {"launched"} \cup Polling /\ ~(pc \in {"restore", "decide"} /\ seen = "exited")
  BY <1>1 DEF ChildInv, Alone, TypeOK, Polling, Ended
<1>3. CASE UNCHANGED <<file, offset, said, raced>>
  BY <1>1, <1>2, <1>3
  DEF OutputInv, StderrInv, StdoutInv, CapturedInv, TailInv, VerdictInv, Writing, Polling, Ended
<1>4. ASSUME NEW s \in Stream, Write(l, s)
      PROVE  OutputInv'
  <2>1. PICK chunk \in Says[s] : said' = [said EXCEPT ![s] = Append(@, chunk)]
          /\ file' = IF n \in linked
                       THEN [file EXCEPT ![s] = Written(@, offset[n][s], chunk)] ELSE file
    BY <1>2, <1>4 DEF Write, Current, Alone
  <2>2. /\ offset' = [offset EXCEPT ![n][s] = @ + 1]
        /\ raced' = (raced \/ (s = "stdout" /\ pc \in {"rewind", "scan", "restore"}))
    BY <1>2, <1>4 DEF Write
  <2>3. chunk \in Chunk
    BY HarborRunnerAssumption
  <2>4. /\ n \in Launches /\ file[s] \in Seq(Chunk) /\ said[s] \in Seq(Chunk)
        /\ offset[n][s] \in Nat
    BY <1>2 DEF TypeOK
  <2>5. Len(Append(said[s], chunk)) = Len(said[s]) + 1
    BY <2>3, <2>4, AppendProperties
  <2>6. ASSUME file[s] = said[s], offset[n][s] = Len(said[s]), n \in linked
        PROVE  file'[s] = said'[s] /\ offset'[n][s] = Len(said'[s])
    <3>1. Written(file[s], offset[n][s], chunk) = Append(said[s], chunk)
      BY <2>3, <2>4, <2>6, WrittenFacts
    <3>2. file'[s] = Written(file[s], offset[n][s], chunk) /\ said'[s] = Append(said[s], chunk)
      BY <2>1, <2>6 DEF TypeOK
    <3>3. offset'[n][s] = offset[n][s] + 1
      BY <2>2, <2>4 DEF TypeOK
    <3> QED
      BY <2>5, <2>6, <3>1, <3>2, <3>3
  <2>7. \A r \in Stream \ {s} : /\ file'[r] = file[r] /\ said'[r] = said[r]
                                /\ offset'[n][r] = offset[n][r]
    BY <2>1, <2>2, <2>4 DEF TypeOK
  <2>8. StderrInv'
    BY <1>1, <2>6, <2>7 DEF OutputInv, StderrInv, Stream
  <2>9. StdoutInv'
    <3>1. CASE s = "stderr"
      BY <1>1, <2>2, <2>7, <3>1 DEF OutputInv, StdoutInv, Stream
    <3>2. CASE s = "stdout"
      <4>1. SUFFICES ASSUME ~raced', pc \in Writing
                     PROVE  StdoutInv'
        BY <1>1 DEF StdoutInv
      <4>2. ~raced /\ pc \notin {"rewind", "scan", "restore"}
        BY <2>2, <3>2, <4>1
      <4>3. file'["stdout"] = said'["stdout"] /\ offset'[n]["stdout"] = Len(said'["stdout"])
        BY <2>6, <3>2, <4>1, <4>2 DEF OutputInv, StdoutInv, StderrInv
      <4> QED
        BY <1>1, <4>2, <4>3 DEF StdoutInv
    <3> QED
      BY <3>1, <3>2 DEF Stream
  <2> QED
    BY <1>1, <1>2, <2>8, <2>9 DEF OutputInv, CapturedInv, TailInv, VerdictInv, Polling, Ended
<1> QED
  BY <1>3, <1>4 DEF Harbor, WriteJobResult, WriteTrial, Exit

\* A step keeps the process up, or ends it, or starts it.
LEMMA OutputNext ==
  ASSUME IInv, [Next]_vars
  PROVE  (Alone => OutputInv)'
<1> SUFFICES ASSUME Alone'
             PROVE  OutputInv'
  OBVIOUS
<1> USE DEF IInv
<1>1. CASE Launch
  BY <1>1, LaunchOutput
<1>2. CASE UNCHANGED vars
  BY <1>2
  DEF vars, runner, system, jobDir, history, Alone, OutputInv, StderrInv, StdoutInv,
      CapturedInv, TailInv, VerdictInv, Raising, Classifications, TheTrial, TrialDirs
<1>3. CASE ~Launch /\ Next
  <2>1. ~Interrupt /\ ~CutShort /\ ~ClassifyRaises
    BY DEF Interrupt, CutShort, ClassifyRaises, Step, Alone
  <2>2. Alone
    <3>1. pc # "down" /\ others' = others
      <4>1. CASE RunTrial
        BY <2>1, <4>1
        DEF RunTrial, EnterTry, Poll, TailRewind, TailScan, TailRestore, Exited, TimeOut,
            Sleep, Collect, Unlink, Classify, Step, history
      <4>2. ASSUME NEW l \in Launches, Harbor(l)
            PROVE  pc # "down" /\ others' = others
        BY <4>2 DEF Harbor, Write, WriteJobResult, WriteTrial, Exit, runner, history, Alone
      <4> QED
        BY <1>3, <2>1, <4>1, <4>2 DEF Next
    <3> QED
      BY <3>1 DEF Alone
  <2>3. CASE RunTrial
    BY <2>1, <2>2, <2>3, TailOutput, RunOutput DEF RunTrial
  <2>4. ASSUME NEW l \in Launches, Harbor(l)
        PROVE  OutputInv'
    BY <2>2, <2>4, HarborOutput
  <2> QED
    BY <1>3, <2>1, <2>3, <2>4 DEF Next
<1> QED
  BY <1>1, <1>2, <1>3

\* The heartbeat has just been shown, or there was none to show.
LEMMA DecideNext ==
  ASSUME IInv, [Next]_vars
  PROVE  DecideInv'
<1> USE DEF runner, system, jobDir, history
<1>1. CASE TailRestore
  <2>1. shown \in [phase : Phase, age : 0..Interval] /\ Interval \in Nat \ {0}
    BY HarborRunnerAssumption DEF IInv, TypeOK
  <2>2. tail' = tail /\ shown' = IF Due(PhaseOf(tail)) THEN [phase |-> PhaseOf(tail), age |-> 0] ELSE shown
    BY <1>1 DEF TailRestore
  <2>3. CASE Due(PhaseOf(tail))
    BY <2>1, <2>2, <2>3 DEF DecideInv
  <2>4. CASE ~Due(PhaseOf(tail))
    BY <2>1, <2>2, <2>4 DEF DecideInv, Due
  <2> QED
    BY <2>3, <2>4
<1>2. ASSUME NEW l \in Launches, Harbor(l)
      PROVE  DecideInv'
  BY <1>2 DEF IInv, DecideInv, Harbor, Write, WriteJobResult, WriteTrial, Exit
<1>3. CASE UNCHANGED vars
  BY <1>3 DEF vars, IInv, DecideInv
<1>4. CASE Launch \/ Interrupt \/ CutShort
  BY <1>4 DEF Launch, Interrupt, CutShort, Step, DecideInv
<1>5. CASE RunTrial /\ ~TailRestore
  BY <1>5
  DEF RunTrial, EnterTry, Poll, TailRewind, TailScan, Exited, TimeOut, Sleep, Collect, Unlink,
      Classify, ClassifyRaises, Step, DecideInv
<1> QED
  BY <1>1, <1>2, <1>3, <1>4, <1>5 DEF Next

LEMMA SpecIInv == Spec => []IInv
<1>1. Init => IInv
  BY TypeInit, ChildInit DEF IInv, DecideInv, Init
<1>2. IInv /\ [Next]_vars => IInv'
  BY TypeNext, ChildNext, OutputNext, DecideNext DEF IInv
<1> QED
  BY <1>1, <1>2, PTL DEF Spec

-----------------------------------------------------------------------------
(* The theorems.                                                           *)

\* Every variable keeps its type.
THEOREM TypeCorrect == Spec => []TypeOK
<1>1. IInv => TypeOK
  BY DEF IInv
<1> QED
  BY <1>1, SpecIInv, PTL

\* Whatever Harbor did between poll() and the kill, a run_trial that has returned or
\* that an interrupt has ended leaves no Harbor of its own alive.  (run_trial)
THEOREM NoOrphan == Spec => []NoHarborLeftBehind
<1>1. IInv => NoHarborLeftBehind
  BY DEF IInv, ChildInv, NoHarborLeftBehind, Ended
<1> QED
  BY <1>1, SpecIInv, PTL

\* With no earlier Harbor alive, the captured stderr is what the child wrote, and so
\* is stdout if it never wrote while _tail had moved the offset.  (run_trial, _tail)
THEOREM CaptureIsComplete == Spec => []CapturedIsComplete
<1>1. IInv => CapturedIsComplete
  BY DEF IInv, Alone, OutputInv, CapturedInv, CapturedIsComplete
<1> QED
  BY <1>1, SpecIInv, PTL

\* The last line shown has the phase of the output, and is not older than the
\* heartbeat interval while Harbor runs.  (_maybe_heartbeat, _on_harbor_progress)
THEOREM HeartbeatStaysFresh == Spec => []HeartbeatIsFresh
<1>1. IInv => HeartbeatIsFresh
  BY DEF IInv, Alone, OutputInv, TailInv, DecideInv, HeartbeatIsFresh, Ended
<1> QED
  BY <1>1, SpecIInv, PTL

\* A set of launches is a singleton exactly when it has one element.
LEMMA OneLaunch ==
  ASSUME NEW S \in SUBSET Launches
  PROVE  Cardinality(S) = 1 <=> \E l \in S : S = {l}
<1>1. IsFiniteSet(S)
  <2>1. IsFiniteSet(Launches)
    <3>1. 1 \in Int /\ MaxLaunches \in Int
      BY HarborRunnerAssumption
    <3> QED
      BY <3>1, FS_Interval DEF Launches
  <2> QED
    BY <2>1, FS_Subset
<1> QED
  BY <1>1, FS_Singleton

\* An outcome is passed or failed exactly if it is the score of a result.
LEMMA OutcomeOfResult ==
  ASSUME TypeOK, NEW l \in TrialDirs, ~Unscorable(result[l]), result[l] # HalfWritten
  PROVE  /\ ResultOutcome(result[l]) = "passed" <=> result[l] = [raised |-> "none", scored |-> "pass"]
         /\ ResultOutcome(result[l]) = "failed" <=> result[l] = [raised |-> "none", scored |-> "fail"]
<1>1. result[l] \in Result
  BY HarborRunnerAssumption DEF TypeOK, TrialDirs
<1> QED
  BY <1>1 DEF Result, ResultOutcome, Unscorable

\* A verdict of the verifier is that of the only result the attempt has left, and
\* no such result is lost.  (_classify_invocation, classify_trial_result)
THEOREM VerdictIsOfResult == Spec => []VerdictIsTheResults
<1>1. ASSUME TypeOK, VerdictInv, pc = "classified", NEW v \in {"passed", "failed"},
             NEW r, r = [raised |-> "none", scored |-> IF v = "passed" THEN "pass" ELSE "fail"]
      PROVE  verdict = v <=> jobResult /\ \E l \in TrialDirs : TrialDirs = {l} /\ result[l] = r
  <2>1. verdict \in Classifications /\ ~Raising
    BY <1>1 DEF VerdictInv
  <2>2. TrialDirs \subseteq Launches
    BY DEF TrialDirs
  <2>3. CASE ~jobResult
    BY <1>1, <2>1, <2>3 DEF Classifications, MissingOutcome
  <2>4. CASE jobResult /\ ~\E l \in TrialDirs : TrialDirs = {l}
    <3>1. TheTrial = {}
      BY <2>2, <2>4, OneLaunch DEF TheTrial
    <3> QED
      BY <1>1, <2>1, <2>4, <3>1 DEF Classifications
  <2>5. ASSUME jobResult, NEW l \in TrialDirs, TrialDirs = {l}
        PROVE  verdict = v <=> result[l] = r
    <3>1. TheTrial = {l}
      BY <2>2, <2>5, OneLaunch DEF TheTrial
    <3>2. ~Unscorable(result[l])
      BY <2>1, <2>5, <3>1 DEF Raising
    <3>3. CASE result[l] = HalfWritten
      BY <1>1, <2>1, <2>5, <3>1, <3>3 DEF Classifications, HalfWritten
    <3>4. CASE result[l] # HalfWritten
      <4>1. verdict = ResultOutcome(result[l])
        BY <2>1, <2>5, <3>1, <3>4 DEF Classifications
      <4> QED
        BY <1>1, <3>2, <3>4, <4>1, OutcomeOfResult
    <3> QED
      BY <3>3, <3>4
  <2> QED
    BY <2>3, <2>4, <2>5
<1>2. IInv => VerdictIsTheResults
  <2>1. SUFFICES ASSUME IInv, pc = "classified", others = {}, NEW score \in {"pass", "fail"}
                 PROVE  (verdict = IF score = "pass" THEN "passed" ELSE "failed")
                          <=> /\ jobResult
                              /\ \E l \in TrialDirs : /\ TrialDirs = {l}
                                    /\ result[l] = [raised |-> "none", scored |-> score]
    BY DEF VerdictIsTheResults
  <2>2. TypeOK /\ VerdictInv
    BY <2>1 DEF IInv, Alone, OutputInv
  <2> QED
    BY <1>1, <2>1, <2>2
<1> QED
  BY <1>2, SpecIInv, PTL

=============================================================================
