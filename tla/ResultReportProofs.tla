------------------------ MODULE ResultReportProofs ------------------------
(***************************************************************************)
(* Proofs about the reports of ResultStore, which are computed from        *)
(* several reads of a database that others write to.                       *)
(***************************************************************************)
EXTENDS ResultStoreProofs

\* strict_pass is there exactly where the trial was scored, and a trial's run is
\* there.
RowsInv(s) ==
  /\ IsFiniteSet(Stored(s))
  /\ \A k \in Stored(s) : s.trials[k].strictPass = NULL <=> s.trials[k].coldstartPass = NULL
  /\ \A k \in Stored(s) : s.runs[k[1]] # NULL

TablesInv == RowsInv(store) /\ RowsInv(work)

\* The figures are those of the attempts shown.
Matches(f, shown) ==
  LET with(v) == Cardinality({k \in DOMAIN shown : shown[k].row.strictPass = v})
  IN /\ f.attempts = Cardinality(DOMAIN shown)
     /\ f.passes = with(1)
     /\ f.failures = with(0)
     /\ f.exceptions = Cardinality({k \in DOMAIN shown : shown[k].row.isInfraException})
     /\ \A c \in Checks : f.failedChecks[c] =
          Cardinality({k \in DOMAIN shown : c \in shown[k].failedChecks})

Computed == {"aggregated", "listed", "written"}
Shown    == {"listed", "written"}

FunctionsInv ==
  /\ figures = [r \in Readers |-> figures[r]]
  /\ report = [r \in Readers |-> report[r]]

\* A report for trial keys is about these, however the database changes; they were
\* there when they were looked up and still are when they are listed.
ScopeInv(r) ==
  /\ rpc[r] # "idle" => scope[r] \in Scopes
  /\ (rpc[r] \in {"found"} \cup Computed /\ scope[r].keys # {}) => ids[r] = scope[r].keys
  /\ (rpc[r] \in {"found", "aggregated"} /\ scope[r].keys # {}) => scope[r].keys \subseteq Stored(store)
  /\ rpc[r] \in Computed => figures[r].attempts = Cardinality(ids[r])
  /\ (rpc[r] \in Shown /\ scope[r].keys # {}) => DOMAIN report[r].attempts = scope[r].keys
  /\ rpc[r] = "listed" => report[r] = [attempts |-> report[r].attempts, configuration |-> NULL]

\* What was read is what is there, until a commit comes in between.
UnmixedInv(r) ==
  r \notin mixed =>
    /\ rpc[r] \in {"found", "aggregated"} => ids[r] = Found(r) /\ ids[r] \subseteq Stored(store)
    /\ rpc[r] = "aggregated" => figures[r] = Aggregate(store, ids[r])
    /\ rpc[r] \in Shown => Matches(figures[r], report[r].attempts)

ReaderInv ==
  /\ FunctionsInv
  /\ \A r \in Readers : ScopeInv(r)
  /\ \A r \in Readers : UnmixedInv(r)

-----------------------------------------------------------------------------
(* The rows.                                                               *)

LEMMA RowsKept ==
  ASSUME NEW s, NEW t, RowsInv(s), t.trials = s.trials,
         \A j \in Jobs : s.runs[j] # NULL => t.runs[j] # NULL
  PROVE  RowsInv(t)
<1>1. Stored(t) = Stored(s)
  BY DEF Stored
<1>2. \A k \in Stored(s) : k[1] \in Jobs
  BY DEF Stored, TrialKeys
<1> QED
  BY <1>1, <1>2 DEF RowsInv

LEMMA EmptyRows == RowsInv(EmptyStore)
<1>1. Stored(EmptyStore) = {}
  BY DEF Stored, EmptyStore
<1> QED
  BY <1>1, FS_EmptySet DEF RowsInv

LEMMA RowWritten ==
  ASSUME NEW s \in Store, RowsInv(s), NEW k \in TrialKeys, NEW f \in TrialFile, NEW d \in TrialDirs,
         NEW t, t.trials = [s.trials EXCEPT ![k] = TrialRow(f, d)],
         t.runs = s.runs, s.runs[k[1]] # NULL
  PROVE  RowsInv(t)
<1> DEFINE row == TrialRow(f, d)
<1>1. row # NULL
  BY RowType
<1>2. row.strictPass = NULL <=> row.coldstartPass = NULL
  BY ResultStoreAssumption DEF TrialRow
<1>3. DOMAIN s.trials = TrialKeys
  BY DEF Store
<1> HIDE DEF row
<1>4. t.trials = [s.trials EXCEPT ![k] = row]
  BY DEF row
<1>5. Stored(t) = Stored(s) \cup {k}
  BY <1>1, <1>3, <1>4 DEF Stored
<1>6. IsFiniteSet(Stored(t))
  BY <1>5, FS_AddElement DEF RowsInv
<1>7. ASSUME NEW x \in Stored(t)
      PROVE  t.trials[x].strictPass = NULL <=> t.trials[x].coldstartPass = NULL
  <2>1. CASE x = k
    BY <1>2, <1>3, <1>4, <2>1
  <2>2. CASE x # k
    <3>1. x \in Stored(s) /\ t.trials[x] = s.trials[x]
      BY <1>3, <1>4, <1>5, <2>2 DEF Stored
    <3> QED
      BY <3>1 DEF RowsInv
  <2> QED
    BY <2>1, <2>2
<1>8. \A x \in Stored(t) : t.runs[x[1]] # NULL
  BY <1>5 DEF RowsInv
<1> QED
  BY <1>6, <1>7, <1>8 DEF RowsInv

LEMMA ChecksKeepTrials ==
  ASSUME NEW s \in Store, NEW j \in Jobs, NEW d \in TrialDirs, NEW k \in TrialKeys,
         NEW f \in TrialFile
  PROVE  /\ ArtifactRecorded(ChecksReplaced(s, k, f), j, d, k).trials = s.trials
         /\ ArtifactRecorded(ChecksReplaced(s, k, f), j, d, k).runs = s.runs
BY DEF ArtifactRecorded, ChecksReplaced, Store

LEMMA TablesStep ==
  ASSUME IInv, TablesInv, [Next]_vars
  PROVE  TablesInv'
<1>1. store' \in {store, work}
  <2>1. ASSUME NEW p \in Ingesters, Release(p) PROVE store' = work
    BY <2>1 DEF Release
  <2> QED
    BY <2>1, StoreChanges
<1>2. RowsInv(store')
  BY <1>1 DEF TablesInv
<1>3. RowsInv(work')
  <2>1. ASSUME NEW p \in Ingesters, Ingest(p) PROVE RowsInv(work')
    <3>1. CASE UNCHANGED work
      BY <3>1 DEF TablesInv
    <3>2. CASE work' = EmptyStore
      BY <3>2, EmptyRows
    <3>3. CASE UpsertRun(p)
      <4>1. Job(p) \in Jobs /\ dirs[Job(p)] \in JobContents
        BY <3>3, JobFacts DEF UpsertRun, At, Content, IInv
      <4>2. work'.trials = store.trials /\ work'.runs = [store.runs EXCEPT ![Job(p)] = dirs[Job(p)]]
        BY <3>3, <4>1, RunUpsertedFacts DEF UpsertRun, IInv, TypeOK
      <4>3. DOMAIN store.runs = Jobs /\ dirs[Job(p)] # NULL
        BY <4>1, ResultStoreAssumption DEF IInv, TypeOK, Store
      <4>4. \A j \in Jobs : store.runs[j] # NULL => work'.runs[j] # NULL
        BY <4>2, <4>3
      <4> QED
        BY <4>2, <4>4, RowsKept DEF TablesInv
    <3>4. CASE UpsertTrial(p) \/ ReplaceScores(p) \/ ReplaceChecks(p)
      <4>1. pc[p] \in InTransaction
        BY <3>4 DEF UpsertTrial, ReplaceScores, ReplaceChecks, Write, At, InTransaction
      <4>2. writer = p /\ p # NoOne
        BY <4>1, ResultStoreAssumption DEF IInv, LockInv
      <4>3. todo # {}
        BY <3>4, <4>2
        DEF UpsertTrial, ReplaceScores, ReplaceChecks, Write, At, IInv, WriterInv, TodoInv
      <4>4. /\ Job(p) \in Jobs /\ First(todo) \in TrialDirs
            /\ File(p) \in TrialFile /\ Key(p) \in TrialKeys
        BY <4>1, <4>3, FileFacts, JobFacts DEF IInv
      <4>5. work \in Store
        BY DEF IInv, TypeOK
      <4>6. work.runs[Job(p)] # NULL
        <5>1. OthersKept(p) /\ store \in Store
          BY <4>2 DEF IInv, WriterInv, TypeOK
        <5>2. Content(p) \in JobContents
          BY <4>4 DEF Content, IInv, TypeOK
        <5> QED
          BY <4>4, <5>1, <5>2, ResultStoreAssumption DEF OthersKept, Store
      <4>7. CASE UpsertTrial(p)
        <5>1. work' = TrialUpserted(work, Job(p), First(todo), File(p))
          BY <4>7 DEF UpsertTrial, Write
        <5>2. work'.trials = [work.trials EXCEPT ![<<Job(p), File(p).name>>] = TrialRow(File(p), First(todo))]
          BY <4>4, <4>5, <5>1, TrialUpsertedFacts
        <5>3. <<Job(p), File(p).name>> \in TrialKeys
          BY <4>4 DEF Key, TrialKey
        <5>4. work'.runs = work.runs
          BY <5>1, <4>5 DEF TrialUpserted, SystemUpserted, Store
        <5> QED
          BY <4>4, <4>5, <4>6, <5>2, <5>3, <5>4, RowWritten DEF TablesInv
      <4>8. CASE ReplaceScores(p)
        <5>1. work' = ScoresReplaced(work, Key(p), File(p))
          BY <4>8 DEF ReplaceScores, Write
        <5>2. work'.trials = work.trials /\ work'.runs = work.runs
          BY <4>4, <4>5, <5>1, ScoresReplacedFacts
        <5> QED
          BY <5>2, RowsKept DEF TablesInv
      <4>9. CASE ReplaceChecks(p)
        <5>1. work' = ArtifactRecorded(ChecksReplaced(work, Key(p), File(p)), Job(p), First(todo), Key(p))
          BY <4>9 DEF ReplaceChecks, Write
        <5>2. work'.trials = work.trials /\ work'.runs = work.runs
          BY <4>4, <4>5, <5>1, ChecksKeepTrials
        <5> QED
          BY <5>2, RowsKept DEF TablesInv
      <4> QED
        BY <3>4, <4>7, <4>8, <4>9
    <3> QED
      BY <2>1, <3>1, <3>2, <3>3, <3>4
      DEF Ingest, Call, OpenJob, JobUnreadable, RollBack, Locked, Abandon, NoTrials, TrialUnparsable,
          BadReward, Release, CommitLocked, Return, Crash, EndJob
  <2>2. ASSUME ~\E p \in Ingesters : Ingest(p) PROVE work' = work
    BY <2>2 DEF Next, Report, Ask, Refuse, FindTrials, ComputeAggregate, ListAttempts, WriteReport,
                Read, Rewrite, vars, ingesting
  <2> QED
    BY <2>1, <2>2 DEF TablesInv
<1> QED
  BY <1>2, <1>3 DEF TablesInv, RowsInv, Stored

-----------------------------------------------------------------------------
(* The figures.                                                            *)

LEMMA AggregateMatches ==
  ASSUME NEW s \in Store, RowsInv(s), NEW S \in SUBSET Stored(s),
         NEW shown, shown = [k \in S |-> Attempt(s, k)]
  PROVE  Matches(Aggregate(s, S), shown)
<1> DEFINE scored == {k \in S : s.trials[k].coldstartPass # NULL}
           passes == {k \in scored : s.trials[k].strictPass = 1}
<1>1. DOMAIN shown = S /\ S \cap Stored(s) = S
  OBVIOUS
<1>2. ASSUME NEW k \in S
      PROVE  /\ shown[k].row = s.trials[k] /\ shown[k].failedChecks = s.checks[k]
             /\ s.trials[k].strictPass = NULL <=> s.trials[k].coldstartPass = NULL
             /\ s.trials[k].strictPass \in {0, 1, NULL}
  <2>1. k \in Stored(s) /\ k \in TrialKeys
    BY DEF Stored
  <2>2. s.trials[k] \in Row
    BY <2>1 DEF Stored, Store
  <2>3. s.trials[k].strictPass \in {0, 1, NULL}
    BY <2>2 DEF Row
  <2> QED
    BY <2>1, <2>3 DEF Attempt, RowsInv
<1>3. NULL # 0 /\ NULL # 1
  BY ResultStoreAssumption
<1>4. {k \in DOMAIN shown : shown[k].row.strictPass = 1} = passes
  BY <1>1, <1>2, <1>3
<1>5. {k \in DOMAIN shown : shown[k].row.strictPass = 0} = scored \ passes
  BY <1>1, <1>2, <1>3
<1>6. scored \cap passes = passes
  OBVIOUS
<1>7. IsFiniteSet(scored)
  <2>1. scored \in SUBSET Stored(s)
    OBVIOUS
  <2> HIDE DEF scored
  <2> QED
    BY <2>1, FS_Subset DEF RowsInv
<1>8. Cardinality(scored \ passes) = Cardinality(scored) - Cardinality(passes)
  <2> HIDE DEF scored, passes
  <2> QED
    BY <1>6, <1>7, FS_Difference
<1>9. {k \in DOMAIN shown : shown[k].row.isInfraException} = {k \in S : s.trials[k].isInfraException}
  BY <1>1, <1>2
<1>10. \A c \in Checks : {k \in DOMAIN shown : c \in shown[k].failedChecks} = {k \in S : c \in s.checks[k]}
  BY <1>1, <1>2
<1>11. LET a == Aggregate(s, S)
       IN /\ a.attempts = Cardinality(S)
          /\ a.passes = Cardinality(passes)
          /\ a.failures = Cardinality(scored) - Cardinality(passes)
          /\ a.exceptions = Cardinality({k \in S : s.trials[k].isInfraException})
          /\ \A c \in Checks : a.failedChecks[c] = Cardinality({k \in S : c \in s.checks[k]})
  BY <1>1 DEF Aggregate
<1> HIDE DEF scored, passes
<1>12. Cardinality(DOMAIN shown) = Cardinality(S)
  BY <1>1
<1> DEFINE a == Aggregate(s, S)
<1>13. /\ a.attempts = Cardinality(S)
       /\ a.passes = Cardinality(passes)
       /\ a.failures = Cardinality(scored) - Cardinality(passes)
       /\ a.exceptions = Cardinality({k \in S : s.trials[k].isInfraException})
       /\ \A c \in Checks : a.failedChecks[c] = Cardinality({k \in S : c \in s.checks[k]})
  BY <1>11
<1> HIDE DEF a
<1>14. Matches(a, shown)
  BY ONLY <1>4, <1>5, <1>8, <1>9, <1>10, <1>12, <1>13 DEF Matches
<1> QED
  BY ONLY <1>14 DEF a

-----------------------------------------------------------------------------
(* The readers.                                                            *)

LEMMA ReaderKept ==
  ASSUME NEW r \in Readers, ScopeInv(r), UnmixedInv(r), store' = store,
         rpc'[r] = rpc[r], scope'[r] = scope[r], ids'[r] = ids[r],
         figures'[r] = figures[r], report'[r] = report[r],
         r \notin mixed' => r \notin mixed
  PROVE  ScopeInv(r)' /\ UnmixedInv(r)'
<1>1. ScopeInv(r)'
  BY DEF ScopeInv
<1>2. Found(r)' = Found(r)
  BY DEF Found
<1>3. Aggregate(store, ids[r])' = Aggregate(store, ids[r])
  BY DEF Aggregate
<1>4. UnmixedInv(r)'
  BY <1>2, <1>3 DEF UnmixedInv
<1> QED
  BY <1>1, <1>4

\* A report for trial keys finds these.
LEMMA FoundOfKeys ==
  ASSUME NEW r \in Readers, scope[r] \in Scopes, scope[r].keys # {}
  PROVE  Found(r) = scope[r].keys
BY ResultStoreAssumption DEF Found

\* The rows that were looked up are those listed, as long as they are there.
LEMMA ListedAreFound ==
  ASSUME NEW r \in Readers, RowsInv(store), Found(r) \subseteq Stored(store)
  PROVE  Listed(r) = Found(r)
BY DEF Listed, WithRun, Found, RowsInv

LEMMA ReportStep ==
  ASSUME TypeOK, TablesInv, ReaderInv, NEW r \in Readers, Report(r)
  PROVE  ReaderInv'
<1>1. store' = store /\ FunctionsInv /\ ScopeInv(r) /\ UnmixedInv(r)
  BY DEF ReaderInv, Report, Ask, Refuse, FindTrials, ComputeAggregate, ListAttempts, WriteReport, Read
<1>2. FunctionsInv'
  BY <1>1 DEF FunctionsInv, Report, Ask, Refuse, FindTrials, ComputeAggregate, ListAttempts, WriteReport
<1>3. ASSUME NEW q \in Readers \ {r} PROVE ScopeInv(q)' /\ UnmixedInv(q)'
  <2>1. /\ rpc'[q] = rpc[q] /\ scope'[q] = scope[q] /\ ids'[q] = ids[q]
        /\ q \notin mixed' => q \notin mixed
    BY DEF TypeOK, Report, Ask, Refuse, FindTrials, ComputeAggregate, ListAttempts, WriteReport, Read
  <2>2. figures'[q] = figures[q] /\ report'[q] = report[q]
    BY <1>1 DEF FunctionsInv, Report, Ask, Refuse, FindTrials, ComputeAggregate, ListAttempts, WriteReport
  <2> QED
    BY <1>1, <2>1, <2>2, ReaderKept DEF ReaderInv
<1>4. ScopeInv(r)' /\ UnmixedInv(r)'
  <2>1. CASE Ask(r)
    <3>1. rpc'[r] = "asked" /\ scope'[r] \in Scopes
      BY <2>1 DEF Ask, Read, TypeOK
    <3> QED
      BY <3>1 DEF ScopeInv, UnmixedInv, Computed, Shown
  <2>2. CASE Refuse(r)
    <3>1. rpc'[r] = "idle"
      BY <2>2 DEF Refuse, Read, TypeOK
    <3> QED
      BY <3>1 DEF ScopeInv, UnmixedInv, Computed, Shown
  <2>3. CASE FindTrials(r)
    <3>1. /\ rpc[r] = "asked" /\ rpc'[r] = "found" /\ scope' = scope /\ ids'[r] = Found(r)
          /\ Found(r) \subseteq Stored(store)
      BY <2>3 DEF FindTrials, Read, Refused, TypeOK
    <3>2. scope[r] \in Scopes
      BY <1>1, <3>1 DEF ScopeInv
    <3>3. Found(r)' = Found(r) /\ Stored(store)' = Stored(store)
      BY <1>1, <3>1 DEF Found, OfPair, Stored
    <3>4. scope[r].keys # {} => Found(r) = scope[r].keys
      BY <3>2, FoundOfKeys
    <3> QED
      BY <3>1, <3>2, <3>3, <3>4 DEF ScopeInv, UnmixedInv, Computed, Shown
  <2>4. CASE ComputeAggregate(r)
    <3>1. /\ rpc[r] = "found" /\ rpc'[r] = "aggregated" /\ UNCHANGED <<store, scope, ids, mixed>>
          /\ figures'[r] = Aggregate(store, ids[r])
      BY <1>1, <2>4 DEF ComputeAggregate, Read, FunctionsInv, TypeOK
    <3>2. figures'[r].attempts = Cardinality(ids[r])
      BY <3>1 DEF Aggregate
    <3>3. Found(r)' = Found(r) /\ Stored(store)' = Stored(store)
      BY <3>1 DEF Found, OfPair, Stored
    <3>4. Aggregate(store, ids[r])' = Aggregate(store, ids[r])
      BY <3>1 DEF Aggregate
    <3>5. ScopeInv(r)'
      BY <1>1, <3>1, <3>2 DEF ScopeInv, Computed, Shown
    <3>6. UnmixedInv(r)'
      BY <1>1, <3>1, <3>3, <3>4 DEF UnmixedInv, Shown
    <3> QED
      BY <3>5, <3>6
  <2>5. CASE ListAttempts(r)
    <3> DEFINE shown == [k \in Listed(r) |-> Attempt(store, k)]
    <3>1. /\ rpc[r] = "aggregated" /\ rpc'[r] = "listed"
          /\ UNCHANGED <<store, scope, ids, figures, mixed>>
          /\ report'[r] = [attempts |-> shown, configuration |-> NULL]
      BY <1>1, <2>5 DEF ListAttempts, Read, FunctionsInv, TypeOK
    <3>2. DOMAIN shown = Listed(r) /\ RowsInv(store)
      BY DEF TablesInv
    <3>3. scope[r] \in Scopes /\ (scope[r].keys # {} => scope[r].keys \subseteq Stored(store))
      BY <1>1, <3>1 DEF ScopeInv
    <3>4. scope[r].keys # {} => DOMAIN shown = scope[r].keys
      <4>1. scope[r].keys # {} => Found(r) = scope[r].keys
        BY <3>3, FoundOfKeys
      <4> QED
        BY <3>2, <3>3, <4>1, ListedAreFound
    <3>5. ASSUME r \notin mixed PROVE Matches(figures[r], shown)
      <4>1. /\ figures[r] = Aggregate(store, Found(r)) /\ Found(r) \in SUBSET Stored(store)
        BY <1>1, <3>1, <3>5 DEF UnmixedInv
      <4>2. store \in Store /\ RowsInv(store)
        BY DEF TypeOK, TablesInv
      <4>3. shown = [k \in Found(r) |-> Attempt(store, k)]
        BY <4>1, <4>2, ListedAreFound
      <4> HIDE DEF shown
      <4>4. Matches(Aggregate(store, Found(r)), shown)
        BY <4>1, <4>2, <4>3, AggregateMatches
      <4> QED
        BY <4>1, <4>4
    <3> HIDE DEF shown
    <3>6. report'[r].attempts = shown
      BY <3>1
    <3>7. ScopeInv(r)'
      BY <1>1, <3>1, <3>4, <3>6 DEF ScopeInv, Computed, Shown
    <3>8. UnmixedInv(r)'
      BY <3>1, <3>5, <3>6 DEF UnmixedInv
    <3> QED
      BY <3>7, <3>8
  <2>6. CASE WriteReport(r)
    <3>1. /\ rpc[r] = "listed" /\ rpc'[r] = "written"
          /\ UNCHANGED <<store, scope, ids, figures, mixed>>
      BY <2>6 DEF WriteReport, Read, TypeOK
    <3>2. report[r] = [attempts |-> report[r].attempts, configuration |-> NULL]
      BY <1>1, <3>1 DEF ScopeInv
    <3>3. report'[r].attempts = report[r].attempts
      <4> DEFINE e == IF scope[r].system # NULL THEN SystemConfiguration(store, scope[r].system)
                      ELSE SystemConfiguration(store, store.trials[CHOOSE k \in scope[r].keys : TRUE].system)
      <4>1. report' = [report EXCEPT ![r].configuration = e]
        BY <2>6, Zenon DEF WriteReport
      <4> HIDE DEF e
      <4>2. report'[r] = [report[r] EXCEPT !.configuration = e]
        BY <1>1, <4>1 DEF FunctionsInv
      <4> QED
        BY <3>2, <4>2
    <3>4. ScopeInv(r)'
      BY <1>1, <3>1, <3>3 DEF ScopeInv, Computed, Shown
    <3>5. UnmixedInv(r)'
      BY <1>1, <3>1, <3>3 DEF UnmixedInv, Shown
    <3> QED
      BY <3>4, <3>5
  <2> QED
    BY <2>1, <2>2, <2>3, <2>4, <2>5, <2>6 DEF Report
<1> QED
  BY <1>2, <1>3, <1>4 DEF ReaderInv

LEMMA ReaderStep ==
  ASSUME IInv, TablesInv, ReaderInv, [Next]_vars
  PROVE  ReaderInv'
<1>1. ASSUME UNCHANGED <<store, reading, mixed>> PROVE ReaderInv'
  <2>1. FunctionsInv'
    BY <1>1 DEF reading, ReaderInv, FunctionsInv
  <2>2. ASSUME NEW r \in Readers PROVE ScopeInv(r)' /\ UnmixedInv(r)'
    BY <1>1, ReaderKept DEF reading, ReaderInv
  <2> QED
    BY <2>1, <2>2 DEF ReaderInv
<1>2. ASSUME NEW p \in Ingesters, Release(p) PROVE ReaderInv'
  <2>1. /\ UNCHANGED reading
        /\ mixed' = {r \in Readers : rpc[r] \notin {"idle", "asked", "written"}} \cup mixed
    BY <1>2 DEF Release, EndJob
  <2>2. FunctionsInv'
    BY <2>1 DEF reading, ReaderInv, FunctionsInv
  <2>3. Stored(store) \subseteq Stored(store')
    BY <1>2, Released DEF IInv, OthersKept
  <2>4. ASSUME NEW r \in Readers PROVE ScopeInv(r)'
    <3>1. ScopeInv(r)
      BY DEF ReaderInv
    <3>2. Stored(store)' = Stored(store')
      BY DEF Stored
    <3> QED
      BY <2>1, <2>3, <3>1, <3>2 DEF reading, ScopeInv
  <2>5. ASSUME NEW r \in Readers PROVE UnmixedInv(r)'
    <3> SUFFICES ASSUME r \notin mixed' PROVE UnmixedInv(r)'
      BY DEF UnmixedInv
    <3>1. r \notin mixed /\ rpc[r] \in {"idle", "asked", "written"}
      BY <2>1
    <3>2. UnmixedInv(r)
      BY DEF ReaderInv
    <3> QED
      BY <2>1, <3>1, <3>2 DEF reading, UnmixedInv, Shown
  <2> QED
    BY <2>2, <2>5, <2>4 DEF ReaderInv
<1>3. ASSUME NEW p \in Ingesters, Ingest(p), ~Release(p) PROVE ReaderInv'
  <2>1. UNCHANGED <<store, reading, mixed>>
    BY <1>3 DEF Ingest, Call, OpenJob, JobUnreadable, RollBack, UpsertRun, Locked, Abandon, NoTrials,
                TrialUnparsable, BadReward, UpsertTrial, ReplaceScores, ReplaceChecks, Write,
                CommitLocked, Return, Crash, EndJob
  <2> QED
    BY <1>1, <2>1
<1>4. ASSUME NEW j \in Jobs, Rewrite(j) PROVE ReaderInv'
  BY <1>1, <1>4 DEF Rewrite
<1>5. CASE UNCHANGED vars
  BY <1>1, <1>5 DEF vars
<1> QED
  BY <1>2, <1>3, <1>4, <1>5, ReportStep DEF Next, IInv

-----------------------------------------------------------------------------
(* Theorems.                                                               *)

LEMMA ReadersInductive == Spec => [](TablesInv /\ ReaderInv)
<1>1. Init => TablesInv /\ ReaderInv
  <2> SUFFICES ASSUME Init PROVE TablesInv /\ ReaderInv
    OBVIOUS
  <2>1. TablesInv
    BY EmptyRows DEF Init, TablesInv
  <2>2. ReaderInv
    BY DEF Init, ReaderInv, FunctionsInv, ScopeInv, UnmixedInv, Computed, Shown
  <2> QED
    BY <2>1, <2>2
<1>2. IInv /\ TablesInv /\ ReaderInv /\ [Next]_vars => (TablesInv /\ ReaderInv)'
  BY TablesStep, ReaderStep
<1> QED
  BY <1>1, <1>2, Inductive, PTL DEF Spec

\* A report for trial keys shows and counts exactly these trials, whatever the
\* database holds besides and whatever is committed while it is computed.
\* (compute_aggregate_for_trial_keys, _trial_rows_for_keys)
THEOREM ReportIsOfItsScope == Spec => []ScopedReportIsExact
<1>1. ReaderInv => ScopedReportIsExact
  <2> SUFFICES ASSUME ReaderInv, NEW r \in Readers, rpc[r] = "written", scope[r].keys # {}
               PROVE  /\ DOMAIN report[r].attempts = scope[r].keys
                      /\ figures[r].attempts = Cardinality(scope[r].keys)
    BY DEF ScopedReportIsExact
  <2>1. ScopeInv(r)
    BY DEF ReaderInv
  <2> QED
    BY <2>1 DEF ScopeInv, Computed, Shown
<1> QED
  BY <1>1, ReadersInductive, PTL

\* The figures of a report are those of the attempts it lists, unless a commit came
\* in between.  (_aggregate_from_trial_ids, build_private_report)
THEOREM FiguresAreOfAttempts == Spec => []FiguresMatchAttempts
<1>1. ReaderInv => FiguresMatchAttempts
  BY DEF ReaderInv, UnmixedInv, Shown, Matches, FiguresMatchAttempts
<1> QED
  BY <1>1, ReadersInductive, PTL
===========================================================================
