---------------------------- MODULE ResultStore ----------------------------
(***************************************************************************)
(* The Phase 1 results database: results/db.py, the ingestion of Harbor    *)
(* job directories (results/ingest.py) by several processes, and the       *)
(* reports computed from it (results/aggregate.py, results/reports.py).    *)
(*                                                                         *)
(* ingest_jobs takes one job after the other, each in a SAVEPOINT of its   *)
(* own.  The first statement of a job writes, so that the process holds    *)
(* SQLite's write lock until it commits or gives up; until then only it    *)
(* sees its changes, the working copy work.  A reader takes no lock: a     *)
(* report is many SELECTs, each of which sees what is committed then.      *)
(*                                                                         *)
(* A job directory is a completed Harbor job; one that an ingestion is     *)
(* reading does not change.  All trials are of one task, so that a         *)
(* (task, system) pair is a system key.                                    *)
(***************************************************************************)
EXTENDS Naturals, Sequences, FiniteSets, SequencesExt

CONSTANTS
  Jobs,          \* names of job directories; a name is the run_key
  DirCount,      \* bound: subdirectories of a job
  TrialNames,    \* trial_name of a trial's result.json
  SystemKeys,    \* <model>__<agent>
  Setups,        \* what a system key leaves out: the provider, the versions
  Dimensions,    \* reward keys
  StrictPassKey, \* STRICT_PASS_KEY, one of them
  Checks,        \* names of verifier checks
  Costs,         \* the values of cost_usd
  NULL,          \* SQL's NULL and JSON's null
  JobContents,   \* what a job directory can hold
  Scopes,        \* what the readers ask for
  Ingesters, Readers, NoOne,
  MaxList,       \* bound: job directories of one call of ingest_jobs
  MaxIngests,    \* bound: job directories of all calls
  MaxRewrites    \* bound: times a job directory is replaced

TrialDirs == 1..DirCount   \* in the order of their sorted names
Score == 0..2              \* of a dimension, in halves
FullScore == 2             \* 1.0

\* A mapping from dimensions to scores: NULL where it has no entry.
Rewards == [Dimensions -> Score \cup {NULL}]

\* A trial directory: its config.json, result.json, verifier/details.json.
TrialFile ==
  [state   : {"valid", "unparsable", "bad_reward"},
   name    : TrialNames,
   system  : SystemKeys,
   setup   : Setups \cup {NULL},
   rewards : Rewards,
   raised  : BOOLEAN,       \* exception_info is there
   cost    : Costs \cup {NULL},
   failed  : SUBSET Checks]

\* A job directory: whether its own two files can be read, and its trial
\* directories, NULL where there is none.
JobFile == [readable : BOOLEAN, trials : [TrialDirs -> TrialFile \cup {NULL}]]

Present(content) == {d \in TrialDirs : content.trials[d] # NULL}

TrialKeys == Jobs \X TrialNames   \* f"{run_key}::{trial_name}"

Row ==
  [system : SystemKeys, dir : TrialDirs, coldstartPass : Score \cup {NULL},
   strictPass : {0, 1, NULL}, isInfraException : BOOLEAN, cost : Costs \cup {NULL}]

\* What a report is asked for: trial keys, or all trials of a pair.
Scope == [keys : SUBSET TrialKeys, system : SystemKeys \cup {NULL}]

ASSUME ResultStoreAssumption ==
  /\ DirCount \in Nat
  /\ StrictPassKey \in Dimensions
  /\ Costs \subseteq Nat
  /\ JobContents \subseteq JobFile
  /\ NULL \notin JobContents \cup Setups \cup SystemKeys \cup Row \cup TrialKeys \cup Nat
  /\ Scopes \subseteq Scope
  /\ \A asked \in Scopes : asked.keys = {} <=> asked.system # NULL
  /\ NoOne \notin Ingesters
  /\ MaxList \in Nat /\ MaxIngests \in Nat /\ MaxRewrites \in Nat

\* The tables.  A row of setups stands for one of models and one of agents;
\* its position is its id, and systems[s] is the id the row of s refers to.
Store ==
  [runs      : [Jobs -> JobContents \cup {NULL}],
   trials    : [TrialKeys -> Row \cup {NULL}],
   scores    : [TrialKeys -> Rewards],
   checks    : [TrialKeys -> SUBSET Checks],
   artifacts : [Jobs \X TrialDirs -> TrialKeys \cup {NULL}],
   setups    : Seq([system : SystemKeys, setup : Setups \cup {NULL}]),
   systems   : [SystemKeys -> Nat]]

NoScores == [d \in Dimensions |-> NULL]

EmptyStore ==
  [runs      |-> [j \in Jobs |-> NULL],
   trials    |-> [k \in TrialKeys |-> NULL],
   scores    |-> [k \in TrialKeys |-> NoScores],
   checks    |-> [k \in TrialKeys |-> {}],
   artifacts |-> [a \in Jobs \X TrialDirs |-> NULL],
   setups    |-> << >>,
   systems   |-> [s \in SystemKeys |-> 0]]

Stored(s) == {k \in TrialKeys : s.trials[k] # NULL}

-----------------------------------------------------------------------------
(* What one trial directory does to the tables.                            *)

TrialKey(j, f) == <<j, f.name>>

\* Mutant: strict_pass is the reward itself.
TrialRow_Raw(f, d) ==
  [system |-> f.system, dir |-> d, coldstartPass |-> f.rewards[StrictPassKey],
   strictPass |-> f.rewards[StrictPassKey], isInfraException |-> f.raised, cost |-> f.cost]

TrialRow(f, d) ==
  LET pass == f.rewards[StrictPassKey]
  IN [system |-> f.system, dir |-> d, coldstartPass |-> pass,
      strictPass |-> IF pass = NULL THEN NULL ELSE IF pass >= FullScore THEN 1 ELSE 0,
      isInfraException |-> f.raised, cost |-> f.cost]

\* UNIQUE (name, provider): a NULL is equal to nothing, not even to a NULL.
SameSetup(s, f) ==
  {i \in DOMAIN s.setups : f.setup # NULL /\ s.setups[i] = [system |-> f.system, setup |-> f.setup]}

SystemUpserted(s, f) ==
  IF SameSetup(s, f) # {}
    THEN [s EXCEPT !.systems[f.system] = CHOOSE i \in SameSetup(s, f) : TRUE]
    ELSE [s EXCEPT !.setups = Append(@, [system |-> f.system, setup |-> f.setup]),
                   !.systems[f.system] = Len(s.setups) + 1]

\* Mutant: INSERT OR REPLACE, which deletes the run and what refers to it.
RunUpserted_Replaced(s, j, content) ==
  [s EXCEPT !.runs[j] = content,
            !.trials = [k \in TrialKeys |-> IF k[1] = j THEN NULL ELSE s.trials[k]]]

RunUpserted(s, j, content) == [s EXCEPT !.runs[j] = content]

TrialUpserted(s, j, d, f) ==
  [SystemUpserted(s, f) EXCEPT !.trials[TrialKey(j, f)] = TrialRow(f, d)]

\* Mutant: the scores of an earlier ingestion are not deleted.
ScoresReplaced_Merged(s, k, f) ==
  [s EXCEPT !.scores[k] =
     [d \in Dimensions |-> IF f.rewards[d] = NULL THEN s.scores[k][d] ELSE f.rewards[d]]]

\* Mutant: they are deleted after the new ones are inserted.
ScoresReplaced_DeletedLate(s, k, f) ==
  [s EXCEPT !.scores[k] =
     [d \in Dimensions |-> IF s.scores[k][d] # NULL THEN NULL ELSE f.rewards[d]]]

ScoresReplaced(s, k, f) == [s EXCEPT !.scores[k] = f.rewards]

ChecksReplaced(s, k, f) == [s EXCEPT !.checks[k] = f.failed]

ArtifactRecorded(s, j, d, k) == [s EXCEPT !.artifacts[<<j, d>>] = k]

-----------------------------------------------------------------------------
(* What a report computes.                                                 *)

\* A trial of a pair refers to the row of its system.
OfPair(s, system) ==
  {k \in Stored(s) : s.trials[k].system = system /\ s.systems[system] # 0}

\* JOIN runs: a trial is listed with the row of its job.
WithRun(s, keys) == {k \in keys : s.runs[k[1]] # NULL}

AddUp(f) == FoldFunction(+, 0, f)

\* Mutant: what was not scored counts as failed.
Aggregate_AllScored(s, ids) ==
  LET rows   == ids \cap Stored(s)
      passes == {k \in rows : s.trials[k].strictPass = 1}
  IN [attempts |-> Cardinality(ids), scored |-> Cardinality(rows),
      passes |-> Cardinality(passes), failures |-> Cardinality(rows) - Cardinality(passes),
      exceptions |-> Cardinality({k \in rows : s.trials[k].isInfraException}),
      totalCost |-> NULL,
      failedChecks |-> [c \in Checks |-> Cardinality({k \in ids : c \in s.checks[k]})]]

\* The attempts are the ids asked for; everything else is of the rows there are.
Aggregate(s, ids) ==
  LET rows   == ids \cap Stored(s)
      scored == {k \in rows : s.trials[k].coldstartPass # NULL}
      passes == {k \in scored : s.trials[k].strictPass = 1}
      priced == {k \in rows : s.trials[k].cost # NULL}
  IN [attempts   |-> Cardinality(ids),
      scored     |-> Cardinality(scored),
      passes     |-> Cardinality(passes),
      failures   |-> Cardinality(scored) - Cardinality(passes),
      exceptions |-> Cardinality({k \in rows : s.trials[k].isInfraException}),
      totalCost  |-> IF priced = {} THEN NULL ELSE AddUp([k \in priced |-> s.trials[k].cost]),
      failedChecks |-> [c \in Checks |-> Cardinality({k \in ids : c \in s.checks[k]})]]

\* One entry of the attempts table of a private report.
Attempt(s, k) ==
  [row |-> s.trials[k], dimensionScores |-> s.scores[k], failedChecks |-> s.checks[k],
   artifacts |-> {d \in TrialDirs : s.artifacts[<<k[1], d>>] = k}]

SystemConfiguration(s, system) ==
  IF s.systems[system] = 0 THEN NULL ELSE s.setups[s.systems[system]].setup

-----------------------------------------------------------------------------
VARIABLES
  \* On disk.
  dirs,      \* the job directories
  store,     \* what is committed
  \* In the ingesting processes.
  writer,    \* the process that holds the write lock
  pc, queue, \* where each is; the job directories it has still to take
  todo,      \* the trial directories the writer has still to take
  work,      \* the writer's working copy of the store
  \* In the reporting processes.
  rpc,       \* where each is
  scope,     \* the trials it was asked for
  ids,       \* the rows it found for them
  figures,   \* the aggregate
  report,    \* the attempts and the configuration it shows
  \* History.
  taken, rewrites,
  committed, \* the trial keys of every commit so far
  mixed      \* readers that have seen more than one state of the store

ingesting == <<writer, pc, queue, todo, work>>
reading   == <<rpc, scope, ids, figures, report>>
vars      == <<dirs, store, ingesting, reading, taken, rewrites, committed, mixed>>

InTransaction == {"trials", "scores", "checks"}

TypeOK ==
  /\ dirs \in [Jobs -> JobContents]
  /\ store \in Store
  /\ writer \in Ingesters \cup {NoOne}
  /\ pc \in [Ingesters -> {"idle", "next", "opened"} \cup InTransaction]
  /\ queue \in [Ingesters -> Seq(Jobs)]
  /\ todo \in SUBSET TrialDirs
  /\ work \in Store
  /\ rpc \in [Readers -> {"idle", "asked", "found", "aggregated", "listed", "written"}]
  /\ scope \in [Readers -> Scopes \cup {NULL}]
  /\ ids \in [Readers -> SUBSET TrialKeys]
  /\ taken \in 0..MaxIngests
  /\ rewrites \in 0..MaxRewrites
  /\ committed \subseteq TrialKeys
  /\ mixed \subseteq Readers

Init ==
  /\ dirs \in [Jobs -> JobContents]
  /\ store = EmptyStore
  /\ writer = NoOne
  /\ pc = [p \in Ingesters |-> "idle"]
  /\ queue = [p \in Ingesters |-> << >>]
  /\ todo = {}
  /\ work = EmptyStore
  /\ rpc = [r \in Readers |-> "idle"]
  /\ scope = [r \in Readers |-> NULL]
  /\ ids = [r \in Readers |-> {}]
  /\ figures = [r \in Readers |-> NULL]
  /\ report = [r \in Readers |-> NULL]
  /\ taken = 0 /\ rewrites = 0 /\ committed = {} /\ mixed = {}

-----------------------------------------------------------------------------
(* ingest_jobs.                                                            *)

\* Mutant: the directories are not sorted.
First_Any(S) == CHOOSE d \in S : \A e \in S : d >= e

First(S) == CHOOSE d \in S : \A e \in S : d <= e

Job(p)  == Head(queue[p])
File(p) == dirs[Job(p)].trials[First(todo)]
Key(p)  == TrialKey(Job(p), File(p))

At(p, here) == pc[p] = here
Step(p, there) == pc' = [pc EXCEPT ![p] = there]

\* connect() writes the schema version: it waits for the lock, or the process
\* ends there.
Connected == writer = NoOne

Call(p) ==
  /\ At(p, "idle") /\ Connected
  /\ \E jobs \in SeqOf(Jobs, MaxList) \ {<< >>} :
       /\ taken + Len(jobs) <= MaxIngests
       /\ queue' = [queue EXCEPT ![p] = jobs]
       /\ taken' = taken + Len(jobs)
  /\ Step(p, "next")
  /\ UNCHANGED <<dirs, store, writer, todo, work, reading, rewrites, committed, mixed>>

\* The end of one job: the working copy and the lock are gone.
EndJob(p, there, left) ==
  /\ writer' = IF writer = p THEN NoOne ELSE writer
  /\ work' = IF writer = p THEN EmptyStore ELSE work
  /\ todo' = IF writer = p THEN {} ELSE todo
  /\ queue' = [queue EXCEPT ![p] = left]
  /\ Step(p, there)
  /\ UNCHANGED <<dirs, reading, taken, rewrites>>

\* Mutant: RELEASE without ROLLBACK TO.
RollBack_Released(p) ==
  /\ EndJob(p, "next", Tail(queue[p]))
  /\ store' = IF writer = p THEN work ELSE store
  /\ UNCHANGED <<committed, mixed>>

\* except IngestError: ROLLBACK TO and RELEASE; the next job is taken.
RollBack(p) ==
  /\ EndJob(p, "next", Tail(queue[p]))
  /\ UNCHANGED <<store, committed, mixed>>

\* Any other exception leaves ingest_jobs; conn.close() rolls back.
Abandon(p) ==
  /\ EndJob(p, "idle", << >>)
  /\ UNCHANGED <<store, committed, mixed>>

\* SAVEPOINT, and the job's two files are read before anything is written.
OpenJob(p) ==
  /\ At(p, "next") /\ queue[p] # << >>
  /\ dirs[Job(p)].readable
  /\ Step(p, "opened")
  /\ UNCHANGED <<dirs, store, writer, queue, todo, work, reading, taken, rewrites, committed, mixed>>

JobUnreadable(p) ==
  /\ At(p, "next") /\ queue[p] # << >>
  /\ ~dirs[Job(p)].readable
  /\ RollBack(p)

UpsertRun(p) ==
  /\ At(p, "opened") /\ writer = NoOne
  /\ writer' = p
  /\ work' = RunUpserted(store, Job(p), dirs[Job(p)])
  /\ todo' = Present(dirs[Job(p)])
  /\ Step(p, "trials")
  /\ UNCHANGED <<dirs, store, queue, reading, taken, rewrites, committed, mixed>>

\* sqlite3.OperationalError: the lock was not free in time.
Locked(p) ==
  /\ At(p, "opened") /\ writer # NoOne
  /\ Abandon(p)

NoTrials(p) ==
  /\ At(p, "trials") /\ Present(dirs[Job(p)]) = {}
  /\ RollBack(p)

TrialUnparsable(p) ==
  /\ At(p, "trials") /\ todo # {} /\ File(p).state = "unparsable"
  /\ RollBack(p)

\* float() of the coldstart_pass reward raises ValueError or TypeError.
BadReward(p) ==
  /\ At(p, "trials") /\ todo # {} /\ File(p).state = "bad_reward"
  /\ Abandon(p)

\* One statement group of _ingest_trial on the working copy.
Write(p, here, s, there) ==
  /\ At(p, here)
  /\ work' = s
  /\ Step(p, there)
  /\ UNCHANGED <<dirs, store, writer, queue, reading, taken, rewrites, committed, mixed>>

UpsertTrial(p) ==
  /\ At(p, "trials") /\ todo # {} /\ File(p).state = "valid"
  /\ Write(p, "trials", TrialUpserted(work, Job(p), First(todo), File(p)), "scores")
  /\ UNCHANGED todo

ReplaceScores(p) ==
  /\ Write(p, "scores", ScoresReplaced(work, Key(p), File(p)), "checks")
  /\ UNCHANGED todo

ReplaceChecks(p) ==
  /\ Write(p, "checks",
           ArtifactRecorded(ChecksReplaced(work, Key(p), File(p)), Job(p), First(todo), Key(p)),
           "trials")
  /\ todo' = todo \ {First(todo)}

\* RELEASE SAVEPOINT: the outermost one, so that it commits.
Release(p) ==
  /\ At(p, "trials") /\ todo = {} /\ Present(dirs[Job(p)]) # {}
  /\ store' = work
  /\ committed' = committed \cup {TrialKey(Job(p), dirs[Job(p)].trials[d]) :
                                       d \in Present(dirs[Job(p)])}
  /\ mixed' = {r \in Readers : rpc[r] \notin {"idle", "asked", "written"}} \cup mixed
  /\ EndJob(p, "next", Tail(queue[p]))

\* A reader's SELECT was in the way for too long.
CommitLocked(p) ==
  /\ At(p, "trials") /\ todo = {} /\ Present(dirs[Job(p)]) # {}
  /\ Abandon(p)

Return(p) ==
  /\ At(p, "next") /\ queue[p] = << >>
  /\ Step(p, "idle")
  /\ UNCHANGED <<dirs, store, writer, queue, todo, work, reading, taken, rewrites, committed, mixed>>

Crash(p) ==
  /\ ~At(p, "idle")
  /\ Abandon(p)

Ingest(p) ==
  \/ Call(p) \/ OpenJob(p) \/ JobUnreadable(p) \/ UpsertRun(p) \/ Locked(p)
  \/ NoTrials(p) \/ TrialUnparsable(p) \/ BadReward(p)
  \/ UpsertTrial(p) \/ ReplaceScores(p) \/ ReplaceChecks(p)
  \/ Release(p) \/ CommitLocked(p) \/ Return(p) \/ Crash(p)

-----------------------------------------------------------------------------
(* build_report.                                                           *)

Read(r, here, there) ==
  /\ rpc[r] = here
  /\ rpc' = [rpc EXCEPT ![r] = there]
  /\ UNCHANGED <<dirs, store, ingesting, taken, rewrites, committed>>

\* `reports task` for a pair, or the report of a run for its trial keys.
Ask(r) ==
  /\ Connected
  /\ \E here \in {"idle", "written"} : Read(r, here, "asked")
  /\ \E asked \in Scopes : scope' = [scope EXCEPT ![r] = asked]
  /\ ids' = [ids EXCEPT ![r] = {}]
  /\ figures' = [figures EXCEPT ![r] = NULL]
  /\ report' = [report EXCEPT ![r] = NULL]
  /\ mixed' = mixed \ {r}

Found(r) == IF scope[r].system # NULL THEN OfPair(store, scope[r].system) ELSE scope[r].keys

\* UnknownTrialKeysError, or ValueError for a pair without trials.
Refused(r) == Found(r) = {} \/ ~(Found(r) \subseteq Stored(store))

Refuse(r) ==
  /\ Read(r, "asked", "idle")
  /\ Refused(r)
  /\ scope' = [scope EXCEPT ![r] = NULL]
  /\ UNCHANGED <<ids, figures, report, mixed>>

FindTrials(r) ==
  /\ Read(r, "asked", "found")
  /\ ~Refused(r)
  /\ ids' = [ids EXCEPT ![r] = Found(r)]
  /\ UNCHANGED <<scope, figures, report, mixed>>

ComputeAggregate(r) ==
  /\ Read(r, "found", "aggregated")
  /\ figures' = [figures EXCEPT ![r] = Aggregate(store, ids[r])]
  /\ UNCHANGED <<scope, ids, report, mixed>>

\* The rows the attempts are made from: selected anew, not those aggregated, and
\* keys without a row are not reported any more.
Listed(r) ==
  WithRun(store, IF scope[r].system # NULL THEN OfPair(store, scope[r].system)
                 ELSE scope[r].keys \cap Stored(store))

ListAttempts(r) ==
  /\ Read(r, "aggregated", "listed")
  /\ report' = [report EXCEPT ![r] =
       [attempts |-> [k \in Listed(r) |-> Attempt(store, k)], configuration |-> NULL]]
  /\ UNCHANGED <<scope, ids, figures, mixed>>

WriteReport(r) ==
  /\ Read(r, "listed", "written")
  /\ report' = [report EXCEPT ![r].configuration =
       IF scope[r].system # NULL THEN SystemConfiguration(store, scope[r].system)
       ELSE SystemConfiguration(store, store.trials[CHOOSE k \in scope[r].keys : TRUE].system)]
  /\ UNCHANGED <<scope, ids, figures, mixed>>

Report(r) ==
  \/ Ask(r) \/ Refuse(r) \/ FindTrials(r) \/ ComputeAggregate(r)
  \/ ListAttempts(r) \/ WriteReport(r)

\* Harbor has run again in a directory no ingestion is reading.
Rewrite(j) ==
  /\ rewrites < MaxRewrites
  /\ \A p \in Ingesters : pc[p] \in {"opened"} \cup InTransaction => Job(p) # j
  /\ \E content \in JobContents :
       /\ content # dirs[j]
       /\ dirs' = [dirs EXCEPT ![j] = content]
  /\ rewrites' = rewrites + 1
  /\ UNCHANGED <<store, ingesting, reading, taken, committed, mixed>>

Next ==
  \/ \E p \in Ingesters : Ingest(p)
  \/ \E r \in Readers : Report(r)
  \/ \E j \in Jobs : Rewrite(j)

Spec == Init /\ [][Next]_vars

-----------------------------------------------------------------------------
(* Properties.                                                             *)

\* The directory of content whose trial the row of key k of job j comes from:
\* of several with one trial_name, the last.
LastDir(content, n) ==
  CHOOSE d \in Present(content) :
    /\ content.trials[d].name = n
    /\ \A e \in Present(content) : content.trials[e].name = n => e <= d

\* Every job in the database is there as a whole: a runs row means that each
\* trial of the content it was read from has its row, and that the row's scores
\* and checks are those of the same trial directory and nothing older.  A job
\* that failed half-way, a crash or a second process never leaves a part.
\* (ingest_jobs, _ingest_trial)
WholeJobs ==
  \A j \in Jobs : store.runs[j] # NULL =>
    \A d \in Present(store.runs[j]) :
      LET n == store.runs[j].trials[d].name
          f == store.runs[j].trials[LastDir(store.runs[j], n)]
      IN /\ store.trials[<<j, n>>] = TrialRow(f, LastDir(store.runs[j], n))
         /\ store.scores[<<j, n>>] = f.rewards
         /\ store.checks[<<j, n>>] = f.failed
         /\ store.artifacts[<<j, d>>] = <<j, n>>

\* What was committed stays: no later ingestion, of this process or of another,
\* loses a trial, so that the trial keys an evaluation has recorded always
\* resolve.  (ingest_jobs, _trial_ids_for_keys)
CommittedTrialsStay == committed \subseteq Stored(store)

\* The rows of job j itself.  The rows of systems and setups belong to no job.
JobPart(s, j) ==
  <<s.runs[j],
    [n \in TrialNames |-> <<s.trials[<<j, n>>], s.scores[<<j, n>>], s.checks[<<j, n>>]>>],
    [d \in TrialDirs |-> s.artifacts[<<j, d>>]]>>

\* One job's ingestion touches the rows of no other job, and a job that ends any
\* other way than by its RELEASE touches none: "without disturbing data already
\* committed for other jobs".  What jobs share, the configuration of a system,
\* it does change.  (ingest_jobs)
JobsAreIsolated ==
  [][\A j \in Jobs : JobPart(store', j) # JobPart(store, j) =>
       \E p \in Ingesters : At(p, "trials") /\ Job(p) = j /\ todo = {} /\ pc'[p] = "next"]_vars

\* The trial directories of content with the same system as d's.
SameSystem(content, d) ==
  {e \in Present(content) : content.trials[e].system = content.trials[d].system}

\* An ingestion of content leaves each system it names with the configuration of
\* its last trial directory, and the others with theirs.
Configures(content, s, t) ==
  /\ \A d \in Present(content) : (\A e \in SameSystem(content, d) : e <= d) =>
       SystemConfiguration(t, content.trials[d].system) = content.trials[d].setup
  /\ \A y \in SystemKeys : (\A d \in Present(content) : content.trials[d].system # y) =>
       SystemConfiguration(t, y) = SystemConfiguration(s, y)

\* No row of setups is lost or changed, and one that is added has a NULL in it.
OnlyNullsAdded(s, t) ==
  /\ DOMAIN s.setups \subseteq DOMAIN t.setups
  /\ \A i \in DOMAIN t.setups :
       IF i \in DOMAIN s.setups THEN t.setups[i] = s.setups[i] ELSE t.setups[i].setup = NULL

\* Ingesting again a directory that has not changed: its rows stay as they are,
\* whatever was ingested in between and by whom, and no second row is made for a
\* model or an agent, unless its provider or its version is NULL.  The
\* configuration of its systems, which jobs share, becomes that of this job.
\* (_upsert, _upsert_system, _ingest_trial)
ReingestIsIdempotent ==
  [][\A p \in Ingesters :
       (writer = p /\ store' # store /\ store.runs[Job(p)] = dirs[Job(p)])
         => /\ JobPart(store', Job(p)) = JobPart(store, Job(p))
            /\ Configures(dirs[Job(p)], store, store')
            /\ OnlyNullsAdded(store, store')]_vars

\* A job that can be ingested, and the entries it then has in the database: of its
\* trial directories with one name, the last.
Ingestible(c) ==
  /\ c.readable
  /\ Present(c) # {}
  /\ \A d \in Present(c) : c.trials[d].state = "valid"

Entry(s, k) ==
  [row |-> s.trials[k], dimensionScores |-> s.scores[k], failedChecks |-> s.checks[k]]

Entries(j, c) ==
  [k \in {TrialKey(j, c.trials[d]) : d \in Present(c)} |->
     LET d == LastDir(c, k[2])
     IN [row |-> TrialRow(c.trials[d], d), dimensionScores |-> c.trials[d].rewards,
         failedChecks |-> c.trials[d].failed]]

\* What readers find in the database is one table of trials, in which a job is
\* recorded as a whole and in one step, if every one of its files can be read,
\* and from which nothing is ever removed.  (ingest_jobs)
Ledger == INSTANCE TrialLedger WITH
  Keys  <- TrialKeys,
  Parts <- {Entries(j, c) : j \in Jobs, c \in {c \in JobContents : Ingestible(c)}},
  table <- [k \in TrialKeys |-> IF store.trials[k] = NULL THEN NULL ELSE Entry(store, k)]

RefinesLedger == Ledger!LedgerSpec

\* A report for trial keys shows those trials and counts as many attempts,
\* whatever else is in the database.  The two come from different SELECTs: none
\* of the trials that were counted, nor its run, is gone when they are listed,
\* whatever is committed in between.
\* (compute_aggregate_for_trial_keys, _trial_rows_for_keys)
ScopedReportIsExact ==
  \A r \in Readers :
    (rpc[r] = "written" /\ scope[r].keys # {}) =>
      /\ DOMAIN report[r].attempts = scope[r].keys
      /\ figures[r].attempts = Cardinality(scope[r].keys)

\* Unless a commit came in between, the figures of a report are those of the
\* attempts it lists: the same trials, scored, passed, failed and raised.
\* (_aggregate_from_trial_ids, build_private_report)
FiguresMatchAttempts ==
  \A r \in Readers :
    (rpc[r] = "written" /\ r \notin mixed) =>
      LET shown == report[r].attempts
          with(v) == Cardinality({k \in DOMAIN shown : shown[k].row.strictPass = v})
      IN /\ figures[r].attempts = Cardinality(DOMAIN shown)
         /\ figures[r].passes = with(1)
         /\ figures[r].failures = with(0)
         /\ figures[r].exceptions =
              Cardinality({k \in DOMAIN shown : shown[k].row.isInfraException})
         /\ \A c \in Checks : figures[r].failedChecks[c] =
              Cardinality({k \in DOMAIN shown : c \in shown[k].failedChecks})

\* orchestrator.py:413-416 of regenerate_reports: "the membership is stable once
\* recorded, so repeated calls reproduce the same figures (only the
\* ``generated_at`` timestamp changes)".  Two reports of the same trials, whose
\* rows are the same, are the same.
RegeneratedReportIsSame ==
  \A r, q \in Readers :
    ( /\ rpc[r] = "written" /\ rpc[q] = "written"
      /\ scope[r] = scope[q] /\ scope[r].keys # {}
      /\ report[r].attempts = report[q].attempts )
    => report[r] = report[q]

=============================================================================
