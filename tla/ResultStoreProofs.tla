------------------------- MODULE ResultStoreProofs -------------------------
(***************************************************************************)
(* Proofs about ResultStore, for any number of processes that ingest, any  *)
(* job directories and any number of readers.                              *)
(*                                                                         *)
(* What is committed is whole because the working copy becomes whole step  *)
(* by step: IInv says, for each table, up to which trial directory it is.  *)
(***************************************************************************)
EXTENDS ResultStore, DataLemmas

NameOf(c, d) == c.trials[d].name

\* What the tables say of each trial directory of content c.
Rows(c)   == [d \in Present(c) |-> TrialRow(c.trials[d], d)]
Scores(c) == [d \in Present(c) |-> c.trials[d].rewards]
Failed(c) == [d \in Present(c) |-> c.trials[d].failed]

\* In table there is, for each name in done, the value of the last directory.
Recorded(table, values, j, c, done) ==
  \A d \in done :
    (\A e \in done : NameOf(c, e) = NameOf(c, d) => e <= d)
      => table[<<j, NameOf(c, d)>>] = values[d]

ArtifactsRecorded(s, j, c, done) ==
  \A d \in done : s.artifacts[<<j, d>>] = <<j, NameOf(c, d)>>

Whole(s, j, c) ==
  /\ Recorded(s.trials, Rows(c), j, c, Present(c))
  /\ Recorded(s.scores, Scores(c), j, c, Present(c))
  /\ Recorded(s.checks, Failed(c), j, c, Present(c))
  /\ ArtifactsRecorded(s, j, c, Present(c))

StoreInv == \A j \in Jobs : store.runs[j] # NULL => Whole(store, j, store.runs[j])

LockInv ==
  /\ \A p \in Ingesters : pc[p] \in InTransaction <=> writer = p
  /\ \A p \in Ingesters : pc[p] \in {"opened"} \cup InTransaction => queue[p] # << >>

Content(p) == dirs[Job(p)]

\* The trial keys an ingestion of c writes.
KeysOf(j, c) == {<<j, NameOf(c, d)>> : d \in Present(c)}

TodoInv(p) ==
  /\ todo \subseteq Present(Content(p))
  /\ \A d \in Present(Content(p)) \ todo, e \in todo : d < e
  /\ pc[p] # "trials" => todo # {}

Done(p) == Present(Content(p)) \ todo

\* The same, with the directory at hand if p is at one of the steps here.
DoneAt(p, here) == IF pc[p] \in here THEN Done(p) \cup {First(todo)} ELSE Done(p)

\* The working copy is the store, but for what the writer has written.
OthersKept(p) ==
  /\ work.runs = [store.runs EXCEPT ![Job(p)] = Content(p)]
  /\ Stored(store) \subseteq Stored(work)
  /\ \A k \in TrialKeys \ KeysOf(Job(p), Content(p)) :
       /\ work.trials[k] = store.trials[k]
       /\ work.scores[k] = store.scores[k]
       /\ work.checks[k] = store.checks[k]
  /\ \A j \in Jobs, d \in TrialDirs :
       (j = Job(p) => d \notin Present(Content(p))) => work.artifacts[<<j, d>>] = store.artifacts[<<j, d>>]

Progress(p) ==
  /\ Recorded(work.trials, Rows(Content(p)), Job(p), Content(p), DoneAt(p, {"scores", "checks"}))
  /\ Recorded(work.scores, Scores(Content(p)), Job(p), Content(p), DoneAt(p, {"checks"}))
  /\ Recorded(work.checks, Failed(Content(p)), Job(p), Content(p), Done(p))
  /\ ArtifactsRecorded(work, Job(p), Content(p), Done(p))

WriterInv == writer # NoOne => TodoInv(writer) /\ OthersKept(writer) /\ Progress(writer)

IInv == TypeOK /\ LockInv /\ StoreInv /\ WriterInv /\ CommittedTrialsStay

-----------------------------------------------------------------------------
(* First and LastDir.                                                      *)

LEMMA FirstIsLeast ==
  ASSUME NEW S \in SUBSET TrialDirs, S # {}
  PROVE  First(S) \in S /\ \A e \in S : First(S) <= e
<1>1. \E d \in S : \A e \in S : d <= e
  BY Least DEF TrialDirs
<1> QED
  BY <1>1 DEF First

LEMMA LastDirFacts ==
  ASSUME NEW c \in JobFile, NEW x \in Present(c)
  PROVE  LET d == LastDir(c, NameOf(c, x))
         IN /\ d \in Present(c)
            /\ NameOf(c, d) = NameOf(c, x)
            /\ \A e \in Present(c) : NameOf(c, e) = NameOf(c, x) => e <= d
<1> DEFINE S == {d \in Present(c) : NameOf(c, d) = NameOf(c, x)}
<1>1. S \in SUBSET (1..DirCount) /\ S # {} /\ DirCount \in Nat
  BY ResultStoreAssumption DEF Present, TrialDirs
<1>2. PICK d \in S : \A e \in S : e <= d
  BY <1>1, Greatest
<1> QED
  BY <1>2 DEF LastDir, NameOf

-----------------------------------------------------------------------------
(* The operators on the store.                                             *)

LEMMA FileType ==
  ASSUME NEW c \in JobContents, NEW d \in Present(c)
  PROVE  c.trials[d] \in TrialFile /\ d \in TrialDirs /\ NameOf(c, d) \in TrialNames
<1>1. c \in JobFile
  BY ResultStoreAssumption
<1>2. c.trials \in [TrialDirs -> TrialFile \cup {NULL}]
  BY <1>1 DEF JobFile
<1>3. c.trials[d] \in TrialFile /\ d \in TrialDirs
  BY <1>2 DEF Present
<1> QED
  BY <1>3 DEF TrialFile, NameOf

LEMMA RowType ==
  ASSUME NEW f \in TrialFile, NEW d \in TrialDirs
  PROVE  TrialRow(f, d) \in Row /\ TrialRow(f, d) # NULL
<1>1. f.rewards[StrictPassKey] \in Score \cup {NULL}
  BY ResultStoreAssumption DEF TrialFile, Rewards
<1>2. TrialRow(f, d) \in Row
  BY <1>1 DEF TrialRow, Row, TrialFile
<1> QED
  BY <1>2, ResultStoreAssumption

LEMMA SystemUpsertedFacts ==
  ASSUME NEW s \in Store, NEW f \in TrialFile
  PROVE  LET t == SystemUpserted(s, f)
         IN /\ t \in Store
            /\ t.runs = s.runs /\ t.trials = s.trials /\ t.scores = s.scores
            /\ t.checks = s.checks /\ t.artifacts = s.artifacts
<1> DEFINE i == CHOOSE i \in SameSetup(s, f) : TRUE
           x == [system |-> f.system, setup |-> f.setup]
<1>1. x \in [system : SystemKeys, setup : Setups \cup {NULL}]
  BY DEF TrialFile
<1>2. f.system \in SystemKeys
  BY DEF TrialFile
<1>3. s.setups \in Seq([system : SystemKeys, setup : Setups \cup {NULL}])
  BY DEF Store
<1>4. CASE SameSetup(s, f) # {}
  <2>1. i \in Nat
    BY <1>3, <1>4 DEF SameSetup
  <2>2. SystemUpserted(s, f) = [s EXCEPT !.systems[f.system] = i]
    BY <1>4, Zenon DEF SystemUpserted
  <2> DEFINE y == f.system
  <2> HIDE DEF i, y
  <2>3. y \in SystemKeys
    BY <1>2 DEF y
  <2>4. [s EXCEPT !.systems[y] = i] \in Store
    BY ONLY <2>1, <2>3, s \in Store DEF Store
  <2>5. LET t == [s EXCEPT !.systems[y] = i]
        IN t.runs = s.runs /\ t.trials = s.trials /\ t.scores = s.scores
           /\ t.checks = s.checks /\ t.artifacts = s.artifacts
    BY ONLY s \in Store DEF Store
  <2> QED
    BY ONLY <2>2, <2>4, <2>5 DEF y
<1>5. CASE SameSetup(s, f) = {}
  <2>1. Append(s.setups, x) \in Seq([system : SystemKeys, setup : Setups \cup {NULL}])
    BY <1>1, <1>3
  <2>2. Len(s.setups) + 1 \in Nat
    BY <1>3
  <2>3. SystemUpserted(s, f) =
          [s EXCEPT !.setups = Append(s.setups, x), !.systems[f.system] = Len(s.setups) + 1]
    BY <1>5 DEF SystemUpserted, Store
  <2> DEFINE a == Append(s.setups, x)
             n == Len(s.setups) + 1
             y == f.system
  <2> HIDE DEF x, a, n, y
  <2>4. [s EXCEPT !.setups = a, !.systems[y] = n] \in Store
    BY <1>2, <2>1, <2>2 DEF Store, a, n, y
  <2>5. LET t == [s EXCEPT !.setups = a, !.systems[y] = n]
        IN /\ t.runs = s.runs /\ t.trials = s.trials /\ t.scores = s.scores
           /\ t.checks = s.checks /\ t.artifacts = s.artifacts
    BY DEF Store
  <2> QED
    BY <2>3, <2>4, <2>5 DEF a, n, y
<1> QED
  BY <1>4, <1>5

LEMMA TrialUpsertedFacts ==
  ASSUME NEW s \in Store, NEW j \in Jobs, NEW d \in TrialDirs, NEW f \in TrialFile
  PROVE  LET t == TrialUpserted(s, j, d, f)
         IN /\ t \in Store
            /\ t.trials = [s.trials EXCEPT ![<<j, f.name>>] = TrialRow(f, d)]
            /\ t.runs = s.runs /\ t.scores = s.scores
            /\ t.checks = s.checks /\ t.artifacts = s.artifacts
<1> DEFINE u == SystemUpserted(s, f)
           row == TrialRow(f, d)
           k == <<j, f.name>>
<1>1. /\ u \in Store
      /\ u.runs = s.runs /\ u.trials = s.trials /\ u.scores = s.scores
      /\ u.checks = s.checks /\ u.artifacts = s.artifacts
  BY SystemUpsertedFacts
<1>2. row \in Row
  BY RowType
<1>3. k \in TrialKeys
  BY DEF TrialKeys, TrialFile
<1>4. TrialUpserted(s, j, d, f) = [u EXCEPT !.trials[k] = row]
  BY Zenon DEF TrialUpserted, TrialKey
<1> HIDE DEF u, row, k
<1>5. /\ [u EXCEPT !.trials[k] = row] \in Store
      /\ [u EXCEPT !.trials[k] = row].trials = [s.trials EXCEPT ![k] = row]
  BY <1>1, <1>2, <1>3 DEF Store
<1>6. LET t == [u EXCEPT !.trials[k] = row]
      IN t.runs = s.runs /\ t.scores = s.scores /\ t.checks = s.checks /\ t.artifacts = s.artifacts
  BY <1>1 DEF Store
<1> QED
  BY <1>4, <1>5, <1>6 DEF k, row

LEMMA ScoresReplacedFacts ==
  ASSUME NEW s \in Store, NEW k \in TrialKeys, NEW f \in TrialFile
  PROVE  LET t == ScoresReplaced(s, k, f)
         IN /\ t \in Store
            /\ t.scores = [s.scores EXCEPT ![k] = f.rewards]
            /\ t.runs = s.runs /\ t.trials = s.trials
            /\ t.checks = s.checks /\ t.artifacts = s.artifacts
<1>1. f.rewards \in Rewards
  BY DEF TrialFile
<1> QED
  BY <1>1 DEF Store, ScoresReplaced

LEMMA ChecksReplacedFacts ==
  ASSUME NEW s \in Store, NEW j \in Jobs, NEW d \in TrialDirs, NEW k \in TrialKeys,
         NEW f \in TrialFile
  PROVE  LET t == ArtifactRecorded(ChecksReplaced(s, k, f), j, d, k)
         IN /\ t \in Store
            /\ t.checks = [s.checks EXCEPT ![k] = f.failed]
            /\ t.artifacts = [s.artifacts EXCEPT ![<<j, d>>] = k]
            /\ t.runs = s.runs /\ t.trials = s.trials /\ t.scores = s.scores
<1> DEFINE u == ChecksReplaced(s, k, f)
<1>1. f.failed \in SUBSET Checks
  BY DEF TrialFile
<1>2. /\ u \in Store
      /\ u.checks = [s.checks EXCEPT ![k] = f.failed]
      /\ u.runs = s.runs /\ u.trials = s.trials /\ u.scores = s.scores
      /\ u.artifacts = s.artifacts
  BY <1>1 DEF Store, ChecksReplaced
<1>3. ArtifactRecorded(u, j, d, k) = [u EXCEPT !.artifacts[<<j, d>>] = k]
  BY Zenon DEF ArtifactRecorded
<1> HIDE DEF u
<1>4. LET t == [u EXCEPT !.artifacts[<<j, d>>] = k]
      IN /\ t \in Store
         /\ t.artifacts = [s.artifacts EXCEPT ![<<j, d>>] = k]
         /\ t.checks = u.checks
         /\ t.runs = s.runs /\ t.trials = s.trials /\ t.scores = s.scores
  BY <1>2 DEF Store
<1> QED
  BY <1>2, <1>3, <1>4 DEF u

LEMMA RunUpsertedFacts ==
  ASSUME NEW s \in Store, NEW j \in Jobs, NEW c \in JobContents
  PROVE  LET t == RunUpserted(s, j, c)
         IN /\ t \in Store
            /\ t.runs = [s.runs EXCEPT ![j] = c]
            /\ t.trials = s.trials /\ t.scores = s.scores
            /\ t.checks = s.checks /\ t.artifacts = s.artifacts
BY DEF Store, RunUpserted

LEMMA EmptyStoreType == EmptyStore \in Store
<1>1. NoScores \in Rewards
  BY DEF NoScores, Rewards
<1>2. << >> \in Seq([system : SystemKeys, setup : Setups \cup {NULL}])
  OBVIOUS
<1> QED
  BY <1>1, <1>2 DEF EmptyStore, Store

\* The next directory of content c is recorded by one assignment to the table.
LEMMA RecordedExtends ==
  ASSUME NEW j \in Jobs, NEW c \in JobContents, NEW done \in SUBSET Present(c),
         NEW d \in Present(c), \A e \in done : e < d,
         NEW table, NEW values, DOMAIN table = TrialKeys,
         Recorded(table, values, j, c, done)
  PROVE  Recorded([table EXCEPT ![<<j, NameOf(c, d)>>] = values[d]], values, j, c, done \cup {d})
<1> DEFINE t == [table EXCEPT ![<<j, NameOf(c, d)>>] = values[d]]
<1> SUFFICES ASSUME NEW x \in done \cup {d},
                    \A e \in done \cup {d} : NameOf(c, e) = NameOf(c, x) => e <= x
             PROVE  t[<<j, NameOf(c, x)>>] = values[x]
  BY Zenon DEF Recorded
<1>1. <<j, NameOf(c, d)>> \in TrialKeys
  BY FileType DEF TrialKeys
<1>2. CASE x = d
  BY <1>1, <1>2
<1>3. CASE x # d
  <2>1. x \in done /\ x < d
    BY <1>3
  <2>2. x \in Nat /\ d \in Nat
    BY FileType, <2>1 DEF TrialDirs
  <2>3. NameOf(c, x) # NameOf(c, d)
    BY <2>1, <2>2
  <2>4. table[<<j, NameOf(c, x)>>] = values[x]
    BY <2>1, Zenon DEF Recorded
  <2> QED
    BY <1>1, <2>3, <2>4
<1> QED
  BY <1>2, <1>3

-----------------------------------------------------------------------------
(* What a step can count on.                                               *)

LEMMA JobFacts ==
  ASSUME TypeOK, LockInv, NEW p \in Ingesters, pc[p] \in {"opened"} \cup InTransaction
  PROVE  /\ queue[p] \in Seq(Jobs) /\ queue[p] # << >>
         /\ Tail(queue[p]) \in Seq(Jobs)
         /\ Job(p) \in Jobs
         /\ Content(p) \in JobContents
         /\ Present(Content(p)) \in SUBSET TrialDirs
<1>1. queue[p] \in Seq(Jobs) /\ queue[p] # << >>
  BY DEF TypeOK, LockInv
<1>2. Job(p) \in Jobs /\ Tail(queue[p]) \in Seq(Jobs)
  BY <1>1 DEF Job
<1>3. Content(p) \in JobContents
  BY <1>2 DEF Content, TypeOK
<1> QED
  BY <1>1, <1>2, <1>3 DEF Present

LEMMA FileFacts ==
  ASSUME TypeOK, LockInv, WriterInv, NEW p \in Ingesters, pc[p] \in InTransaction, todo # {}
  PROVE  LET d == First(todo)
         IN /\ writer = p
            /\ d \in todo
            /\ d \in Present(Content(p)) /\ d \in TrialDirs
            /\ \A e \in Done(p) : e < d
            /\ File(p) = Content(p).trials[d]
            /\ File(p) \in TrialFile
            /\ Key(p) = <<Job(p), NameOf(Content(p), d)>>
            /\ Key(p) \in TrialKeys
            /\ Key(p) \in KeysOf(Job(p), Content(p))
<1> DEFINE d == First(todo)
<1>1. writer = p
  BY DEF LockInv
<1>2. p # NoOne
  BY ResultStoreAssumption
<1>3. TodoInv(p)
  BY <1>1, <1>2 DEF WriterInv
<1>4. d \in todo
  BY FirstIsLeast DEF TypeOK
<1>5. d \in Present(Content(p)) /\ \A e \in Done(p) : e < d
  BY <1>3, <1>4 DEF TodoInv, Done
<1>6. Job(p) \in Jobs /\ Content(p) \in JobContents
  BY JobFacts
<1>7. File(p) = Content(p).trials[d]
  BY DEF File, Content
<1>8. File(p) \in TrialFile /\ d \in TrialDirs /\ NameOf(Content(p), d) \in TrialNames
  BY <1>5, <1>6, <1>7, FileType
<1>9. Key(p) = <<Job(p), NameOf(Content(p), d)>>
  BY <1>7 DEF Key, TrialKey, NameOf
<1> HIDE DEF d
<1>10. Key(p) \in TrialKeys /\ Key(p) \in KeysOf(Job(p), Content(p))
  BY <1>5, <1>6, <1>8, <1>9 DEF TrialKeys, KeysOf
<1> QED
  BY <1>1, <1>4, <1>5, <1>7, <1>8, <1>9, <1>10 DEF d

\* How a step of a transaction that is not its end leaves the working copy.
LEMMA WorkType ==
  ASSUME TypeOK, LockInv, WriterInv, NEW p \in Ingesters,
         UpsertTrial(p) \/ ReplaceScores(p) \/ ReplaceChecks(p)
  PROVE  work' \in Store
<1>1. pc[p] \in InTransaction
  BY DEF UpsertTrial, ReplaceScores, ReplaceChecks, Write, At, InTransaction
<1>2. writer = p /\ p # NoOne
  BY <1>1, ResultStoreAssumption DEF LockInv
<1>3. todo # {}
  BY <1>2 DEF UpsertTrial, ReplaceScores, ReplaceChecks, Write, At, WriterInv, TodoInv
<1>4. /\ Job(p) \in Jobs /\ First(todo) \in TrialDirs
      /\ File(p) \in TrialFile /\ Key(p) \in TrialKeys
  BY <1>1, <1>3, FileFacts, JobFacts
<1>5. work \in Store
  BY DEF TypeOK
<1>6. CASE UpsertTrial(p)
  <2>1. work' = TrialUpserted(work, Job(p), First(todo), File(p))
    BY <1>6 DEF UpsertTrial, Write
  <2> QED
    BY <1>4, <1>5, <2>1, TrialUpsertedFacts
<1>7. CASE ReplaceScores(p)
  <2>1. work' = ScoresReplaced(work, Key(p), File(p))
    BY <1>7 DEF ReplaceScores, Write
  <2> QED
    BY <1>4, <1>5, <2>1, ScoresReplacedFacts
<1>8. CASE ReplaceChecks(p)
  <2>1. work' = ArtifactRecorded(ChecksReplaced(work, Key(p), File(p)), Job(p), First(todo), Key(p))
    BY <1>8 DEF ReplaceChecks, Write
  <2> QED
    BY <1>4, <1>5, <2>1, ChecksReplacedFacts
<1> QED
  BY <1>6, <1>7, <1>8

-----------------------------------------------------------------------------
(* Types.                                                                  *)

LEMMA EndJobType ==
  ASSUME TypeOK, NEW p \in Ingesters, NEW there \in {"idle", "next"}, NEW left \in Seq(Jobs),
         EndJob(p, there, left),
         store' \in Store, committed' \subseteq TrialKeys, mixed' \subseteq Readers
  PROVE  TypeOK'
<1>1. work' \in Store
  BY EmptyStoreType DEF EndJob, TypeOK
<1>2. writer' \in Ingesters \cup {NoOne} /\ todo' \in SUBSET TrialDirs
  BY DEF EndJob, TypeOK
<1>3. pc' \in [Ingesters -> {"idle", "next", "opened"} \cup InTransaction]
  BY DEF EndJob, Step, TypeOK
<1>4. queue' \in [Ingesters -> Seq(Jobs)]
  BY DEF EndJob, TypeOK
<1> QED
  BY <1>1, <1>2, <1>3, <1>4 DEF EndJob, reading, TypeOK

LEMMA IngestType ==
  ASSUME TypeOK, LockInv, WriterInv, NEW p \in Ingesters, Ingest(p)
  PROVE  TypeOK'
<1> USE DEF At
<1>1. CASE Call(p)
  <2>1. PICK jobs \in SeqOf(Jobs, MaxList) \ {<< >>} :
          /\ taken + Len(jobs) <= MaxIngests
          /\ queue' = [queue EXCEPT ![p] = jobs]
          /\ taken' = taken + Len(jobs)
    BY <1>1 DEF Call
  <2>2. jobs \in Seq(Jobs)
    BY DEF SeqOf
  <2>3. queue' \in [Ingesters -> Seq(Jobs)]
    BY <2>1, <2>2 DEF TypeOK
  <2>4. taken' \in 0..MaxIngests
    BY <2>1, <2>2, ResultStoreAssumption DEF TypeOK
  <2> QED
    BY <1>1, <2>3, <2>4 DEF Call, Step, reading, TypeOK
<1>2. CASE OpenJob(p)
  BY <1>2 DEF OpenJob, Step, reading, TypeOK
<1>3. CASE JobUnreadable(p)
  <2>1. Tail(queue[p]) \in Seq(Jobs)
    BY <1>3 DEF JobUnreadable, TypeOK
  <2> QED
    BY <1>3, <2>1, EndJobType DEF JobUnreadable, RollBack, TypeOK
<1>4. CASE UpsertRun(p)
  <2>1. Job(p) \in Jobs /\ dirs[Job(p)] \in JobContents
    BY <1>4, JobFacts DEF UpsertRun, Content
  <2>2. work' \in Store
    BY <1>4, <2>1, RunUpsertedFacts DEF UpsertRun, TypeOK
  <2>3. todo' \in SUBSET TrialDirs
    BY <1>4 DEF UpsertRun, Present
  <2> QED
    BY <1>4, <2>2, <2>3 DEF UpsertRun, Step, InTransaction, reading, TypeOK
<1>5. ASSUME Abandon(p) PROVE TypeOK'
  <2>1. << >> \in Seq(Jobs)
    OBVIOUS
  <2> QED
    BY <1>5, <2>1, EndJobType DEF Abandon, TypeOK
<1>6. CASE NoTrials(p) \/ TrialUnparsable(p)
  <2>1. Tail(queue[p]) \in Seq(Jobs)
    BY <1>6, JobFacts DEF NoTrials, TrialUnparsable, InTransaction
  <2> QED
    BY <1>6, <2>1, EndJobType DEF NoTrials, TrialUnparsable, RollBack, TypeOK
<1>7. CASE UpsertTrial(p) \/ ReplaceScores(p) \/ ReplaceChecks(p)
  <2>1. work' \in Store
    BY <1>7, WorkType
  <2>2. todo' \in SUBSET TrialDirs
    BY <1>7 DEF UpsertTrial, ReplaceScores, ReplaceChecks, TypeOK
  <2>3. pc' \in [Ingesters -> {"idle", "next", "opened"} \cup InTransaction]
    BY <1>7 DEF UpsertTrial, ReplaceScores, ReplaceChecks, Write, Step, InTransaction, TypeOK
  <2>4. UNCHANGED <<dirs, store, writer, queue, reading, taken, rewrites, committed, mixed>>
    BY <1>7 DEF UpsertTrial, ReplaceScores, ReplaceChecks, Write
  <2> QED
    BY <2>1, <2>2, <2>3, <2>4 DEF reading, TypeOK
<1>8. CASE Release(p)
  <2>1. /\ Job(p) \in Jobs /\ Content(p) \in JobContents /\ Tail(queue[p]) \in Seq(Jobs)
    BY <1>8, JobFacts DEF Release, InTransaction
  <2>2. KeysOf(Job(p), Content(p)) \subseteq TrialKeys
    BY <2>1, FileType DEF KeysOf, TrialKeys
  <2>3. committed' = committed \cup KeysOf(Job(p), Content(p))
    BY <1>8 DEF Release, KeysOf, TrialKey, NameOf, Content
  <2>4. committed' \subseteq TrialKeys /\ mixed' \subseteq Readers /\ store' \in Store
    BY <1>8, <2>2, <2>3 DEF Release, TypeOK
  <2> QED
    BY <1>8, <2>1, <2>4, EndJobType DEF Release
<1>9. CASE Return(p)
  BY <1>9 DEF Return, Step, reading, TypeOK
<1> QED
  BY <1>1, <1>2, <1>3, <1>4, <1>5, <1>6, <1>7, <1>8, <1>9
  DEF Ingest, Locked, BadReward, CommitLocked, Crash

LEMMA ReportType ==
  ASSUME TypeOK, NEW r \in Readers, Report(r)
  PROVE  TypeOK'
<1>1. CASE Ask(r)
  BY <1>1 DEF Ask, Read, ingesting, TypeOK
<1>2. CASE Refuse(r)
  BY <1>2 DEF Refuse, Read, ingesting, TypeOK
<1>3. CASE FindTrials(r)
  <2>1. Found(r) \in SUBSET TrialKeys
    BY <1>3 DEF FindTrials, Refused, Stored
  <2> HIDE DEF Found
  <2> QED
    BY <1>3, <2>1 DEF FindTrials, Read, ingesting, TypeOK
<1>4. CASE ComputeAggregate(r) \/ ListAttempts(r) \/ WriteReport(r)
  BY <1>4 DEF ComputeAggregate, ListAttempts, WriteReport, Read, ingesting, TypeOK
<1> QED
  BY <1>1, <1>2, <1>3, <1>4 DEF Report

LEMMA TypeStep ==
  ASSUME TypeOK, LockInv, WriterInv, [Next]_vars
  PROVE  TypeOK'
<1>1. ASSUME NEW j \in Jobs, Rewrite(j) PROVE TypeOK'
  BY <1>1, ResultStoreAssumption DEF Rewrite, ingesting, reading, TypeOK
<1>2. CASE UNCHANGED vars
  BY <1>2 DEF vars, ingesting, reading, TypeOK
<1> QED
  BY <1>1, <1>2, IngestType, ReportType DEF Next

-----------------------------------------------------------------------------
(* The write lock.                                                         *)

LEMMA EndJobLock ==
  ASSUME TypeOK, LockInv, NEW p \in Ingesters, NEW there \in {"idle", "next"}, NEW left,
         EndJob(p, there, left)
  PROVE  LockInv'
<1>1. /\ \A q \in Ingesters \ {p} : pc'[q] = pc[q] /\ queue'[q] = queue[q]
      /\ pc'[p] = there
      /\ writer' = IF writer = p THEN NoOne ELSE writer
  BY DEF EndJob, Step, TypeOK
<1> QED
  BY <1>1, ResultStoreAssumption DEF LockInv, InTransaction

LEMMA LockStep ==
  ASSUME TypeOK, LockInv, [Next]_vars
  PROVE  LockInv'
<1>1. ASSUME NEW p \in Ingesters, Ingest(p) PROVE LockInv'
  <2>1. CASE Call(p) \/ OpenJob(p) \/ Return(p)
    BY <1>1, <2>1 DEF Call, OpenJob, Return, At, Step, LockInv, InTransaction, TypeOK
  <2>2. CASE UpsertRun(p)
    BY <1>1, <2>2, ResultStoreAssumption
    DEF UpsertRun, At, Step, LockInv, InTransaction, TypeOK
  <2>3. CASE UpsertTrial(p) \/ ReplaceScores(p) \/ ReplaceChecks(p)
    <3>1. /\ pc[p] \in InTransaction
          /\ \E there \in InTransaction : pc' = [pc EXCEPT ![p] = there]
          /\ UNCHANGED <<writer, queue>>
      BY <2>3 DEF UpsertTrial, ReplaceScores, ReplaceChecks, Write, At, Step, InTransaction
    <3> QED
      BY <3>1 DEF LockInv, TypeOK
  <2>4. CASE \E there \in {"idle", "next"}, left \in {<< >>, Tail(queue[p])} : EndJob(p, there, left)
    BY <2>4, EndJobLock
  <2> QED
    BY <1>1, <2>1, <2>2, <2>3, <2>4
    DEF Ingest, JobUnreadable, RollBack, Locked, Abandon, NoTrials, TrialUnparsable, BadReward,
        Release, CommitLocked, Crash
<1>2. ASSUME NEW r \in Readers, Report(r) PROVE LockInv'
  BY <1>2 DEF Report, Ask, Refuse, FindTrials, ComputeAggregate, ListAttempts, WriteReport,
              Read, ingesting, LockInv
<1>3. ASSUME NEW j \in Jobs, Rewrite(j) PROVE LockInv'
  BY <1>3 DEF Rewrite, ingesting, LockInv
<1>4. CASE UNCHANGED vars
  BY <1>4 DEF vars, ingesting, LockInv
<1> QED
  BY <1>1, <1>2, <1>3, <1>4 DEF Next

-----------------------------------------------------------------------------
(* The working copy.                                                       *)

LEMMA WriterKept ==
  ASSUME WriterInv, UNCHANGED <<writer, todo, work, store>>,
         writer # NoOne =>
           /\ dirs'[Job(writer)] = dirs[Job(writer)]
           /\ queue'[writer] = queue[writer]
           /\ pc'[writer] = pc[writer]
  PROVE  WriterInv'
<1> SUFFICES ASSUME writer # NoOne
             PROVE  (TodoInv(writer) /\ OthersKept(writer) /\ Progress(writer))'
  BY DEF WriterInv
<1>1. Job(writer)' = Job(writer)
  BY DEF Job
<1>2. Content(writer)' = Content(writer)
  BY <1>1 DEF Content
<1>3. TodoInv(writer) /\ OthersKept(writer) /\ Progress(writer)
  BY DEF WriterInv
<1>4. TodoInv(writer)'
  BY <1>2, <1>3 DEF TodoInv
<1>5. OthersKept(writer)'
  BY <1>1, <1>2, <1>3 DEF OthersKept
<1>6. /\ Done(writer)' = Done(writer)
      /\ DoneAt(writer, {"scores", "checks"})' = DoneAt(writer, {"scores", "checks"})
      /\ DoneAt(writer, {"checks"})' = DoneAt(writer, {"checks"})
  BY <1>2 DEF Done, DoneAt
<1>7. Progress(writer)'
  BY <1>1, <1>2, <1>3, <1>6 DEF Progress
<1> QED
  BY <1>4, <1>5, <1>7

LEMMA WriterStarts ==
  ASSUME TypeOK, LockInv, NEW p \in Ingesters, UpsertRun(p)
  PROVE  WriterInv'
<1>1. /\ Job(p) \in Jobs /\ Content(p) \in JobContents
      /\ Present(Content(p)) \in SUBSET TrialDirs
  BY JobFacts DEF UpsertRun, At
<1>2. /\ writer' = p
      /\ work' = RunUpserted(store, Job(p), Content(p))
      /\ todo' = Present(Content(p))
      /\ pc'[p] = "trials"
      /\ UNCHANGED <<dirs, store, queue>>
  BY DEF UpsertRun, Step, Content, TypeOK
<1>3. Job(p)' = Job(p) /\ Content(p)' = Content(p)
  BY <1>2 DEF Job, Content
<1>4. TodoInv(p)'
  BY <1>2, <1>3 DEF TodoInv
<1>5. OthersKept(p)'
  <2>1. /\ work'.runs = [store.runs EXCEPT ![Job(p)] = Content(p)]
        /\ work'.trials = store.trials /\ work'.scores = store.scores
        /\ work'.checks = store.checks /\ work'.artifacts = store.artifacts
    <3>1. store \in Store
      BY DEF TypeOK
    <3> QED
      BY ONLY <1>1, <1>2, <3>1, RunUpsertedFacts
  <2> QED
    BY <1>2, <1>3, <2>1 DEF OthersKept, Stored
<1>6. Done(p)' = {}
  BY <1>2, <1>3 DEF Done
<1>7. DoneAt(p, {"scores", "checks"})' = {} /\ DoneAt(p, {"checks"})' = {}
  BY <1>2, <1>6 DEF DoneAt
<1>8. Progress(p)'
  BY <1>6, <1>7 DEF Progress, Recorded, ArtifactsRecorded
<1> QED
  BY <1>2, <1>4, <1>5, <1>8 DEF WriterInv

\* What the three steps of one trial directory have in common.
LEMMA WriterAtWork ==
  ASSUME TypeOK, LockInv, WriterInv, NEW p \in Ingesters,
         NEW here \in InTransaction, NEW s, NEW there \in InTransaction,
         Write(p, here, s, there),
         here = "trials" => todo # {}
  PROVE  /\ pc[p] \in InTransaction /\ todo # {}
         /\ writer = p /\ p # NoOne /\ writer' = p
         /\ TodoInv(p) /\ OthersKept(p) /\ Progress(p)
         /\ Job(p) \in Jobs /\ Content(p) \in JobContents /\ work \in Store
         /\ Done(p) \in SUBSET Present(Content(p))
         /\ Job(p)' = Job(p) /\ Content(p)' = Content(p)
         /\ pc[p] = here /\ pc'[p] = there
         /\ work' = s /\ store' = store
<1>1. /\ pc[p] = here /\ pc'[p] = there /\ work' = s
      /\ UNCHANGED <<dirs, store, writer, queue>>
  BY DEF Write, At, Step, TypeOK
<1>2. writer = p /\ p # NoOne
  BY <1>1, ResultStoreAssumption DEF LockInv
<1>3. TodoInv(p) /\ OthersKept(p) /\ Progress(p)
  BY <1>2 DEF WriterInv
<1>4. todo # {}
  BY <1>1, <1>3 DEF TodoInv
<1>5. Job(p) \in Jobs /\ Content(p) \in JobContents
  BY <1>1, JobFacts
<1>6. Job(p)' = Job(p) /\ Content(p)' = Content(p)
  BY <1>1 DEF Job, Content
<1> QED
  BY <1>1, <1>2, <1>3, <1>4, <1>5, <1>6 DEF Done, TypeOK

LEMMA TrialWritten ==
  ASSUME TypeOK, LockInv, WriterInv, NEW p \in Ingesters, UpsertTrial(p)
  PROVE  WriterInv'
<1> DEFINE d == First(todo)
           c == Content(p)
           k == <<Job(p), NameOf(c, d)>>
<1>1. Write(p, "trials", TrialUpserted(work, Job(p), d, File(p)), "scores") /\ todo # {} /\ todo' = todo
  BY DEF UpsertTrial
<1>2. /\ pc[p] \in InTransaction
      /\ writer = p /\ p # NoOne /\ writer' = p
      /\ TodoInv(p) /\ OthersKept(p) /\ Progress(p)
      /\ Job(p) \in Jobs /\ c \in JobContents /\ work \in Store
      /\ Done(p) \in SUBSET Present(c)
      /\ Job(p)' = Job(p) /\ Content(p)' = c
      /\ pc[p] = "trials" /\ pc'[p] = "scores"
      /\ work' = TrialUpserted(work, Job(p), d, File(p)) /\ store' = store
  BY <1>1, WriterAtWork DEF InTransaction
<1>3. /\ d \in Present(c) /\ d \in TrialDirs
      /\ \A e \in Done(p) : e < d
      /\ File(p) = c.trials[d] /\ File(p) \in TrialFile
      /\ Key(p) = k /\ k \in TrialKeys /\ k \in KeysOf(Job(p), c)
  BY <1>1, <1>2, FileFacts
<1>4. /\ work'.trials = [work.trials EXCEPT ![k] = TrialRow(File(p), d)]
      /\ work'.runs = work.runs /\ work'.scores = work.scores
      /\ work'.checks = work.checks /\ work'.artifacts = work.artifacts
  BY <1>2, <1>3, TrialUpsertedFacts DEF NameOf
<1>5. TrialRow(File(p), d) = Rows(c)[d] /\ TrialRow(File(p), d) # NULL
  BY <1>3, RowType DEF Rows
<1>6. DOMAIN work.trials = TrialKeys
  BY <1>2 DEF Store
<1> HIDE DEF d, c, k
<1>7. TodoInv(p)'
  BY <1>1, <1>2 DEF TodoInv, c
<1>8. OthersKept(p)'
  <2>1. Stored(work) \subseteq Stored(work')
    BY <1>3, <1>4, <1>5, <1>6 DEF Stored
  <2>2. \A x \in TrialKeys \ KeysOf(Job(p), c) : work'.trials[x] = work.trials[x]
    BY <1>3, <1>4, <1>6
  <2> QED
    BY <1>2, <1>4, <2>1, <2>2 DEF OthersKept, c
<1>9. Done(p)' = Done(p)
  BY <1>1, <1>2 DEF Done, c
<1>10. /\ DoneAt(p, {"scores", "checks"})' = Done(p) \cup {d}
       /\ DoneAt(p, {"checks"})' = Done(p)
  BY <1>1, <1>2, <1>9 DEF DoneAt, d
<1>11. /\ DoneAt(p, {"scores", "checks"}) = Done(p)
       /\ DoneAt(p, {"checks"}) = Done(p)
  BY <1>2 DEF DoneAt
<1>12. Recorded(work.trials, Rows(c), Job(p), c, Done(p))
  BY <1>2, <1>11 DEF Progress, c
<1>13. Recorded(work'.trials, Rows(c), Job(p), c, Done(p) \cup {d})
  BY <1>2, <1>3, <1>4, <1>5, <1>6, <1>12, RecordedExtends DEF k
<1>14. Progress(p)'
  BY <1>2, <1>4, <1>9, <1>10, <1>11, <1>13 DEF Progress, ArtifactsRecorded, c
<1> QED
  BY <1>2, <1>7, <1>8, <1>14 DEF WriterInv

LEMMA ScoresWritten ==
  ASSUME TypeOK, LockInv, WriterInv, NEW p \in Ingesters, ReplaceScores(p)
  PROVE  WriterInv'
<1> DEFINE d == First(todo)
           c == Content(p)
           k == <<Job(p), NameOf(c, d)>>
<1>1. Write(p, "scores", ScoresReplaced(work, Key(p), File(p)), "checks") /\ todo' = todo
  BY DEF ReplaceScores
<1>2. /\ pc[p] \in InTransaction /\ todo # {}
      /\ writer = p /\ p # NoOne /\ writer' = p
      /\ TodoInv(p) /\ OthersKept(p) /\ Progress(p)
      /\ Job(p) \in Jobs /\ c \in JobContents /\ work \in Store
      /\ Done(p) \in SUBSET Present(c)
      /\ Job(p)' = Job(p) /\ Content(p)' = c
      /\ pc[p] = "scores" /\ pc'[p] = "checks"
      /\ work' = ScoresReplaced(work, Key(p), File(p)) /\ store' = store
  BY <1>1, WriterAtWork DEF InTransaction
<1>3. /\ d \in Present(c)
      /\ \A e \in Done(p) : e < d
      /\ File(p) = c.trials[d] /\ File(p) \in TrialFile
      /\ Key(p) = k /\ k \in TrialKeys /\ k \in KeysOf(Job(p), c)
  BY <1>2, FileFacts
<1>4. /\ work'.scores = [work.scores EXCEPT ![k] = File(p).rewards]
      /\ work'.runs = work.runs /\ work'.trials = work.trials
      /\ work'.checks = work.checks /\ work'.artifacts = work.artifacts
  BY <1>2, <1>3, ScoresReplacedFacts
<1>5. File(p).rewards = Scores(c)[d]
  BY <1>3 DEF Scores
<1>6. DOMAIN work.scores = TrialKeys
  BY <1>2 DEF Store
<1> HIDE DEF d, c, k
<1>7. TodoInv(p)'
  BY <1>1, <1>2 DEF TodoInv, c
<1>8. OthersKept(p)'
  <2>1. \A x \in TrialKeys \ KeysOf(Job(p), c) : work'.scores[x] = work.scores[x]
    BY <1>3, <1>4, <1>6
  <2> QED
    BY <1>2, <1>4, <2>1 DEF OthersKept, Stored, c
<1>9. Done(p)' = Done(p)
  BY <1>1, <1>2 DEF Done, c
<1>10. /\ DoneAt(p, {"scores", "checks"})' = Done(p) \cup {d}
       /\ DoneAt(p, {"checks"})' = Done(p) \cup {d}
  BY <1>1, <1>2, <1>9 DEF DoneAt, d
<1>11. /\ DoneAt(p, {"scores", "checks"}) = Done(p) \cup {d}
       /\ DoneAt(p, {"checks"}) = Done(p)
  BY <1>2 DEF DoneAt, d
<1>12. Recorded(work.scores, Scores(c), Job(p), c, Done(p))
  BY <1>2, <1>11 DEF Progress, c
<1>13. Recorded(work'.scores, Scores(c), Job(p), c, Done(p) \cup {d})
  <2>1. work'.scores = [work.scores EXCEPT ![<<Job(p), NameOf(c, d)>>] = Scores(c)[d]]
    BY <1>4, <1>5 DEF k
  <2>2. Recorded([work.scores EXCEPT ![<<Job(p), NameOf(c, d)>>] = Scores(c)[d]],
                 Scores(c), Job(p), c, Done(p) \cup {d})
    BY ONLY <1>2, <1>3, <1>6, <1>12, RecordedExtends
  <2> QED
    BY <2>1, <2>2
<1>14. Progress(p)'
  BY <1>2, <1>4, <1>9, <1>10, <1>11, <1>13 DEF Progress, ArtifactsRecorded, c
<1> QED
  BY <1>2, <1>7, <1>8, <1>14 DEF WriterInv

LEMMA ChecksWritten ==
  ASSUME TypeOK, LockInv, WriterInv, NEW p \in Ingesters, ReplaceChecks(p)
  PROVE  WriterInv'
<1> DEFINE d == First(todo)
           c == Content(p)
           k == <<Job(p), NameOf(c, d)>>
           s == ArtifactRecorded(ChecksReplaced(work, Key(p), File(p)), Job(p), d, Key(p))
<1>1. Write(p, "checks", s, "trials") /\ todo' = todo \ {d}
  BY DEF ReplaceChecks
<1>2. /\ pc[p] \in InTransaction /\ todo # {}
      /\ writer = p /\ p # NoOne /\ writer' = p
      /\ TodoInv(p) /\ OthersKept(p) /\ Progress(p)
      /\ Job(p) \in Jobs /\ c \in JobContents /\ work \in Store
      /\ Done(p) \in SUBSET Present(c)
      /\ Job(p)' = Job(p) /\ Content(p)' = c
      /\ pc[p] = "checks" /\ pc'[p] = "trials"
      /\ work' = s /\ store' = store
  BY <1>1, WriterAtWork DEF InTransaction
<1>3. /\ d \in todo /\ d \in Present(c) /\ d \in TrialDirs
      /\ \A e \in Done(p) : e < d
      /\ File(p) = c.trials[d] /\ File(p) \in TrialFile
      /\ Key(p) = k /\ k \in TrialKeys /\ k \in KeysOf(Job(p), c)
  BY <1>2, FileFacts
<1>4. /\ work'.checks = [work.checks EXCEPT ![k] = File(p).failed]
      /\ work'.artifacts = [work.artifacts EXCEPT ![<<Job(p), d>>] = k]
      /\ work'.runs = work.runs /\ work'.trials = work.trials /\ work'.scores = work.scores
  BY <1>2, <1>3, ChecksReplacedFacts
<1>5. File(p).failed = Failed(c)[d]
  BY <1>3 DEF Failed
<1>6. /\ DOMAIN work.checks = TrialKeys /\ DOMAIN work.artifacts = Jobs \X TrialDirs
  BY <1>2 DEF Store
<1>7. Present(c) \in SUBSET TrialDirs /\ todo \in SUBSET TrialDirs
  BY DEF Present, TypeOK
<1>8. \A e \in todo : d <= e
  BY <1>2, <1>7, FirstIsLeast
<1> HIDE DEF d, c, k, s
<1>9. TodoInv(p)'
  <2>1. \A x \in Present(c) \ (todo \ {d}), e \in todo \ {d} : x < e
    BY <1>2, <1>3, <1>7, <1>8 DEF TodoInv, TrialDirs, c
  <2> QED
    BY <1>1, <1>2, <2>1 DEF TodoInv, c
<1>10. OthersKept(p)'
  <2>1. \A x \in TrialKeys \ KeysOf(Job(p), c) : work'.checks[x] = work.checks[x]
    BY <1>3, <1>4, <1>6
  <2>2. \A j \in Jobs, e \in TrialDirs :
          (j = Job(p) => e \notin Present(c)) => work'.artifacts[<<j, e>>] = work.artifacts[<<j, e>>]
    BY <1>3, <1>4, <1>6
  <2> QED
    BY <1>2, <1>4, <2>1, <2>2 DEF OthersKept, Stored, c
<1>11. Done(p)' = Done(p) \cup {d}
  BY <1>1, <1>2, <1>3 DEF Done, c
<1>12. /\ DoneAt(p, {"scores", "checks"})' = Done(p) \cup {d}
       /\ DoneAt(p, {"checks"})' = Done(p) \cup {d}
  BY <1>2, <1>11 DEF DoneAt
<1>13. /\ DoneAt(p, {"scores", "checks"}) = Done(p) \cup {d}
       /\ DoneAt(p, {"checks"}) = Done(p) \cup {d}
  BY <1>2 DEF DoneAt, d
<1>14. Recorded(work.checks, Failed(c), Job(p), c, Done(p)) /\ ArtifactsRecorded(work, Job(p), c, Done(p))
  BY <1>2 DEF Progress, c
<1>15. Recorded(work'.checks, Failed(c), Job(p), c, Done(p) \cup {d})
  <2>1. work'.checks = [work.checks EXCEPT ![<<Job(p), NameOf(c, d)>>] = Failed(c)[d]]
    BY <1>4, <1>5 DEF k
  <2>2. Recorded([work.checks EXCEPT ![<<Job(p), NameOf(c, d)>>] = Failed(c)[d]],
                 Failed(c), Job(p), c, Done(p) \cup {d})
    BY ONLY <1>2, <1>3, <1>6, <1>14, RecordedExtends
  <2> QED
    BY <2>1, <2>2
<1>16. ArtifactsRecorded(work', Job(p), c, Done(p) \cup {d})
  BY <1>2, <1>3, <1>4, <1>6, <1>7, <1>14 DEF ArtifactsRecorded, k
<1>17. Progress(p)'
  BY <1>2, <1>4, <1>11, <1>12, <1>13, <1>15, <1>16 DEF Progress, c
<1> QED
  BY <1>2, <1>9, <1>10, <1>17 DEF WriterInv

LEMMA EndJobWriter ==
  ASSUME TypeOK, LockInv, WriterInv, NEW p \in Ingesters, NEW there \in {"idle", "next"}, NEW left,
         EndJob(p, there, left), writer # p => store' = store
  PROVE  WriterInv'
<1>1. CASE writer = p
  BY <1>1 DEF EndJob, WriterInv
<1>2. CASE writer # p
  BY <1>2, WriterKept DEF EndJob, Step, TypeOK
<1> QED
  BY <1>1, <1>2

LEMMA WriterStep ==
  ASSUME TypeOK, LockInv, WriterInv, [Next]_vars
  PROVE  WriterInv'
<1>1. writer # NoOne => writer \in Ingesters /\ pc[writer] \in InTransaction
  BY DEF LockInv, TypeOK
<1>2. ASSUME NEW p \in Ingesters, Ingest(p) PROVE WriterInv'
  <2>1. CASE Call(p) \/ OpenJob(p) \/ Return(p)
    <3>1. pc[p] \notin InTransaction
      BY <2>1 DEF Call, OpenJob, Return, At, InTransaction
    <3>2. \A q \in Ingesters \ {p} : pc'[q] = pc[q] /\ queue'[q] = queue[q]
      BY <2>1 DEF Call, OpenJob, Return, Step, TypeOK
    <3>3. UNCHANGED <<dirs, writer, todo, work, store>>
      BY <2>1 DEF Call, OpenJob, Return
    <3> QED
      BY <1>1, <3>1, <3>2, <3>3, WriterKept
  <2>2. CASE UpsertRun(p)
    BY <2>2, WriterStarts
  <2>3. CASE UpsertTrial(p) \/ ReplaceScores(p) \/ ReplaceChecks(p)
    BY <2>3, TrialWritten, ScoresWritten, ChecksWritten
  <2>4. CASE RollBack(p) \/ Abandon(p)
    BY <2>4, EndJobWriter DEF RollBack, Abandon
  <2>5. CASE Release(p)
    <3>1. writer = p
      BY <2>5 DEF Release, At, LockInv, InTransaction
    <3> QED
      BY <2>5, <3>1, EndJobWriter DEF Release
  <2> QED
    BY <1>2, <2>1, <2>2, <2>3, <2>4, <2>5
    DEF Ingest, JobUnreadable, Locked, NoTrials, TrialUnparsable, BadReward, CommitLocked, Crash
<1>3. ASSUME NEW r \in Readers, Report(r) PROVE WriterInv'
  <2>1. UNCHANGED <<dirs, store, ingesting>>
    BY <1>3 DEF Report, Ask, Refuse, FindTrials, ComputeAggregate, ListAttempts, WriteReport, Read
  <2> QED
    BY <2>1, WriterKept DEF ingesting
<1>4. ASSUME NEW j \in Jobs, Rewrite(j) PROVE WriterInv'
  <2>1. UNCHANGED <<store, ingesting>>
    BY <1>4 DEF Rewrite
  <2>2. writer # NoOne => Job(writer) # j
    BY <1>1, <1>4 DEF Rewrite
  <2>3. \A i : i # j => dirs'[i] = dirs[i]
    BY <1>4 DEF Rewrite, TypeOK
  <2> QED
    BY <2>1, <2>2, <2>3, WriterKept DEF ingesting
<1>5. CASE UNCHANGED vars
  BY <1>5, WriterKept DEF vars, ingesting
<1> QED
  BY <1>2, <1>3, <1>4, <1>5 DEF Next

-----------------------------------------------------------------------------
(* The commit.                                                             *)

\* What the writer commits.
LEMMA Released ==
  ASSUME TypeOK, LockInv, WriterInv, NEW p \in Ingesters, Release(p)
  PROVE  /\ writer = p
         /\ Job(p) \in Jobs /\ Content(p) \in JobContents
         /\ store' = work /\ store \in Store /\ work \in Store
         /\ committed' = committed \cup KeysOf(Job(p), Content(p))
         /\ OthersKept(p)
         /\ Whole(work, Job(p), Content(p))
<1>1. pc[p] = "trials" /\ todo = {} /\ store' = work
  BY DEF Release, At
<1>2. writer = p /\ p # NoOne
  BY <1>1, ResultStoreAssumption DEF LockInv, InTransaction
<1>3. Job(p) \in Jobs /\ Content(p) \in JobContents
  BY <1>1, JobFacts DEF InTransaction
<1>4. OthersKept(p) /\ Progress(p)
  BY <1>2 DEF WriterInv
<1>5. Done(p) = Present(Content(p))
  BY <1>1 DEF Done
<1>6. DoneAt(p, {"scores", "checks"}) = Done(p) /\ DoneAt(p, {"checks"}) = Done(p)
  BY <1>1 DEF DoneAt
<1>7. Whole(work, Job(p), Content(p))
  BY <1>4, <1>5, <1>6 DEF Progress, Whole
<1>8. committed' = committed \cup KeysOf(Job(p), Content(p))
  BY DEF Release, KeysOf, TrialKey, NameOf, Content
<1> QED
  BY <1>1, <1>2, <1>3, <1>4, <1>7, <1>8 DEF TypeOK

\* Only the end of a job changes the store.
LEMMA StoreChanges ==
  ASSUME [Next]_vars
  PROVE  \/ UNCHANGED <<store, committed>>
         \/ \E p \in Ingesters : Release(p)
<1>1. ASSUME NEW p \in Ingesters, Ingest(p), ~Release(p) PROVE UNCHANGED <<store, committed>>
  BY <1>1 DEF Ingest, Call, OpenJob, JobUnreadable, RollBack, UpsertRun, Locked, Abandon, NoTrials,
              TrialUnparsable, BadReward, UpsertTrial, ReplaceScores, ReplaceChecks, Write,
              CommitLocked, Return, Crash
<1>2. ASSUME NEW r \in Readers, Report(r) PROVE UNCHANGED <<store, committed>>
  BY <1>2 DEF Report, Ask, Refuse, FindTrials, ComputeAggregate, ListAttempts, WriteReport, Read
<1>3. ASSUME NEW j \in Jobs, Rewrite(j) PROVE UNCHANGED <<store, committed>>
  BY <1>3 DEF Rewrite
<1> QED
  BY <1>1, <1>2, <1>3 DEF Next, vars

\* The commit of one job leaves the rows of another as they are.
LEMMA OtherJobsKept ==
  ASSUME NEW p \in Ingesters, Job(p) \in Jobs, OthersKept(p), store \in Store, work \in Store,
         NEW j \in Jobs, j # Job(p)
  PROVE  /\ work.runs[j] = store.runs[j]
         /\ \A n \in TrialNames :
              /\ work.trials[<<j, n>>] = store.trials[<<j, n>>]
              /\ work.scores[<<j, n>>] = store.scores[<<j, n>>]
              /\ work.checks[<<j, n>>] = store.checks[<<j, n>>]
         /\ \A d \in TrialDirs : work.artifacts[<<j, d>>] = store.artifacts[<<j, d>>]
<1>1. \A n \in TrialNames : <<j, n>> \in TrialKeys \ KeysOf(Job(p), Content(p))
  BY DEF TrialKeys, KeysOf
<1>2. DOMAIN store.runs = Jobs
  BY DEF Store
<1> QED
  BY <1>1, <1>2 DEF OthersKept

LEMMA StoreStep ==
  ASSUME TypeOK, LockInv, WriterInv, StoreInv, [Next]_vars
  PROVE  StoreInv'
<1>1. CASE UNCHANGED <<store, committed>>
  BY <1>1 DEF StoreInv
<1>2. ASSUME NEW p \in Ingesters, Release(p) PROVE StoreInv'
  <2>1. /\ Job(p) \in Jobs /\ Content(p) \in JobContents
        /\ store' = work /\ store \in Store /\ work \in Store
        /\ OthersKept(p) /\ Whole(work, Job(p), Content(p))
    BY <1>2, Released
  <2> SUFFICES ASSUME NEW j \in Jobs, work.runs[j] # NULL
               PROVE  Whole(work, j, work.runs[j])
    BY <2>1 DEF StoreInv
  <2>2. CASE j = Job(p)
    <3>1. work.runs[j] = Content(p)
      BY <2>1, <2>2 DEF OthersKept, Store
    <3> QED
      BY <2>1, <2>2, <3>1
  <2>3. CASE j # Job(p)
    <3> DEFINE c == store.runs[j]
    <3>1. /\ work.runs[j] = c
          /\ \A n \in TrialNames :
               /\ work.trials[<<j, n>>] = store.trials[<<j, n>>]
               /\ work.scores[<<j, n>>] = store.scores[<<j, n>>]
               /\ work.checks[<<j, n>>] = store.checks[<<j, n>>]
          /\ \A d \in TrialDirs : work.artifacts[<<j, d>>] = store.artifacts[<<j, d>>]
      BY <2>1, <2>3, OtherJobsKept
    <3>2. c \in JobContents
      BY <2>1, <3>1 DEF Store
    <3>3. \A d \in Present(c) : d \in TrialDirs /\ NameOf(c, d) \in TrialNames
      BY <3>2, FileType
    <3>4. Whole(store, j, c)
      BY <3>1 DEF StoreInv
    <3> HIDE DEF c
    <3>5. /\ Recorded(work.trials, Rows(c), j, c, Present(c))
          /\ Recorded(work.scores, Scores(c), j, c, Present(c))
          /\ Recorded(work.checks, Failed(c), j, c, Present(c))
      BY <3>1, <3>3, <3>4 DEF Whole, Recorded
    <3>6. ArtifactsRecorded(work, j, c, Present(c))
      BY <3>1, <3>3, <3>4 DEF Whole, ArtifactsRecorded
    <3> QED
      BY <3>1, <3>5, <3>6 DEF Whole
  <2> QED
    BY <2>2, <2>3
<1> QED
  BY <1>1, <1>2, StoreChanges

\* A directory's last trial of each name is in the tables.
LEMMA LastIsRecorded ==
  ASSUME NEW s, NEW j \in Jobs, NEW c \in JobContents, Whole(s, j, c), NEW x \in Present(c)
  PROVE  LET n == NameOf(c, x)
             d == LastDir(c, n)
         IN /\ d \in Present(c)
            /\ s.trials[<<j, n>>] = TrialRow(c.trials[d], d)
            /\ s.scores[<<j, n>>] = c.trials[d].rewards
            /\ s.checks[<<j, n>>] = c.trials[d].failed
<1> DEFINE n == NameOf(c, x)
           d == LastDir(c, n)
<1>1. c \in JobFile
  BY ResultStoreAssumption
<1>2. /\ d \in Present(c) /\ NameOf(c, d) = n
      /\ \A e \in Present(c) : NameOf(c, e) = n => e <= d
  BY <1>1, LastDirFacts
<1> HIDE DEF d, n
<1>3. /\ s.trials[<<j, n>>] = Rows(c)[d]
      /\ s.scores[<<j, n>>] = Scores(c)[d]
      /\ s.checks[<<j, n>>] = Failed(c)[d]
  BY <1>2 DEF Whole, Recorded
<1> QED
  BY <1>2, <1>3 DEF Rows, Scores, Failed, d, n

LEMMA CommittedStep ==
  ASSUME TypeOK, LockInv, WriterInv, CommittedTrialsStay, [Next]_vars
  PROVE  CommittedTrialsStay'
<1>1. CASE UNCHANGED <<store, committed>>
  BY <1>1 DEF CommittedTrialsStay, Stored
<1>2. ASSUME NEW p \in Ingesters, Release(p) PROVE CommittedTrialsStay'
  <2>1. /\ Job(p) \in Jobs /\ Content(p) \in JobContents
        /\ store' = work
        /\ committed' = committed \cup KeysOf(Job(p), Content(p))
        /\ OthersKept(p) /\ Whole(work, Job(p), Content(p))
    BY <1>2, Released
  <2>2. ASSUME NEW x \in Present(Content(p))
        PROVE  <<Job(p), NameOf(Content(p), x)>> \in Stored(work)
    <3> DEFINE d == LastDir(Content(p), NameOf(Content(p), x))
    <3>1. d \in Present(Content(p))
          /\ work.trials[<<Job(p), NameOf(Content(p), x)>>] = TrialRow(Content(p).trials[d], d)
      BY <2>1, LastIsRecorded
    <3> HIDE DEF d
    <3>2. TrialRow(Content(p).trials[d], d) # NULL
      BY <2>1, <3>1, FileType, RowType
    <3>3. <<Job(p), NameOf(Content(p), x)>> \in TrialKeys
      BY <2>1, FileType DEF TrialKeys
    <3> QED
      BY <3>1, <3>2, <3>3 DEF Stored
  <2>3. KeysOf(Job(p), Content(p)) \subseteq Stored(work)
    BY <2>2 DEF KeysOf
  <2>4. Stored(store) \subseteq Stored(work) /\ Stored(store)' = Stored(work)
    BY <2>1 DEF OthersKept, Stored
  <2> QED
    BY <2>1, <2>3, <2>4 DEF CommittedTrialsStay
<1> QED
  BY <1>1, <1>2, StoreChanges

-----------------------------------------------------------------------------
(* Theorems.                                                               *)

LEMMA Inductive == Spec => []IInv
<1>1. Init => IInv
  <2> SUFFICES ASSUME Init PROVE IInv
    OBVIOUS
  <2>1. TypeOK
    BY EmptyStoreType, ResultStoreAssumption DEF Init, TypeOK
  <2>2. LockInv
    BY ResultStoreAssumption DEF Init, LockInv, InTransaction
  <2>3. StoreInv
    BY DEF Init, StoreInv, EmptyStore
  <2>4. WriterInv /\ CommittedTrialsStay
    BY DEF Init, WriterInv, CommittedTrialsStay
  <2> QED
    BY <2>1, <2>2, <2>3, <2>4 DEF IInv
<1>2. IInv /\ [Next]_vars => IInv'
  BY TypeStep, LockStep, WriterStep, StoreStep, CommittedStep DEF IInv
<1> QED
  BY <1>1, <1>2, PTL DEF Spec

\* Every variable keeps its type: whatever a job directory holds, no row of the
\* database ever has a value its table cannot have.
THEOREM TypeCorrect == Spec => []TypeOK
BY Inductive, PTL DEF IInv

\* No ingestion, of any process, that commits, is rolled back or is killed loses a
\* trial that was committed.  (ingest_jobs)
THEOREM NoTrialIsLost == Spec => []CommittedTrialsStay
BY Inductive, PTL DEF IInv

\* A job in the database is there as a whole, with the scores and checks of the
\* trial directory each row comes from.  (ingest_jobs, _ingest_trial)
THEOREM NoPartOfAJob == Spec => []WholeJobs
<1>1. IInv => WholeJobs
  <2> SUFFICES ASSUME IInv, NEW j \in Jobs, store.runs[j] # NULL, NEW x \in Present(store.runs[j])
               PROVE  LET n == store.runs[j].trials[x].name
                          f == store.runs[j].trials[LastDir(store.runs[j], n)]
                      IN /\ store.trials[<<j, n>>] = TrialRow(f, LastDir(store.runs[j], n))
                         /\ store.scores[<<j, n>>] = f.rewards
                         /\ store.checks[<<j, n>>] = f.failed
                         /\ store.artifacts[<<j, x>>] = <<j, n>>
    BY DEF WholeJobs
  <2>1. PICK c \in JobContents : c = store.runs[j]
    BY DEF IInv, TypeOK, Store
  <2>2. Whole(store, j, c) /\ x \in Present(c)
    BY <2>1 DEF IInv, StoreInv
  <2>3. PICK y \in Present(c) : y = x
    BY <2>2
  <2> DEFINE d == LastDir(c, NameOf(c, y))
  <2>4. ASSUME NEW s, Whole(s, j, c)
        PROVE  /\ s.trials[<<j, NameOf(c, y)>>] = TrialRow(c.trials[d], d)
               /\ s.scores[<<j, NameOf(c, y)>>] = c.trials[d].rewards
               /\ s.checks[<<j, NameOf(c, y)>>] = c.trials[d].failed
               /\ s.artifacts[<<j, y>>] = <<j, NameOf(c, y)>>
    BY <2>4, LastIsRecorded DEF Whole, ArtifactsRecorded
  <2> HIDE DEF d
  <2>5. /\ store.trials[<<j, NameOf(c, y)>>] = TrialRow(c.trials[d], d)
        /\ store.scores[<<j, NameOf(c, y)>>] = c.trials[d].rewards
        /\ store.checks[<<j, NameOf(c, y)>>] = c.trials[d].failed
        /\ store.artifacts[<<j, y>>] = <<j, NameOf(c, y)>>
    BY <2>2, <2>4, Zenon
  <2> QED
    BY <2>1, <2>3, <2>5 DEF NameOf, d
<1> QED
  BY <1>1, Inductive, PTL

\* The commit of one job leaves what reports read of every other as it was, and
\* nothing else than a commit changes it.  (ingest_jobs)
THEOREM JobsStayIsolated == Spec => JobsAreIsolated
<1> DEFINE Isolated ==
      \A j \in Jobs : JobPart(store', j) # JobPart(store, j) =>
        \E p \in Ingesters : At(p, "trials") /\ Job(p) = j /\ todo = {} /\ pc'[p] = "next"
<1>1. IInv /\ [Next]_vars => Isolated
  <2> SUFFICES ASSUME IInv, [Next]_vars, NEW j \in Jobs, JobPart(store', j) # JobPart(store, j)
               PROVE  \E p \in Ingesters :
                        At(p, "trials") /\ Job(p) = j /\ todo = {} /\ pc'[p] = "next"
    OBVIOUS
  <2>1. PICK p \in Ingesters : Release(p)
    BY StoreChanges
  <2>2. At(p, "trials") /\ todo = {} /\ pc'[p] = "next"
    BY <2>1 DEF Release, EndJob, Step, IInv, TypeOK
  <2>3. /\ Job(p) \in Jobs /\ OthersKept(p)
        /\ store' = work /\ store \in Store /\ work \in Store
    BY <2>1, Released DEF IInv
  <2>4. Job(p) = j
    <3> SUFFICES ASSUME Job(p) # j PROVE FALSE
      OBVIOUS
    <3>1. /\ work.runs[j] = store.runs[j]
          /\ \A n \in TrialNames :
               /\ work.trials[<<j, n>>] = store.trials[<<j, n>>]
               /\ work.scores[<<j, n>>] = store.scores[<<j, n>>]
               /\ work.checks[<<j, n>>] = store.checks[<<j, n>>]
          /\ \A d \in TrialDirs : work.artifacts[<<j, d>>] = store.artifacts[<<j, d>>]
      BY <2>3, OtherJobsKept
    <3>2. JobPart(work, j) = JobPart(store, j)
      BY <3>1 DEF JobPart
    <3> QED
      BY <2>3, <3>2
  <2> QED
    BY <2>2, <2>4
<1> QED
  BY <1>1, Inductive, PTL DEF Spec, JobsAreIsolated

-----------------------------------------------------------------------------
(* What jobs share: the rows of setups and of systems.                     *)

SetupOf(f) == [system |-> f.system, setup |-> f.setup]

HasSetup(s, f) == \E i \in DOMAIN s.setups : s.setups[i] = SetupOf(f)

SystemsOk(s) == \A y \in SystemKeys : s.systems[y] \in 0..Len(s.setups)

SetupsKept(s, t) ==
  /\ DOMAIN s.setups \subseteq DOMAIN t.setups
  /\ \A i \in DOMAIN s.setups : t.setups[i] = s.setups[i]

\* Each of the trial directories done of c has a row, unless it has a NULL.
Known(s, c, done) == \A d \in done : c.trials[d].setup # NULL => HasSetup(s, c.trials[d])

\* A row is added for a NULL or for one of these that had none.
AddedFor(s, t, c, done) ==
  \A i \in DOMAIN t.setups \ DOMAIN s.setups :
    \/ t.setups[i].setup = NULL
    \/ \E d \in done : t.setups[i] = SetupOf(c.trials[d]) /\ ~HasSetup(s, c.trials[d])

ConfiguredBy(s, t, c, done) ==
  /\ \A d \in done : (\A e \in done : c.trials[e].system = c.trials[d].system => e <= d) =>
       SystemConfiguration(t, c.trials[d].system) = c.trials[d].setup
  /\ \A y \in SystemKeys : (\A d \in done : c.trials[d].system # y) =>
       SystemConfiguration(t, y) = SystemConfiguration(s, y)

\* What the trial directories done of c have made of store s.
SetupsDone(s, t, c, done) ==
  /\ SystemsOk(t)
  /\ SetupsKept(s, t)
  /\ Known(t, c, done)
  /\ AddedFor(s, t, c, done)
  /\ ConfiguredBy(s, t, c, done)

RunsKnown(s) == \A j \in Jobs : s.runs[j] # NULL => Known(s, s.runs[j], Present(s.runs[j]))

SetupInv ==
  /\ SystemsOk(store)
  /\ RunsKnown(store)
  /\ writer # NoOne => SetupsDone(store, work, Content(writer), DoneAt(writer, {"scores", "checks"}))

LEMMA SetupUpserted ==
  ASSUME NEW s \in Store, SystemsOk(s), NEW f \in TrialFile, NEW t,
         t.setups = SystemUpserted(s, f).setups, t.systems = SystemUpserted(s, f).systems
  PROVE  /\ SystemsOk(t)
         /\ SetupsKept(s, t)
         /\ HasSetup(t, f)
         /\ \A i \in DOMAIN t.setups \ DOMAIN s.setups :
              t.setups[i] = SetupOf(f) /\ (f.setup = NULL \/ ~HasSetup(s, f))
         /\ SystemConfiguration(t, f.system) = f.setup
         /\ \A y \in SystemKeys \ {f.system} : SystemConfiguration(t, y) = SystemConfiguration(s, y)
<1> DEFINE y == f.system
           x == SetupOf(f)
           RowOf == [system : SystemKeys, setup : Setups \cup {NULL}]
<1>1. y \in SystemKeys /\ x \in RowOf /\ x.setup = f.setup
  BY DEF TrialFile, SetupOf
<1>2. s.setups \in Seq(RowOf) /\ s.systems \in [SystemKeys -> Nat]
  BY DEF Store
<1>3. PICK n \in Nat : /\ n \in DOMAIN t.setups /\ t.setups[n] = x
                       /\ t.setups \in Seq(RowOf)
                       /\ t.systems = [s.systems EXCEPT ![y] = n]
                       /\ SetupsKept(s, t) /\ Len(s.setups) <= Len(t.setups)
                       /\ \A i \in DOMAIN t.setups \ DOMAIN s.setups :
                            t.setups[i] = x /\ (f.setup = NULL \/ ~HasSetup(s, f))
  <2>1. CASE SameSetup(s, f) # {}
    <3> DEFINE i == CHOOSE i \in SameSetup(s, f) : TRUE
    <3>1. i \in DOMAIN s.setups /\ s.setups[i] = x
      BY <2>1 DEF SameSetup, SetupOf
    <3>2. SystemUpserted(s, f) = [s EXCEPT !.systems[y] = i]
      BY <2>1, Zenon DEF SystemUpserted
    <3> HIDE DEF i, x, y
    <3>3. t.setups = s.setups /\ t.systems = [s.systems EXCEPT ![y] = i]
      BY <3>2 DEF Store
    <3>4. i \in Nat
      BY <1>2, <3>1
    <3>5. SetupsKept(s, t) /\ Len(s.setups) <= Len(t.setups) /\ t.setups \in Seq(RowOf)
      BY <1>2, <3>3 DEF SetupsKept
    <3>6. i \in DOMAIN t.setups /\ t.setups[i] = x
      BY <3>1, <3>3
    <3>7. DOMAIN t.setups \ DOMAIN s.setups = {}
      BY <3>3
    <3> HIDE DEF RowOf
    <3> QED
      BY ONLY <3>3, <3>4, <3>5, <3>6, <3>7
  <2>2. CASE SameSetup(s, f) = {}
    <3> DEFINE n == Len(s.setups) + 1
    <3>1. SystemUpserted(s, f) =
            [s EXCEPT !.setups = Append(s.setups, x), !.systems[y] = n]
      BY <2>2 DEF SystemUpserted, Store, SetupOf
    <3>2. f.setup = NULL \/ ~HasSetup(s, f)
      BY <2>2 DEF SameSetup, HasSetup, SetupOf
    <3> HIDE DEF x, y
    <3>3. n \in Nat /\ Append(s.setups, x) \in Seq(RowOf)
      BY <1>1, <1>2
    <3>4. t.setups = Append(s.setups, x) /\ t.systems = [s.systems EXCEPT ![y] = n]
      BY <3>1 DEF Store
    <3>5. /\ n \in DOMAIN t.setups /\ t.setups[n] = x
          /\ SetupsKept(s, t) /\ Len(s.setups) <= Len(t.setups)
          /\ \A i \in DOMAIN t.setups \ DOMAIN s.setups : t.setups[i] = x
      BY <1>1, <1>2, <3>4 DEF SetupsKept
    <3> QED
      BY <3>2, <3>3, <3>4, <3>5
  <2> QED
    BY <2>1, <2>2
<1> HIDE DEF x, y, RowOf
<1>4. t.systems[y] = n /\ n # 0 /\ n \in 0..Len(t.setups)
  BY <1>1, <1>2, <1>3
<1>5. \A z \in SystemKeys \ {y} : t.systems[z] = s.systems[z] /\ s.systems[z] \in 0..Len(s.setups)
  BY <1>2, <1>3 DEF SystemsOk
<1>6. SystemsOk(t)
  BY <1>2, <1>3, <1>4, <1>5 DEF SystemsOk
<1>7. SystemConfiguration(t, y) = f.setup
  BY <1>1, <1>3, <1>4 DEF SystemConfiguration
<1>8. ASSUME NEW z \in SystemKeys \ {y} PROVE SystemConfiguration(t, z) = SystemConfiguration(s, z)
  <2>1. s.systems[z] # 0 => s.systems[z] \in DOMAIN s.setups
    BY <1>2, <1>5
  <2> QED
    BY <1>3, <1>5, <2>1 DEF SystemConfiguration, SetupsKept
<1>9. HasSetup(t, f)
  BY <1>3 DEF HasSetup, x
<1> QED
  BY <1>3, <1>6, <1>7, <1>8, <1>9 DEF x, y

\* Only one step of a trial directory touches these tables.
LEMMA SetupsTouched ==
  ASSUME NEW s \in Store, NEW j \in Jobs, NEW d \in TrialDirs, NEW k \in TrialKeys,
         NEW f \in TrialFile
  PROVE  /\ TrialUpserted(s, j, d, f).setups = SystemUpserted(s, f).setups
         /\ TrialUpserted(s, j, d, f).systems = SystemUpserted(s, f).systems
         /\ ScoresReplaced(s, k, f).setups = s.setups
         /\ ScoresReplaced(s, k, f).systems = s.systems
         /\ ArtifactRecorded(ChecksReplaced(s, k, f), j, d, k).setups = s.setups
         /\ ArtifactRecorded(ChecksReplaced(s, k, f), j, d, k).systems = s.systems
<1>1. SystemUpserted(s, f) \in Store
  BY SystemUpsertedFacts
<1>2. /\ TrialUpserted(s, j, d, f).setups = SystemUpserted(s, f).setups
      /\ TrialUpserted(s, j, d, f).systems = SystemUpserted(s, f).systems
  BY <1>1 DEF TrialUpserted, Store
<1>3. /\ ScoresReplaced(s, k, f).setups = s.setups
      /\ ScoresReplaced(s, k, f).systems = s.systems
  BY DEF ScoresReplaced, Store
<1>4. /\ ArtifactRecorded(ChecksReplaced(s, k, f), j, d, k).setups = s.setups
      /\ ArtifactRecorded(ChecksReplaced(s, k, f), j, d, k).systems = s.systems
  BY DEF ArtifactRecorded, ChecksReplaced, Store
<1> QED
  BY <1>2, <1>3, <1>4

\* The tables of the setups are all there is to it.
LEMMA SetupsSame ==
  ASSUME NEW s, NEW w, NEW t, NEW c, NEW done,
         t.setups = w.setups, t.systems = w.systems, SetupsDone(s, w, c, done)
  PROVE  SetupsDone(s, t, c, done)
<1>1. \A y : SystemConfiguration(t, y) = SystemConfiguration(w, y)
  BY DEF SystemConfiguration
<1> QED
  BY <1>1 DEF SetupsDone, SystemsOk, SetupsKept, Known, HasSetup, AddedFor, ConfiguredBy

\* One more trial directory.
LEMMA SetupsExtend ==
  ASSUME NEW s, NEW w \in Store, NEW t, NEW c \in JobContents,
         NEW done \in SUBSET Present(c), NEW d \in Present(c), \A e \in done : e < d,
         SetupsDone(s, w, c, done),
         t.setups = SystemUpserted(w, c.trials[d]).setups,
         t.systems = SystemUpserted(w, c.trials[d]).systems
  PROVE  SetupsDone(s, t, c, done \cup {d})
<1> DEFINE f == c.trials[d]
<1>1. f \in TrialFile /\ d \in TrialDirs /\ f.system \in SystemKeys
  BY FileType DEF TrialFile
<1>2. /\ SystemsOk(t) /\ SetupsKept(w, t) /\ HasSetup(t, f)
      /\ \A i \in DOMAIN t.setups \ DOMAIN w.setups :
           t.setups[i] = SetupOf(f) /\ (f.setup = NULL \/ ~HasSetup(w, f))
      /\ SystemConfiguration(t, f.system) = f.setup
      /\ \A y \in SystemKeys \ {f.system} : SystemConfiguration(t, y) = SystemConfiguration(w, y)
  BY <1>1, SetupUpserted DEF SetupsDone
<1>3. \A e \in done : c.trials[e].system \in SystemKeys /\ e \in Nat /\ d \in Nat
  BY FileType DEF TrialFile, TrialDirs
<1> HIDE DEF f
<1>4. SetupsKept(s, t)
  BY <1>2 DEF SetupsDone, SetupsKept
<1>5. Known(t, c, done \cup {d})
  BY <1>2 DEF SetupsDone, Known, HasSetup, SetupsKept, f
<1>6. AddedFor(s, t, c, done \cup {d})
  <2> SUFFICES ASSUME NEW i \in DOMAIN t.setups \ DOMAIN s.setups
               PROVE  \/ t.setups[i].setup = NULL
                      \/ \E e \in done \cup {d} :
                           t.setups[i] = SetupOf(c.trials[e]) /\ ~HasSetup(s, c.trials[e])
    BY DEF AddedFor
  <2>1. CASE i \in DOMAIN w.setups
    <3>1. t.setups[i] = w.setups[i]
      BY <1>2, <2>1 DEF SetupsKept
    <3>2. \/ w.setups[i].setup = NULL
          \/ \E e \in done : w.setups[i] = SetupOf(c.trials[e]) /\ ~HasSetup(s, c.trials[e])
      BY <2>1 DEF SetupsDone, AddedFor
    <3> QED
      BY <3>1, <3>2
  <2>2. CASE i \notin DOMAIN w.setups
    <3>1. t.setups[i] = SetupOf(f) /\ (f.setup = NULL \/ ~HasSetup(w, f))
      BY <1>2, <2>2
    <3>2. HasSetup(s, f) => HasSetup(w, f)
      BY DEF SetupsDone, SetupsKept, HasSetup
    <3>3. CASE f.setup = NULL
      BY <3>1, <3>3 DEF SetupOf
    <3>4. CASE ~HasSetup(s, f)
      BY <3>1, <3>4 DEF f
    <3> QED
      BY <3>1, <3>2, <3>3, <3>4
  <2> QED
    BY <2>1, <2>2
<1>7. ConfiguredBy(s, t, c, done \cup {d})
  <2>1. ASSUME NEW e \in done \cup {d},
               \A x \in done \cup {d} : c.trials[x].system = c.trials[e].system => x <= e
        PROVE  SystemConfiguration(t, c.trials[e].system) = c.trials[e].setup
    <3>1. CASE e = d
      BY <1>2, <3>1 DEF f
    <3>2. CASE e # d
      <4>1. e \in done /\ e < d /\ c.trials[d].system # c.trials[e].system
        BY <1>3, <2>1, <3>2
      <4>2. SystemConfiguration(w, c.trials[e].system) = c.trials[e].setup
        BY <2>1, <4>1 DEF SetupsDone, ConfiguredBy
      <4> QED
        BY <1>2, <1>3, <4>1, <4>2 DEF f
    <3> QED
      BY <3>1, <3>2
  <2>2. ASSUME NEW y \in SystemKeys, \A e \in done \cup {d} : c.trials[e].system # y
        PROVE  SystemConfiguration(t, y) = SystemConfiguration(s, y)
    BY <1>2, <2>2 DEF SetupsDone, ConfiguredBy, f
  <2> QED
    BY <2>1, <2>2 DEF ConfiguredBy
<1> QED
  BY <1>2, <1>4, <1>5, <1>6, <1>7 DEF SetupsDone

LEMMA SetupKept ==
  ASSUME SetupInv, UNCHANGED <<writer, todo, work, store>>,
         writer # NoOne =>
           /\ dirs'[Job(writer)] = dirs[Job(writer)]
           /\ queue'[writer] = queue[writer]
           /\ pc'[writer] = pc[writer]
  PROVE  SetupInv'
<1>1. SystemsOk(store)' /\ RunsKnown(store)'
  BY DEF SetupInv, SystemsOk, RunsKnown
<1>2. ASSUME writer # NoOne
      PROVE  SetupsDone(store, work, Content(writer), DoneAt(writer, {"scores", "checks"}))'
  <2>1. Content(writer)' = Content(writer)
    BY <1>2 DEF Content, Job
  <2>2. DoneAt(writer, {"scores", "checks"})' = DoneAt(writer, {"scores", "checks"})
    BY <1>2, <2>1 DEF Done, DoneAt
  <2>3. SetupsDone(store, work, Content(writer), DoneAt(writer, {"scores", "checks"}))
    BY <1>2 DEF SetupInv
  <2> QED
    BY <2>1, <2>2, <2>3
<1> QED
  BY <1>1, <1>2 DEF SetupInv

\* What a commit leaves.
LEMMA SetupReleased ==
  ASSUME IInv, SetupInv, NEW p \in Ingesters, Release(p)
  PROVE  /\ SetupsDone(store, work, Content(p), Present(Content(p)))
         /\ SystemsOk(work)
         /\ RunsKnown(work)
<1> DEFINE c == Content(p)
<1>1. /\ writer = p /\ Job(p) \in Jobs /\ c \in JobContents
      /\ store \in Store /\ work \in Store /\ OthersKept(p)
  BY Released DEF IInv
<1>2. pc[p] = "trials" /\ todo = {} /\ p # NoOne
  BY ResultStoreAssumption DEF Release, At
<1>3. DoneAt(p, {"scores", "checks"}) = Present(c)
  BY <1>2 DEF DoneAt, Done
<1>4. SetupsDone(store, work, c, Present(c))
  BY <1>1, <1>2, <1>3 DEF SetupInv
<1>5. ASSUME NEW j \in Jobs, work.runs[j] # NULL
      PROVE  Known(work, work.runs[j], Present(work.runs[j]))
  <2>1. CASE j = Job(p)
    <3>1. work.runs[j] = c
      BY <1>1, <2>1 DEF OthersKept, Store
    <3> QED
      BY <1>4, <3>1 DEF SetupsDone
  <2>2. CASE j # Job(p)
    <3>1. work.runs[j] = store.runs[j]
      BY <1>1, <2>2 DEF OthersKept, Store
    <3>2. Known(store, store.runs[j], Present(store.runs[j]))
      BY <1>5, <3>1 DEF SetupInv, RunsKnown
    <3> QED
      BY <1>4, <3>1, <3>2 DEF SetupsDone, SetupsKept, Known, HasSetup
  <2> QED
    BY <2>1, <2>2
<1> QED
  BY <1>4, <1>5 DEF SetupsDone, RunsKnown

LEMMA SetupStarts ==
  ASSUME IInv, SetupInv, NEW p \in Ingesters, UpsertRun(p)
  PROVE  SetupInv'
<1>1. Job(p) \in Jobs /\ Content(p) \in JobContents
  BY JobFacts DEF UpsertRun, At, IInv
<1>2. /\ writer' = p /\ pc'[p] = "trials" /\ todo' = Present(Content(p))
      /\ work' = RunUpserted(store, Job(p), Content(p))
      /\ UNCHANGED <<dirs, store, queue>>
  BY DEF UpsertRun, Step, Content, IInv, TypeOK
<1>3. Content(p)' = Content(p)
  BY <1>2 DEF Content, Job
<1>4. DoneAt(p, {"scores", "checks"})' = {}
  BY <1>2, <1>3 DEF DoneAt, Done
<1>5. work'.setups = store.setups /\ work'.systems = store.systems
  BY <1>1, <1>2 DEF RunUpserted, Store, IInv, TypeOK
<1>6. SetupsDone(store, store, Content(p), {})
  BY DEF SetupInv, SetupsDone, SetupsKept, Known, AddedFor, ConfiguredBy
<1>7. SetupsDone(store, work', Content(p), {})
  BY <1>5, <1>6, SetupsSame
<1>8. (SystemsOk(store) /\ RunsKnown(store))'
  BY <1>2 DEF SetupInv, SystemsOk, RunsKnown
<1> QED
  BY <1>2, <1>3, <1>4, <1>7, <1>8 DEF SetupInv

LEMMA SetupWritten ==
  ASSUME IInv, SetupInv, NEW p \in Ingesters,
         UpsertTrial(p) \/ ReplaceScores(p) \/ ReplaceChecks(p)
  PROVE  SetupInv'
<1> DEFINE first == First(todo)
           c == Content(p)
           done == DoneAt(p, {"scores", "checks"})
<1>1. pc[p] \in InTransaction
  BY DEF UpsertTrial, ReplaceScores, ReplaceChecks, Write, At, InTransaction
<1>2. writer = p /\ p # NoOne
  BY <1>1, ResultStoreAssumption DEF IInv, LockInv
<1>3. todo # {}
  BY <1>2 DEF UpsertTrial, ReplaceScores, ReplaceChecks, Write, At, IInv, WriterInv, TodoInv
<1>4. /\ first \in todo /\ first \in Present(c) /\ first \in TrialDirs
      /\ \A e \in Done(p) : e < first
      /\ File(p) = c.trials[first] /\ File(p) \in TrialFile
      /\ Key(p) \in TrialKeys /\ Job(p) \in Jobs /\ c \in JobContents
  BY <1>1, <1>3, FileFacts, JobFacts DEF IInv
<1>5. work \in Store /\ Done(p) \in SUBSET Present(c)
  BY DEF IInv, TypeOK, Done
<1>6. SetupsDone(store, work, c, done)
  BY <1>2 DEF SetupInv
<1>7. UNCHANGED <<dirs, store, writer, queue>>
  BY DEF UpsertTrial, ReplaceScores, ReplaceChecks, Write
<1>8. Content(p)' = c
  BY <1>7 DEF Content, Job
<1> HIDE DEF c
<1>9. SetupsDone(store, work', c, DoneAt(p, {"scores", "checks"})')
  <2>1. CASE UpsertTrial(p)
    <3>1. /\ pc[p] = "trials" /\ pc'[p] = "scores" /\ todo' = todo
          /\ work' = TrialUpserted(work, Job(p), first, File(p))
      BY <2>1 DEF UpsertTrial, Write, At, Step, IInv, TypeOK
    <3>2. done = Done(p) /\ DoneAt(p, {"scores", "checks"})' = Done(p) \cup {first}
      BY <1>8, <3>1 DEF DoneAt, Done, c
    <3> HIDE DEF first, done
    <3>3. /\ work'.setups = SystemUpserted(work, c.trials[first]).setups
          /\ work'.systems = SystemUpserted(work, c.trials[first]).systems
      <4>1. LET t == TrialUpserted(work, Job(p), first, File(p))
            IN /\ t.setups = SystemUpserted(work, File(p)).setups
               /\ t.systems = SystemUpserted(work, File(p)).systems
        BY <1>4, <1>5, SetupsTouched
      <4> QED
        BY ONLY <1>4, <3>1, <4>1
    <3>4. SetupsDone(store, work', c, Done(p) \cup {first})
      BY <1>4, <1>5, <1>6, <3>2, <3>3, SetupsExtend
    <3> QED
      BY <3>2, <3>4
  <2>2. CASE ReplaceScores(p) \/ ReplaceChecks(p)
    <3>1. work'.setups = work.setups /\ work'.systems = work.systems
      <4>1. CASE ReplaceScores(p)
        <5>1. work' = ScoresReplaced(work, Key(p), File(p))
          BY <4>1 DEF ReplaceScores, Write
        <5> QED
          BY <1>4, <1>5, <5>1, SetupsTouched
      <4>2. CASE ReplaceChecks(p)
        <5>1. work' = ArtifactRecorded(ChecksReplaced(work, Key(p), File(p)), Job(p), first, Key(p))
          BY <4>2 DEF ReplaceChecks, Write
        <5> QED
          BY <1>4, <1>5, <5>1, SetupsTouched
      <4> QED
        BY <2>2, <4>1, <4>2
    <3>2. DoneAt(p, {"scores", "checks"})' = done
      <4>1. CASE ReplaceScores(p)
        BY <1>8, <4>1 DEF ReplaceScores, Write, At, Step, DoneAt, Done, c, IInv, TypeOK
      <4>2. CASE ReplaceChecks(p)
        <5>1. /\ pc[p] = "checks" /\ pc'[p] = "trials" /\ todo' = todo \ {first}
          BY <4>2 DEF ReplaceChecks, Write, At, Step, IInv, TypeOK
        <5> QED
          BY <1>4, <1>8, <5>1 DEF DoneAt, Done, c
      <4> QED
        BY <2>2, <4>1, <4>2
    <3> HIDE DEF done
    <3> QED
      BY <1>6, <3>1, <3>2, SetupsSame
  <2> QED
    BY <2>1, <2>2
<1>10. (SystemsOk(store) /\ RunsKnown(store))'
  BY <1>7 DEF SetupInv, SystemsOk, RunsKnown
<1> QED
  BY <1>2, <1>7, <1>8, <1>9, <1>10 DEF SetupInv

LEMMA SetupStep ==
  ASSUME IInv, SetupInv, [Next]_vars
  PROVE  SetupInv'
<1>1. writer # NoOne => writer \in Ingesters /\ pc[writer] \in InTransaction
  BY DEF IInv, LockInv, TypeOK
<1>2. ASSUME NEW p \in Ingesters, Ingest(p) PROVE SetupInv'
  <2>1. CASE Call(p) \/ OpenJob(p) \/ Return(p)
    <3>1. pc[p] \notin InTransaction
      BY <2>1 DEF Call, OpenJob, Return, At, InTransaction
    <3>2. \A q \in Ingesters \ {p} : pc'[q] = pc[q] /\ queue'[q] = queue[q]
      BY <2>1 DEF Call, OpenJob, Return, Step, IInv, TypeOK
    <3>3. UNCHANGED <<dirs, writer, todo, work, store>>
      BY <2>1 DEF Call, OpenJob, Return
    <3> QED
      BY <1>1, <3>1, <3>2, <3>3, SetupKept
  <2>2. CASE UpsertRun(p)
    BY <2>2, SetupStarts
  <2>3. CASE UpsertTrial(p) \/ ReplaceScores(p) \/ ReplaceChecks(p)
    BY <2>3, SetupWritten
  <2>4. CASE RollBack(p) \/ Abandon(p)
    <3>1. PICK there, left : EndJob(p, there, left) /\ store' = store
      BY <2>4 DEF RollBack, Abandon
    <3>2. CASE writer = p
      <4>1. writer' = NoOne
        BY <3>1, <3>2 DEF EndJob
      <4> QED
        BY <3>1, <4>1 DEF SetupInv, SystemsOk, RunsKnown
    <3>3. CASE writer # p
      BY <3>1, <3>3, SetupKept DEF EndJob, Step, IInv, TypeOK
    <3> QED
      BY <3>2, <3>3
  <2>5. CASE Release(p)
    <3>1. store' = work /\ writer' = NoOne
      BY <2>5, Released DEF Release, EndJob, IInv
    <3>2. SystemsOk(work) /\ RunsKnown(work)
      BY <2>5, SetupReleased
    <3> QED
      BY <3>1, <3>2 DEF SetupInv, SystemsOk, RunsKnown
  <2> QED
    BY <1>2, <2>1, <2>2, <2>3, <2>4, <2>5
    DEF Ingest, JobUnreadable, Locked, NoTrials, TrialUnparsable, BadReward, CommitLocked, Crash
<1>3. ASSUME NEW r \in Readers, Report(r) PROVE SetupInv'
  <2>1. UNCHANGED <<dirs, store, ingesting>>
    BY <1>3 DEF Report, Ask, Refuse, FindTrials, ComputeAggregate, ListAttempts, WriteReport, Read
  <2> QED
    BY <2>1, SetupKept DEF ingesting
<1>4. ASSUME NEW j \in Jobs, Rewrite(j) PROVE SetupInv'
  <2>1. UNCHANGED <<store, ingesting>>
    BY <1>4 DEF Rewrite
  <2>2. writer # NoOne => Job(writer) # j
    BY <1>1, <1>4 DEF Rewrite
  <2>3. \A i : i # j => dirs'[i] = dirs[i]
    BY <1>4 DEF Rewrite, IInv, TypeOK
  <2> QED
    BY <2>1, <2>2, <2>3, SetupKept DEF ingesting
<1>5. CASE UNCHANGED vars
  BY <1>5, SetupKept DEF vars, ingesting
<1> QED
  BY <1>2, <1>3, <1>4, <1>5 DEF Next

\* Re-ingesting a job leaves its rows as they are.
LEMMA ReingestKeepsRows ==
  ASSUME IInv, NEW p \in Ingesters, Release(p), store.runs[Job(p)] = Content(p)
  PROVE  JobPart(work, Job(p)) = JobPart(store, Job(p))
<1> DEFINE j == Job(p)
           c == Content(p)
<1>1. /\ j \in Jobs /\ c \in JobContents
      /\ store \in Store /\ work \in Store
      /\ OthersKept(p) /\ Whole(work, j, c)
  BY Released DEF IInv
<1>2. store.runs[j] = c /\ c # NULL
  BY <1>1, ResultStoreAssumption
<1>3. Whole(store, j, c)
  BY <1>1, <1>2 DEF IInv, StoreInv
<1> HIDE DEF j, c
<1>4. work.runs[j] = store.runs[j]
  BY <1>1, <1>2 DEF OthersKept, Store, j, c
<1>5. ASSUME NEW n \in TrialNames
      PROVE  /\ work.trials[<<j, n>>] = store.trials[<<j, n>>]
             /\ work.scores[<<j, n>>] = store.scores[<<j, n>>]
             /\ work.checks[<<j, n>>] = store.checks[<<j, n>>]
  <2>1. CASE <<j, n>> \in KeysOf(j, c)
    <3>1. PICK x \in Present(c) : n = NameOf(c, x)
      BY <2>1 DEF KeysOf
    <3> DEFINE d == LastDir(c, n)
    <3>2. /\ work.trials[<<j, n>>] = TrialRow(c.trials[d], d)
          /\ work.scores[<<j, n>>] = c.trials[d].rewards
          /\ work.checks[<<j, n>>] = c.trials[d].failed
      BY <1>1, <3>1, LastIsRecorded
    <3>3. /\ store.trials[<<j, n>>] = TrialRow(c.trials[d], d)
          /\ store.scores[<<j, n>>] = c.trials[d].rewards
          /\ store.checks[<<j, n>>] = c.trials[d].failed
      BY <1>1, <1>3, <3>1, LastIsRecorded
    <3> QED
      BY <3>2, <3>3
  <2>2. CASE <<j, n>> \notin KeysOf(j, c)
    <3>1. <<j, n>> \in TrialKeys
      BY <1>1 DEF TrialKeys
    <3> QED
      BY <1>1, <2>2, <3>1 DEF OthersKept, j, c
  <2> QED
    BY <2>1, <2>2
<1>6. ASSUME NEW d \in TrialDirs PROVE work.artifacts[<<j, d>>] = store.artifacts[<<j, d>>]
  <2>1. CASE d \in Present(c)
    BY <1>1, <1>3, <2>1 DEF Whole, ArtifactsRecorded
  <2>2. CASE d \notin Present(c)
    BY <1>1, <2>2 DEF OthersKept, j, c
  <2> QED
    BY <2>1, <2>2
<1> QED
  BY <1>4, <1>5, <1>6 DEF JobPart, j

\* Ingesting a directory again that has not changed leaves its rows as they are and
\* adds none to those of models and agents but where there is a NULL; each of its
\* systems then has this job's configuration, every other system its own.
\* (_upsert, _upsert_system, _ingest_trial)
THEOREM ReingestKeeps == Spec => ReingestIsIdempotent
<1> DEFINE Same ==
      \A p \in Ingesters :
        (writer = p /\ store' # store /\ store.runs[Job(p)] = dirs[Job(p)])
          => /\ JobPart(store', Job(p)) = JobPart(store, Job(p))
             /\ Configures(dirs[Job(p)], store, store')
             /\ OnlyNullsAdded(store, store')
<1>1. Init => SetupInv
  <2> SUFFICES ASSUME Init PROVE SetupInv
    OBVIOUS
  <2>1. SystemsOk(store) /\ RunsKnown(store)
    BY DEF Init, EmptyStore, SystemsOk, RunsKnown
  <2> QED
    BY <2>1 DEF Init, SetupInv
<1>2. IInv /\ SetupInv /\ [Next]_vars => SetupInv'
  BY SetupStep
<1>3. IInv /\ SetupInv /\ [Next]_vars => Same
  <2> SUFFICES ASSUME IInv, SetupInv, [Next]_vars, NEW p \in Ingesters,
                      writer = p, store' # store, store.runs[Job(p)] = Content(p)
               PROVE  /\ JobPart(store', Job(p)) = JobPart(store, Job(p))
                      /\ Configures(Content(p), store, store')
                      /\ OnlyNullsAdded(store, store')
    BY DEF Content
  <2> DEFINE c == Content(p)
  <2>1. PICK q \in Ingesters : Release(q)
    BY StoreChanges
  <2>2. q = p /\ store' = work /\ Job(p) \in Jobs /\ c \in JobContents
    BY <2>1, Released DEF IInv
  <2>3. JobPart(work, Job(p)) = JobPart(store, Job(p))
    BY <2>1, <2>2, ReingestKeepsRows
  <2>4. SetupsDone(store, work, c, Present(c))
    BY <2>1, <2>2, SetupReleased
  <2>5. Known(store, c, Present(c))
    BY <2>2, ResultStoreAssumption DEF SetupInv, RunsKnown
  <2> HIDE DEF c
  <2>6. Configures(c, store, work)
    BY <2>4 DEF SetupsDone, ConfiguredBy, Configures, SameSystem
  <2>7. OnlyNullsAdded(store, work)
    <3> SUFFICES ASSUME NEW i \in DOMAIN work.setups, i \notin DOMAIN store.setups
                 PROVE  work.setups[i].setup = NULL
      BY <2>4 DEF SetupsDone, SetupsKept, OnlyNullsAdded
    <3>1. ASSUME NEW d \in Present(c), work.setups[i] = SetupOf(c.trials[d]),
                 ~HasSetup(store, c.trials[d])
          PROVE  work.setups[i].setup = NULL
      BY <2>5, <3>1 DEF Known, SetupOf
    <3> QED
      BY <2>4, <3>1 DEF SetupsDone, AddedFor
  <2> QED
    BY <2>2, <2>3, <2>6, <2>7 DEF c
<1> QED
  BY <1>1, <1>2, <1>3, Inductive, PTL DEF Spec, ReingestIsIdempotent

-----------------------------------------------------------------------------
(* What readers find is a ledger.                                          *)

\* A job is opened only if it can be read, and the writer has taken only trial
\* directories that can be parsed.
Opened == {"opened"} \cup InTransaction

ReadableInv == \A p \in Ingesters : pc[p] \in Opened => Content(p).readable

ParsedInv ==
  writer # NoOne =>
    \A d \in DoneAt(writer, {"scores", "checks"}) : Content(writer).trials[d].state = "valid"

LEMMA ReadableStep ==
  ASSUME TypeOK, LockInv, ReadableInv, [Next]_vars
  PROVE  ReadableInv'
<1> SUFFICES ASSUME NEW q \in Ingesters, pc'[q] \in Opened
             PROVE  dirs'[Head(queue'[q])].readable
  BY DEF ReadableInv, Content, Job
<1>1. pc[q] \in Opened => dirs[Head(queue[q])].readable
  BY DEF ReadableInv, Content, Job
<1>2. ASSUME pc'[q] = pc[q], queue'[q] = queue[q], dirs' = dirs
      PROVE  dirs'[Head(queue'[q])].readable
  BY <1>1, <1>2
<1>3. ASSUME NEW p \in Ingesters, Ingest(p) PROVE dirs'[Head(queue'[q])].readable
  <2>1. dirs' = dirs /\ (q # p => pc'[q] = pc[q] /\ queue'[q] = queue[q])
    BY <1>3 DEF Ingest, Call, OpenJob, JobUnreadable, RollBack, UpsertRun, Locked, Abandon, NoTrials,
                TrialUnparsable, BadReward, UpsertTrial, ReplaceScores, ReplaceChecks, Write,
                Release, CommitLocked, Return, Crash, EndJob, Step, TypeOK
  <2>2. CASE OpenJob(p)
    BY <1>2, <2>1, <2>2 DEF OpenJob, Job
  <2>3. CASE UpsertRun(p) \/ UpsertTrial(p) \/ ReplaceScores(p) \/ ReplaceChecks(p)
    <3>1. pc[p] \in Opened /\ queue' = queue
      BY <2>3 DEF UpsertRun, UpsertTrial, ReplaceScores, ReplaceChecks, Write, At, Opened, InTransaction
    <3> QED
      BY <1>1, <1>2, <2>1, <3>1
  <2>4. ASSUME ~OpenJob(p), ~(UpsertRun(p) \/ UpsertTrial(p) \/ ReplaceScores(p) \/ ReplaceChecks(p))
        PROVE  pc'[p] \notin Opened
    BY <1>3, <2>4 DEF Ingest, Call, JobUnreadable, RollBack, Locked, Abandon, NoTrials,
                TrialUnparsable, BadReward, Release, CommitLocked, Return, Crash, EndJob, Step, TypeOK,
                Opened, InTransaction
  <2> QED
    BY <1>2, <2>1, <2>2, <2>3, <2>4
<1>4. ASSUME NEW r \in Readers, Report(r) PROVE dirs'[Head(queue'[q])].readable
  BY <1>2, <1>4 DEF Report, Ask, Refuse, FindTrials, ComputeAggregate, ListAttempts, WriteReport, Read,
                    ingesting
<1>5. ASSUME NEW j \in Jobs, Rewrite(j) PROVE dirs'[Head(queue'[q])].readable
  <2>1. UNCHANGED ingesting /\ Job(q) # j
    BY <1>5 DEF Rewrite, ingesting, Opened
  <2>2. dirs'[Job(q)] = dirs[Job(q)]
    BY <1>5, <2>1 DEF Rewrite, TypeOK
  <2> QED
    BY <1>1, <2>1, <2>2 DEF Job, ingesting
<1>6. CASE UNCHANGED vars
  BY <1>2, <1>6 DEF vars, ingesting
<1> QED
  BY <1>3, <1>4, <1>5, <1>6 DEF Next

LEMMA ParsedKept ==
  ASSUME ParsedInv, UNCHANGED <<writer, todo>>,
         writer # NoOne =>
           /\ dirs'[Job(writer)] = dirs[Job(writer)]
           /\ queue'[writer] = queue[writer]
           /\ pc'[writer] = pc[writer]
  PROVE  ParsedInv'
<1> SUFFICES ASSUME writer # NoOne
             PROVE  \A d \in DoneAt(writer, {"scores", "checks"})' :
                      Content(writer)'.trials[d].state = "valid"
  BY DEF ParsedInv
<1>1. Content(writer)' = Content(writer)
  BY DEF Content, Job
<1>2. DoneAt(writer, {"scores", "checks"})' = DoneAt(writer, {"scores", "checks"})
  BY <1>1 DEF Done, DoneAt
<1> QED
  BY <1>1, <1>2 DEF ParsedInv

LEMMA EndJobParsed ==
  ASSUME TypeOK, ParsedInv, NEW p \in Ingesters, NEW there, NEW left, EndJob(p, there, left)
  PROVE  ParsedInv'
<1>1. CASE writer = p
  BY <1>1 DEF EndJob, ParsedInv
<1>2. CASE writer # p
  BY <1>2, ParsedKept DEF EndJob, Step, TypeOK
<1> QED
  BY <1>1, <1>2

LEMMA ParsedStep ==
  ASSUME TypeOK, LockInv, WriterInv, ParsedInv, [Next]_vars
  PROVE  ParsedInv'
<1>1. writer # NoOne => writer \in Ingesters /\ pc[writer] \in InTransaction
  BY DEF LockInv, TypeOK
<1>2. ASSUME NEW p \in Ingesters, Ingest(p) PROVE ParsedInv'
  <2>1. CASE Call(p) \/ OpenJob(p) \/ Return(p)
    <3>1. pc[p] \notin InTransaction
      BY <2>1 DEF Call, OpenJob, Return, At, InTransaction
    <3>2. \A q \in Ingesters \ {p} : pc'[q] = pc[q] /\ queue'[q] = queue[q]
      BY <2>1 DEF Call, OpenJob, Return, Step, TypeOK
    <3>3. UNCHANGED <<dirs, writer, todo>>
      BY <2>1 DEF Call, OpenJob, Return
    <3> QED
      BY <1>1, <3>1, <3>2, <3>3, ParsedKept
  <2>2. CASE UpsertRun(p)
    <3>1. writer' = p /\ todo' = Present(Content(p)) /\ pc'[p] = "trials" /\ UNCHANGED <<dirs, queue>>
      BY <2>2 DEF UpsertRun, Step, Content, TypeOK
    <3>2. Content(p)' = Content(p)
      BY <3>1 DEF Content, Job
    <3>3. DoneAt(p, {"scores", "checks"})' = {}
      BY <3>1, <3>2 DEF DoneAt, Done
    <3> QED
      BY <3>1, <3>3 DEF ParsedInv
  <2>3. ASSUME NEW here \in InTransaction, NEW s, NEW there \in InTransaction,
               Write(p, here, s, there), here = "trials" => todo # {},
               here = "trials" => File(p).state = "valid",
               here = "trials" => there = "scores" /\ todo' = todo,
               here = "scores" => there = "checks" /\ todo' = todo,
               here = "checks" => there = "trials" /\ todo' = todo \ {First(todo)}
        PROVE  ParsedInv'
    <3>1. /\ writer = p /\ p # NoOne /\ writer' = p
          /\ Content(p)' = Content(p) /\ pc[p] = here /\ pc'[p] = there
      BY <2>3, WriterAtWork
    <3>2. DoneAt(p, {"scores", "checks"})' \subseteq Done(p) \cup {First(todo)}
      BY <2>3, <3>1 DEF DoneAt, Done, InTransaction
    <3>3. \A d \in Done(p) : Content(p).trials[d].state = "valid"
      BY <3>1 DEF ParsedInv, DoneAt
    <3>4. Content(p).trials[First(todo)].state = "valid"
      <4>1. CASE here = "trials"
        BY <2>3, <4>1 DEF File, Content
      <4>2. CASE here # "trials"
        BY <3>1, <4>2 DEF ParsedInv, DoneAt, InTransaction
      <4> QED
        BY <4>1, <4>2
    <3> QED
      BY <3>1, <3>2, <3>3, <3>4 DEF ParsedInv
  <2>4. CASE UpsertTrial(p)
    BY <2>3, <2>4 DEF UpsertTrial, InTransaction
  <2>5. CASE ReplaceScores(p)
    BY <2>3, <2>5 DEF ReplaceScores, InTransaction
  <2>6. CASE ReplaceChecks(p)
    BY <2>3, <2>6 DEF ReplaceChecks, InTransaction
  <2>7. CASE RollBack(p) \/ Abandon(p) \/ Release(p)
    BY <2>7, EndJobParsed DEF RollBack, Abandon, Release
  <2> QED
    BY <1>2, <2>1, <2>2, <2>4, <2>5, <2>6, <2>7
    DEF Ingest, JobUnreadable, Locked, NoTrials, TrialUnparsable, BadReward, CommitLocked, Crash
<1>3. ASSUME NEW r \in Readers, Report(r) PROVE ParsedInv'
  <2>1. UNCHANGED <<dirs, ingesting>>
    BY <1>3 DEF Report, Ask, Refuse, FindTrials, ComputeAggregate, ListAttempts, WriteReport, Read
  <2> QED
    BY <2>1, ParsedKept DEF ingesting
<1>4. ASSUME NEW j \in Jobs, Rewrite(j) PROVE ParsedInv'
  <2>1. UNCHANGED ingesting
    BY <1>4 DEF Rewrite
  <2>2. writer # NoOne => Job(writer) # j
    BY <1>1, <1>4 DEF Rewrite
  <2>3. \A i : i # j => dirs'[i] = dirs[i]
    BY <1>4 DEF Rewrite, TypeOK
  <2> QED
    BY <2>1, <2>2, <2>3, ParsedKept DEF ingesting
<1>5. CASE UNCHANGED vars
  BY <1>5, ParsedKept DEF vars, ingesting
<1> QED
  BY <1>2, <1>3, <1>4, <1>5 DEF Next

\* What the ledger has of store s.
Table(s) == [k \in TrialKeys |-> IF s.trials[k] = NULL THEN NULL ELSE Entry(s, k)]

\* The commit records all entries of the job.
LEMMA ReleaseRecords ==
  ASSUME IInv, ReadableInv, ParsedInv, NEW p \in Ingesters, Release(p)
  PROVE  \E j \in Jobs, c \in JobContents :
           /\ Ingestible(c)
           /\ Table(store)' =
                [k \in TrialKeys |-> IF k \in DOMAIN Entries(j, c) THEN Entries(j, c)[k] ELSE Table(store)[k]]
<1> DEFINE j == Job(p)
           c == Content(p)
<1>1. /\ writer = p /\ j \in Jobs /\ c \in JobContents /\ store' = work
      /\ OthersKept(p) /\ Whole(work, j, c)
  BY Released DEF IInv
<1>2. pc[p] = "trials" /\ todo = {} /\ Present(c) # {} /\ p # NoOne
  BY ResultStoreAssumption DEF Release, At, Content
<1>3. Ingestible(c)
  <2>1. c.readable
    BY <1>2 DEF ReadableInv, Opened, InTransaction
  <2>2. \A d \in Present(c) : c.trials[d].state = "valid"
    BY <1>1, <1>2 DEF ParsedInv, DoneAt, Done
  <2> QED
    BY <1>2, <2>1, <2>2 DEF Ingestible
<1>4. DOMAIN Entries(j, c) = KeysOf(j, c)
  BY DEF Entries, KeysOf, TrialKey, NameOf
<1>5. ASSUME NEW k \in TrialKeys, k \in KeysOf(j, c) PROVE Table(work)[k] = Entries(j, c)[k]
  <2>1. PICK x \in Present(c) : k = <<j, NameOf(c, x)>>
    BY <1>5 DEF KeysOf
  <2> DEFINE d == LastDir(c, NameOf(c, x))
  <2>2. /\ d \in Present(c)
        /\ work.trials[k] = TrialRow(c.trials[d], d)
        /\ work.scores[k] = c.trials[d].rewards
        /\ work.checks[k] = c.trials[d].failed
    <3>1. j \in Jobs /\ c \in JobContents /\ Whole(work, j, c)
      BY <1>1
    <3> HIDE DEF j, c
    <3> QED
      BY <2>1, <3>1, LastIsRecorded
  <2>3. Entries(j, c)[k] = [row |-> TrialRow(c.trials[d], d), dimensionScores |-> c.trials[d].rewards,
                            failedChecks |-> c.trials[d].failed]
    <3>1. k \in {TrialKey(j, c.trials[e]) : e \in Present(c)} /\ k[2] = NameOf(c, x)
      BY <2>1 DEF TrialKey, NameOf
    <3> QED
      BY <3>1, Zenon DEF Entries
  <2> HIDE DEF d
  <2>4. TrialRow(c.trials[d], d) # NULL
    BY <1>1, <2>2, FileType, RowType
  <2> QED
    BY <2>2, <2>3, <2>4 DEF Table, Entry
<1>6. ASSUME NEW k \in TrialKeys, k \notin KeysOf(j, c) PROVE Table(work)[k] = Table(store)[k]
  BY <1>1, <1>6 DEF OthersKept, Table, Entry
<1>7. Table(store)' = Table(work)
  BY <1>1 DEF Table, Entry
<1> HIDE DEF j, c
<1>8. Table(work) =
        [k \in TrialKeys |-> IF k \in DOMAIN Entries(j, c) THEN Entries(j, c)[k] ELSE Table(store)[k]]
  <2>1. Table(work) = [k \in TrialKeys |-> Table(work)[k]]
    BY DEF Table
  <2> QED
    BY <1>4, <1>5, <1>6, <2>1
<1> QED
  BY <1>1, <1>3, <1>7, <1>8

\* What readers find in the database is a behaviour of the ledger: nobody ever sees
\* a part of a job, a job with a file that does not parse, or a trial gone.
\* (ingest_jobs, _ingest_trial)
THEOREM RefinementOfTheLedger == Spec => RefinesLedger
<1>1. Init => ReadableInv /\ ParsedInv /\ Ledger!LedgerInit
  <2> SUFFICES ASSUME Init PROVE ReadableInv /\ ParsedInv /\ Ledger!LedgerInit
    OBVIOUS
  <2>1. ReadableInv /\ ParsedInv
    BY DEF Init, ReadableInv, Opened, InTransaction, ParsedInv
  <2>2. Ledger!LedgerInit
    BY DEF Init, Ledger!LedgerInit, EmptyStore
  <2> QED
    BY <2>1, <2>2
<1>2. IInv /\ ReadableInv /\ ParsedInv /\ [Next]_vars => (ReadableInv /\ ParsedInv)'
  BY ReadableStep, ParsedStep DEF IInv
<1>3. IInv /\ ReadableInv /\ ParsedInv /\ [Next]_vars => [Ledger!LedgerNext]_(Table(store))
  <2> SUFFICES ASSUME IInv, ReadableInv, ParsedInv, [Next]_vars
               PROVE  [Ledger!LedgerNext]_(Table(store))
    OBVIOUS
  <2>1. CASE UNCHANGED <<store, committed>>
    BY <2>1 DEF Table, Entry
  <2>2. ASSUME NEW p \in Ingesters, Release(p) PROVE Ledger!LedgerNext
    BY <2>2, ReleaseRecords DEF Ledger!LedgerNext, Ledger!Record, Table
  <2> QED
    BY <2>1, <2>2, StoreChanges
<1> QED
  BY <1>1, <1>2, <1>3, Inductive, PTL DEF Spec, RefinesLedger, Ledger!LedgerSpec, Table

=============================================================================
