----------------------- MODULE EvaluationPlanProofs -----------------------
(***************************************************************************)
(* Proofs about EvaluationPlan, for any configurations, commits, task      *)
(* files and histories, and any number of edits.                           *)
(*                                                                         *)
(* A process decides on what it has read, and what it has read may have    *)
(* changed: IInv relates, at each step, what the process holds to what is  *)
(* there now, under ~moved, and to the manifest, without it.  That trials  *)
(* are distinct and the estimate covers them is about the planner's        *)
(* functions, whatever the process holds (EstimateInv).                    *)
(***************************************************************************)
EXTENDS EvaluationPlan, DataLemmas

Verified == {"verifyTasks", "recheck", "gate", "executing"}
Resuming == {"verify"} \cup Verified

\* The configuration a process has is valid, and which run it is of.
ConfigInv ==
  /\ pc # "down" => config \in Documents /\ Valid(config)
  /\ pc \in Verified => config = manifest.config

Sources == {"historical", "configured_estimate", "mixed", "partial", "unavailable"}

\* What build_plan has read, and what it is still worth.
PlanInv ==
  /\ plan = [commit |-> plan.commit, dirty |-> plan.dirty, hashes |-> plan.hashes,
             estimate |-> plan.estimate]
  /\ pc \in {"down", "preflight", "git"} => plan = NoPlan
  /\ pc = "status" => plan.commit # NULL
  /\ (pc \in {"status", "hash", "estimate", "check", "create"} /\ ~moved) => plan.commit = commit
  /\ (pc \in {"hash", "estimate", "check", "create"} /\ ~moved /\ ~Unverified(plan)) =>
       content = Committed[plan.commit]
  /\ pc \in {"estimate", "check", "create"} =>
       /\ DOMAIN plan.hashes = ToSet(config.tasks)
       /\ ~moved => \A p \in DOMAIN plan.hashes : plan.hashes[p] = content[p]
  /\ pc \in {"check", "create"} =>
       plan.estimate.source \in Sources
  /\ pc = "create" =>
       /\ ~NotOfficial(config, plan, args)
       /\ Affordable(config, plan.estimate.total)
       /\ Acknowledged(plan.estimate.total)

\* What a run was estimated to cost was within its budget.
ManifestInv ==
  manifest # NULL \/ pc \in Resuming => Affordable(manifest.config, manifest.estimate.total)

\* What verify_resume_compatibility has compared, and what it has admitted.
ResumeInv ==
  /\ (pc \in Verified /\ ~moved) => commit = manifest.commit
  /\ TasksAreAsPlanned
  /\ pc = "executing" => Acknowledged(manifest.estimate.total)

IInv == TypeOK /\ ConfigInv /\ PlanInv /\ ManifestInv /\ OfficialIsCommitted /\ ResumeInv

-----------------------------------------------------------------------------
(* The estimate.                                                           *)

LEMMA EstimateSource ==
  ASSUME NEW c, NEW h
  PROVE  EstimateCost(c, h).source \in Sources
<1> DEFINE entries == Breakdown(c, h)
           sources == {entries[p].source : p \in DOMAIN entries}
           first == CHOOSE s \in sources : TRUE
           source == IF Cardinality(sources) = 1 THEN first
                     ELSE IF "unavailable" \in sources THEN "partial" ELSE "mixed"
<1>1. \A task, system : Entry(h, task, system).source \in Sources
  BY DEF Entry, Sources
<1>2. \A p \in DOMAIN entries : entries[p] = Entry(h, c.tasks[p[1]], c.systems[p[2]])
  BY DEF Breakdown
<1>3. sources \subseteq Sources
  <2> HIDE DEF entries
  <2> QED
    BY <1>1, <1>2
<1>4. EstimateCost(c, h).source = source
  BY DEF EstimateCost
<1> HIDE DEF sources
<1>5. Cardinality(sources) = 1 => sources # {}
  BY FS_EmptySet
<1>6. source \in Sources
  BY <1>3, <1>5 DEF Sources
<1> QED
  BY <1>4, <1>6

-----------------------------------------------------------------------------
(* Types.                                                                  *)

\* Where an execution or a refusal ends, and an edit between two steps.
LEMMA ExitType ==
  ASSUME TypeOK, Exit
  PROVE  TypeOK'
BY DEF TypeOK, Exit, environment, disk, Args, NoArgs

LEMMA EditFacts ==
  ASSUME TypeOK, Edit
  PROVE  /\ UNCHANGED <<manifest, over, spent, pc, args, config, plan>>
         /\ moved' = TRUE /\ edits' \in 0..MaxEdits
         /\ document' \in Documents /\ commit' \in Commits \cup {NULL}
         /\ content' \in [Paths -> Contents] /\ history' \in Histories
BY EvaluationPlanAssumption
DEF TypeOK, Edit, EditConfig, EditTask, Commit, Checkout, Ingested, Edited, disk

LEMMA TypeStep ==
  ASSUME TypeOK, ConfigInv, PlanInv, [Next]_vars
  PROVE  TypeOK'
<1>1. CASE Run
  BY <1>1 DEF TypeOK, Run, Step, environment, disk
<1>2. CASE Preflight \/ ReadHead \/ ReadStatus \/ HashTasks \/ Estimate \/ CheckBudget
  <2>1. /\ pc' \in {"status", "git", "hash", "estimate", "check", "create", "gate"}
        /\ moved' \in BOOLEAN
        /\ UNCHANGED <<environment, disk, args, config, edits>>
    BY <1>2 DEF TypeOK, Preflight, ReadHead, ReadStatus, HashTasks, Estimate, CheckBudget, Step
  <2> QED
    BY <2>1 DEF TypeOK, environment, disk
<1>3. CASE CreateRun
  <2>1. /\ pc = "create" /\ pc' = "executing"
        /\ manifest'.config = config /\ manifest'.trials = Expanded(config)
        /\ manifest'.hashes = plan.hashes /\ manifest'.estimate = plan.estimate
        /\ UNCHANGED <<environment, over, spent, args, config, edits, moved>>
    BY <1>3 DEF CreateRun, Step
  <2>2. manifest'.unverified \in BOOLEAN
    BY <1>3 DEF CreateRun, Unverified
  <2>3. /\ DOMAIN plan.hashes = ToSet(config.tasks)
        /\ plan.estimate.source \in Sources
    BY <2>1 DEF PlanInv
  <2>4. /\ manifest'.trials = Expanded(manifest'.config)
        /\ DOMAIN manifest'.hashes = ToSet(manifest'.config.tasks)
        /\ manifest'.estimate.source \in
             {"historical", "configured_estimate", "mixed", "partial", "unavailable"}
    BY <2>1, <2>3 DEF Sources
  <2> QED
    BY <2>1, <2>2, <2>4 DEF TypeOK, environment
<1>4. CASE Spend
  BY <1>4, EvaluationPlanAssumption DEF TypeOK, Spend, environment
<1>5. CASE Finish
  BY <1>5 DEF TypeOK, Finish, Step, environment, Args, NoArgs
<1>6. CASE Stop \/ Refuse
  BY <1>6, ExitType DEF Stop, Refuse, Refused
<1>7. CASE Resume
  BY <1>7 DEF TypeOK, Resume, Step, environment, disk, Args
<1>8. CASE VerifyGit \/ VerifyTasks \/ Gate
  BY <1>8 DEF TypeOK, VerifyGit, VerifyTasks, Gate, Step, environment, disk
<1>9. CASE Edit
  BY <1>9, EditFacts DEF TypeOK
<1>10. CASE UNCHANGED vars
  BY <1>10 DEF TypeOK, vars, environment, disk
<1> QED
  BY <1>1, <1>2, <1>3, <1>4, <1>5, <1>6, <1>7, <1>8, <1>9, <1>10 DEF Next

-----------------------------------------------------------------------------
(* The configuration.                                                      *)

LEMMA ConfigStep ==
  ASSUME TypeOK, ConfigInv, [Next]_vars
  PROVE  ConfigInv'
<1> USE DEF Verified
<1>1. CASE Run
  BY <1>1 DEF TypeOK, ConfigInv, Run, Step, disk, Valid
<1>2. CASE Preflight \/ ReadHead \/ ReadStatus \/ HashTasks \/ Estimate \/ CheckBudget
  <2>1. /\ pc \in {"preflight", "git", "status", "hash", "estimate", "check"} =>
             pc' \in {"git", "status", "hash", "estimate", "check", "create"}
        /\ pc \notin {"preflight", "git", "status", "hash", "estimate", "check"} =>
             pc = "recheck" /\ pc' = "gate"
        /\ UNCHANGED <<disk, config>>
    BY <1>2 DEF Preflight, ReadHead, ReadStatus, HashTasks, Estimate, CheckBudget, Step
  <2>2. Valid(config)' = Valid(config)
    BY <2>1 DEF Valid
  <2> QED
    BY <2>1, <2>2 DEF ConfigInv, disk
<1>3. CASE CreateRun
  <2>1. pc = "create" /\ pc' = "executing" /\ config' = config /\ manifest'.config = config
    BY <1>3 DEF CreateRun, Step
  <2>2. Valid(config)' = Valid(config)
    BY <2>1 DEF Valid
  <2> QED
    BY <2>1, <2>2 DEF ConfigInv
<1>4. CASE Spend
  <2>1. Valid(config)' = Valid(config)
    BY <1>4 DEF Spend, Valid
  <2> QED
    BY <1>4, <2>1 DEF ConfigInv, Spend
<1>5. CASE Finish
  BY <1>5 DEF ConfigInv, Finish, Step
<1>6. CASE Stop \/ Refuse
  BY <1>6 DEF ConfigInv, Stop, Refuse, Refused, Exit
<1>7. CASE Resume
  BY <1>7 DEF TypeOK, ConfigInv, Resume, Step, disk, Valid
<1>8. CASE VerifyGit \/ VerifyTasks \/ Gate
  <2>1. Valid(config)' = Valid(config)
    BY <1>8 DEF VerifyGit, VerifyTasks, Gate, Valid
  <2> QED
    BY <1>8, <2>1 DEF ConfigInv, VerifyGit, VerifyTasks, Gate, Step, SameConfig, disk
<1>9. CASE Edit
  <2>1. Valid(config)' = Valid(config)
    BY <1>9, EditFacts DEF Valid
  <2> QED
    BY <1>9, <2>1, EditFacts DEF ConfigInv
<1>10. CASE UNCHANGED vars
  <2>1. Valid(config)' = Valid(config)
    BY <1>10 DEF vars, Valid
  <2> QED
    BY <1>10, <2>1 DEF ConfigInv, vars, disk
<1> QED
  BY <1>1, <1>2, <1>3, <1>4, <1>5, <1>6, <1>7, <1>8, <1>9, <1>10 DEF Next

-----------------------------------------------------------------------------
(* What was read.                                                          *)

LEMMA PlanDropped ==
  ASSUME plan' = NoPlan, pc' \notin {"status", "hash", "estimate", "check", "create"}
  PROVE  PlanInv'
BY DEF PlanInv, NoPlan

LEMMA PlanKept ==
  ASSUME PlanInv, plan' = plan, pc' \in Resuming
  PROVE  PlanInv'
BY DEF PlanInv, Resuming, Verified

LEMMA PlanStep ==
  ASSUME TypeOK, ConfigInv, PlanInv, [Next]_vars
  PROVE  PlanInv'
<1>1. CASE Run
  BY <1>1 DEF PlanInv, Run, Step
<1>2. CASE Preflight
  <2>1. \/ pc = "preflight" /\ pc' = "git"
        \/ pc = "recheck" /\ pc' = "gate"
    BY <1>2 DEF Preflight, Step
  <2> QED
    BY <1>2, <2>1 DEF PlanInv, Preflight
<1>3. CASE ReadHead
  <2>1. /\ pc = "git" /\ pc' = IF commit = NULL THEN "hash" ELSE "status"
        /\ plan' = [plan EXCEPT !.commit = commit] /\ commit' = commit
    BY <1>3 DEF ReadHead, Step, environment
  <2>2. plan' = [commit |-> commit, dirty |-> plan.dirty, hashes |-> plan.hashes,
                 estimate |-> plan.estimate]
    BY <2>1 DEF PlanInv
  <2>3. plan'.commit = commit
    BY <2>2
  <2>4. commit = NULL => Unverified(plan')
    BY <2>3 DEF Unverified
  <2>5. plan' = [commit |-> plan'.commit, dirty |-> plan'.dirty, hashes |-> plan'.hashes,
                 estimate |-> plan'.estimate]
    BY <2>2
  <2> QED
    BY <2>1, <2>3, <2>4, <2>5 DEF PlanInv
<1>4. CASE ReadStatus
  <2>1. /\ pc = "status" /\ pc' = "hash"
        /\ plan' = [plan EXCEPT !.dirty = Dirty] /\ UNCHANGED <<commit, content, moved>>
    BY <1>4 DEF ReadStatus, Step, environment
  <2>2. plan' = [commit |-> plan.commit, dirty |-> Dirty, hashes |-> plan.hashes,
                 estimate |-> plan.estimate]
    BY <2>1 DEF PlanInv
  <2>3. plan'.commit = plan.commit
    BY <2>2
  <2>4. Dirty => Unverified(plan')
    BY <2>2 DEF Unverified
  <2>5. plan' = [commit |-> plan'.commit, dirty |-> plan'.dirty, hashes |-> plan'.hashes,
                 estimate |-> plan'.estimate]
    BY <2>2
  <2>6. plan.commit # NULL /\ (~moved => plan.commit = commit)
    BY <2>1 DEF PlanInv
  <2>7. (~moved /\ ~Unverified(plan')) => content = Committed[plan.commit]
    BY <2>4, <2>6 DEF Dirty
  <2> QED
    BY <2>1, <2>3, <2>5, <2>6, <2>7 DEF PlanInv
<1>5. CASE HashTasks
  <2>1. /\ pc = "hash" /\ pc' = "estimate"
        /\ plan' = [plan EXCEPT !.hashes = Hashes(config)]
        /\ UNCHANGED <<commit, content, config, moved>>
    BY <1>5 DEF HashTasks, Step, environment
  <2>2. plan' = [commit |-> plan.commit, dirty |-> plan.dirty, hashes |-> Hashes(config),
                 estimate |-> plan.estimate]
    BY <2>1 DEF PlanInv
  <2>3. plan'.commit = plan.commit /\ plan'.hashes = Hashes(config)
    BY <2>2
  <2>4. Unverified(plan) => Unverified(plan')
    BY <2>2 DEF Unverified
  <2>5. plan' = [commit |-> plan'.commit, dirty |-> plan'.dirty, hashes |-> plan'.hashes,
                 estimate |-> plan'.estimate]
    BY <2>2
  <2>6. /\ DOMAIN Hashes(config) = ToSet(config.tasks)
        /\ \A p \in DOMAIN Hashes(config) : Hashes(config)[p] = content[p]
    BY DEF Hashes
  <2> QED
    BY <2>1, <2>3, <2>4, <2>5, <2>6 DEF PlanInv
<1>6. CASE Estimate
  <2> DEFINE e == EstimateCost(config, history)
  <2>1. /\ pc = "estimate" /\ pc' = "check"
        /\ plan' = [plan EXCEPT !.estimate = e]
        /\ UNCHANGED <<commit, content, config, moved>>
    BY <1>6 DEF Estimate, Step, environment
  <2>2. e.source \in Sources
    BY EstimateSource
  <2> HIDE DEF e
  <2>3. plan' = [commit |-> plan.commit, dirty |-> plan.dirty, hashes |-> plan.hashes, estimate |-> e]
    BY <2>1 DEF PlanInv
  <2>4. plan'.commit = plan.commit /\ plan'.hashes = plan.hashes /\ plan'.estimate = e
    BY <2>3
  <2>5. Unverified(plan) => Unverified(plan')
    BY <2>3 DEF Unverified
  <2>6. plan' = [commit |-> plan'.commit, dirty |-> plan'.dirty, hashes |-> plan'.hashes,
                 estimate |-> plan'.estimate]
    BY <2>3
  <2> QED
    BY <2>1, <2>2, <2>4, <2>5, <2>6 DEF PlanInv
<1>7. CASE CheckBudget
  <2>1. /\ pc = "check" /\ pc' = "create"
        /\ UNCHANGED <<commit, content, config, args, plan, moved>>
        /\ ~NotOfficial(config, plan, args)
        /\ Affordable(config, plan.estimate.total)
        /\ Acknowledged(plan.estimate.total)
    BY <1>7 DEF CheckBudget, Step, environment
  <2> QED
    BY <2>1 DEF PlanInv, Acknowledged
<1>8. CASE CreateRun \/ Finish \/ Stop \/ Refuse
  BY <1>8, PlanDropped DEF CreateRun, Finish, Step, Stop, Refuse, Refused, Exit
<1>9. CASE Spend \/ Resume \/ VerifyGit \/ VerifyTasks \/ Gate
  BY <1>9, PlanKept DEF Spend, Resume, VerifyGit, VerifyTasks, Gate, Step, Resuming, Verified
<1>10. CASE Edit
  BY <1>10, EditFacts DEF PlanInv, Acknowledged
<1>11. CASE UNCHANGED vars
  BY <1>11 DEF PlanInv, Acknowledged, vars, environment, disk
<1> QED
  BY <1>1, <1>2, <1>3, <1>4, <1>5, <1>6, <1>7, <1>8, <1>9, <1>10, <1>11 DEF Next

-----------------------------------------------------------------------------
(* What was decided.                                                       *)

LEMMA Created ==
  ASSUME TypeOK, ConfigInv, PlanInv, CreateRun
  PROVE  /\ pc' = "executing" /\ UNCHANGED <<commit, content, config, args, moved>>
         /\ Affordable(manifest'.config, manifest'.estimate.total)
         /\ Acknowledged(manifest'.estimate.total)
         /\ (manifest'.config.official /\ ~manifest'.args.allowDirty) => ~manifest'.unverified
         /\ (~manifest'.unverified /\ ~manifest'.moved) =>
              \A p \in DOMAIN manifest'.hashes :
                manifest'.hashes[p] = Committed[manifest'.commit][p]
         /\ ~moved =>
              /\ commit = manifest'.commit
              /\ \A p \in DOMAIN manifest'.hashes : content[p] = manifest'.hashes[p]
<1>1. /\ pc = "create" /\ pc' = "executing" /\ UNCHANGED <<commit, content, config, args, moved>>
      /\ manifest'.config = config /\ manifest'.commit = plan.commit
      /\ manifest'.hashes = plan.hashes /\ manifest'.estimate = plan.estimate
      /\ manifest'.args = args
  BY DEF CreateRun, Step, environment
<1>2. ~manifest'.unverified => ~Unverified(plan)
  BY DEF CreateRun
<1>3. ~Unverified(plan) => ~manifest'.unverified
  BY DEF CreateRun
<1>4. ~manifest'.moved => ~moved
  BY DEF CreateRun
<1>5. /\ ~NotOfficial(config, plan, args)
      /\ Affordable(config, plan.estimate.total)
      /\ Acknowledged(plan.estimate.total)
  BY <1>1 DEF PlanInv
<1>6. ~moved => plan.commit = commit /\ \A p \in DOMAIN plan.hashes : plan.hashes[p] = content[p]
  BY <1>1 DEF PlanInv
<1>7. (~moved /\ ~Unverified(plan)) => content = Committed[plan.commit]
  BY <1>1 DEF PlanInv
<1>8. (manifest'.config.official /\ ~manifest'.args.allowDirty) => ~manifest'.unverified
  BY <1>1, <1>3, <1>5 DEF NotOfficial
<1>9. (~manifest'.unverified /\ ~manifest'.moved) =>
        \A p \in DOMAIN manifest'.hashes : manifest'.hashes[p] = Committed[manifest'.commit][p]
  BY <1>1, <1>2, <1>4, <1>6, <1>7
<1> QED
  BY <1>1, <1>5, <1>6, <1>8, <1>9

\* No other step writes the manifest.
LEMMA ManifestKept ==
  ASSUME [Next]_vars, ~CreateRun
  PROVE  manifest' = manifest
BY DEF Next, Run, Preflight, ReadHead, ReadStatus, HashTasks, Estimate, CheckBudget, Spend, Finish,
       Stop, Resume, VerifyGit, VerifyTasks, Gate, Refuse, Refused, Exit, Edit, EditConfig, EditTask,
       Commit, Checkout, Ingested, Edited, disk, vars

LEMMA DecisionStep ==
  ASSUME TypeOK, ConfigInv, PlanInv, ManifestInv, OfficialIsCommitted, ResumeInv, [Next]_vars
  PROVE  (ManifestInv /\ OfficialIsCommitted /\ ResumeInv)'
<1>1. CASE CreateRun
  <2>1. (ManifestInv /\ OfficialIsCommitted)'
    BY <1>1, Created DEF ManifestInv, OfficialIsCommitted, Affordable
  <2>2. ResumeInv'
    BY <1>1, Created DEF ResumeInv, TasksAreAsPlanned, Acknowledged, Verified
  <2> QED
    BY <2>1, <2>2
<1>2. ASSUME ~CreateRun PROVE OfficialIsCommitted'
  BY <1>2, ManifestKept DEF OfficialIsCommitted
<1>3. ASSUME ~CreateRun PROVE ManifestInv'
  <2>1. manifest' = manifest
    BY <1>3, ManifestKept
  <2>2. pc' \in Resuming => pc \in Resuming \/ manifest # NULL
    BY <1>3
    DEF Next, Run, Preflight, ReadHead, ReadStatus, HashTasks, Estimate, CheckBudget, Spend, Finish,
        Stop, Resume, VerifyGit, VerifyTasks, Gate, Refuse, Refused, Exit, Edit, EditConfig, EditTask,
        Commit, Checkout, Ingested, Edited, vars, Step, Resuming, Verified
  <2> QED
    BY <2>1, <2>2 DEF ManifestInv, Affordable
<1>4. ASSUME ~CreateRun PROVE ResumeInv'
  <2>1. manifest' = manifest
    BY <1>4, ManifestKept
  <2>2. CASE pc' \notin Verified
    BY <2>2 DEF ResumeInv, TasksAreAsPlanned, Verified
  <2>3. CASE VerifyGit
    BY <2>1, <2>3 DEF VerifyGit, Step, environment, ResumeInv, TasksAreAsPlanned
  <2>4. CASE VerifyTasks
    <3>1. /\ pc = "verifyTasks" /\ pc' = "recheck" /\ UNCHANGED <<commit, content, moved>>
          /\ Hashes(config) = manifest.hashes
      BY <2>4 DEF VerifyTasks, Step, environment, SameTasks
    <3>2. \A p \in DOMAIN manifest.hashes : content[p] = manifest.hashes[p]
      BY <3>1 DEF Hashes
    <3>3. ~moved => commit = manifest.commit
      BY <3>1 DEF ResumeInv, Verified
    <3> QED
      BY <2>1, <3>1, <3>2, <3>3 DEF ResumeInv, TasksAreAsPlanned
  <2>5. CASE Preflight \/ Gate \/ Spend
    <3>1. UNCHANGED <<commit, content, args, moved>>
      BY <2>5 DEF Preflight, Gate, Spend, environment
    <3>2. \/ pc' \in {"git", "gate"}
          \/ pc' = "executing" /\ Acknowledged(manifest.estimate.total)
      BY <2>5 DEF Preflight, Gate, Spend, Step, ResumeInv
    <3>3. pc' # "git" => pc \in {"recheck", "gate", "executing"}
      BY <2>5 DEF Preflight, Gate, Spend, Step
    <3> QED
      BY <2>1, <3>1, <3>2, <3>3 DEF ResumeInv, TasksAreAsPlanned, Acknowledged, Verified
  <2>6. CASE Edit
    BY <2>1, <2>6, EditFacts DEF ResumeInv, TasksAreAsPlanned, Acknowledged
  <2>7. CASE UNCHANGED vars
    BY <2>7 DEF ResumeInv, TasksAreAsPlanned, Acknowledged, vars, environment, disk
  <2>8. CASE pc' \in Verified /\ ~VerifyGit /\ ~VerifyTasks /\ ~Preflight /\ ~Gate /\ ~Spend
    <3>1. Edit \/ UNCHANGED vars
      BY <1>4, <2>8
      DEF Next, Run, ReadHead, ReadStatus, HashTasks, Estimate, CheckBudget, Finish, Stop, Resume,
          Refuse, Refused, Exit, Step, Verified
    <3> QED
      BY <2>6, <2>7, <3>1
  <2> QED
    BY <2>2, <2>3, <2>4, <2>5, <2>8
<1> QED
  BY <1>1, <1>2, <1>3, <1>4

-----------------------------------------------------------------------------
(* The trials.                                                             *)

TrialRecord == [task : Paths, system : System, attempt : Nat]

\* Which task, system and attempt a trial of c is of.
Slots(c) ==
  {s \in (DOMAIN c.tasks) \X (DOMAIN c.systems) \X Nat : s[3] \in 1..c.systems[s[2]].trials}

\* b says so for each trial that is planned, and has each slot once.
Planned(b, c) ==
  /\ b \in [1..Len(Expanded(c)) -> Slots(c)]
  /\ \A k, l \in 1..Len(Expanded(c)) : b[k] = b[l] => k = l
  /\ \A s \in Slots(c) : \E k \in 1..Len(Expanded(c)) : b[k] = s
  /\ \A k \in 1..Len(Expanded(c)) : Expanded(c)[k] = Trial(c, b[k][1], b[k][2], b[k][3])

LEMMA DocumentTypes ==
  ASSUME NEW c \in Document
  PROVE  /\ c.tasks \in Seq(Paths) /\ Len(c.tasks) \in Nat /\ DOMAIN c.tasks = 1..Len(c.tasks)
         /\ c.systems \in Seq(System) /\ Len(c.systems) \in Nat
         /\ DOMAIN c.systems = 1..Len(c.systems)
         /\ \A i \in DOMAIN c.tasks : c.tasks[i] \in Paths
         /\ \A j \in DOMAIN c.systems : c.systems[j] \in System /\ c.systems[j].trials \in Nat
<1>1. c.tasks \in Seq(Paths) /\ c.systems \in Seq(System)
  BY DEF Document
<1>2. \A s \in System : s.trials \in Nat
  BY DEF System
<1> QED
  BY <1>1, <1>2

\* A function of the numbers up to n is a sequence.
LEMMA AsSequence ==
  ASSUME NEW T, NEW n \in Nat, NEW f \in [1..n -> T]
  PROVE  f \in Seq(T) /\ Len(f) = n
  OBVIOUS

\* expand_trials plans each attempt of each system at each task once.
LEMMA ExpandedPlanned ==
  ASSUME NEW c \in Document
  PROVE  /\ Expanded(c) \in Seq(TrialRecord)
         /\ \E b : Planned(b, c)
<1> DEFINE attempts(i, j) == [a \in 1..c.systems[j].trials |-> Trial(c, i, j, a)]
           inner(i) == [j \in DOMAIN c.systems |-> attempts(i, j)]
           outer == [i \in DOMAIN c.tasks |-> FlattenSeq(inner(i))]
<1>1. Expanded(c) = FlattenSeq(outer)
  BY DEF Expanded
<1>2. ASSUME NEW i \in DOMAIN c.tasks, NEW j \in DOMAIN c.systems
      PROVE  /\ attempts(i, j) \in Seq(TrialRecord)
             /\ Len(attempts(i, j)) = c.systems[j].trials
  <2>1. \A a \in 1..c.systems[j].trials : Trial(c, i, j, a) \in TrialRecord
    BY DocumentTypes DEF Trial, TrialRecord
  <2>2. c.systems[j].trials \in Nat
    BY DocumentTypes
  <2> QED
    BY <2>1, <2>2
<1>3. ASSUME NEW i \in DOMAIN c.tasks
      PROVE  /\ inner(i) \in Seq(Seq(TrialRecord)) /\ Len(inner(i)) = Len(c.systems)
             /\ FlattenSeq(inner(i)) \in Seq(TrialRecord)
             /\ \E d : Locates(d, FlattenSeq(inner(i)), inner(i), Len(c.systems))
  <2>1. inner(i) \in Seq(Seq(TrialRecord)) /\ Len(inner(i)) = Len(c.systems)
    <3>1. Len(c.systems) \in Nat /\ DOMAIN c.systems = 1..Len(c.systems)
      BY DocumentTypes
    <3>2. \A j \in DOMAIN c.systems : attempts(i, j) \in Seq(TrialRecord)
      BY <1>2
    <3> HIDE DEF attempts
    <3>3. inner(i) \in [1..Len(c.systems) -> Seq(TrialRecord)]
      BY <3>1, <3>2
    <3> HIDE DEF inner
    <3> QED
      BY <3>1, <3>3, AsSequence
  <2> HIDE DEF inner
  <2> QED
    BY <2>1, FlattenLocated
<1>4. outer \in Seq(Seq(TrialRecord)) /\ Len(outer) = Len(c.tasks)
  <2>1. Len(c.tasks) \in Nat /\ DOMAIN c.tasks = 1..Len(c.tasks)
    BY DocumentTypes
  <2>2. \A i \in DOMAIN c.tasks : FlattenSeq(inner(i)) \in Seq(TrialRecord)
    BY <1>3
  <2> HIDE DEF inner
  <2>3. outer \in [1..Len(c.tasks) -> Seq(TrialRecord)]
    BY <2>1, <2>2
  <2> HIDE DEF outer
  <2> QED
    BY <2>1, <2>3, AsSequence
<1>5. FlattenSeq(outer) \in Seq(TrialRecord)
      /\ \E d : Locates(d, FlattenSeq(outer), outer, Len(c.tasks))
  <2> HIDE DEF outer
  <2> QED
    BY <1>4, FlattenLocated
<1>6. PICK out : Locates(out, FlattenSeq(outer), outer, Len(c.tasks))
  BY <1>5
<1> DEFINE in(i) == CHOOSE d : Locates(d, FlattenSeq(inner(i)), inner(i), Len(c.systems))
           t == Expanded(c)
           b == [k \in 1..Len(t) |->
                   <<out[k][1], in(out[k][1])[out[k][2]][1], in(out[k][1])[out[k][2]][2]>>]
<1>7. \A i \in DOMAIN c.tasks : Locates(in(i), outer[i], inner(i), Len(c.systems))
  BY <1>3
<1>8. \A i \in DOMAIN c.tasks, j \in DOMAIN c.systems :
        /\ Len(inner(i)[j]) = c.systems[j].trials
        /\ \A a \in 1..c.systems[j].trials : inner(i)[j][a] = Trial(c, i, j, a)
  BY <1>2
<1> HIDE DEF inner, outer, in
<1>9. ASSUME NEW k \in 1..Len(t)
      PROVE  /\ out[k][1] \in DOMAIN c.tasks
             /\ out[k] = <<out[k][1], out[k][2]>>
             /\ out[k][2] \in 1..Len(outer[out[k][1]])
             /\ t[k] = outer[out[k][1]][out[k][2]]
  BY <1>1, <1>6, DocumentTypes DEF Locates, Places
<1>10. ASSUME NEW i \in DOMAIN c.tasks, NEW m \in 1..Len(outer[i])
       PROVE  /\ in(i)[m][1] \in DOMAIN c.systems
              /\ in(i)[m] = <<in(i)[m][1], in(i)[m][2]>>
              /\ in(i)[m][2] \in Nat
              /\ in(i)[m][2] \in 1..c.systems[in(i)[m][1]].trials
              /\ outer[i][m] = Trial(c, i, in(i)[m][1], in(i)[m][2])
  <2>1. in(i)[m] \in Places(inner(i), Len(c.systems))
        /\ outer[i][m] = inner(i)[in(i)[m][1]][in(i)[m][2]]
    BY <1>7 DEF Locates
  <2>2. in(i)[m][1] \in DOMAIN c.systems /\ in(i)[m] = <<in(i)[m][1], in(i)[m][2]>>
        /\ in(i)[m][2] \in Nat /\ in(i)[m][2] \in 1..Len(inner(i)[in(i)[m][1]])
    BY <2>1, DocumentTypes DEF Places
  <2> QED
    BY <1>8, <2>1, <2>2
<1>11. ASSUME NEW k \in 1..Len(t)
       PROVE  /\ b[k] = <<out[k][1], in(out[k][1])[out[k][2]][1], in(out[k][1])[out[k][2]][2]>>
              /\ b[k] \in Slots(c)
              /\ t[k] = Trial(c, b[k][1], b[k][2], b[k][3])
  <2> DEFINE i == out[k][1]
             m == out[k][2]
             j == in(i)[m][1]
             a == in(i)[m][2]
  <2>1. b[k] = <<i, j, a>>
    OBVIOUS
  <2>2. i \in DOMAIN c.tasks /\ m \in 1..Len(outer[i]) /\ t[k] = outer[i][m]
    BY <1>9
  <2>3. j \in DOMAIN c.systems /\ a \in Nat /\ a \in 1..c.systems[j].trials
        /\ outer[i][m] = Trial(c, i, j, a)
    BY <1>10, <2>2
  <2> HIDE DEF i, m, j, a, b, t
  <2>4. b[k][1] = i /\ b[k][2] = j /\ b[k][3] = a
    BY <2>1
  <2>5. b[k] \in Slots(c)
    BY <2>1, <2>2, <2>3, <2>4 DEF Slots
  <2> QED
    BY <2>1, <2>2, <2>3, <2>4, <2>5 DEF i, m, j, a
<1>12. b \in [1..Len(t) -> Slots(c)]
  BY <1>11
<1> HIDE DEF b
<1>13. ASSUME NEW k \in 1..Len(t), NEW l \in 1..Len(t), b[k] = b[l]
       PROVE  k = l
  <2>1. out[k][1] = out[l][1]
        /\ in(out[k][1])[out[k][2]][1] = in(out[l][1])[out[l][2]][1]
        /\ in(out[k][1])[out[k][2]][2] = in(out[l][1])[out[l][2]][2]
    BY <1>11, <1>13
  <2> DEFINE i == out[k][1]
             p == in(i)[out[k][2]]
             q == in(i)[out[l][2]]
  <2>2. /\ i \in DOMAIN c.tasks
        /\ out[k][2] \in 1..Len(outer[i]) /\ out[l][2] \in 1..Len(outer[i])
        /\ out[k] = <<i, out[k][2]>> /\ out[l] = <<i, out[l][2]>>
    BY <1>9, <2>1
  <2>0. p[1] = q[1] /\ p[2] = q[2]
    BY <2>1
  <2> HIDE DEF i
  <2>3. p = q
    <3>1. p = <<p[1], p[2]>> /\ q = <<q[1], q[2]>>
      BY <1>10, <2>2
    <3> HIDE DEF p, q
    <3> QED
      BY <2>0, <3>1
  <2>4. out[k][2] = out[l][2]
    <3>1. Locates(in(i), outer[i], inner(i), Len(c.systems))
      BY <1>7, <2>2
    <3>2. \A m, n \in 1..Len(outer[i]) : in(i)[m] = in(i)[n] => m = n
      BY <3>1 DEF Locates
    <3> QED
      BY <2>2, <2>3, <3>2
  <2>5. out[k] = out[l]
    BY <2>2, <2>4
  <2> QED
    BY <1>1, <1>6, <2>5 DEF Locates
<1>14. ASSUME NEW s \in Slots(c)
       PROVE  \E k \in 1..Len(t) : b[k] = s
  <2> DEFINE i == s[1]
             j == s[2]
             a == s[3]
  <2>1. s = <<i, j, a>> /\ i \in DOMAIN c.tasks /\ j \in DOMAIN c.systems /\ a \in Nat
        /\ a \in 1..c.systems[j].trials
    BY DEF Slots
  <2> HIDE DEF i, j, a
  <2>2. <<j, a>> \in Places(inner(i), Len(c.systems))
    BY <1>8, <2>1, DocumentTypes DEF Places
  <2>3. PICK m \in 1..Len(outer[i]) : in(i)[m] = <<j, a>>
    BY <1>7, <2>1, <2>2 DEF Locates
  <2>4. <<i, m>> \in Places(outer, Len(c.tasks))
    BY <2>1, <2>3, DocumentTypes DEF Places
  <2>5. PICK k \in 1..Len(t) : out[k] = <<i, m>>
    BY <1>1, <1>6, <2>4 DEF Locates
  <2>6. out[k][1] = i /\ out[k][2] = m /\ in(i)[m][1] = j /\ in(i)[m][2] = a
    BY <2>3, <2>5
  <2>7. b[k] = s
    BY <1>11, <2>1, <2>6
  <2> QED
    BY <2>7
<1>15. Planned(b, c)
  BY <1>11, <1>12, <1>13, <1>14 DEF Planned
<1> QED
  BY <1>1, <1>5, <1>15

\* Trial ids are as many as trials, and every slot has one, if no two tasks and no
\* two system keys are the same.
LEMMA ExpandedDistinct ==
  ASSUME NEW c \in Document, IsInjective(c.tasks),
         IsInjective([i \in DOMAIN c.systems |-> SystemKey(c.systems[i])])
  PROVE  /\ Cardinality(TrialIds(c)) = Len(Expanded(c))
         /\ \A i \in DOMAIN c.tasks, k \in DOMAIN c.systems : \A a \in 1..c.systems[k].trials :
              TrialId(Trial(c, i, k, a)) \in TrialIds(c)
<1> DEFINE t == Expanded(c)
           id == [k \in 1..Len(t) |-> TrialId(t[k])]
<1>1. PICK b : Planned(b, c)
  BY ExpandedPlanned
<1>2. DOMAIN t = 1..Len(t) /\ Len(t) \in Nat
  BY ExpandedPlanned
<1>3. ASSUME NEW k \in 1..Len(t)
      PROVE  /\ b[k] = <<b[k][1], b[k][2], b[k][3]>>
             /\ b[k][1] \in DOMAIN c.tasks /\ b[k][2] \in DOMAIN c.systems
             /\ id[k] = <<c.tasks[b[k][1]], SystemKey(c.systems[b[k][2]]), b[k][3]>>
  <2>1. b[k] \in Slots(c) /\ t[k] = Trial(c, b[k][1], b[k][2], b[k][3])
    BY <1>1 DEF Planned
  <2> QED
    BY <2>1 DEF Slots, Trial, TrialId
<1>4. id \in [1..Len(t) -> TrialIds(c)]
  BY <1>2 DEF TrialIds
<1>5. \A y \in TrialIds(c) : \E k \in 1..Len(t) : id[k] = y
  BY <1>2 DEF TrialIds
<1> HIDE DEF id
<1>6. ASSUME NEW k \in 1..Len(t), NEW l \in 1..Len(t), id[k] = id[l]
      PROVE  k = l
  <2>1. /\ c.tasks[b[k][1]] = c.tasks[b[l][1]]
        /\ SystemKey(c.systems[b[k][2]]) = SystemKey(c.systems[b[l][2]])
        /\ b[k][3] = b[l][3]
    BY <1>3, <1>6
  <2>2. b[k][1] = b[l][1]
    BY <1>3, <2>1 DEF IsInjective
  <2>3. b[k][2] = b[l][2]
    BY <1>3, <2>1 DEF IsInjective
  <2>4. b[k] = b[l]
    BY <1>3, <2>1, <2>2, <2>3
  <2> QED
    BY <1>1, <2>4 DEF Planned
<1>7. id \in Bijection(1..Len(t), TrialIds(c))
  BY <1>4, <1>5, <1>6 DEF Bijection, Injection, Surjection, IsInjective
<1>8. Cardinality(TrialIds(c)) = Cardinality(1..Len(t)) /\ Cardinality(1..Len(t)) = Len(t)
  <2>1. ExistsBijection(1..Len(t), TrialIds(c))
    BY <1>7 DEF ExistsBijection
  <2>2. IsFiniteSet(1..Len(t)) /\ Cardinality(1..Len(t)) = Len(t)
    BY <1>2, FirstNaturals
  <2> QED
    BY <2>1, <2>2, FS_Bijection
<1>9. ASSUME NEW i \in DOMAIN c.tasks, NEW j \in DOMAIN c.systems, NEW a \in 1..c.systems[j].trials
      PROVE  TrialId(Trial(c, i, j, a)) \in TrialIds(c)
  <2>1. <<i, j, a>> \in Slots(c)
    BY DocumentTypes DEF Slots
  <2>2. PICK k \in 1..Len(t) : b[k] = <<i, j, a>>
    BY <1>1, <2>1 DEF Planned
  <2>3. t[k] = Trial(c, b[k][1], b[k][2], b[k][3])
    BY <1>1 DEF Planned
  <2>4. t[k] = Trial(c, i, j, a)
    BY <2>2, <2>3
  <2> QED
    BY <1>2, <2>4 DEF TrialIds
<1> QED
  BY <1>8, <1>9

-----------------------------------------------------------------------------
(* The sum of the estimate.                                                *)

\* What one trial of pair p, a task and a system, costs.
Unit(c, h, p) ==
  LET key == <<TaskName[c.tasks[p[1]]], c.systems[p[2]].key>>
  IN  IF h[key] # NULL THEN h[key] ELSE c.systems[p[2]].estimate

Pairs(c) == (DOMAIN c.tasks) \X (DOMAIN c.systems)

Unnamed(c) == \A i \in DOMAIN c.systems : c.systems[i].name = NULL

LEMMA UnitFacts ==
  ASSUME NEW c \in Document, NEW h \in Histories, Unnamed(c), NEW p \in Pairs(c)
  PROVE  /\ Unit(c, h, p) \in Nat \cup {NULL}
         /\ Breakdown(c, h)[p].usd =
              IF Unit(c, h, p) = NULL THEN NULL ELSE Unit(c, h, p) * c.systems[p[2]].trials
         /\ Breakdown(c, h)[p].usd # NULL <=> Unit(c, h, p) # NULL
         /\ Breakdown(c, h)[p].source = "unavailable" <=> Unit(c, h, p) = NULL
<1> DEFINE task == c.tasks[p[1]]
           system == c.systems[p[2]]
           avg == h[<<TaskName[task], system.key>>]
           u == Unit(c, h, p)
           e == Entry(h, task, system)
<1>1. /\ p[1] \in DOMAIN c.tasks /\ p[2] \in DOMAIN c.systems
      /\ task \in Paths /\ system \in System /\ system.trials \in Nat
      /\ system.name = NULL
  BY DocumentTypes DEF Pairs, Unnamed
<1>2. system.key \in Keys /\ system.estimate \in Nat \cup {NULL}
  BY <1>1 DEF System
<1>3. avg \in Nat \cup {NULL}
  <2> DEFINE D == {TaskName[q] : q \in Paths} \X Keys
             k == <<TaskName[task], system.key>>
  <2>1. h \in [D -> Nat \cup {NULL}]
    BY EvaluationPlanAssumption
  <2>2. k \in D
    BY <1>1, <1>2
  <2> HIDE DEF D, k
  <2>3. h[k] \in Nat \cup {NULL}
    BY <2>1, <2>2
  <2> QED
    BY <2>3 DEF k
<1>4. Breakdown(c, h)[p] = e
  BY DEF Breakdown, Pairs
<1>5. Average(h, task, system) = avg
  BY <1>1, <1>2 DEF Average, SystemKey
<1>6. u = IF avg # NULL THEN avg ELSE system.estimate
  BY DEF Unit
<1> HIDE DEF avg, u
<1>7. NULL \notin Nat
  BY EvaluationPlanAssumption
<1>8. e = IF avg # NULL THEN [usd |-> avg * system.trials, source |-> "historical"]
          ELSE IF system.estimate # NULL
            THEN [usd |-> system.estimate * system.trials, source |-> "configured_estimate"]
          ELSE [usd |-> NULL, source |-> "unavailable"]
  BY <1>5 DEF Entry
<1> HIDE DEF task, system, e
<1>9. /\ u \in Nat \cup {NULL}
      /\ e.usd = IF u = NULL THEN NULL ELSE u * system.trials
      /\ e.source = "unavailable" <=> u = NULL
  BY <1>2, <1>3, <1>6, <1>8
<1>10. u # NULL => u * system.trials \in Nat
  BY <1>1, <1>9
<1>11. e.usd # NULL <=> u # NULL
  BY <1>7, <1>9, <1>10
<1> QED
  BY <1>4, <1>9, <1>11 DEF u, system

\* The attempts of one pair are as many as its system has trials.
LEMMA PairAttempts ==
  ASSUME NEW c \in Document, NEW b, Planned(b, c), NEW p \in Pairs(c),
         NEW S, S = {k \in 1..Len(Expanded(c)) : <<b[k][1], b[k][2]>> = p}
  PROVE  IsFiniteSet(S) /\ Cardinality(S) = c.systems[p[2]].trials
<1> DEFINE t == Expanded(c)
           n == c.systems[p[2]].trials
           g == [a \in 1..n |-> CHOOSE k \in S : b[k][3] = a]
<1>1. p = <<p[1], p[2]>> /\ p[1] \in DOMAIN c.tasks /\ p[2] \in DOMAIN c.systems /\ n \in Nat
  BY DocumentTypes DEF Pairs
<1>2. ASSUME NEW k \in S
      PROVE  k \in 1..Len(t) /\ b[k] = <<p[1], p[2], b[k][3]>> /\ b[k][3] \in 1..n
  <2>1. k \in 1..Len(t) /\ <<b[k][1], b[k][2]>> = p /\ b[k] \in Slots(c)
    BY DEF Planned
  <2>2. b[k][1] = p[1] /\ b[k][2] = p[2]
    BY <2>1
  <2>3. b[k] = <<b[k][1], b[k][2], b[k][3]>> /\ b[k][3] \in 1..c.systems[b[k][2]].trials
    BY <2>1 DEF Slots
  <2> QED
    BY <2>1, <2>2, <2>3
<1>3. ASSUME NEW a \in 1..n PROVE \E k \in S : b[k][3] = a
  <2>1. <<p[1], p[2], a>> \in Slots(c)
    BY <1>1 DEF Slots
  <2>2. PICK k \in 1..Len(t) : b[k] = <<p[1], p[2], a>>
    BY <2>1 DEF Planned
  <2>3. b[k][1] = p[1] /\ b[k][2] = p[2] /\ b[k][3] = a
    BY <2>2
  <2>4. <<b[k][1], b[k][2]>> = p
    BY <1>1, <2>3
  <2> QED
    BY <2>3, <2>4
<1>4. ASSUME NEW a \in 1..n PROVE g[a] \in S /\ b[g[a]][3] = a
  BY <1>3
<1>5. g \in [1..n -> S]
  BY <1>4
<1> HIDE DEF g
<1>6. \A a, d \in 1..n : g[a] = g[d] => a = d
  BY <1>4
<1>7. ASSUME NEW k \in S PROVE \E a \in 1..n : g[a] = k
  <2> DEFINE a == b[k][3]
  <2>1. a \in 1..n /\ b[k] = <<p[1], p[2], a>>
    BY <1>2
  <2>2. g[a] \in S /\ b[g[a]][3] = a
    BY <1>4, <2>1
  <2>3. b[g[a]] = <<p[1], p[2], a>>
    BY <1>2, <2>2
  <2>4. g[a] \in 1..Len(t) /\ k \in 1..Len(t) /\ b[g[a]] = b[k]
    BY <1>2, <2>1, <2>2, <2>3
  <2>5. g[a] = k
    BY <2>4 DEF Planned
  <2> QED
    BY <2>1, <2>5
<1>8. g \in Bijection(1..n, S)
  BY <1>5, <1>6, <1>7 DEF Bijection, Injection, Surjection, IsInjective
<1>9. ExistsBijection(1..n, S)
  BY <1>8 DEF ExistsBijection
<1> HIDE DEF n
<1>10. IsFiniteSet(1..n) /\ Cardinality(1..n) = n
  BY <1>1, FirstNaturals
<1>11. IsFiniteSet(S) /\ Cardinality(S) = n
  BY <1>9, <1>10, FS_Bijection
<1> QED
  BY <1>11 DEF n

\* The pairs that have a price, the trials that have one, and which of the trials
\* are attempts of which pair.
PricedPairs(c, h) == {p \in Pairs(c) : Unit(c, h, p) # NULL}

PriceOf(c, h, k) == Price(Expanded(c)[k], h)

PricedTrials(c, h) == {k \in 1..Len(Expanded(c)) : PriceOf(c, h, k) # NULL}

PairOf(b, k) == <<b[k][1], b[k][2]>>

LEMMA TrialPrice ==
  ASSUME NEW c \in Document, NEW h, NEW b, Planned(b, c), NEW k \in 1..Len(Expanded(c))
  PROVE  PairOf(b, k) \in Pairs(c) /\ PriceOf(c, h, k) = Unit(c, h, PairOf(b, k))
<1>1. /\ b[k] \in Slots(c)
      /\ Expanded(c)[k] = Trial(c, b[k][1], b[k][2], b[k][3])
  BY DEF Planned
<1>2. PairOf(b, k) \in Pairs(c) /\ PairOf(b, k)[1] = b[k][1] /\ PairOf(b, k)[2] = b[k][2]
  BY <1>1 DEF Slots, Pairs, PairOf
<1>3. /\ Expanded(c)[k].task = c.tasks[PairOf(b, k)[1]]
      /\ Expanded(c)[k].system = c.systems[PairOf(b, k)[2]]
  BY <1>1, <1>2 DEF Trial
<1> QED
  BY <1>2, <1>3 DEF PriceOf, Price, Unit

\* Each pair that has a trial to its name is priced if its trials are.
LEMMA PricedAlike ==
  ASSUME NEW c \in Document, Valid(c), NEW h, NEW b, Planned(b, c)
  PROVE  /\ \A k \in PricedTrials(c, h) : PairOf(b, k) \in PricedPairs(c, h)
         /\ \A p \in Pairs(c) : \E k \in 1..Len(Expanded(c)) : PairOf(b, k) = p
         /\ \A k \in 1..Len(Expanded(c)) :
              PairOf(b, k) \in PricedPairs(c, h) => k \in PricedTrials(c, h)
<1>1. ASSUME NEW p \in Pairs(c)
      PROVE  \E k \in 1..Len(Expanded(c)) : PairOf(b, k) = p
  <2>1. p = <<p[1], p[2]>> /\ p[1] \in DOMAIN c.tasks /\ p[2] \in DOMAIN c.systems
    BY DEF Pairs
  <2>2. c.systems[p[2]].trials \in Nat /\ c.systems[p[2]].trials >= 1
    BY <2>1, DocumentTypes DEF Valid
  <2>3. <<p[1], p[2], 1>> \in Slots(c)
    BY <2>1, <2>2 DEF Slots
  <2>4. PICK k \in 1..Len(Expanded(c)) : b[k] = <<p[1], p[2], 1>>
    BY <2>3 DEF Planned
  <2> QED
    BY <2>1, <2>4 DEF PairOf
<1> QED
  BY <1>1, TrialPrice DEF PricedTrials, PricedPairs

\* The sum over pairs, of a price times the trials of the pair, is that over trials.
LEMMA SumOfPairs ==
  ASSUME NEW c \in Document, Valid(c), NEW h \in Histories, Unnamed(c)
  PROVE  AddUp([p \in PricedPairs(c, h) |-> Breakdown(c, h)[p].usd])
           = AddUp([k \in PricedTrials(c, h) |-> PriceOf(c, h, k)])
<1> DEFINE P == PricedPairs(c, h)
           T == PricedTrials(c, h)
           g == [p \in P |-> Breakdown(c, h)[p].usd]
           f == [k \in T |-> PriceOf(c, h, k)]
<1>1. PICK b : Planned(b, c)
  BY ExpandedPlanned
<1> DEFINE q == [k \in T |-> PairOf(b, k)]
<1>2. IsFiniteSet(T)
  <2>1. IsFiniteSet(1..Len(Expanded(c)))
    BY ExpandedPlanned, FirstNaturals
  <2> QED
    BY <2>1, FS_Subset DEF PricedTrials
<1>3. IsFiniteSet(P)
  <2>1. IsFiniteSet(1..Len(c.tasks)) /\ IsFiniteSet(1..Len(c.systems))
    BY DocumentTypes, FirstNaturals
  <2>2. IsFiniteSet(Pairs(c))
    BY <2>1, DocumentTypes, FS_Product DEF Pairs
  <2> QED
    BY <2>2, FS_Subset DEF PricedPairs
<1>4. ASSUME NEW k \in T PROVE f[k] \in Nat /\ q[k] \in P /\ f[k] = Unit(c, h, PairOf(b, k))
  <2>1. /\ PairOf(b, k) \in Pairs(c) /\ PriceOf(c, h, k) = Unit(c, h, PairOf(b, k))
        /\ PairOf(b, k) \in P
        /\ PriceOf(c, h, k) # NULL
    BY <1>1, TrialPrice, PricedAlike DEF PricedTrials
  <2>2. Unit(c, h, PairOf(b, k)) \in Nat \cup {NULL}
    BY <2>1, UnitFacts
  <2> QED
    BY <2>1, <2>2
<1>5. ASSUME NEW p \in P
      PROVE  g[p] = SumFunctionOnSet(f, Class(T, q, p))
  <2> DEFINE S == {k \in T : q[k] = p}
             R == {k \in 1..Len(Expanded(c)) : <<b[k][1], b[k][2]>> = p}
             u == Unit(c, h, p)
             n == c.systems[p[2]].trials
  <2>1. p \in Pairs(c) /\ u # NULL
    BY DEF PricedPairs
  <2>2. u \in Nat /\ g[p] = u * n
    BY <2>1, UnitFacts
  <2>3. S = R
    <3>1. ASSUME NEW k \in S PROVE k \in R
      BY DEF PricedTrials, PairOf
    <3>2. ASSUME NEW k \in R PROVE k \in S
      <4>1. k \in 1..Len(Expanded(c)) /\ PairOf(b, k) = p
        BY DEF PairOf
      <4>2. k \in T
        BY <1>1, <4>1, PricedAlike
      <4> QED
        BY <4>1, <4>2
    <3> QED
      BY <3>1, <3>2
  <2>4. IsFiniteSet(R) /\ Cardinality(R) = n
    BY <1>1, <2>1, PairAttempts
  <2>5. \A k \in S : f[k] = u
    BY <1>4
  <2> HIDE DEF S, R, u, n, f, g
  <2>6. SumFunctionOnSet(f, S) = u * Cardinality(S)
    BY <2>2, <2>3, <2>4, <2>5, SumConstant
  <2> QED
    BY <2>2, <2>3, <2>4, <2>6 DEF S, Class
<1>6. DOMAIN f = T /\ DOMAIN g = P
  OBVIOUS
<1>7. \A k \in T : f[k] \in Nat /\ q[k] \in P
  BY <1>4
<1> HIDE DEF f, g, q, T, P
<1>8. SumFunctionOnSet(f, T) = SumFunctionOnSet(g, P)
  BY <1>2, <1>3, <1>5, <1>7, SumByClass
<1>9. AddUp(f) = SumFunctionOnSet(f, T) /\ AddUp(g) = SumFunctionOnSet(g, P)
  BY <1>6 DEF AddUp, FoldFunction, SumFunctionOnSet
<1> QED
  BY <1>8, <1>9 DEF f, g, T, P

\* What the estimate calls itself says whether no trial, or not every trial, has a
\* price.
LEMMA SourceSays ==
  ASSUME NEW c \in Document, Valid(c), NEW h \in Histories, Unnamed(c)
  PROVE  /\ EstimateCost(c, h).source = "unavailable" <=> PricedPairs(c, h) = {}
         /\ EstimateCost(c, h).source = "partial" <=> PricedPairs(c, h) \notin {{}, Pairs(c)}
<1> DEFINE src(p) == Breakdown(c, h)[p].source
           P == PricedPairs(c, h)
           D == Pairs(c)
           sources == {src(p) : p \in D}
           first == CHOOSE s \in sources : TRUE
           source == IF Cardinality(sources) = 1 THEN first
                     ELSE IF "unavailable" \in sources THEN "partial" ELSE "mixed"
           given == {"historical", "configured_estimate"}
<1>1. EstimateCost(c, h).source = source
  BY DEF EstimateCost, Breakdown, Pairs
<1>2. ASSUME NEW p \in D
      PROVE  /\ src(p) \in given \cup {"unavailable"}
             /\ src(p) = "unavailable" <=> p \notin P
  <2>1. src(p) = "unavailable" <=> Unit(c, h, p) = NULL
    BY UnitFacts
  <2>2. src(p) = Entry(h, c.tasks[p[1]], c.systems[p[2]]).source
    BY DEF Breakdown, Pairs
  <2>3. \A task, system : Entry(h, task, system).source \in given \cup {"unavailable"}
    BY DEF Entry
  <2> QED
    BY <2>1, <2>2, <2>3 DEF PricedPairs
<1>3. D # {}
  <2>1. 1 \in DOMAIN c.tasks /\ 1 \in DOMAIN c.systems
    BY DocumentTypes DEF Valid
  <2>2. <<1, 1>> \in D
    BY <2>1 DEF Pairs
  <2> QED
    BY <2>2
<1>4. P \subseteq D
  BY DEF PricedPairs
<1> HIDE DEF src, P, D
<1>5. sources \subseteq given \cup {"unavailable"} /\ sources # {}
  BY <1>2, <1>3
<1>6. IsFiniteSet(sources)
  <2>1. IsFiniteSet({"historical"} \cup {"configured_estimate"})
    BY FS_Singleton, FS_AddElement
  <2>2. IsFiniteSet(({"historical"} \cup {"configured_estimate"}) \cup {"unavailable"})
    BY <2>1, FS_AddElement
  <2> QED
    BY <1>5, <2>2, FS_Subset
<1>7. "unavailable" \in sources <=> P # D
  BY <1>2, <1>4
<1>8. sources \cap given = {} <=> P = {}
  BY <1>2, <1>4
<1> HIDE DEF sources
<1>9. Cardinality(sources) = 1 <=> \E s : sources = {s}
  BY <1>6, FS_Singleton
<1>10. first \in sources
  BY <1>5
<1>11. CASE P = {}
  <2>1. sources = {"unavailable"}
    BY <1>5, <1>8, <1>11
  <2>2. source = "unavailable"
    BY <1>9, <1>10, <2>1
  <2> QED
    BY <1>1, <1>11, <2>2 DEF P
<1>12. CASE P = D
  <2>1. "unavailable" \notin sources
    BY <1>7, <1>12
  <2>2. source \in given \cup {"mixed"}
    BY <1>5, <1>10, <2>1
  <2>3. P # {}
    BY <1>3, <1>12
  <2> HIDE DEF source
  <2> QED
    BY <1>1, <1>12, <2>2, <2>3 DEF P, D
<1>13. CASE P # {} /\ P # D
  <2>1. "unavailable" \in sources /\ sources \cap given # {}
    BY <1>7, <1>8, <1>13
  <2>2. ~\E s : sources = {s}
    BY <2>1
  <2>3. source = "partial"
    BY <1>9, <2>1, <2>2
  <2> QED
    BY <1>1, <1>13, <2>3 DEF P, D
<1> QED
  BY <1>11, <1>12, <1>13

\* The estimate of a configuration, as its trials have it.
LEMMA EstimateOfTrials ==
  ASSUME NEW c \in Document, Valid(c), NEW h \in Histories, Unnamed(c)
  PROVE  /\ EstimateCost(c, h).total =
              IF PricedTrials(c, h) = {} THEN NULL
              ELSE AddUp([k \in PricedTrials(c, h) |-> PriceOf(c, h, k)])
         /\ EstimateCost(c, h).source = "unavailable" <=> PricedTrials(c, h) = {}
         /\ EstimateCost(c, h).source = "partial" <=>
              PricedTrials(c, h) \notin {{}, 1..Len(Expanded(c))}
<1> DEFINE P == PricedPairs(c, h)
           T == PricedTrials(c, h)
           N == 1..Len(Expanded(c))
           R == {p \in DOMAIN Breakdown(c, h) : Breakdown(c, h)[p].usd # NULL}
<1>1. PICK b : Planned(b, c)
  BY ExpandedPlanned
<1>2. P \subseteq Pairs(c) /\ T \subseteq N
  BY DEF PricedPairs, PricedTrials
<1>3. R = P
  <2>1. DOMAIN Breakdown(c, h) = Pairs(c)
    BY DEF Breakdown, Pairs
  <2>2. \A p \in Pairs(c) : Breakdown(c, h)[p].usd # NULL <=> Unit(c, h, p) # NULL
    BY UnitFacts
  <2> QED
    BY <2>1, <2>2 DEF PricedPairs
<1>4. P = {} <=> T = {}
  <2>1. ASSUME NEW k \in T PROVE P # {}
    BY <1>1, PricedAlike
  <2>2. ASSUME NEW p \in P PROVE T # {}
    BY <1>1, <1>2, PricedAlike
  <2> QED
    BY <2>1, <2>2
<1>5. P = Pairs(c) <=> T = N
  <2>1. ASSUME P = Pairs(c), NEW k \in N PROVE k \in T
    <3>1. PairOf(b, k) \in Pairs(c)
      BY <1>1, TrialPrice
    <3> QED
      BY <1>1, <2>1, <3>1, PricedAlike
  <2>2. ASSUME T = N, NEW p \in Pairs(c) PROVE p \in P
    <3>1. PICK k \in N : PairOf(b, k) = p
      BY <1>1, PricedAlike
    <3>2. k \in T
      BY <2>2
    <3> QED
      BY <1>1, <3>1, <3>2, PricedAlike
  <2> QED
    BY <1>2, <2>1, <2>2
<1>6. EstimateCost(c, h).total =
        IF R = {} THEN NULL ELSE AddUp([p \in R |-> Breakdown(c, h)[p].usd])
  BY DEF EstimateCost
<1>7. AddUp([p \in P |-> Breakdown(c, h)[p].usd]) = AddUp([k \in T |-> PriceOf(c, h, k)])
  BY SumOfPairs
<1>8. /\ EstimateCost(c, h).source = "unavailable" <=> P = {}
      /\ EstimateCost(c, h).source = "partial" <=> P \notin {{}, Pairs(c)}
  BY SourceSays
<1> HIDE DEF P, T, N, R
<1>9. EstimateCost(c, h).total =
        IF T = {} THEN NULL ELSE AddUp([k \in T |-> PriceOf(c, h, k)])
  BY <1>3, <1>4, <1>6, <1>7
<1>10. /\ EstimateCost(c, h).source = "unavailable" <=> T = {}
       /\ EstimateCost(c, h).source = "partial" <=> T \notin {{}, N}
  BY <1>4, <1>5, <1>8
<1> QED
  BY <1>9, <1>10 DEF T, N

\* The estimate a process or a manifest has is that of its configuration.
EstimateInv ==
  /\ pc \in {"check", "create"} => \E h \in Histories : plan.estimate = EstimateCost(config, h)
  /\ manifest # NULL =>
       /\ manifest.config \in Documents /\ Valid(manifest.config)
       /\ \E h \in Histories : manifest.estimate = EstimateCost(manifest.config, h)

LEMMA EstimateStep ==
  ASSUME IInv, EstimateInv, [Next]_vars
  PROVE  EstimateInv'
<1>1. CASE CreateRun
  <2>1. /\ pc = "create" /\ pc' = "executing"
        /\ manifest'.config = config /\ manifest'.estimate = plan.estimate
    BY <1>1 DEF CreateRun, Step
  <2>2. config \in Documents /\ Valid(config)
    BY <2>1 DEF IInv, ConfigInv
  <2>3. PICK h \in Histories : plan.estimate = EstimateCost(config, h)
    BY <2>1 DEF EstimateInv
  <2>4. Valid(manifest'.config)
    BY <2>1, <2>2
  <2>5. manifest'.estimate = EstimateCost(manifest'.config, h)
    BY <2>1, <2>3
  <2>6. (Valid(manifest.config))' <=> Valid(manifest'.config)
    BY DEF Valid
  <2> QED
    BY <2>1, <2>2, <2>4, <2>5, <2>6 DEF EstimateInv
<1>2. ASSUME ~CreateRun
      PROVE  manifest' # NULL =>
               /\ manifest'.config \in Documents /\ (Valid(manifest.config))'
               /\ \E h \in Histories : manifest'.estimate = EstimateCost(manifest'.config, h)
  <2>1. manifest' = manifest
    BY <1>2, ManifestKept
  <2>2. (Valid(manifest.config))' <=> Valid(manifest.config)
    BY <2>1 DEF Valid
  <2> QED
    BY <2>1, <2>2 DEF EstimateInv
<1>3. ASSUME ~CreateRun, pc' \in {"check", "create"}
      PROVE  \E h \in Histories : plan'.estimate = EstimateCost(config', h)
  <2>1. CASE Estimate
    <3> DEFINE e == EstimateCost(config, history)
    <3>1. plan' = [plan EXCEPT !.estimate = e] /\ config' = config /\ history \in Histories
      BY <2>1 DEF Estimate, IInv, TypeOK
    <3>2. EstimateCost(config', history) = e
      BY <3>1
    <3> HIDE DEF e
    <3>3. plan' = [commit |-> plan.commit, dirty |-> plan.dirty, hashes |-> plan.hashes,
                   estimate |-> e]
      BY <3>1 DEF IInv, PlanInv
    <3>4. plan'.estimate = e
      BY <3>3
    <3> QED
      BY <3>1, <3>2, <3>4
  <2>2. CASE CheckBudget
    <3>1. pc = "check" /\ plan' = plan /\ config' = config
      BY <2>2 DEF CheckBudget, Step
    <3> QED
      BY <3>1 DEF EstimateInv
  <2>3. CASE Edit \/ UNCHANGED vars
    <3>1. pc' = pc /\ plan' = plan /\ config' = config
      BY <2>3, EditFacts DEF IInv, vars
    <3> QED
      BY <1>3, <3>1 DEF EstimateInv
  <2>4. CASE Spend
    BY <1>3, <2>4 DEF Spend
  <2> QED
    BY <1>3, <2>1, <2>2, <2>3, <2>4
    DEF Next, Run, Preflight, ReadHead, ReadStatus, HashTasks, Finish, Stop, Resume, VerifyGit,
        VerifyTasks, Gate, Refuse, Refused, Exit, Step
<1> QED
  BY <1>1, <1>2, <1>3 DEF EstimateInv

-----------------------------------------------------------------------------
(* Theorems.                                                               *)

LEMMA Inductive == Spec => []IInv
<1>1. Init => IInv
  <2> SUFFICES ASSUME Init PROVE IInv
    OBVIOUS
  <2>1. TypeOK
    <3>1. content \in [Paths -> Contents]
      BY EvaluationPlanAssumption DEF Init
    <3>2. edits \in 0..MaxEdits /\ spent \in 0..MaxSpent
      BY EvaluationPlanAssumption DEF Init
    <3>3. args \in Args /\ config \in Documents \cup {NULL}
      BY DEF Init, Args, NoArgs
    <3> QED
      BY <3>1, <3>2, <3>3 DEF Init, TypeOK
  <2>2. ConfigInv
    BY DEF Init, ConfigInv, Verified
  <2>3. PlanInv
    BY DEF Init, PlanInv, NoPlan
  <2>4. ManifestInv /\ OfficialIsCommitted /\ ResumeInv
    BY DEF Init, ManifestInv, OfficialIsCommitted, ResumeInv, TasksAreAsPlanned, Resuming, Verified
  <2> QED
    BY <2>1, <2>2, <2>3, <2>4 DEF IInv
<1>2. IInv /\ [Next]_vars => IInv'
  BY TypeStep, ConfigStep, PlanStep, DecisionStep DEF IInv
<1> QED
  BY <1>1, <1>2, PTL DEF Spec

\* Every variable keeps its type, and a manifest that is there has its trials, a
\* hash of each of its tasks and a known kind of estimate.
THEOREM TypeCorrect == Spec => []TypeOK
BY Inductive, PTL DEF IInv

\* An execution uses the valid configuration its manifest was made of, whatever
\* was edited when.  (verify_resume_compatibility)
THEOREM ExecutionIsOfItsPlan == Spec => []ExecutesFrozenPlan
<1>1. IInv => ExecutesFrozenPlan
  BY DEF IInv, ConfigInv, ExecutesFrozenPlan, Verified
<1> QED
  BY <1>1, Inductive, PTL

\* With no edit since git was asked, the commit and the task files are those of the
\* manifest.  (build_plan, verify_resume_compatibility)
THEOREM TasksStayAsPlanned == Spec => []TasksAreAsPlanned
<1>1. IInv => TasksAreAsPlanned
  BY DEF IInv, ResumeInv
<1> QED
  BY <1>1, Inductive, PTL

\* What a manifest calls verified was committed, and an official run is verified
\* unless the operator allowed otherwise.  (build_plan)
THEOREM OfficialStaysCommitted == Spec => []OfficialIsCommitted
BY Inductive, PTL DEF IInv

\* Nothing is spent that was not estimated within the budget or acknowledged.
\* (check_budget, resume_evaluation)
THEOREM SpendingStaysAllowed == Spec => []SpendingIsAllowed
<1>1. IInv => SpendingIsAllowed
  BY DEF IInv, ConfigInv, ManifestInv, ResumeInv, SpendingIsAllowed, Affordable, Acknowledged,
         Resuming, Verified
<1> QED
  BY <1>1, Inductive, PTL

LEMMA InductiveEstimate == Spec => [](IInv /\ EstimateInv)
<1>1. Init => EstimateInv
  BY DEF Init, EstimateInv
<1>2. IInv /\ EstimateInv /\ [Next]_vars => EstimateInv'
  BY EstimateStep
<1> QED
  BY <1>1, <1>2, Inductive, PTL DEF Spec

\* The estimate a run is admitted by is the sum of its trials' prices, whatever was
\* edited since, and says so where a trial has none.  (estimate_cost, expand_trials)
THEOREM EstimateStaysCovering == Spec => []EstimateCoversTrials
<1>1. IInv /\ EstimateInv => EstimateCoversTrials
  <2> SUFFICES ASSUME IInv, EstimateInv, manifest # NULL,
                      \A i \in DOMAIN manifest.config.systems :
                        manifest.config.systems[i].name = NULL
               PROVE  EstimateCoversTrials
    BY DEF EstimateCoversTrials
  <2> DEFINE c == manifest.config
  <2>1. c \in Document /\ Valid(c) /\ Unnamed(c) /\ manifest.trials = Expanded(c)
    BY EvaluationPlanAssumption DEF EstimateInv, IInv, TypeOK, Unnamed
  <2>2. PICK h \in Histories : manifest.estimate = EstimateCost(c, h)
    BY DEF EstimateInv
  <2>3. manifest.estimate.at = h
    BY <2>2 DEF EstimateCost
  <2>4. DOMAIN manifest.trials = 1..Len(Expanded(c))
    BY <2>1, ExpandedPlanned
  <2> DEFINE price(i) == Price(manifest.trials[i], manifest.estimate.at)
             priced == {i \in DOMAIN manifest.trials : price(i) # NULL}
  <2>5. \A i : price(i) = PriceOf(c, h, i)
    BY <2>1, <2>3 DEF PriceOf
  <2>6. priced = PricedTrials(c, h)
    BY <2>4, <2>5 DEF PricedTrials
  <2>7. [i \in priced |-> price(i)] = [k \in PricedTrials(c, h) |-> PriceOf(c, h, k)]
    BY <2>5, <2>6
  <2> HIDE DEF c
  <2>8. /\ EstimateCost(c, h).total =
             IF PricedTrials(c, h) = {} THEN NULL
             ELSE AddUp([k \in PricedTrials(c, h) |-> PriceOf(c, h, k)])
        /\ EstimateCost(c, h).source = "unavailable" <=> PricedTrials(c, h) = {}
        /\ EstimateCost(c, h).source = "partial" <=>
             PricedTrials(c, h) \notin {{}, 1..Len(Expanded(c))}
    BY <2>1, EstimateOfTrials
  <2>9. /\ manifest.estimate.total =
             IF priced = {} THEN NULL ELSE AddUp([i \in priced |-> price(i)])
        /\ manifest.estimate.source = "unavailable" <=> priced = {}
        /\ manifest.estimate.source = "partial" <=> priced \notin {{}, DOMAIN manifest.trials}
    <3> HIDE DEF price, priced
    <3> QED
      BY <2>2, <2>4, <2>6, <2>7, <2>8
  <2> QED
    BY <2>9 DEF EstimateCoversTrials
<1> QED
  BY <1>1, InductiveEstimate, PTL

\* Each planned trial has a state of its own, for any configuration that lists no
\* task and no system key twice.  (expand_trials, new_state)
THEOREM TrialsStayDistinct == Spec => []TrialsAreDistinct
<1>1. IInv /\ EstimateInv => TrialsAreDistinct
  <2> SUFFICES ASSUME IInv, EstimateInv, manifest # NULL,
                      IsInjective(manifest.config.tasks),
                      IsInjective([i \in DOMAIN manifest.config.systems |->
                                     SystemKey(manifest.config.systems[i])])
               PROVE  TrialsAreDistinct
    BY DEF TrialsAreDistinct
  <2>1. manifest.config \in Document /\ manifest.trials = Expanded(manifest.config)
    BY EvaluationPlanAssumption DEF EstimateInv, IInv, TypeOK
  <2> QED
    BY <2>1, ExpandedDistinct DEF TrialsAreDistinct
<1> QED
  BY <1>1, InductiveEstimate, PTL
===========================================================================
