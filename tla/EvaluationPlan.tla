--------------------------- MODULE EvaluationPlan ---------------------------
(***************************************************************************)
(* From a configuration file to a run that may spend money, and back to it *)
(* after a stop: eval/config.py, eval/planner.py, the gates of             *)
(* eval/orchestrator.py and the commands eval plan, run and resume of      *)
(* eval/cli.py.  While a process reads the configuration, git, the task    *)
(* directories and the results database one after the other, and between   *)
(* one process and the next, anyone may edit them.                         *)
(*                                                                         *)
(* What execute_loop does with the run is module RunLoop: here it spends.  *)
(* A hash is as good as what it is a hash of.                              *)
(***************************************************************************)
EXTENDS Naturals, Sequences, FiniteSets, SequencesExt

CONSTANTS
  Paths,       \* paths of task directories
  TaskName,    \* the last component of each
  Commits,     \* git commits
  Contents,    \* what the files below a task path can be
  Committed,   \* what they are in a commit
  Keys,        \* <model>__<agent>
  Names,       \* names a configuration gives to systems
  NULL,        \* None
  Documents,   \* what the configuration file can say
  Histories,   \* average_cost_usd of (task, system), as the database can have it
  MaxEdits,    \* bound: edits of any of these
  MaxSpent     \* bound: accumulated cost

\* The private storage roots, and the public one.
PrivateRoots == {<<".coldstart">>, <<"results", "private">>}
PublicRoots  == {<<"reports">>}

System ==
  [name : Names \cup {NULL}, key : Keys, trials : Nat, estimate : Nat \cup {NULL}]

\* A parsed configuration.  wellFormed: no unknown field, every field of its type
\* and in its range; secret: find_secret_like_values found one.
Document ==
  [wellFormed : BOOLEAN, secret : BOOLEAN, official : BOOLEAN,
   tasks : Seq(Paths), systems : Seq(System), budget : Nat,
   public : Seq(STRING), private : Seq(STRING)]

SystemNames == Keys \cup Names

ASSUME EvaluationPlanAssumption ==
  /\ TaskName \in [Paths -> STRING]
  /\ Committed \in [Commits -> [Paths -> Contents]]
  /\ Documents \subseteq Document
  /\ \A h \in Histories : h \in [{TaskName[p] : p \in Paths} \X Keys -> Nat \cup {NULL}]
  /\ NULL \notin Nat \cup Commits \cup Names \cup Documents
  /\ Keys \cap Names = {}
  /\ MaxEdits \in Nat /\ MaxSpent \in Nat

-----------------------------------------------------------------------------
(* config.py.                                                              *)

Within(path, root) == IsPrefix(root, path)

ReportsIsolated(c) ==
  /\ \A root \in PrivateRoots : ~Within(c.public, root)
  /\ \A root \in PublicRoots : ~Within(c.private, root)

\* validate_config_dict finds nothing.
Valid(c) ==
  /\ c.wellFormed /\ ~c.secret
  /\ c.tasks # << >> /\ c.systems # << >>
  /\ \A i \in DOMAIN c.systems : c.systems[i].trials >= 1
  /\ c.budget > 0
  /\ ReportsIsolated(c)

SystemKey(system) == IF system.name # NULL THEN system.name ELSE system.key

-----------------------------------------------------------------------------
(* planner.py.                                                             *)

\* expand_trials: task, then system, then attempt.
Trial(c, i, j, attempt) ==
  [task |-> c.tasks[i], system |-> c.systems[j], attempt |-> attempt]

Expanded(c) ==
  FlattenSeq([i \in DOMAIN c.tasks |->
    FlattenSeq([j \in DOMAIN c.systems |->
      [attempt \in 1..c.systems[j].trials |-> Trial(c, i, j, attempt)]])])

\* Mutant: the id has the name of the task and not its path.
TrialId_Name(t) == <<TaskName[t.task], SystemKey(t.system), t.attempt>>

\* The configuration's hash, part of every id, is the same for all trials of a run.
TrialId(t) == <<t.task, SystemKey(t.system), t.attempt>>

TrialIds(c) == {TrialId(Expanded(c)[i]) : i \in DOMAIN Expanded(c)}

\* _historical_estimate: the database knows systems by their keys only.
Average(h, task, system) ==
  IF SystemKey(system) \in Keys THEN h[<<TaskName[task], SystemKey(system)>>] ELSE NULL

\* Mutant: the average is that of one trial.
Entry_Single(h, task, system) ==
  IF Average(h, task, system) # NULL
    THEN [usd |-> Average(h, task, system), source |-> "historical"]
  ELSE IF system.estimate # NULL
    THEN [usd |-> system.estimate * system.trials, source |-> "configured_estimate"]
  ELSE [usd |-> NULL, source |-> "unavailable"]

\* One entry of the breakdown.
Entry(h, task, system) ==
  IF Average(h, task, system) # NULL
    THEN [usd |-> Average(h, task, system) * system.trials, source |-> "historical"]
  ELSE IF system.estimate # NULL
    THEN [usd |-> system.estimate * system.trials, source |-> "configured_estimate"]
  ELSE [usd |-> NULL, source |-> "unavailable"]

Breakdown(c, h) ==
  [p \in (DOMAIN c.tasks) \X (DOMAIN c.systems) |-> Entry(h, c.tasks[p[1]], c.systems[p[2]])]

AddUp(f) == FoldFunction(+, 0, f)

\* at is the history the estimate was made of.
EstimateCost(c, h) ==
  LET entries == Breakdown(c, h)
      sources == {entries[p].source : p \in DOMAIN entries}
      priced  == {p \in DOMAIN entries : entries[p].usd # NULL}
  IN [total  |-> IF priced = {} THEN NULL ELSE AddUp([p \in priced |-> entries[p].usd]),
      source |-> IF Cardinality(sources) = 1 THEN CHOOSE s \in sources : TRUE
                 ELSE IF "unavailable" \in sources THEN "partial" ELSE "mixed",
      at     |-> h]

-----------------------------------------------------------------------------
VARIABLES
  \* What can be edited.
  document,  \* the configuration file
  commit,    \* git's HEAD, NULL where git cannot tell
  content,   \* the files below each task path
  history,   \* average costs in the results database
  \* On disk.
  manifest,  \* manifest.json, NULL where there is none
  over,      \* state.json says completed or failed
  spent,     \* its actual_cost_usd
  \* The process.
  pc,
  args,      \* allow_dirty and acknowledge_unestimated_cost
  config,    \* the configuration it has loaded
  plan,      \* what build_plan has found so far
  \* History.
  edits, moved  \* number of edits; one since git was last asked

environment == <<document, commit, content, history>>
disk        == <<manifest, over, spent>>
vars        == <<environment, disk, pc, args, config, plan, edits, moved>>

Args == [allowDirty : BOOLEAN, ack : BOOLEAN]

NoArgs == [allowDirty |-> FALSE, ack |-> FALSE]

NoPlan == [commit |-> NULL, dirty |-> TRUE, hashes |-> NULL, estimate |-> NULL]

Dirty == IF commit = NULL THEN TRUE ELSE content # Committed[commit]

\* Mutant: every directory found is hashed.
Hashes_All(c) == content

\* hash_tasks.
Hashes(c) == [p \in ToSet(c.tasks) |-> content[p]]

TypeOK ==
  /\ document \in Documents
  /\ commit \in Commits \cup {NULL}
  /\ content \in [Paths -> Contents]
  /\ history \in Histories
  /\ over \in BOOLEAN /\ spent \in 0..MaxSpent
  /\ pc \in {"down", "preflight", "git", "status", "hash", "estimate", "check", "create",
             "executing", "verify", "verifyTasks", "recheck", "gate"}
  /\ args \in Args
  /\ config \in Documents \cup {NULL}
  /\ manifest # NULL =>
       /\ manifest.trials = Expanded(manifest.config)
       /\ DOMAIN manifest.hashes = ToSet(manifest.config.tasks)
       /\ manifest.unverified \in BOOLEAN
       /\ manifest.estimate.source \in
            {"historical", "configured_estimate", "mixed", "partial", "unavailable"}
  /\ edits \in 0..MaxEdits /\ moved \in BOOLEAN

Init ==
  /\ document \in Documents
  /\ commit \in Commits \cup {NULL}
  /\ content \in {Committed[k] : k \in Commits}
  /\ history \in Histories
  /\ manifest = NULL /\ over = FALSE /\ spent = 0
  /\ pc = "down" /\ args = NoArgs /\ config = NULL /\ plan = NoPlan
  /\ edits = 0 /\ moved = FALSE

-----------------------------------------------------------------------------
Step(from, to) == pc = from /\ pc' = to

\* An error message and exit code 1, or the end of an execution.
Exit ==
  /\ pc' = "down"
  /\ args' = NoArgs /\ config' = NULL /\ plan' = NoPlan
  /\ moved' = FALSE
  /\ UNCHANGED <<environment, disk, edits>>

Refused(at, why) == pc = at /\ why /\ Exit

Unverified(p) == p.commit = NULL \/ p.dirty

\* Mutant: a worktree git knows nothing of is taken for a clean one.
NotOfficial_Unavailable(c, p, a) == c.official /\ ~a.allowDirty /\ p.commit # NULL /\ p.dirty

NotOfficial(c, p, a) == c.official /\ ~a.allowDirty /\ Unverified(p)

(***************************************************************************)
(* eval run --yes: the configuration is loaded and a first plan is built,  *)
(* which is used for nothing but to refuse an official one.  Without --yes *)
(* and in eval plan it is printed, the process ends and nothing changed.   *)
(***************************************************************************)
FirstPlan == [NoPlan EXCEPT !.commit = commit, !.dirty = Dirty]

Run ==
  /\ Step("down", "preflight")
  /\ manifest = NULL
  /\ Valid(document)
  /\ args' \in Args
  /\ ~NotOfficial(document, FirstPlan, args')
  /\ config' = document
  /\ UNCHANGED <<environment, disk, plan, edits, moved>>

\* preflight_environment_checks, of run and of resume: commands and variables.
Preflight ==
  /\ Step("preflight", "git") \/ Step("recheck", "gate")
  /\ UNCHANGED <<environment, disk, args, config, plan, edits, moved>>

\* build_plan: git twice, then the trials and the task directories, then the database.
ReadHead ==
  /\ Step("git", IF commit = NULL THEN "hash" ELSE "status")
  /\ plan' = [plan EXCEPT !.commit = commit]
  /\ moved' = FALSE
  /\ UNCHANGED <<environment, disk, args, config, edits>>

ReadStatus ==
  /\ Step("status", "hash")
  /\ plan' = [plan EXCEPT !.dirty = Dirty]
  /\ UNCHANGED <<environment, disk, args, config, edits, moved>>

HashTasks ==
  /\ Step("hash", "estimate")
  /\ plan' = [plan EXCEPT !.hashes = Hashes(config)]
  /\ UNCHANGED <<environment, disk, args, config, edits, moved>>

Estimate ==
  /\ Step("estimate", "check")
  /\ plan' = [plan EXCEPT !.estimate = EstimateCost(config, history)]
  /\ UNCHANGED <<environment, disk, args, config, edits, moved>>

\* check_budget.
Affordable(c, total) == total # NULL => total <= c.budget

\* Mutant: nothing to acknowledge.
Acknowledged_Always(total) == TRUE

Acknowledged(total) == total # NULL \/ args.ack

CheckBudget ==
  /\ Step("check", "create")
  /\ ~NotOfficial(config, plan, args)
  /\ Affordable(config, plan.estimate.total)
  /\ Acknowledged(plan.estimate.total)
  /\ UNCHANGED <<environment, disk, args, config, plan, edits, moved>>

\* create_run: the manifest is written once.
CreateRun ==
  /\ Step("create", "executing")
  /\ manifest' = [config |-> config, commit |-> plan.commit, dirty |-> plan.dirty,
                  unverified |-> Unverified(plan), hashes |-> plan.hashes,
                  trials |-> Expanded(config), estimate |-> plan.estimate,
                  args |-> args, moved |-> moved]
  /\ plan' = NoPlan
  /\ UNCHANGED <<environment, over, spent, args, config, edits, moved>>

\* execute_loop: a Harbor result has a cost; the loop ends, or the process does.
Spend ==
  /\ pc = "executing"
  /\ spent < config.budget
  /\ spent' \in (spent + 1)..MaxSpent
  /\ UNCHANGED <<environment, manifest, over, pc, args, config, plan, edits, moved>>

Finish ==
  /\ Step("executing", "down")
  /\ over' = TRUE
  /\ args' = NoArgs /\ config' = NULL /\ plan' = NoPlan /\ moved' = FALSE
  /\ UNCHANGED <<environment, manifest, spent, edits>>

Stop == pc # "down" /\ Exit

(***************************************************************************)
(* eval resume --yes: the manifest, the configuration file it names, the   *)
(* state; a finished run is left alone.                                    *)
(***************************************************************************)
Resume ==
  /\ Step("down", "verify")
  /\ manifest # NULL /\ ~over
  /\ Valid(document)
  /\ args' \in [allowDirty : {FALSE}, ack : BOOLEAN]
  /\ config' = document
  /\ UNCHANGED <<environment, disk, plan, edits, moved>>

\* Mutant: the configuration is not compared.
SameConfig_Unchecked == TRUE

SameConfig == config = manifest.config

\* verify_resume_compatibility.
VerifyGit ==
  /\ Step("verify", "verifyTasks")
  /\ SameConfig
  /\ commit = manifest.commit
  /\ moved' = FALSE
  /\ UNCHANGED <<environment, disk, args, config, plan, edits>>

\* Mutant: only the directories of the first task are compared.
SameTasks_First == content[manifest.config.tasks[1]] = manifest.hashes[manifest.config.tasks[1]]

SameTasks == Hashes(config) = manifest.hashes

VerifyTasks ==
  /\ Step("verifyTasks", "recheck")
  /\ SameTasks
  /\ UNCHANGED <<environment, disk, args, config, plan, edits, moved>>

\* The budget gates of resume_evaluation.
Gate ==
  /\ Step("gate", "executing")
  /\ manifest.estimate.total # NULL => spent <= config.budget
  /\ Acknowledged(manifest.estimate.total)
  /\ UNCHANGED <<environment, disk, args, config, plan, edits, moved>>

Refuse ==
  \/ \E at \in {"preflight", "recheck"} : Refused(at, TRUE)
  \/ Refused("check", \/ NotOfficial(config, plan, args)
                      \/ ~Affordable(config, plan.estimate.total)
                      \/ ~Acknowledged(plan.estimate.total))
  \/ Refused("verify", ~SameConfig \/ commit # manifest.commit)
  \/ Refused("verifyTasks", ~SameTasks)
  \/ Refused("gate", \/ manifest.estimate.total # NULL /\ spent > config.budget
                     \/ ~Acknowledged(manifest.estimate.total))

-----------------------------------------------------------------------------
(* Edits.                                                                  *)

Edited ==
  /\ edits < MaxEdits /\ edits' = edits + 1
  /\ moved' = TRUE
  /\ UNCHANGED <<disk, pc, args, config, plan>>

EditConfig  == document' \in Documents \ {document} /\ Edited
               /\ UNCHANGED <<commit, content, history>>
EditTask    == (\E p \in Paths : \E k \in Contents \ {content[p]} :
                  content' = [content EXCEPT ![p] = k])
               /\ Edited /\ UNCHANGED <<document, commit, history>>
Commit      == commit' \in {k \in Commits \ {commit} : Committed[k] = content} /\ Edited
               /\ UNCHANGED <<document, content, history>>
Checkout    == (\E k \in Commits \ {commit} : commit' = k /\ content' = Committed[k])
               /\ Edited /\ UNCHANGED <<document, history>>
Ingested    == history' \in Histories \ {history} /\ Edited
               /\ UNCHANGED <<document, commit, content>>

Edit == EditConfig \/ EditTask \/ Commit \/ Checkout \/ Ingested

Next ==
  \/ Run \/ Preflight \/ ReadHead \/ ReadStatus \/ HashTasks \/ Estimate \/ CheckBudget \/ CreateRun
  \/ Spend \/ Finish \/ Stop \/ Resume \/ VerifyGit \/ VerifyTasks \/ Gate \/ Refuse \/ Edit

Spec == Init /\ [][Next]_vars

-----------------------------------------------------------------------------
(* Properties.                                                             *)

\* Whatever is edited before a run, during its planning and between its stop and
\* a resume: the configuration whose limits and report paths an execution uses is
\* the valid one its manifest was made of.  (verify_resume_compatibility)
ExecutesFrozenPlan ==
  pc = "executing" => config = manifest.config /\ Valid(config)

\* With no edit since git was asked, an execution starts or goes on in the commit,
\* and with the task files, that its manifest records: a task changed and changed
\* back is the same, one changed and committed is not.  (build_plan,
\* verify_resume_compatibility)
TasksAreAsPlanned ==
  (pc \in {"recheck", "gate", "executing"} /\ ~moved) =>
    /\ commit = manifest.commit
    /\ \A p \in DOMAIN manifest.hashes : content[p] = manifest.hashes[p]

\* A manifest that is not marked unverified has the hashes of the files committed
\* in its commit, and that of an official run is never so marked unless the
\* operator allowed it, with no edit between the git and the file reads.
\* (build_plan)
OfficialIsCommitted ==
  manifest # NULL =>
    /\ (manifest.config.official /\ ~manifest.args.allowDirty) => ~manifest.unverified
    /\ (~manifest.unverified /\ ~manifest.moved) =>
         \A p \in DOMAIN manifest.hashes : manifest.hashes[p] = Committed[manifest.commit][p]

\* Nothing is spent, in the first process or in a later one, that was not
\* estimated within the budget, or acknowledged as not estimated.
\* (check_budget, resume_evaluation)
SpendingIsAllowed ==
  pc = "executing" =>
    IF manifest.estimate.total = NULL THEN args.ack
       ELSE manifest.estimate.total <= config.budget

\* What one trial costs: the average of its task and system, or the estimate.
Price(t, h) ==
  IF h[<<TaskName[t.task], t.system.key>>] # NULL THEN h[<<TaskName[t.task], t.system.key>>]
  ELSE t.system.estimate

\* The estimate a run is admitted by is the sum of the prices of its trials, taken
\* one by one, as far as they have one, and says so if some have none.  Only where
\* no system has a name: the history of one that has is never found.
\* (estimate_cost, _historical_estimate, expand_trials)
EstimateCoversTrials ==
  (manifest # NULL /\ \A i \in DOMAIN manifest.config.systems : manifest.config.systems[i].name = NULL) =>
    LET price(i) == Price(manifest.trials[i], manifest.estimate.at)
        priced   == {i \in DOMAIN manifest.trials : price(i) # NULL}
    IN /\ manifest.estimate.total =
            IF priced = {} THEN NULL ELSE AddUp([i \in priced |-> price(i)])
       /\ manifest.estimate.source = "unavailable" <=> priced = {}
       /\ manifest.estimate.source = "partial" <=> priced \notin {{}, DOMAIN manifest.trials}

\* Each planned trial has a state of its own in state.json, which is keyed by trial
\* id, if no task is listed twice and no two systems have one key.
\* (expand_trials, new_state)
TrialsAreDistinct ==
  ( /\ manifest # NULL
    /\ IsInjective(manifest.config.tasks)
    /\ IsInjective([i \in DOMAIN manifest.config.systems |-> SystemKey(manifest.config.systems[i])]) )
  => /\ Cardinality(TrialIds(manifest.config)) = Len(manifest.trials)
     /\ \A i \in DOMAIN manifest.config.tasks, k \in DOMAIN manifest.config.systems :
          \A a \in 1..manifest.config.systems[k].trials :
            TrialId(Trial(manifest.config, i, k, a)) \in TrialIds(manifest.config)

=============================================================================
