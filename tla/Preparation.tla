---------------------------- MODULE Preparation -----------------------------
(***************************************************************************)
(* What a run does before any role may change the source (engine/          *)
(* orchestrator.py: run, up to the isolated worktree; engine/roles.py):    *)
(* intent gate, baseline snapshot, strategy, execution brief, verification *)
(* plan, explorer, planner, plan review, contracts.  It all happens in the *)
(* owner's worktree, where the owner goes on working.  A worktree is the   *)
(* set of the edits made to it since the run was started.                  *)
(***************************************************************************)
EXTENDS Strategy, Contracts, Skills

CONSTANTS
  Modes,        \* the modes the run may be started in
  Requests,     \* requests, as sequences of clauses
  Targets,      \* paths the request names
  TaskTypes,    \* kinds of work the request's wording suggests, in order
  Answers,      \* what the classifier may answer
  Plans,        \* what the planner may write
  Catalogs,     \* sets of test commands grounding may discover
  SkillSets,    \* skill catalogs that may be installed
  Wordings,     \* which patterns the request may match
  Facts,        \* what the repository may say of its targets
  OwnerChanges  \* changes the owner may make to the worktree meanwhile

Classifier == "classifier"   \* an edit of the classifier
Leak       == "leak"         \* an edit of a role that may only read

ASSUME PreparationAssumption ==
  /\ Modes \subseteq {"orchestrate", "adaptive", "goal", "audit"}
  /\ {Classifier, Leak, "no snapshot"} \cap OwnerChanges = {}
  /\ Wordings \subseteq Texts /\ Facts \subseteq Signals
  /\ \A r \in Requests : r # <<>>
  /\ \A a \in Answers : a.sound \in BOOLEAN
  /\ SkillSets \subseteq Seq(SkillContracts) /\ TaskTypes \in Seq(STRING)

None  == "none"
Roles == {"explorer_fast", "planner_deep", "reviewer_deep"}

VARIABLES
  pc,        \* gate, preflight, capability, classify, ground, compile, freeze,
             \* a role, contract, blueprint, tasks, implement, stopped
  request,   \* the clauses of the request
  mode,      \* the mode of the run
  gate,      \* intent-gate.json
  intent,    \* intent-contract.json
  tree,      \* the owner's worktree
  baseline,  \* the snapshot the isolated worktree will start from
  decision,  \* strategy.json
  skills,    \* skill-resolution.json
  risky,     \* history: a critical path, or a risky request nobody overrode
  catalog,   \* the test commands of grounding-snapshot.json
  brief,     \* execution-brief.json
  frozen,    \* verification-plan-baseline.json
  plan,      \* verification-plan.json
  before,    \* the snapshot taken when the running role was started
  called,    \* the roles that were started
  tasks,     \* the tasks of plan.json
  approved,  \* whether a plan review approved them
  verdict    \* how the run stopped

vars == <<pc, request, mode, gate, intent, tree, baseline, decision, skills, risky,
          catalog, brief, frozen, plan, before, called, tasks, approved, verdict>>
askVars      == <<request, mode>>
intentVars   == <<gate, intent>>
strategyVars == <<decision, skills, risky>>
planVars     == <<catalog, brief, frozen, plan>>
roleVars     == <<before, called>>
taskVars     == <<tasks, approved>>

NoSnapshot == {"no snapshot"}
NoGate     == [kind |-> None, clarity |-> None, authority |-> None, sound |-> FALSE]
NoIntent   == [objective |-> None, criteria |-> {}, constraints |-> {}, nonGoals |-> {}]
NoDecision == [strategy |-> None, tier |-> None, planner |-> FALSE, reviewer |-> FALSE,
               explorer |-> FALSE, context |-> FALSE]

Init ==
  /\ pc = "gate" /\ request \in Requests /\ mode \in Modes
  /\ gate = NoGate /\ intent = NoIntent
  /\ tree = {} /\ baseline = NoSnapshot
  /\ decision = NoDecision /\ skills = <<>> /\ risky = FALSE
  /\ catalog = {} /\ brief = NoBrief /\ frozen = NoPlan /\ plan = NoPlan
  /\ before = NoSnapshot /\ called = {}
  /\ tasks = <<>> /\ approved = FALSE /\ verdict = None

Go(next) == pc' = next /\ UNCHANGED verdict
Stop(v)  == pc' = "stopped" /\ verdict' = v

-----------------------------------------------------------------------------
\* Only the owner can answer.
Asks(g) == g.clarity \in {"owner_decision_required", "blocked"}

\* The goal routes have no classifier: a goal run never asks one.
Routed == mode # "goal"

(* evaluate_intent: a classifier that cannot be run or that answers no     *)
(* JSON is replaced by the fallback, which allows changes.                 *)
Evaluated == {Fallback} \cup (IF Routed THEN { GateOf(a) : a \in Answers } ELSE {})

(* An answer of another shape raises.  Nothing compares the worktree with  *)
(* what it was before the classifier ran.                                  *)
IntentGate ==
  /\ pc = "gate"
  /\ tree' \in IF Routed THEN {tree, tree \cup {Classifier}} ELSE {tree}
  /\ \/ \E g \in Evaluated :
          /\ gate' = g
          /\ IF Asks(g) THEN Stop("NEEDS_INPUT") /\ UNCHANGED intent
             ELSE intent' = CompileIntent(request) /\ Go("preflight")
     \/ Routed /\ Stop("SYSTEM_ERROR") /\ UNCHANGED intentVars
  /\ UNCHANGED <<askVars, baseline, strategyVars, planVars, roleVars, taskVars>>

\* Outside a Git repository there is nothing to return to.
Preflight ==
  /\ pc = "preflight"
  /\ \/ baseline' = tree /\ Go("capability")
     \/ Stop("NEEDS_INPUT") /\ UNCHANGED baseline
  /\ UNCHANGED <<askVars, intentVars, tree, strategyVars, planVars, roleVars, taskVars>>

Probe ==
  /\ pc = "capability"
  /\ Go("classify") \/ Stop("NEEDS_INPUT")
  /\ UNCHANGED <<askVars, intentVars, tree, baseline, strategyVars, planVars, roleVars,
                 taskVars>>

\* A request that may only be read cannot enter a strategy that mutates.
Mismatch(d) ==
  gate.authority = "read_only" /\ d.strategy # "REPOSITORY_ANALYSIS" /\ mode # "audit"

(* classify_request, the proof graph and resolve_skills: an unknown        *)
(* override and a pack whose references do not fit raise.                  *)
Classify ==
  /\ pc = "classify"
  /\ \/ \E text \in Wordings, s \in Facts, override \in Strategies \cup {None} :
          LET d == ForMode(ClassifyRequest(text, override, s, gate), mode)
          IN  IF Mismatch(d) THEN Stop("NEEDS_INPUT") /\ UNCHANGED strategyVars
              ELSE /\ decision' = d
                   /\ risky' = \/ s.critical
                               \/ /\ override = None
                                  /\ StrategyOf(text, gate) = "HIGH_RISK_ENGINEERING"
                   /\ \E installed \in SkillSets :
                        /\ skills' = ResolveSkills(installed, d.tier, TaskTypes)
                        /\ IF SlicesFit(skills') THEN Go("ground") ELSE Stop("SYSTEM_ERROR")
     \/ Stop("SYSTEM_ERROR") /\ UNCHANGED strategyVars
  /\ UNCHANGED <<askVars, intentVars, tree, baseline, planVars, roleVars, taskVars>>

\* collect_grounding; without CodeGraph the run goes on with less context.
Ground ==
  /\ pc = "ground"
  /\ catalog' \in Catalogs
  /\ Go("compile")
  /\ UNCHANGED <<askVars, intentVars, tree, baseline, strategyVars, brief, frozen, plan,
                 roleVars, taskVars>>

\* The compiler is active for T2 and T3; only then a failure stops the run.
Compile ==
  /\ pc = "compile"
  /\ brief' = CompileBrief(intent, Targets, gate.sound, Heavy(decision.tier))
  /\ IF Heavy(decision.tier) /\ brief' = NoBrief THEN Stop("BLOCKED") ELSE Go("freeze")
  /\ UNCHANGED <<askVars, intentVars, tree, baseline, strategyVars, catalog, frozen, plan,
                 roleVars, taskVars>>

\* The evaluator's inputs are read from the worktree as it is now.
Freeze ==
  /\ pc = "freeze"
  /\ frozen' = BaselinePlan(catalog, tree)
  /\ IF decision.planner /\ (mode = "goal" \/ decision.explorer)
     THEN Go("explorer_fast") ELSE Go("planner_deep")
  /\ UNCHANGED <<askVars, intentVars, tree, baseline, strategyVars, catalog, brief, plan,
                 roleVars, taskVars>>

-----------------------------------------------------------------------------
(* A role with immutable_source: a snapshot, the host, a comparison.  The  *)
(* host must be able to run the role.                                      *)
StartRole ==
  /\ pc \in Roles /\ before = NoSnapshot
  /\ \/ before' = tree /\ called' = called \cup {pc} /\ Go(pc)
     \/ Stop("NEEDS_INPUT") /\ UNCHANGED roleVars
  /\ UNCHANGED <<askVars, intentVars, tree, baseline, strategyVars, planVars, taskVars>>

\* A mutant of Mutated: only what the role was asked for is looked at.
MutatedNever(now) == FALSE

Mutated(now) == now # before

\* What the planner's artifact makes of the run.
Planned(p) ==
  LET fault == PlanFault(p)
  IN  IF fault # "ok" THEN Stop(fault) /\ UNCHANGED taskVars
      ELSE /\ tasks' = Materialized(p.tasks, intent.criteria)
           /\ UNCHANGED approved
           /\ IF decision.planner /\ decision.strategy = "HIGH_RISK_ENGINEERING"
              THEN Go("reviewer_deep") ELSE Go("contract")

Explored == Go("planner_deep") /\ UNCHANGED taskVars

\* Anything but an approval blocks; an artifact that is no JSON raises.
Reviewed(answer) ==
  /\ approved' = (answer = "APPROVED") /\ UNCHANGED tasks
  /\ CASE answer = "APPROVED"  -> Go("contract")
       [] answer = "malformed" -> Stop("SYSTEM_ERROR")
       [] OTHER                -> Stop("BLOCKED")

\* A role that ended well and left its result.
Answered == \/ pc = "explorer_fast" /\ Explored
            \/ pc = "planner_deep" /\ \E p \in Plans : Planned(p)
            \/ pc = "reviewer_deep" /\ \E a \in {"APPROVED", "refused", "malformed"} : Reviewed(a)

(* The host returned.  An exception and an exhausted token budget end the  *)
(* run before the comparison; a changed worktree ends it whatever the role *)
(* answered, and stays as it is; then the role's own verdict counts.       *)
EndRole ==
  /\ pc \in Roles /\ before # NoSnapshot
  /\ before' = NoSnapshot /\ UNCHANGED called
  /\ tree' \in {tree, tree \cup {Leak}}
  /\ \/ \E v \in {"SYSTEM_ERROR", "BLOCKED"} : Stop(v) /\ UNCHANGED taskVars
     \/ Mutated(tree') /\ Stop("FAILED") /\ UNCHANGED taskVars
     \/ ~Mutated(tree') /\ \E v \in {"FAILED", "NEEDS_INPUT"} : Stop(v) /\ UNCHANGED taskVars
     \/ ~Mutated(tree') /\ Answered
  /\ UNCHANGED <<askVars, intentVars, baseline, strategyVars, planVars>>

-----------------------------------------------------------------------------
\* The second compilation; in a goal run also the goal contract and memory.
Contract ==
  /\ pc = "contract"
  /\ plan' = TaskPlan(catalog, tree, frozen, tasks)
  /\ Go("blueprint")
  /\ UNCHANGED <<askVars, intentVars, tree, baseline, strategyVars, catalog, brief, frozen,
                 roleVars, taskVars>>

\* A reconciled brief must be covered by the tasks; without one anything goes.
Blueprint ==
  /\ pc = "blueprint"
  /\ IF brief.kind = "EXECUTION_BRIEF" /\ ~ValidBlueprint(brief, tasks)
     THEN Stop("BLOCKED") ELSE Go("tasks")
  /\ UNCHANGED <<askVars, intentVars, tree, baseline, strategyVars, planVars, roleVars,
                 taskVars>>

\* The task loop starts in the isolated worktree, whatever the mode.
ExecuteTasks ==
  /\ pc = "tasks"
  /\ called' = called \cup {"implementer_fast"}
  /\ Go("implement")
  /\ UNCHANGED <<askVars, intentVars, tree, baseline, strategyVars, planVars, before,
                 taskVars>>

\* Any write, git call or library call may fail.
Raise ==
  /\ pc \notin {"stopped", "tasks", "implement"} /\ Stop("SYSTEM_ERROR")
  /\ UNCHANGED <<askVars, intentVars, tree, baseline, strategyVars, planVars, roleVars,
                 taskVars>>

OwnerWorks ==
  /\ pc \notin {"stopped", "implement"}
  /\ \E e \in OwnerChanges \ tree : tree' = tree \cup {e}
  /\ UNCHANGED <<pc, askVars, intentVars, baseline, strategyVars, planVars, roleVars,
                 taskVars, verdict>>

Ended == pc \in {"stopped", "implement"} /\ UNCHANGED vars

Step == \/ IntentGate \/ Preflight \/ Probe \/ Classify \/ Ground \/ Compile \/ Freeze
        \/ StartRole \/ EndRole \/ Contract \/ Blueprint \/ ExecuteTasks

Next == Step \/ Raise \/ OwnerWorks \/ Ended

Spec == Init /\ [][Next]_vars

-----------------------------------------------------------------------------
Ready == pc \in {"tasks", "implement"}

(* The type invariant; whatever a classifier answers, the gate's result    *)
(* has known values.                                                       *)
TypeOK ==
  /\ pc \in Roles \cup {"gate", "preflight", "capability", "classify", "ground", "compile",
                        "freeze", "contract", "blueprint", "tasks", "implement", "stopped"}
  /\ request \in Requests /\ mode \in Modes
  /\ gate \in Gates \cup {NoGate}
  /\ decision \in Decisions \cup {NoDecision}
  /\ {tree, baseline \ NoSnapshot, before \ NoSnapshot, frozen.inputs, plan.inputs}
       \subseteq SUBSET (OwnerChanges \cup {Classifier, Leak})
  /\ called \subseteq Roles \cup {"implementer_fast"}
  /\ {risky, approved} \subseteq BOOLEAN
  /\ verdict \in {None, "NEEDS_INPUT", "BLOCKED", "FAILED", "SYSTEM_ERROR"}

(* A request on a critical path, and one that asks for risk or external    *)
(* effects unless the caller fixed a strategy, does not reach an           *)
(* implementer before a plan review approved its plan, and its result will *)
(* be reviewed (classify_request with apply_repository_signals,            *)
(* run_plan_review).                                                       *)
RiskIsReviewed == risky /\ Ready => approved /\ decision.reviewer

(* No requirement is lost on the way: in a heavy run every clause the      *)
(* request lists as a requirement is linked by a task that is proved after *)
(* its implementation (compile_intent, reconcile_proposal,                 *)
(* materialize_plan, validate_blueprint).                                  *)
RequirementsReachTasks ==
  Ready /\ Heavy(decision.tier) =>
    \A c \in { request[i] : i \in DOMAIN request } :
      c.listed => \E i \in DOMAIN tasks : c.text \in tasks[i].links /\ tasks[i].proof = "post"

(* Whatever the planner proposes and the owner edits while it plans, the   *)
(* authority the tasks are judged by is the one frozen before the first    *)
(* role was started: its commands, its evaluator inputs, none of them the  *)
(* work of a role (compile_verification_plan with baseline_plan).          *)
FrozenAuthority ==
  plan # NoPlan =>
    plan.mandatory = catalog /\ plan.inputs = frozen.inputs /\ Leak \notin plan.inputs

(* Protocols and packs of all task types together fit the tier's budget,   *)
(* and a heavy run never loads the set of a lighter one (resolve_skills).  *)
SkillsFit ==
  skills # <<>> =>
    /\ Cost(skills) <= TokenBudget[decision.tier]
    /\ \A i \in DOMAIN skills : decision.tier \in skills[i].tiers

(* The step Prepare of Delivery, in detail: the owner's worktree is        *)
(* touched by the owner, or by a role that ended the run, and the profile  *)
(* is one a classification gives.                                          *)
Since == IF baseline = NoSnapshot THEN {} ELSE tree \ baseline
R == INSTANCE DeliveryRecords WITH Criteria <- {}, Covered <- {}
Point    == IF pc = "stopped" THEN "publish" ELSE IF Ready THEN "tasks" ELSE "prepare"
Profile  == IF Ready THEN [tier |-> decision.tier, reviewer |-> decision.reviewer]
                     ELSE R!Unclassified
Original == (IF Since \cap OwnerChanges # {} THEN {"owner"} ELSE {}) \cup (Since \cap {Leak})
ToWrite  == IF pc = "stopped" THEN R!Records(verdict) ELSE <<>>
D == INSTANCE Delivery WITH
       Criteria <- {}, Covered <- {}, Edits <- {}, InScope <- {},
       Profiles <- [tier : Tiers, reviewer : BOOLEAN] \ {[tier |-> "T0", reviewer |-> TRUE]},
       GoalMode <- FALSE, PlanReady <- FALSE, EvaluatorInputs <- FALSE, CheckEdits <- FALSE,
       pc <- Point, profile <- Profile, original <- Original, verdict <- verdict, todo <- ToWrite,
       wasLight <- FALSE, sandbox <- {}, graph <- R!InitialGraph, cycle <- 0,
       report <- R!NoReport, review <- R!NoReview, patch <- R!Nothing, delivered <- R!Nothing,
       files <- R!NoFiles
Prepares == D!Init /\ [][D!Prepare \/ D!OwnerEdits]_(D!vars)
=============================================================================
