----------------------------- MODULE Contracts ------------------------------
(***************************************************************************)
(* The contracts a run compiles before it may touch the source: the intent *)
(* contract (engine/intent.py), the execution brief (contracts/            *)
(* execution_brief.py, engine/reconciler.py), the planner's tasks          *)
(* (engine/roles.py, contracts/task_brief.py, contracts/blueprint.py) and  *)
(* the verification plan (contracts/verification_plan.py).  A clause of    *)
(* the request is a record of its text and of the patterns it matches; a   *)
(* criterion is the text of the clause it came from.                       *)
(***************************************************************************)
EXTENDS Naturals, Sequences, FiniteSets

Clause(text, listed, constraint, nonGoal, check) ==
  [text |-> text, listed |-> listed, constraint |-> constraint,
   nonGoal |-> nonGoal, check |-> check]

-----------------------------------------------------------------------------
(* compile_intent.  The objective is the first clause that is neither a    *)
(* constraint nor a non-goal, or else the first clause.                    *)
Plain(c) == ~c.constraint /\ ~c.nonGoal

Objective(request) ==
  LET plain == { i \in DOMAIN request : Plain(request[i]) }
  IN  IF plain = {} THEN 1 ELSE CHOOSE i \in plain : \A j \in plain : i <= j

\* A listed requirement is a criterion also when it is a boundary; a non-goal
\* is one only when it is listed.
IsCriterion(c) == c.listed \/ (~c.nonGoal /\ c.check)

Others(request) == DOMAIN request \ {Objective(request)}

\* Clauses with equal text are one.
CompileIntent(request) ==
  [objective   |-> request[Objective(request)].text,
   criteria    |-> { request[Objective(request)].text } \cup
                   { request[i].text : i \in { j \in Others(request) : IsCriterion(request[j]) } },
   constraints |-> { request[i].text : i \in { j \in Others(request) :
                       request[j].constraint /\ ~request[j].nonGoal } },
   nonGoals    |-> { request[i].text : i \in { j \in Others(request) : request[j].nonGoal } }]

-----------------------------------------------------------------------------
(* The execution brief.                                                    *)
NoBrief == [kind |-> "none", criteria |-> {}, candidates |-> {}, approved |-> {},
            protected |-> {}, status |-> "none"]

ShadowBrief(intent, targets) ==
  [kind |-> "EXECUTION_BRIEF_SHADOW", criteria |-> intent.criteria,
   candidates |-> targets, approved |-> {}, protected |-> {}, status |-> "UNRESOLVED"]

\* build_conservative_proposal
Proposal(shadow) ==
  [shadow EXCEPT !.kind = "EXECUTION_BRIEF", !.approved = shadow.candidates,
                 !.status = "CONSTRAINED"]

ScopeHolds(b) == /\ b.approved \subseteq b.candidates
                 /\ b.protected \subseteq b.candidates
                 /\ b.approved \cap b.protected = {}

\* validate_execution_brief
ValidBrief(b) ==
  /\ b.criteria # {}
  /\ IF b.kind = "EXECUTION_BRIEF_SHADOW"
     THEN b.approved = {} /\ b.protected = {} /\ b.status = "UNRESOLVED"
     ELSE b.kind = "EXECUTION_BRIEF" /\ b.status = "CONSTRAINED" /\ ScopeHolds(b)

\* reconcile_proposal: nothing invented, nothing dropped, scope only narrowed.
Reconciles(shadow, b) ==
  /\ b.criteria = shadow.criteria /\ b.candidates = shadow.candidates
  /\ ScopeHolds(b) /\ b.kind \in {shadow.kind, "EXECUTION_BRIEF"}

(* Light runs keep the shadow, heavy ones need the reconciled brief; a     *)
(* brief that does not compile is dropped by a light run.                  *)
CompileBrief(intent, targets, sound, active) ==
  LET shadow == ShadowBrief(intent, targets)
      brief  == IF active THEN Proposal(shadow) ELSE shadow
  IN  IF sound /\ ValidBrief(shadow) /\ ValidBrief(brief) /\ Reconciles(shadow, brief)
      THEN brief ELSE NoBrief

-----------------------------------------------------------------------------
(* The plan.  The planner's artifact is a record of its form and its tasks;*)
(* form is "malformed" when it is no JSON object, "refused" when its       *)
(* verdict is not READY.  formed says that a task has every required field *)
(* with its type; fast, recovery, changed and new are its budgets; rung is *)
(* how much new code it may write, evidence whether it names evidence and  *)
(* what it considered before; proof is "none" without a proofPlan and      *)
(* "empty" when it holds no post-implementation check.                     *)
NewCode == {"DIRECT_CHANGE", "MINIMAL_NEW_CODE"}
Rungs   == NewCode \cup {"SKIP_NOT_NEEDED", "REUSE_EXISTING", "STDLIB", "PLATFORM_NATIVE",
                        "INSTALLED_DEPENDENCY"}

\* load_task_brief
Loads(t) ==
  /\ t.formed /\ t.fast >= 1 /\ t.recovery >= 0 /\ t.changed >= 1 /\ t.new >= 0
  /\ t.rung \in Rungs /\ (t.rung \in NewCode => t.evidence)
  /\ t.proof \in {"none", "empty", "post"}

UniqueIds(tasks) == \A i, j \in DOMAIN tasks : i # j => tasks[i].id # tasks[j].id

\* materialize_plan: what stops it, "ok" otherwise.
PlanFault(plan) ==
  IF plan.form = "malformed" THEN "SYSTEM_ERROR"
  ELSE IF plan.form = "refused" THEN "BLOCKED"
  ELSE IF \/ Len(plan.tasks) \notin 1..4 \/ ~UniqueIds(plan.tasks)
          \/ \E i \in DOMAIN plan.tasks : ~Loads(plan.tasks[i]) \/ plan.tasks[i].paths = {}
       THEN "SYSTEM_ERROR"
  ELSE "ok"

\* A single task without criteria is linked to the single criterion.
Materialized(tasks, criteria) ==
  IF Len(tasks) = 1 /\ tasks[1].links = {} /\ Cardinality(criteria) = 1
  THEN <<[tasks[1] EXCEPT !.links = criteria]>> ELSE tasks

Linked(tasks) == UNION { tasks[i].links : i \in DOMAIN tasks }

\* A mutant of ValidBlueprint: a criterion nobody works on is not missed.
ValidBlueprintPartial(brief, tasks) ==
  \A i \in DOMAIN tasks : /\ tasks[i].links # {} /\ tasks[i].links \subseteq brief.criteria
                          /\ tasks[i].proof = "post"

\* validate_blueprint with structured proof required.
ValidBlueprint(brief, tasks) ==
  /\ \A i \in DOMAIN tasks : tasks[i].links # {} /\ tasks[i].proof = "post"
  /\ Linked(tasks) = brief.criteria

-----------------------------------------------------------------------------
(* The verification plan: the repository's own test commands are mandatory,*)
(* the checks of the tasks are candidates, a candidate that is a mandatory *)
(* command links its task's criteria to it.  inputs stands for the         *)
(* fingerprint of the entry points and configuration of the commands: the  *)
(* edits the tree held when it was taken.                                  *)
NoPlan == [mandatory |-> {}, candidates |-> {}, links |-> {}, inputs |-> {}, status |-> "none"]

Candidates(tasks) == UNION { tasks[i].checks : i \in DOMAIN tasks }

Compiled(mandatory, inputs, tasks) ==
  [mandatory |-> mandatory, candidates |-> Candidates(tasks),
   links |-> UNION { { <<c, criterion>> : c \in tasks[i].checks \cap mandatory,
                       criterion \in tasks[i].links } : i \in DOMAIN tasks },
   inputs |-> inputs,
   status |-> IF mandatory = {} THEN "INSUFFICIENT_AUTHORITY" ELSE "READY"]

\* compile_verification_plan before there are tasks: from catalog and tree.
BaselinePlan(catalog, tree) == Compiled(catalog, tree, <<>>)

\* A mutant of TaskPlan: the second compilation reads the worktree again.
TaskPlanFromWorktree(catalog, tree, baseline, tasks) == Compiled(catalog, tree, tasks)

\* With the baseline plan: its mandatory checks and inputs are copied.
TaskPlan(catalog, tree, baseline, tasks) ==
  Compiled(baseline.mandatory, baseline.inputs, tasks)

\* with_mandatory_checks
RequiredChecks(task, plan) == task.checks \cup plan.mandatory

\* authoritative_passed_criteria: none before every mandatory check passed.
PassedCriteria(plan, passed) ==
  IF plan.mandatory # {} /\ plan.mandatory \subseteq passed
  THEN { pair[2] : pair \in plan.links } ELSE {}
=============================================================================
