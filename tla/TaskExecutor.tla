---------------------------- MODULE TaskExecutor ----------------------------
(***************************************************************************)
(* The task loop of a ProofLoop run (engine/task_executor.py, with the     *)
(* orchestrator's _invoke, _run_preimplementation_proof, _replan_task and  *)
(* _activate_recovery_protocol): the run's tasks are executed one after    *)
(* the other; each one invokes an implementer role, verifies its work,     *)
(* records the attempt and follows the decision table until the task       *)
(* passes or the run stops.  What a role does to the tree and what a check *)
(* prints is abstracted to the evidence the table compares.                *)
(***************************************************************************)
EXTENDS Repair

CONSTANTS
  NTasks,         \* tasks of the plan (1 to 4 in the code)
  GoalModes,      \* whether the run may be a goal run, an ordinary one or either
  Budgets,        \* repair budgets a task brief may declare
  FastCap,        \* a bound on every declared maxFastAttempts
  RecoveryCap,    \* a bound on every declared maxRecoveryAttempts
  MaxReplans,     \* --max-replans
  MaxGoalCycles,  \* --max-cycles
  Profiles,       \* tier and reviewer_required a classification may give
  TokenBudget,    \* hard token budget of each tier
  TokenCosts,     \* budgeted tokens one role invocation may report
  Classes,        \* classifications an implementer may report
  Fingerprints    \* failure fingerprints

Planner == "planner_deep"
Roles   == {Fast, Recovery, Planner}

ASSUME CountsAssumption ==
  /\ NTasks \in Nat \ {0} /\ MaxReplans \in Nat /\ MaxGoalCycles \in Nat
  /\ FastCap \in Nat /\ RecoveryCap \in Nat
  /\ GoalModes \subseteq BOOLEAN
ASSUME BudgetsAssumption ==
  /\ Budgets # {}
  /\ \A b \in Budgets :
       /\ b \in [fast : Nat \ {0}, recovery : Nat]
       /\ b.fast <= FastCap /\ b.recovery <= RecoveryCap
ASSUME TokensAssumption ==
  /\ TokenCosts \subseteq Nat
  /\ TokenBudget \in [Tiers -> Nat]
  /\ TokenBudget["T0"] <= TokenBudget["T2"] /\ TokenBudget["T1"] <= TokenBudget["T2"]
ASSUME ProfilesAssumption == Profiles \subseteq [tier : Tiers, reviewer : BOOLEAN]

VARIABLES
  pc,         \* where the loop is: next, proof, cycle, invoke, verify, decide, replan, done
  taskNo,     \* number of the current task (0 before the first)
  budget,     \* budgets of the brief the current task runs under
  role,       \* role of the next attempt
  attempts,   \* verified attempts of the current task
  replans,    \* replans of the current task
  goalCycles, \* goal cycles used by the whole run
  goalState,  \* state of the goal
  profile,    \* tier and reviewer_required of the run's strategy
  recoveryObligation, \* whether the proof graph holds recovery-progress
  used,       \* invocations recorded per role (used_roles)
  consumed,   \* budgeted tokens consumed
  outcome     \* verdict and code the loop ended with

vars == <<pc, taskNo, budget, role, attempts, replans, goalCycles, goalState,
          profile, recoveryObligation, used, consumed, outcome>>
loopVars == <<taskNo, budget, role, attempts, replans>>
runVars  == <<goalCycles, goalState, profile, recoveryObligation>>

Attempt  == [role : {Fast, Recovery}, check : {"PASS", "FAIL"},
             diff : {"PASS", "FAIL"}, class : Classes \cup {None},
             fp : Fingerprints \cup {None}]

Running == [verdict |-> "NONE", code |-> "NONE"]

Init ==
  /\ pc = "next" /\ taskNo = 0 /\ budget \in Budgets
  /\ role = Fast /\ attempts = <<>> /\ replans = 0
  /\ goalCycles = 0
  /\ goalState \in { IF goal THEN "IMPLEMENT" ELSE "INIT" : goal \in GoalModes }
  /\ profile \in Profiles /\ recoveryObligation = FALSE
  /\ used = [r \in Roles |-> 0]
  /\ consumed = 0
  /\ outcome = Running

Stop(verdict, code) ==
  /\ pc' = "done"
  /\ outcome' = [verdict |-> verdict, code |-> code]

\* _goal_transition leaves the state of an ordinary run at INIT.
GoalMode == goalState # "INIT"

Goal(target) == goalState' = IF GoalMode THEN target ELSE goalState

-----------------------------------------------------------------------------
\* A mutant of StartTask: every task of a goal run gets the cycles anew.
StartTaskWithFreshCycles ==
  /\ pc = "next" /\ taskNo < NTasks
  /\ taskNo' = taskNo + 1
  /\ budget' \in Budgets
  /\ role' = Fast /\ attempts' = <<>> /\ replans' = 0 /\ goalCycles' = 0
  /\ pc' = "proof"
  /\ UNCHANGED <<goalState, profile, recoveryObligation, used, consumed, outcome>>

(* for task in self.tasks: the brief fixes the budgets of the task.        *)
StartTask ==
  /\ pc = "next" /\ taskNo < NTasks
  /\ taskNo' = taskNo + 1
  /\ budget' \in Budgets
  /\ role' = Fast /\ attempts' = <<>> /\ replans' = 0
  /\ pc' = "proof"
  /\ UNCHANGED <<runVars, used, consumed, outcome>>

FinishTasks ==
  /\ pc = "next" /\ taskNo = NTasks
  /\ Stop("PASS", "TASKS_COMPLETED")
  /\ UNCHANGED <<loopVars, runVars, used, consumed>>

(* Baseline checks must pass and red checks must fail before the source is *)
(* touched; a stage without checks meets its expectation.                  *)
PreimplementationProof ==
  /\ pc = "proof"
  /\ \/ pc' = "cycle" /\ UNCHANGED outcome
     \/ \E code \in {"PROOF_BASELINE_FAILED", "PROOF_RED_CHECK_NOT_RED"} :
          Stop("FAILED", code)
  /\ UNCHANGED <<loopVars, runVars, used, consumed>>

(* Top of the loop: a goal run pays one cycle for every attempt.           *)
BeginCycle ==
  /\ pc = "cycle"
  /\ goalCycles' = goalCycles + (IF GoalMode THEN 1 ELSE 0)
  /\ IF GoalMode /\ goalCycles' > MaxGoalCycles
     THEN /\ Goal("EXHAUSTED")
          /\ Stop("BLOCKED", "GOAL_CYCLE_BUDGET_EXHAUSTED")
     ELSE /\ Goal("IMPLEMENT")
          /\ pc' = "invoke" /\ UNCHANGED outcome
  /\ UNCHANGED <<loopVars, profile, recoveryObligation, used, consumed>>

-----------------------------------------------------------------------------
(* _invoke: what can end a role invocation, with the verdict each raises.  *)
End(verdict, code) == [verdict |-> verdict, code |-> code]

Completed       == End("PASS", "ROLE_COMPLETED")
TokensExhausted == End("BLOCKED", "TOKEN_BUDGET_EXHAUSTED")
BeforeHost == { End("NEEDS_INPUT", "ROUTING_OWNER_ACTION_REQUIRED"),
                End("BLOCKED", "ROLE_VIEW_FAILED"),
                End("ERROR", "ADAPTER_RAISED") }
AfterHost ==
  { Completed,
    End("NEEDS_INPUT", "HOST_RATE_LIMITED"),
    End("NEEDS_INPUT", "HOST_INITIAL_OUTPUT_TIMEOUT"),
    End("NEEDS_INPUT", "HOST_PROVIDER_RESPONSE_TIMEOUT"),
    End("FAILED", "INVOCATION_FAILED"),
    End("FAILED", "ROLE_RESULT_MISSING"),
    End("FAILED", "PLANNER_DEEP_MUTATED_SOURCE") }
Endings == BeforeHost \cup AfterHost \cup {TokensExhausted}

\* A mutant of Overspent: only the limit of the highest tier is enforced.
OverspentAtHighestTier(total) == total > TokenBudget["T3"]

Overspent(total) == total > TokenBudget[profile.tier]

\* Tokens are charged before the invocation is recorded, and a run that
\* overspent its budget is stopped there.  Only a read-only role (the
\* planner) has its source compared afterwards.
Invocation(r, end) ==
  \/ end \in BeforeHost /\ UNCHANGED <<used, consumed>>
  \/ \E c \in TokenCosts :
       /\ consumed' = consumed + c
       /\ IF Overspent(consumed')
          THEN end = TokensExhausted /\ UNCHANGED used
          ELSE /\ end \in AfterHost
               /\ end.code = "PLANNER_DEEP_MUTATED_SOURCE" => r = Planner
               /\ used' = [used EXCEPT ![r] = @ + 1]

\* A block that follows a failed attempt is reported as a recovery that
\* could not start.
ImplementerError(end) ==
  IF end.verdict = "BLOCKED" /\ attempts # <<>>
  THEN Stop("BLOCKED", "RECOVERY_BLOCKED_AFTER_DETERMINISTIC_FAILURE")
  ELSE Stop(end.verdict, end.code)

InvokeImplementer ==
  /\ pc = "invoke"
  /\ \E end \in Endings :
       /\ Invocation(role, end)
       /\ IF end = Completed THEN pc' = "verify" /\ UNCHANGED outcome
                             ELSE ImplementerError(end)
  /\ UNCHANGED <<loopVars, runVars>>

-----------------------------------------------------------------------------
(* Checks, post-implementation proof and diff guard of one attempt.  The   *)
(* fingerprint covers failing checks and diff violations, so it is absent  *)
(* exactly when both passed.                                               *)
RealEvidence(a) == (a.fp = None) <=> (a.check = "PASS" /\ a.diff = "PASS")

\* A mutant of Recorded: a diff outside the contract is one more failure to repair.
RecordedForRepair(a) == pc' = "decide" /\ UNCHANGED outcome

Recorded(a) ==
  IF a.diff = "PASS" THEN pc' = "decide" /\ UNCHANGED outcome
                     ELSE Stop("FAILED", "TASK_CONTRACT_VIOLATION")

VerifyAttempt ==
  /\ pc = "verify"
  /\ Goal("VERIFY")
  /\ \/ \E a \in Attempt :
          /\ a.role = role /\ RealEvidence(a)
          /\ attempts' = Append(attempts, a)
          /\ Recorded(a)
     \/ /\ Stop("ERROR", "ROLE_RESULT_UNREADABLE")
        /\ UNCHANGED attempts
  /\ UNCHANGED <<taskNo, budget, role, replans, goalCycles, profile,
                 recoveryObligation, used, consumed>>

TaskPassed(rule) ==
  /\ rule = "R10_DETERMINISTIC_SUCCESS"
  /\ pc' = "next"
  /\ UNCHANGED <<role, goalState, profile, recoveryObligation, outcome>>

RetryFast(rule) ==
  /\ RunsFast(rule)
  /\ role' = Fast /\ pc' = "cycle"
  /\ UNCHANGED <<goalState, profile, recoveryObligation, outcome>>

StartRecovery(rule) ==
  /\ RunsRecovery(rule)
  /\ role' = Recovery /\ pc' = "cycle"
  /\ profile' = Escalated(profile) /\ recoveryObligation' = TRUE
  /\ UNCHANGED <<goalState, outcome>>

\* A mutant of ReplansSpent: one replan more than the owner allowed.
ReplansSpentLate == replans > MaxReplans

ReplansSpent == replans >= MaxReplans

AskPlanner(rule) ==
  /\ rule = "R20_OWNER_DECISION"
  /\ IF ReplansSpent
     THEN Stop("BLOCKED", "REPLAN_BUDGET_EXHAUSTED")
     ELSE IF Latest(attempts).class \in
               {"SPEC_AMBIGUITY", "AUTHORIZATION_AMBIGUOUS", "CONTRACT_CHANGE"}
     THEN Stop("NEEDS_INPUT", "TASK_INPUT_REQUIRED")
     ELSE pc' = "replan" /\ UNCHANGED outcome
  /\ UNCHANGED <<role, goalState, profile, recoveryObligation>>

GiveUp(rule) ==
  /\ rule \in {"R31_IDENTICAL_FAILURE_BLOCK", "R99_BUDGET_EXHAUSTED"}
  /\ Goal("EXHAUSTED")
  /\ Stop("FAILED", IF rule = "R31_IDENTICAL_FAILURE_BLOCK"
                    THEN "BLOCKED_IDENTICAL_FAILURE" ELSE "TASK_VERIFICATION_FAILED")
  /\ UNCHANGED <<role, profile, recoveryObligation>>

Decision ==
  /\ pc = "decide"
  /\ LET rule == Decide(attempts, budget)
     IN  \/ TaskPassed(rule)
         \/ RetryFast(rule)
         \/ StartRecovery(rule)
         \/ AskPlanner(rule)
         \/ GiveUp(rule)
  /\ UNCHANGED <<taskNo, budget, attempts, replans, goalCycles, used, consumed>>

(* _replan_task: a read-only planner writes a new brief for the same task. *)
(* The list of attempts is kept; the next attempt is a fast one.           *)
AcceptBrief ==
  /\ budget' \in Budgets
  /\ replans' = replans + 1
  /\ role' = Fast
  /\ pc' = "cycle" /\ UNCHANGED outcome

\* A mutant of NoBrief: a planner call that raised is decided about again.
NoBriefAskedAgain(end) ==
  /\ IF end.code = "ADAPTER_RAISED" THEN pc' = "decide" /\ UNCHANGED outcome
                                    ELSE Stop(end.verdict, end.code)
  /\ UNCHANGED <<budget, replans, role>>

NoBrief(end) ==
  /\ Stop(end.verdict, end.code)
  /\ UNCHANGED <<budget, replans, role>>

Replan ==
  /\ pc = "replan"
  /\ \E end \in Endings :
       /\ Invocation(Planner, end)
       /\ IF end = Completed
          THEN AcceptBrief \/ NoBrief(End("FAILED", "REPLAN_TASK_INVALID"))
          ELSE NoBrief(end)
  /\ UNCHANGED <<taskNo, attempts, runVars>>

Ended == pc = "done" /\ UNCHANGED vars

Next == \/ StartTask \/ FinishTasks \/ PreimplementationProof \/ BeginCycle
        \/ InvokeImplementer \/ VerifyAttempt \/ Decision \/ Replan \/ Ended

Spec == Init /\ [][Next]_vars

(* Every step is a call of the single run thread: a role invocation and a  *)
(* check end by themselves or by their deadline, so the thread goes on.    *)
FairSpec == Spec /\ WF_vars(Next)

-----------------------------------------------------------------------------
PCs == {"next", "proof", "cycle", "invoke", "verify", "decide", "replan", "done"}
Verdicts == {"NONE", "PASS", "BLOCKED", "FAILED", "NEEDS_INPUT", "ERROR"}

(* The variables of the loop have their types.                             *)
TypeOK ==
  /\ pc \in PCs
  /\ taskNo \in 0..NTasks
  /\ budget \in Budgets
  /\ role \in {Fast, Recovery}
  /\ attempts \in Seq(Attempt)
  /\ replans \in 0..MaxReplans
  /\ goalCycles \in Nat
  /\ goalState \in {"INIT", "IMPLEMENT", "VERIFY", "EXHAUSTED"}
  /\ profile \in [tier : Tiers, reviewer : BOOLEAN]
  /\ recoveryObligation \in BOOLEAN
  /\ used \in [Roles -> Nat]
  /\ consumed \in Nat
  /\ outcome.verdict \in Verdicts

(* "Do not escalate forever": whatever the checks and the classifications  *)
(* say, and whatever budgets replanned briefs ask for, a task makes at     *)
(* most one fast attempt more per replan than its briefs allow, and never  *)
(* more recovery attempts than they allow.                                 *)
BoundedEscalation ==
  /\ Used(attempts, Fast) <= FastCap + replans
  /\ Used(attempts, Recovery) <= RecoveryCap

(* A failure a role has just repeated, with the same verdicts, the same    *)
(* classification and the same fingerprint, is never handed to the same    *)
(* role a third time, unless a replan answers it.                          *)
NoThirdIdenticalAttempt ==
  [][Len(attempts') > Len(attempts) /\ Len(attempts) >= 2 =>
       (Latest(attempts) = Previous(attempts)
          /\ Latest(attempts).class \notin OwnerDecision
          => Latest(attempts').role # Latest(attempts).role)]_vars

(* A diff outside the frozen contract ends the run as a contract violation *)
(* and nothing that happens afterwards (a later host failure, a retry) may *)
(* hide it; and work stops at the first attempt that passes.               *)
ViolationNotMasked ==
  /\ (\E i \in DOMAIN attempts : attempts[i].diff = "FAIL")
       => outcome = End("FAILED", "TASK_CONTRACT_VIOLATION")
  /\ \A i \in DOMAIN attempts : i < Len(attempts) => attempts[i].check = "FAIL"

(* From the moment a recovery attempt is scheduled the run is at least T2  *)
(* and owes the recovery obligation, and a run that started light has got  *)
(* the deep review it was spared; no later task takes any of it back.      *)
RecoveryEscalates ==
  role = Recovery \/ used[Recovery] > 0
    => /\ recoveryObligation
       /\ profile.tier \in {"T2", "T3"}
       /\ profile \notin Profiles => profile.reviewer

(* A goal run pays for every implementer invocation of every task out of   *)
(* one shared cycle budget.                                                *)
GoalBudgetShared ==
  GoalMode => used[Fast] + used[Recovery] <= MaxGoalCycles

(* The token limit is hard: a run that overspent has stopped, whichever    *)
(* role overspent it, and stays reported as blocked.                       *)
TokenLimitHard ==
  consumed > TokenBudget[profile.tier] => pc = "done" /\ outcome.verdict = "BLOCKED"

(* Every run of tasks ends.                                                *)
Termination == <>(pc = "done")
=============================================================================
