------------------------- MODULE TaskExecutorProofs -------------------------
(***************************************************************************)
(* Proofs about the task loop, for every plan, budget and classification:  *)
(* type correctness, the safety invariants of TaskExecutor, and bounds on  *)
(* the steps a run makes and the roles it invokes.                         *)
(***************************************************************************)
EXTENDS TaskExecutor, FiniteSetTheorems, TLAPS

-----------------------------------------------------------------------------
(* Facts about the decision table.                                         *)

(* Recording an attempt adds one to the count of its role and nothing to   *)
(* the others (fast_used and recovery_used of RepairState).                *)
LEMMA UsedAppend ==
  ASSUME NEW a \in Seq(Attempt), NEW x \in Attempt, NEW r
  PROVE  /\ Used(a, r) \in Nat
         /\ Used(Append(a, x), r) = IF x.role = r THEN Used(a, r) + 1 ELSE Used(a, r)
<1> DEFINE S == { i \in 1..Len(a) : a[i].role = r }
           T == { i \in 1..Len(Append(a, x)) : Append(a, x)[i].role = r }
<1>1. Used(a, r) = Cardinality(S) /\ Used(Append(a, x), r) = Cardinality(T)
  <2>1. DOMAIN a = 1..Len(a) /\ DOMAIN Append(a, x) = 1..Len(Append(a, x))
    OBVIOUS
  <2>. QED  BY <2>1, Zenon DEF Used
<1>2. IsFiniteSet(S) /\ Cardinality(S) \in Nat
  <2>1. IsFiniteSet(1..Len(a))
    BY FS_Interval
  <2>2. S \subseteq 1..Len(a)
    OBVIOUS
  <2>. QED  BY <2>1, <2>2, FS_Subset, FS_CardinalityType
<1>3. T = IF x.role = r THEN S \cup {Len(a) + 1} ELSE S
  OBVIOUS
<1>4. Len(a) + 1 \notin S
  OBVIOUS
<1>5. Cardinality(S \cup {Len(a) + 1}) = Cardinality(S) + 1
  BY <1>2, <1>4, FS_AddElement
<1>. QED  BY <1>1, <1>2, <1>3, <1>5

(* A task that has not attempted anything has used nothing.                *)
LEMMA UsedEmpty == ASSUME NEW r PROVE Used(<<>>, r) = 0
<1>1. { i \in DOMAIN <<>> : <<>>[i].role = r } = {}
  OBVIOUS
<1>. QED  BY <1>1, FS_EmptySet DEF Used

(* The table schedules a role only when the budget has room for it, and    *)
(* retries or recovers only a failed attempt.                              *)
LEMMA DecideRespectsBudgets ==
  ASSUME NEW a, a # <<>>, NEW b
  PROVE  /\ RunsRecovery(Decide(a, b)) => RecoveryLeft(a, b) /\ ~Succeeded(a)
         /\ RunsFast(Decide(a, b)) => FastLeft(a, b) /\ ~Succeeded(a)
         /\ Decide(a, b) = "R20_OWNER_DECISION" => ~Succeeded(a)
<1>1. CASE Succeeded(a)
  BY <1>1 DEF Decide, RunsRecovery, RunsFast
<1>2. CASE ~Succeeded(a)
  <2>1. Decide(a, b) =
          IF Latest(a).class \in OwnerDecision THEN "R20_OWNER_DECISION"
          ELSE IF SameFailure(a)
               THEN IF Latest(a).role = Fast /\ RecoveryLeft(a, b)
                    THEN "R30_IDENTICAL_FAST_TO_RECOVERY"
                    ELSE "R31_IDENTICAL_FAILURE_BLOCK"
          ELSE IF Latest(a).role = Fast /\ FastLeft(a, b) THEN "R40_FAST_BUDGET"
          ELSE IF RecoveryLeft(a, b) THEN "R50_RECOVERY_BUDGET"
          ELSE "R99_BUDGET_EXHAUSTED"
    BY <1>2 DEF Decide
  <2>. QED  BY <1>2, <2>1 DEF RunsRecovery, RunsFast
<1>. QED  BY <1>1, <1>2

-----------------------------------------------------------------------------
(* TypeOK is inductive with two facts: a replan is only asked for while    *)
(* one is left, and a decision is only taken after an attempt.             *)
TypeInv ==
  /\ TypeOK
  /\ pc = "replan" => replans < MaxReplans
  /\ pc = "decide" => attempts # <<>>

LEMMA InitTypeInv == Init => TypeInv
<1> SUFFICES ASSUME Init PROVE TypeInv
  OBVIOUS
<1>1. attempts \in Seq(Attempt) /\ replans \in 0..MaxReplans /\ taskNo \in 0..NTasks
  BY CountsAssumption DEF Init
<1>2. profile \in [tier : Tiers, reviewer : BOOLEAN] /\ used \in [Roles -> Nat]
  BY ProfilesAssumption DEF Init
<1>3. goalState \in {"INIT", "IMPLEMENT"} /\ outcome.verdict = "NONE"
  BY DEF Init, Running
<1>. QED  BY <1>1, <1>2, <1>3 DEF Init, TypeInv, TypeOK, PCs, Verdicts

\* Escalation leaves a tier and a reviewer flag.
LEMMA EscalatedType ==
  ASSUME NEW p \in [tier : Tiers, reviewer : BOOLEAN]
  PROVE  /\ Escalated(p) \in [tier : Tiers, reviewer : BOOLEAN]
         /\ TokenBudget[p.tier] <= TokenBudget[Escalated(p).tier]
<1>1. CASE p.tier \in {"T0", "T1"}
  <2>1. Escalated(p) = [tier |-> "T2", reviewer |-> TRUE]
    BY <1>1 DEF Escalated
  <2>. QED  BY <1>1, <2>1, TokensAssumption DEF Tiers
<1>2. CASE p.tier \notin {"T0", "T1"}
  <2>1. Escalated(p) = p
    BY <1>2 DEF Escalated
  <2>. QED  BY <2>1, TokensAssumption DEF Tiers
<1>. QED  BY <1>1, <1>2

\* What ends an invocation has a verdict of the runtime.
LEMMA EndingVerdict == \A end \in Endings : end.verdict \in Verdicts
BY DEF Endings, BeforeHost, AfterHost, TokensExhausted, Completed, End, Verdicts

\* An invocation keeps the types of what it charges.
LEMMA InvocationType ==
  ASSUME TypeInv, NEW r \in Roles, NEW end \in Endings, Invocation(r, end)
  PROVE  used' \in [Roles -> Nat] /\ consumed' \in Nat
<1>1. CASE UNCHANGED <<used, consumed>>
  BY <1>1 DEF TypeInv, TypeOK
<1>2. CASE \E c \in TokenCosts : consumed' = consumed + c
           /\ (used' = used \/ used' = [used EXCEPT ![r] = @ + 1])
  BY <1>2, TokensAssumption DEF TypeInv, TypeOK
<1>. QED  BY <1>1, <1>2 DEF Invocation

LEMMA NextTypeInv == TypeInv /\ [Next]_vars => TypeInv'
<1> SUFFICES ASSUME TypeInv, [Next]_vars PROVE TypeInv'
  OBVIOUS
<1> USE CountsAssumption DEF TypeInv, TypeOK, PCs, Verdicts
<1>1. CASE StartTask
  BY <1>1 DEF StartTask, runVars
<1>2. CASE FinishTasks
  BY <1>2 DEF FinishTasks, Stop, loopVars, runVars
<1>3. CASE PreimplementationProof
  BY <1>3 DEF PreimplementationProof, Stop, loopVars, runVars
<1>4. CASE BeginCycle
  BY <1>4 DEF BeginCycle, Goal, Stop, loopVars
<1>5. CASE InvokeImplementer
  <2>1. PICK end \in Endings :
          /\ Invocation(role, end)
          /\ IF end = Completed THEN pc' = "verify" /\ UNCHANGED outcome
                                ELSE ImplementerError(end)
    BY <1>5 DEF InvokeImplementer
  <2>2. used' \in [Roles -> Nat] /\ consumed' \in Nat
    BY <2>1, InvocationType DEF Roles
  <2>3. pc' \in {"verify", "done"} /\ outcome'.verdict \in Verdicts
    BY <2>1, EndingVerdict DEF ImplementerError, Stop
  <2>. QED  BY <1>5, <2>2, <2>3 DEF InvokeImplementer, loopVars, runVars
<1>6. CASE VerifyAttempt
  <2>1. attempts' = attempts \/ \E a \in Attempt : attempts' = Append(attempts, a)
    BY <1>6 DEF VerifyAttempt
  <2>2. attempts' \in Seq(Attempt)
    BY <2>1
  <2>3. pc' \in {"decide", "done"} /\ outcome'.verdict \in Verdicts
    BY <1>6 DEF VerifyAttempt, Recorded, Stop
  <2>4. pc' = "decide" => attempts' # <<>>
    BY <1>6 DEF VerifyAttempt, Recorded, Stop
  <2>. QED  BY <1>6, <2>2, <2>3, <2>4 DEF VerifyAttempt, Goal
<1>7. CASE Decision
  <2> DEFINE rule == Decide(attempts, budget)
  <2>1. UNCHANGED <<taskNo, budget, attempts, replans, goalCycles, used, consumed>>
    BY <1>7 DEF Decision
  <2>2. TaskPassed(rule) \/ RetryFast(rule) \/ StartRecovery(rule)
          \/ AskPlanner(rule) \/ GiveUp(rule)
    BY <1>7 DEF Decision
  <2>3. profile' \in [tier : Tiers, reviewer : BOOLEAN] /\ recoveryObligation' \in BOOLEAN
    BY <2>2, EscalatedType DEF TaskPassed, RetryFast, StartRecovery, AskPlanner, GiveUp
  <2>4. role' \in {Fast, Recovery} /\ goalState' \in {"INIT", "IMPLEMENT", "VERIFY", "EXHAUSTED"}
    BY <2>2 DEF TaskPassed, RetryFast, StartRecovery, AskPlanner, GiveUp, Goal
  <2>5. /\ pc' \in {"next", "cycle", "replan", "done"}
        /\ pc' = "replan" => replans < MaxReplans
        /\ outcome'.verdict \in Verdicts
    BY <2>2 DEF TaskPassed, RetryFast, StartRecovery, AskPlanner, GiveUp, Stop, ReplansSpent
  <2>. QED  BY <2>1, <2>3, <2>4, <2>5
<1>8. CASE Replan
  <2>1. PICK end \in Endings :
          /\ Invocation(Planner, end)
          /\ IF end = Completed
             THEN AcceptBrief \/ NoBrief(End("FAILED", "REPLAN_TASK_INVALID"))
             ELSE NoBrief(end)
    BY <1>8 DEF Replan
  <2>2. used' \in [Roles -> Nat] /\ consumed' \in Nat
    BY <2>1, InvocationType DEF Roles
  <2>3. AcceptBrief \/ \E e : e.verdict \in Verdicts /\ NoBrief(e)
    BY <2>1, EndingVerdict DEF End
  <2>4. /\ budget' \in Budgets /\ replans' \in 0..MaxReplans /\ role' \in {Fast, Recovery}
        /\ pc' \in {"cycle", "done"} /\ outcome'.verdict \in Verdicts
    BY <1>8, <2>3 DEF Replan, AcceptBrief, NoBrief, Stop
  <2>. QED  BY <1>8, <2>2, <2>4 DEF Replan, runVars
<1>9. CASE UNCHANGED vars
  BY <1>9 DEF vars
<1>. QED  BY <1>1, <1>2, <1>3, <1>4, <1>5, <1>6, <1>7, <1>8, <1>9 DEF Next, Ended

(* The variables of the loop keep their types.                             *)
THEOREM TypeCorrect == Spec => []TypeOK
<1>1. Spec => []TypeInv
  BY InitTypeInv, NextTypeInv, PTL DEF Spec
<1>2. TypeInv => TypeOK
  BY DEF TypeInv
<1>. QED  BY <1>1, <1>2, PTL

-----------------------------------------------------------------------------
(* BoundedEscalation is not inductive: a scheduled attempt must still have *)
(* room under the caps.                                                    *)
Room ==
  pc \in {"proof", "cycle", "invoke", "verify"} =>
    /\ role = Fast => Used(attempts, Fast) < FastCap + replans
    /\ role = Recovery => Used(attempts, Recovery) < RecoveryCap

EscalationInv == TypeInv /\ Room /\ BoundedEscalation

LEMMA CountsTyped ==
  ASSUME TypeInv
  PROVE  /\ Used(attempts, Fast) \in Nat /\ Used(attempts, Recovery) \in Nat
         /\ replans \in Nat /\ FastCap \in Nat /\ RecoveryCap \in Nat
         /\ budget \in Budgets /\ budget.fast \in Nat /\ budget.recovery \in Nat
         /\ budget.fast <= FastCap /\ budget.recovery <= RecoveryCap
<1>1. Used(attempts, Fast) \in Nat /\ Used(attempts, Recovery) \in Nat
  <2>1. CASE Attempt = {}
    <3>1. attempts = <<>>
      BY <2>1 DEF TypeInv, TypeOK
    <3>. QED  BY <3>1, UsedEmpty
  <2>2. CASE Attempt # {}
    BY <2>2, UsedAppend DEF TypeInv, TypeOK
  <2>. QED  BY <2>1, <2>2
<1>2. replans \in Nat /\ FastCap \in Nat /\ RecoveryCap \in Nat
  BY CountsAssumption DEF TypeInv, TypeOK
<1>3. budget \in Budgets
  BY DEF TypeInv, TypeOK
<1>. QED  BY <1>1, <1>2, <1>3, BudgetsAssumption

LEMMA InitEscalationInv == Init => EscalationInv
<1> SUFFICES ASSUME Init PROVE EscalationInv
  OBVIOUS
<1>1. TypeInv
  BY InitTypeInv
<1>2. Used(attempts, Fast) = 0 /\ Used(attempts, Recovery) = 0 /\ pc = "next" /\ replans = 0
  BY UsedEmpty DEF Init
<1>. QED  BY <1>1, <1>2, CountsTyped DEF EscalationInv, Room, BoundedEscalation

LEMMA NextEscalationInv == EscalationInv /\ [Next]_vars => EscalationInv'
<1> SUFFICES ASSUME EscalationInv, [Next]_vars PROVE EscalationInv'
  OBVIOUS
<1>1. TypeInv /\ TypeInv'
  BY NextTypeInv DEF EscalationInv
<1>2. /\ Used(attempts, Fast) \in Nat /\ Used(attempts, Recovery) \in Nat
      /\ replans \in Nat /\ FastCap \in Nat /\ RecoveryCap \in Nat
      /\ budget \in Budgets /\ budget.fast \in Nat /\ budget.recovery \in Nat
      /\ budget.fast <= FastCap /\ budget.recovery <= RecoveryCap
  BY <1>1, CountsTyped
<1>3. ASSUME UNCHANGED <<attempts, replans, role>>,
             pc' \in {"cycle", "invoke", "verify"} =>
               pc \in {"proof", "cycle", "invoke", "verify"},
             pc' # "proof"
      PROVE  Room' /\ BoundedEscalation'
  BY <1>3 DEF EscalationInv, Room, BoundedEscalation
<1>4. CASE StartTask
  <2>1. attempts' = <<>> /\ replans' = 0 /\ role' = Fast
    BY <1>4 DEF StartTask
  <2>2. FastCap > 0
    BY <1>2, BudgetsAssumption
  <2>. QED
    BY <1>1, <1>2, <2>1, <2>2, UsedEmpty
       DEF EscalationInv, Room, BoundedEscalation, Fast, Recovery
<1>5. CASE FinishTasks \/ PreimplementationProof \/ BeginCycle \/ InvokeImplementer
  <2>1. UNCHANGED <<attempts, replans, role>>
    BY <1>5 DEF FinishTasks, PreimplementationProof, BeginCycle, InvokeImplementer, loopVars
  <2>2. /\ pc' \in {"cycle", "invoke", "verify", "done"}
        /\ pc \in {"proof", "cycle", "invoke"} \/ pc' = "done"
    BY <1>5 DEF FinishTasks, PreimplementationProof, BeginCycle, InvokeImplementer,
                ImplementerError, Stop
  <2>. QED  BY <1>1, <1>3, <2>1, <2>2 DEF EscalationInv
<1>6. CASE VerifyAttempt
  <2>1. pc = "verify" /\ pc' \in {"decide", "done"} /\ UNCHANGED <<replans, role>>
    BY <1>6 DEF VerifyAttempt, Recorded, Stop
  <2>2. CASE UNCHANGED attempts
    BY <1>1, <1>3, <2>1, <2>2 DEF EscalationInv
  <2>3. CASE \E a \in Attempt : a.role = role /\ attempts' = Append(attempts, a)
    <3>1. PICK a \in Attempt : a.role = role /\ attempts' = Append(attempts, a)
      BY <2>3
    <3>2. \A r : Used(attempts', r) = IF role = r THEN Used(attempts, r) + 1 ELSE Used(attempts, r)
      BY <1>1, <3>1, UsedAppend DEF TypeInv, TypeOK
    <3>3. BoundedEscalation'
      BY <1>2, <2>1, <3>2 DEF EscalationInv, Room, BoundedEscalation
    <3>. QED  BY <1>1, <2>1, <3>3 DEF EscalationInv, Room
  <2>. QED  BY <1>6, <2>2, <2>3 DEF VerifyAttempt
<1>7. CASE Decision
  <2> DEFINE rule == Decide(attempts, budget)
  <2>1. UNCHANGED <<attempts, replans>> /\ attempts # <<>> /\ pc = "decide"
    BY <1>1, <1>7 DEF Decision, TypeInv
  <2>2. BoundedEscalation'
    BY <2>1 DEF EscalationInv, BoundedEscalation
  <2>3. \/ RunsFast(rule) /\ role' = Fast
        \/ RunsRecovery(rule) /\ role' = Recovery
        \/ pc' \in {"next", "replan", "done"}
    BY <1>7 DEF Decision, TaskPassed, RetryFast, StartRecovery, AskPlanner, GiveUp, Stop
  <2>4. Room'
    <3>1. CASE RunsFast(rule) /\ role' = Fast
      <4>1. Used(attempts, Fast) < budget.fast
        BY <2>1, <3>1, DecideRespectsBudgets DEF FastLeft
      <4>. QED  BY <1>2, <2>1, <3>1, <4>1 DEF Room, Fast, Recovery
    <3>2. CASE RunsRecovery(rule) /\ role' = Recovery
      <4>1. Used(attempts, Recovery) < budget.recovery
        BY <2>1, <3>2, DecideRespectsBudgets DEF RecoveryLeft
      <4>. QED  BY <1>2, <2>1, <3>2, <4>1 DEF Room, Fast, Recovery
    <3>3. CASE pc' \in {"next", "replan", "done"}
      BY <3>3 DEF Room
    <3>. QED  BY <2>3, <3>1, <3>2, <3>3
  <2>. QED  BY <1>1, <2>2, <2>4 DEF EscalationInv
<1>8. CASE Replan
  <2>1. UNCHANGED attempts
    BY <1>8 DEF Replan
  <2>2. CASE AcceptBrief
    BY <1>1, <1>2, <2>1, <2>2 DEF EscalationInv, BoundedEscalation, Room, AcceptBrief, Fast, Recovery
  <2>3. CASE \E e : NoBrief(e)
    BY <1>1, <1>3, <2>1, <2>3 DEF EscalationInv, NoBrief, Stop
  <2>. QED  BY <1>8, <2>2, <2>3 DEF Replan
<1>9. CASE UNCHANGED vars
  BY <1>1, <1>9 DEF vars, EscalationInv, Room, BoundedEscalation
<1>. QED
  BY <1>4, <1>5, <1>6, <1>7, <1>8, <1>9 DEF Next, Ended

(* "Do not escalate forever", for every plan, every budget a brief or a    *)
(* replanned brief declares, and whatever the checks say.                  *)
THEOREM EscalationIsBounded == Spec => []BoundedEscalation
<1>1. Spec => []EscalationInv
  BY InitEscalationInv, NextEscalationInv, PTL DEF Spec
<1>2. EscalationInv => BoundedEscalation
  BY DEF EscalationInv
<1>. QED  BY <1>1, <1>2, PTL

-----------------------------------------------------------------------------
(* ViolationNotMasked holds because a working loop has only contract-clean *)
(* attempts behind it, all of which failed their checks.                   *)
Clean(a) == \A i \in DOMAIN a : a[i].diff = "PASS"
AllFailed(a) == \A i \in DOMAIN a : a[i].check = "FAIL"

MaskInv ==
  /\ TypeInv
  /\ pc # "done" => Clean(attempts)
  /\ pc \in {"proof", "cycle", "invoke", "verify", "replan"} => AllFailed(attempts)
  /\ ViolationNotMasked

LEMMA InitMaskInv == Init => MaskInv
<1> SUFFICES ASSUME Init PROVE MaskInv
  OBVIOUS
<1>1. TypeInv /\ attempts = <<>> /\ DOMAIN attempts = {}
  BY InitTypeInv DEF Init
<1>. QED  BY <1>1 DEF MaskInv, ViolationNotMasked, Clean, AllFailed

LEMMA NextMaskInv == MaskInv /\ [Next]_vars => MaskInv'
<1> SUFFICES ASSUME MaskInv, [Next]_vars PROVE MaskInv'
  OBVIOUS
<1>1. TypeInv /\ TypeInv'
  BY NextTypeInv DEF MaskInv
<1>2. ASSUME UNCHANGED attempts, pc # "done",
             pc' \in {"proof", "cycle", "invoke", "verify", "replan"} => AllFailed(attempts)
      PROVE  MaskInv'
  BY <1>1, <1>2 DEF MaskInv, ViolationNotMasked, Clean, AllFailed
<1>3. CASE StartTask
  <2>1. attempts' = <<>> /\ DOMAIN attempts' = {}
    BY <1>3 DEF StartTask
  <2>. QED  BY <1>1, <2>1 DEF MaskInv, ViolationNotMasked, Clean, AllFailed
<1>4. CASE FinishTasks \/ PreimplementationProof \/ BeginCycle \/ InvokeImplementer \/ Replan
  <2>1. /\ UNCHANGED attempts
        /\ pc \in {"proof", "cycle", "invoke", "replan"} \/ (pc = "next" /\ pc' = "done")
    BY <1>4 DEF FinishTasks, PreimplementationProof, BeginCycle, InvokeImplementer, Replan, loopVars, Stop
  <2>. QED  BY <1>2, <2>1 DEF MaskInv
<1>5. CASE VerifyAttempt
  <2>1. pc = "verify" /\ Clean(attempts) /\ AllFailed(attempts)
    BY <1>5 DEF VerifyAttempt, MaskInv
  <2>2. CASE UNCHANGED attempts
    BY <1>2, <2>1, <2>2
  <2>3. CASE \E a \in Attempt : attempts' = Append(attempts, a) /\ Recorded(a)
    <3>1. PICK a \in Attempt : attempts' = Append(attempts, a) /\ Recorded(a)
      BY <2>3
    <3>2. /\ DOMAIN attempts = 1..Len(attempts) /\ DOMAIN attempts' = 1..(Len(attempts) + 1)
          /\ Len(attempts') = Len(attempts) + 1
          /\ attempts'[Len(attempts) + 1] = a
          /\ \A i \in 1..Len(attempts) : attempts'[i] = attempts[i]
      BY <1>1, <3>1 DEF TypeInv, TypeOK
    <3> DEFINE n == Len(attempts)
    <3>6. n \in Nat
      BY <1>1 DEF TypeInv, TypeOK
    <3>7. \A i \in 1..(n + 1) : i \in 1..n \/ i = n + 1
      BY <3>6
    <3>8. \A i \in 1..n : attempts[i].check = "FAIL" /\ attempts[i].diff = "PASS"
      BY <2>1, <3>2 DEF AllFailed, Clean
    <3> HIDE DEF n
    <3>3. \A i \in DOMAIN attempts' : i < Len(attempts') => attempts'[i].check = "FAIL"
      BY <3>2, <3>6, <3>7, <3>8 DEF n
    <3>4. CASE a.diff = "PASS"
      <4>1. pc' = "decide"
        BY <3>1, <3>4 DEF Recorded
      <4>2. Clean(attempts')
        BY <3>2, <3>4, <3>7, <3>8 DEF Clean, n
      <4>. QED  BY <1>1, <3>3, <4>1, <4>2 DEF MaskInv, ViolationNotMasked, Clean
    <3>5. CASE a.diff # "PASS"
      <4>1. pc' = "done" /\ outcome' = End("FAILED", "TASK_CONTRACT_VIOLATION")
        BY <3>1, <3>5 DEF Recorded, Stop, End
      <4>. QED  BY <1>1, <3>3, <4>1 DEF MaskInv, ViolationNotMasked
    <3>. QED  BY <3>4, <3>5
  <2>. QED  BY <1>5, <2>2, <2>3 DEF VerifyAttempt
<1>6. CASE Decision
  <2> DEFINE rule == Decide(attempts, budget)
  <2>1. UNCHANGED attempts /\ attempts # <<>> /\ pc = "decide"
    BY <1>1, <1>6 DEF Decision, TypeInv
  <2>2. pc' \in {"cycle", "replan"} => ~Succeeded(attempts)
    <3>1. pc' \in {"cycle", "replan"} =>
            RunsFast(rule) \/ RunsRecovery(rule) \/ rule = "R20_OWNER_DECISION"
      BY <1>6 DEF Decision, TaskPassed, RetryFast, StartRecovery, AskPlanner, GiveUp, Stop
    <3>. QED  BY <2>1, <3>1, DecideRespectsBudgets
  <2>3. ~Succeeded(attempts) => AllFailed(attempts)
    <3> SUFFICES ASSUME ~Succeeded(attempts), NEW i \in DOMAIN attempts
                 PROVE  attempts[i].check = "FAIL"
      BY DEF AllFailed
    <3>1. /\ Len(attempts) \in DOMAIN attempts /\ i \in Nat /\ i <= Len(attempts)
          /\ attempts[Len(attempts)] \in Attempt
      BY <1>1, <2>1 DEF TypeInv, TypeOK
    <3>2. attempts[Len(attempts)].diff = "PASS"
      BY <2>1, <3>1 DEF MaskInv, Clean
    <3>3. attempts[Len(attempts)].check = "FAIL"
      BY <3>1, <3>2 DEF Succeeded, Latest, Attempt
    <3>. QED  BY <1>1, <3>1, <3>3 DEF MaskInv, ViolationNotMasked, TypeInv, TypeOK
  <2>4. pc' \in {"cycle", "next", "replan", "done"}
    BY <1>6 DEF Decision, TaskPassed, RetryFast, StartRecovery, AskPlanner, GiveUp, Stop
  <2>. QED  BY <1>2, <2>1, <2>2, <2>3, <2>4
<1>7. CASE UNCHANGED vars
  BY <1>1, <1>7 DEF vars, MaskInv, ViolationNotMasked, Clean, AllFailed
<1>8. CASE Ended
  BY <1>7, <1>8 DEF Ended
<1>. QED
  BY <1>3, <1>4, <1>5, <1>6, <1>7, <1>8 DEF Next

(* A contract violation ends the run and stays the reported outcome.       *)
THEOREM ViolationIsFinal == Spec => []ViolationNotMasked
<1>1. Spec => []MaskInv
  BY InitMaskInv, NextMaskInv, PTL DEF Spec
<1>2. MaskInv => ViolationNotMasked
  BY DEF MaskInv
<1>. QED  BY <1>1, <1>2, PTL

-----------------------------------------------------------------------------
(* The two run-wide accounts.  A cycle is paid before its invocation; the  *)
(* token limit only rises with an escalation.                              *)
Owed == IF pc = "invoke" THEN 1 ELSE 0

AccountInv ==
  /\ TypeInv
  /\ pc # "done" => consumed <= TokenBudget[profile.tier]
  /\ TokenLimitHard
  /\ GoalMode =>
       /\ used[Fast] + used[Recovery] + Owed <= goalCycles
       /\ pc # "done" => goalCycles <= MaxGoalCycles
       /\ GoalBudgetShared

LEMMA AccountsTyped ==
  ASSUME TypeInv
  PROVE  /\ used[Fast] \in Nat /\ used[Recovery] \in Nat /\ goalCycles \in Nat
         /\ consumed \in Nat /\ MaxGoalCycles \in Nat
         /\ \A t \in Tiers : TokenBudget[t] \in Nat
         /\ profile \in [tier : Tiers, reviewer : BOOLEAN] /\ profile.tier \in Tiers
BY CountsAssumption, TokensAssumption DEF TypeInv, TypeOK, Roles

LEMMA InitAccountInv == Init => AccountInv
<1> SUFFICES ASSUME Init PROVE AccountInv
  OBVIOUS
<1>1. TypeInv /\ pc = "next" /\ consumed = 0 /\ goalCycles = 0 /\ used[Fast] = 0 /\ used[Recovery] = 0
  BY InitTypeInv DEF Init, Roles
<1>. QED
  BY <1>1, AccountsTyped DEF AccountInv, TokenLimitHard, GoalBudgetShared, Owed

\* What an invocation does to the two accounts.
LEMMA InvocationAccounts ==
  ASSUME TypeInv, NEW r \in Roles, NEW end \in Endings, Invocation(r, end),
         consumed <= TokenBudget[profile.tier]
  PROVE  /\ end # TokensExhausted => consumed' <= TokenBudget[profile.tier]
         /\ \/ used' = used
            \/ used' = [used EXCEPT ![r] = @ + 1]
<1>1. CASE end \in BeforeHost /\ UNCHANGED <<used, consumed>>
  BY <1>1
<1>2. CASE ~ UNCHANGED <<used, consumed>>
  <2>1. PICK c \in TokenCosts :
          /\ consumed' = consumed + c
          /\ IF Overspent(consumed') THEN end = TokensExhausted /\ UNCHANGED used
             ELSE /\ end \in AfterHost
                  /\ end.code = "PLANNER_DEEP_MUTATED_SOURCE" => r = Planner
                  /\ used' = [used EXCEPT ![r] = @ + 1]
    BY <1>2 DEF Invocation
  <2>2. consumed' \in Nat
    BY InvocationType
  <2>. QED  BY <2>1, <2>2, AccountsTyped DEF Overspent
<1>3. CASE UNCHANGED <<used, consumed>>
  BY <1>3
<1>. QED  BY <1>1, <1>2, <1>3

\* A run stays a goal run, or an ordinary one.
LEMMA GoalModeStays ==
  ASSUME [Next]_vars
  PROVE  GoalMode' <=> GoalMode
<1>1. CASE UNCHANGED goalState
  BY <1>1 DEF GoalMode
<1>2. CASE \E target \in {"IMPLEMENT", "VERIFY", "EXHAUSTED"} : Goal(target)
  BY <1>2 DEF Goal, GoalMode
<1>3. UNCHANGED goalState \/ \E target \in {"IMPLEMENT", "VERIFY", "EXHAUSTED"} : Goal(target)
  BY DEF Next, vars, runVars, StartTask, FinishTasks, PreimplementationProof, BeginCycle,
         InvokeImplementer, VerifyAttempt, Decision, TaskPassed, RetryFast, StartRecovery,
         AskPlanner, GiveUp, Replan, Ended
<1>. QED  BY <1>1, <1>2, <1>3

LEMMA NextAccountInv == AccountInv /\ [Next]_vars => AccountInv'
<1> SUFFICES ASSUME AccountInv, [Next]_vars PROVE AccountInv'
  OBVIOUS
<1>0. GoalMode' <=> GoalMode
  BY GoalModeStays
<1>1. TypeInv /\ TypeInv'
  BY NextTypeInv DEF AccountInv
<1>2. /\ used[Fast] \in Nat /\ used[Recovery] \in Nat /\ goalCycles \in Nat
      /\ consumed \in Nat /\ MaxGoalCycles \in Nat
      /\ \A t \in Tiers : TokenBudget[t] \in Nat
      /\ profile \in [tier : Tiers, reviewer : BOOLEAN] /\ profile.tier \in Tiers
  BY <1>1, AccountsTyped
<1>3. CASE StartTask \/ FinishTasks \/ PreimplementationProof \/ VerifyAttempt
  <2>1. UNCHANGED <<used, consumed, goalCycles, profile>> /\ pc \notin {"done", "invoke"} /\ pc' # "invoke"
    BY <1>3 DEF StartTask, FinishTasks, PreimplementationProof, VerifyAttempt, Recorded, Stop,
                loopVars, runVars
  <2>. QED
    BY <1>0, <1>1, <1>2, <2>1 DEF AccountInv, TokenLimitHard, GoalBudgetShared, Owed
<1>4. CASE BeginCycle
  <2>1. UNCHANGED <<used, consumed, profile>> /\ pc = "cycle"
    BY <1>4 DEF BeginCycle
  <2>2. GoalMode => /\ goalCycles' = goalCycles + 1
                    /\ goalCycles' > MaxGoalCycles => pc' = "done"
    BY <1>4 DEF BeginCycle, Stop
  <2>. QED
    BY <1>0, <1>1, <1>2, <2>1, <2>2 DEF AccountInv, TokenLimitHard, GoalBudgetShared, Owed
<1>5. CASE Decision
  <2>1. /\ UNCHANGED <<used, consumed, goalCycles>> /\ pc = "decide" /\ pc' # "invoke"
        /\ profile' = profile \/ profile' = Escalated(profile)
    BY <1>5 DEF Decision, TaskPassed, RetryFast, StartRecovery, AskPlanner, GiveUp, Stop
  <2>2. TokenBudget[profile.tier] <= TokenBudget[profile'.tier] /\ profile'.tier \in Tiers
    BY <1>2, <2>1, EscalatedType
  <2>3. consumed <= TokenBudget[profile'.tier]
    BY <1>2, <2>1, <2>2 DEF AccountInv
  <2>4. GoalMode => used[Fast] + used[Recovery] <= goalCycles /\ goalCycles <= MaxGoalCycles
    BY <1>2, <2>1 DEF AccountInv, Owed
  <2>5. TokenLimitHard'
    BY <1>2, <2>1, <2>2, <2>3 DEF TokenLimitHard
  <2>. QED
    BY <1>0, <1>1, <1>2, <2>1, <2>3, <2>4, <2>5 DEF AccountInv, GoalBudgetShared, Owed
<1>6. CASE InvokeImplementer \/ Replan
  <2>1. PICK r \in Roles, end \in Endings :
          /\ Invocation(r, end)
          /\ r \in {Fast, Recovery} => pc = "invoke"
          /\ end = TokensExhausted => pc' = "done" /\ outcome'.verdict = "BLOCKED"
    <3>1. CASE InvokeImplementer
      <4>1. PICK end \in Endings :
              /\ Invocation(role, end)
              /\ IF end = Completed THEN pc' = "verify" /\ UNCHANGED outcome
                                    ELSE ImplementerError(end)
        BY <3>1 DEF InvokeImplementer
      <4>2. end = TokensExhausted => pc' = "done" /\ outcome'.verdict = "BLOCKED"
        BY <4>1 DEF ImplementerError, Stop, TokensExhausted, Completed, End
      <4>. QED  BY <1>1, <3>1, <4>1, <4>2 DEF InvokeImplementer, TypeInv, TypeOK, Roles
    <3>2. CASE Replan
      <4>1. PICK end \in Endings :
              /\ Invocation(Planner, end)
              /\ end # Completed => NoBrief(end)
        BY <3>2 DEF Replan
      <4>2. end = TokensExhausted => pc' = "done" /\ outcome'.verdict = "BLOCKED"
        BY <4>1 DEF NoBrief, Stop, TokensExhausted, Completed, End
      <4>. QED  BY <4>1, <4>2 DEF Roles, Planner, Fast, Recovery
    <3>. QED  BY <1>6, <3>1, <3>2
  <2>2. /\ UNCHANGED <<goalCycles, profile>> /\ pc \in {"invoke", "replan"}
        /\ pc' # "invoke"
    BY <1>6 DEF InvokeImplementer, Replan, runVars, ImplementerError, AcceptBrief, NoBrief, Stop
  <2>3. consumed <= TokenBudget[profile.tier]
    BY <2>2 DEF AccountInv
  <2>4. /\ end # TokensExhausted => consumed' <= TokenBudget[profile.tier]
        /\ used' = used \/ used' = [used EXCEPT ![r] = @ + 1]
    BY <1>1, <2>1, <2>3, InvocationAccounts
  <2>5. consumed' \in Nat
    BY <1>1 DEF TypeInv, TypeOK
  <2>6. /\ pc' # "done" => consumed' <= TokenBudget[profile'.tier]
        /\ TokenLimitHard'
    BY <1>2, <2>1, <2>2, <2>4, <2>5 DEF TokenLimitHard
  <2>7. GoalMode => used'[Fast] + used'[Recovery] <= goalCycles
    <3>1. used \in [Roles -> Nat]
      BY <1>1 DEF TypeInv, TypeOK
    <3>2. CASE used' = used
      BY <1>2, <2>2, <3>2 DEF AccountInv, Owed
    <3>3. CASE used' = [used EXCEPT ![r] = @ + 1] /\ r \in {Fast, Recovery}
      <4>1. used'[Fast] + used'[Recovery] = used[Fast] + used[Recovery] + 1
        BY <1>2, <3>1, <3>3 DEF Roles, Fast, Recovery
      <4>2. Owed = 1
        BY <2>1, <3>3 DEF Owed
      <4>. QED  BY <1>2, <4>1, <4>2 DEF AccountInv
    <3>4. CASE used' = [used EXCEPT ![r] = @ + 1] /\ r = Planner
      <4>1. used'[Fast] = used[Fast] /\ used'[Recovery] = used[Recovery]
        BY <3>1, <3>4 DEF Roles, Fast, Recovery, Planner
      <4>. QED  BY <1>2, <4>1 DEF AccountInv, Owed
    <3>. QED  BY <2>4, <3>2, <3>3, <3>4 DEF Roles
  <2>8. GoalMode => goalCycles <= MaxGoalCycles
    BY <2>2 DEF AccountInv
  <2>9. used'[Fast] \in Nat /\ used'[Recovery] \in Nat
    BY <1>1 DEF TypeInv, TypeOK, Roles
  <2>. QED
    BY <1>0, <1>1, <1>2, <2>2, <2>6, <2>7, <2>8, <2>9 DEF AccountInv, GoalBudgetShared, Owed
<1>7. CASE UNCHANGED vars
  BY <1>0, <1>1, <1>7 DEF vars, AccountInv, TokenLimitHard, GoalBudgetShared, Owed
<1>8. CASE Ended
  BY <1>7, <1>8 DEF Ended
<1>. QED
  BY <1>3, <1>4, <1>5, <1>6, <1>7, <1>8 DEF Next

(* The token limit of the run's tier is hard, whatever an invocation costs.*)
THEOREM TokenLimitIsHard == Spec => []TokenLimitHard
<1>1. Spec => []AccountInv
  BY InitAccountInv, NextAccountInv, PTL DEF Spec
<1>2. AccountInv => TokenLimitHard
  BY DEF AccountInv
<1>. QED  BY <1>1, <1>2, PTL

(* All implementer invocations of a goal run fit its cycle budget.         *)
THEOREM GoalBudgetIsShared == Spec => []GoalBudgetShared
<1>1. Spec => []AccountInv
  BY InitAccountInv, NextAccountInv, PTL DEF Spec
<1>2. AccountInv => GoalBudgetShared
  BY DEF AccountInv, GoalBudgetShared
<1>. QED  BY <1>1, <1>2, PTL

-----------------------------------------------------------------------------
(* Once a recovery is scheduled the profile is one of T2 or above: one the *)
(* run began with, or the one an escalation gives.                         *)
Deep == [tier |-> "T2", reviewer |-> TRUE]

RecoveryInv ==
  /\ TypeInv
  /\ role = Recovery \/ used[Recovery] > 0 => recoveryObligation
  /\ profile \in Profiles \/ profile = Deep
  /\ recoveryObligation => profile.tier \in {"T2", "T3"}

LEMMA InitRecoveryInv == Init => RecoveryInv
<1> SUFFICES ASSUME Init PROVE RecoveryInv
  OBVIOUS
<1>1. TypeInv /\ role = Fast /\ used[Recovery] = 0 /\ ~recoveryObligation /\ profile \in Profiles
  BY InitTypeInv DEF Init, Roles
<1>. QED  BY <1>1 DEF RecoveryInv, Fast, Recovery

\* Only an invocation of the recovery role is counted as one.
LEMMA OthersNotCounted ==
  ASSUME TypeInv, NEW r \in Roles, r # Recovery, NEW end, Invocation(r, end)
  PROVE  used'[Recovery] = used[Recovery]
<1>1. used' = used \/ used' = [used EXCEPT ![r] = @ + 1]
  BY DEF Invocation
<1>2. used \in [Roles -> Nat] /\ Recovery \in Roles
  BY DEF TypeInv, TypeOK, Roles
<1>. QED  BY <1>1, <1>2

LEMMA NextRecoveryInv == RecoveryInv /\ [Next]_vars => RecoveryInv'
<1> SUFFICES ASSUME RecoveryInv, [Next]_vars PROVE RecoveryInv'
  OBVIOUS
<1>1. TypeInv /\ TypeInv'
  BY NextTypeInv DEF RecoveryInv
<1>2. Fast # Recovery /\ Fast \in Roles /\ Recovery \in Roles /\ Planner \in Roles /\ Planner # Recovery
  BY DEF Fast, Recovery, Planner, Roles
<1>3. ASSUME UNCHANGED <<used, profile, recoveryObligation>>, role' = role \/ role' = Fast
      PROVE  RecoveryInv'
  BY <1>1, <1>2, <1>3 DEF RecoveryInv
<1>4. CASE StartTask \/ FinishTasks \/ PreimplementationProof \/ BeginCycle \/ VerifyAttempt
  BY <1>3, <1>4 DEF StartTask, FinishTasks, PreimplementationProof, BeginCycle, VerifyAttempt,
                    loopVars, runVars
<1>5. CASE InvokeImplementer
  <2>1. UNCHANGED <<role, profile, recoveryObligation>> /\ \E end \in Endings : Invocation(role, end)
    BY <1>5 DEF InvokeImplementer, loopVars, runVars
  <2>2. CASE role = Recovery
    BY <1>1, <2>1, <2>2 DEF RecoveryInv
  <2>3. CASE role # Recovery
    <3>1. role \in Roles
      BY <1>1, <1>2 DEF TypeInv, TypeOK
    <3>2. used'[Recovery] = used[Recovery]
      BY <1>1, <2>1, <2>3, <3>1, OthersNotCounted
    <3>. QED  BY <1>1, <2>1, <3>2 DEF RecoveryInv
  <2>. QED  BY <2>2, <2>3
<1>6. CASE Decision
  <2> DEFINE rule == Decide(attempts, budget)
  <2>1. used' = used
    BY <1>6 DEF Decision
  <2>2. CASE StartRecovery(rule)
    <3>1. profile' = Escalated(profile) /\ recoveryObligation'
      BY <2>2 DEF StartRecovery
    <3>2. profile \in [tier : Tiers, reviewer : BOOLEAN]
      BY <1>1 DEF TypeInv, TypeOK
    <3>3. CASE profile.tier \in {"T0", "T1"}
      BY <1>1, <3>1, <3>3 DEF RecoveryInv, Escalated, Deep
    <3>4. CASE profile.tier \notin {"T0", "T1"}
      BY <1>1, <3>1, <3>2, <3>4 DEF RecoveryInv, Escalated, Tiers
    <3>. QED  BY <3>3, <3>4
  <2>3. CASE TaskPassed(rule) \/ RetryFast(rule) \/ AskPlanner(rule) \/ GiveUp(rule)
    BY <1>3, <2>1, <2>3 DEF TaskPassed, RetryFast, AskPlanner, GiveUp
  <2>. QED  BY <1>6, <2>2, <2>3 DEF Decision
<1>7. CASE Replan
  <2>1. /\ UNCHANGED <<profile, recoveryObligation>> /\ (role' = role \/ role' = Fast)
        /\ \E end \in Endings : Invocation(Planner, end)
    BY <1>7 DEF Replan, AcceptBrief, NoBrief, runVars
  <2>2. used'[Recovery] = used[Recovery]
    BY <1>1, <1>2, <2>1, OthersNotCounted
  <2>. QED  BY <1>1, <1>2, <1>7, <2>1, <2>2 DEF RecoveryInv, Replan, AcceptBrief, NoBrief, runVars
<1>8. CASE UNCHANGED vars
  BY <1>3, <1>8 DEF vars
<1>9. CASE Ended
  BY <1>8, <1>9 DEF Ended
<1>. QED
  BY <1>4, <1>5, <1>6, <1>7, <1>8, <1>9 DEF Next

(* A recovery leaves its mark on the whole run: from then on it is at      *)
(* least T2, owes the recovery obligation, and was given the review it had *)
(* been spared (_activate_recovery_protocol).                              *)
THEOREM RecoveryAlwaysEscalates == Spec => []RecoveryEscalates
<1>1. Spec => []RecoveryInv
  BY InitRecoveryInv, NextRecoveryInv, PTL DEF Spec
<1>2. RecoveryInv => RecoveryEscalates
  BY DEF RecoveryInv, RecoveryEscalates, Deep
<1>. QED  BY <1>1, <1>2, PTL

-----------------------------------------------------------------------------
(* Before the next attempt the loop has left the role that repeated its    *)
(* failure, or a planner is asked.                                         *)
Repeated(a) == /\ Len(a) >= 2 /\ Latest(a) = Previous(a)
               /\ Latest(a).class \notin OwnerDecision

RepeatInv ==
  /\ TypeInv
  /\ \A i \in DOMAIN attempts : RealEvidence(attempts[i])
  /\ pc = "proof" => attempts = <<>>
  /\ pc \in {"cycle", "invoke", "verify"} /\ Repeated(attempts) => role # Latest(attempts).role
  /\ pc = "replan" => Latest(attempts).class \in OwnerDecision

\* The decision table after a repeated failure.
LEMMA DecideRepeated ==
  ASSUME NEW a, NEW b, a # <<>>, ~Succeeded(a), RealEvidence(Latest(a))
  PROVE  /\ Repeated(a) /\ RunsFast(Decide(a, b)) => Latest(a).role # Fast
         /\ Repeated(a) /\ RunsRecovery(Decide(a, b)) => Latest(a).role # Recovery
         /\ Decide(a, b) = "R20_OWNER_DECISION" => Latest(a).class \in OwnerDecision
<1>1. Decide(a, b) =
        IF Latest(a).class \in OwnerDecision THEN "R20_OWNER_DECISION"
        ELSE IF SameFailure(a)
             THEN IF Latest(a).role = Fast /\ RecoveryLeft(a, b)
                  THEN "R30_IDENTICAL_FAST_TO_RECOVERY"
                  ELSE "R31_IDENTICAL_FAILURE_BLOCK"
        ELSE IF Latest(a).role = Fast /\ FastLeft(a, b) THEN "R40_FAST_BUDGET"
        ELSE IF RecoveryLeft(a, b) THEN "R50_RECOVERY_BUDGET"
        ELSE "R99_BUDGET_EXHAUSTED"
  BY DEF Decide
<1>2. Latest(a).fp # None
  BY DEF RealEvidence, Succeeded
<1>3. Repeated(a) => ~EvidenceDelta(a)
  BY DEF Repeated, EvidenceDelta
<1>4. Repeated(a) => SameFailure(a)
  BY <1>2, <1>3 DEF Repeated, SameFailure
<1>. QED  BY <1>1, <1>4 DEF Repeated, RunsFast, RunsRecovery, Fast, Recovery

LEMMA InitRepeatInv == Init => RepeatInv
<1> SUFFICES ASSUME Init PROVE RepeatInv
  OBVIOUS
<1>1. TypeInv /\ attempts = <<>> /\ DOMAIN attempts = {} /\ pc = "next"
  BY InitTypeInv DEF Init
<1>. QED  BY <1>1 DEF RepeatInv

LEMMA NextRepeatInv == RepeatInv /\ [Next]_vars => RepeatInv'
<1> SUFFICES ASSUME RepeatInv, [Next]_vars PROVE RepeatInv'
  OBVIOUS
<1>1. TypeInv /\ TypeInv'
  BY NextTypeInv DEF RepeatInv
<1>2. CASE StartTask
  <2>1. attempts' = <<>> /\ DOMAIN attempts' = {} /\ pc' = "proof"
    BY <1>2 DEF StartTask
  <2>. QED  BY <1>1, <2>1 DEF RepeatInv
<1>3. CASE FinishTasks
  BY <1>1, <1>3 DEF FinishTasks, Stop, RepeatInv, loopVars
<1>4. CASE PreimplementationProof
  <2>1. attempts' = <<>> /\ pc' \in {"cycle", "done"}
    BY <1>4 DEF PreimplementationProof, Stop, RepeatInv, loopVars
  <2>2. Len(attempts') = 0 /\ DOMAIN attempts' = {}
    BY <2>1
  <2>. QED  BY <1>1, <2>1, <2>2 DEF RepeatInv, Repeated
<1>5. CASE BeginCycle
  <2>1. pc = "cycle" /\ pc' \in {"invoke", "done"} /\ UNCHANGED <<attempts, role>>
    BY <1>5 DEF BeginCycle, Stop, loopVars
  <2>. QED  BY <1>1, <2>1 DEF RepeatInv
<1>6. CASE InvokeImplementer
  <2>1. pc = "invoke" /\ pc' \in {"verify", "done"} /\ UNCHANGED <<attempts, role>>
    BY <1>6 DEF InvokeImplementer, ImplementerError, Stop, loopVars
  <2>. QED  BY <1>1, <2>1 DEF RepeatInv
<1>7. CASE VerifyAttempt
  <2>1. pc' \in {"decide", "done"}
    BY <1>7 DEF VerifyAttempt, Recorded, Stop
  <2>2. \A i \in DOMAIN attempts' : RealEvidence(attempts'[i])
    <3>1. CASE UNCHANGED attempts
      BY <3>1 DEF RepeatInv
    <3>2. CASE \E a \in Attempt : RealEvidence(a) /\ attempts' = Append(attempts, a)
      <4>1. PICK a \in Attempt : RealEvidence(a) /\ attempts' = Append(attempts, a)
        BY <3>2
      <4>2. \A i \in DOMAIN attempts' : \/ i \in DOMAIN attempts /\ attempts'[i] = attempts[i]
                                        \/ attempts'[i] = a
        BY <1>1, <4>1 DEF TypeInv, TypeOK
      <4>. QED  BY <4>1, <4>2 DEF RepeatInv
    <3>. QED  BY <1>7, <3>1, <3>2 DEF VerifyAttempt
  <2>. QED  BY <1>1, <2>1, <2>2 DEF RepeatInv
<1>8. CASE Decision
  <2> DEFINE rule == Decide(attempts, budget)
  <2>1. UNCHANGED attempts /\ attempts # <<>> /\ pc = "decide"
    BY <1>1, <1>8 DEF Decision, TypeInv
  <2>2. RealEvidence(Latest(attempts))
    <3>1. Len(attempts) \in DOMAIN attempts
      BY <1>1, <2>1 DEF TypeInv, TypeOK
    <3>. QED  BY <3>1 DEF RepeatInv, Latest
  <2>3. \/ pc' \in {"next", "done"}
        \/ pc' = "cycle" /\ RunsFast(rule) /\ role' = Fast
        \/ pc' = "cycle" /\ RunsRecovery(rule) /\ role' = Recovery
        \/ pc' = "replan" /\ rule = "R20_OWNER_DECISION"
    BY <1>8 DEF Decision, TaskPassed, RetryFast, StartRecovery, AskPlanner, GiveUp, Stop
  <2>4. pc' \in {"cycle", "replan"} => ~Succeeded(attempts)
    BY <2>1, <2>3, DecideRespectsBudgets
  <2>5. CASE pc' \in {"next", "done"}
    BY <1>1, <2>1, <2>5 DEF RepeatInv
  <2>6. CASE pc' \in {"cycle", "replan"}
    BY <1>1, <2>1, <2>2, <2>3, <2>4, <2>6, DecideRepeated DEF RepeatInv
  <2>. QED  BY <2>3, <2>5, <2>6
<1>9. CASE Replan
  <2>1. pc = "replan" /\ pc' \in {"cycle", "done"} /\ UNCHANGED attempts
    BY <1>9 DEF Replan, AcceptBrief, NoBrief, Stop
  <2>. QED  BY <1>1, <2>1 DEF RepeatInv, Repeated
<1>10. CASE UNCHANGED vars
  BY <1>1, <1>10 DEF vars, RepeatInv
<1>11. CASE Ended
  BY <1>10, <1>11 DEF Ended
<1>. QED
  BY <1>2, <1>3, <1>4, <1>5, <1>6, <1>7, <1>8, <1>9, <1>10, <1>11 DEF Next

(* No role is given a third time what it has just failed twice in the same *)
(* way, whatever briefs, budgets and replans say (R30, R31 of              *)
(* decide_repair).                                                         *)
THEOREM ThirdAttemptNeverIdentical == Spec => NoThirdIdenticalAttempt
<1> DEFINE Step == Len(attempts') > Len(attempts) /\ Len(attempts) >= 2 =>
                     (Latest(attempts) = Previous(attempts)
                        /\ Latest(attempts).class \notin OwnerDecision
                        => Latest(attempts').role # Latest(attempts).role)
<1>1. Spec => []RepeatInv
  BY InitRepeatInv, NextRepeatInv, PTL DEF Spec
<1>2. RepeatInv /\ [Next]_vars => [Step]_vars
  <2> SUFFICES ASSUME RepeatInv, Next, Len(attempts') > Len(attempts), Repeated(attempts)
               PROVE  Latest(attempts').role # Latest(attempts).role
    BY DEF Repeated
  <2>1. attempts \in Seq(Attempt) /\ attempts' # attempts
    BY DEF RepeatInv, TypeInv, TypeOK
  <2>2. attempts' # <<>>
    BY <2>1
  <2>3. VerifyAttempt
    BY <2>1, <2>2 DEF Next, StartTask, FinishTasks, PreimplementationProof, BeginCycle,
       InvokeImplementer, Decision, Replan, Ended, vars, loopVars
  <2>4. PICK a \in Attempt : a.role = role /\ attempts' = Append(attempts, a)
    BY <2>1, <2>3 DEF VerifyAttempt
  <2>5. Latest(attempts') = a
    BY <2>1, <2>4 DEF Latest
  <2>. QED  BY <2>3, <2>4, <2>5 DEF RepeatInv, VerifyAttempt
<1>3. Spec => [][Step]_vars
  BY <1>1, <1>2, PTL DEF Spec
<1>. QED  BY <1>3 DEF NoThirdIdenticalAttempt

-----------------------------------------------------------------------------
(* The loop ends.  Each step uses up what the budgets leave: a task spends *)
(* a try on each attempt and each replan, and between two of them it       *)
(* passes through a fixed order of program points.                         *)
AllTries  == FastCap + RecoveryCap + 2 * MaxReplans
TriesLeft == (FastCap + MaxReplans - Used(attempts, Fast))
               + (RecoveryCap - Used(attempts, Recovery)) + (MaxReplans - replans)

PointsLeft ==
  CASE pc \in {"decide", "proof"} -> 5
    [] pc \in {"replan", "cycle"} -> 4
    [] pc = "invoke"              -> 3
    [] pc = "verify"              -> 2
    [] pc = "next"                -> 1
    [] OTHER                      -> 0

StepsPerTask == 6 * AllTries + 6
StepsLeft    == (NTasks - taskNo) * StepsPerTask + 6 * TriesLeft + PointsLeft
AllSteps     == NTasks * StepsPerTask + 6 * AllTries + 1

(* What the loop may have spent on roles: a try is one role invocation.    *)
Invoked == used[Fast] + used[Recovery] + used[Planner]
Owing   == IF pc \in {"verify", "done"} THEN 1 ELSE 0

(* The budgets are never overdrawn: what is left of them is a number.      *)
LEMMA TriesTyped ==
  ASSUME EscalationInv
  PROVE  /\ TriesLeft \in 0..AllTries /\ AllTries \in Nat
         /\ replans \in Nat /\ replans <= MaxReplans /\ MaxReplans \in Nat
         /\ Used(attempts, Fast) \in Nat /\ Used(attempts, Recovery) \in Nat
         /\ FastCap \in Nat /\ RecoveryCap \in Nat
<1>1. /\ Used(attempts, Fast) \in Nat /\ Used(attempts, Recovery) \in Nat
      /\ replans \in Nat /\ FastCap \in Nat /\ RecoveryCap \in Nat
  BY CountsTyped DEF EscalationInv
<1>2. replans <= MaxReplans /\ MaxReplans \in Nat
  BY CountsAssumption DEF EscalationInv, TypeInv, TypeOK
<1>3. Used(attempts, Fast) <= FastCap + replans /\ Used(attempts, Recovery) <= RecoveryCap
  BY DEF EscalationInv, BoundedEscalation
<1>. QED  BY <1>1, <1>2, <1>3 DEF TriesLeft, AllTries

\* What a step does to the tries and to the place of the loop.
TriesStay == TriesLeft' = TriesLeft /\ taskNo' = taskNo

LEMMA TriesMove ==
  ASSUME EscalationInv, EscalationInv', Next
  PROVE  \/ UNCHANGED vars
         \/ pc = "next" /\ taskNo < NTasks /\ taskNo' = taskNo + 1 /\ TriesLeft' = AllTries
              /\ PointsLeft = 1 /\ PointsLeft' = 5 /\ UNCHANGED used
         \/ TriesStay /\ PointsLeft' < PointsLeft
         \/ taskNo' = taskNo /\ TriesLeft' = TriesLeft - 1 /\ PointsLeft' < PointsLeft + 6
<1> USE DEF PointsLeft
<1>t. /\ Used(attempts, Fast) \in Nat /\ Used(attempts, Recovery) \in Nat /\ TriesLeft \in Nat
      /\ replans \in Nat /\ MaxReplans \in Nat /\ FastCap \in Nat /\ RecoveryCap \in Nat
  BY TriesTyped
<1>s. ASSUME UNCHANGED <<taskNo, attempts, replans>> PROVE TriesStay
  BY <1>s DEF TriesStay, TriesLeft
<1>1. CASE StartTask
  <2>1. attempts' = <<>> /\ replans' = 0 /\ taskNo' = taskNo + 1 /\ pc = "next" /\ pc' = "proof"
        /\ taskNo < NTasks /\ UNCHANGED used
    BY <1>1 DEF StartTask
  <2>2. TriesLeft' = AllTries
    BY <1>t, <2>1, UsedEmpty DEF TriesLeft, AllTries
  <2>. QED  BY <2>1, <2>2
<1>2. CASE FinishTasks \/ PreimplementationProof \/ BeginCycle \/ InvokeImplementer
  <2>1. UNCHANGED <<taskNo, attempts, replans>>
    BY <1>2 DEF FinishTasks, PreimplementationProof, BeginCycle, InvokeImplementer, loopVars
  <2>2. \/ pc = "next" /\ pc' = "done"
        \/ pc = "proof" /\ pc' \in {"cycle", "done"}
        \/ pc = "cycle" /\ pc' \in {"invoke", "done"}
        \/ pc = "invoke" /\ pc' \in {"verify", "done"}
    BY <1>2 DEF FinishTasks, PreimplementationProof, BeginCycle, InvokeImplementer,
                ImplementerError, Stop
  <2>. QED  BY <1>s, <2>1, <2>2
<1>3. CASE VerifyAttempt
  <2>1. pc = "verify" /\ pc' \in {"decide", "done"} /\ UNCHANGED <<taskNo, replans>>
        /\ role \in {Fast, Recovery}
    BY <1>3 DEF VerifyAttempt, Recorded, Stop, EscalationInv, TypeInv, TypeOK
  <2>2. CASE UNCHANGED attempts
    BY <1>3, <1>s, <2>1, <2>2 DEF VerifyAttempt, Stop, EscalationInv, TypeInv, TypeOK
  <2>3. CASE \E a \in Attempt : a.role = role /\ attempts' = Append(attempts, a)
    <3>1. PICK a \in Attempt : a.role = role /\ attempts' = Append(attempts, a)
      BY <2>3
    <3>2. \A r : Used(attempts', r) = IF role = r THEN Used(attempts, r) + 1 ELSE Used(attempts, r)
      BY <3>1, UsedAppend DEF EscalationInv, TypeInv, TypeOK
    <3>3. TriesLeft' = TriesLeft - 1
      <4>1. Fast # Recovery
        BY DEF Fast, Recovery
      <4>. QED  BY <1>t, <2>1, <3>2, <4>1 DEF TriesLeft
    <3>. QED  BY <2>1, <3>3
  <2>. QED  BY <1>3, <2>2, <2>3 DEF VerifyAttempt
<1>4. CASE Decision
  <2>1. pc = "decide" /\ UNCHANGED <<taskNo, attempts, replans>>
    BY <1>4 DEF Decision
  <2>2. pc' \in {"next", "cycle", "replan", "done"}
    BY <1>4 DEF Decision, TaskPassed, RetryFast, StartRecovery, AskPlanner, GiveUp, Stop
  <2>. QED  BY <1>s, <2>1, <2>2
<1>5. CASE Replan
  <2>1. pc = "replan" /\ UNCHANGED <<taskNo, attempts>>
    BY <1>5 DEF Replan
  <2>2. CASE AcceptBrief
    <3>1. replans' = replans + 1 /\ pc' = "cycle"
      BY <2>2 DEF AcceptBrief
    <3>2. TriesLeft' = TriesLeft - 1
      BY <1>t, <2>1, <3>1 DEF TriesLeft
    <3>. QED  BY <2>1, <3>1, <3>2
  <2>3. CASE \E e : NoBrief(e)
    <3>1. UNCHANGED replans /\ pc' = "done"
      BY <2>3 DEF NoBrief, Stop
    <3>. QED  BY <1>s, <2>1, <3>1
  <2>. QED  BY <1>5, <2>2, <2>3 DEF Replan
<1>. QED  BY <1>1, <1>2, <1>3, <1>4, <1>5 DEF Next, Ended

LEMMA FewerLeft ==
  ASSUME NEW o \in Nat, NEW t \in Nat, NEW p \in Nat, NEW u \in Nat, NEW q \in Nat,
         (u = t /\ q < p) \/ (u = t - 1 /\ q < p + 6)
  PROVE  o + 6 * u + q < o + 6 * t + p
OBVIOUS

LEMMA OneTaskLess ==
  ASSUME NEW n \in Nat, n > 0, NEW b \in Nat
  PROVE  n * b = (n - 1) * b + b /\ (n - 1) * b \in Nat
OBVIOUS

LEMMA StepsTyped ==
  ASSUME EscalationInv
  PROVE  /\ StepsLeft \in Nat /\ TriesLeft \in Nat /\ PointsLeft \in Nat
         /\ NTasks - taskNo \in Nat /\ AllTries \in Nat /\ StepsPerTask \in Nat
         /\ (NTasks - taskNo) * StepsPerTask \in Nat
<1>1. TriesLeft \in Nat /\ AllTries \in Nat
  BY TriesTyped
<1>2. PointsLeft \in Nat
  BY DEF PointsLeft
<1>3. NTasks - taskNo \in Nat /\ StepsPerTask \in Nat
  BY <1>1, CountsAssumption DEF EscalationInv, TypeInv, TypeOK, StepsPerTask
<1>4. (NTasks - taskNo) * StepsPerTask \in Nat
  <2>. DEFINE n == NTasks - taskNo
  <2>. HIDE DEF n
  <2>. QED  BY <1>3 DEF n
<1>. QED  BY <1>1, <1>2, <1>3, <1>4 DEF StepsLeft

NumbersOK == TriesLeft \in Nat /\ PointsLeft \in Nat

LEMMA NumbersTyped == EscalationInv => NumbersOK
BY StepsTyped DEF NumbersOK

LEMMA StepsGoDown ==
  ASSUME EscalationInv, EscalationInv', Next
  PROVE  StepsLeft' < StepsLeft \/ UNCHANGED vars
<1> DEFINE rest == NTasks - taskNo
<1>1. /\ StepsLeft \in Nat /\ TriesLeft \in Nat /\ PointsLeft \in Nat
      /\ rest \in Nat /\ AllTries \in Nat /\ StepsPerTask \in Nat /\ rest * StepsPerTask \in Nat
  BY StepsTyped
<1>2. TriesLeft' \in Nat /\ PointsLeft' \in Nat
  <2>1. NumbersOK'
    BY NumbersTyped, PTL
  <2>. QED  BY <2>1 DEF NumbersOK
<1>3. StepsLeft = rest * StepsPerTask + 6 * TriesLeft + PointsLeft
  BY DEF StepsLeft
<1>4. CASE taskNo' = taskNo
  <2>1. StepsLeft' = rest * StepsPerTask + 6 * TriesLeft' + PointsLeft'
    BY <1>4 DEF StepsLeft, StepsPerTask, AllTries
  <2>. DEFINE others == rest * StepsPerTask
  <2>5. /\ StepsLeft = others + 6 * TriesLeft + PointsLeft
        /\ StepsLeft' = others + 6 * TriesLeft' + PointsLeft'
        /\ others \in Nat /\ TriesLeft \in Nat /\ PointsLeft \in Nat
    BY <1>1, <1>3, <2>1
  <2>. HIDE DEF others, rest
  <2>2. ASSUME \/ TriesStay /\ PointsLeft' < PointsLeft
               \/ TriesLeft' = TriesLeft - 1 /\ PointsLeft' < PointsLeft + 6
        PROVE  StepsLeft' < StepsLeft
    <3>1. \/ TriesLeft' = TriesLeft /\ PointsLeft' < PointsLeft
          \/ TriesLeft' = TriesLeft - 1 /\ PointsLeft' < PointsLeft + 6
      BY <2>2 DEF TriesStay
    <3>2. others + 6 * TriesLeft' + PointsLeft' < others + 6 * TriesLeft + PointsLeft
      BY <1>2, <2>5, <3>1, FewerLeft
    <3>. QED  BY <2>5, <3>2
  <2>4. taskNo' # taskNo + 1
    BY <1>4 DEF EscalationInv, TypeInv, TypeOK
  <2>. QED  BY <2>2, <2>4, TriesMove
<1>5. CASE taskNo' = taskNo + 1 /\ taskNo < NTasks /\ TriesLeft' = AllTries
             /\ PointsLeft = 1 /\ PointsLeft' = 5
  <2>1. taskNo \in Nat /\ NTasks \in Nat
    BY CountsAssumption DEF EscalationInv, TypeInv, TypeOK
  <2>2. rest > 0 /\ NTasks - taskNo' = rest - 1
    BY <1>5, <2>1
  <2>3. StepsLeft' = (rest - 1) * StepsPerTask + 6 * AllTries + 5
    BY <1>5, <2>2 DEF StepsLeft, StepsPerTask, AllTries
  <2>4. rest * StepsPerTask = (rest - 1) * StepsPerTask + StepsPerTask
        /\ (rest - 1) * StepsPerTask \in Nat
    <3>. HIDE DEF rest
    <3>. QED  BY <1>1, <2>2, OneTaskLess
  <2>5. StepsPerTask = 6 * AllTries + 6
    BY DEF StepsPerTask
  <2>. DEFINE others == (rest - 1) * StepsPerTask
  <2>6. /\ StepsLeft = others + StepsPerTask + 6 * TriesLeft + 1
        /\ StepsLeft' = others + 6 * AllTries + 5 /\ others \in Nat
    BY <1>3, <1>5, <2>3, <2>4
  <2>. HIDE DEF others
  <2>. QED  BY <1>1, <2>5, <2>6
<1>. QED  BY <1>4, <1>5, TriesMove DEF TriesStay

(* Every step of the loop but stuttering leaves fewer steps to make, of    *)
(* the AllSteps a run may make: no mixture of verdicts, classifications,   *)
(* replanned briefs and goal cycles keeps it going, for any values of the  *)
(* budgets (execute_task, _replan_task, decide_repair).                    *)
THEOREM LoopRunsOut ==
  Spec => /\ StepsLeft <= AllSteps /\ [](StepsLeft \in Nat)
          /\ [][StepsLeft' < StepsLeft]_vars
<1>1. Spec => []EscalationInv
  BY InitEscalationInv, NextEscalationInv, PTL DEF Spec
<1>2. EscalationInv => StepsLeft \in Nat
  BY StepsTyped
<1>3. EscalationInv /\ EscalationInv' /\ [Next]_vars => [StepsLeft' < StepsLeft]_vars
  BY StepsGoDown
<1>4. Init => StepsLeft <= AllSteps
  <2> SUFFICES ASSUME Init PROVE StepsLeft <= AllSteps
    OBVIOUS
  <2>1. EscalationInv /\ taskNo = 0 /\ pc = "next"
    BY InitEscalationInv DEF Init
  <2>2. /\ TriesLeft \in Nat /\ AllTries \in Nat /\ TriesLeft <= AllTries
        /\ NTasks - taskNo = NTasks /\ StepsPerTask \in Nat /\ NTasks * StepsPerTask \in Nat
    BY <2>1, TriesTyped, StepsTyped, CountsAssumption
  <2>3. StepsLeft = NTasks * StepsPerTask + 6 * TriesLeft + 1
    BY <2>1, <2>2 DEF StepsLeft, PointsLeft
  <2>. DEFINE all == NTasks * StepsPerTask
  <2>4. all \in Nat /\ StepsLeft = all + 6 * TriesLeft + 1 /\ AllSteps = all + 6 * AllTries + 1
    BY <2>2, <2>3 DEF AllSteps
  <2>. HIDE DEF all
  <2>. QED  BY <2>2, <2>4
<1>. QED  BY <1>1, <1>2, <1>3, <1>4, PTL DEF Spec

-----------------------------------------------------------------------------
(* What the roles of a run cost: a task has spent no more invocations than *)
(* tries, but the one whose attempt is not recorded yet or never will be.  *)
Spent == AllTries - TriesLeft
Paid  == Spent + Owing

CostInv ==
  /\ EscalationInv
  /\ taskNo = 0 => pc = "next"
  /\ Invoked <= taskNo * AllTries
  /\ taskNo > 0 => Invoked <= (taskNo - 1) * AllTries + Paid

LEMMA CostTyped ==
  EscalationInv => /\ Invoked \in Nat /\ Spent \in 0..AllTries /\ Owing \in {0, 1}
                   /\ TriesLeft \in Nat /\ AllTries \in Nat /\ taskNo \in Nat
<1> SUFFICES ASSUME EscalationInv
             PROVE  /\ Invoked \in Nat /\ Spent \in 0..AllTries /\ Owing \in {0, 1}
                    /\ TriesLeft \in Nat /\ AllTries \in Nat /\ taskNo \in Nat
  OBVIOUS
<1>1. used[Fast] \in Nat /\ used[Recovery] \in Nat /\ used[Planner] \in Nat /\ taskNo \in Nat
  BY CountsAssumption DEF EscalationInv, TypeInv, TypeOK, Roles
<1>. QED  BY <1>1, TriesTyped DEF Invoked, Spent, Owing

CostTypes == Invoked \in Nat /\ Spent \in Nat /\ Owing \in {0, 1} /\ Paid \in Nat

LEMMA CostTypesHold == EscalationInv => CostTypes
BY CostTyped DEF CostTypes, Paid

LEMMA RoleInvoked ==
  ASSUME EscalationInv, NEW r \in Roles, NEW end, Invocation(r, end)
  PROVE  Invoked' \in {Invoked, Invoked + 1}
<1>0. /\ used \in [Roles -> Nat] /\ Fast # Recovery /\ Fast # Planner /\ Recovery # Planner
      /\ Roles = {Fast, Recovery, Planner}
  BY DEF EscalationInv, TypeInv, TypeOK, Roles, Fast, Recovery, Planner
<1>1. used' = used \/ used' = [used EXCEPT ![r] = used[r] + 1]
  BY DEF Invocation
<1>2. CASE used' = used
  BY <1>2 DEF Invoked
<1>3. CASE used' = [used EXCEPT ![r] = used[r] + 1]
  BY <1>0, <1>3 DEF Invoked
<1>. QED  BY <1>1, <1>2, <1>3

LEMMA TryBeforeRole ==
  ASSUME EscalationInv, pc \in {"invoke", "replan"}
  PROVE  TriesLeft >= 1
<1>1. /\ Used(attempts, Fast) \in Nat /\ Used(attempts, Recovery) \in Nat
      /\ replans \in Nat /\ MaxReplans \in Nat /\ FastCap \in Nat /\ RecoveryCap \in Nat
      /\ replans <= MaxReplans
  BY TriesTyped
<1>2. Used(attempts, Fast) <= FastCap + replans /\ Used(attempts, Recovery) <= RecoveryCap
  BY DEF EscalationInv, BoundedEscalation
<1>3. CASE pc = "invoke"
  <2>1. Used(attempts, Fast) < FastCap + replans \/ Used(attempts, Recovery) < RecoveryCap
    BY <1>3 DEF EscalationInv, Room, TypeInv, TypeOK
  <2>. QED  BY <1>1, <1>2, <2>1 DEF TriesLeft
<1>4. CASE pc = "replan"
  <2>1. replans < MaxReplans
    BY <1>4 DEF EscalationInv, TypeInv
  <2>. QED  BY <1>1, <1>2, <2>1 DEF TriesLeft
<1>. QED  BY <1>3, <1>4

LEMMA PaidCases ==
  ASSUME NEW s \in Nat, NEW t \in Nat, NEW o \in {0, 1}, NEW q \in {0, 1}, NEW b \in Nat
  PROVE  /\ t = s /\ (o = 0 \/ q = 1) => t + q >= s + o
         /\ t = s + 1 => t + q >= s + o
         /\ t = s /\ o = 0 /\ q = 1 => t + q >= s + o + 1
         /\ t = s + 1 /\ o = 0 => t + q >= s + o + 1
         /\ o = 0 /\ s < b => s + o < b
OBVIOUS

LEMMA StillPaid ==
  ASSUME NEW i \in Nat, NEW p \in Nat, NEW j \in Nat, NEW q \in Nat, NEW o \in Nat, i <= o + p
  PROVE  /\ j = i /\ q >= p => j <= o + q
         /\ j = i + 1 /\ q >= p + 1 => j <= o + q
OBVIOUS

(* An invocation is paid with a try, or the step leaves it owing.          *)
LEMMA InvokedMove ==
  ASSUME EscalationInv, EscalationInv', Next, taskNo' = taskNo
  PROVE  \/ Invoked' = Invoked /\ Paid' >= Paid
         \/ Invoked' = Invoked + 1 /\ Paid' >= Paid + 1 /\ Paid < AllTries
<1>t. /\ Invoked \in Nat /\ Spent \in Nat /\ Owing \in {0, 1} /\ Paid = Spent + Owing
      /\ AllTries \in Nat
  BY CostTyped DEF Paid
<1>p. Invoked' \in Nat /\ Spent' \in Nat /\ Owing' \in {0, 1} /\ Paid' = Spent' + Owing'
  <2>1. CostTypes'
    BY CostTypesHold, PTL
  <2>. QED  BY <2>1 DEF CostTypes, Paid
<1>r. TriesLeft >= 1 => Spent < AllTries
  BY CostTyped DEF Spent
<1>c. /\ Spent' = Spent /\ (Owing = 0 \/ Owing' = 1) => Paid' >= Paid
      /\ Spent' = Spent + 1 => Paid' >= Paid
      /\ Spent' = Spent /\ Owing = 0 /\ Owing' = 1 => Paid' >= Paid + 1
      /\ Spent' = Spent + 1 /\ Owing = 0 => Paid' >= Paid + 1
      /\ Owing = 0 /\ Spent < AllTries => Paid < AllTries
  BY <1>t, <1>p, PaidCases
<1>s. ASSUME UNCHANGED <<attempts, replans>> PROVE Spent' = Spent
  BY <1>s DEF Spent, TriesLeft, AllTries
<1>u. ASSUME UNCHANGED used PROVE Invoked' = Invoked
  BY <1>u DEF Invoked
<1>f. ASSUME TriesLeft' = TriesLeft - 1 PROVE Spent' = Spent + 1
  BY <1>f, CostTyped DEF Spent, AllTries
<1>0. taskNo \in Nat
  BY CostTyped
<1>1. CASE StartTask
  BY <1>0, <1>1 DEF StartTask
<1>2. CASE FinishTasks \/ PreimplementationProof \/ BeginCycle \/ Decision
  <2>1. UNCHANGED <<attempts, replans, used>> /\ pc \in {"next", "proof", "cycle", "decide"}
    BY <1>2 DEF FinishTasks, PreimplementationProof, BeginCycle, Decision, loopVars
  <2>2. Owing = 0 /\ Owing' \in {0, 1}
    BY <2>1 DEF Owing
  <2>3. Spent' = Spent /\ Invoked' = Invoked
    BY <1>s, <1>u, <2>1
  <2>. QED  BY <1>c, <2>2, <2>3
<1>3. CASE InvokeImplementer
  <2>1. /\ UNCHANGED <<attempts, replans>> /\ pc = "invoke" /\ pc' \in {"verify", "done"}
        /\ Invoked' \in {Invoked, Invoked + 1}
    <3>1. PICK end \in Endings :
            /\ Invocation(role, end)
            /\ IF end = Completed THEN pc' = "verify" /\ UNCHANGED outcome ELSE ImplementerError(end)
      BY <1>3 DEF InvokeImplementer
    <3>2. role \in Roles
      BY DEF EscalationInv, TypeInv, TypeOK, Roles
    <3>. QED  BY <1>3, <3>1, <3>2, RoleInvoked DEF InvokeImplementer, ImplementerError, Stop, loopVars
  <2>2. Owing = 0 /\ Owing' = 1 /\ TriesLeft >= 1
    BY <2>1, TryBeforeRole DEF Owing
  <2>3. Spent' = Spent
    BY <1>s, <2>1
  <2>. QED  BY <1>c, <1>r, <2>1, <2>2, <2>3
<1>4. CASE VerifyAttempt
  <2>1. UNCHANGED <<used, replans>> /\ pc = "verify" /\ pc' \in {"decide", "done"}
    BY <1>4 DEF VerifyAttempt, Recorded, Stop
  <2>2. Owing = 1 /\ Owing' \in {0, 1} /\ (pc' = "done" => Owing' = 1)
    BY <2>1 DEF Owing
  <2>3. (TriesStay /\ pc' = "done") \/ TriesLeft' = TriesLeft - 1
    <3>1. PointsLeft = 2 /\ (pc' = "decide" => PointsLeft' = 5) /\ ~UNCHANGED vars
      BY <2>1 DEF PointsLeft, vars
    <3>. QED  BY <2>1, <3>1, TriesMove
  <2>4. (Spent' = Spent /\ pc' = "done") \/ Spent' = Spent + 1
    BY <1>f, <2>3 DEF TriesStay, Spent, AllTries
  <2>5. Invoked' = Invoked
    BY <1>u, <2>1
  <2>. QED  BY <1>c, <2>2, <2>4, <2>5
<1>5. CASE Replan
  <2>1. /\ pc = "replan" /\ UNCHANGED attempts
        /\ \/ replans' = replans + 1 /\ pc' = "cycle"
           \/ UNCHANGED replans /\ pc' = "done"
        /\ \E end : Invocation(Planner, end)
    BY <1>5 DEF Replan, AcceptBrief, NoBrief, Stop
  <2>2. Invoked' \in {Invoked, Invoked + 1}
    BY <2>1, RoleInvoked DEF Roles
  <2>3. Owing = 0 /\ TriesLeft >= 1 /\ Owing' = IF pc' = "done" THEN 1 ELSE 0
    BY <2>1, TryBeforeRole DEF Owing
  <2>4. (Spent' = Spent /\ pc' = "done") \/ (Spent' = Spent + 1 /\ pc' = "cycle")
    <3>1. CASE UNCHANGED replans /\ pc' = "done"
      BY <1>s, <2>1, <3>1
    <3>2. CASE pc' = "cycle"
      <4>1. PointsLeft = 4 /\ PointsLeft' = 4 /\ ~UNCHANGED vars
        BY <2>1, <3>2 DEF PointsLeft, vars
      <4>2. TriesLeft' = TriesLeft - 1
        BY <2>1, <4>1, TriesMove
      <4>. QED  BY <1>f, <3>2, <4>2
    <3>. QED  BY <2>1, <3>1, <3>2
  <2>. QED  BY <1>c, <1>r, <2>2, <2>3, <2>4
<1>6. CASE UNCHANGED vars
  <2>1. Owing' = Owing /\ UNCHANGED <<attempts, replans, used>>
    BY <1>6 DEF Owing, vars
  <2>. QED  BY <1>t, <1>p, <1>s, <1>u, <2>1
<1>. QED  BY <1>1, <1>2, <1>3, <1>4, <1>5, <1>6 DEF Next, Ended

LEMMA NextCostInv == CostInv /\ [Next]_vars => CostInv'
<1> SUFFICES ASSUME CostInv, [Next]_vars PROVE CostInv'
  OBVIOUS
<1>1. EscalationInv /\ EscalationInv'
  BY NextEscalationInv DEF CostInv
<1>2. CostTypes'
  BY <1>1, CostTypesHold, PTL
<1>3. /\ Invoked \in Nat /\ Spent \in 0..AllTries /\ Owing \in {0, 1} /\ taskNo \in Nat
      /\ AllTries \in Nat /\ Paid \in Nat /\ Paid = Spent + Owing
  BY <1>1, CostTyped DEF Paid
<1>4. CASE UNCHANGED vars
  <2>1. UNCHANGED <<Invoked, Spent, Owing, taskNo, pc>>
    BY <1>4 DEF vars, Invoked, Spent, Owing, TriesLeft, AllTries
  <2>. QED  BY <1>1, <2>1 DEF CostInv, AllTries, Paid
<1>5. CASE Next /\ taskNo' = taskNo + 1 /\ TriesLeft' = AllTries /\ UNCHANGED used
  <2>1. Invoked' = Invoked /\ Spent' = 0
    BY <1>3, <1>5 DEF Invoked, Spent, AllTries
  <2>2. (taskNo + 1) * AllTries = taskNo * AllTries + AllTries /\ taskNo * AllTries \in Nat
    BY <1>3, OneTaskLess
  <2>. DEFINE others == taskNo * AllTries
              more == (taskNo + 1) * AllTries
  <2>3. /\ Invoked' <= others /\ others \in Nat /\ more = others + AllTries
        /\ (taskNo * AllTries)' = more /\ ((taskNo - 1) * AllTries)' = others
    BY <1>3, <1>5, <2>1, <2>2 DEF CostInv, AllTries
  <2>. HIDE DEF others, more
  <2>4. Invoked' <= (taskNo * AllTries)' /\ Invoked' <= ((taskNo - 1) * AllTries)' + Paid'
    BY <1>2, <1>3, <2>1, <2>3 DEF CostTypes
  <2>5. taskNo' # 0
    BY <1>3, <1>5
  <2>. QED  BY <1>1, <2>4, <2>5 DEF CostInv
<1>6. CASE Next /\ taskNo' = taskNo
  <2>1. \/ Invoked' = Invoked /\ Paid' >= Paid
        \/ Invoked' = Invoked + 1 /\ Paid' >= Paid + 1 /\ Paid < AllTries
    BY <1>1, <1>6, InvokedMove
  <2>2. CASE taskNo = 0
    <3>1. pc = "next" /\ taskNo < NTasks
      BY <2>2, CountsAssumption DEF CostInv
    <3>2. StartTask \/ UNCHANGED vars
      <4>1. ~FinishTasks
        BY <1>3, <2>2, <3>1 DEF FinishTasks
      <4>2. ~PreimplementationProof /\ ~BeginCycle /\ ~InvokeImplementer
        BY <3>1 DEF PreimplementationProof, BeginCycle, InvokeImplementer
      <4>3. ~VerifyAttempt /\ ~Decision /\ ~Replan
        BY <3>1 DEF VerifyAttempt, Decision, Replan
      <4>. QED  BY <1>6, <4>1, <4>2, <4>3 DEF Next, Ended
    <3>. QED  BY <1>3, <1>4, <1>6, <3>2 DEF StartTask
  <2>3. CASE taskNo # 0
    <3>1. taskNo > 0 /\ taskNo * AllTries = (taskNo - 1) * AllTries + AllTries
          /\ (taskNo - 1) * AllTries \in Nat
      BY <1>3, <2>3, OneTaskLess
    <3>. DEFINE others == (taskNo - 1) * AllTries
                all == taskNo * AllTries
    <3>2. /\ all = others + AllTries /\ others \in Nat
          /\ Invoked <= all /\ Invoked <= others + Paid
          /\ (taskNo * AllTries)' = all /\ ((taskNo - 1) * AllTries)' = others
      BY <1>6, <3>1 DEF CostInv, AllTries
    <3>. HIDE DEF others, all
    <3>3. Invoked' <= others + Paid'
      <4>1. Invoked' \in Nat /\ Paid' \in Nat
        BY <1>2 DEF CostTypes
      <4>2. Invoked' = Invoked /\ Paid' >= Paid => Invoked' <= others + Paid'
        BY <1>3, <3>2, <4>1, StillPaid
      <4>3. Invoked' = Invoked + 1 /\ Paid' >= Paid + 1 => Invoked' <= others + Paid'
        BY <1>3, <3>2, <4>1, StillPaid
      <4>. QED  BY <2>1, <4>2, <4>3
    <3>4. Invoked' <= all
      <4>1. CASE Invoked' = Invoked
        BY <3>2, <4>1
      <4>2. CASE Invoked' = Invoked + 1 /\ Paid < AllTries
        BY <1>3, <3>2, <4>2
      <4>. QED  BY <2>1, <4>1, <4>2
    <3>5. taskNo' # 0
      BY <1>6, <2>3
    <3>. QED  BY <1>1, <3>2, <3>3, <3>4, <3>5 DEF CostInv
  <2>. QED  BY <2>2, <2>3
<1>7. Next => taskNo' = taskNo \/ (taskNo' = taskNo + 1 /\ TriesLeft' = AllTries /\ UNCHANGED used)
         \/ UNCHANGED vars
  BY <1>1, TriesMove DEF TriesStay
<1>. QED  BY <1>4, <1>5, <1>6, <1>7

LEMMA InitCostInv == Init => CostInv
<1> SUFFICES ASSUME Init PROVE CostInv
  OBVIOUS
<1>1. EscalationInv
  BY InitEscalationInv
<1>2. taskNo = 0 /\ pc = "next" /\ Invoked = 0
  BY DEF Init, Invoked, Roles
<1>3. AllTries \in Nat /\ 0 * AllTries = 0
  BY <1>1, CostTyped
<1>. QED  BY <1>1, <1>2, <1>3 DEF CostInv

(* "Do not escalate forever", for the run as a whole: the implementers,    *)
(* the recoveries and the planners of replans that are recorded are at     *)
(* most what one task allows times the tasks (used_roles; execute_task,    *)
(* decide_repair, _replan_task).                                           *)
THEOREM InvocationsAreBounded == Spec => [](Invoked <= NTasks * AllTries)
<1>1. Spec => []CostInv
  BY InitCostInv, NextCostInv, PTL DEF Spec
<1>2. CostInv => Invoked <= NTasks * AllTries
  <2> SUFFICES ASSUME CostInv PROVE Invoked <= NTasks * AllTries
    OBVIOUS
  <2>1. /\ taskNo \in Nat /\ NTasks \in Nat /\ taskNo <= NTasks /\ AllTries \in Nat /\ Invoked \in Nat
    BY CostTyped, CountsAssumption DEF CostInv, EscalationInv, TypeInv, TypeOK
  <2>2. taskNo * AllTries <= NTasks * AllTries
        /\ taskNo * AllTries \in Nat /\ NTasks * AllTries \in Nat
    <3>1. PICK d \in Nat : NTasks = taskNo + d
      <4>1. NTasks - taskNo \in Nat /\ NTasks = taskNo + (NTasks - taskNo)
        BY <2>1
      <4>. QED  BY <4>1
    <3>2. NTasks * AllTries = taskNo * AllTries + d * AllTries
      BY <2>1, <3>1
    <3>3. taskNo * AllTries \in Nat /\ d * AllTries \in Nat
      BY <2>1, <3>1
    <3>. QED  BY <3>2, <3>3
  <2>3. Invoked <= taskNo * AllTries
    BY DEF CostInv
  <2>. QED  BY <2>1, <2>2, <2>3
<1>. QED  BY <1>1, <1>2, PTL
=============================================================================
