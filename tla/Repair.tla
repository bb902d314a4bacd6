------------------------------- MODULE Repair -------------------------------
(***************************************************************************)
(* The repair decision table of engine/repair.py: what the runtime does    *)
(* after an implementation attempt has been verified.  An attempt carries  *)
(* the role that made it and the four fields the table compares; the list  *)
(* of attempts of one task is the only input besides the two budgets.      *)
(* A recovery also escalates the workload profile of the run.              *)
(***************************************************************************)
EXTENDS Naturals, Sequences, FiniteSets

Fast     == "implementer_fast"
Recovery == "implementer_recovery"

Tiers == {"T0", "T1", "T2", "T3"}

None == "none"   \* an absent fingerprint or classification (Python's None)

(* Classifications that only the planner or the owner can settle.          *)
OwnerDecision ==
  { "DESIGN_CONFLICT", "SPEC_AMBIGUITY", "CONTRACT_CHANGE",
    "AUTHORIZATION_AMBIGUOUS", "REPOSITORY_FACTS_CONFLICT",
    "REPEATED_FAILURE_INVALIDATES_HYPOTHESIS" }

Latest(a)   == a[Len(a)]
Previous(a) == a[Len(a) - 1]

\* How many attempts of the list a role made (fast_used, recovery_used).
Used(a, r) == Cardinality({ i \in DOMAIN a : a[i].role = r })

\* A mutant of EvidenceDelta: every attempt writes its evidence to new files,
\* and a comparison of the paths takes that for progress.
EvidenceDeltaByPath(a) == TRUE

\* Progress is semantic: a verdict, the classification or the fingerprint of
\* the failure changed; artifact paths always do and do not count.
EvidenceDelta(a) ==
  \/ Len(a) < 2
  \/ \E f \in {"check", "diff", "class", "fp"} : Latest(a)[f] # Previous(a)[f]

SameFailure(a) ==
  /\ Len(a) >= 2
  /\ Latest(a).fp # None
  /\ Latest(a).fp = Previous(a).fp
  /\ Latest(a).role = Previous(a).role
  /\ ~EvidenceDelta(a)

\* A mutant of FastLeft: a budget read as the number of retries after the first attempt.
FastLeftAsRetries(a, b)     == Used(a, Fast) <= b.fast

Succeeded(a)  == Latest(a).check = "PASS" /\ Latest(a).diff = "PASS"
FastLeft(a, b)     == Used(a, Fast) < b.fast
RecoveryLeft(a, b) == Used(a, Recovery) < b.recovery

\* The rules in table order; the first whose predicate holds decides.
Decide(a, b) ==
  CASE a = <<>>                                   -> "R00_INITIAL_FAST"
    [] a # <<>> /\ Succeeded(a)                   -> "R10_DETERMINISTIC_SUCCESS"
    [] a # <<>> /\ ~Succeeded(a) ->
       IF Latest(a).class \in OwnerDecision THEN "R20_OWNER_DECISION"
       ELSE IF SameFailure(a)
            THEN IF Latest(a).role = Fast /\ RecoveryLeft(a, b)
                 THEN "R30_IDENTICAL_FAST_TO_RECOVERY"
                 ELSE "R31_IDENTICAL_FAILURE_BLOCK"
       ELSE IF Latest(a).role = Fast /\ FastLeft(a, b) THEN "R40_FAST_BUDGET"
       ELSE IF RecoveryLeft(a, b) THEN "R50_RECOVERY_BUDGET"
       ELSE "R99_BUDGET_EXHAUSTED"

Rules ==
  { "R00_INITIAL_FAST", "R10_DETERMINISTIC_SUCCESS", "R20_OWNER_DECISION",
    "R30_IDENTICAL_FAST_TO_RECOVERY", "R31_IDENTICAL_FAILURE_BLOCK",
    "R40_FAST_BUDGET", "R50_RECOVERY_BUDGET", "R99_BUDGET_EXHAUSTED" }

\* A mutant of Escalated: the tier rises and the review is forgotten.
EscalatedWithoutReview(p) ==
  IF p.tier \in {"T0", "T1"} THEN [p EXCEPT !.tier = "T2"] ELSE p

(* _activate_recovery_protocol: a light run becomes T2 with deep review.   *)
Escalated(p) ==
  IF p.tier \in {"T0", "T1"} THEN [tier |-> "T2", reviewer |-> TRUE] ELSE p

RunsFast(rule)     == rule \in {"R00_INITIAL_FAST", "R40_FAST_BUDGET"}
RunsRecovery(rule) == rule \in {"R30_IDENTICAL_FAST_TO_RECOVERY", "R50_RECOVERY_BUDGET"}
=============================================================================
