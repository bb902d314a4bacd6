------------------------------ MODULE Delivery ------------------------------
(***************************************************************************)
(* The life of a run around its task loop (engine/orchestrator.py: run,    *)
(* _final_verification_and_review, the four finalizers; worktree_sandbox): *)
(* tasks work in an isolated worktree, the result is verified, reviewed,   *)
(* possibly repaired once, promoted to the owner's worktree, judged by the *)
(* truth gate and published.  A worktree is the set of its differences     *)
(* from the baseline snapshot: edits of the run, junk (ephemeral files),   *)
(* edits of the owner, and what a misbehaving planner left.                *)
(***************************************************************************)
EXTENDS DeliveryRecords

CONSTANTS
  Edits,           \* changes the roles may make to the source
  InScope,         \* those inside the allowed paths and change budgets
  Profiles,        \* tier and reviewer_required a classification may give
  GoalMode,        \* whether the run is a goal run
  PlanReady,       \* whether the plan holds mandatory repository checks
  EvaluatorInputs, \* whether the plan fingerprints evaluator inputs
  CheckEdits       \* whether a check command may edit the source it checks

Junk  == "junk"    \* files _is_ephemeral_generated hides (caches, .pyc)
Owner == "owner"
Leak  == "leak"

ASSUME DeliveryAssumption ==
  /\ InScope \subseteq Edits /\ {Junk, Owner, Leak, "nothing"} \cap Edits = {}
  /\ Profiles \subseteq [tier : Tiers, reviewer : BOOLEAN]
  /\ {GoalMode, PlanReady, EvaluatorInputs, CheckEdits} \subseteq BOOLEAN

Source(tree) == tree \ {Junk}

VARIABLES
  pc,        \* prepare, tasks, verify, guard, review, repair, promote, apply,
             \* gate, publish, done, crashed
  profile,   \* tier and reviewer_required of the run's strategy, once classified
  wasLight,  \* history: a recovery escalated a T0/T1 run
  sandbox,   \* the isolated worktree
  original,  \* the owner's worktree
  graph,     \* the proof graph
  cycle,     \* review_cycle
  report,    \* checks.json, diff-guard.json and the sealed evidence
  review,    \* review.json
  patch,     \* the snapshot the promotion patch is built from
  delivered, \* the patch that was applied
  verdict,   \* the verdict being published
  todo,      \* the records of it still to be written
  files      \* input-request, truth-report, run-error, run-outcome, run.json

vars == <<pc, profile, wasLight, sandbox, original, graph, cycle, report,
          review, patch, delivered, verdict, todo, files>>
strategyVars == <<profile, wasLight>>
promoteVars  == <<patch, delivered>>
publishVars  == <<verdict, todo, files>>

Verdicts     == {"APPROVED", "FIX_REQUIRED", "DESIGN_CONFLICT", "CANNOT_VERIFY"}
Simplicities == {"MINIMAL", "OVERBUILT", "CANNOT_VERIFY"}

Init ==
  /\ pc = "prepare" /\ profile = Unclassified /\ wasLight = FALSE
  /\ sandbox = {} /\ original = {}
  /\ graph = InitialGraph
  /\ cycle = 0 /\ report = NoReport /\ review = NoReview
  /\ patch = Nothing /\ delivered = Nothing
  /\ verdict = None /\ todo = <<>> /\ files = NoFiles

-----------------------------------------------------------------------------
\* The run ends with v: what a raised OrchestrationError, any other exception
\* or the truth gate makes of it.
Halt(v) ==
  /\ pc' = "publish" /\ verdict' = v /\ todo' = Records(v)
  /\ UNCHANGED files

Stops == {"NEEDS_INPUT", "BLOCKED", "FAILED", "SYSTEM_ERROR"}

Go(next) == pc' = next /\ UNCHANGED publishVars

(* Everything before the isolated worktree, in detail in Preparation: it   *)
(* chooses the profile and may stop the run.  Explorer, planner and plan   *)
(* review work in the owner's worktree; what a misbehaving one left stays, *)
(* and the run ends, with FAILED unless the call failed in another way.    *)
Prepare ==
  /\ pc = "prepare"
  /\ \/ Go("tasks") /\ profile' \in Profiles /\ UNCHANGED original
     \/ \E v \in Stops : Halt(v) /\ UNCHANGED <<profile, original>>
     \/ /\ \E v \in {"FAILED", "BLOCKED", "SYSTEM_ERROR"} : Halt(v)
        /\ original' = original \cup {Leak} /\ UNCHANGED profile
  /\ UNCHANGED <<wasLight, sandbox, graph, cycle, report, review, promoteVars>>

\* What the task loop may leave: any tree, with or without a recovery.
RunTasks ==
  /\ pc = "tasks"
  /\ sandbox' \in SUBSET (Edits \cup {Junk})
  /\ \E recovered \in BOOLEAN :
       LET light == profile.tier \in {"T0", "T1"}
       IN  /\ profile'  = IF recovered THEN Escalated(profile) ELSE profile
           /\ wasLight' = (recovered /\ light)
           /\ graph'    = IF recovered THEN WithRecovery(graph, light) ELSE graph
  /\ \/ Go("verify") /\ cycle' = 1
     \/ UNCHANGED cycle /\ \E v \in Stops : Halt(v)
  /\ UNCHANGED <<original, report, review, promoteVars>>

-----------------------------------------------------------------------------
(* Required checks and post-implementation proof.  Check commands run in   *)
(* the worktree: they may leave junk in it and may edit what they check.   *)
RunFinalChecks ==
  /\ pc = "verify"
  /\ \E v \in {"PASS", "FAIL"} :
       report' = [NoReport EXCEPT !.checks = v, !.checkedOn = Source(sandbox)]
  /\ \E junk \in SUBSET {Junk}, more \in SUBSET (IF CheckEdits THEN Edits ELSE {}) :
       sandbox' = sandbox \cup junk \cup more
  /\ Go("guard")
  /\ UNCHANGED <<strategyVars, original, graph, cycle, review, promoteVars>>

\* A mutant of EvaluatorInputsMatch: the merged report says which repository
\* the checks ran in.
EvaluatorInputsMatchIn(repository) == TRUE

\* merge_required_and_post_proof builds a report without the repository key,
\* and without it no evaluator input can be compared.
MergedRepository == None
EvaluatorInputsMatch(repository) == EvaluatorInputs => repository # None

(* seal_core_evidence: valid when every mandatory check of the plan passed *)
(* and the evaluator inputs match.  A failing report may still contain     *)
(* passing mandatory checks; a rejected seal does not stop the run.        *)
Seals(checks) ==
  IF ~PlanReady \/ ~EvaluatorInputsMatch(MergedRepository) THEN {"REJECTED"}
  ELSE IF checks = "PASS" THEN {"VALID"} ELSE {"VALID", "REJECTED"}

FastLane == [verdict |-> "APPROVED", simplicity |-> "MINIMAL", mode |-> "FAST_LANE"]

\* A mutant of GuardOf: the guard looks at the task's own files only.
GuardOfExpected(tree) == IF tree \cap InScope # {} THEN "PASS" ELSE "FAIL"

GuardOf(tree) == IF Source(tree) \subseteq InScope THEN "PASS" ELSE "FAIL"

(* Diff guard, seal, proof record; a failure ends the run, a run without a *)
(* reviewer is approved by the fast lane, any other goes to the reviewer.  *)
GuardAndSeal ==
  /\ pc = "guard"
  /\ \E s \in Seals(report.checks) :
       report' = [report EXCEPT !.diff = GuardOf(sandbox), !.sealed = s,
                                !.guardedOn = Source(sandbox)]
  /\ LET first == RecordVerification(graph, report', NoReview)
     IN  IF report'.checks # "PASS" \/ report'.diff # "PASS"
         THEN graph' = first /\ Halt("FAILED") /\ UNCHANGED review
         ELSE IF profile.reviewer
         THEN graph' = first /\ Go("review") /\ UNCHANGED review
         ELSE /\ graph'  = RecordVerification(first, report', FastLane)
              /\ review' = FastLane
              /\ Go("promote")
  /\ UNCHANGED <<strategyVars, sandbox, original, cycle, promoteVars>>

\* A goal run takes an approval that leaves a criterion out for a refusal.
Effective(v, satisfied) ==
  IF GoalMode /\ v = "APPROVED" /\ ~satisfied THEN "FIX_REQUIRED" ELSE v

Repairable(r) == r.verdict = "FIX_REQUIRED" \/ r.simplicity = "OVERBUILT"

\* A mutant of AfterReview: every refusal is repaired, whatever the cycle.
AfterReviewAlways(r) ==
  IF r.verdict = "APPROVED" /\ r.simplicity = "MINIMAL" THEN "promote"
  ELSE IF Repairable(r) THEN "repair" ELSE "rejected"

AfterReview(r) ==
  IF r.verdict = "APPROVED" /\ r.simplicity = "MINIMAL" THEN "promote"
  ELSE IF cycle = 1 /\ Repairable(r) THEN "repair" ELSE "rejected"

(* The reviewer reads the worktree; a source it changed is found out, junk *)
(* it leaves is not.  Its invocation may also end the run by itself.       *)
Review ==
  /\ pc = "review"
  /\ \E junk \in SUBSET {Junk} : sandbox' = sandbox \cup junk
  /\ \/ \E v \in Verdicts, s \in Simplicities, satisfied \in BOOLEAN :
          LET r    == [verdict |-> Effective(v, satisfied), simplicity |-> s, mode |-> "MODEL"]
              next == AfterReview(r)
          IN  /\ review' = r
              /\ graph' = IF next = "promote" THEN RecordVerification(graph, report, r)
                                              ELSE graph
              /\ IF next = "rejected" THEN Halt("FAILED") ELSE Go(next)
     \/ \E v \in Stops : Halt(v) /\ UNCHANGED <<graph, review>>
  /\ UNCHANGED <<strategyVars, original, cycle, report, promoteVars>>

\* A mutant of RepairReview: the repaired tree goes straight back to review.
RepairReviewUnverified ==
  /\ pc = "repair"
  /\ sandbox' \in SUBSET (Edits \cup {Junk})
  /\ Go("review") /\ cycle' = 2
  /\ UNCHANGED <<strategyVars, original, graph, report, review, promoteVars>>

(* One recovery invocation addresses the findings; the next cycle verifies *)
(* and reviews the tree it left.                                           *)
RepairReview ==
  /\ pc = "repair"
  /\ sandbox' \in SUBSET (Edits \cup {Junk})
  /\ \/ Go("verify") /\ cycle' = 2
     \/ UNCHANGED cycle /\ \E v \in Stops : Halt(v)
  /\ UNCHANGED <<strategyVars, original, graph, report, review, promoteVars>>

-----------------------------------------------------------------------------
(* promote: only source inside the allowed paths, only onto an unchanged   *)
(* baseline; the patch is built from a snapshot that includes the junk.    *)
CheckPromotion ==
  /\ pc = "promote"
  /\ IF Source(sandbox) \subseteq InScope /\ original = {}
     THEN patch' = sandbox /\ Go("apply")
     ELSE Halt("SYSTEM_ERROR") /\ UNCHANGED patch
  /\ UNCHANGED <<strategyVars, sandbox, original, graph, cycle, report, review, delivered>>

\* A mutant of Applied: the owner's worktree is replaced by the verified tree.
AppliedByCheckout(tree) == patch

Applied(tree) == tree \cup patch

(* git apply: all of the patch or, on a conflict with an edit the owner    *)
(* made since the comparison, nothing.  The isolated worktree is removed.  *)
ApplyPatch ==
  /\ pc = "apply"
  /\ \/ /\ original' = Applied(original) /\ delivered' = patch
        /\ Go("gate")
     \/ /\ original # {}
        /\ Halt("SYSTEM_ERROR") /\ UNCHANGED <<original, delivered>>
  /\ UNCHANGED <<strategyVars, sandbox, graph, cycle, report, review, patch>>

\* _finalize_truth revalidates the evidence and builds the report.
Gate ==
  /\ pc = "gate"
  /\ \E routing \in {"NOT_CLAIMED", "OBSERVED", "CLAIMED_UNOBSERVED"} :
       Halt(TruthVerdict([sealed |-> report.sealed, checks |-> report.checks,
                          diff |-> report.diff, review |-> review,
                          graph |-> graph, routing |-> routing]))
  /\ UNCHANGED <<strategyVars, sandbox, original, graph, cycle, report, review, promoteVars>>

\* finalize_run closes the run once: without active-run.json it returns.
Written(record) ==
  CASE record = "input"   -> [files EXCEPT !.input = TRUE]
    [] record = "error"   -> [files EXCEPT !.error = TRUE]
    [] record = "truth"   -> [files EXCEPT !.truth = verdict]
    [] record = "outcome" -> [files EXCEPT !.outcome = verdict]
    [] record = "run"     -> [files EXCEPT !.run = IF @ = "ACTIVE" THEN verdict ELSE @]

Publish ==
  /\ pc = "publish" /\ todo # <<>>
  /\ files' = Written(Head(todo)) /\ todo' = Tail(todo)
  /\ UNCHANGED <<pc, strategyVars, sandbox, original, graph, cycle, report, review,
                 promoteVars, verdict>>

Return ==
  /\ pc = "publish" /\ todo = <<>>
  /\ pc' = "done"
  /\ UNCHANGED <<strategyVars, sandbox, original, graph, cycle, report, review,
                 promoteVars, publishVars>>

-----------------------------------------------------------------------------
\* The finalizer of the truth gate runs inside run's try, the others in its
\* except clauses.
Guarded ==
  \/ pc \notin {"publish", "done", "crashed"}
  \/ pc = "publish" /\ delivered # Nothing /\ verdict # "SYSTEM_ERROR"

\* A failing write, git call or adapter is a system error; raised while one
\* of the other finalizers writes, it leaves run altogether.
Raise ==
  /\ pc \notin {"done", "crashed"}
  /\ IF Guarded THEN Halt("SYSTEM_ERROR") ELSE pc' = "crashed" /\ UNCHANGED publishVars
  /\ UNCHANGED <<strategyVars, sandbox, original, graph, cycle, report, review, promoteVars>>

\* The process is killed, or an interrupt passes every except clause.
Killed ==
  /\ pc \notin {"done", "crashed"} /\ pc' = "crashed"
  /\ UNCHANGED <<strategyVars, sandbox, original, graph, cycle, report, review,
                 promoteVars, publishVars>>

\* Meanwhile the owner works in the original worktree.
OwnerEdits ==
  /\ pc \notin {"done", "crashed"} /\ Owner \notin original
  /\ original' = original \cup {Owner}
  /\ UNCHANGED <<pc, strategyVars, sandbox, graph, cycle, report, review,
                 promoteVars, publishVars>>

Ended == pc \in {"done", "crashed"} /\ UNCHANGED vars

Step == \/ Prepare \/ RunTasks \/ RunFinalChecks \/ GuardAndSeal \/ Review
        \/ RepairReview \/ CheckPromotion \/ ApplyPatch \/ Gate \/ Publish \/ Return

Next == Step \/ Raise \/ Killed \/ OwnerEdits \/ Ended

Spec == Init /\ [][Next]_vars

(* The run thread goes on by itself: each step ends or is timed out.       *)
FairSpec == Spec /\ WF_vars(Step)

-----------------------------------------------------------------------------
Truths   == {"PROVEN", "PARTIAL", "BLOCKED", "FAILED"}
Outcomes == Truths \cup {"NEEDS_INPUT", "SYSTEM_ERROR"}
Reports  == [checks : {None, "PASS", "FAIL"}, diff : {None, "PASS", "FAIL"},
             sealed : {None, "VALID", "REJECTED"},
             checkedOn : SUBSET Edits, guardedOn : SUBSET Edits]
Reviews  == [verdict : Verdicts, simplicity : Simplicities, mode : {"MODEL", "FAST_LANE"}]

(* The type invariant.                                                     *)
TypeOK ==
  /\ pc \in {"prepare", "tasks", "verify", "guard", "review", "repair", "promote",
             "apply", "gate", "publish", "done", "crashed"}
  /\ profile \in [tier : Tiers, reviewer : BOOLEAN] \cup {Unclassified}
  /\ wasLight \in BOOLEAN
  /\ sandbox \subseteq Edits \cup {Junk}
  /\ original \subseteq Edits \cup {Junk, Owner, Leak}
  /\ DOMAIN graph \in {DOMAIN InitialGraph, DOMAIN InitialGraph \cup {Progress}}
  /\ \A o \in DOMAIN graph :
       graph[o] \in [rev : Nat, status : {"OPEN", "CLOSED"}, on : SUBSET Edits]
  /\ cycle \in 0..2
  /\ report \in Reports
  /\ review \in Reviews \cup {NoReview}
  /\ {patch, delivered} \subseteq (SUBSET (Edits \cup {Junk})) \cup {Nothing}
  /\ pc = "apply" => patch # Nothing
  /\ verdict \in Outcomes \cup {None}
  /\ todo \in Seq({"input", "truth", "error", "outcome", "run"})
  /\ files \in [input : BOOLEAN, truth : Outcomes \cup {None}, error : BOOLEAN,
                outcome : Outcomes \cup {None}, run : Outcomes \cup {None, "ACTIVE"}]

(* What reaches the owner's worktree passed the final checks and the diff  *)
(* guard on the tree the last repair left, and was approved as minimal; a  *)
(* light run that needed a recovery was approved by a model reviewer, not  *)
(* by the fast lane (orchestrator._final_verification_and_review,          *)
(* _activate_recovery_protocol).                                           *)
DeliveredWasApproved ==
  delivered # Nothing =>
    /\ report.checks = "PASS" /\ report.diff = "PASS"
    /\ Source(delivered) = report.guardedOn
    /\ review.verdict = "APPROVED" /\ review.simplicity = "MINIMAL"
    /\ wasLight => review.mode = "MODEL"

(* A PROVEN truth report speaks of the tree that was delivered: every      *)
(* obligation of the graph is closed, the scope and the semantic ones by   *)
(* evidence gathered on exactly that source, and the reviewer was a model  *)
(* (truth.build_truth_report over two review cycles).                      *)
ProvenIsEarned ==
  files.truth = "PROVEN" =>
    /\ delivered # Nothing /\ Source(delivered) \subseteq InScope
    /\ Unclosed(graph) = {}
    /\ \A o \in Semantic \cup {Scope} : graph[o].on = Source(delivered)
    /\ review.mode = "MODEL"

(* Whatever fails or is killed while the records are written, neither the  *)
(* outcome nor run.json ever says PROVEN without a truth report that does  *)
(* (the order of the writes in the four finalizers).                       *)
NeverOverclaimed ==
  "PROVEN" \in {files.run, files.outcome} => files.truth = "PROVEN"

(* The run ends: one repair at most is made between the two review cycles. *)
Termination == <>(pc \in {"done", "crashed"})

(* What the owner may rely on, whatever the run does inside: the abstract  *)
(* specification in DeliveryContract.                                      *)
Contract == INSTANCE DeliveryContract
              WITH Safe <- InScope \cup {Junk},
                   worktree <- original, issued <- files.truth
ImplementsContract == Contract!Spec

-----------------------------------------------------------------------------
(* What documents and tests of the repository say and the code does not do *)
(* (see the README): each is checked on its own.                           *)

(* Core evidence is invalidated by a change of an evaluator input, and     *)
(* valid without one (test_live_evidence): with passing mandatory checks   *)
(* and nothing changed the seal is not rejected.                           *)
UnchangedEvaluatorAccepted ==
  PlanReady /\ report.checks = "PASS" => report.sealed # "REJECTED"
=============================================================================
