----------------------------- MODULE ProofGraph -----------------------------
(***************************************************************************)
(* The proof graph of a run (context/proof_graph.py), the policy that says *)
(* which evidence may close which claim (contracts/evidence_policy.py) and *)
(* the evidence the orchestrator records when it has verified a change.    *)
(* A graph maps the obligations it holds to their revision and status; on  *)
(* is a history field: the source the closing evidence was gathered on.    *)
(***************************************************************************)
EXTENDS Repair

CONSTANTS
  Criteria,  \* acceptance criteria of the intent contract
  Covered    \* criteria the plan links to a mandatory check

Intent     == "intent-alignment"
Simplicity == "simplicity"
Scope      == "scope-integrity"
Checks     == "deterministic-checks"
Progress   == "recovery-progress"

Semantic == {Intent, Simplicity}
Standing == Semantic \cup {Scope, Checks}

ASSUME CriteriaAssumption ==
  Covered \subseteq Criteria /\ Criteria \cap (Standing \cup {Progress}) = {}

\* The claim an obligation is about: everything but the named ones is behaviour.
Claim(o) == IF o \in Semantic \cup {Scope} THEN o ELSE "product-behavior"

Origin(authority) ==
  CASE authority = "DIFF_GUARD"          -> "CORE_DIFF_GUARD"
    [] authority = "MODEL_REVIEW"        -> "PARENT_REVIEW"
    [] authority = "DETERMINISTIC_CHECK" -> "CORE_DETERMINISTIC"

AllowedOrigins(claim) ==
  CASE claim \in Semantic         -> {"PARENT_REVIEW"}
    [] claim = Scope              -> {"CORE_DIFF_GUARD", "CORE_DETERMINISTIC"}
    [] claim = "product-behavior" -> {"CORE_DETERMINISTIC"}

AuthorityMinimum(claim) ==
  CASE claim \in Semantic         -> {"MODEL_REVIEW"}
    [] claim = Scope              -> {"DIFF_GUARD", "DETERMINISTIC_CHECK"}
    [] claim = "product-behavior" -> {"DETERMINISTIC_CHECK"}

CanClose(claim, authority) ==
  /\ Origin(authority) \in AllowedOrigins(claim)
  /\ authority \in AuthorityMinimum(claim)

Opened(rev)  == [rev |-> rev, status |-> "OPEN", on |-> {}]
InitialGraph == [o \in Standing \cup Criteria |-> Opened(0)]

(* ProofGraph.record: stale evidence, evidence that did not pass and       *)
(* evidence without the authority leave the obligation as it was; later    *)
(* evidence never opens a closed obligation again.                         *)
Recorded(ob, o, ev) ==
  IF ev.rev = ob.rev /\ ev.verdict = "PASS" /\ CanClose(Claim(o), ev.authority)
  THEN [ob EXCEPT !.status = "CLOSED", !.on = ev.on]
  ELSE ob

(* The verdict and authority _record_verification_proof submits for an     *)
(* obligation: without a review the diff guard speaks for the semantic     *)
(* ones, and so does a review the fast lane wrote.                         *)
Approves(o, review) ==
  IF o = Intent THEN review.verdict = "APPROVED" ELSE review.simplicity = "MINIMAL"

Verdict(o, report, review) ==
  CASE o = Scope       -> report.diff
    [] o \in Semantic -> IF review.verdict = None THEN report.diff
                         ELSE IF Approves(o, review) THEN "PASS" ELSE "FAIL"
    [] OTHER           -> report.checks

Authority(o, review) ==
  CASE o \in Semantic -> IF review.mode = "MODEL" THEN "MODEL_REVIEW" ELSE "DIFF_GUARD"
    [] o = Scope      -> "DIFF_GUARD"
    [] OTHER          -> "DETERMINISTIC_CHECK"

\* Criteria without a mandatory check that passed get no evidence at all.
RecordVerification(g, report, review) ==
  [o \in DOMAIN g |->
     IF o \in Criteria \ Covered THEN g[o]
     ELSE Recorded(g[o], o,
            [rev |-> g[o].rev, verdict |-> Verdict(o, report, review),
             authority |-> Authority(o, review),
             on |-> IF o \in Semantic \cup {Scope} THEN report.guardedOn ELSE report.checkedOn])]

(* _activate_recovery_protocol: a recovery owes progress, and a run that   *)
(* was light has its semantic obligations opened again for a deep review.  *)
WithRecovery(g, light) ==
  [o \in DOMAIN g \cup {Progress} |->
     IF o \notin DOMAIN g THEN Opened(0)
     ELSE IF light /\ o \in Semantic THEN Opened(g[o].rev + 1) ELSE g[o]]

Unclosed(g) == { o \in DOMAIN g : g[o].status = "OPEN" }
=============================================================================
