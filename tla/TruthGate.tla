----------------------------- MODULE TruthGate ------------------------------
(***************************************************************************)
(* The truth gate (assurance/truth.py with the claim and simplicity audits *)
(* of assurance/assurance.py and the ledger _write_claims gives them): the *)
(* verdict of a run from the artifacts it left.  An artifact set records   *)
(* the checks and the diff guard's verdict, the review, whether the sealed *)
(* Core evidence is valid, what is known of model routing, and the graph.  *)
(***************************************************************************)
EXTENDS ProofGraph

\* Contradicted claims: the ledger states every one of them as a fact.
Contradicted(a) ==
  \/ a.sealed = "VALID" /\ (a.checks # "PASS" \/ a.diff # "PASS")
  \/ a.review.verdict \notin {None, "APPROVED"}
  \/ a.review.simplicity \notin {None, "MINIMAL"}

Blocked(a) ==
  \/ a.sealed # "VALID"
  \/ a.checks # "PASS" \/ a.diff # "PASS"
  \/ Contradicted(a)
  \/ Unclosed(a.graph) \ Semantic # {}

Unproven(a) ==
  \/ a.review.verdict = None
  \/ a.routing = "CLAIMED_UNOBSERVED"
  \/ Unclosed(a.graph) \cap Semantic # {}

TruthVerdict(a) ==
  IF Blocked(a) THEN "FAILED" ELSE IF Unproven(a) THEN "PARTIAL" ELSE "PROVEN"
=============================================================================
