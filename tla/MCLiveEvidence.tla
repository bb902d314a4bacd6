--------------------------- MODULE MCLiveEvidence ---------------------------
(* A small instance of LiveEvidence for TLC. *)
EXTENDS LiveEvidence

\* One mandatory command, linked to the criterion, and one of the task; a
\* plan with another mandatory command and an evaluator input.
MCPlans ==
  LET task == [checks |-> {"pytest"}, links |-> {"add"}]
  IN  { Compiled({"pytest"}, {}, <<task>>), Compiled({"echo"}, {"o1"}, <<task>>) }
=============================================================================
