--------------------------- MODULE MCTaskExecutor ---------------------------
(* Small instances of TaskExecutor for TLC. *)
EXTENDS TaskExecutor

\* A generous budget, which leaves room for a third identical attempt, and
\* the one the planner's template asks for.
MCBudgets == { [fast |-> 3, recovery |-> 1], [fast |-> 1, recovery |-> 0] }

\* skills.py, in units of 20 000 tokens.
MCTokenBudget == [T0 |-> 1, T1 |-> 3, T2 |-> 9, T3 |-> 18]
\* An ordinary invocation, and one that overspends a T0 or T1 run.
MCTokenCosts == {0, 4}

MCProfiles == { [tier |-> "T0", reviewer |-> FALSE], [tier |-> "T3", reviewer |-> TRUE] }

MCClasses == {"LOCAL_IMPLEMENTATION", "DESIGN_CONFLICT", "SPEC_AMBIGUITY"}
=============================================================================
