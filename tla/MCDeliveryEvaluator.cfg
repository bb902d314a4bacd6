SPECIFICATION Spec
CONSTANTS
  Edits = {"e1", "out"}
  InScope = {"e1"}
  Profiles <- DirectProfiles
  GoalMode = FALSE
  PlanReady = TRUE
  EvaluatorInputs = TRUE
  CheckEdits = FALSE
  Criteria = {"AC-1"}
  Covered = {"AC-1"}
INVARIANTS
  UnchangedEvaluatorAccepted
