SPECIFICATION FairSpec
CONSTANTS
  Edits = {"e1", "out"}
  InScope = {"e1"}
  Profiles <- MCProfiles
  GoalMode = TRUE
  PlanReady = TRUE
  EvaluatorInputs = FALSE
  CheckEdits = TRUE
  Criteria = {"AC-1"}
  Covered = {"AC-1"}
INVARIANTS
  DeliveredWasApproved
  ProvenIsEarned
  NeverOverclaimed
PROPERTIES
  Termination
  ImplementsContract
