SPECIFICATION Spec
CONSTANTS
  VerificationPlans <- MCPlans
  PostChecks = {}
  Criteria = {"add"}
  MaxStrays = 2
INVARIANTS
  SealIsCore
  JudgedOnSeal
  UndisturbedIsValid
