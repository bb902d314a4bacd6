SPECIFICATION FairSpec
CONSTANTS
  NTasks = 2
  GoalModes = {TRUE, FALSE}
  Budgets <- MCBudgets
  FastCap = 3
  RecoveryCap = 1
  MaxReplans = 1
  MaxGoalCycles = 4
  Profiles <- MCProfiles
  TokenBudget <- MCTokenBudget
  TokenCosts <- MCTokenCosts
  Classes <- MCClasses
  Fingerprints = {"fpA", "fpB"}
INVARIANTS
  TypeOK
  BoundedEscalation
  ViolationNotMasked
  RecoveryEscalates
  GoalBudgetShared
  TokenLimitHard
PROPERTIES
  NoThirdIdenticalAttempt
  Termination
