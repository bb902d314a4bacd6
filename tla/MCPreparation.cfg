SPECIFICATION Spec
CONSTANTS
  Modes = {"orchestrate", "adaptive", "goal", "audit"}
  Requests <- MCRequests
  Targets = {"src/a.py"}
  TaskTypes <- MCTaskTypes
  Answers <- MCAnswers
  Plans <- MCPlans
  Catalogs = {{}, {"pytest"}}
  SkillSets <- MCSkillSets
  Wordings <- MCWordings
  Facts <- MCFacts
  OwnerChanges = {"o1"}
INVARIANTS
  TypeOK
  RiskIsReviewed
  RequirementsReachTasks
  FrozenAuthority
  SkillsFit
PROPERTIES
  Prepares
