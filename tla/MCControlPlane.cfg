SPECIFICATION FairSpec
CONSTANTS
  Sessions = {"s1"}
  Repository <- OwnRepository
  Truths = {"PROVEN"}
  MaxRuns = 3
  LastKill = 1
  MaxEvents = 1
  Page = 1
  Keep = 1
INVARIANTS
  OneRunPerSession
  AnswersKept
  LastAnswerIsFinal
  RecordIsOwn
PROPERTIES
  SessionSettles
