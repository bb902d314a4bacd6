SPECIFICATION Spec
CONSTANTS
  Files <- MCFiles
  Possible <- MCPossible
  Baseline <- MCBaseline
  Tests = {"test"}
  Dependencies = {"lock"}
  Ephemeral = {"pyc"}
  Contracts <- MCContracts
  NTasks = 2
  Similar <- MCSimilar
INVARIANTS
  OwnChangePasses
