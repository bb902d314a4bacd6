SPECIFICATION RecordsSpec
CONSTANTS
  Threads = {t1, t2}
  MaxEvents = 3
  MaxCrashes = 3
  Hosts = {"codex", "antigravity"}
  Models = {"m1", "m2"}
  MaxInvocations = 2
  MaxUses = 2
  MaxLines = 1
INVARIANTS
  OnlyTextCorrupts
  PublishedIsPersistent
  FollowerShowsLog
  FiguresAreReal
  BudgetCoversReport
