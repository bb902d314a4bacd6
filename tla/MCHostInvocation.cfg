SPECIFICATION FairSpec
CONSTANTS
  Calls <- MCCalls
  MaxCalls = 2
  MaxLines = 2
INVARIANTS
  CompletedIsEvidenced
  OwnReceiptAccepted
PROPERTIES
  DeadlineKept
