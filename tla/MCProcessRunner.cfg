SPECIFICATION PRFairSpec
CONSTANTS
  MaxWrites = 2
  QueueSize = 1
  Timers = {"initial", "total", "cancel"}
INVARIANTS
  AllOutputDelivered
PROPERTIES
  Returns
