SPECIFICATION FairSpec
CONSTANTS
  Partitions = {0}
  Kinds <- AllKinds
  MaxRecords = 3
  MaxClock = 2
  MaxFaults = 1
  BatchSize = 2
  Limits <- SomeLimits
  MaxAgeDays = 1
CHECK_DEADLOCK FALSE
INVARIANTS NoUnexaminedRecordPassed
PROPERTIES EventuallyEscalated
