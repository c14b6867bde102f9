SPECIFICATION FairSpec
CONSTANTS
  Partitions <- TwoPartitions
  MaxOffset = 1
  Kind <- MixedKinds
  MaxRetries = 2
  MaxFaults = 3
CHECK_DEADLOCK FALSE
INVARIANTS OnlyAbandonedRecordsAreSkipped
PROPERTIES EveryRecordIsProcessed
