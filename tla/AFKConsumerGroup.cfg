SPECIFICATION FairSpec
CONSTANTS
  c1 = c1
  c2 = c2
  Consumers <- TwoConsumers
  Partitions <- TwoPartitions
  MaxOffset = 1
  Stream <- SplitStream
  MaxRetries = 2
  MaxFaults = 2
INVARIANTS TypeOK NoMessageSkipped FrontiersSound
PROPERTIES EventuallyHandled
CHECK_DEADLOCK FALSE
