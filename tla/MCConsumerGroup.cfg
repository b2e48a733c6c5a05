SPECIFICATION FairSpec
CONSTANTS
  i1 = i1
  i2 = i2
  p1 = p1
  p2 = p2
  Instances <- TwoInstances
  Partitions <- OnePartition
  Log <- LogGood
  MaxDisruptions = 3
PROPERTIES EventuallyCommitted CommittedOnceGroupSettles
CHECK_DEADLOCK FALSE
