SPECIFICATION Spec
CONSTANTS
  i1 = i1
  i2 = i2
  p1 = p1
  p2 = p2
  Instances <- TwoInstances
  Partitions <- TwoPartitions
  Log <- LogMixed
  MaxDisruptions = 2
INVARIANTS TypeOK AtLeastOnce InOrder
PROPERTY CommittedNeverRegresses
SYMMETRY InstanceSymmetry
CHECK_DEADLOCK FALSE
