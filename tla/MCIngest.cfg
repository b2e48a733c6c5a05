SPECIFICATION FairSpec
CONSTANTS
  Batch <- FullBatch
  MaxInvocations = 3
INVARIANTS TypeOK BatchSettled InOrder TotalsOfOnePass
PROPERTY InvocationEnds
CHECK_DEADLOCK FALSE
