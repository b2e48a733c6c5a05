SPECIFICATION FairSpec
CONSTANTS
  c1 = c1
  c2 = c2
  Calls <- TwoCalls
  Cancellable <- FromConsumer
  MaxRetries = 1
INVARIANTS TypeOK GivesUpOnlyExhausted RepeatsOnlyUnacknowledged CountersAccount
PROPERTIES CallsEnd ImplementsDelivery
CHECK_DEADLOCK FALSE
