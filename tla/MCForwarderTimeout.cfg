SPECIFICATION Spec
CONSTANTS
  c1 = c1
  c2 = c2
  Calls <- OneCall
  Cancellable <- FromConsumer
  MaxRetries = 1
INVARIANT FailedDeliveryIsParked
CHECK_DEADLOCK FALSE
