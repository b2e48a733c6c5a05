SPECIFICATION Spec
CONSTANTS
  c1 = c1
  c2 = c2
  Calls <- OneCall
  Cancellable <- FromConsumer
  MaxRetries = 1
INVARIANT NoRetryOn4xx
CHECK_DEADLOCK FALSE
