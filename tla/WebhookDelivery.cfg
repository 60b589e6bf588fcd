CONSTANTS
  p1 = p1
  p2 = p2
  Passes = {p1, p2}
  MAX_ATTEMPTS = 2
  MaxFailures = 1
  MaxRequeues = 1
SPECIFICATION DeliverySpec
INVARIANT GivenUpIsEarned
PROPERTIES Settles
CHECK_DEADLOCK FALSE
