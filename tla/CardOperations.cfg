CONSTANTS
  c1 = c1
  c2 = c2
  Calls = {c1, c2}
  Wanted <- BlockAndUnblock
  Settles = FALSE
  Observers = {o1, o2}
  Sweeps = {o1, o2}
  Notices = {k1}
  NoCall = NoCall
SPECIFICATION Spec
SYMMETRY ObserverSymmetry
INVARIANTS ExclusiveAtIssuer OutcomeIsIssuers TrailIsChain FailureToldOnce
PROPERTIES LifecycleSpec
CHECK_DEADLOCK FALSE
