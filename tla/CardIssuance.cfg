CONSTANTS
  o1 = o1
  o2 = o2
  w1 = w1
  a1 = a1
  b1 = b1
  Observers = {o1, o2}
  Watchers = {w1}
  Activations = {a1}
  Operations = {b1}
  MaxMoves = 1
SPECIFICATION Spec
SYMMETRY ObserverSymmetry
INVARIANTS DecisionIsIssuers ActivatedOncePerMove EventsAccount PendingIsResolvable
CHECK_DEADLOCK FALSE
