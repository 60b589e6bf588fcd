CONSTANTS
  c1 = c1
  c2 = c2
  l1 = l1
  l2 = l2
  Callers = {c1, c2}
  Lookers = {l1, l2}
  Sweeper = l1
SPECIFICATION Spec
INVARIANTS ClaimIsExclusive NoOrphan DecisionIsTold
PROPERTIES IdentityKept DecisionIsRecorded
CHECK_DEADLOCK FALSE
