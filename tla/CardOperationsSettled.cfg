CONSTANTS
  c1 = c1
  c2 = c2
  Calls = {c1, c2}
  Wanted <- BlockAndUnblock
  Settles = TRUE
  Observers = {o1}
  Sweeps = {}
  Notices = {k1}
  NoCall = NoCall
SPECIFICATION Spec
INVARIANTS TrailAccounts
CHECK_DEADLOCK FALSE
