CONSTANTS
  c1 = c1
  c2 = c2
  c3 = c3
  r1 = r1
  r2 = r2
  k1 = k1
  k2 = k2
  Calls = {c1, c2, c3}
  RequestIds = {r1, r2}
  RequestIdOf <- TwoAtOneKey
  Direct = {c1}
  Results = {"PAID", "ERROR"}
  Callbacks = {k1, k2}
  Faults = {"audit", "other"}
  NoCall = NoCall
  MaxReports = 2
SPECIFICATION Spec
SYMMETRY CallbackSymmetry
INVARIANTS OneOrderPerKey TrailExplains AnnouncedWasRecorded
PROPERTIES LedgerSpec
CHECK_DEADLOCK FALSE
