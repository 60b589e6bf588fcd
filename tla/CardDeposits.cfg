CONSTANTS
  Calls = {c1, c2}
  RequestIds = {r1}
  RequestIdOf <- OneKey
  Observers = {o1, o2}
  Sweeps = {}
  Reasons = {fundsShort}
  AnswerIds = {"none", "own"}
  NoCall = NoCall
SPECIFICATION Spec
SYMMETRY ObserverSymmetry
INVARIANTS OneRequestPerKey BackedByIssuer
CHECK_DEADLOCK FALSE
