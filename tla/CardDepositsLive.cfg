CONSTANTS
  Calls = {c1}
  RequestIds = {r1}
  RequestIdOf <- OneKey
  Observers = {o1, o2}
  Sweeps = {o1}
  Reasons = {fundsShort}
  AnswerIds = {"none", "own"}
  NoCall = NoCall
SPECIFICATION FairSpec
PROPERTIES LedgerSpec OutcomeReachesRow
CHECK_DEADLOCK FALSE
