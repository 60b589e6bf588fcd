CONSTANTS
  c1 = c1
  c2 = c2
  Calls = {c1, c2}
  Wanted <- BlockAndUnblock
  Settles = FALSE
  Observers = {o1, o2}
  Sweeps = {o1}
  Notices = {}
  NoCall = NoCall
SPECIFICATION FairSpec
PROPERTIES HeldCardIsNoticed OutcomeFreesCard
CHECK_DEADLOCK FALSE
