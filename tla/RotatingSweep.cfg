CONSTANTS
  p1 = p1
  p2 = p2
  Rows = {1, 2, 3}
  Favoured = {1, 2}
  Bare = {2}
  Batch = 2
  Passes = {p1, p2}
  NoRow = NoRow
  MaxCrashes = 1
  MaxNudges = 1
SPECIFICATION FairSpec
INVARIANTS NoOvertaking
PROPERTY EveryRowAsked
