CONSTANTS
  h1 = h1
  refresh = refresh
  q1 = q1
  q2 = q2
  Products = {1, 2}
  Listing <- MCListing
  Runs = {h1, refresh}
  Refresh = refresh
  Readers = {q1, q2}
  Handlers = {h1}
  MAX_PERSIST_ATTEMPTS = 2
  MaxFaults = 2
SPECIFICATION Spec
INVARIANTS SnapshotIsWhole NoticeIsHonoured ActsOnce EmptyIsConfirmed
CHECK_DEADLOCK FALSE
PROPERTY Converges
