CONSTANTS
  ProductRows <- MCProductRows
  Requested = {100, 301}
  Prices <- MCPrices
  Networks = {"null", "ETHEREUM", "BSC"}
  Ids = {1, 2, 3}
  QuotedIds = {1}
  Coarseness = 3
  Month = 2
  BEIJING_OFFSET = 1
  MAX_MONTHS = 2
  Limits = {1, 2}
  LastInstant = 4
  BalancePasses = {b1, b2}
  Balances <- MCBalances
  LastChange = 3
  UnknownCode = 77
  Figures = {5, 8}
  Payments = {0, 3, 4, 6, 9}
  LastAmount = 10
  Spacing = 3
  Illegible = {9}
SPECIFICATION Spec
INVARIANTS QuoteCovers QuotedIsAccepted PagedWhole BalanceIsLatest OutcomeIsReported PaidIsCovered
CHECK_DEADLOCK FALSE
