SPECIFICATION Spec
CONSTANTS
  a1 = a1
  p1 = p1
  p2 = p2
  i1 = i1
  i2 = i2
  Publishers = {p1}
  Advertisers = {a1}
  Campaigns = {c1}
  Nonces = {n1, n2}
  ImpIds = {i1, i2}
  Draws = {w1}
  Prices = {1, 2}
  Amounts = {2}
  Owner <- MCOwner
  Bid <- MCBid
  Shares = {5000, 10000}
  BlockLimit <- TwoImpressions
  DailyBudget <- LargeBudget
  IdsOf <- SharedIds
  NonceTtl = 1
  PendingMs = 1
  GcAfter = 1
  RetainMs = 1
  Durations = {1}
  DurationSlack = 0
  DailyCap = 1
  DayLen = 2
  MaxClock = 4
  MaxFunds = 4
  MaxCrashes = 1
SYMMETRY Symmetry
INVARIANTS
  TypeOK
  CommittedCovered
  DeliveryChargedOnce
  ChargedAsDelivered
  LedgerBalanced
  DailyCapHolds
