SPECIFICATION FairSpec
CONSTANTS
  a1 = a1
  p1 = p1
  p2 = p2
  i1 = i1
  i2 = i2
  Publishers = {p1, p2}
  Advertisers = {a1}
  Campaigns = {c1}
  Nonces = {n1, n2}
  ImpIds = {i1, i2}
  Draws = {}
  Prices = {2}
  Amounts = {2}
  Owner <- MCOwner
  Bid <- MCBid
  Shares = {5000}
  BlockLimit <- OneImpression
  DailyBudget <- LargeBudget
  IdsOf <- OwnIds
  NonceTtl = 1
  PendingMs = 1
  GcAfter = 1
  RetainMs = 1
  Durations = {1}
  DurationSlack = 0
  DailyCap = 1
  DayLen = 2
  MaxClock = 3
  MaxFunds = 4
  MaxCrashes = 1
INVARIANTS
  BlocksNotOversold
  VerifiedIsBilled
PROPERTIES
  ImplementsEscrow
  ReservationEnds
