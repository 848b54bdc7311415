SPECIFICATION Spec
CONSTANTS
  Publishers = {"p", "q"}
  Advertisers = {"s", "a"}
  Ads = {"high", "low", "rival", "late"}
  Projects = {"x", "y"}
  Pools = {"k", "m"}
  None = None
  Block = 2
  Increment = 1
  ReservePrice = 2
  MaxSlots = 4
  AdOwner <- MCOwner
  AdBid <- MCBid
  DailyBudget <- MCDaily
  BlockLimit <- MCBlocks
  Sponsor <- MCSponsor
  PoolBid <- MCPoolBid
  MemberCap <- MCCap
  Budgets = {1, 2}
  Amounts = {2}
  Running = {"high", "low", "rival"}
  Opened <- MCOpened
  Joined <- MCJoined
  Entered <- MCEntered
  Funds <- MCFunds
  NonceTtl = 1
  GcAfter = 0
  DayLen = 2
  MaxClock = 2
  MaxAds = 2
  MaxEdits = 1
  MaxRestarts = 1
  MaxRequests = 1
INVARIANTS TypeOK NoSlotTwice FairPrices NeverSilent MemberCapKept
PROPERTIES PoolMoneyKept PoolBudgetKept
CHECK_DEADLOCK FALSE
