SPECIFICATION FairSpec
CONSTANTS
  adv1 = adv1
  platform = platform
  e1 = e1
  e2 = e2
  Batches = {b1, b2}
  Payees = {e1, e2}
  Accounts = {adv1, platform}
  Advertisers = {adv1}
  AccountOf <- MCAccountOf
  Amounts = {1}
  NoBatch = NoBatch
  TxTimeout = 1
  ConfirmPolls = 1
  Latency = 1
  MaxClock = 2
  MaxFunds = 2
  MaxCrashes = 1
INVARIANTS
  TypeOK
  PromiseKept
  MoneyAccountedFor
  RecordedBeforeSent
PROPERTIES
  BothOnlyInTheGap
  ImplementsTransfer
  EveryBatchDecided
  PayeeFreed
