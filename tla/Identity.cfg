SPECIFICATION FairSpec
CONSTANTS
  Wallets = {"w", "v"}
  Roles = {"publisher", "advertiser"}
  MaxVerifying = 2
  None = None
  Lifetime = 0
  Linger = 0
  MaxPerAddress = 1
  MaxTotal = 2
  Capacity = 3
  Refill = 1
  MaxClock = 1
  MaxChallenges = 2
  MaxRestarts = 1
  Senders = {"w", "stranger"}
  PageSize = 2
  MaxPayments = 2
  MaxLost = 1
INVARIANTS TypeOK OneTokenPerChallenge LogoutIsFinal LoggedInIsPayable
PROPERTIES PaymentsCredited
CHECK_DEADLOCK FALSE
