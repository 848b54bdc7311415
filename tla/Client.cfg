CONSTANTS
  Deliveries = 2
  NoAd = NoAd
  PrefetchCount = 2
  LowMark = 1
  MaxFetches = 1
  Sessions = {alice}
  NoSession = NoSession
  Headless = {}
  MinImpression = 0
  MaxDuration = 0
  RotateMs = 1
  IdleGrace = 0
  StaleMutex = 0
  MaxQuiet = 1
  MaxAge = 1
  CompactAfter = 2
  MaxEntries = 1
  BatchMax = 1
  MaxPosts = 1
  MaxMisreads = 1
  MaxCrashes = 1
  alice = alice
SPECIFICATION FairSpec
INVARIANTS ClientTypeOK OneShowPerDelivery
PROPERTIES ImplementsJourney DrainsUnlessRefused
CHECK_DEADLOCK FALSE
