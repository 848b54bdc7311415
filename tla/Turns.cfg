CONSTANTS
  Deliveries = 2
  NoAd = NoAd
  PrefetchCount = 2
  LowMark = 1
  MaxFetches = 2
  Sessions = {alice, batch}
  NoSession = NoSession
  Headless = {batch}
  MinImpression = 1
  MaxDuration = 2
  RotateMs = 1
  IdleGrace = 1
  StaleMutex = 1
  MaxQuiet = 3
  MaxAge = 2
  alice = alice
  batch = batch
SPECIFICATION FairTurnsSpec
INVARIANTS TypeOK MutexHeld OnlyTicksMeasure
PROPERTIES MutexFreed
CHECK_DEADLOCK FALSE
