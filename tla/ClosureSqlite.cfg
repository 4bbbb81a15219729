SPECIFICATION FairSpec
CONSTANTS
  a = a
  b = b
  w1 = w1
  w2 = w2
  m = m
  Bidders <- MCBidders
  Nobody = Nobody
  StartingPrice = 2
  MinimumIncrement = 2
  FirstEndAt = 1
  CentsPerRupiah = 2
  HoldGrace = 1
  Horizon = 5
  Workers <- OneWorker
  Closers = {}
  Backend = "sqlite"
  ReservePrice = 6
  Starts <- HealthyStarts
  LockTime = 2
  RetryDelay = 1
  MaxFailures = 2
  MaxCrashes = 0
  Free = Free
INVARIANT SettledWhenDone
PROPERTY EndedIsSettled
CHECK_DEADLOCK FALSE
