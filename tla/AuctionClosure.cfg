SPECIFICATION FairSpec
CONSTANTS
  a = a
  b = b
  w1 = w1
  w2 = w2
  m = m
  Bidders <- MCBidders
  Nobody = Nobody
  StartingPrice = 2
  MinimumIncrement = 2
  FirstEndAt = 1
  CentsPerRupiah = 2
  HoldGrace = 1
  Horizon = 3
  Workers <- TwoWorkers
  Closers <- OneCloser
  Backend = "postgres"
  ReservePrice = 6
  Starts <- AllStarts
  LockTime = 2
  RetryDelay = 1
  MaxFailures = 1
  MaxCrashes = 1
  Free = Free
INVARIANTS AnnouncedOnce OutcomeIsRight
PROPERTIES ImplementsSettlement EndedIsDealtWith
CHECK_DEADLOCK FALSE
