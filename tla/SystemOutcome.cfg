SPECIFICATION Spec
CONSTANTS
  a = a
  b = b
  w1 = w1
  Bidders <- MCBidders
  Nobody = Nobody
  StartingPrice = 2
  MinimumIncrement = 2
  FirstEndAt = 1
  CentsPerRupiah = 2
  HoldGrace = 1
  Horizon = 2
  ReplicaOf <- OneReplica
  Offers <- MCOffers
  AntiSnipingWindow = 1
  AntiSnipingExtension = 2
  MaxFaults = 0
  Workers <- OneWorker
  Closers = {}
  ReservePrice = 6
  LockTime = 2
  RetryDelay = 1
  MaxFailures = 0
  MaxCrashes = 0
  MaxMishaps = 0
  Free = Free
PROPERTY OutcomeIsFinal
CHECK_DEADLOCK FALSE
