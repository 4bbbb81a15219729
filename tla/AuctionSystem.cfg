SPECIFICATION FairSpec
CONSTANTS
  a = a
  b = b
  w1 = w1
  Bidders <- MCBidders
  Nobody = Nobody
  StartingPrice = 2
  MinimumIncrement = 2
  FirstEndAt = 1
  CentsPerRupiah = 2
  HoldGrace = 1
  Horizon = 2
  ReplicaOf <- OneReplica
  Offers <- MCOffers
  AntiSnipingWindow = 1
  AntiSnipingExtension = 2
  MaxFaults = 1
  Workers <- OneWorker
  Closers = {}
  ReservePrice = 6
  LockTime = 2
  RetryDelay = 1
  MaxFailures = 1
  MaxCrashes = 1
  MaxMishaps = 1
  Free = Free
INVARIANTS OnlyWinnerPays StrandedHoldsStayFew
PROPERTIES DecidedByAllBids PriceShownOnlyRises EndNeverShrinks ClosedForGood EveryRequestAnswered
CHECK_DEADLOCK FALSE
