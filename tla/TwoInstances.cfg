SPECIFICATION Spec
CONSTANTS
  a = a
  b = b
  c = c
  Bidders <- MCBidders
  Nobody = Nobody
  StartingPrice = 2
  MinimumIncrement = 2
  FirstEndAt = 3
  CentsPerRupiah = 2
  HoldGrace = 1
  Horizon = 0
  Deployments <- OnTwoReplicas
  Offers <- ProxyOffers
  Deleters = {}
  AntiSnipingWindow = 2
  AntiSnipingExtension = 2
  MaxFaults = 0
  Free = Free
INVARIANT ConcurrentProxiesResolve
CHECK_DEADLOCK FALSE
