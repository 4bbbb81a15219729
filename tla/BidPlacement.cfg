SPECIFICATION Spec
CONSTANTS
  a = a
  b = b
  c = c
  Bidders <- MCBidders
  Nobody = Nobody
  StartingPrice = 2
  MinimumIncrement = 2
  FirstEndAt = 2
  CentsPerRupiah = 2
  HoldGrace = 1
  Horizon = 1
  Deployments <- OnOneReplica
  Offers <- MCOffers
  Deleters = {b}
  AntiSnipingWindow = 2
  AntiSnipingExtension = 3
  MaxFaults = 1
  Free = Free
INVARIANTS RowsAgree LosersTold FundedUnlessOutbidFailed StrandedHoldsNeedFaults ListingNeverAhead AutoBidWithinMax
PROPERTY PriceLadder
CHECK_DEADLOCK FALSE
