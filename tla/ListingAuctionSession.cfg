SPECIFICATION Spec
CONSTANTS
  s = s
  a = a
  b = b
  Users <- MCUsers
  Seller = s
  StartingPrice = 1
  MinimumIncrement = 2
  ReservePrice = 3
  StartAt = 1
  FirstEndAt = 4
  AntiSnipingWindow = 2
  AntiSnipingExtension = 2
  Amounts <- MCAmounts
  Offers <- MCOffers
  U64Modulus = 32
  Horizon = 7
  NoBid = NoBid
  Nobody = Nobody
INVARIANTS AnswerWindowKept OutcomeMatchesReserve SameFirstError ChainDecides ProxySameAsAggregate
PROPERTIES NeverReopened ImplementsAuction
