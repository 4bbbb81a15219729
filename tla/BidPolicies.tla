---------------------------- MODULE BidPolicies -----------------------------
(***************************************************************************)
(* The validation a bid goes through in the service before and after the    *)
(* aggregate sees it: the policies of src/src/service/bid_policies.rs, the  *)
(* chain of bid_validation_chain.rs and the order in which                  *)
(* AuctionService::place_bid_internal applies them.  The policies read the  *)
(* row of the auction and the winning bid, from which the aggregate is      *)
(* rebuilt: the state is the one of ListingAuctionSession.                  *)
(*                                                                          *)
(* Requests carry signed cents; the aggregate counts unsigned ones.         *)
(***************************************************************************)
EXTENDS ListingAuctionSession

CONSTANTS Offers,      \* the signed amounts requests carry
          U64Modulus   \* 2^64

ASSUME OfferAssumption ==
  /\ Offers \subseteq Int
  /\ U64Modulus \in Nat
  /\ \A x \in Offers : -U64Modulus < x /\ x < U64Modulus

\* `x as u64`: reinterprets a negative number instead of refusing it
AsU64(x) == x % U64Modulus

\* validate(..)?; the next check runs only if this one is satisfied
Then(result, next) == IF result = "Ok" THEN next ELSE result

-----------------------------------------------------------------------------
(* The policies *)

TimePolicy ==
  IF status \notin {"Active", "Extended"} THEN "AuctionNotActive"
  ELSE IF now < StartAt THEN "AuctionNotStarted"
  ELSE IF now >= endAt THEN "AuctionEnded"
  ELSE "Ok"

IdentityPolicy(b) ==
  IF b = Seller \/ Leads(b) THEN "SelfBiddingNotAllowed" ELSE "Ok"

Slip_ComparesWithCurrent(amount) ==
  IF amount < (IF currentHighest = NoBid THEN StartingPrice ELSE currentHighest.amount)
    THEN "BidTooLow" ELSE "Ok"
AmountPolicy(amount) ==
  IF amount < (IF currentHighest = NoBid THEN StartingPrice
                                         ELSE currentHighest.amount + MinimumIncrement)
    THEN "BidTooLow" ELSE "Ok"

WalletPolicy(amount) == IF amount <= 0 THEN "BidTooLow" ELSE "Ok"

\* BidValidationChain::standard_bid
Slip_AmountBeforeIdentity(b, amount) ==
  Then(TimePolicy, Then(AmountPolicy(amount),
    Then(IdentityPolicy(b), WalletPolicy(amount))))
Chain(b, amount) ==
  Then(TimePolicy, Then(IdentityPolicy(b),
    Then(AmountPolicy(amount), WalletPolicy(amount))))

-----------------------------------------------------------------------------
(* What place_bid_internal answers before it touches a wallet *)

StandardResult(b, amount) ==
  Then(Chain(b, amount),
    Then(PlaceBidError(b, AsU64(amount)), WalletPolicy(amount)))

\* the standing bidder changes his maximum: the aggregate is not asked
Slip_MaxMustGrow(b, max) ==
  IF b = Seller THEN "SelfBiddingNotAllowed"
  ELSE IF max <= currentHighest.amount THEN "BidTooLow"
  ELSE WalletPolicy(max)
OwnProxyResult(b, max) ==
  IF b = Seller THEN "SelfBiddingNotAllowed"
  ELSE IF max < currentHighest.amount THEN "BidTooLow"
  ELSE WalletPolicy(max)

NewProxyResult(b, max) ==
  Then(IdentityPolicy(b),
    Then(PlaceProxyBidError(b, AsU64(max)), WalletPolicy(MinimumRequiredBid)))

ProxyResult(b, max) ==
  Then(TimePolicy, IF Leads(b) THEN OwnProxyResult(b, max) ELSE NewProxyResult(b, max))

-----------------------------------------------------------------------------
(* Properties *)

\* "Validation chains stop on the same first error as legacy logic"
\* (docs/2. Software Quality.md:15): on every reachable auction and every
\* non-negative offer the chain answers exactly what the aggregate would.
SameFirstError ==
  \A b \in Users, amount \in Offers :
    amount >= 0 => Chain(b, amount) = PlaceBidError(b, amount)

\* Behind the chain nothing is left to refuse, whatever the sign of the offer:
\* the aggregate and the last wallet check accept every bid the chain accepts,
\* with the amount the request carried.
ChainDecides ==
  \A b \in Users, amount \in Offers :
    Chain(b, amount) = "Ok" =>
      StandardResult(b, amount) = "Ok" /\ AsU64(amount) = amount

\* The service's own path for proxy bids, which leaves the aggregate out for the
\* standing bidder, answers as place_proxy_bid would for every positive maximum.
ProxySameAsAggregate ==
  \A b \in Users, max \in Offers :
    max > 0 => ProxyResult(b, max) = PlaceProxyBidError(b, max)

=============================================================================
