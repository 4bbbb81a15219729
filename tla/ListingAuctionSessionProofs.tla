-------------------- MODULE ListingAuctionSessionProofs ---------------------
(* Proofs about ListingAuctionSession, for every set of users, every prices   *)
(* and every times the assumptions of that module allow; and, over its types, *)
(* about BidPolicies: the validation chain and the aggregate agree on every   *)
(* auction and every offer.                                                   *)
EXTENDS BidPolicies, TLAPS

\* The invariants of the aggregate are inductive together.
SessionInv ==
  /\ TypeOK
  /\ HighestWithinRules
  /\ AnswerWindowKept
  /\ OutcomeMatchesReserve

\* A refused call keeps the invariant: it can only close the session.
LEMMA RefuseKeepsInv ==
  ASSUME SessionInv, NEW error, Refuse(error)
  PROVE  SessionInv'
  BY DEF SessionInv, TypeOK, HighestWithinRules, AnswerWindowKept, OutcomeMatchesReserve,
         ReserveMet, Refuse, Statuses, Biddable, Ended

\* An accepted bid is a bid, and the invariant holds of it: this is where the
\* extension must be at least as long as the sniping window.
LEMMA AcceptKeepsInv ==
  ASSUME SessionInv, NEW b \in Users, NEW amount \in Nat,
         PlaceBidError(b, amount) = "Ok", Accept(b, amount)
  PROVE  /\ SessionInv'
         /\ endAt' \in Nat
         /\ endAt' >= endAt
         /\ endAt' - now >= AntiSnipingWindow
         /\ status \in Biddable /\ status' \in Biddable
  <1> DEFINE bid == [bidder |-> b, amount |-> amount, placedAt |-> now]
  <1>1. /\ status \in Biddable
        /\ StartAt <= now
        /\ now < endAt
        /\ b # Seller
        /\ amount >= MinimumRequiredBid
        /\ now \in Nat /\ endAt \in Nat
    BY TimeAssumption, PriceAssumption
       DEF PlaceBidError, AcceptingError, SessionInv, TypeOK, MinimumRequiredBid, Bid
  <1>2. amount >= StartingPrice
    BY <1>1, PriceAssumption, SMT
       DEF MinimumRequiredBid, SessionInv, TypeOK, HighestWithinRules, Bid
  <1>3. bid \in Bid /\ bid # NoBid
    BY <1>1, NoBidAssumption DEF Bid
  <1>4. /\ endAt' \in Nat
        /\ endAt' >= endAt
        /\ endAt' - now >= AntiSnipingWindow
        /\ now < endAt'
        /\ status' \in Biddable
        /\ extensions' \in Nat
    <2>1. CASE InSnipingWindow
      <3>1. endAt - now <= AntiSnipingWindow
        BY <2>1, <1>1 DEF InSnipingWindow, SecondsUntil
      <3>2. endAt' = now + AntiSnipingExtension /\ status' = "Extended"
            /\ extensions' = extensions + 1
        BY <2>1 DEF Accept, MaybeExtend
      <3>. QED BY <3>1, <3>2, <1>1, TimeAssumption DEF SessionInv, TypeOK, Biddable
    <2>2. CASE ~InSnipingWindow
      <3>1. endAt - now > AntiSnipingWindow
        BY <2>2, <1>1, TimeAssumption DEF InSnipingWindow, SecondsUntil
      <3>. QED BY <2>2, <3>1, <1>1, TimeAssumption
               DEF Accept, MaybeExtend, SessionInv, TypeOK
    <2>. QED BY <2>1, <2>2
  <1>5. currentHighest' = bid /\ now' = now
    BY DEF Accept
  <1>6. TypeOK'
    BY <1>1, <1>3, <1>4, <1>5 DEF TypeOK, Statuses
  <1>7. HighestWithinRules' /\ AnswerWindowKept'
    <2>1. /\ currentHighest'.bidder = b
          /\ currentHighest'.amount = amount
          /\ currentHighest'.placedAt = now
      BY <1>5
    <2>2. StartingPrice \in Nat /\ StartAt \in Nat
      BY PriceAssumption, TimeAssumption
    <2>. QED BY <1>1, <1>2, <1>4, <1>5, <2>1, <2>2 DEF HighestWithinRules, AnswerWindowKept
  <1>8. OutcomeMatchesReserve'
    BY <1>4 DEF OutcomeMatchesReserve, Biddable
  <1>. QED BY <1>1, <1>4, <1>6, <1>7, <1>8 DEF SessionInv

\* What a bid placed at the minimum by a proxy offers is a natural number.
LEMMA MinimumIsNat ==
  ASSUME TypeOK PROVE MinimumRequiredBid \in Nat
  BY PriceAssumption DEF TypeOK, MinimumRequiredBid, Bid

LEMMA PlaceBidKeepsInv ==
  ASSUME SessionInv, NEW b \in Users, NEW amount \in Nat, PlaceBid(b, amount)
  PROVE  SessionInv'
  BY RefuseKeepsInv, AcceptKeepsInv DEF PlaceBid

LEMMA SessionInvInit == Init => SessionInv
  BY PriceAssumption, TimeAssumption
     DEF Init, SessionInv, TypeOK, HighestWithinRules, AnswerWindowKept,
         OutcomeMatchesReserve, ReserveMet, Statuses

LEMMA SessionInvStep ==
  ASSUME SessionInv, [Next]_vars
  PROVE  SessionInv'
  <1>1. CASE Activate
    BY <1>1 DEF Activate, ActivateError, SessionInv, TypeOK, HighestWithinRules,
                AnswerWindowKept, OutcomeMatchesReserve, ReserveMet, Statuses, Biddable, Ended
  <1>2. CASE Cancel
    BY <1>2 DEF Cancel, SessionInv, TypeOK, HighestWithinRules, AnswerWindowKept,
                OutcomeMatchesReserve, Statuses, Ended
  <1>3. CASE \E b \in Users, amount \in Amounts : PlaceBid(b, amount)
    BY <1>3, PlaceBidKeepsInv, PriceAssumption
  <1>4. ASSUME NEW b \in Users, NEW max \in Amounts, PlaceProxyBid(b, max)
        PROVE  SessionInv'
    <2>1. CASE Refuse(PlaceProxyBidError(b, max))
      BY <2>1, RefuseKeepsInv
    <2>2. CASE PlaceBid(b, MinimumRequiredBid)
      BY <2>2, PlaceBidKeepsInv, MinimumIsNat DEF SessionInv
    <2>3. CASE UNCHANGED <<status, endAt, currentHighest, extensions, now>>
      BY <2>3 DEF SessionInv, TypeOK, HighestWithinRules, AnswerWindowKept,
                  OutcomeMatchesReserve, ReserveMet
    <2>. QED BY <1>4, <2>1, <2>2, <2>3 DEF PlaceProxyBid
  <1>5. CASE Close
    BY <1>5 DEF Close, SessionInv, TypeOK, HighestWithinRules, AnswerWindowKept,
                OutcomeMatchesReserve, Statuses, Ended
  <1>6. CASE DetermineOutcome
    BY <1>6 DEF DetermineOutcome, SessionInv, TypeOK, HighestWithinRules, AnswerWindowKept,
                OutcomeMatchesReserve, ReserveMet, Statuses, Ended
  <1>7. CASE WithStatus
    BY <1>7 DEF WithStatus, SessionInv, TypeOK, HighestWithinRules, AnswerWindowKept,
                OutcomeMatchesReserve, ReserveMet
  <1>8. CASE Tick
    BY <1>8 DEF Tick, SessionInv, TypeOK, HighestWithinRules, AnswerWindowKept,
                OutcomeMatchesReserve, ReserveMet, Bid
  <1>9. CASE UNCHANGED vars
    BY <1>9 DEF vars, SessionInv, TypeOK, HighestWithinRules, AnswerWindowKept,
                OutcomeMatchesReserve, ReserveMet
  <1>. QED
    BY <1>1, <1>2, <1>3, <1>4, <1>5, <1>6, <1>7, <1>8, <1>9 DEF Next

\* The type of every variable and the three safety invariants of the aggregate hold
\* in every state, whatever the users, prices and times.
THEOREM SessionIsSafe ==
  Spec => [](TypeOK /\ HighestWithinRules /\ AnswerWindowKept /\ OutcomeMatchesReserve)
  <1>1. SessionInv => TypeOK /\ HighestWithinRules /\ AnswerWindowKept /\ OutcomeMatchesReserve
    BY DEF SessionInv
  <1>. QED BY <1>1, SessionInvInit, SessionInvStep, PTL DEF Spec

\* An auction that is decided is Won exactly when its best bid meets the reserve, whatever
\* the order of the calls that decide it (determine_outcome).
THEOREM OutcomeFollowsReserve == Spec => []OutcomeMatchesReserve
  BY SessionIsSafe, PTL

-----------------------------------------------------------------------------
(* The lifecycle *)

\* No method takes a session that has ended back to a state that takes bids.
LEMMA EndedStep ==
  ASSUME SessionInv, [Next]_vars, status \in Ended
  PROVE  status' \in Ended
  <1>1. AcceptingError = "AuctionNotActive"
    BY DEF AcceptingError, Ended, Biddable
  <1>2. ASSUME NEW error, Refuse(error) PROVE status' \in Ended
    BY <1>2 DEF Refuse, Ended
  <1>3. ASSUME NEW b \in Users, NEW amount, PlaceBid(b, amount) PROVE status' \in Ended
    BY <1>1, <1>2, <1>3 DEF PlaceBid, PlaceBidError
  <1>4. ASSUME NEW b \in Users, NEW max, PlaceProxyBid(b, max) PROVE status' \in Ended
    BY <1>1, <1>2, <1>4 DEF PlaceProxyBid, PlaceProxyBidError
  <1>5. CASE Activate
    BY <1>5 DEF Activate, ActivateError, Ended, Biddable
  <1>6. CASE Cancel \/ Close \/ DetermineOutcome
    BY <1>6 DEF Cancel, Close, DetermineOutcome, Ended
  <1>7. CASE WithStatus \/ Tick \/ UNCHANGED vars
    BY <1>7 DEF WithStatus, Tick, vars
  <1>. QED BY <1>3, <1>4, <1>5, <1>6, <1>7 DEF Next

\* A session that has ended never takes bids again, whatever is called on it.
THEOREM EndedStaysEnded == Spec => NeverReopened
  <1>1. ASSUME SessionInv, [Next]_vars
        PROVE  [(status \in Ended) => (status' \in Ended)]_vars
    BY <1>1, EndedStep
  <1>. QED BY <1>1, SessionInvInit, SessionInvStep, PTL DEF Spec, NeverReopened

-----------------------------------------------------------------------------
(* Refinement *)

LEMMA RefinementInit == Init => Auction!Init
  BY DEF Init, Auction!Init

\* An accepted bid is an Overtake of the abstract auction.
LEMMA AcceptOvertakes ==
  ASSUME SessionInv, NEW b \in Users, NEW amount \in Nat,
         PlaceBidError(b, amount) = "Ok", Accept(b, amount)
  PROVE  Auction!Overtake
  <1>1. /\ endAt' \in Nat
        /\ endAt' >= endAt
        /\ endAt' - now >= AntiSnipingWindow
        /\ status \in Biddable /\ status' \in Biddable
    BY AcceptKeepsInv
  <1>2. /\ now < endAt /\ b # Seller /\ ~Leads(b) /\ amount >= MinimumRequiredBid
    BY PriceAssumption, TimeAssumption
       DEF PlaceBidError, AcceptingError, MinimumRequiredBid, SessionInv, TypeOK, Bid
  <1>3. /\ currentHighest' = [bidder |-> b, amount |-> amount, placedAt |-> now]
        /\ now' = now
    BY DEF Accept
  <1>4. currentHighest' # NoBid
    BY <1>3, NoBidAssumption DEF SessionInv, TypeOK, Bid
  <1>5. /\ currentHighest'.bidder = b
        /\ currentHighest'.amount = amount
    BY <1>3
  <1>6. Auction!MinimumBid = MinimumRequiredBid
    <2>1. currentHighest # NoBid => currentHighest.bidder # Nobody
      BY NoBidAssumption DEF SessionInv, TypeOK, Bid
    <2>. QED BY <2>1 DEF Auction!MinimumBid, MinimumRequiredBid
  <1>7. b # IF currentHighest = NoBid THEN Nobody ELSE currentHighest.bidder
    BY <1>2, NoBidAssumption DEF Leads
  <1>8. amount >= Auction!MinimumBid
    BY <1>2, <1>6
  <1>. QED
    BY <1>1, <1>2, <1>3, <1>4, <1>5, <1>7, <1>8 DEF Auction!Overtake, Biddable

LEMMA PlaceBidRefines ==
  ASSUME SessionInv, NEW b \in Users, NEW amount \in Nat, PlaceBid(b, amount)
  PROVE  [Auction!Next]_(Auction!vars)
  <1>1. CASE Refuse(PlaceBidError(b, amount))
    BY <1>1 DEF Refuse, Auction!Next, Auction!End, Auction!vars, Biddable
  <1>2. CASE PlaceBidError(b, amount) = "Ok" /\ Accept(b, amount)
    BY <1>2, AcceptOvertakes DEF Auction!Next
  <1>. QED BY <1>1, <1>2 DEF PlaceBid

\* Every call is a step of EnglishAuction, or changes nothing it can see.
LEMMA RefinementStep ==
  ASSUME SessionInv, [Next]_vars
  PROVE  [Auction!Next]_(Auction!vars)
  <1>1. CASE Activate
    <2>1. /\ \/ status = "Draft" /\ status' = "Active"
             \/ status' = "Closed"
             \/ status' = status
          /\ UNCHANGED <<endAt, currentHighest, now>>
      BY <1>1 DEF Activate
    <2>2. CASE status = "Draft" /\ status' = "Active"
      BY <2>1, <2>2 DEF Biddable, Auction!Next, Auction!Open
    <2>3. CASE status' = "Closed"
      BY <2>1, <2>3 DEF Biddable, Auction!Next, Auction!End
    <2>4. CASE status' = status
      BY <2>1, <2>4 DEF Auction!vars
    <2>. QED BY <2>1, <2>2, <2>3, <2>4
  <1>2. CASE Cancel \/ Close \/ DetermineOutcome
    BY <1>2 DEF Cancel, Close, DetermineOutcome, Biddable,
                Auction!Next, Auction!End
  <1>3. CASE \E b \in Users, amount \in Amounts : PlaceBid(b, amount)
    BY <1>3, PlaceBidRefines, PriceAssumption
  <1>4. ASSUME NEW b \in Users, NEW max \in Amounts, PlaceProxyBid(b, max)
        PROVE  [Auction!Next]_(Auction!vars)
    <2>1. CASE Refuse(PlaceProxyBidError(b, max))
      BY <2>1 DEF Refuse, Auction!Next, Auction!End, Auction!vars, Biddable
    <2>2. CASE PlaceBid(b, MinimumRequiredBid)
      BY <2>2, PlaceBidRefines, MinimumIsNat DEF SessionInv
    <2>3. CASE UNCHANGED <<status, endAt, currentHighest, extensions, now>>
      BY <2>3 DEF Auction!vars
    <2>. QED BY <1>4, <2>1, <2>2, <2>3 DEF PlaceProxyBid
  <1>5. CASE WithStatus
    BY <1>5 DEF WithStatus, Auction!vars
  <1>6. CASE Tick
    BY <1>6 DEF Tick, Auction!Next, Auction!Elapse, SessionInv, TypeOK
  <1>7. CASE UNCHANGED vars
    BY <1>7 DEF vars, Auction!vars
  <1>. QED BY <1>1, <1>2, <1>3, <1>4, <1>5, <1>6, <1>7 DEF Next

\* The aggregate implements the ascending auction with a soft close.
THEOREM SessionImplementsAuction == Spec => ImplementsAuction
  <1>. QED
    BY RefinementInit, RefinementStep, SessionInvInit, SessionInvStep, PTL
       DEF Spec, ImplementsAuction, Auction!Spec

-----------------------------------------------------------------------------
(* The policies and the chain *)

\* In every well-typed state the chain answers what the aggregate would.
LEMMA ChainAgrees ==
  ASSUME TypeOK, NEW b \in Users, NEW amount \in Nat
  PROVE  Chain(b, amount) = PlaceBidError(b, amount)
  <1>1. AmountPolicy(amount) = "Ok" => amount > 0
    BY PriceAssumption DEF AmountPolicy, TypeOK, Bid
  <1>2. TimePolicy = AcceptingError
    BY DEF TimePolicy, AcceptingError, Biddable
  <1>3. AmountPolicy(amount) = IF amount < MinimumRequiredBid THEN "BidTooLow" ELSE "Ok"
    BY DEF AmountPolicy, MinimumRequiredBid
  <1>4. AmountPolicy(amount) = "Ok" => WalletPolicy(amount) = "Ok"
    BY <1>1 DEF WalletPolicy
  <1>. QED
    BY <1>2, <1>3, <1>4 DEF Chain, Then, IdentityPolicy, PlaceBidError

\* What passes the chain is a positive amount that the cast leaves alone.
LEMMA CastIsHarmless ==
  ASSUME TypeOK, NEW b \in Users, NEW amount \in Offers, Chain(b, amount) = "Ok"
  PROVE  amount \in Nat /\ WalletPolicy(amount) = "Ok" /\ AsU64(amount) = amount
  <1>1. AmountPolicy(amount) = "Ok" /\ WalletPolicy(amount) = "Ok"
    BY DEF Chain, Then, AmountPolicy, IdentityPolicy, TimePolicy
  <1>2. amount \in Int /\ amount < U64Modulus /\ U64Modulus \in Nat
    BY OfferAssumption
  <1>3. amount > 0
    BY <1>1, <1>2 DEF WalletPolicy
  <1>. QED BY <1>1, <1>2, <1>3 DEF AsU64

\* The chain and the aggregate stop on the same first error, in every reachable
\* state and for every non-negative offer.
THEOREM ChainMatchesAggregate == Spec => []SameFirstError
  <1>1. TypeOK => SameFirstError
    BY ChainAgrees, OfferAssumption DEF SameFirstError
  <1>. QED BY <1>1, SessionIsSafe, PTL

\* Behind the chain neither the aggregate nor the last wallet check refuses.
THEOREM ChainDecidesAlways == Spec => []ChainDecides
  <1>1. TypeOK => ChainDecides
    BY ChainAgrees, CastIsHarmless DEF ChainDecides, StandardResult, Then
  <1>. QED BY <1>1, SessionIsSafe, PTL

\* The service's path for proxy bids answers as the aggregate would, in every reachable
\* state and for every positive maximum.
THEOREM ProxyMatchesAggregate == Spec => []ProxySameAsAggregate
  <1>1. ASSUME TypeOK, NEW b \in Users, NEW max \in Offers, max > 0
        PROVE  ProxyResult(b, max) = PlaceProxyBidError(b, max)
    <2>1. TimePolicy = AcceptingError
      BY DEF TimePolicy, AcceptingError, Biddable
    <2>2. WalletPolicy(max) = "Ok" /\ AsU64(max) = max
      BY <1>1, OfferAssumption DEF WalletPolicy, AsU64
    <2>3. WalletPolicy(MinimumRequiredBid) = "Ok"
      BY <1>1, PriceAssumption DEF WalletPolicy, MinimumRequiredBid, TypeOK, Bid
    <2>4. CASE Leads(b)
      BY <2>1, <2>2, <2>4 DEF ProxyResult, Then, OwnProxyResult, PlaceProxyBidError
    <2>5. CASE ~Leads(b)
      BY <2>1, <2>2, <2>3, <2>5
      DEF ProxyResult, Then, NewProxyResult, IdentityPolicy, PlaceProxyBidError
    <2> QED
      BY <2>4, <2>5
  <1>2. TypeOK => ProxySameAsAggregate
    BY <1>1 DEF ProxySameAsAggregate
  <1> QED
    BY <1>2, SessionIsSafe, PTL
=============================================================================
