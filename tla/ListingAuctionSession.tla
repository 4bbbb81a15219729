----------------------- MODULE ListingAuctionSession ------------------------
(***************************************************************************)
(* The domain aggregate of src/src/listing_auction_session.rs: lifecycle,   *)
(* bids, anti-sniping extension and outcome of one auction.  One action per *)
(* method, with every early return; `reply` is the Result of the last call. *)
(* The time a caller passes in is the server's clock, `now`.                *)
(***************************************************************************)
EXTENDS Integers

CONSTANTS Users,                 \* every user id that may reach the aggregate
          Seller,                \* seller_id
          StartingPrice,         \* starting_price
          MinimumIncrement,      \* minimum_increment
          ReservePrice,          \* reserve_price
          StartAt,               \* start_at
          FirstEndAt,            \* end_at when the session is created
          AntiSnipingWindow,     \* ANTI_SNIPING_WINDOW_SECS
          AntiSnipingExtension,  \* ANTI_SNIPING_EXTENSION_SECS
          Amounts,               \* the amounts callers offer
          Horizon,               \* bound: the clock stops here
          NoBid,                 \* current_highest = None
          Nobody                 \* the bidder of NoBid

ASSUME PriceAssumption ==
  /\ StartingPrice \in Nat \ {0}
  /\ MinimumIncrement \in Nat \ {0}
  /\ ReservePrice \in Nat
  /\ Amounts \subseteq Nat

ASSUME TimeAssumption ==
  /\ StartAt \in Nat
  /\ FirstEndAt \in Nat
  /\ Horizon \in Nat
  /\ AntiSnipingWindow \in Nat
  /\ AntiSnipingExtension \in Nat
  /\ AntiSnipingWindow <= AntiSnipingExtension

VARIABLES status, endAt, currentHighest, extensions, now, reply

vars == <<status, endAt, currentHighest, extensions, now, reply>>

Bid == [bidder : Users, amount : Nat, placedAt : Nat]

ASSUME NoBidAssumption == NoBid \notin Bid /\ Nobody \notin Users

Biddable == {"Active", "Extended"}
Ended == {"Closed", "Won", "Unsold", "Cancelled"}
Statuses == {"Draft"} \cup Biddable \cup Ended

(* Operators named Slip_... are not part of the model: each is the definition   *)
(* after it with one plausible mistake, used to test that a property notices.  *)

Init ==
  /\ status = "Draft"
  /\ endAt = FirstEndAt
  /\ currentHighest = NoBid
  /\ extensions = 0
  /\ now = 0
  /\ reply = "None"

-----------------------------------------------------------------------------
(* Questions the methods ask *)

Slip_NoIncrement ==
  IF currentHighest = NoBid THEN StartingPrice ELSE currentHighest.amount
MinimumRequiredBid ==
  IF currentHighest = NoBid THEN StartingPrice
                            ELSE currentHighest.amount + MinimumIncrement

Leads(b) == currentHighest # NoBid /\ currentHighest.bidder = b

Slip_NoLifecycleCheck ==
  IF now < StartAt THEN "AuctionNotStarted"
  ELSE IF now >= endAt THEN "AuctionEnded"
  ELSE "Ok"
\* ensure_accepting_bids, up to the status it sets (see Refuse)
AcceptingError ==
  IF status \notin Biddable THEN "AuctionNotActive"
  ELSE IF now < StartAt THEN "AuctionNotStarted"
  ELSE IF now >= endAt THEN "AuctionEnded"
  ELSE "Ok"

PlaceBidError(b, amount) ==
  IF AcceptingError # "Ok" THEN AcceptingError
  ELSE IF b = Seller \/ Leads(b) THEN "SelfBiddingNotAllowed"
  ELSE IF amount < MinimumRequiredBid THEN "BidTooLow"
  ELSE "Ok"

PlaceProxyBidError(b, max) ==
  IF AcceptingError # "Ok" THEN AcceptingError
  ELSE IF b = Seller THEN "SelfBiddingNotAllowed"
  ELSE IF Leads(b) /\ max < currentHighest.amount THEN "BidTooLow"
  ELSE IF ~Leads(b) /\ max < MinimumRequiredBid THEN "BidTooLow"
  ELSE "Ok"

ActivateError ==
  IF status = "Cancelled" THEN "Cancelled"
  ELSE IF now < StartAt THEN "TooEarly"
  ELSE IF status \in {"Closed", "Won", "Unsold"} \/ now >= endAt THEN "AlreadyEnded"
  ELSE "Ok"

\* UnixSeconds::seconds_until saturates at zero
SecondsUntil(t) == IF now <= t THEN t - now ELSE 0

InSnipingWindow == SecondsUntil(endAt) <= AntiSnipingWindow

-----------------------------------------------------------------------------
(* The methods *)

Activate ==
  /\ reply' = ActivateError
  /\ status' = IF status = "Draft" /\ ActivateError = "Ok" THEN "Active"
               ELSE IF status \in {"Draft"} \cup Biddable /\ ActivateError = "AlreadyEnded"
                 THEN "Closed" ELSE status
  /\ UNCHANGED <<endAt, currentHighest, extensions, now>>

Cancel ==
  /\ status' = "Cancelled"
  /\ reply' = "Ok"
  /\ UNCHANGED <<endAt, currentHighest, extensions, now>>

\* a refusal changes nothing, except that finding the end passed closes the session
Refuse(error) ==
  /\ error # "Ok"
  /\ reply' = error
  /\ status' = IF error = "AuctionEnded" THEN "Closed" ELSE status
  /\ UNCHANGED <<endAt, currentHighest, extensions, now>>

Slip_ExtendsOnce ==
  IF InSnipingWindow /\ status = "Active"
    THEN /\ endAt' = now + AntiSnipingExtension
         /\ extensions' = extensions + 1
         /\ status' = "Extended"
    ELSE UNCHANGED <<endAt, extensions, status>>
MaybeExtend ==
  IF InSnipingWindow
    THEN /\ endAt' = now + AntiSnipingExtension
         /\ extensions' = extensions + 1
         /\ status' = "Extended"
    ELSE UNCHANGED <<endAt, extensions, status>>

Accept(b, amount) ==
  /\ currentHighest' = [bidder |-> b, amount |-> amount, placedAt |-> now]
  /\ MaybeExtend
  /\ reply' = "Ok"
  /\ UNCHANGED now

PlaceBid(b, amount) ==
  \/ Refuse(PlaceBidError(b, amount))
  \/ PlaceBidError(b, amount) = "Ok" /\ Accept(b, amount)

PlaceProxyBid(b, max) ==
  \/ Refuse(PlaceProxyBidError(b, max))
  \/ /\ PlaceProxyBidError(b, max) = "Ok"
     /\ ~Leads(b)
     /\ PlaceBid(b, MinimumRequiredBid)
  \/ /\ PlaceProxyBidError(b, max) = "Ok"
     /\ Leads(b)
     /\ reply' = "Ok"
     /\ UNCHANGED <<status, endAt, currentHighest, extensions, now>>

Close ==
  /\ status' = "Closed"
  /\ reply' = "Ok"
  /\ UNCHANGED <<endAt, currentHighest, extensions, now>>

ReserveMet == currentHighest # NoBid /\ currentHighest.amount >= ReservePrice

DetermineOutcome ==
  /\ status' = IF ReserveMet THEN "Won" ELSE "Unsold"
  /\ reply' = "Ok"
  /\ UNCHANGED <<endAt, currentHighest, extensions, now>>

Slip_MissingArmIsDraft ==
  /\ extensions' = 0
  /\ reply' = "Ok"
  /\ status' = IF status = "Cancelled" THEN "Draft" ELSE status
  /\ UNCHANGED <<endAt, currentHighest, now>>
\* with_status: the service rebuilds the session from its row for every request
WithStatus ==
  /\ extensions' = 0
  /\ reply' = "Ok"
  /\ UNCHANGED <<status, endAt, currentHighest, now>>

\* the server's clock
Tick ==
  /\ now < Horizon
  /\ now' = now + 1
  /\ UNCHANGED <<status, endAt, currentHighest, extensions, reply>>

Next ==
  \/ Activate
  \/ Cancel
  \/ \E b \in Users, amount \in Amounts : PlaceBid(b, amount)
  \/ \E b \in Users, max \in Amounts : PlaceProxyBid(b, max)
  \/ Close
  \/ DetermineOutcome
  \/ WithStatus
  \/ Tick

Spec == Init /\ [][Next]_vars

-----------------------------------------------------------------------------
(* What the aggregate promises *)

\* Every variable keeps the type the struct declares for it.
TypeOK ==
  /\ status \in Statuses
  /\ endAt \in Nat
  /\ currentHighest \in Bid \cup {NoBid}
  /\ extensions \in Nat
  /\ now \in Nat

\* The standing bid was legal when it was placed: not the seller's, at least the
\* starting price, and placed after the start and before the (later) end.
HighestWithinRules ==
  currentHighest # NoBid =>
    /\ currentHighest.bidder # Seller
    /\ currentHighest.amount >= StartingPrice
    /\ StartAt <= currentHighest.placedAt
    /\ currentHighest.placedAt < endAt
    /\ currentHighest.placedAt <= now

\* Anti-sniping: however late the standing bid came, the end that is now in force
\* left everybody else the whole window to answer it.
AnswerWindowKept ==
  currentHighest # NoBid => endAt - currentHighest.placedAt >= AntiSnipingWindow

\* A session is Won only while its standing bid meets the reserve, and Unsold only
\* while it does not: no later call moves the bid away from the outcome.
OutcomeMatchesReserve ==
  /\ status = "Won" => ReserveMet
  /\ status = "Unsold" => ~ReserveMet

\* Whatever the order of calls, a session that has ended in any way never takes
\* bids again (activate, maybe_extend and the outcome cannot revive it).
NeverReopened == [][(status \in Ended) => (status' \in Ended)]_vars

Auction == INSTANCE EnglishAuction WITH
  Bidders <- Users \ {Seller},
  AnswerWindow <- AntiSnipingWindow,
  FirstDeadline <- FirstEndAt,
  phase <- IF status = "Draft" THEN "pending"
           ELSE IF status \in Biddable THEN "open" ELSE "over",
  leader <- IF currentHighest = NoBid THEN Nobody ELSE currentHighest.bidder,
  price <- IF currentHighest = NoBid THEN 0 ELSE currentHighest.amount,
  deadline <- endAt,
  clock <- now

\* The aggregate implements the ascending auction with a soft close: every call
\* is a step of EnglishAuction or changes nothing that it can see.
ImplementsAuction == Auction!Spec
=============================================================================
