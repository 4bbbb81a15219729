--------------------------- MODULE EnglishAuction ---------------------------
(***************************************************************************)
(* What the aggregate of an auction promises, stated without its statuses,  *)
(* errors or methods: an ascending auction with a soft close.  Once open,   *)
(* bidders overtake each other, each by at least the increment; an accepted *)
(* bid never brings the deadline closer and always leaves the others the    *)
(* whole answering window; when the auction is over nothing moves any more. *)
(*                                                                          *)
(* ListingAuctionSession is shown to implement this module.                 *)
(***************************************************************************)
EXTENDS Integers

CONSTANTS Bidders,          \* who may lead the auction (never the seller)
          Nobody,           \* the leader of an auction without a bid
          StartingPrice,    \* the smallest first bid
          MinimumIncrement, \* by how much a bid must beat the leading one
          AnswerWindow,     \* the time an accepted bid leaves to answer it
          FirstDeadline     \* the deadline the auction is created with

VARIABLES phase,     \* "pending", "open" or "over"
          leader,    \* a bidder or Nobody
          price,     \* what the leader offers; 0 when there is none
          deadline,  \* no bid is accepted from this time on
          clock      \* the time

vars == <<phase, leader, price, deadline, clock>>

Init ==
  /\ phase = "pending"
  /\ leader = Nobody
  /\ price = 0
  /\ deadline = FirstDeadline
  /\ clock \in Nat

MinimumBid == IF leader = Nobody THEN StartingPrice ELSE price + MinimumIncrement

Open ==
  /\ phase = "pending"
  /\ phase' = "open"
  /\ UNCHANGED <<leader, price, deadline, clock>>

Overtake ==
  /\ phase = "open"
  /\ clock < deadline
  /\ leader' \in Bidders \ {leader}
  /\ price' \in Int
  /\ price' >= MinimumBid
  /\ deadline' \in Int
  /\ deadline' >= deadline
  /\ deadline' - clock >= AnswerWindow
  /\ UNCHANGED <<phase, clock>>

End ==
  /\ phase' = "over"
  /\ UNCHANGED <<leader, price, deadline, clock>>

Elapse ==
  /\ clock' \in Nat
  /\ clock' > clock
  /\ UNCHANGED <<phase, leader, price, deadline>>

Next == Open \/ Overtake \/ End \/ Elapse

Spec == Init /\ [][Next]_vars
=============================================================================
