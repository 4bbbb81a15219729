--------------------------- MODULE MCAuctionSystem ---------------------------
(* Small instances of AuctionSystem: two requests on one replica, one scheduler,  *)
(* an auction that ends at 1 with an anti-sniping window of 1, so that a bid can  *)
(* extend it and a closing can come at any step of the bid.                       *)
EXTENDS AuctionSystem

CONSTANTS a, b, w1

MCBidders == {a, b}
OneWorker == {w1}
OneReplica == [r \in {1, 2} |-> "p"]

Standard(x, n) == [bidder |-> x, kind |-> "standard", offer |-> n]
Proxy(x, n) == [bidder |-> x, kind |-> "proxy", offer |-> n]

\* a bid above the reserve of 6 and a proxy that counters it or raises its own bid
MCOffers == {Standard(b, 7), Proxy(a, 12)}
=============================================================================
