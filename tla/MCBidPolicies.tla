--------------------------- MODULE MCBidPolicies ----------------------------
(* A small instance of BidPolicies and with it of ListingAuctionSession: two   *)
(* bidders and the seller, prices on and between the steps of the ladder, an    *)
(* auction of three ticks that can be extended; offers on both sides of zero    *)
(* and a modulus above them.                                                    *)
EXTENDS BidPolicies

CONSTANTS s, a, b

MCUsers == {s, a, b}
MCAmounts == 0..6
MCOffers == -3..8
=============================================================================
