--------------------------- MODULE MCBidPlacement ---------------------------
(* Small instances of BidPlacement: three bidders, three requests, amounts     *)
(* around the starting price of 2 with an increment of 2 (so that a price can  *)
(* fall between two steps of the ladder), an auction that ends at 2 or 3.      *)
EXTENDS BidPlacement

CONSTANTS a, b, c

MCBidders == {a, b, c}

Three == [r \in {1, 2, 3} |-> "p"]
OneEach == [r \in {1, 2} |-> IF r = 1 THEN "p" ELSE "q"]

OnOneReplica == {Three}
OnTwoReplicas == {OneEach}

Standard(x, n) == [bidder |-> x, kind |-> "standard", offer |-> n]
Proxy(x, n) == [bidder |-> x, kind |-> "proxy", offer |-> n]

\* a bid between two steps of the ladder and two proxies that contend
MCOffers == {Standard(c, 5), Proxy(a, 8), Proxy(b, 7)}

ProxyOffers == {Proxy(a, 8), Proxy(b, 7)}

=============================================================================
