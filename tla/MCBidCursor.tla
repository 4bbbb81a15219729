----------------------------- MODULE MCBidCursor -----------------------------
(* A small instance of BidCursor: four bids with two amounts and two times, so  *)
(* that amounts and times tie; limits below, within and above what is allowed.  *)
EXTENDS BidCursor

MCIds == 1..4
MCAmounts == {1, 2}
MCTimes == {0, 1}
MCLimits == {0, 2, 5}
=============================================================================
