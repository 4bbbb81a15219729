-------------------------- MODULE MCAuctionClosure --------------------------
(* Small instances of AuctionClosure.  The starts are what bidding on an         *)
(* auction with reserve price 6 leaves behind (BidPlacement reaches each of      *)
(* them with suitable amounts): bids 1 and 3 of bidders a and b.                 *)
EXTENDS AuctionClosure

CONSTANTS a, b, w1, w2, m

MCBidders == {a, b}
OneWorker == {w1}
TwoWorkers == {w1, w2}
OneCloser == {m}

Row(highest, end, status) == [highest |-> highest, end |-> end, status |-> status]
Bid(id, x, amount) == [id |-> id, bidder |-> x, amount |-> amount, time |-> 0, hold |-> id]
HoldOf(x, amount, state) ==
  [bidder |-> x, amount |-> Rupiah(amount), expires |-> 1 + HoldGrace, state |-> state]
Due(t) == [status |-> "PENDING", due |-> t, lockedUntil |-> 0]
NoJob == [status |-> "ABSENT", due |-> 0, lockedUntil |-> 0]

Start(row, rows, held, j) == [listing |-> row, bids |-> rows, holds |-> held, job |-> j]

TwoBids(low, high) == {Bid(1, a, low), Bid(3, b, high)}
TwoHolds(low, first, high) ==
  [i \in {1, 3} |-> IF i = 1 THEN HoldOf(a, low, first) ELSE HoldOf(b, high, "active")]

\* above the reserve, the usual way
Sold == Start(Row(6, 1, "EXTENDED"), TwoBids(2, 6), TwoHolds(2, "released", 6), Due(1))
\* the same, with a loser's hold whose release failed
SoldHoldLeft == Start(Row(6, 1, "EXTENDED"), TwoBids(2, 6), TwoHolds(2, "active", 6), Due(1))
\* below the reserve, with a hold that was not released when it should have been
BelowReserve == Start(Row(5, 1, "ACTIVE"), TwoBids(2, 5), TwoHolds(2, "active", 5), Due(1))
\* the bid that extended the auction has not put the job back yet
JobTooEarly == Start(Row(6, 2, "EXTENDED"), TwoBids(4, 6), TwoHolds(4, "released", 6), Due(1))
\* creation stopped before the job was written; the auction never became active
NeverOpened == Start(Row(0, 1, "DRAFT"), {}, <<>>, NoJob)
\* the leading bid lost its hold to a failed attempt to outbid it
LeaderWithoutHold ==
  Start(Row(6, 1, "ACTIVE"), {Bid(1, a, 6)}, [i \in {1} |-> HoldOf(a, 6, "released")], Due(1))

HealthyStarts == {Sold, BelowReserve, JobTooEarly, NeverOpened}
AllStarts == HealthyStarts \cup {SoldHoldLeft, LeaderWithoutHold}
=============================================================================
