------------------------------ MODULE BidCursor ------------------------------
(***************************************************************************)
(* Reading the bids of one auction page by page                             *)
(* (list_bids_with_cursor_core in src/src/service/auction_queries.rs) while *)
(* bidding goes on: rows are inserted, an automatic bid is raised in place  *)
(* or withdrawn between two pages.  A page is a set of rows: within it the  *)
(* order is that of the statement.                                          *)
(***************************************************************************)
EXTENDS Integers, FiniteSets, Sequences

CONSTANTS Ids,       \* ids of bids: numbers, since only their order is read
          Amounts,   \* bid_amount_cents
          Limits,    \* what a client may ask for as limit
          Times,     \* bid_time, in seconds
          MaxLimit   \* 100

ASSUME CursorAssumption ==
  /\ Ids \subseteq Nat
  /\ Amounts \subseteq Nat \ {0}
  /\ Limits \subseteq Int
  /\ Times \subseteq Nat
  /\ MaxLimit \in Nat \ {0}

VARIABLES bids,    \* the rows of bids
          used,    \* ids given out: an id is not used again
          cursor,  \* nextCursor of the last answer; <<>> stands for none
          pages,   \* the answers the reader got, in order
          reading, \* "no", "yes" or "done"
          kept     \* rows there at the first page and not touched since

vars == <<bids, used, cursor, pages, reading, kept>>
readerVars == <<cursor, pages, reading>>

Bid == [id : Ids, amount : Amounts, time : Times]

Init ==
  /\ bids = {}
  /\ used = {}
  /\ cursor = <<>>
  /\ pages = <<>>
  /\ reading = "no"
  /\ kept = {}

-----------------------------------------------------------------------------
(* The statement and the cursor *)

\* ORDER BY bid_amount_cents DESC, bid_time ASC, id ASC
Precedes(x, y) ==
  \/ x.amount > y.amount
  \/ x.amount = y.amount /\ x.time < y.time
  \/ x.amount = y.amount /\ x.time = y.time /\ x.id < y.id

\* LIMIT: the rows with fewer than n before them
First(n, rows) == {x \in rows : Cardinality({y \in rows : Precedes(y, x)}) < n}

LastOf(rows) == CHOOSE x \in rows : \A y \in rows \ {x} : Precedes(y, x)

\* the text amount:time:id and its three parts
CursorText(bid) == <<bid.amount, bid.time, bid.id>>
ParseCursor(text) == [amount |-> text[1], time |-> text[2], id |-> text[3]]

Slip_NoTieBreak(row, c) ==
  \/ row.amount < c.amount
  \/ row.amount = c.amount /\ row.time > c.time
Slip_NewestFirst(row, c) ==
  \/ row.amount < c.amount
  \/ row.amount = c.amount /\ row.time < c.time
  \/ row.amount = c.amount /\ row.time = c.time /\ row.id > c.id
\* the WHERE of a page that is not the first
After(row, c) ==
  \/ row.amount < c.amount
  \/ row.amount = c.amount /\ row.time > c.time
  \/ row.amount = c.amount /\ row.time = c.time /\ row.id > c.id

\* limit.clamp(1, 100)
Sanitized(limit) == IF limit < 1 THEN 1 ELSE IF limit > MaxLimit THEN MaxLimit ELSE limit

Candidates ==
  IF cursor = <<>> THEN bids ELSE {row \in bids : After(row, ParseCursor(cursor))}

-----------------------------------------------------------------------------
(* The reader *)

\* one row more than asked for tells whether another page follows; the client
\* sends back what it got, and may ask for another size each time
ListBids(limit) ==
  LET size == Sanitized(limit)
      fetched == First(size + 1, Candidates)
      more == Cardinality(fetched) > size
      items == IF more THEN First(size, fetched) ELSE fetched
  IN  /\ reading # "done"
      /\ pages' = Append(pages, items)
      /\ cursor' = IF more THEN CursorText(LastOf(items)) ELSE <<>>
      /\ reading' = IF more THEN "yes" ELSE "done"
      /\ kept' = IF reading = "no" THEN bids ELSE kept
      /\ UNCHANGED <<bids, used>>

-----------------------------------------------------------------------------
(* The bidding, reduced to what it does to the table.  A row bears the time at which *)
(* its request arrived, fixed before the request waited for anybody (one second more *)
(* for an automatic bid): rows are not stored in the order of their times, and a     *)
(* time may be as early as one likes when its row is stored.                         *)

InsertBid(i, amount, time) ==
  /\ i \notin used
  /\ bids' = bids \cup {[id |-> i, amount |-> amount, time |-> time]}
  /\ used' = used \cup {i}
  /\ UNCHANGED kept /\ UNCHANGED readerVars

\* an automatic bid over the bidder's own keeps the row and its id
RaiseBid(row, amount, time) ==
  /\ row.amount < amount
  /\ bids' = (bids \ {row}) \cup {[id |-> row.id, amount |-> amount, time |-> time]}
  /\ kept' = kept \ {row}
  /\ UNCHANGED used /\ UNCHANGED readerVars

\* an automatic bid the listing refused
WithdrawBid(row) ==
  /\ bids' = bids \ {row}
  /\ kept' = kept \ {row}
  /\ UNCHANGED used /\ UNCHANGED readerVars

Next ==
  \/ \E limit \in Limits : ListBids(limit)
  \/ \E i \in Ids, amount \in Amounts, time \in Times : InsertBid(i, amount, time)
  \/ \E row \in bids, amount \in Amounts, time \in Times : RaiseBid(row, amount, time)
  \/ \E row \in bids : WithdrawBid(row)

Spec == Init /\ [][Next]_vars

-----------------------------------------------------------------------------
(* Properties *)

TypeOK ==
  /\ bids \subseteq Bid
  /\ used \subseteq Ids
  /\ cursor \in {<<>>} \cup (Amounts \X Times \X Ids)
  /\ pages \in Seq(SUBSET Bid)
  /\ reading \in {"no", "yes", "done"}
  /\ kept \subseteq Bid

\* Whatever happens to the table between two pages, every row of a later page
\* comes after every row of an earlier one in the order of the list, so no bid
\* is shown twice as it is (a bid that was raised comes before its old self).
PagesInOrder ==
  \A i \in DOMAIN pages : \A j \in (i + 1)..Len(pages) :
    \A x \in pages[i], y \in pages[j] : Precedes(x, y)

\* A reader that has come to the last page has seen every bid that was there
\* from the first page on and was left alone; inserts, raises and withdrawals
\* of other bids make it miss none of those.
NothingMissed ==
  reading = "done" => \A row \in kept : \E i \in DOMAIN pages : row \in pages[i]
=============================================================================
