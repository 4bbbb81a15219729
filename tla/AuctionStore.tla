---------------------------- MODULE AuctionStore ----------------------------
(***************************************************************************)
(* What the handlers of the service share about one auction: its rows in    *)
(* the database (listings, bids, proxy_bids, auction_closure_jobs,          *)
(* outbox_events), the holds at the wallet service and the clock.  The      *)
(* operators are the statements of src/src/persistence/repositories.rs and  *)
(* the calls of the wallet client; a statement is atomic, a handler is not. *)
(***************************************************************************)
EXTENDS Integers, FiniteSets

CONSTANTS Bidders,           \* user ids that bid (the seller is refused before, see BidPolicies)
          Nobody,            \* bidder of NoBid
          StartingPrice,     \* starting_price_cents
          MinimumIncrement,  \* minimum_increment_cents
          FirstEndAt,        \* end_time at creation
          CentsPerRupiah,    \* 100: amounts are cents, the wallet counts whole rupiah
          HoldGrace,         \* bid_hold_grace_seconds
          Horizon            \* bound: the clock stops here

ASSUME StoreAssumption ==
  /\ StartingPrice \in Nat \ {0}
  /\ MinimumIncrement \in Nat \ {0}
  /\ FirstEndAt \in Nat
  /\ CentsPerRupiah \in Nat \ {0}
  /\ HoldGrace \in Nat
  /\ Horizon \in Nat
  /\ Nobody \notin Bidders

VARIABLES listing,   \* the row of listings: highest (0 for NULL), end, status
          bids,      \* the rows of bids
          proxies,   \* the rows of proxy_bids
          holds,     \* the holds the wallet service knows, by hold id
          job,       \* the row of auction_closure_jobs
          outbox,    \* the rows of outbox_events
          now        \* the clock

storeVars == <<listing, bids, proxies, holds, job, outbox, now>>

Biddable == {"ACTIVE", "EXTENDED"}
Terminal == {"WON", "UNSOLD", "CANCELLED"}
Statuses == Biddable \cup Terminal \cup {"DRAFT", "CLOSED"}
JobStatuses == {"ABSENT", "PENDING", "PROCESSING", "SETTLING", "DONE"}  \* ABSENT: no row

\* ids: bid rows and wallet holds are numbered; 0 stands for an absent id
NoBid == [id |-> 0, bidder |-> Nobody, amount |-> 0, time |-> 0, hold |-> 0]
BidRow == [id : Nat \ {0}, bidder : Bidders, amount : Nat, time : Nat, hold : Nat]
ProxyRow == [bidder : Bidders, max : Nat, created : Nat]
Hold == [bidder : Bidders, amount : Nat, expires : Nat,
         state : {"active", "released", "converted"}]

StoreInit ==
  /\ listing = [highest |-> 0, end |-> FirstEndAt, status |-> "ACTIVE"]
  /\ bids = {}
  /\ proxies = {}
  /\ holds = <<>>
  /\ job = [status |-> "PENDING", due |-> FirstEndAt, lockedUntil |-> 0]
  /\ outbox = {}
  /\ now = 0

-----------------------------------------------------------------------------
(* bids *)

\* ORDER BY bid_amount_cents DESC, bid_time ASC, id ASC
Outranks(x, y) ==
  \/ x.amount > y.amount
  \/ x.amount = y.amount /\ x.time < y.time
  \/ x.amount = y.amount /\ x.time = y.time /\ x.id < y.id

Best(rows) ==
  IF rows = {} THEN NoBid
  ELSE CHOOSE x \in rows : \A y \in rows \ {x} : Outranks(x, y)

\* find_winning_bid
Winning == Best(bids)

MatchingBid(b, amount, time) ==
  \E x \in bids : x.bidder = b /\ x.amount = amount /\ x.time = time

InsertBid(row) == bids' = bids \cup {row}

-----------------------------------------------------------------------------
(* proxy_bids *)

\* ORDER BY max_bid_amount_cents DESC, created_at ASC, bidder_id ASC
StrongerProxy(p, q) ==
  \/ p.max > q.max
  \/ p.max = q.max /\ p.created < q.created

\* the rows that may come first (the order of bidder ids is not fixed)
TopProxies(rows) == {p \in rows : \A q \in rows : ~StrongerProxy(q, p)}

\* created_at is kept when the row exists
UpsertMax(b, max, time) ==
  LET old == {p \in proxies : p.bidder = b}
      created == IF old = {} THEN time ELSE (CHOOSE p \in old : TRUE).created
  IN  proxies' = (proxies \ old) \cup {[bidder |-> b, max |-> max, created |-> created]}

-----------------------------------------------------------------------------
(* wallet holds *)

\* cents_to_rupiah rounds up to whole rupiah
Slip_RoundsDown(cents) == cents \div CentsPerRupiah
Rupiah(cents) ==
  IF cents <= 0 THEN 0 ELSE (cents + CentsPerRupiah - 1) \div CentsPerRupiah

NewHold(b, amount, end) ==
  [bidder |-> b, amount |-> Rupiah(amount), expires |-> end + HoldGrace, state |-> "active"]

HoldFunds(id, hold) ==
  holds' = [i \in DOMAIN holds \cup {id} |-> IF i = id THEN hold ELSE holds[i]]

IsActive(id) == id \in DOMAIN holds /\ holds[id].state = "active"

\* what an accepted release does; releasing twice changes nothing
ReleaseHold(id) ==
  holds' = IF IsActive(id) THEN [holds EXCEPT ![id].state = "released"] ELSE holds

-----------------------------------------------------------------------------
(* auction_closure_jobs *)

\* a job that is DONE or SETTLING keeps its status; the lock is always cleared
Slip_KeepsDue(due) ==
  job' = [job EXCEPT !.status = IF @ \in {"DONE", "SETTLING"} THEN @ ELSE "PENDING",
                     !.lockedUntil = 0]
UpsertPending(due) ==
  job' = [job EXCEPT !.due = due,
                     !.status = IF @ \in {"DONE", "SETTLING"} THEN @ ELSE "PENDING",
                     !.lockedUntil = 0]

-----------------------------------------------------------------------------
(* outbox_events *)

Publish(events) == outbox' = outbox \cup events

Tick ==
  /\ now < Horizon
  /\ now' = now + 1
  /\ UNCHANGED <<listing, bids, proxies, holds, job, outbox>>

-----------------------------------------------------------------------------
(* Properties of the row of listings, whoever writes it *)

\* The price shown never falls: the UPDATEs of requests are guarded by the price they
\* replace, and a closing writes the best bid it has read under the lock of the row.
PriceShownOnlyRises == [][listing'.highest >= listing.highest]_storeVars

\* Anti-sniping never takes time away: no request, whenever it read the auction,
\* brings the end closer.
EndNeverShrinks == [][listing'.end >= listing.end]_storeVars
=============================================================================
