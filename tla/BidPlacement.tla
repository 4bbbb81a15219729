---------------------------- MODULE BidPlacement ----------------------------
(***************************************************************************)
(* AuctionService::place_bid_internal and resolve_proxy_auto_bid            *)
(* (src/src/service/auction_core.rs), step by step: one action per          *)
(* statement or wallet call the handler awaits.  Each replica of the        *)
(* service serialises the requests of an auction with a mutex of its own    *)
(* (auction_bid_lock.rs); the statements are not in a transaction.          *)
(*                                                                          *)
(* Between any two steps a request may end early: a wallet call is refused  *)
(* or times out, a statement fails, the client goes away.                   *)
(***************************************************************************)
EXTENDS AuctionStore

CONSTANTS Deployments, \* functions from the requests there are to the replicas that serve
                       \* them; request r (1..n) writes bids (and holds) 2r-1 and 2r
          Offers,      \* what a request may ask: records [bidder, kind, offer]
          Deleters,    \* bidders that may withdraw their proxy
          AntiSnipingWindow,
          AntiSnipingExtension,
          MaxFaults,   \* bound: how many requests end early through a fault
          Free         \* a mutex nobody holds

ASSUME PlacementAssumption ==
  /\ \A d \in Deployments : DOMAIN d \subseteq Nat \ {0} /\ Free \notin DOMAIN d
  /\ Offers \subseteq [bidder : Bidders, kind : {"standard", "proxy"}, offer : Nat]
  /\ AntiSnipingWindow \in Nat
  /\ AntiSnipingExtension \in Nat
  /\ AntiSnipingWindow <= AntiSnipingExtension
  /\ MaxFaults \in Nat

VARIABLES guard,   \* per replica: the request inside the mutex, or Free
          req,     \* per request: where it is and its local variables
          faults   \* how many faults there have been

vars == <<listing, bids, proxies, holds, job, outbox, now, guard, req, faults>>

Requests == DOMAIN req
Replicas == DOMAIN guard

\* the local variables of a request that has not read anything yet
Blank(replica) ==
  [replica  |-> replica,   \* who serves it
   pc       |-> "new",     \* what it does next
   result   |-> "none",    \* its answer
   stopped  |-> "none",    \* the step at which it ended early
   bidder   |-> Nobody, kind |-> "standard", offer |-> 0, time |-> 0,
   row      |-> [highest |-> 0, end |-> 0, status |-> "ACTIVE"],  \* auction_record
   prev     |-> NoBid,     \* previous_winning_bid
   accepted |-> 0,         \* accepted_bid_amount_cents
   after    |-> [end |-> 0, status |-> "ACTIVE"],  \* bid_result, then the auto bid's
   board    |-> {},        \* proxy_rows
   top      |-> Nobody,    \* top_proxy.bidder_id
   cur      |-> NoBid,     \* current_winning
   target   |-> 0]         \* target_amount

Init ==
  /\ StoreInit
  /\ \E d \in Deployments : /\ guard = [p \in {d[r] : r \in DOMAIN d} |-> Free]
                            /\ req = [r \in DOMAIN d |-> Blank(d[r])]
  /\ faults = 0

BidId(r) == 2 * r - 1
AutoId(r) == 2 * r

At(r, pc) == req[r].pc = pc

\* Every pc between taking the mutex and the answer
Inside == {"read", "winner", "session", "saveproxy", "release", "hold", "insert", "undo",
           "outbid", "update", "reread", "job", "board", "contest", "autosession",
           "autohold", "autowrite", "autoundo", "autorelease", "autooutbid", "autoupdate",
           "autodrop", "autodelete", "autojob", "autoplaced", "placed", "ownproxy"}

InProgress(r) == req[r].pc \in Inside

Slip_KeepsGuardOnError(r, result) ==
  /\ req' = [req EXCEPT ![r] = [Blank(req[r].replica) EXCEPT !.pc = "done", !.result = result,
                !.stopped = IF result = "Ok" THEN "none" ELSE req[r].pc,
                !.bidder = req[r].bidder, !.kind = req[r].kind,
                !.accepted = req[r].accepted, !.prev = req[r].prev]]
  /\ guard' = IF result = "Error" THEN guard ELSE [guard EXCEPT ![req[r].replica] = Free]
Answer(r, result) ==
  /\ req' = [req EXCEPT ![r] = [Blank(req[r].replica) EXCEPT !.pc = "done", !.result = result,
                !.stopped = IF result = "Ok" THEN "none" ELSE req[r].pc,
                !.bidder = req[r].bidder, !.kind = req[r].kind,
                !.accepted = req[r].accepted, !.prev = req[r].prev]]
  /\ guard' = [guard EXCEPT ![req[r].replica] = Free]

-----------------------------------------------------------------------------
(* The rules of the aggregate, as ListingAuctionSession states them *)

MinimumOver(best) ==
  IF best = NoBid THEN StartingPrice ELSE best.amount + MinimumIncrement

Slip_StatusNotAsked(row, t) == t < row.end
OpenAt(row, t) == row.status \in Biddable /\ t < row.end

Accepts(row, best, b, amount, t) ==
  OpenAt(row, t) /\ b # best.bidder /\ amount >= MinimumOver(best)

Slip_AlwaysExtends(row, t) == [end |-> t + AntiSnipingExtension, status |-> "EXTENDED"]
\* maybe_extend
AfterBid(row, t) ==
  IF row.end - t <= AntiSnipingWindow
    THEN [end |-> t + AntiSnipingExtension, status |-> "EXTENDED"]
    ELSE [end |-> row.end, status |-> row.status]

\* a proxy that raises its own bid does without the aggregate: the auction counts as
\* extended only if the end really moves
AfterRaise(row, t) ==
  LET end == AfterBid(row, t).end
  IN  [end |-> end, status |-> IF end > row.end THEN "EXTENDED" ELSE row.status]

-----------------------------------------------------------------------------
(* place_bid_internal *)

\* The request arrives with the server's time and finds its auction; requests are
\* numbered in the order in which they arrive.
Arrive(r) ==
  /\ At(r, "new")
  /\ \A q \in Requests : q < r => ~At(q, "new")
  /\ \E o \in Offers :
       req' = [req EXCEPT ![r].pc = "waiting", ![r].bidder = o.bidder,
                          ![r].kind = o.kind, ![r].offer = o.offer, ![r].time = now]
  /\ UNCHANGED <<storeVars, guard, faults>>

Slip_NoMutex(r) ==
  /\ At(r, "waiting")
  /\ guard' = [guard EXCEPT ![req[r].replica] = r]
  /\ req' = [req EXCEPT ![r].pc = "read"]
  /\ UNCHANGED <<storeVars, faults>>
\* auction_bid_guard
EnterGuard(r) ==
  /\ At(r, "waiting")
  /\ guard[req[r].replica] = Free
  /\ guard' = [guard EXCEPT ![req[r].replica] = r]
  /\ req' = [req EXCEPT ![r].pc = "read"]
  /\ UNCHANGED <<storeVars, faults>>

\* find_matching_bid, then the auction is read again and its listing must be
\* active in the catalogue
ReadAuction(r) ==
  /\ At(r, "read")
  /\ IF req[r].kind = "standard" /\ MatchingBid(req[r].bidder, req[r].offer, req[r].time)
       THEN Answer(r, "Ok")
       ELSE \/ /\ req' = [req EXCEPT ![r].pc = "winner", ![r].row = listing]
               /\ UNCHANGED guard
            \/ Answer(r, "Refused")
  /\ UNCHANGED <<storeVars, faults>>

\* find_winning_bid and the policies that apply to the kind of bid
ReadWinner(r) ==
  LET q == req[r]
      own == q.kind = "proxy" /\ Winning.bidder = q.bidder
      valid == IF own THEN OpenAt(q.row, q.time) /\ q.offer >= Winning.amount
               ELSE IF q.kind = "proxy"
                 THEN OpenAt(q.row, q.time) /\ q.bidder # Winning.bidder
                 ELSE Accepts(q.row, Winning, q.bidder, q.offer, q.time)
  IN  /\ At(r, "winner")
      /\ \/ /\ valid
            /\ req' = [req EXCEPT ![r].pc = IF own THEN "ownproxy" ELSE "session",
                                  ![r].prev = Winning]
            /\ UNCHANGED guard
         \/ ~valid /\ Answer(r, "Refused")
      /\ UNCHANGED <<storeVars, faults>>

\* The standing bidder only changes his maximum.
SaveOwnProxy(r) ==
  /\ At(r, "ownproxy")
  /\ UpsertMax(req[r].bidder, req[r].offer, req[r].time)
  /\ Answer(r, "Ok")
  /\ UNCHANGED <<listing, bids, holds, job, outbox, now, faults>>

\* record_to_domain_with_bid reads the winning bid again; place_bid, or
\* place_proxy_bid at the minimum (or at the present amount if the proxy's
\* owner has come to lead in between)
ReadSession(r) ==
  LET q == req[r]
      own == q.kind = "proxy" /\ Winning.bidder = q.bidder
      amount == IF own THEN Winning.amount
                ELSE IF q.kind = "proxy" THEN MinimumOver(Winning) ELSE q.offer
      valid == IF own THEN OpenAt(q.row, q.time) /\ q.offer >= amount
               ELSE /\ Accepts(q.row, Winning, q.bidder, amount, q.time)
                    /\ q.offer >= amount
  IN  /\ At(r, "session")
      /\ \/ /\ valid
            /\ req' = [req EXCEPT
                 ![r].pc = IF q.kind = "proxy" THEN "saveproxy" ELSE "release",
                 ![r].accepted = amount,
                 ![r].after = IF own THEN [end |-> q.row.end, status |-> q.row.status]
                                     ELSE AfterBid(q.row, q.time)]
            /\ UNCHANGED guard
         \/ ~valid /\ Answer(r, "Refused")
      /\ UNCHANGED <<storeVars, faults>>

SaveProxy(r) ==
  /\ At(r, "saveproxy")
  /\ UpsertMax(req[r].bidder, req[r].offer, req[r].time)
  /\ req' = [req EXCEPT ![r].pc = "release"]
  /\ UNCHANGED <<listing, bids, holds, job, outbox, now, guard, faults>>

Outbids(r) == req[r].prev # NoBid /\ req[r].prev.bidder # req[r].bidder

\* the hold of the bid being outbid is released before the new one is taken
ReleasePrevious(r) ==
  /\ At(r, "release")
  /\ IF Outbids(r) THEN ReleaseHold(req[r].prev.hold) ELSE UNCHANGED holds
  /\ req' = [req EXCEPT ![r].pc = "hold"]
  /\ UNCHANGED <<listing, bids, proxies, job, outbox, now, guard, faults>>

HoldNew(r) ==
  /\ At(r, "hold")
  /\ HoldFunds(BidId(r), NewHold(req[r].bidder, req[r].accepted, req[r].after.end))
  /\ req' = [req EXCEPT ![r].pc = "insert"]
  /\ UNCHANGED <<listing, bids, proxies, job, outbox, now, guard, faults>>

InsertNew(r) ==
  /\ At(r, "insert")
  /\ InsertBid([id |-> BidId(r), bidder |-> req[r].bidder, amount |-> req[r].accepted,
                time |-> req[r].time, hold |-> BidId(r)])
  /\ req' = [req EXCEPT ![r].pc = "outbid"]
  /\ UNCHANGED <<listing, proxies, holds, job, outbox, now, guard, faults>>

\* the bid could not be stored: its hold is given back
UndoHold(r) ==
  /\ At(r, "undo")
  /\ ReleaseHold(BidId(r))
  /\ Answer(r, "Error")
  /\ UNCHANGED <<listing, bids, proxies, job, outbox, now, faults>>

PublishOutbid(r) ==
  /\ At(r, "outbid")
  /\ Publish(IF Outbids(r) THEN {<<"Outbid", req[r].prev.id>>} ELSE {})
  /\ req' = [req EXCEPT ![r].pc = "update"]
  /\ UNCHANGED <<listing, bids, proxies, holds, job, now, guard, faults>>

Slip_ShowsMaximum(r) ==
  LET new == [highest |-> req[r].offer, end |-> req[r].after.end,
              status |-> req[r].after.status]
  IN  /\ At(r, "update")
      /\ IF listing.highest < req[r].offer
           THEN listing' = new /\ req' = [req EXCEPT ![r].pc = "job", ![r].row = new]
           ELSE UNCHANGED listing /\ req' = [req EXCEPT ![r].pc = "reread"]
      /\ UNCHANGED <<bids, proxies, holds, job, outbox, now, guard, faults>>
\* UPDATE listings ... WHERE current_highest_bid_cents < accepted RETURNING the row
UpdateListing(r) ==
  LET new == [highest |-> req[r].accepted, end |-> req[r].after.end,
              status |-> req[r].after.status]
  IN  /\ At(r, "update")
      /\ IF listing.highest < req[r].accepted
           THEN listing' = new /\ req' = [req EXCEPT ![r].pc = "job", ![r].row = new]
           ELSE UNCHANGED listing /\ req' = [req EXCEPT ![r].pc = "reread"]
      /\ UNCHANGED <<bids, proxies, holds, job, outbox, now, guard, faults>>

\* find_by_id: somebody got further, and the request goes on with the row as it is now
RereadListing(r) ==
  /\ At(r, "reread")
  /\ req' = [req EXCEPT ![r].pc = "job", ![r].row = listing]
  /\ UNCHANGED <<storeVars, guard, faults>>

Reschedule(r) ==
  /\ At(r, "job")
  /\ UpsertPending(req[r].row.end)
  /\ req' = [req EXCEPT ![r].pc = "board"]
  /\ UNCHANGED <<listing, bids, proxies, holds, outbox, now, guard, faults>>

PublishPlaced(r) ==
  /\ At(r, "placed")
  /\ Publish({<<"BidPlaced", BidId(r)>>})
  /\ Answer(r, "Ok")
  /\ UNCHANGED <<listing, bids, proxies, holds, job, now, faults>>

-----------------------------------------------------------------------------
(* resolve_proxy_auto_bid *)

\* list_by_auction; nothing to resolve without a proxy
ReadBoard(r) ==
  /\ At(r, "board")
  /\ \/ /\ proxies = {}
        /\ req' = [req EXCEPT ![r].pc = "placed"]
     \/ \E p \in TopProxies(proxies) :
          req' = [req EXCEPT ![r].pc = "contest", ![r].board = proxies, ![r].top = p.bidder]
  /\ UNCHANGED <<storeVars, guard, faults>>

SmallerOf(x, y) == IF x <= y THEN x ELSE y
LargestOf(S) == CHOOSE x \in S : \A y \in S : y <= x

TopMax(r) == (CHOOSE p \in req[r].board : p.bidder = req[r].top).max

\* competitor_cap: the best of the other proxies, else the winning bid
CompetitorCap(r, winning) ==
  LET others == {p.max : p \in {q \in req[r].board : q.bidder # req[r].top}}
  IN  IF others = {} THEN winning.amount ELSE LargestOf(others)

Slip_Uncapped(r, winning) == CompetitorCap(r, winning) + MinimumIncrement
TargetAmount(r, winning) ==
  SmallerOf(TopMax(r), CompetitorCap(r, winning) + MinimumIncrement)

Counters(r, winning) ==
  /\ TargetAmount(r, winning) > winning.amount
  /\ TopMax(r) >= winning.amount + MinimumIncrement

\* the proxy bid is placed a second after the bid it answers
AutoTime(r) == req[r].time + 1

\* find_winning_bid and the decision whether the top proxy bids
ReadContest(r) ==
  LET counter == Winning # NoBid /\ Counters(r, Winning)
      leads == Winning.bidder = req[r].top
  IN  /\ At(r, "contest")
      /\ IF counter
           THEN req' = [req EXCEPT
                  ![r].pc = IF leads THEN "autohold" ELSE "autosession",
                  ![r].cur = Winning, ![r].target = TargetAmount(r, Winning),
                  ![r].after = IF leads THEN AfterRaise(req[r].row, AutoTime(r))
                                        ELSE AfterBid(req[r].row, AutoTime(r))]
           ELSE req' = [req EXCEPT ![r].pc = "placed"]
      /\ UNCHANGED <<storeVars, guard, faults>>

\* the domain's place_bid for a proxy that does not lead; its refusal is the
\* answer to the request, whose own bid is in place by now
ReadAutoSession(r) ==
  LET valid == Accepts(req[r].row, Winning, req[r].top, req[r].target, AutoTime(r))
  IN  /\ At(r, "autosession")
      /\ \/ valid /\ req' = [req EXCEPT ![r].pc = "autohold"] /\ UNCHANGED guard
         \/ ~valid /\ Answer(r, "Refused")
      /\ UNCHANGED <<storeVars, faults>>

HoldAuto(r) ==
  /\ At(r, "autohold")
  /\ HoldFunds(AutoId(r), NewHold(req[r].top, req[r].target, req[r].after.end))
  /\ req' = [req EXCEPT ![r].pc = "autowrite"]
  /\ UNCHANGED <<listing, bids, proxies, job, outbox, now, guard, faults>>

RaisesOwn(r) == req[r].cur.bidder = req[r].top

\* the row an auto bid raises in place, unless it has got past the target
RaisedRow(r) == {x \in bids : x.id = req[r].cur.id /\ x.amount < req[r].target}

AutoRow(r) ==
  [id |-> IF RaisesOwn(r) THEN req[r].cur.id ELSE AutoId(r), bidder |-> req[r].top,
   amount |-> req[r].target, time |-> AutoTime(r), hold |-> AutoId(r)]

\* a proxy raises its own standing bid in place, and inserts a new bid otherwise
WriteAuto(r) ==
  /\ At(r, "autowrite")
  /\ IF RaisesOwn(r) /\ RaisedRow(r) = {}
       THEN req' = [req EXCEPT ![r].pc = "autoundo"] /\ UNCHANGED bids
       ELSE /\ bids' = (IF RaisesOwn(r) THEN bids \ RaisedRow(r) ELSE bids) \cup {AutoRow(r)}
            /\ req' = [req EXCEPT ![r].pc = "autorelease"]
  /\ UNCHANGED <<listing, proxies, holds, job, outbox, now, guard, faults>>

\* the raise found its row gone or past the target: it gives the hold back; after
\* a failed insert (the result is set by then) the request ends as well
UndoAutoHold(r) ==
  /\ At(r, "autoundo")
  /\ ReleaseHold(AutoId(r))
  /\ IF RaisesOwn(r) THEN req' = [req EXCEPT ![r].pc = "placed"] /\ UNCHANGED guard
                     ELSE Answer(r, "Error")
  /\ UNCHANGED <<listing, bids, proxies, job, outbox, now, faults>>

Slip_ForgetsReplaced(r) ==
  /\ At(r, "autorelease")
  /\ IF RaisesOwn(r) THEN UNCHANGED holds ELSE ReleaseHold(req[r].cur.hold)
  /\ req' = [req EXCEPT ![r].pc = "autooutbid"]
  /\ UNCHANGED <<listing, bids, proxies, job, outbox, now, guard, faults>>
ReleaseReplaced(r) ==
  /\ At(r, "autorelease")
  /\ ReleaseHold(req[r].cur.hold)
  /\ req' = [req EXCEPT ![r].pc = "autooutbid"]
  /\ UNCHANGED <<listing, bids, proxies, job, outbox, now, guard, faults>>

Slip_AutoBidsSilently(r) ==
  /\ At(r, "autooutbid")
  /\ UNCHANGED outbox
  /\ req' = [req EXCEPT ![r].pc = "autoupdate"]
  /\ UNCHANGED <<listing, bids, proxies, holds, job, now, guard, faults>>
PublishAutoOutbid(r) ==
  /\ At(r, "autooutbid")
  /\ Publish(IF RaisesOwn(r) THEN {} ELSE {<<"Outbid", req[r].cur.id>>})
  /\ req' = [req EXCEPT ![r].pc = "autoupdate"]
  /\ UNCHANGED <<listing, bids, proxies, holds, job, now, guard, faults>>

\* UPDATE listings for the auto bid; end and status only move forward
UpdateListingAuto(r) ==
  LET later == listing.end < req[r].after.end
      new == [highest |-> req[r].target,
              end |-> IF later THEN req[r].after.end ELSE listing.end,
              status |-> IF later THEN req[r].after.status ELSE listing.status]
  IN  /\ At(r, "autoupdate")
      /\ IF listing.highest < req[r].target
           THEN /\ listing' = new
                /\ req' = [req EXCEPT ![r].pc = "autojob", ![r].row = new]
           ELSE /\ UNCHANGED listing
                /\ req' = [req EXCEPT ![r].pc = "autodrop"]
      /\ UNCHANGED <<bids, proxies, holds, job, outbox, now, guard, faults>>

Slip_KeepsRefusedHold(r) ==
  /\ At(r, "autodrop")
  /\ req' = [req EXCEPT ![r].pc = "autodelete"]
  /\ UNCHANGED <<storeVars, guard, faults>>
\* somebody got further: hold and bid of the auto bid are withdrawn
DropAutoHold(r) ==
  /\ At(r, "autodrop")
  /\ ReleaseHold(AutoId(r))
  /\ req' = [req EXCEPT ![r].pc = "autodelete"]
  /\ UNCHANGED <<listing, bids, proxies, job, outbox, now, guard, faults>>

DeleteAutoBid(r) ==
  /\ At(r, "autodelete")
  /\ bids' = IF RaisesOwn(r) THEN bids ELSE {x \in bids : x.id # AutoId(r)}
  /\ req' = [req EXCEPT ![r].pc = "placed"]
  /\ UNCHANGED <<listing, proxies, holds, job, outbox, now, guard, faults>>

RescheduleAuto(r) ==
  /\ At(r, "autojob")
  /\ UpsertPending(req[r].row.end)
  /\ req' = [req EXCEPT ![r].pc = "autoplaced"]
  /\ UNCHANGED <<listing, bids, proxies, holds, outbox, now, guard, faults>>

PublishAutoPlaced(r) ==
  /\ At(r, "autoplaced")
  /\ Publish({<<"BidPlaced", AutoRow(r).id>>})
  /\ req' = [req EXCEPT ![r].pc = "placed"]
  /\ UNCHANGED <<listing, bids, proxies, holds, job, now, guard, faults>>

-----------------------------------------------------------------------------
(* What ends a request early *)

\* the wallet refuses the hold, for want of funds: no fault, nothing is held
WalletRefuses(r) ==
  /\ req[r].pc \in {"hold", "autohold"}
  /\ Answer(r, "Error")
  /\ UNCHANGED <<storeVars, faults>>

\* a statement or call fails, or the request is dropped, without any effect; a
\* failed insert is followed by the release of its hold, and the failure of a
\* best-effort call is ignored
GivesUp(r) ==
  /\ faults < MaxFaults
  /\ faults' = faults + 1
  /\ InProgress(r)
  /\ \/ Answer(r, "Error")
     \/ /\ At(r, "insert")
        /\ req' = [req EXCEPT ![r].pc = "undo"]
        /\ UNCHANGED guard
     \/ /\ At(r, "autowrite") /\ ~RaisesOwn(r)
        /\ req' = [req EXCEPT ![r].pc = "autoundo"]
        /\ UNCHANGED guard
     \/ /\ At(r, "autoundo") /\ RaisesOwn(r)
        /\ req' = [req EXCEPT ![r].pc = "placed"]
        /\ UNCHANGED guard
     \/ /\ At(r, "autodrop")
        /\ req' = [req EXCEPT ![r].pc = "autodelete"]
        /\ UNCHANGED guard
     \/ /\ At(r, "autodelete")
        /\ req' = [req EXCEPT ![r].pc = "placed"]
        /\ UNCHANGED guard
  /\ UNCHANGED storeVars

\* a wallet call takes effect, but its answer comes after the time limit
WalletTimesOut(r) ==
  /\ faults < MaxFaults
  /\ faults' = faults + 1
  /\ \/ At(r, "release") /\ Outbids(r) /\ ReleaseHold(req[r].prev.hold)
     \/ At(r, "hold")
        /\ HoldFunds(BidId(r), NewHold(req[r].bidder, req[r].accepted, req[r].after.end))
     \/ At(r, "autohold")
        /\ HoldFunds(AutoId(r), NewHold(req[r].top, req[r].target, req[r].after.end))
     \/ At(r, "autorelease") /\ ReleaseHold(req[r].cur.hold)
  /\ Answer(r, "Error")
  /\ UNCHANGED <<listing, bids, proxies, job, outbox, now>>

\* delete_proxy_bid_core does not take the mutex
DeleteProxy(b) ==
  /\ \E p \in proxies : p.bidder = b
  /\ proxies' = {p \in proxies : p.bidder # b}
  /\ UNCHANGED <<listing, bids, holds, job, outbox, now, guard, req, faults>>

Step(r) ==
  \/ EnterGuard(r) \/ ReadAuction(r) \/ ReadWinner(r) \/ SaveOwnProxy(r)
  \/ ReadSession(r) \/ SaveProxy(r) \/ ReleasePrevious(r) \/ HoldNew(r)
  \/ InsertNew(r) \/ UndoHold(r) \/ PublishOutbid(r) \/ UpdateListing(r)
  \/ RereadListing(r) \/ Reschedule(r) \/ PublishPlaced(r)
  \/ ReadBoard(r) \/ ReadContest(r) \/ ReadAutoSession(r) \/ HoldAuto(r)
  \/ WriteAuto(r) \/ UndoAutoHold(r) \/ ReleaseReplaced(r) \/ PublishAutoOutbid(r)
  \/ UpdateListingAuto(r) \/ DropAutoHold(r) \/ DeleteAutoBid(r)
  \/ RescheduleAuto(r) \/ PublishAutoPlaced(r)

EarlyEnd(r) == WalletRefuses(r) \/ GivesUp(r) \/ WalletTimesOut(r)

Next ==
  \/ \E r \in Requests : Arrive(r) \/ Step(r) \/ EarlyEnd(r)
  \/ \E b \in Deleters : DeleteProxy(b)
  \/ Tick /\ UNCHANGED <<guard, req, faults>>

Spec == Init /\ [][Next]_vars

-----------------------------------------------------------------------------
(* Properties *)

Quiet == \A r \in Requests : ~InProgress(r)

\* the mutex keeps apart only requests of one replica
OneReplica == \A p, q \in Replicas : p = q

\* no fault, and no wallet has refused a hold
Undisturbed == faults = 0 /\ \A r \in Requests : req[r].result # "Error"

\* Every variable holds what its column, map or local can hold.
TypeOK ==
  /\ listing \in [highest : Nat, end : Nat, status : Statuses]
  /\ bids \subseteq BidRow
  /\ proxies \subseteq ProxyRow
  /\ \A i \in DOMAIN holds : i \in Nat /\ holds[i] \in Hold
  /\ job \in [status : JobStatuses, due : Nat, lockedUntil : Nat]
  /\ outbox \subseteq {"Outbid", "BidPlaced"} \X Nat
  /\ now \in Nat
  /\ \A p \in Replicas : guard[p] \in Requests \cup {Free}
  /\ \A r \in Requests : req[r].pc \in Inside \cup {"new", "waiting", "done"}

\* The hold of a bid is the bidder's, covers the bid, and outlives the auction as
\* it now stands, extensions included, by the grace period.
Funded(x) ==
  /\ IsActive(x.hold)
  /\ holds[x.hold].bidder = x.bidder
  /\ holds[x.hold].amount * CentsPerRupiah >= x.amount
  /\ holds[x.hold].expires >= listing.end + HoldGrace

\* What the code does keep: the leader is uncovered only if a request that tried
\* to outbid him ended early between releasing his hold and storing its own bid.
FundedUnlessOutbidFailed ==
  OneReplica /\ Quiet /\ Winning # NoBid =>
    \/ Funded(Winning)
    \/ \E r \in Requests :
         /\ req[r].result = "Error"
         /\ req[r].stopped \in {"release", "hold", "insert", "undo"}
         /\ req[r].prev = Winning

\* No bidder's money stays locked for a bid that does not lead: each fault can
\* strand one hold, and without a fault none is.
StrandedHoldsNeedFaults ==
  OneReplica /\ Quiet => Cardinality({i \in DOMAIN holds : IsActive(i)} \ {Winning.hold}) <= faults

\* The price shown never runs ahead of the bids that justify it, and the closure
\* job is never due after the end, at any step of any request and after any fault.
ListingNeverAhead ==
  OneReplica => /\ listing.highest <= Winning.amount
                /\ job.due <= listing.end

\* When nobody is at work and nothing has failed, the row of the auction, its
\* best bid and its closure job tell the same story.
RowsAgree ==
  OneReplica /\ Quiet /\ faults = 0 =>
    /\ listing.highest = Winning.amount
    /\ job.due = listing.end
    /\ job.status = "PENDING"

\* Every bid that has lost the lead was announced to its bidder.
LosersTold ==
  OneReplica /\ Quiet /\ faults = 0 =>
    \A x \in bids \ {Winning} : <<"Outbid", x.id>> \in outbox

\* On one replica a bid made in a bidder's name stays within the maximum he last
\* confirmed, if he is not one who may have withdrawn it (hold ids of automatic bids are
\* even).  On several, one may lower his maximum while another bids up to the old one.
AutoBidWithinMax ==
  OneReplica =>
    \A x \in bids : x.hold % 2 = 0 /\ x.bidder \notin Deleters =>
      \E p \in proxies : p.bidder = x.bidder /\ x.amount <= p.max

\* The lead changes hands only upwards, by at least the increment and to another
\* bidder; a standing bid is only ever raised in place, never withdrawn.
PriceLadder ==
  [][OneReplica /\ Winning' # Winning =>
       \/ Winning'.bidder # Winning.bidder /\ Winning'.amount >= MinimumOver(Winning)
       \/ Winning'.id = Winning.id /\ Winning'.amount > Winning.amount]_vars

\* concurrent_proxy_bids_across_instances_resolve_deterministically
\* (tests/bid_concurrency_tests.rs:267, 324-325): of proxies placed concurrently on
\* several instances the strongest leads, and none of the placements fails.
ConcurrentProxiesResolve ==
  (\A r \in Requests : At(r, "done") /\ req[r].kind = "proxy") /\ Undisturbed
  /\ Cardinality(proxies) > 1
    => \E p \in TopProxies(proxies) : p.bidder = Winning.bidder
=============================================================================
