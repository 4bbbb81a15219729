------------------------ MODULE AuctionSystemProofs -------------------------
(* Proofs about AuctionSystem: bidding and closing interleaved, for any number *)
(* of requests, replicas, scheduler tasks and callers of the endpoint, with    *)
(* any number of faults, failures and crashes.  What BidPlacementProofs shows  *)
(* of a request is reused: a step of Bidding is a step of P.                   *)
EXTENDS AuctionSystem, TLAPS

P == INSTANCE BidPlacementProofs WITH Deployments <- {ReplicaOf}, Deleters <- {}

-----------------------------------------------------------------------------
(* Two instances of BidPlacement with the same constants have the same steps. *)

LEMMA SameReading ==
  ASSUME NEW r
  PROVE  /\ Bidding!Arrive(r) => P!Arrive(r)
         /\ Bidding!EnterGuard(r) => P!EnterGuard(r)
         /\ Bidding!ReadAuction(r) => P!ReadAuction(r)
         /\ Bidding!ReadWinner(r) => P!ReadWinner(r)
         /\ Bidding!ReadSession(r) => P!ReadSession(r)
         /\ Bidding!ReadBoard(r) => P!ReadBoard(r)
         /\ Bidding!ReadContest(r) => P!ReadContest(r)
         /\ Bidding!ReadAutoSession(r) => P!ReadAutoSession(r)
  <1>1. Bidding!Arrive(r) => P!Arrive(r)
    BY Zenon DEF Bidding!Arrive, P!Arrive, Bidding!At, P!At, Bidding!Requests, P!Requests,
       Bidding!storeVars, P!storeVars
  <1>2. Bidding!EnterGuard(r) => P!EnterGuard(r)
    BY Zenon DEF Bidding!EnterGuard, P!EnterGuard, Bidding!At, P!At, Bidding!storeVars,
       P!storeVars
  <1>3. Bidding!ReadAuction(r) => P!ReadAuction(r)
    BY Zenon DEF Bidding!ReadAuction, P!ReadAuction, Bidding!At, P!At, Bidding!MatchingBid,
       P!MatchingBid, Bidding!Answer, P!Answer, Bidding!Blank, P!Blank, Bidding!NoBid,
       P!NoBid, Bidding!storeVars, P!storeVars
  <1>4. Bidding!ReadWinner(r) => P!ReadWinner(r)
    BY Zenon DEF Bidding!ReadWinner, P!ReadWinner, Bidding!Winning, P!Winning, Bidding!Best,
       P!Best, Bidding!NoBid, P!NoBid, Bidding!Outranks, P!Outranks, Bidding!OpenAt, P!OpenAt,
       Bidding!Biddable, P!Biddable, Bidding!Accepts, P!Accepts, Bidding!MinimumOver,
       P!MinimumOver, Bidding!At, P!At, Bidding!Answer, P!Answer, Bidding!Blank, P!Blank,
       Bidding!storeVars, P!storeVars
  <1>5. Bidding!ReadSession(r) => P!ReadSession(r)
    BY Zenon DEF Bidding!ReadSession, P!ReadSession, Bidding!Winning, P!Winning, Bidding!Best,
       P!Best, Bidding!NoBid, P!NoBid, Bidding!Outranks, P!Outranks, Bidding!MinimumOver,
       P!MinimumOver, Bidding!OpenAt, P!OpenAt, Bidding!Biddable, P!Biddable, Bidding!Accepts,
       P!Accepts, Bidding!At, P!At, Bidding!AfterBid, P!AfterBid, Bidding!Answer, P!Answer,
       Bidding!Blank, P!Blank, Bidding!storeVars, P!storeVars
  <1>6. Bidding!ReadBoard(r) => P!ReadBoard(r)
    BY Zenon DEF Bidding!ReadBoard, P!ReadBoard, Bidding!At, P!At, Bidding!TopProxies,
       P!TopProxies, Bidding!StrongerProxy, P!StrongerProxy, Bidding!storeVars, P!storeVars
  <1>7. Bidding!ReadContest(r) => P!ReadContest(r)
    BY Zenon DEF Bidding!ReadContest, P!ReadContest, Bidding!Winning, P!Winning, Bidding!Best,
       P!Best, Bidding!NoBid, P!NoBid, Bidding!Outranks, P!Outranks, Bidding!Counters,
       P!Counters, Bidding!TargetAmount, P!TargetAmount, Bidding!SmallerOf, P!SmallerOf,
       Bidding!TopMax, P!TopMax, Bidding!CompetitorCap, P!CompetitorCap, Bidding!LargestOf,
       P!LargestOf, Bidding!At, P!At, Bidding!AfterRaise, P!AfterRaise, Bidding!AfterBid,
       P!AfterBid, Bidding!AutoTime, P!AutoTime, Bidding!storeVars, P!storeVars
  <1>8. Bidding!ReadAutoSession(r) => P!ReadAutoSession(r)
    BY Zenon DEF Bidding!ReadAutoSession, P!ReadAutoSession, Bidding!Accepts, P!Accepts,
       Bidding!OpenAt, P!OpenAt, Bidding!Biddable, P!Biddable, Bidding!MinimumOver,
       P!MinimumOver, Bidding!NoBid, P!NoBid, Bidding!Winning, P!Winning, Bidding!Best,
       P!Best, Bidding!Outranks, P!Outranks, Bidding!AutoTime, P!AutoTime, Bidding!At, P!At,
       Bidding!Answer, P!Answer, Bidding!Blank, P!Blank, Bidding!storeVars, P!storeVars
  <1>. QED BY <1>1, <1>2, <1>3, <1>4, <1>5, <1>6, <1>7, <1>8

LEMMA SamePlacing ==
  ASSUME NEW r
  PROVE  /\ Bidding!SaveOwnProxy(r) => P!SaveOwnProxy(r)
         /\ Bidding!SaveProxy(r) => P!SaveProxy(r)
         /\ Bidding!ReleasePrevious(r) => P!ReleasePrevious(r)
         /\ Bidding!HoldNew(r) => P!HoldNew(r)
         /\ Bidding!InsertNew(r) => P!InsertNew(r)
         /\ Bidding!UndoHold(r) => P!UndoHold(r)
         /\ Bidding!PublishOutbid(r) => P!PublishOutbid(r)
         /\ Bidding!UpdateListing(r) => P!UpdateListing(r)
         /\ Bidding!RereadListing(r) => P!RereadListing(r)
         /\ Bidding!Reschedule(r) => P!Reschedule(r)
         /\ Bidding!PublishPlaced(r) => P!PublishPlaced(r)
  <1>1. Bidding!SaveOwnProxy(r) => P!SaveOwnProxy(r)
    BY Zenon DEF Bidding!SaveOwnProxy, P!SaveOwnProxy, Bidding!At, P!At, Bidding!UpsertMax,
       P!UpsertMax, Bidding!Answer, P!Answer, Bidding!Blank, P!Blank, Bidding!NoBid, P!NoBid
  <1>2. Bidding!SaveProxy(r) => P!SaveProxy(r)
    BY Zenon DEF Bidding!SaveProxy, P!SaveProxy, Bidding!At, P!At, Bidding!UpsertMax,
       P!UpsertMax
  <1>3. Bidding!ReleasePrevious(r) => P!ReleasePrevious(r)
    BY Zenon DEF Bidding!ReleasePrevious, P!ReleasePrevious, Bidding!At, P!At,
       Bidding!Outbids, P!Outbids, Bidding!NoBid, P!NoBid, Bidding!ReleaseHold, P!ReleaseHold,
       Bidding!IsActive, P!IsActive
  <1>4. Bidding!HoldNew(r) => P!HoldNew(r)
    BY Zenon DEF Bidding!HoldNew, P!HoldNew, Bidding!At, P!At, Bidding!HoldFunds, P!HoldFunds,
       Bidding!BidId, P!BidId, Bidding!NewHold, P!NewHold, Bidding!Rupiah, P!Rupiah
  <1>5. Bidding!InsertNew(r) => P!InsertNew(r)
    BY Zenon DEF Bidding!InsertNew, P!InsertNew, Bidding!At, P!At, Bidding!InsertBid,
       P!InsertBid, Bidding!BidId, P!BidId
  <1>6. Bidding!UndoHold(r) => P!UndoHold(r)
    BY Zenon DEF Bidding!UndoHold, P!UndoHold, Bidding!At, P!At, Bidding!ReleaseHold,
       P!ReleaseHold, Bidding!IsActive, P!IsActive, Bidding!BidId, P!BidId, Bidding!Answer,
       P!Answer, Bidding!Blank, P!Blank, Bidding!NoBid, P!NoBid
  <1>7. Bidding!PublishOutbid(r) => P!PublishOutbid(r)
    BY Zenon DEF Bidding!PublishOutbid, P!PublishOutbid, Bidding!At, P!At, Bidding!Publish,
       P!Publish, Bidding!Outbids, P!Outbids, Bidding!NoBid, P!NoBid
  <1>8. Bidding!UpdateListing(r) => P!UpdateListing(r)
    BY Zenon DEF Bidding!UpdateListing, P!UpdateListing, Bidding!At, P!At
  <1>9. Bidding!Reschedule(r) => P!Reschedule(r)
    BY Zenon DEF Bidding!Reschedule, P!Reschedule, Bidding!At, P!At, Bidding!UpsertPending,
       P!UpsertPending
  <1>10. Bidding!PublishPlaced(r) => P!PublishPlaced(r)
    BY Zenon DEF Bidding!PublishPlaced, P!PublishPlaced, Bidding!At, P!At, Bidding!Publish,
       P!Publish, Bidding!BidId, P!BidId, Bidding!Answer, P!Answer, Bidding!Blank, P!Blank,
       Bidding!NoBid, P!NoBid
  <1>11. Bidding!RereadListing(r) => P!RereadListing(r)
    BY Zenon DEF Bidding!RereadListing, P!RereadListing, Bidding!At, P!At, Bidding!storeVars,
       P!storeVars
  <1>. QED BY <1>1, <1>2, <1>3, <1>4, <1>5, <1>6, <1>7, <1>8, <1>9, <1>10, <1>11

LEMMA SameCountering ==
  ASSUME NEW r
  PROVE  /\ Bidding!HoldAuto(r) => P!HoldAuto(r)
         /\ Bidding!WriteAuto(r) => P!WriteAuto(r)
         /\ Bidding!UndoAutoHold(r) => P!UndoAutoHold(r)
         /\ Bidding!ReleaseReplaced(r) => P!ReleaseReplaced(r)
         /\ Bidding!PublishAutoOutbid(r) => P!PublishAutoOutbid(r)
         /\ Bidding!UpdateListingAuto(r) => P!UpdateListingAuto(r)
         /\ Bidding!DropAutoHold(r) => P!DropAutoHold(r)
         /\ Bidding!DeleteAutoBid(r) => P!DeleteAutoBid(r)
         /\ Bidding!RescheduleAuto(r) => P!RescheduleAuto(r)
         /\ Bidding!PublishAutoPlaced(r) => P!PublishAutoPlaced(r)
  <1>1. Bidding!HoldAuto(r) => P!HoldAuto(r)
    BY Zenon DEF Bidding!HoldAuto, P!HoldAuto, Bidding!At, P!At, Bidding!HoldFunds,
       P!HoldFunds, Bidding!AutoId, P!AutoId, Bidding!NewHold, P!NewHold, Bidding!Rupiah,
       P!Rupiah
  <1>2. Bidding!WriteAuto(r) => P!WriteAuto(r)
    BY Zenon DEF Bidding!WriteAuto, P!WriteAuto, Bidding!At, P!At, Bidding!RaisesOwn,
       P!RaisesOwn, Bidding!RaisedRow, P!RaisedRow, Bidding!AutoRow, P!AutoRow,
       Bidding!AutoId, P!AutoId, Bidding!AutoTime, P!AutoTime
  <1>3. Bidding!UndoAutoHold(r) => P!UndoAutoHold(r)
    BY Zenon DEF Bidding!UndoAutoHold, P!UndoAutoHold, Bidding!At, P!At, Bidding!ReleaseHold,
       P!ReleaseHold, Bidding!IsActive, P!IsActive, Bidding!AutoId, P!AutoId,
       Bidding!RaisesOwn, P!RaisesOwn, Bidding!Answer, P!Answer, Bidding!Blank, P!Blank,
       Bidding!NoBid, P!NoBid
  <1>4. Bidding!ReleaseReplaced(r) => P!ReleaseReplaced(r)
    BY Zenon DEF Bidding!ReleaseReplaced, P!ReleaseReplaced, Bidding!At, P!At,
       Bidding!ReleaseHold, P!ReleaseHold, Bidding!IsActive, P!IsActive
  <1>5. Bidding!PublishAutoOutbid(r) => P!PublishAutoOutbid(r)
    BY Zenon DEF Bidding!PublishAutoOutbid, P!PublishAutoOutbid, Bidding!At, P!At,
       Bidding!Publish, P!Publish, Bidding!RaisesOwn, P!RaisesOwn
  <1>6. Bidding!UpdateListingAuto(r) => P!UpdateListingAuto(r)
    BY Zenon DEF Bidding!UpdateListingAuto, P!UpdateListingAuto, Bidding!At, P!At
  <1>7. Bidding!DropAutoHold(r) => P!DropAutoHold(r)
    BY Zenon DEF Bidding!DropAutoHold, P!DropAutoHold, Bidding!At, P!At, Bidding!ReleaseHold,
       P!ReleaseHold, Bidding!IsActive, P!IsActive, Bidding!AutoId, P!AutoId
  <1>8. Bidding!DeleteAutoBid(r) => P!DeleteAutoBid(r)
    BY Zenon DEF Bidding!DeleteAutoBid, P!DeleteAutoBid, Bidding!At, P!At, Bidding!RaisesOwn,
       P!RaisesOwn, Bidding!AutoId, P!AutoId
  <1>9. Bidding!RescheduleAuto(r) => P!RescheduleAuto(r)
    BY Zenon DEF Bidding!RescheduleAuto, P!RescheduleAuto, Bidding!At, P!At,
       Bidding!UpsertPending, P!UpsertPending
  <1>10. Bidding!PublishAutoPlaced(r) => P!PublishAutoPlaced(r)
    BY Zenon DEF Bidding!PublishAutoPlaced, P!PublishAutoPlaced, Bidding!At, P!At,
       Bidding!Publish, P!Publish, Bidding!AutoRow, P!AutoRow, Bidding!RaisesOwn, P!RaisesOwn,
       Bidding!AutoId, P!AutoId, Bidding!AutoTime, P!AutoTime
  <1>. QED BY <1>1, <1>2, <1>3, <1>4, <1>5, <1>6, <1>7, <1>8, <1>9, <1>10

LEMMA SameEnding ==
  ASSUME NEW r
  PROVE  /\ Bidding!WalletRefuses(r) => P!WalletRefuses(r)
         /\ Bidding!GivesUp(r) => P!GivesUp(r)
         /\ Bidding!WalletTimesOut(r) => P!WalletTimesOut(r)
  <1>1. Bidding!WalletRefuses(r) => P!WalletRefuses(r)
    BY Zenon DEF Bidding!WalletRefuses, P!WalletRefuses, Bidding!Answer, P!Answer,
       Bidding!Blank, P!Blank, Bidding!NoBid, P!NoBid, Bidding!storeVars, P!storeVars
  <1>2. Bidding!GivesUp(r) => P!GivesUp(r)
    BY Zenon DEF Bidding!GivesUp, P!GivesUp, Bidding!InProgress, P!InProgress, Bidding!Inside,
       P!Inside, Bidding!Answer, P!Answer, Bidding!Blank, P!Blank, Bidding!NoBid, P!NoBid,
       Bidding!At, P!At, Bidding!RaisesOwn, P!RaisesOwn, Bidding!storeVars, P!storeVars
  <1>3. Bidding!WalletTimesOut(r) => P!WalletTimesOut(r)
    BY Zenon DEF Bidding!WalletTimesOut, P!WalletTimesOut, Bidding!At, P!At, Bidding!Outbids,
       P!Outbids, Bidding!NoBid, P!NoBid, Bidding!ReleaseHold, P!ReleaseHold,
       Bidding!IsActive, P!IsActive, Bidding!HoldFunds, P!HoldFunds, Bidding!BidId, P!BidId,
       Bidding!NewHold, P!NewHold, Bidding!Rupiah, P!Rupiah, Bidding!AutoId, P!AutoId,
       Bidding!Answer, P!Answer, Bidding!Blank, P!Blank
  <1>. QED BY <1>1, <1>2, <1>3
LEMMA SameStep ==
  ASSUME NEW r, Bidding!Arrive(r) \/ Bidding!Step(r) \/ Bidding!EarlyEnd(r)
  PROVE  P!Arrive(r) \/ P!Step(r) \/ P!EarlyEnd(r)
  <1>1. CASE Bidding!Arrive(r)
    BY <1>1, SameReading
  <1>2. CASE Bidding!Step(r)
    BY <1>2, SameReading, SamePlacing, SameCountering, Zenon DEF Bidding!Step, P!Step
  <1>3. CASE Bidding!EarlyEnd(r)
    BY <1>3, SameEnding, Zenon DEF Bidding!EarlyEnd, P!EarlyEnd
  <1>. QED BY <1>1, <1>2, <1>3

LEMMA SameInit == Bidding!Init => P!Init
  BY Zenon DEF Bidding!Init, P!Init, Bidding!StoreInit, P!StoreInit, Bidding!Blank, P!Blank,
     Bidding!NoBid, P!NoBid

\* the assumptions under which BidPlacementProofs holds
LEMMA Assumed == P!StoreAssumption /\ P!PlacementAssumption
  <1>1. P!StoreAssumption
    BY StoreAssumption DEF P!StoreAssumption, StoreAssumption
  <1>2. P!PlacementAssumption
    BY SystemAssumption DEF P!PlacementAssumption, SystemAssumption
  <1>. QED BY <1>1, <1>2

-----------------------------------------------------------------------------
(* The inductive invariant *)

Handlers == Closing!Handlers

\* Where a handler can be: on PostgreSQL no claim is repeated and none finds the job
\* SETTLING, since it returns the row it has written.
HandlerPCs == {"idle", "claim", "lock", "skip", "early", "answer", "list", "commit", "postpone",
               "failed", "settling", "settle", "unsettled", "done", "gone"}

Jobs == [status : JobStatuses, due : Nat, lockedUntil : Nat]

HandlerTask == [pc : HandlerPCs, time : Nat, claimed : JobStatuses \ {"SETTLING"},
                status : Statuses, end : Nat, rows : SUBSET BidRow]

\* A handler with local variables t decides by stored bids, which the wallet's holds back
\* for good, and settles for the winner it has announced.
HandlerOK(p, t) ==
  /\ t \in HandlerTask
  /\ P!HasBest(t.rows)
  /\ \A x \in t.rows : P!Backed(x)
  /\ t.pc \in {"settling", "settle"} /\ t.status = "WON" =>
       <<"AuctionEnded", p, "WON", Closing!Best(t.rows).id>> \in outbox

SystemInv ==
  /\ P!PlacementInv
  /\ P!WalletInv
  /\ P!Requests = Requests
  /\ DOMAIN task = Handlers
  /\ \A p \in Handlers : HandlerOK(p, task[p])
  /\ OnlyWinnerPays

LEMMA BestRow ==
  ASSUME NEW rows, P!HasBest(rows), rows # {}
  PROVE  Closing!Best(rows) \in rows
  <1>1. \E x \in rows : \A y \in rows \ {x} : Closing!Outranks(x, y)
    BY DEF P!HasBest, P!Outranks, Closing!Outranks
  <1>. QED BY <1>1 DEF Closing!Best

\* a fact about the wallet stays one while holds keep their bidders
HoldsKeep ==
  /\ DOMAIN holds \subseteq DOMAIN holds'
  /\ \A i \in DOMAIN holds : holds'[i].bidder = holds[i].bidder

LEMMA BackedKept ==
  ASSUME HoldsKeep, NEW x, P!Backed(x)
  PROVE  P!Backed(x)'
  BY DEF HoldsKeep, P!Backed, P!Holder

LEMMA HandlerKept ==
  ASSUME NEW p, NEW t, HandlerOK(p, t), HoldsKeep, outbox \subseteq outbox'
  PROVE  HandlerOK(p, t)'
  <1>1. \A x \in t.rows : P!Backed(x)'
    BY BackedKept DEF HandlerOK
  <1>. QED BY <1>1 DEF HandlerOK, P!HasBest, P!Outranks, Closing!Best, Closing!NoBid,
       Closing!Outranks

\* nobody pays who was not announced, while no hold is converted
LEMMA PaysKept ==
  ASSUME OnlyWinnerPays, HoldsKeep, outbox \subseteq outbox',
         \A i \in DOMAIN holds' :
           holds'[i].state = "converted" => i \in DOMAIN holds /\ holds[i].state = "converted"
  PROVE  OnlyWinnerPays'
  <1> SUFFICES ASSUME NEW i \in DOMAIN holds', holds'[i].state = "converted"
               PROVE  \E e \in Closing!EndedEvents' :
                        /\ e[3] = "WON"
                        /\ e[4] \in DOMAIN holds'
                        /\ holds'[e[4]].bidder = holds'[i].bidder
    BY DEF OnlyWinnerPays
  <1>1. i \in DOMAIN holds /\ holds[i].state = "converted"
    OBVIOUS
  <1>2. PICK e \in Closing!EndedEvents : /\ e[3] = "WON"
                                         /\ e[4] \in DOMAIN holds
                                         /\ holds[e[4]].bidder = holds[i].bidder
    BY <1>1 DEF OnlyWinnerPays
  <1>3. e \in Closing!EndedEvents'
    BY <1>2 DEF Closing!EndedEvents
  <1>. QED BY <1>1, <1>2, <1>3 DEF HoldsKeep

-----------------------------------------------------------------------------
(* Bidding *)

LEMMA BiddingKeepsInv ==
  ASSUME SystemInv, NEW r \in Requests,
         Bidding!Arrive(r) \/ Bidding!Step(r) \/ Bidding!EarlyEnd(r), UNCHANGED closingVars
  PROVE  SystemInv'
  <1>1. /\ P!PlacementInv /\ P!WalletInv /\ r \in P!Requests
        /\ P!Arrive(r) \/ P!Step(r) \/ P!EarlyEnd(r)
    BY SameStep DEF SystemInv
  <1>2. P!PlacementInv'
    BY <1>1, Assumed, P!RequestKeepsInv
  <1>3. P!WalletInv'
    BY <1>1, Assumed, P!RequestKeepsWallet
  <1>4. P!Requests' = Requests'
    <2>1. P!Requests' = P!Requests
      BY <1>1, Assumed, P!RequestsStay
    <2>2. Requests' = Requests
      BY DEF Requests
    <2>. QED BY <2>1, <2>2 DEF SystemInv
  <1>5. P!HoldsGrow({P!BidId(r), P!AutoId(r)}) /\ outbox \subseteq outbox'
    BY <1>1, Assumed, P!RequestGrows
  <1>6. HoldsKeep
    BY <1>5 DEF P!HoldsGrow, HoldsKeep
  <1>7. OnlyWinnerPays'
    BY <1>5, <1>6, PaysKept DEF P!HoldsGrow, SystemInv
  <1>8. \A p \in Handlers : HandlerOK(p, task[p])'
    <2>1. task' = task
      BY DEF closingVars
    <2> SUFFICES ASSUME NEW p \in Handlers, NEW t, t = task[p]
                 PROVE  HandlerOK(p, t)'
      BY <2>1
    <2>. QED BY <1>5, <1>6, HandlerKept DEF SystemInv
  <1>. QED BY <1>2, <1>3, <1>4, <1>7, <1>8 DEF SystemInv, closingVars, Handlers

-----------------------------------------------------------------------------
(* Closing *)

\* What every step of a handler owes to the invariant.
LEMMA ClosingStep ==
  ASSUME SystemInv, NEW p \in Handlers, NEW t, task' = [task EXCEPT ![p] = t],
         UNCHANGED <<bids, proxies, now, biddingVars>>, HoldsKeep, outbox \subseteq outbox',
         HandlerOK(p, t)', OnlyWinnerPays',
         listing' \in P!Row, job' \in Jobs, DOMAIN holds' = DOMAIN holds,
         \A i \in DOMAIN holds : holds'[i] \in Hold
  PROVE  SystemInv'
  <1>1. P!StoreOK'
    <2>1. P!StoreOK
      BY DEF SystemInv, P!PlacementInv
    <2>2. job' \in [status : P!JobStatuses, due : Nat, lockedUntil : Nat]
      BY DEF Jobs, P!JobStatuses, JobStatuses
    <2>3. \A i \in DOMAIN holds' : holds'[i] \in P!Hold
      BY DEF P!Hold, Hold
    <2>4. P!HasBest(bids)' /\ P!HasLargest(proxies)'
      BY <2>1 DEF P!StoreOK, P!HasBest, P!HasLargest, P!Outranks
    <2>5. P!Row' = P!Row /\ P!BidRow' = P!BidRow /\ P!ProxyRow' = P!ProxyRow
      BY DEF P!Row, P!BidRow, P!ProxyRow
    <2>. QED BY <2>1, <2>2, <2>3, <2>4, <2>5 DEF P!StoreOK, P!Hold, P!JobStatuses, biddingVars
  <1>2. P!PlacementInv'
    BY <1>1, Assumed, P!BackgroundKeepsInv DEF SystemInv, biddingVars
  <1>3. P!WalletInv'
    BY Assumed, P!WalletOutside DEF SystemInv, HoldsKeep, biddingVars
  <1>4. P!Requests' = Requests'
    <2>1. P!Requests' = P!Requests
      BY DEF P!Requests, biddingVars
    <2>2. Requests' = Requests
      BY DEF Requests
    <2>. QED BY <2>1, <2>2 DEF SystemInv
  <1>5. Handlers' = Handlers
    BY DEF Handlers, Closing!Handlers
  <1>6. task'[p] = t /\ DOMAIN task' = Handlers
        /\ \A q \in Handlers \ {p} : task'[q] = task[q]
    BY DEF SystemInv
  <1>7. ASSUME NEW q \in Handlers
        PROVE  HandlerOK(q, task[q])'
    <2>1. CASE q = p
      BY <1>6, <2>1
    <2>2. CASE q # p
      <3>1. PICK u : u = task[q]
        OBVIOUS
      <3>2. HandlerOK(q, u)'
        BY <3>1, HandlerKept DEF SystemInv
      <3>. QED BY <1>6, <2>2, <3>1, <3>2
    <2>. QED BY <2>1, <2>2
  <1>. QED BY <1>2, <1>3, <1>4, <1>5, <1>6, <1>7 DEF SystemInv

\* what every step may rely on
LEMMA HandlerHas ==
  ASSUME SystemInv, NEW p \in Handlers
  PROVE  /\ HandlerOK(p, task[p]) /\ task[p] \in HandlerTask
         /\ listing \in P!Row /\ job \in Jobs /\ now \in Nat
         /\ \A i \in DOMAIN holds : holds[i] \in Hold
         /\ bids \subseteq BidRow /\ P!HasBest(bids) /\ \A x \in bids : P!Backed(x)
  <1>1. P!StoreOK /\ P!WalletInv
    BY DEF SystemInv, P!PlacementInv
  <1>2. HandlerOK(p, task[p])
    BY DEF SystemInv
  <1>. QED BY <1>1, <1>2 DEF P!StoreOK, P!WalletInv, HandlerOK, P!JobStatuses, JobStatuses, Jobs,
       P!Hold, Hold, P!BidRow, BidRow

\* A step that touches nothing but the job, and reads nothing into rows but the bids.
LEMMA PlainStep ==
  ASSUME SystemInv, NEW p \in Handlers, NEW t \in HandlerTask, task' = [task EXCEPT ![p] = t],
         UNCHANGED <<listing, bids, proxies, holds, outbox, now, biddingVars>>, job' \in Jobs,
         t.rows \in {{}, bids, task[p].rows},
         t.pc \in {"settling", "settle"} =>
           /\ task[p].pc \in {"settling", "settle"}
           /\ t.status = task[p].status /\ t.rows = task[p].rows
  PROVE  SystemInv'
  <1>1. P!HasBest({}) /\ HoldsKeep
    BY DEF P!HasBest, HoldsKeep
  <1>2. HandlerOK(p, t)
    BY <1>1, HandlerHas DEF HandlerOK
  <1>3. HandlerOK(p, t)'
    BY <1>1, <1>2, HandlerKept
  <1>4. OnlyWinnerPays'
    BY <1>1, PaysKept DEF SystemInv
  <1>. QED BY <1>1, <1>3, <1>4, HandlerHas, ClosingStep

\* a handler that gives up, or is done
LEMMA FinishStep ==
  ASSUME SystemInv, NEW p \in Handlers, Closing!Finish(p), job' \in Jobs,
         UNCHANGED <<listing, bids, proxies, holds, outbox, now, biddingVars>>
  PROVE  SystemInv'
  <1>1. PICK t : t = Closing!Finished(p)
    OBVIOUS
  <1>2. t \in HandlerTask /\ t.rows = {} /\ t.pc \in {"idle", "gone"}
    BY <1>1 DEF Closing!Finished, Closing!Idle, HandlerTask, HandlerPCs, JobStatuses, Statuses,
       Biddable, Terminal
  <1>. QED BY <1>1, <1>2, PlainStep DEF Closing!Finish

\* up to the decision: claiming the job, locking the row, listing the bids
LEMMA DecidingKeepsInv ==
  ASSUME SystemInv, NEW p \in Handlers, UNCHANGED biddingVars,
         \/ Closing!Wake(p) \/ Closing!ClaimReturning(p) \/ Closing!FindCandidate(p)
         \/ Closing!ClaimCandidate(p) \/ Closing!Request(p) \/ Closing!LockRow(p)
         \/ Closing!Resume(p) \/ Closing!Skip(p) \/ Closing!Early(p) \/ Closing!ListBids(p)
  PROVE  SystemInv'
  <1>1. /\ task[p] \in HandlerTask /\ listing \in P!Row /\ job \in Jobs /\ now \in Nat
        /\ bids \subseteq BidRow
    BY HandlerHas
  <1>2. ASSUME NEW t \in HandlerTask, task' = [task EXCEPT ![p] = t], job' \in Jobs,
               UNCHANGED <<listing, bids, proxies, holds, outbox, now>>,
               t.rows \in {{}, bids, task[p].rows}, t.pc \notin {"settling", "settle"}
        PROVE  SystemInv'
    BY <1>2, PlainStep
  <1>3. CASE Closing!Wake(p)
    <2>1. PICK t : t = [task[p] EXCEPT !.pc = "claim", !.time = now]
      OBVIOUS
    <2>2. t \in HandlerTask /\ t.rows = task[p].rows /\ t.pc = "claim"
      BY <1>1, <2>1 DEF HandlerTask, HandlerPCs
    <2>3. task' = [task EXCEPT ![p] = t]
      BY <1>3, <2>1 DEF Closing!Wake
    <2>4. job' \in Jobs
      BY <1>1, <1>3 DEF Closing!Wake, Closing!Unlocked, Jobs, JobStatuses, P!Row
    <2>. QED BY <1>2, <1>3, <2>2, <2>3, <2>4 DEF Closing!Wake
  <1>4. CASE Closing!ClaimReturning(p)
    <2>1. CASE Closing!Finish(p) /\ job' = job
      BY <1>1, <1>4, <2>1, FinishStep DEF Closing!ClaimReturning
    <2>2. CASE ~(Closing!Finish(p) /\ job' = job)
      <3>1. /\ job' = Closing!Locked(p)
            /\ task' = [task EXCEPT ![p].pc = "lock", ![p].claimed = job'.status]
        BY <1>4, <2>2, Zenon DEF Closing!ClaimReturning
      <3>2. job' \in Jobs /\ job'.status = "PROCESSING"
        <4>1. PICK until \in Nat : until = task[p].time + LockTime
          BY <1>1, SystemAssumption DEF HandlerTask, SystemAssumption
        <4>2. job' = [job EXCEPT !.status = "PROCESSING", !.lockedUntil = until]
          BY <3>1, <4>1 DEF Closing!Locked
        <4>. QED BY <1>1, <4>2 DEF Jobs, JobStatuses
      <3>3. PICK t : t = [task[p] EXCEPT !.pc = "lock", !.claimed = "PROCESSING"]
        OBVIOUS
      <3>4. t \in HandlerTask /\ t.rows = task[p].rows /\ t.pc = "lock"
        BY <1>1, <3>3 DEF HandlerTask, HandlerPCs, JobStatuses
      <3>5. task' = [task EXCEPT ![p] = t]
        BY <3>1, <3>2, <3>3
      <3>. QED BY <1>2, <1>4, <3>2, <3>4, <3>5 DEF Closing!ClaimReturning
    <2>. QED BY <2>1, <2>2
  <1>5. CASE Closing!FindCandidate(p) \/ Closing!ClaimCandidate(p) \/ Closing!Resume(p)
    <2>1. task[p].pc \notin {"claimit", "resume"}
      BY <1>1 DEF HandlerTask, HandlerPCs
    <2>. QED BY <1>5, <2>1 DEF Closing!FindCandidate, Closing!ClaimCandidate, Closing!Resume,
         Closing!At
  <1>6. CASE Closing!Request(p)
    <2>1. PICK t : t = [task[p] EXCEPT !.pc = "lock", !.time = now]
      OBVIOUS
    <2>2. t \in HandlerTask /\ t.rows = task[p].rows /\ t.pc = "lock"
      BY <1>1, <2>1 DEF HandlerTask, HandlerPCs
    <2>3. task' = [task EXCEPT ![p] = t]
      BY <1>6, <2>1 DEF Closing!Request
    <2>. QED BY <1>1, <1>2, <1>6, <2>2, <2>3 DEF Closing!Request, Closing!storeVars
  <1>7. CASE Closing!LockRow(p)
    <2>1. PICK pc : pc = Closing!Decision(p)
      OBVIOUS
    <2>2. pc \in {"skip", "early", "list", "answer"}
      BY <1>1, <2>1 DEF Closing!Decision, HandlerTask
    <2>3. PICK t : t = [task[p] EXCEPT !.pc = pc, !.status = listing.status,
                                       !.end = listing.end]
      OBVIOUS
    <2>4. t \in HandlerTask /\ t.rows = task[p].rows /\ t.pc = pc
      BY <1>1, <2>2, <2>3 DEF HandlerTask, HandlerPCs, P!Row, P!Statuses, P!Biddable, P!Terminal,
         Statuses, Biddable, Terminal
    <2>5. task' = [task EXCEPT ![p] = t]
      BY <1>7, <2>1, <2>3 DEF Closing!LockRow
    <2>. QED BY <1>1, <1>2, <1>7, <2>2, <2>4, <2>5 DEF Closing!LockRow, Closing!storeVars
  <1>8. ASSUME NEW pc \in {"done", "postpone"}, Closing!Unlock(p, pc)
        PROVE  SystemInv'
    <2>1. PICK t : t = [task[p] EXCEPT !.pc = pc]
      OBVIOUS
    <2>2. t \in HandlerTask /\ t.rows = task[p].rows /\ t.pc = pc
      BY <1>1, <2>1 DEF HandlerTask, HandlerPCs
    <2>3. task' = [task EXCEPT ![p] = t]
      BY <1>8, <2>1 DEF Closing!Unlock
    <2>. QED BY <1>1, <1>2, <1>8, <2>2, <2>3 DEF Closing!Unlock, Closing!storeVars
  <1>9. CASE Closing!Skip(p) \/ Closing!Early(p)
    BY <1>8, <1>9 DEF Closing!Skip, Closing!Early
  <1>10. CASE Closing!ListBids(p)
    <2>1. PICK t : t = [task[p] EXCEPT !.pc = "commit", !.rows = bids]
      OBVIOUS
    <2>2. t \in HandlerTask /\ t.rows = bids /\ t.pc = "commit"
      BY <1>1, <2>1 DEF HandlerTask, HandlerPCs
    <2>3. task' = [task EXCEPT ![p] = t]
      BY <1>10, <2>1 DEF Closing!ListBids
    <2>. QED BY <1>1, <1>2, <1>10, <2>2, <2>3 DEF Closing!ListBids, Closing!storeVars
  <1>. QED BY <1>3, <1>4, <1>5, <1>6, <1>7, <1>9, <1>10

\* the ends of an attempt, and what is put back
LEMMA LeavingKeepsInv ==
  ASSUME SystemInv, NEW p \in Handlers, UNCHANGED biddingVars,
         \/ Closing!AnswerAtOnce(p) \/ Closing!Postpone(p) \/ Closing!MarkFailed(p)
         \/ Closing!MarkSettlementFailed(p) \/ Closing!MarkDone(p) \/ Closing!CutShort(p)
         \/ Closing!FailClosure(p) \/ Closing!MarkSettling(p)
  PROVE  SystemInv'
  <1>1. task[p] \in HandlerTask /\ job \in Jobs
    BY HandlerHas
  <1>2. CASE Closing!AnswerAtOnce(p) \/ Closing!CutShort(p)
    BY <1>1, <1>2, FinishStep DEF Closing!AnswerAtOnce, Closing!CutShort, Closing!storeVars
  <1>3. /\ task[p].time + RetryDelay \in Nat /\ task[p].end \in Nat
        /\ job = [status |-> job.status, due |-> job.due, lockedUntil |-> job.lockedUntil]
        /\ job.status \in JobStatuses /\ job.due \in Nat
    BY <1>1, SystemAssumption DEF HandlerTask, SystemAssumption, Jobs
  <1>4. CASE Closing!Postpone(p) \/ Closing!MarkFailed(p) \/ Closing!MarkSettlementFailed(p)
             \/ Closing!MarkDone(p)
    <2>1. job' \in Jobs
      <3>1. CASE Closing!Postpone(p)
        <4>1. PICK status : status = IF job.status \in {"DONE", "SETTLING"} THEN job.status
                                                                           ELSE "PENDING"
          OBVIOUS
        <4>2. status \in JobStatuses
          BY <4>1 DEF JobStatuses
        <4>3. job' = [job EXCEPT !.due = task[p].end, !.status = status, !.lockedUntil = 0]
          BY <3>1, <4>1 DEF Closing!Postpone, Closing!UpsertPending
        <4>. QED BY <1>1, <1>3, <4>2, <4>3 DEF Jobs
      <3>2. \A status \in JobStatuses, due \in Nat : Closing!Unlocked(status, due) \in Jobs
        BY DEF Closing!Unlocked, Jobs
      <3>3. {"PENDING", "SETTLING", "DONE"} \subseteq JobStatuses
        BY DEF JobStatuses
      <3>. QED BY <1>3, <1>4, <3>1, <3>2, <3>3 DEF Closing!MarkFailed,
           Closing!MarkSettlementFailed, Closing!MarkDone
    <2>. QED BY <1>4, <2>1, FinishStep DEF Closing!Postpone, Closing!MarkFailed,
         Closing!MarkSettlementFailed, Closing!MarkDone
  <1>5. CASE Closing!FailClosure(p)
    <2>1. CASE Closing!Finish(p)
      BY <1>1, <1>5, <2>1, FinishStep DEF Closing!FailClosure, Closing!storeVars
    <2>2. CASE task' = [task EXCEPT ![p].pc = "failed"]
      <3>1. PICK t : t = [task[p] EXCEPT !.pc = "failed"]
        OBVIOUS
      <3>2. t \in HandlerTask /\ t.rows = task[p].rows /\ t.pc = "failed"
        BY <1>1, <3>1 DEF HandlerTask, HandlerPCs
      <3>3. task' = [task EXCEPT ![p] = t]
        BY <2>2, <3>1
      <3>. QED BY <1>1, <1>5, <3>2, <3>3, PlainStep DEF Closing!FailClosure, Closing!storeVars
    <2>. QED BY <1>5, <2>1, <2>2 DEF Closing!FailClosure
  <1>6. CASE Closing!MarkSettling(p)
    <2>1. PICK t : t = [task[p] EXCEPT !.pc = "settle"]
      OBVIOUS
    <2>2. /\ t \in HandlerTask /\ t.rows = task[p].rows /\ t.status = task[p].status
      BY <1>1, <2>1 DEF HandlerTask, HandlerPCs
    <2>3. task' = [task EXCEPT ![p] = t] /\ task[p].pc = "settling"
      BY <1>6, <2>1 DEF Closing!MarkSettling, Closing!At
    <2>4. job' \in Jobs
      BY <1>1, <1>6 DEF Closing!MarkSettling, Closing!Unlocked, Jobs, JobStatuses, HandlerTask
    <2>. QED BY <1>6, <2>2, <2>3, <2>4, PlainStep DEF Closing!MarkSettling
  <1>. QED BY <1>2, <1>4, <1>5, <1>6

\* the outcome and its announcement become visible
LEMMA CommitKeepsInv ==
  ASSUME SystemInv, NEW p \in Handlers, UNCHANGED biddingVars, Closing!CommitClosure(p)
  PROVE  SystemInv'
  <1>1. /\ HandlerOK(p, task[p]) /\ task[p] \in HandlerTask /\ listing \in P!Row /\ job \in Jobs
        /\ \A i \in DOMAIN holds : holds[i] \in Hold
    BY HandlerHas
  <1> DEFINE rows == task[p].rows
  <1>2. PICK amount, outcome : amount = Closing!Highest(rows) /\ outcome = Closing!Outcome(rows)
    OBVIOUS
  <1>3. amount \in Nat
    <2>1. CASE rows = {}
      BY <1>1, <1>2, <2>1 DEF Closing!Highest, P!Row
    <2>2. CASE rows # {}
      <3>1. Closing!Best(rows) \in BidRow
        BY <1>1, <2>2, BestRow DEF HandlerOK, HandlerTask
      <3>. QED BY <1>2, <2>2, <3>1 DEF Closing!Highest, BidRow
    <2>. QED BY <2>1, <2>2
  <1>4. outcome \in {"WON", "UNSOLD"}
    BY <1>2 DEF Closing!Outcome
  <1>5. listing' \in P!Row
    <2>1. listing' = [listing EXCEPT !.status = outcome, !.highest = amount]
      BY <1>2 DEF Closing!CommitClosure
    <2>. QED BY <1>1, <1>3, <1>4, <2>1 DEF P!Row, P!Statuses, P!Terminal
  <1>6. HoldsKeep
    BY DEF Closing!CommitClosure, HoldsKeep
  <1>7. PICK event : event = Closing!Announcement(p, rows) /\ outbox' = outbox \cup {event}
    BY DEF Closing!CommitClosure, Closing!Publish
  <1>8. PICK t : t = [task[p] EXCEPT !.pc = "settling", !.status = outcome]
    OBVIOUS
  <1>9. t \in HandlerTask /\ t.rows = rows /\ t.status = outcome
    BY <1>1, <1>4, <1>8 DEF HandlerTask, HandlerPCs, Statuses, Terminal
  <1>10. HandlerOK(p, t)'
    <2>1. P!HasBest(t.rows)' /\ \A x \in t.rows : P!Backed(x)'
      BY <1>1, <1>6, <1>9, BackedKept DEF HandlerOK, P!HasBest, P!Outranks
    <2>2. \A rs : (Closing!Best(rs))' = Closing!Best(rs)
      BY DEF Closing!Best, Closing!NoBid, Closing!Outranks
    <2>3. t.status = "WON" => <<"AuctionEnded", p, "WON", Closing!Best(t.rows).id>> \in outbox'
      BY <1>2, <1>7, <1>9 DEF Closing!Announcement
    <2>. QED BY <1>9, <2>1, <2>2, <2>3 DEF HandlerOK
  <1>11. OnlyWinnerPays'
    BY <1>6, <1>7, PaysKept DEF SystemInv, Closing!CommitClosure
  <1>12. task' = [task EXCEPT ![p] = t]
    BY <1>2, <1>8 DEF Closing!CommitClosure
  <1>. QED BY <1>1, <1>5, <1>6, <1>7, <1>10, <1>11, <1>12, ClosingStep DEF Closing!CommitClosure

\* A hold that is converted is one of the winner the handler has announced.
LEMMA ChargesWinner ==
  ASSUME SystemInv, NEW p \in Handlers, task[p].pc = "settle", task[p].status = "WON",
         task[p].rows # {}, Closing!Charge(Closing!Winner(p).hold), outbox \subseteq outbox'
  PROVE  /\ HoldsKeep /\ OnlyWinnerPays' /\ DOMAIN holds' = DOMAIN holds
         /\ \A i \in DOMAIN holds : holds'[i] \in Hold
  <1>1. HandlerOK(p, task[p]) /\ \A i \in DOMAIN holds : holds[i] \in Hold
    BY HandlerHas
  <1>2. PICK x : x = Closing!Winner(p)
    OBVIOUS
  <1>3. /\ P!Backed(x)
        /\ <<"AuctionEnded", p, "WON", x.id>> \in outbox
    BY <1>1, <1>2, BestRow DEF HandlerOK, Closing!Winner
  <1>4. /\ x.id \in DOMAIN holds /\ holds[x.id].bidder = x.bidder
        /\ x.hold \in DOMAIN holds /\ holds[x.hold].bidder = x.bidder
    BY <1>3 DEF P!Backed, P!Holder
  <1>5. \/ holds' = holds
        \/ holds' = [holds EXCEPT ![x.hold].state = "converted"]
    BY <1>2 DEF Closing!Charge
  <1>6. /\ DOMAIN holds' = DOMAIN holds
        /\ \A i \in DOMAIN holds : holds'[i] \in Hold /\ holds'[i].bidder = holds[i].bidder
        /\ \A i \in DOMAIN holds \ {x.hold} : holds'[i] = holds[i]
    BY <1>1, <1>4, <1>5 DEF Hold
  <1>7. HoldsKeep
    BY <1>6 DEF HoldsKeep
  <1>8. ASSUME NEW i \in DOMAIN holds', holds'[i].state = "converted"
        PROVE  \E e \in Closing!EndedEvents' :
                 /\ e[3] = "WON"
                 /\ e[4] \in DOMAIN holds'
                 /\ holds'[e[4]].bidder = holds'[i].bidder
    <2>1. CASE i = x.hold
      <3>1. PICK e : e = <<"AuctionEnded", p, "WON", x.id>>
        OBVIOUS
      <3>2. e \in Closing!EndedEvents' /\ e[3] = "WON" /\ e[4] = x.id
        BY <1>3, <3>1 DEF Closing!EndedEvents
      <3>3. holds'[x.id].bidder = holds'[i].bidder /\ x.id \in DOMAIN holds'
        BY <1>4, <1>6, <2>1
      <3>. QED BY <3>2, <3>3
    <2>2. CASE i # x.hold
      <3>1. i \in DOMAIN holds /\ holds[i].state = "converted"
        BY <1>6, <1>8, <2>2
      <3>2. PICK e \in Closing!EndedEvents : /\ e[3] = "WON"
                                             /\ e[4] \in DOMAIN holds
                                             /\ holds[e[4]].bidder = holds[i].bidder
        BY <3>1 DEF SystemInv, OnlyWinnerPays
      <3>3. e \in Closing!EndedEvents'
        BY <3>2 DEF Closing!EndedEvents
      <3>. QED BY <1>6, <3>1, <3>2, <3>3
    <2>. QED BY <2>1, <2>2
  <1>. QED BY <1>6, <1>7, <1>8 DEF OnlyWinnerPays

LEMMA ReleasesOnly ==
  ASSUME SystemInv, NEW id, Closing!ReleaseHold(id), outbox \subseteq outbox'
  PROVE  /\ HoldsKeep /\ OnlyWinnerPays' /\ DOMAIN holds' = DOMAIN holds
         /\ \A i \in DOMAIN holds : holds'[i] \in Hold
  <1>1. \A i \in DOMAIN holds : holds[i] \in Hold
    BY DEF SystemInv, P!PlacementInv, P!StoreOK, P!Hold, Hold
  <1>2. \/ holds' = holds
        \/ id \in DOMAIN holds /\ holds' = [holds EXCEPT ![id].state = "released"]
    BY DEF Closing!ReleaseHold, Closing!IsActive
  <1>3. /\ DOMAIN holds' = DOMAIN holds
        /\ \A i \in DOMAIN holds : holds'[i] \in Hold /\ holds'[i].bidder = holds[i].bidder
        /\ \A i \in DOMAIN holds : holds'[i].state = "converted" => holds[i].state = "converted"
    BY <1>1, <1>2 DEF Hold
  <1>4. HoldsKeep
    BY <1>3 DEF HoldsKeep
  <1>. QED BY <1>3, <1>4, PaysKept DEF SystemInv

LEMMA SettlingKeepsInv ==
  ASSUME SystemInv, NEW p \in Handlers, UNCHANGED biddingVars,
         \/ Closing!ConvertHold(p) \/ Closing!CannotConvert(p) \/ Closing!ReleaseNext(p)
         \/ Closing!AllReleased(p) \/ Closing!WalletFails(p)
  PROVE  SystemInv'
  <1>1. /\ HandlerOK(p, task[p]) /\ task[p] \in HandlerTask /\ listing \in P!Row /\ job \in Jobs
        /\ \A i \in DOMAIN holds : holds[i] \in Hold
    BY HandlerHas
  <1>2. task[p].pc = "settle" /\ UNCHANGED <<listing, bids, proxies, job, outbox, now>>
    BY DEF Closing!ConvertHold, Closing!CannotConvert, Closing!ReleaseNext, Closing!AllReleased,
       Closing!WalletFails, Closing!At, Closing!storeVars
  <1>3. ASSUME NEW pc \in {"done", "unsettled"}, task' = [task EXCEPT ![p].pc = pc],
               HoldsKeep, OnlyWinnerPays', DOMAIN holds' = DOMAIN holds,
               \A i \in DOMAIN holds : holds'[i] \in Hold
        PROVE  SystemInv'
    <2>1. PICK t : t = [task[p] EXCEPT !.pc = pc]
      OBVIOUS
    <2>2. t \in HandlerTask /\ t.rows = task[p].rows /\ t.pc = pc
      BY <1>1, <2>1 DEF HandlerTask, HandlerPCs
    <2>3. HandlerOK(p, t)'
      BY <1>1, <1>2, <1>3, <2>2, HandlerKept DEF HandlerOK
    <2>4. task' = [task EXCEPT ![p] = t]
      BY <1>3, <2>1
    <2>. QED BY <1>1, <1>2, <1>3, <2>3, <2>4, ClosingStep
  <1>4. UNCHANGED holds => /\ HoldsKeep /\ OnlyWinnerPays' /\ DOMAIN holds' = DOMAIN holds
                           /\ \A i \in DOMAIN holds : holds'[i] \in Hold
    BY <1>1, <1>2, PaysKept DEF HoldsKeep, SystemInv
  <1>5. ASSUME task[p].status = "WON", task[p].rows # {}, Closing!Charge(Closing!Winner(p).hold)
        PROVE  /\ HoldsKeep /\ OnlyWinnerPays' /\ DOMAIN holds' = DOMAIN holds
               /\ \A i \in DOMAIN holds : holds'[i] \in Hold
    BY <1>2, <1>5, ChargesWinner
  <1>6. ASSUME Closing!ReleaseHold(Closing!Winner(p).hold)
        PROVE  /\ HoldsKeep /\ OnlyWinnerPays' /\ DOMAIN holds' = DOMAIN holds
               /\ \A i \in DOMAIN holds : holds'[i] \in Hold
    BY <1>2, <1>6, ReleasesOnly
  <1>7. CASE Closing!ConvertHold(p)
    BY <1>3, <1>5, <1>7 DEF Closing!ConvertHold
  <1>8. CASE Closing!CannotConvert(p) \/ Closing!AllReleased(p)
    BY <1>3, <1>4, <1>8 DEF Closing!CannotConvert, Closing!AllReleased, Closing!storeVars
  <1>9. CASE Closing!WalletFails(p)
    BY <1>3, <1>4, <1>5, <1>6, <1>9 DEF Closing!WalletFails
  <1>10. CASE Closing!ReleaseNext(p)
    <2>1. PICK t : t = [task[p] EXCEPT !.rows = @ \ {Closing!Winner(p)}]
      OBVIOUS
    <2>2. /\ t \in HandlerTask /\ t.rows \subseteq task[p].rows /\ t.status = task[p].status
          /\ t.status # "WON"
      BY <1>1, <1>10, <2>1 DEF HandlerTask, Closing!ReleaseNext
    <2>3. P!HasBest(t.rows)
      BY <1>1, <2>2 DEF HandlerOK, P!HasBest
    <2>4. /\ HoldsKeep /\ OnlyWinnerPays' /\ DOMAIN holds' = DOMAIN holds
          /\ \A i \in DOMAIN holds : holds'[i] \in Hold
      BY <1>6, <1>10 DEF Closing!ReleaseNext
    <2>5. HandlerOK(p, t)
      BY <1>1, <2>2, <2>3 DEF HandlerOK
    <2>6. HandlerOK(p, t)'
      BY <1>2, <2>4, <2>5, HandlerKept
    <2>7. task' = [task EXCEPT ![p] = t]
      BY <1>10, <2>1 DEF Closing!ReleaseNext
    <2>. QED BY <1>1, <1>2, <2>4, <2>6, <2>7, ClosingStep
  <1>. QED BY <1>7, <1>8, <1>9, <1>10

-----------------------------------------------------------------------------
(* The theorems *)

LEMMA SystemInvInit == Init => SystemInv
  <1> SUFFICES ASSUME Init PROVE SystemInv
    OBVIOUS
  <1>1. P!Init
    BY SameInit DEF Init
  <1>2. P!PlacementInv /\ P!WalletInv
    BY <1>1, Assumed, P!PlacementInvInit, P!WalletInit
  <1>3. P!Requests = Requests
    BY <1>1 DEF P!Init, P!Requests, Requests
  <1>4. PICK t : t = Closing!Idle
    OBVIOUS
  <1>5. DOMAIN task = Handlers /\ \A p \in Handlers : task[p] = t
    BY <1>4 DEF Init, Handlers
  <1>6. t \in HandlerTask /\ t.rows = {} /\ t.pc = "idle"
    BY <1>4 DEF Closing!Idle, HandlerTask, HandlerPCs, JobStatuses, Statuses, Biddable
  <1>7. \A p \in Handlers : HandlerOK(p, t)
    BY <1>6 DEF HandlerOK, P!HasBest
  <1>8. OnlyWinnerPays
    BY <1>1 DEF P!Init, P!StoreInit, OnlyWinnerPays
  <1>. QED BY <1>2, <1>3, <1>5, <1>7, <1>8 DEF SystemInv

\* time goes on, or nothing happens
LEMMA WaitingKeepsInv ==
  ASSUME SystemInv, Time \/ UNCHANGED vars
  PROVE  SystemInv'
  <1>1. /\ UNCHANGED <<listing, bids, proxies, holds, job, outbox, guard, req, faults, task>>
        /\ now' \in Nat
    BY DEF Time, Tick, vars, storeVars, biddingVars, closingVars, SystemInv, P!PlacementInv,
       P!StoreOK
  <1>2. P!StoreOK'
    BY <1>1 DEF SystemInv, P!PlacementInv, P!StoreOK, P!Row, P!HasBest, P!HasLargest, P!Outranks
  <1>3. P!PlacementInv'
    BY <1>1, <1>2, Assumed, P!BackgroundKeepsInv DEF SystemInv
  <1>4. P!WalletInv'
    BY <1>1, Assumed, P!WalletOutside DEF SystemInv
  <1>5. HoldsKeep
    BY <1>1 DEF HoldsKeep
  <1>6. \A p \in Handlers : HandlerOK(p, task[p])'
    <2> SUFFICES ASSUME NEW p \in Handlers, NEW t, t = task[p]
                 PROVE  HandlerOK(p, t)'
      BY <1>1
    <2>. QED BY <1>1, <1>5, HandlerKept DEF SystemInv
  <1>7. OnlyWinnerPays'
    BY <1>1, <1>5, PaysKept DEF SystemInv
  <1>8. P!Requests' = Requests'
    <2>1. P!Requests' = P!Requests
      BY <1>1 DEF P!Requests
    <2>2. Requests' = Requests
      BY DEF Requests
    <2>. QED BY <2>1, <2>2 DEF SystemInv
  <1>. QED BY <1>1, <1>3, <1>4, <1>6, <1>7, <1>8 DEF SystemInv, Handlers, Closing!Handlers

LEMMA ClosingKeepsInv ==
  ASSUME SystemInv, NEW p \in Handlers, CloseStep(p) \/ CloseInput(p)
  PROVE  SystemInv'
  <1>1. UNCHANGED biddingVars
    BY DEF CloseStep, CloseInput
  <1>2. Closing!Step(p) \/ Closing!Request(p) \/ Closing!FailClosure(p)
        \/ Closing!WalletFails(p) \/ Closing!CutShort(p)
    BY DEF CloseStep, CloseInput
  <1>. QED BY <1>1, <1>2, DecidingKeepsInv, LeavingKeepsInv, CommitKeepsInv, SettlingKeepsInv,
           Zenon DEF Closing!Step

LEMMA SystemInvStep == SystemInv /\ [Next]_vars => SystemInv'
  <1> SUFFICES ASSUME SystemInv, [Next]_vars PROVE SystemInv'
    OBVIOUS
  <1>1. ASSUME NEW r \in Requests, BidStep(r) \/ BidInput(r)
        PROVE  SystemInv'
    BY <1>1, BiddingKeepsInv DEF BidStep, BidInput
  <1>2. ASSUME NEW p \in Closing!Handlers, CloseStep(p) \/ CloseInput(p)
        PROVE  SystemInv'
    BY <1>2, ClosingKeepsInv DEF Handlers
  <1>3. CASE Time \/ UNCHANGED vars
    BY <1>3, WaitingKeepsInv
  <1>. QED BY <1>1, <1>2, <1>3 DEF Next

LEMMA SystemIsSound == Spec => []SystemInv
  BY SystemInvInit, SystemInvStep, PTL DEF Spec

\* However requests and closings interleave, on any number of replicas and through any
\* failure: a hold that is converted is one of a bidder who was announced as the winner.
THEOREM WinnerPays == Spec => []OnlyWinnerPays
  <1>1. SystemInv => OnlyWinnerPays
    BY DEF SystemInv
  <1>. QED BY <1>1, SystemIsSound, PTL

-----------------------------------------------------------------------------
(* A closed auction stays closed *)

\* A request with local variables t inside the mutex has not read the auction yet, or
\* has found it closed.
Late(t) ==
  \/ t.pc \in {"new", "waiting", "done", "read"}
  \/ t.pc = "winner" /\ t.row.status \notin Biddable

Shut == Closed /\ \A r \in Requests : Late(req[r])

LEMMA LateStep ==
  ASSUME SystemInv, Shut, NEW r \in Requests, P!Arrive(r) \/ P!Step(r) \/ P!EarlyEnd(r)
  PROVE  /\ listing' = listing
         /\ \E t : req' = [req EXCEPT ![r] = t] /\ Late(t)
  <1>1. /\ Late(req[r]) /\ Closed
        /\ P!PlacementInv /\ r \in P!Requests
    BY DEF Shut, SystemInv
  <1>2. req[r] \in P!Local
    BY <1>1, Assumed, P!RequestIsOK
  <1>3. ASSUME NEW result, P!Answer(r, result)
        PROVE  \E t : req' = [req EXCEPT ![r] = t] /\ Late(t)
    <2>1. PICK t : /\ req' = [req EXCEPT ![r] = t]
                   /\ t = [P!Blank(req[r].replica) EXCEPT
                             !.pc = "done", !.result = result,
                             !.stopped = IF result = "Ok" THEN "none" ELSE req[r].pc,
                             !.bidder = req[r].bidder, !.kind = req[r].kind,
                             !.accepted = req[r].accepted, !.prev = req[r].prev]
      BY <1>3, Zenon DEF P!Answer
    <2>2. t.pc = "done"
      BY <2>1 DEF P!Blank
    <2>. QED BY <2>1, <2>2 DEF Late
  <1>4. req[r].pc \in {"new", "waiting", "done", "read", "winner"}
    BY <1>1 DEF Late
  <1>5. CASE P!Arrive(r)
    <2>1. PICK o : req' = [req EXCEPT ![r].pc = "waiting", ![r].bidder = o.bidder,
                             ![r].kind = o.kind, ![r].offer = o.offer, ![r].time = now]
      BY <1>5 DEF P!Arrive
    <2>2. PICK t : t = [req[r] EXCEPT !.pc = "waiting", !.bidder = o.bidder,
                                      !.kind = o.kind, !.offer = o.offer, !.time = now]
      OBVIOUS
    <2>3. t.pc = "waiting" /\ req' = [req EXCEPT ![r] = t]
      BY <1>2, <2>1, <2>2 DEF P!Local
    <2>. QED BY <1>5, <2>3 DEF P!Arrive, P!storeVars, Late
  <1>6. CASE P!EnterGuard(r)
    <2>1. PICK t : t = [req[r] EXCEPT !.pc = "read"]
      OBVIOUS
    <2>2. t.pc = "read" /\ req' = [req EXCEPT ![r] = t]
      BY <1>2, <1>6, <2>1 DEF P!EnterGuard, P!Local
    <2>. QED BY <1>6, <2>2 DEF P!EnterGuard, P!storeVars, Late
  <1>7. CASE P!ReadAuction(r)
    <2>1. CASE req' = [req EXCEPT ![r].pc = "winner", ![r].row = listing]
      <3>1. PICK t : t = [req[r] EXCEPT !.pc = "winner", !.row = listing]
        OBVIOUS
      <3>2. t.pc = "winner" /\ t.row = listing /\ req' = [req EXCEPT ![r] = t]
        BY <1>2, <2>1, <3>1 DEF P!Local
      <3>3. listing.status \notin Biddable
        BY <1>1 DEF Closed, Closing!Closed, Biddable
      <3>. QED BY <1>7, <3>2, <3>3 DEF P!ReadAuction, P!storeVars, Late
    <2>. QED BY <1>3, <1>7, <2>1 DEF P!ReadAuction, P!storeVars
  <1>8. CASE P!ReadWinner(r)
    <2>1. req[r].pc = "winner"
      BY <1>8 DEF P!ReadWinner, P!At
    <2>2. ~P!OpenAt(req[r].row, req[r].time)
      BY <1>1, <2>1 DEF Late, P!OpenAt, P!Biddable, Biddable
    <2>3. P!Answer(r, "Refused") /\ listing' = listing
      BY <1>8, <2>2 DEF P!ReadWinner, P!Accepts, P!storeVars
    <2>. QED BY <1>3, <2>3
  <1>9. CASE P!EarlyEnd(r)
    <2>1. P!GivesUp(r) /\ P!Answer(r, "Error")
      BY <1>4, <1>9 DEF P!EarlyEnd, P!WalletRefuses, P!GivesUp, P!WalletTimesOut, P!At
    <2>. QED BY <1>3, <2>1 DEF P!GivesUp, P!storeVars
  <1>10. P!Step(r) => P!EnterGuard(r) \/ P!ReadAuction(r) \/ P!ReadWinner(r)
    BY <1>4 DEF P!Step, P!At, P!SaveOwnProxy, P!ReadSession, P!SaveProxy, P!ReleasePrevious,
       P!HoldNew, P!InsertNew, P!UndoHold, P!PublishOutbid, P!UpdateListing,
       P!RereadListing, P!Reschedule,
       P!PublishPlaced, P!ReadBoard, P!ReadContest, P!ReadAutoSession, P!HoldAuto, P!WriteAuto,
       P!UndoAutoHold, P!ReleaseReplaced, P!PublishAutoOutbid, P!UpdateListingAuto,
       P!DropAutoHold, P!DeleteAutoBid, P!RescheduleAuto, P!PublishAutoPlaced
  <1>. QED BY <1>5, <1>6, <1>7, <1>8, <1>9, <1>10

LEMMA ShutStep == SystemInv /\ Shut /\ [Next]_vars => Shut'
  <1> SUFFICES ASSUME SystemInv, Shut, [Next]_vars PROVE Shut'
    OBVIOUS
  <1>1. ASSUME NEW r \in Requests, BidStep(r) \/ BidInput(r)
        PROVE  Shut'
    <2>1. P!Arrive(r) \/ P!Step(r) \/ P!EarlyEnd(r)
      BY <1>1, SameStep DEF BidStep, BidInput
    <2>2. PICK t : listing' = listing /\ req' = [req EXCEPT ![r] = t] /\ Late(t)
      BY <2>1, LateStep
    <2>3. \A q \in Requests : req'[q] = IF q = r THEN t ELSE req[q]
      BY <2>2 DEF SystemInv, P!Requests
    <2>4. ASSUME NEW q \in Requests
          PROVE  Late(req'[q])
      BY <2>2, <2>3 DEF Shut
    <2>. QED BY <2>2, <2>4 DEF Shut, Closed, Closing!Closed, Requests, Late
  <1>2. ASSUME NEW p \in Closing!Handlers, CloseStep(p) \/ CloseInput(p)
        PROVE  Shut'
    <2>1. req' = req
      BY <1>2 DEF CloseStep, CloseInput, biddingVars
    <2>2. Closed'
      <3>1. CASE Closing!CommitClosure(p)
        <4>1. listing'.status = Closing!Outcome(task[p].rows)
          BY <3>1 DEF Closing!CommitClosure, SystemInv, P!PlacementInv, P!StoreOK, P!Row
        <4>. QED BY <4>1 DEF Closed, Closing!Closed, Closing!Outcome
      <3>2. CASE listing' = listing
        BY <3>2 DEF Shut, Closed, Closing!Closed
      <3>3. Closing!CommitClosure(p) \/ listing' = listing
        BY <1>2 DEF CloseStep, CloseInput, Closing!Step, Closing!Request, Closing!FailClosure,
           Closing!WalletFails, Closing!CutShort, Closing!Wake, Closing!ClaimReturning,
           Closing!FindCandidate, Closing!ClaimCandidate, Closing!LockRow, Closing!Resume,
           Closing!Skip, Closing!Early, Closing!Unlock, Closing!AnswerAtOnce, Closing!Postpone,
           Closing!ListBids, Closing!MarkSettling, Closing!MarkFailed, Closing!ConvertHold,
           Closing!CannotConvert, Closing!ReleaseNext, Closing!AllReleased,
           Closing!MarkSettlementFailed, Closing!MarkDone, Closing!storeVars
      <3>. QED BY <3>1, <3>2, <3>3
    <2>. QED BY <2>1, <2>2 DEF Shut, Requests, Late
  <1>3. CASE Time \/ UNCHANGED vars
    BY <1>3 DEF Time, Tick, vars, storeVars, biddingVars, Shut, Closed, Closing!Closed, Requests,
       Late
  <1>. QED BY <1>1, <1>2, <1>3 DEF Next

\* A request that enters after the outcome sees it and is refused; only one that had read
\* the auction before can write over it.  Once there is none, the outcome is final.
THEOREM StaysClosed == Spec => ClosedForGood
  <1>1. SystemInv /\ Closed /\ Bidding!Quiet => Shut
    <2> SUFFICES ASSUME SystemInv, Closed, Bidding!Quiet PROVE Shut
      OBVIOUS
    <2>1. ASSUME NEW r \in Requests
          PROVE  Late(req[r])
      <3>1. req[r] \in P!Local /\ r \in Bidding!Requests
        BY Assumed, P!RequestIsOK DEF SystemInv, P!Requests, Bidding!Requests
      <3>. QED BY <3>1 DEF Bidding!Quiet, Bidding!InProgress, Bidding!Inside, P!Local, P!PCs,
           P!Inside, Late
    <2>. QED BY <2>1 DEF Shut
  <1>2. Shut => Closed
    BY DEF Shut
  <1>. QED BY <1>1, <1>2, ShutStep, SystemIsSound, PTL DEF Spec, ClosedForGood

-----------------------------------------------------------------------------
(* One replica: what the rows of the database tell a request and a handler     *)

AllOnOne == \A q, r \in Requests : ReplicaOf[q] = ReplicaOf[r]

\* the request has decided on a bid, and on a counter-bid, that the row does not show yet
HasBid == {"saveproxy", "release", "hold", "insert", "undo", "outbid", "update"}
HasCounter == {"autosession", "autohold", "autowrite", "autorelease", "autooutbid", "autoupdate"}

\* What a request with local variables t knows about the rows, however often a closing
\* has written the outcome meanwhile: the end as it is, an end that comes no closer, a
\* stored bid for the price it is to show; and a counter-bid is dropped only once the
\* auction is closed.
RowsKnown(t) ==
  /\ t.pc \in P!Inside \ {"read"} => t.row.end = listing.end
  /\ t.pc \in HasBid => t.after.end >= listing.end /\ t.after.status \in Biddable
  /\ t.pc \in {"outbid", "update"} => \E x \in bids : x.amount >= t.accepted
  /\ t.pc \in HasCounter => /\ t.after.status \in Biddable \/ t.after.end <= listing.end
                            /\ Closed \/ listing.highest < t.target
  /\ t.pc \in {"autorelease", "autooutbid", "autoupdate"} => \E x \in bids : x.amount >= t.target
  /\ t.pc \in {"autodrop", "autodelete"} => Closed \/ t.cur.bidder = t.top

\* an open auction shows no price that no stored bid has reached
PriceBacked(rows) == listing.highest = 0 \/ \E x \in rows : x.amount >= listing.highest

\* the bids a closing has read are those stored, but for raises in place
SameBids(rows) ==
  /\ {x.id : x \in rows} = {y.id : y \in bids}
  /\ \A x \in rows, y \in bids :
       x.id = y.id /\ x # y => x.bidder = y.bidder /\ x.amount < y.amount

\* What a handler p with local variables t may rely on while it holds the row.
DecidesWell(p, t) ==
  /\ t.pc \in {"skip", "early", "answer", "list", "commit"} => rowLock = p
  /\ t.pc \in {"list", "commit"} => ~Closed
  /\ t.pc = "commit" => SameBids(t.rows) /\ PriceBacked(t.rows)

LoneInv ==
  /\ P!OneReplica
  /\ Closed \/ PriceBacked(bids)
  /\ \A r \in Requests : RowsKnown(req[r])
  /\ \A p \in Handlers : DecidesWell(p, task[p])

LEMMA OutsideKnows ==
  ASSUME NEW t, t.pc \notin P!Inside
  PROVE  RowsKnown(t) /\ RowsKnown(t)'
  BY DEF RowsKnown, HasBid, HasCounter, P!Inside

\* Somebody raises a bid in place.
RaisesOne ==
  \E x \in bids, y \in BidRow :
    /\ bids' = (bids \ {x}) \cup {y}
    /\ y.id = x.id /\ y.bidder = x.bidder /\ x.amount < y.amount

\* What a request may do to the rows while a handler decides.
LEMMA DecidesStill ==
  ASSUME SystemInv, LoneInv, NEW p \in Handlers, UNCHANGED closingVars,
         rowLock = Free \/ (listing' = listing /\ (bids' = bids \/ Closed \/ RaisesOne))
  PROVE  DecidesWell(p, task[p])'
  <1>1. /\ task[p] \in HandlerTask /\ bids \subseteq BidRow /\ DecidesWell(p, task[p])
    BY HandlerHas DEF LoneInv
  <1>2. PICK t : t = task[p]
    OBVIOUS
  <1>3. task'[p] = t /\ rowLock' = rowLock /\ Free \notin Handlers
    BY <1>2, SystemAssumption DEF closingVars, SystemAssumption, Handlers, Closing!Handlers
  <1>4. CASE rowLock = Free
    BY <1>1, <1>2, <1>3, <1>4 DEF DecidesWell
  <1>5. CASE rowLock # Free
    <2>1. listing' = listing /\ Closed' = Closed
      BY <1>5 DEF Closed, Closing!Closed
    <2>2. ASSUME t.pc = "commit"
          PROVE  SameBids(t.rows)' /\ PriceBacked(t.rows)'
      <3>1. ~Closed /\ SameBids(t.rows) /\ PriceBacked(t.rows) /\ t.rows \subseteq BidRow
        BY <1>1, <1>2, <2>2 DEF DecidesWell, HandlerTask
      <3>2. PriceBacked(t.rows)'
        BY <2>1, <3>1 DEF PriceBacked
      <3>3. CASE bids' = bids
        BY <3>1, <3>2, <3>3 DEF SameBids
      <3>4. CASE RaisesOne
        <4>1. PICK x \in bids, y \in BidRow : /\ bids' = (bids \ {x}) \cup {y}
                                              /\ y.id = x.id /\ y.bidder = x.bidder
                                              /\ x.amount < y.amount
          BY <3>4 DEF RaisesOne
        <4>2. {z.id : z \in bids'} = {z.id : z \in bids}
          BY <4>1
        <4>3. ASSUME NEW v \in t.rows, NEW w \in bids', v.id = w.id, v # w
              PROVE  v.bidder = w.bidder /\ v.amount < w.amount
          <5>1. CASE w \in bids
            BY <3>1, <4>3, <5>1 DEF SameBids
          <5>2. CASE w \notin bids
            <6>1. w = y /\ v.id = x.id
              BY <4>1, <4>3, <5>2
            <6>2. v = x \/ (v.bidder = x.bidder /\ v.amount < x.amount)
              BY <3>1, <4>1, <6>1 DEF SameBids
            <6>3. v.amount \in Nat /\ x.amount \in Nat /\ y.amount \in Nat
              BY <1>1, <3>1, <4>1 DEF BidRow
            <6>. QED BY <4>1, <6>1, <6>2, <6>3
          <5>. QED BY <5>1, <5>2
        <4>. QED BY <3>1, <3>2, <4>2, <4>3 DEF SameBids
      <3>. QED BY <1>5, <3>1, <3>3, <3>4
    <2>. QED BY <1>1, <1>2, <1>3, <2>1, <2>2 DEF DecidesWell
  <1>. QED BY <1>4, <1>5

\* What every step of a request owes to the invariant.
LEMMA LoneStep ==
  ASSUME SystemInv, LoneInv, NEW r \in Requests, NEW t, req' = [req EXCEPT ![r] = t],
         UNCHANGED closingVars, P!Replicas' = P!Replicas,
         P!InProgress(r) \/ UNCHANGED <<listing, bids>>,
         RowsKnown(t)', (Closed \/ PriceBacked(bids))',
         rowLock = Free \/ (listing' = listing /\ (bids' = bids \/ Closed \/ RaisesOne))
  PROVE  LoneInv'
  <1>1. P!OneReplica'
    BY DEF LoneInv, P!OneReplica
  <1>2. req'[r] = t /\ \A q \in Requests \ {r} : req'[q] = req[q]
    BY DEF SystemInv, P!Requests
  <1>3. ASSUME NEW q \in Requests
        PROVE  RowsKnown(req[q])'
    <2>1. PICK u : u = req[q]
      OBVIOUS
    <2>2. CASE q = r
      BY <1>2, <2>2
    <2>3. CASE q # r /\ UNCHANGED <<listing, bids>>
      <3>1. RowsKnown(u)'
        BY <2>1, <2>3 DEF LoneInv, RowsKnown, Closed, Closing!Closed
      <3>. QED BY <1>2, <2>1, <2>3, <3>1
    <2>4. CASE q # r /\ P!InProgress(r)
      <3>1. ~P!InProgress(q)
        BY <2>4, Assumed, P!OthersOutside DEF SystemInv, LoneInv
      <3>2. RowsKnown(u)'
        BY <2>1, <3>1, OutsideKnows DEF P!InProgress
      <3>. QED BY <1>2, <2>1, <2>4, <3>2
    <2>. QED BY <2>2, <2>3, <2>4
  <1>4. ASSUME NEW p \in Handlers
        PROVE  DecidesWell(p, task[p])'
    BY DecidesStill
  <1>. QED BY <1>1, <1>3, <1>4 DEF LoneInv, Handlers, Closing!Handlers, Requests

\* a step that leaves the row and the bids alone
LEMMA LoneQuiet ==
  ASSUME SystemInv, LoneInv, NEW r \in Requests, NEW t, req' = [req EXCEPT ![r] = t],
         UNCHANGED closingVars, P!Replicas' = P!Replicas, UNCHANGED <<listing, bids>>,
         RowsKnown(t)
  PROVE  LoneInv'
  <1>1. RowsKnown(t)' /\ (Closed \/ PriceBacked(bids))'
    BY DEF LoneInv, RowsKnown, Closed, Closing!Closed, PriceBacked
  <1>. QED BY <1>1, LoneStep

\* from where to where a request moves on without reading anything
Onward(from, to) ==
  \/ from = "saveproxy" /\ to = "release"
  \/ from = "release" /\ to = "hold"
  \/ from = "hold" /\ to = "insert"
  \/ from = "insert" /\ to = "undo"
  \/ from = "outbid" /\ to = "update"
  \/ from = "update" /\ to = "reread"
  \/ from = "job" /\ to = "board"
  \/ from \in {"board", "contest"} /\ to = "placed"
  \/ from = "autosession" /\ to = "autohold"
  \/ from = "autohold" /\ to = "autowrite"
  \/ from = "autowrite" /\ to = "autoundo"
  \/ from = "autoundo" /\ to = "placed"
  \/ from = "autorelease" /\ to = "autooutbid"
  \/ from = "autooutbid" /\ to = "autoupdate"
  \/ from = "autodrop" /\ to = "autodelete"
  \/ from = "autodelete" /\ to = "placed"
  \/ from = "autojob" /\ to = "autoplaced"
  \/ from = "autoplaced" /\ to = "placed"

LEMMA LoneMove ==
  ASSUME SystemInv, LoneInv, NEW r \in Requests, NEW pc, req' = [req EXCEPT ![r].pc = pc],
         Onward(req[r].pc, pc), UNCHANGED closingVars, P!Replicas' = P!Replicas,
         UNCHANGED <<listing, bids>>
  PROVE  LoneInv'
  <1>1. req[r] \in P!Local /\ RowsKnown(req[r])
    BY Assumed, P!RequestIsOK DEF SystemInv, LoneInv
  <1>2. PICK u, t : u = req[r] /\ t = [u EXCEPT !.pc = pc]
    OBVIOUS
  <1>3. /\ t.pc = pc /\ t.row = u.row /\ t.after = u.after /\ t.accepted = u.accepted
        /\ t.target = u.target /\ t.cur = u.cur /\ t.top = u.top
    BY <1>1, <1>2 DEF P!Local
  <1>4. /\ u.pc \in P!Inside \ {"read"}
        /\ pc \in HasBid => u.pc \in HasBid
        /\ pc \in {"outbid", "update"} => u.pc \in {"outbid", "update"}
        /\ pc \in HasCounter => u.pc \in HasCounter
        /\ pc \in {"autorelease", "autooutbid", "autoupdate"} =>
             u.pc \in {"autorelease", "autooutbid", "autoupdate"}
        /\ pc \in {"autodrop", "autodelete"} => u.pc \in {"autodrop", "autodelete"}
    BY <1>2 DEF Onward, HasBid, HasCounter, P!Inside
  <1>5. RowsKnown(t)
    BY <1>1, <1>2, <1>3, <1>4 DEF RowsKnown
  <1>. QED BY <1>2, <1>5, LoneQuiet

LEMMA LoneAnswer ==
  ASSUME SystemInv, LoneInv, NEW r \in Requests, NEW result, P!Answer(r, result),
         UNCHANGED closingVars, P!Replicas' = P!Replicas, UNCHANGED <<listing, bids>>
  PROVE  LoneInv'
  <1>1. PICK t : /\ req' = [req EXCEPT ![r] = t]
                 /\ t = [P!Blank(req[r].replica) EXCEPT
                           !.pc = "done", !.result = result,
                           !.stopped = IF result = "Ok" THEN "none" ELSE req[r].pc,
                           !.bidder = req[r].bidder, !.kind = req[r].kind,
                           !.accepted = req[r].accepted, !.prev = req[r].prev]
    BY Zenon DEF P!Answer
  <1>2. t.pc \notin P!Inside
    BY <1>1 DEF P!Blank, P!Inside
  <1>. QED BY <1>1, <1>2, OutsideKnows, LoneQuiet

\* the steps that only move the request on, or end it
LEMMA LonePlain ==
  ASSUME SystemInv, LoneInv, NEW r \in Requests, UNCHANGED closingVars,
         P!Replicas' = P!Replicas,
         \/ P!SaveOwnProxy(r) \/ P!SaveProxy(r) \/ P!ReleasePrevious(r) \/ P!HoldNew(r)
         \/ P!UndoHold(r) \/ P!PublishOutbid(r) \/ P!Reschedule(r) \/ P!PublishPlaced(r)
         \/ P!ReadAutoSession(r) \/ P!HoldAuto(r) \/ P!UndoAutoHold(r) \/ P!ReleaseReplaced(r)
         \/ P!PublishAutoOutbid(r) \/ P!DropAutoHold(r) \/ P!RescheduleAuto(r)
         \/ P!PublishAutoPlaced(r) \/ P!EarlyEnd(r)
  PROVE  LoneInv'
  <1>1. ASSUME UNCHANGED <<listing, bids>>, NEW result, P!Answer(r, result)
        PROVE  LoneInv'
    BY <1>1, LoneAnswer
  <1>2. ASSUME UNCHANGED <<listing, bids>>, NEW pc, Onward(req[r].pc, pc),
               req' = [req EXCEPT ![r].pc = pc]
        PROVE  LoneInv'
    BY <1>2, LoneMove
  <1>3. CASE \/ P!SaveOwnProxy(r) \/ P!UndoHold(r) \/ P!PublishPlaced(r) \/ P!ReadAutoSession(r)
             \/ P!UndoAutoHold(r)
    BY <1>1, <1>2, <1>3 DEF P!SaveOwnProxy, P!UndoHold, P!PublishPlaced, P!ReadAutoSession,
       P!UndoAutoHold, P!At, P!storeVars, Onward
  <1>4. CASE \/ P!SaveProxy(r) \/ P!ReleasePrevious(r) \/ P!HoldNew(r) \/ P!PublishOutbid(r)
             \/ P!Reschedule(r)
    BY <1>2, <1>4 DEF P!SaveProxy, P!ReleasePrevious, P!HoldNew, P!PublishOutbid, P!Reschedule,
       P!At, Onward
  <1>5. CASE \/ P!HoldAuto(r) \/ P!ReleaseReplaced(r) \/ P!PublishAutoOutbid(r)
             \/ P!DropAutoHold(r) \/ P!RescheduleAuto(r) \/ P!PublishAutoPlaced(r)
    BY <1>2, <1>5 DEF P!HoldAuto, P!ReleaseReplaced, P!PublishAutoOutbid, P!DropAutoHold,
       P!RescheduleAuto, P!PublishAutoPlaced, P!At, Onward
  <1>6. CASE P!EarlyEnd(r)
    <2>1. UNCHANGED <<listing, bids>>
      BY <1>6 DEF P!EarlyEnd, P!WalletRefuses, P!GivesUp, P!WalletTimesOut, P!storeVars
    <2>2. \/ P!Answer(r, "Error")
          \/ \E pc : Onward(req[r].pc, pc) /\ req' = [req EXCEPT ![r].pc = pc]
      BY <1>6 DEF P!EarlyEnd, P!WalletRefuses, P!GivesUp, P!WalletTimesOut, P!At, Onward
    <2>. QED BY <1>1, <1>2, <2>1, <2>2
  <1>. QED BY <1>3, <1>4, <1>5, <1>6

\* arriving, and the reads
LEMMA LoneReading ==
  ASSUME SystemInv, LoneInv, NEW r \in Requests, UNCHANGED closingVars,
         P!Replicas' = P!Replicas,
         \/ P!Arrive(r) \/ P!EnterGuard(r) \/ P!ReadAuction(r) \/ P!ReadWinner(r)
         \/ P!ReadSession(r) \/ P!ReadBoard(r)
  PROVE  LoneInv'
  <1>1. /\ req[r] \in P!Local /\ RowsKnown(req[r]) /\ UNCHANGED <<listing, bids>>
    BY Assumed, P!RequestIsOK DEF SystemInv, LoneInv, P!Arrive, P!EnterGuard, P!ReadAuction,
       P!ReadWinner, P!ReadSession, P!ReadBoard, P!storeVars
  <1>2. ASSUME NEW t, req' = [req EXCEPT ![r] = t], RowsKnown(t)
        PROVE  LoneInv'
    BY <1>1, <1>2, LoneQuiet
  <1>3. ASSUME NEW result, P!Answer(r, result)
        PROVE  LoneInv'
    BY <1>1, <1>3, LoneAnswer
  <1>4. CASE P!Arrive(r)
    <2>1. PICK o : req' = [req EXCEPT ![r].pc = "waiting", ![r].bidder = o.bidder,
                             ![r].kind = o.kind, ![r].offer = o.offer, ![r].time = now]
      BY <1>4 DEF P!Arrive
    <2>2. PICK t : t = [req[r] EXCEPT !.pc = "waiting", !.bidder = o.bidder,
                                      !.kind = o.kind, !.offer = o.offer, !.time = now]
      OBVIOUS
    <2>3. t.pc = "waiting" /\ req' = [req EXCEPT ![r] = t]
      BY <1>1, <2>1, <2>2 DEF P!Local
    <2>. QED BY <1>2, <2>3, OutsideKnows DEF P!Inside
  <1>5. CASE P!EnterGuard(r)
    <2>1. PICK t : t = [req[r] EXCEPT !.pc = "read"]
      OBVIOUS
    <2>2. t.pc = "read" /\ req' = [req EXCEPT ![r] = t]
      BY <1>1, <1>5, <2>1 DEF P!EnterGuard, P!Local
    <2>3. RowsKnown(t)
      BY <2>2 DEF RowsKnown, HasBid, HasCounter
    <2>. QED BY <1>2, <2>2, <2>3
  <1>6. CASE P!ReadAuction(r)
    <2>1. CASE req' = [req EXCEPT ![r].pc = "winner", ![r].row = listing]
      <3>1. PICK t : t = [req[r] EXCEPT !.pc = "winner", !.row = listing]
        OBVIOUS
      <3>2. t.pc = "winner" /\ t.row = listing /\ req' = [req EXCEPT ![r] = t]
        BY <1>1, <2>1, <3>1 DEF P!Local
      <3>3. RowsKnown(t)
        BY <3>2 DEF RowsKnown, HasBid, HasCounter
      <3>. QED BY <1>2, <3>2, <3>3
    <2>. QED BY <1>3, <1>6, <2>1 DEF P!ReadAuction
  <1>7. CASE P!ReadWinner(r)
    <2>1. CASE \E pc \in {"ownproxy", "session"} :
                 req' = [req EXCEPT ![r].pc = pc, ![r].prev = P!Winning]
      <3>1. PICK pc \in {"ownproxy", "session"} :
                 req' = [req EXCEPT ![r].pc = pc, ![r].prev = P!Winning]
        BY <2>1
      <3>2. PICK t : t = [req[r] EXCEPT !.pc = pc, !.prev = P!Winning]
        OBVIOUS
      <3>3. t.pc = pc /\ t.row = req[r].row /\ req' = [req EXCEPT ![r] = t]
        BY <1>1, <3>1, <3>2 DEF P!Local
      <3>4. req[r].pc = "winner"
        BY <1>7 DEF P!ReadWinner, P!At
      <3>5. RowsKnown(t)
        BY <1>1, <3>3, <3>4 DEF RowsKnown, HasBid, HasCounter, P!Inside
      <3>. QED BY <1>2, <3>3, <3>5
    <2>. QED BY <1>3, <1>7, <2>1, Zenon DEF P!ReadWinner
  <1>8. CASE P!ReadSession(r)
    <2>1. CASE \E result : P!Answer(r, result)
      BY <1>3, <2>1
    <2>2. CASE ~\E result : P!Answer(r, result)
      <3> DEFINE own == req[r].kind = "proxy" /\ P!Winning.bidder = req[r].bidder
                 amount == IF own THEN P!Winning.amount
                           ELSE IF req[r].kind = "proxy" THEN P!MinimumOver(P!Winning)
                                                         ELSE req[r].offer
                 pc == IF req[r].kind = "proxy" THEN "saveproxy" ELSE "release"
                 after == IF own THEN [end |-> req[r].row.end, status |-> req[r].row.status]
                                 ELSE P!AfterBid(req[r].row, req[r].time)
      <3>1. pc \in {"saveproxy", "release"}
        OBVIOUS
      <3>2. req' = [req EXCEPT ![r].pc = pc, ![r].accepted = amount, ![r].after = after]
        BY <1>8, <2>2, Zenon DEF P!ReadSession
      <3>3. P!OpenAt(req[r].row, req[r].time)
        BY <1>8, <2>2, Zenon DEF P!ReadSession, P!Accepts
      <3>4. after = [end |-> req[r].row.end, status |-> req[r].row.status]
            \/ after = P!AfterBid(req[r].row, req[r].time)
        OBVIOUS
      <3> HIDE DEF own, amount, pc, after
      <3>5. PICK t : t = [req[r] EXCEPT !.pc = pc, !.accepted = amount, !.after = after]
        OBVIOUS
      <3>6. /\ t.pc = pc /\ t.row = req[r].row /\ t.after = after
            /\ req' = [req EXCEPT ![r] = t]
        BY <1>1, <3>2, <3>5 DEF P!Local
      <3>7. req[r].row.end = listing.end
        BY <1>1, <1>8 DEF P!ReadSession, P!At, RowsKnown, P!Inside
      <3>8. after.end >= listing.end /\ after.status \in Biddable
        <4>1. req[r].row \in P!Row /\ req[r].time \in Nat
          BY <1>1 DEF P!Local
        <4>2. /\ req[r].row.status \in Biddable
              /\ P!AfterBid(req[r].row, req[r].time).status \in Biddable
          BY <3>3 DEF P!OpenAt, P!AfterBid, P!Biddable, Biddable
        <4>3. P!AfterBid(req[r].row, req[r].time).end >= req[r].row.end
          BY <4>1, Assumed, P!AfterBidTyped
        <4>4. req[r].row.end >= req[r].row.end
          BY <4>1 DEF P!Row
        <4>. QED BY <3>7, <3>4, <4>2, <4>3, <4>4
      <3>9. RowsKnown(t)
        BY <3>1, <3>6, <3>7, <3>8 DEF RowsKnown, HasBid, HasCounter
      <3>. QED BY <1>2, <3>6, <3>9
    <2>. QED BY <2>1, <2>2
  <1>9. CASE P!ReadBoard(r)
    <2>1. req[r].pc = "board"
      BY <1>9 DEF P!ReadBoard, P!At
    <2>2. CASE req' = [req EXCEPT ![r].pc = "placed"]
      BY <1>1, <2>1, <2>2, LoneMove DEF Onward
    <2>3. CASE req' # [req EXCEPT ![r].pc = "placed"]
      <3>1. PICK p : req' = [req EXCEPT ![r].pc = "contest", ![r].board = proxies,
                                        ![r].top = p.bidder]
        BY <1>9, <2>3 DEF P!ReadBoard
      <3>2. PICK t : t = [req[r] EXCEPT !.pc = "contest", !.board = proxies, !.top = p.bidder]
        OBVIOUS
      <3>3. t.pc = "contest" /\ t.row = req[r].row /\ req' = [req EXCEPT ![r] = t]
        BY <1>1, <3>1, <3>2 DEF P!Local
      <3>4. RowsKnown(t)
        BY <1>1, <2>1, <3>3 DEF RowsKnown, HasBid, HasCounter, P!Inside
      <3>. QED BY <1>2, <3>3, <3>4
    <2>. QED BY <2>2, <2>3
  <1>. QED BY <1>4, <1>5, <1>6, <1>7, <1>8, <1>9

\* a counter-bid goes past every bid, and so past the price an open auction shows
LEMMA LoneContest ==
  ASSUME SystemInv, LoneInv, NEW r \in Requests, UNCHANGED closingVars,
         P!Replicas' = P!Replicas, P!ReadContest(r)
  PROVE  LoneInv'
  <1>1. /\ req[r] \in P!Local /\ RowsKnown(req[r]) /\ UNCHANGED <<listing, bids>>
        /\ req[r].pc = "contest"
    BY Assumed, P!RequestIsOK DEF SystemInv, LoneInv, P!ReadContest, P!At, P!storeVars
  <1>2. CASE req' = [req EXCEPT ![r].pc = "placed"]
    BY <1>1, <1>2, LoneMove DEF Onward
  <1>3. CASE req' # [req EXCEPT ![r].pc = "placed"]
    <2> DEFINE leads == P!Winning.bidder = req[r].top
               pc == IF leads THEN "autohold" ELSE "autosession"
               target == P!TargetAmount(r, P!Winning)
               after == IF leads THEN P!AfterRaise(req[r].row, P!AutoTime(r))
                                 ELSE P!AfterBid(req[r].row, P!AutoTime(r))
    <2>1. /\ req' = [req EXCEPT ![r].pc = pc, ![r].cur = P!Winning, ![r].target = target,
                                ![r].after = after]
          /\ P!Winning # P!NoBid /\ target > P!Winning.amount
      BY <1>3, Zenon DEF P!ReadContest, P!Counters
    <2>2. pc \in {"autohold", "autosession"}
      OBVIOUS
    <2>3. after.status \in Biddable \/ after.end <= listing.end
      <3>1. req[r].row \in P!Row /\ req[r].row.end = listing.end /\ P!AutoTime(r) \in Nat
        BY <1>1 DEF P!Local, RowsKnown, P!Inside, P!AutoTime
      <3>2. AntiSnipingExtension \in Nat
        BY SystemAssumption DEF SystemAssumption
      <3>3. req[r].row.end \in Nat
        BY <3>1 DEF P!Row
      <3>4. CASE leads
        BY <3>1, <3>2, <3>3, <3>4 DEF P!AfterRaise, P!AfterBid, Biddable
      <3>5. CASE ~leads
        BY <3>1, <3>2, <3>3, <3>5 DEF P!AfterBid, Biddable
      <3>. QED BY <3>4, <3>5
    <2>4. Closed \/ listing.highest < target
      <3>1. P!StoreOK /\ bids # {}
        BY <2>1 DEF SystemInv, P!PlacementInv, P!Winning, P!Best
      <3>2. /\ P!Winning \in P!BidRow
            /\ \A x \in bids : x \in P!BidRow /\ x.amount <= P!Winning.amount
        BY <3>1, Assumed, P!WinningHighest DEF P!StoreOK
      <3>3. P!LocalOK(req[r])
        BY Assumed, P!RequestIsOK DEF SystemInv
      <3>4. target \in Nat
        BY <1>1, <3>2, <3>3, Assumed, P!TargetTyped DEF P!LocalOK, P!AnyBid, P!Local
      <3>5. listing.highest \in Nat
        BY <3>1 DEF P!StoreOK, P!Row
      <3>6. P!Winning.amount \in Nat /\ \A x \in bids : x.amount \in Nat
        BY <3>2 DEF P!BidRow
      <3> HIDE DEF target
      <3>7. CASE Closed
        BY <3>7
      <3>8. CASE listing.highest = 0
        BY <2>1, <3>4, <3>6, <3>8
      <3>9. ASSUME NEW x \in bids, x.amount >= listing.highest
            PROVE  listing.highest < target
        BY <2>1, <3>2, <3>4, <3>5, <3>6, <3>9
      <3>. QED BY <3>7, <3>8, <3>9 DEF LoneInv, PriceBacked
    <2> HIDE DEF pc, target, after
    <2>5. PICK t : t = [req[r] EXCEPT !.pc = pc, !.cur = P!Winning, !.target = target,
                                      !.after = after]
      OBVIOUS
    <2>6. /\ t.pc = pc /\ t.row = req[r].row /\ t.target = target /\ t.after = after
          /\ req' = [req EXCEPT ![r] = t]
      BY <1>1, <2>1, <2>5 DEF P!Local
    <2>7. RowsKnown(t)
      BY <1>1, <2>2, <2>3, <2>4, <2>6 DEF RowsKnown, HasBid, HasCounter, P!Inside
    <2>. QED BY <1>1, <2>6, <2>7, LoneQuiet
  <1>. QED BY <1>2, <1>3

\* the bid, and the counter-bid, is stored
LEMMA LoneStoring ==
  ASSUME SystemInv, LoneInv, NEW r \in Requests, UNCHANGED closingVars,
         P!Replicas' = P!Replicas, NeedsRow(r) => rowLock = Free,
         P!InsertNew(r) \/ P!WriteAuto(r)
  PROVE  LoneInv'
  <1>1. /\ req[r] \in P!Local /\ P!LocalOK(req[r]) /\ RowsKnown(req[r]) /\ listing' = listing
        /\ P!InProgress(r) /\ P!StoreOK /\ P!WalletOK(r, req[r]) /\ Closed' = Closed
    BY Assumed, P!RequestIsOK DEF SystemInv, LoneInv, P!InsertNew, P!WriteAuto, P!At, P!InProgress,
       P!Inside, P!PlacementInv, P!WalletInv, Closed, Closing!Closed
  <1>2. listing.highest \in Nat /\ \A x \in bids : x \in P!BidRow /\ x.amount \in Nat
    BY <1>1 DEF P!StoreOK, P!Row, P!BidRow
  <1>3. CASE P!InsertNew(r)
    <2>1. rowLock = Free
      BY <1>3 DEF P!InsertNew, P!At, NeedsRow
    <2>2. PICK t : t = [req[r] EXCEPT !.pc = "outbid"]
      OBVIOUS
    <2>3. /\ t.pc = "outbid" /\ t.row = req[r].row /\ t.after = req[r].after
          /\ t.accepted = req[r].accepted /\ t.accepted \in Nat
          /\ req' = [req EXCEPT ![r] = t]
      BY <1>1, <1>3, <2>2 DEF P!Local, P!InsertNew
    <2>4. PICK y : y.amount = t.accepted /\ bids' = bids \cup {y}
      BY <1>3, <2>3 DEF P!InsertNew, P!InsertBid
    <2>5. RowsKnown(t)'
      <3>1. t.row.end = listing.end /\ t.after.end >= listing.end /\ t.after.status \in Biddable
        BY <1>1, <1>3, <2>3 DEF P!InsertNew, P!At, RowsKnown, HasBid, P!Inside
      <3>2. \E x \in bids' : x.amount >= t.accepted
        BY <2>3, <2>4
      <3>. QED BY <1>1, <2>3, <3>1, <3>2 DEF RowsKnown, HasCounter
    <2>6. (Closed \/ PriceBacked(bids))'
      BY <1>1, <2>4 DEF LoneInv, PriceBacked
    <2>. QED BY <1>1, <2>1, <2>3, <2>5, <2>6, LoneStep
  <1>4. CASE P!WriteAuto(r)
    <2>1. req[r].pc = "autowrite"
      BY <1>4 DEF P!WriteAuto, P!At
    <2>2. CASE req' = [req EXCEPT ![r].pc = "autoundo"] /\ bids' = bids
      BY <1>1, <2>1, <2>2, LoneMove DEF Onward
    <2>3. CASE ~(req' = [req EXCEPT ![r].pc = "autoundo"] /\ bids' = bids)
      <3>1. PICK t : t = [req[r] EXCEPT !.pc = "autorelease"]
        OBVIOUS
      <3>2. /\ t.pc = "autorelease" /\ t.row = req[r].row /\ t.after = req[r].after
            /\ t.target = req[r].target /\ t.target \in Nat
            /\ t.row.end = listing.end
            /\ t.after.status \in Biddable \/ t.after.end <= listing.end
            /\ Closed \/ listing.highest < t.target
        BY <1>1, <2>1, <3>1 DEF P!Local, RowsKnown, P!Inside, HasCounter
      <3>3. PICK y : y = P!AutoRow(r)
        OBVIOUS
      <3>4. /\ req' = [req EXCEPT ![r] = t]
            /\ bids' = (IF P!RaisesOwn(r) THEN bids \ P!RaisedRow(r) ELSE bids) \cup {y}
            /\ P!RaisesOwn(r) => P!RaisedRow(r) # {}
        BY <1>4, <2>3, <3>1, <3>3 DEF P!WriteAuto
      <3>5. y.amount = t.target /\ y \in bids'
        BY <3>2, <3>3, <3>4 DEF P!AutoRow
      <3>6. RowsKnown(t)'
        <4>1. \E x \in bids' : x.amount >= t.target
          BY <3>2, <3>5
        <4>. QED BY <1>1, <3>2, <4>1 DEF RowsKnown, HasBid, HasCounter
      <3>7. (Closed \/ PriceBacked(bids))'
        BY <1>1, <1>2, <3>2, <3>5 DEF PriceBacked
      <3>8. CASE ~P!RaisesOwn(r)
        <4>1. rowLock = Free
          <5>1. ~Bidding!RaisesOwn(r)
            BY <3>8 DEF P!RaisesOwn, Bidding!RaisesOwn
          <5>. QED BY <2>1, <5>1 DEF NeedsRow
        <4>. QED BY <1>1, <3>4, <3>6, <3>7, <4>1, LoneStep
      <3>9. CASE P!RaisesOwn(r)
        <4>1. PICK x \in bids : x.id = req[r].cur.id /\ x.amount < req[r].target
          BY <3>4, <3>9 DEF P!RaisedRow
        <4>2. P!RaisedRow(r) = {x}
          BY <1>1, <4>1 DEF P!RaisedRow, P!StoreOK
        <4>3. P!Backed(req[r].cur) /\ P!Backed(x)
          BY <1>1, <2>1, <4>1 DEF P!WalletOK, P!Countering, SystemInv, P!WalletInv
        <4>4. x.bidder = req[r].top
          BY <3>9, <4>1, <4>3 DEF P!Backed, P!Holder, P!RaisesOwn
        <4>5. y.id = x.id /\ y.bidder = x.bidder /\ x.amount < y.amount
          BY <3>2, <3>3, <3>5, <3>9, <4>1, <4>4 DEF P!AutoRow
        <4>6. y \in BidRow
          <5>1. /\ x.id \in Nat \ {0} /\ x.bidder \in Bidders
                /\ P!AutoTime(r) \in Nat /\ P!AutoId(r) \in Nat
            BY <1>2, Assumed, P!RequestIsOK DEF SystemInv, P!BidRow
          <5>2. y = [id |-> x.id, bidder |-> x.bidder, amount |-> t.target,
                     time |-> P!AutoTime(r), hold |-> P!AutoId(r)]
            BY <3>2, <3>3, <3>9, <4>1, <4>4 DEF P!AutoRow
          <5>. QED BY <3>2, <5>1, <5>2 DEF BidRow
        <4>7. RaisesOne
          BY <3>4, <3>9, <4>2, <4>5, <4>6 DEF RaisesOne
        <4>. QED BY <1>1, <3>4, <3>6, <3>7, <4>7, LoneStep
      <3>. QED BY <3>8, <3>9
    <2>. QED BY <2>2, <2>3
  <1>. QED BY <1>3, <1>4

\* the row is written, which waits for a closing to be over; or the counter-bid is dropped
LEMMA LoneUpdating ==
  ASSUME SystemInv, LoneInv, NEW r \in Requests, UNCHANGED closingVars,
         P!Replicas' = P!Replicas, NeedsRow(r) => rowLock = Free,
         \/ P!UpdateListing(r) \/ P!RereadListing(r) \/ P!UpdateListingAuto(r)
         \/ P!DeleteAutoBid(r)
  PROVE  LoneInv'
  <1>1. /\ req[r] \in P!Local /\ RowsKnown(req[r]) /\ P!InProgress(r) /\ listing \in P!Row
    BY Assumed, P!RequestIsOK DEF SystemInv, LoneInv, P!UpdateListing, P!RereadListing,
       P!UpdateListingAuto, P!DeleteAutoBid, P!At, P!InProgress, P!Inside, P!PlacementInv, P!StoreOK
  <1>2. CASE P!UpdateListing(r)
    <2>1. rowLock = Free /\ bids' = bids
      BY <1>2 DEF P!UpdateListing, P!At, NeedsRow
    <2>2. PICK new : new = [highest |-> req[r].accepted, end |-> req[r].after.end,
                            status |-> req[r].after.status]
      OBVIOUS
    <2>3. CASE listing.highest < req[r].accepted
      <3>1. listing' = new /\ req' = [req EXCEPT ![r].pc = "job", ![r].row = new]
        BY <1>2, <2>2, <2>3 DEF P!UpdateListing
      <3>2. PICK t : t = [req[r] EXCEPT !.pc = "job", !.row = new]
        OBVIOUS
      <3>3. t.pc = "job" /\ t.row = new /\ req' = [req EXCEPT ![r] = t]
        BY <1>1, <3>1, <3>2 DEF P!Local
      <3>4. RowsKnown(t)'
        BY <3>1, <3>3 DEF RowsKnown, HasBid, HasCounter
      <3>5. \E x \in bids : x.amount >= req[r].accepted
        BY <1>1, <1>2 DEF P!UpdateListing, P!At, RowsKnown
      <3>6. (Closed \/ PriceBacked(bids))'
        BY <2>1, <2>2, <3>1, <3>5 DEF PriceBacked
      <3>. QED BY <1>1, <2>1, <3>3, <3>4, <3>6, LoneStep
    <2>4. CASE ~(listing.highest < req[r].accepted)
      <3>1. /\ UNCHANGED <<listing, bids>> /\ req' = [req EXCEPT ![r].pc = "reread"]
            /\ Onward(req[r].pc, "reread")
        BY <1>2, <2>4 DEF P!UpdateListing, P!At, Onward
      <3>. QED BY <3>1, LoneMove
    <2>. QED BY <2>3, <2>4
  <1>3. CASE P!UpdateListingAuto(r)
    <2>1. rowLock = Free /\ bids' = bids /\ req[r].pc = "autoupdate"
      BY <1>3 DEF P!UpdateListingAuto, P!At, NeedsRow
    <2>2. CASE listing.highest < req[r].target
      <3>1. PICK end, status :
              /\ listing' = [highest |-> req[r].target, end |-> end, status |-> status]
              /\ req' = [req EXCEPT ![r].pc = "autojob", ![r].row = listing']
        BY <1>3, <2>2 DEF P!UpdateListingAuto
      <3>2. PICK row : row = listing'
        OBVIOUS
      <3>3. PICK t : t = [req[r] EXCEPT !.pc = "autojob", !.row = row]
        OBVIOUS
      <3>4. t.pc = "autojob" /\ t.row = row /\ req' = [req EXCEPT ![r] = t]
        BY <1>1, <3>1, <3>2, <3>3 DEF P!Local
      <3>5. RowsKnown(t)'
        BY <3>2, <3>4 DEF RowsKnown, HasBid, HasCounter
      <3>6. (Closed \/ PriceBacked(bids))'
        <4>1. \E x \in bids : x.amount >= req[r].target
          BY <1>1, <2>1 DEF RowsKnown
        <4>. QED BY <2>1, <3>1, <4>1 DEF PriceBacked
      <3>. QED BY <1>1, <2>1, <3>4, <3>5, <3>6, LoneStep
    <2>3. CASE ~(listing.highest < req[r].target)
      <3>1. listing' = listing /\ req' = [req EXCEPT ![r].pc = "autodrop"]
        BY <1>3, <2>3 DEF P!UpdateListingAuto
      <3>2. PICK t : t = [req[r] EXCEPT !.pc = "autodrop"]
        OBVIOUS
      <3>3. t.pc = "autodrop" /\ t.row = req[r].row /\ req' = [req EXCEPT ![r] = t]
        BY <1>1, <3>1, <3>2 DEF P!Local
      <3>4. Closed /\ req[r].row.end = listing.end
        BY <1>1, <2>1, <2>3 DEF RowsKnown, HasCounter, P!Inside
      <3>5. RowsKnown(t)
        BY <3>3, <3>4 DEF RowsKnown, HasBid, HasCounter
      <3>. QED BY <2>1, <3>1, <3>3, <3>5, LoneQuiet
    <2>. QED BY <2>2, <2>3
  <1>4. CASE P!DeleteAutoBid(r)
    <2>1. listing' = listing /\ req' = [req EXCEPT ![r].pc = "placed"] /\ req[r].pc = "autodelete"
          /\ Closed' = Closed
      BY <1>4 DEF P!DeleteAutoBid, P!At, Closed, Closing!Closed
    <2>2. CASE bids' = bids
      BY <2>1, <2>2, LoneMove DEF Onward
    <2>3. CASE bids' # bids
      <3>1. Closed
        BY <1>1, <1>4, <2>1, <2>3 DEF P!DeleteAutoBid, P!RaisesOwn, RowsKnown
      <3>2. PICK t : t = [req[r] EXCEPT !.pc = "placed"]
        OBVIOUS
      <3>3. t.pc = "placed" /\ t.row = req[r].row /\ req' = [req EXCEPT ![r] = t]
        BY <1>1, <2>1, <3>2 DEF P!Local
      <3>4. RowsKnown(t)'
        BY <1>1, <2>1, <3>3 DEF RowsKnown, HasBid, HasCounter, P!Inside
      <3>. QED BY <1>1, <2>1, <3>1, <3>3, <3>4, LoneStep
    <2>. QED BY <2>2, <2>3
  <1>5. CASE P!RereadListing(r)
    <2>1. PICK row, t : row = listing /\ t = [req[r] EXCEPT !.pc = "job", !.row = row]
      OBVIOUS
    <2>2. UNCHANGED <<listing, bids>> /\ req' = [req EXCEPT ![r] = t]
      BY <1>5, <2>1 DEF P!RereadListing, P!storeVars
    <2>3. t.pc = "job" /\ t.row = listing
      BY <1>1, <2>1 DEF P!Local
    <2>4. RowsKnown(t)
      BY <2>3 DEF RowsKnown, HasBid, HasCounter
    <2>. QED BY <2>2, <2>4, LoneQuiet
  <1>. QED BY <1>2, <1>3, <1>4, <1>5

\* A request's step that reads or ends leaves rows and bids alone.
LEMMA LoneInput ==
  ASSUME SystemInv, LoneInv, NEW r \in Requests, BidInput(r)
  PROVE  LoneInv'
  <1>1. UNCHANGED closingVars /\ (P!Arrive(r) \/ P!EarlyEnd(r))
    BY SameReading, SameEnding, Zenon DEF BidInput, Bidding!EarlyEnd, P!EarlyEnd
  <1>2. P!Replicas' = P!Replicas
    BY <1>1, Assumed, P!RequestsStay DEF SystemInv
  <1>. QED BY <1>1, <1>2, LoneReading, LonePlain

LEMMA LoneBidding ==
  ASSUME SystemInv, LoneInv, NEW r \in Requests, BidStep(r)
  PROVE  LoneInv'
  <1>1. /\ UNCHANGED closingVars /\ P!Step(r) /\ (NeedsRow(r) => rowLock = Free)
    BY SameReading, SamePlacing, SameCountering, Zenon DEF BidStep, Bidding!Step, P!Step
  <1>2. P!Replicas' = P!Replicas
    BY <1>1, Assumed, P!RequestsStay DEF SystemInv
  <1>3. CASE \/ P!EnterGuard(r) \/ P!ReadAuction(r) \/ P!ReadWinner(r) \/ P!ReadSession(r)
             \/ P!ReadBoard(r)
    BY <1>1, <1>2, <1>3, LoneReading
  <1>4. CASE \/ P!SaveOwnProxy(r) \/ P!SaveProxy(r) \/ P!ReleasePrevious(r) \/ P!HoldNew(r)
             \/ P!UndoHold(r) \/ P!PublishOutbid(r) \/ P!Reschedule(r) \/ P!PublishPlaced(r)
             \/ P!ReadAutoSession(r) \/ P!HoldAuto(r) \/ P!UndoAutoHold(r)
             \/ P!ReleaseReplaced(r) \/ P!PublishAutoOutbid(r) \/ P!DropAutoHold(r)
             \/ P!RescheduleAuto(r) \/ P!PublishAutoPlaced(r)
    BY <1>1, <1>2, <1>4, LonePlain
  <1>5. CASE P!ReadContest(r)
    BY <1>1, <1>2, <1>5, LoneContest
  <1>6. CASE \/ P!InsertNew(r) \/ P!WriteAuto(r) \/ P!UpdateListing(r) \/ P!RereadListing(r)
             \/ P!UpdateListingAuto(r) \/ P!DeleteAutoBid(r)
    BY <1>1, <1>2, <1>6, LoneStoring, LoneUpdating
  <1>. QED BY <1>1, <1>3, <1>4, <1>5, <1>6, Zenon DEF P!Step

Deciding == {"skip", "early", "answer", "list", "commit"}

\* What every step of a handler owes to the invariant, except the one that commits.
LEMMA LoneHandler ==
  ASSUME SystemInv, LoneInv, NEW p \in Handlers, UNCHANGED <<listing, bids, biddingVars>>,
         rowLock' = rowLock \/ rowLock \in {p, Free},
         \A q \in Handlers \ {p} : task'[q] = task[q], DecidesWell(p, task[p])'
  PROVE  LoneInv'
  <1>1. /\ P!OneReplica' /\ Closed' = Closed /\ (Closed \/ PriceBacked(bids))'
        /\ Requests' = Requests /\ Handlers' = Handlers
    BY DEF LoneInv, P!OneReplica, P!Replicas, biddingVars, Closed, Closing!Closed, PriceBacked,
       Requests, Handlers, Closing!Handlers
  <1>2. \A r \in Requests : RowsKnown(req[r])'
    BY <1>1 DEF LoneInv, RowsKnown, biddingVars
  <1>3. ASSUME NEW q \in Handlers, q # p
        PROVE  DecidesWell(q, task[q])'
    <2>1. task'[q] = task[q] /\ DecidesWell(q, task[q])
      BY <1>3 DEF LoneInv
    <2>2. task[q].pc \in Deciding => rowLock = q /\ rowLock' = q
      BY <1>3, <2>1, SystemAssumption DEF DecidesWell, Deciding, Handlers, Closing!Handlers,
         SystemAssumption
    <2>3. PICK t : t = task[q]
      OBVIOUS
    <2>4. DecidesWell(q, t)'
      BY <1>1, <2>1, <2>2, <2>3 DEF DecidesWell, SameBids, PriceBacked, Deciding
    <2>. QED BY <2>1, <2>3, <2>4
  <1>. QED BY <1>1, <1>2, <1>3 DEF LoneInv

\* a step after which the handler does not hold the row
LEMMA LoneLeaving ==
  ASSUME SystemInv, LoneInv, NEW p \in Handlers, UNCHANGED biddingVars,
         \/ Closing!Step(p) \/ Closing!Request(p) \/ Closing!FailClosure(p)
         \/ Closing!WalletFails(p) \/ Closing!CutShort(p),
         ~Closing!LockRow(p), ~Closing!ListBids(p), ~Closing!CommitClosure(p)
  PROVE  LoneInv'
  <1>1. task[p] \in HandlerTask /\ DecidesWell(p, task[p]) /\ DOMAIN task = Handlers
    BY HandlerHas DEF LoneInv, SystemInv
  <1>2. task[p].pc \notin {"claimit", "resume"}
    BY <1>1 DEF HandlerTask, HandlerPCs
  <1>3. ASSUME NEW t, task' = [task EXCEPT ![p] = t], t.pc \notin Deciding,
               UNCHANGED <<listing, bids>>, rowLock' = rowLock \/ rowLock \in {p, Free}
        PROVE  LoneInv'
    <2>1. task'[p] = t /\ \A q \in Handlers \ {p} : task'[q] = task[q]
      BY <1>1, <1>3
    <2>2. DecidesWell(p, task[p])'
      BY <1>3, <2>1 DEF DecidesWell, Deciding
    <2>. QED BY <1>3, <2>1, <2>2, LoneHandler
  <1>4. ASSUME NEW pc, pc \notin Deciding, task' = [task EXCEPT ![p].pc = pc],
               UNCHANGED <<listing, bids>>, rowLock' = rowLock \/ rowLock \in {p, Free}
        PROVE  LoneInv'
    <2>1. PICK t : t = [task[p] EXCEPT !.pc = pc]
      OBVIOUS
    <2>2. t.pc = pc /\ task' = [task EXCEPT ![p] = t]
      BY <1>1, <1>4, <2>1 DEF HandlerTask
    <2>. QED BY <1>3, <1>4, <2>2
  <1>5. ASSUME Closing!Finish(p), UNCHANGED <<listing, bids>>,
               rowLock' = rowLock \/ rowLock \in {p, Free}
        PROVE  LoneInv'
    <2>1. PICK t : t = Closing!Finished(p)
      OBVIOUS
    <2>2. t.pc \notin Deciding /\ task' = [task EXCEPT ![p] = t]
      BY <1>5, <2>1 DEF Closing!Finish, Closing!Finished, Closing!Idle, Deciding
    <2>. QED BY <1>3, <1>5, <2>2
  <1>6. CASE Closing!Wake(p) \/ Closing!Request(p)
    <2>1. PICK pc \in {"claim", "lock"} : task' = [task EXCEPT ![p].pc = pc, ![p].time = now]
      BY <1>6 DEF Closing!Wake, Closing!Request
    <2>2. PICK t : t = [task[p] EXCEPT !.pc = pc, !.time = now]
      OBVIOUS
    <2>3. t.pc \notin Deciding /\ task' = [task EXCEPT ![p] = t]
      BY <1>1, <2>1, <2>2 DEF HandlerTask, Deciding
    <2>. QED BY <1>3, <1>6, <2>3 DEF Closing!Wake, Closing!Request, Closing!storeVars
  <1>7. CASE Closing!ClaimReturning(p)
    <2>1. CASE Closing!Finish(p)
      BY <1>5, <1>7, <2>1 DEF Closing!ClaimReturning
    <2>2. CASE ~Closing!Finish(p)
      <3>1. PICK status : task' = [task EXCEPT ![p].pc = "lock", ![p].claimed = status]
        BY <1>7, <2>2 DEF Closing!ClaimReturning
      <3>2. PICK t : t = [task[p] EXCEPT !.pc = "lock", !.claimed = status]
        OBVIOUS
      <3>3. t.pc \notin Deciding /\ task' = [task EXCEPT ![p] = t]
        BY <1>1, <3>1, <3>2 DEF HandlerTask, Deciding
      <3>. QED BY <1>3, <1>7, <3>3 DEF Closing!ClaimReturning
    <2>. QED BY <2>1, <2>2
  <1>8. CASE Closing!FindCandidate(p) \/ Closing!ClaimCandidate(p) \/ Closing!Resume(p)
    BY <1>2, <1>8 DEF Closing!FindCandidate, Closing!ClaimCandidate, Closing!Resume, Closing!At
  <1>9. CASE Closing!Skip(p) \/ Closing!Early(p) \/ Closing!AnswerAtOnce(p)
    <2>1. rowLock = p
      BY <1>1, <1>9 DEF Closing!Skip, Closing!Early, Closing!AnswerAtOnce, Closing!At, DecidesWell
    <2>. QED BY <1>4, <1>5, <1>9, <2>1 DEF Closing!Skip, Closing!Early, Closing!AnswerAtOnce,
         Closing!Unlock, Closing!storeVars, Deciding
  <1>10. CASE Closing!FailClosure(p)
    <2>1. rowLock = p
      BY <1>1, <1>10 DEF Closing!FailClosure, DecidesWell
    <2>. QED BY <1>4, <1>5, <1>10, <2>1 DEF Closing!FailClosure, Closing!storeVars, Deciding
  <1>11. CASE Closing!Postpone(p) \/ Closing!MarkFailed(p) \/ Closing!MarkSettlementFailed(p)
              \/ Closing!MarkDone(p) \/ Closing!CutShort(p)
    BY <1>5, <1>11 DEF Closing!Postpone, Closing!MarkFailed, Closing!MarkSettlementFailed,
       Closing!MarkDone, Closing!CutShort, Closing!storeVars
  <1>12. CASE \/ Closing!MarkSettling(p) \/ Closing!ConvertHold(p) \/ Closing!CannotConvert(p)
              \/ Closing!AllReleased(p) \/ Closing!WalletFails(p)
    BY <1>4, <1>12 DEF Closing!MarkSettling, Closing!ConvertHold, Closing!CannotConvert,
       Closing!AllReleased, Closing!WalletFails, Closing!storeVars, Deciding
  <1>13. CASE Closing!ReleaseNext(p)
    <2>1. PICK t : t = [task[p] EXCEPT !.rows = @ \ {Closing!Winner(p)}]
      OBVIOUS
    <2>2. t.pc = task[p].pc /\ task' = [task EXCEPT ![p] = t] /\ task[p].pc = "settle"
      BY <1>1, <1>13, <2>1 DEF HandlerTask, Closing!ReleaseNext, Closing!At
    <2>. QED BY <1>3, <1>13, <2>2 DEF Closing!ReleaseNext, Deciding
  <1>. QED BY <1>6, <1>7, <1>8, <1>9, <1>10, <1>11, <1>12, <1>13, Zenon DEF Closing!Step

\* the row is locked, and the bids are listed
LEMMA LoneDeciding ==
  ASSUME SystemInv, LoneInv, NEW p \in Handlers, UNCHANGED biddingVars,
         Closing!LockRow(p) \/ Closing!ListBids(p)
  PROVE  LoneInv'
  <1>1. /\ task[p] \in HandlerTask /\ DecidesWell(p, task[p]) /\ DOMAIN task = Handlers
        /\ \A x, y \in bids : x.id = y.id => x = y
        /\ UNCHANGED <<listing, bids>> /\ Closed' = Closed
    BY HandlerHas DEF LoneInv, SystemInv, P!PlacementInv, P!StoreOK, Closing!LockRow,
       Closing!ListBids, Closing!storeVars, Closed, Closing!Closed
  <1>2. CASE Closing!LockRow(p)
    <2>1. PICK pc : pc = Closing!Decision(p)
      OBVIOUS
    <2>2. PICK t : t = [task[p] EXCEPT !.pc = pc, !.status = listing.status,
                                       !.end = listing.end]
      OBVIOUS
    <2>3. /\ task' = [task EXCEPT ![p] = t] /\ t.pc = pc
          /\ rowLock = Free /\ rowLock' = p
      BY <1>1, <1>2, <2>1, <2>2 DEF Closing!LockRow, HandlerTask
    <2>4. pc # "commit" /\ (pc = "list" => ~Closed)
      BY <2>1 DEF Closing!Decision, Closed, Closing!Closed, Closing!Terminal
    <2>5. task'[p] = t /\ \A q \in Handlers \ {p} : task'[q] = task[q]
      BY <1>1, <2>3
    <2>6. DecidesWell(p, task[p])'
      BY <1>1, <2>3, <2>4, <2>5 DEF DecidesWell
    <2>. QED BY <1>1, <2>3, <2>5, <2>6, LoneHandler
  <1>3. CASE Closing!ListBids(p)
    <2>1. PICK rows : rows = bids
      OBVIOUS
    <2>2. PICK t : t = [task[p] EXCEPT !.pc = "commit", !.rows = rows]
      OBVIOUS
    <2>3. /\ task' = [task EXCEPT ![p] = t] /\ t.pc = "commit" /\ t.rows = rows
          /\ rowLock = p /\ rowLock' = p /\ ~Closed
      BY <1>1, <1>3, <2>1, <2>2 DEF Closing!ListBids, Closing!At, HandlerTask, DecidesWell
    <2>4. task'[p] = t /\ \A q \in Handlers \ {p} : task'[q] = task[q]
      BY <1>1, <2>3
    <2>5. SameBids(rows)' /\ PriceBacked(rows)'
      BY <1>1, <2>1, <2>3 DEF SameBids, PriceBacked, LoneInv
    <2>6. DecidesWell(p, task[p])'
      BY <1>1, <2>3, <2>4, <2>5 DEF DecidesWell
    <2>. QED BY <1>1, <2>3, <2>4, <2>6, LoneHandler
  <1>. QED BY <1>2, <1>3

\* The outcome is committed: nobody else is deciding, and no request minds.
LEMMA LoneCommit ==
  ASSUME SystemInv, LoneInv, NEW p \in Handlers, UNCHANGED biddingVars, Closing!CommitClosure(p)
  PROVE  LoneInv' /\ Closed'
  <1>1. /\ task[p] \in HandlerTask /\ DOMAIN task = Handlers /\ rowLock = p /\ bids' = bids
        /\ listing \in P!Row
    BY HandlerHas DEF LoneInv, SystemInv, DecidesWell, Closing!CommitClosure, Closing!At
  <1>2. PICK amount, outcome : /\ outcome = Closing!Outcome(task[p].rows)
                               /\ listing' = [listing EXCEPT !.status = outcome,
                                                             !.highest = amount]
    BY DEF Closing!CommitClosure
  <1>3. Closed' /\ listing'.end = listing.end
    BY <1>1, <1>2 DEF Closing!Outcome, Closed, Closing!Closed, P!Row
  <1>4. ASSUME NEW r \in Requests
        PROVE  RowsKnown(req[r])'
    <2>1. RowsKnown(req[r]) /\ req'[r] = req[r]
      BY DEF LoneInv, biddingVars
    <2>. QED BY <1>1, <1>3, <2>1 DEF RowsKnown
  <1>5. ASSUME NEW q \in Handlers
        PROVE  DecidesWell(q, task[q])'
    <2>1. task'[q].pc \notin Deciding
      <3>1. CASE q = p
        BY <1>1, <3>1 DEF Closing!CommitClosure, HandlerTask, Deciding
      <3>2. CASE q # p
        BY <1>1, <3>2 DEF LoneInv, DecidesWell, Deciding, Closing!CommitClosure
      <3>. QED BY <3>1, <3>2
    <2>. QED BY <2>1 DEF DecidesWell, Deciding
  <1>6. P!OneReplica' /\ Requests' = Requests /\ Handlers' = Handlers
    BY DEF LoneInv, P!OneReplica, P!Replicas, biddingVars, Requests, Handlers, Closing!Handlers
  <1>. QED BY <1>3, <1>4, <1>5, <1>6 DEF LoneInv

LEMMA LoneInit == Init /\ AllOnOne => LoneInv
  <1> SUFFICES ASSUME Init, AllOnOne PROVE LoneInv
    OBVIOUS
  <1>1. P!Init /\ P!Requests = Requests
    BY SameInit, SystemInvInit DEF Init, SystemInv
  <1>2. /\ guard = [c \in {ReplicaOf[r] : r \in DOMAIN ReplicaOf} |-> Free]
        /\ req = [r \in DOMAIN ReplicaOf |-> P!Blank(ReplicaOf[r])]
    BY <1>1 DEF P!Init
  <1>3. P!OneReplica
    BY <1>2 DEF AllOnOne, Requests, P!OneReplica, P!Replicas
  <1>4. ASSUME NEW r \in Requests
        PROVE  RowsKnown(req[r])
    <2>1. req[r].pc = "new"
      BY <1>2 DEF Requests, P!Blank
    <2>2. req[r].pc \notin P!Inside
      BY <2>1 DEF P!Inside
    <2>. QED BY <2>2, OutsideKnows
  <1>5. ASSUME NEW p \in Handlers
        PROVE  DecidesWell(p, task[p])
    <2>1. task[p].pc = "idle"
      BY DEF Init, Handlers, Closing!Idle
    <2>. QED BY <2>1 DEF DecidesWell
  <1>6. PriceBacked(bids)
    BY <1>1 DEF P!Init, P!StoreInit, PriceBacked
  <1>. QED BY <1>3, <1>4, <1>5, <1>6 DEF LoneInv

LEMMA LoneClosing ==
  ASSUME SystemInv, LoneInv, NEW p \in Handlers, CloseStep(p) \/ CloseInput(p)
  PROVE  LoneInv'
  <1>1. /\ UNCHANGED biddingVars
        /\ \/ Closing!Step(p) \/ Closing!Request(p) \/ Closing!FailClosure(p)
           \/ Closing!WalletFails(p) \/ Closing!CutShort(p)
    BY DEF CloseStep, CloseInput
  <1>. QED BY <1>1, LoneLeaving, LoneDeciding, LoneCommit, Zenon

LEMMA LoneNext == SystemInv /\ LoneInv /\ [Next]_vars => LoneInv'
  <1> SUFFICES ASSUME SystemInv, LoneInv, [Next]_vars PROVE LoneInv'
    OBVIOUS
  <1>1. ASSUME NEW r \in Requests, BidStep(r) \/ BidInput(r)
        PROVE  LoneInv'
    BY <1>1, LoneBidding, LoneInput
  <1>2. ASSUME NEW p \in Closing!Handlers, CloseStep(p) \/ CloseInput(p)
        PROVE  LoneInv'
    BY <1>2, LoneClosing DEF Handlers
  <1>3. CASE Time \/ UNCHANGED vars
    <2>1. UNCHANGED <<listing, bids, guard, req, rowLock, task>>
      BY <1>3 DEF Time, Tick, vars, storeVars, biddingVars, closingVars
    <2>. QED BY <2>1 DEF LoneInv, P!OneReplica, P!Replicas, Closed, Closing!Closed, PriceBacked,
             Requests, Handlers, Closing!Handlers, RowsKnown, DecidesWell, SameBids
  <1>. QED BY <1>1, <1>2, <1>3 DEF Next

LEMMA LoneIsSound ==
  ASSUME AllOnOne
  PROVE  Spec => []LoneInv
  <1>1. Init => LoneInv
    BY LoneInit
  <1>. QED BY <1>1, LoneNext, SystemIsSound, PTL DEF Spec

-----------------------------------------------------------------------------
(* What the row shows, on one replica                                         *)

\* A request shows a higher price or leaves the row, brings the end no closer, and does
\* not close an auction.
LEMMA BiddingShows ==
  ASSUME SystemInv, LoneInv, NEW r \in Requests, BidStep(r) \/ BidInput(r)
  PROVE  /\ listing'.highest >= listing.highest /\ listing'.end >= listing.end
         /\ ~Closed => ~Closed'
  <1>1. /\ req[r] \in P!Local /\ RowsKnown(req[r]) /\ listing \in P!Row
    BY Assumed, P!RequestIsOK DEF SystemInv, LoneInv, P!PlacementInv, P!StoreOK
  <1>2. /\ listing.highest \in Nat /\ listing.end \in Nat
        /\ req[r].accepted \in Nat /\ req[r].target \in Nat /\ req[r].after.end \in Nat
    BY <1>1 DEF P!Row, P!Price, P!Local
  <1>3. P!Arrive(r) \/ P!Step(r) \/ P!EarlyEnd(r)
    BY SameStep, Zenon DEF BidStep, BidInput
  <1>4. CASE P!UpdateListing(r)
    <2>1. /\ req[r].after.end >= listing.end /\ req[r].after.status \in Biddable
      BY <1>1, <1>4 DEF P!UpdateListing, P!At, RowsKnown, HasBid
    <2>2. \/ listing' = listing
          \/ /\ listing.highest < req[r].accepted
             /\ listing' = [highest |-> req[r].accepted, end |-> req[r].after.end,
                            status |-> req[r].after.status]
      BY <1>4 DEF P!UpdateListing
    <2>. QED BY <1>2, <2>1, <2>2 DEF Closed, Closing!Closed, Biddable
  <1>5. CASE P!UpdateListingAuto(r)
    <2>1. req[r].after.status \in Biddable \/ req[r].after.end <= listing.end
      BY <1>1, <1>5 DEF P!UpdateListingAuto, P!At, RowsKnown, HasCounter
    <2>2. \/ listing' = listing
          \/ /\ listing.highest < req[r].target /\ listing.end < req[r].after.end
             /\ listing' = [highest |-> req[r].target, end |-> req[r].after.end,
                            status |-> req[r].after.status]
          \/ /\ listing.highest < req[r].target /\ ~(listing.end < req[r].after.end)
             /\ listing' = [highest |-> req[r].target, end |-> listing.end,
                            status |-> listing.status]
      BY <1>5 DEF P!UpdateListingAuto
    <2>. QED BY <1>2, <2>1, <2>2 DEF Closed, Closing!Closed, Biddable
  <1>6. CASE ~P!UpdateListing(r) /\ ~P!UpdateListingAuto(r)
    <2>1. listing' = listing
      BY <1>3, <1>6, Assumed, P!UpdatesShow
    <2>. QED BY <1>2, <2>1 DEF Closed, Closing!Closed
  <1>. QED BY <1>4, <1>5, <1>6

\* Committing shows the best of the bids that were read, which reach the price shown.
LEMMA CommitShows ==
  ASSUME SystemInv, LoneInv, NEW p \in Handlers, UNCHANGED biddingVars, Closing!CommitClosure(p)
  PROVE  /\ listing'.highest >= listing.highest /\ listing'.end >= listing.end
         /\ listing'.status = Closing!Outcome(task[p].rows)
         /\ SameBids(task[p].rows) /\ bids' = bids
  <1>1. /\ HandlerOK(p, task[p]) /\ DecidesWell(p, task[p]) /\ task[p].pc = "commit"
        /\ listing \in P!Row /\ bids' = bids
    BY DEF SystemInv, LoneInv, Closing!CommitClosure, Closing!At, P!PlacementInv, P!StoreOK
  <1>2. PICK rows : rows = task[p].rows
    OBVIOUS
  <1>3. /\ P!HasBest(rows) /\ PriceBacked(rows) /\ SameBids(rows) /\ rows \subseteq BidRow
        /\ listing.highest \in Nat /\ listing.end \in Nat
    BY <1>1, <1>2 DEF HandlerOK, HandlerTask, DecidesWell, P!Row
  <1>4. Closing!Highest(rows) \in Nat /\ Closing!Highest(rows) >= listing.highest
    <2>1. CASE rows = {}
      BY <1>3, <2>1 DEF Closing!Highest
    <2>2. CASE rows # {}
      <3>1. \E x \in rows : \A y \in rows \ {x} : Closing!Outranks(x, y)
        BY <1>3, <2>2 DEF P!HasBest, P!Outranks, Closing!Outranks
      <3>2. PICK best : best = Closing!Best(rows)
        OBVIOUS
      <3>3. best \in rows /\ \A y \in rows \ {best} : Closing!Outranks(best, y)
        BY <2>2, <3>1, <3>2 DEF Closing!Best
      <3>4. \A y \in rows : best.amount >= y.amount
        <4> SUFFICES ASSUME NEW y \in rows PROVE best.amount >= y.amount
          OBVIOUS
        <4>1. best.amount \in Nat /\ y.amount \in Nat
          BY <1>3, <3>3 DEF BidRow
        <4>2. y = best \/ best.amount > y.amount \/ best.amount = y.amount
          BY <3>3 DEF Closing!Outranks
        <4>. QED BY <4>1, <4>2
      <3>5. best.amount \in Nat /\ \A y \in rows : y.amount \in Nat
        BY <1>3, <3>3 DEF BidRow
      <3>6. Closing!Highest(rows) = best.amount
        BY <2>2, <3>2 DEF Closing!Highest
      <3>. QED BY <1>3, <3>4, <3>5, <3>6 DEF PriceBacked
    <2>. QED BY <2>1, <2>2
  <1>5. /\ listing'.highest = Closing!Highest(rows) /\ listing'.end = listing.end
        /\ listing'.status = Closing!Outcome(rows)
    BY <1>1, <1>2 DEF Closing!CommitClosure, P!Row
  <1>. QED BY <1>1, <1>2, <1>3, <1>4, <1>5

LEMMA ClosingShows ==
  ASSUME SystemInv, LoneInv, NEW p \in Handlers, CloseStep(p) \/ CloseInput(p),
         ~Closing!CommitClosure(p)
  PROVE  listing' = listing
  BY Zenon DEF CloseStep, CloseInput, Closing!Step, Closing!Request, Closing!FailClosure,
     Closing!WalletFails, Closing!CutShort, Closing!Wake, Closing!ClaimReturning,
     Closing!FindCandidate, Closing!ClaimCandidate, Closing!LockRow, Closing!Resume,
     Closing!Skip, Closing!Early, Closing!Unlock, Closing!AnswerAtOnce, Closing!Postpone,
     Closing!ListBids, Closing!MarkSettling, Closing!MarkFailed, Closing!ConvertHold,
     Closing!CannotConvert, Closing!ReleaseNext, Closing!AllReleased,
     Closing!MarkSettlementFailed, Closing!MarkDone, Closing!storeVars

LEMMA RowOnlyGrows ==
  SystemInv /\ LoneInv /\ [Next]_vars =>
    listing'.highest >= listing.highest /\ listing'.end >= listing.end
  <1> SUFFICES ASSUME SystemInv, LoneInv, [Next]_vars
               PROVE  listing'.highest >= listing.highest /\ listing'.end >= listing.end
    OBVIOUS
  <1>1. ASSUME NEW r \in Requests, BidStep(r) \/ BidInput(r)
        PROVE  listing'.highest >= listing.highest /\ listing'.end >= listing.end
    BY <1>1, BiddingShows
  <1>2. ASSUME listing' = listing
        PROVE  listing'.highest >= listing.highest /\ listing'.end >= listing.end
    BY <1>2 DEF SystemInv, P!PlacementInv, P!StoreOK, P!Row
  <1>3. ASSUME NEW p \in Handlers, CloseStep(p) \/ CloseInput(p)
        PROVE  listing'.highest >= listing.highest /\ listing'.end >= listing.end
    <2>1. UNCHANGED biddingVars
      BY <1>3 DEF CloseStep, CloseInput
    <2>2. CASE Closing!CommitClosure(p)
      BY <2>1, <2>2, CommitShows
    <2>3. CASE ~Closing!CommitClosure(p)
      BY <1>2, <1>3, <2>3, ClosingShows
    <2>. QED BY <2>2, <2>3
  <1>4. CASE Time \/ UNCHANGED vars
    BY <1>2, <1>4 DEF Time, Tick, vars, storeVars
  <1>. QED BY <1>1, <1>3, <1>4 DEF Next, Handlers

\* On one replica the price shown never falls, whatever a closing writes between a
\* request's reads and its UPDATE and whatever a request writes over an outcome.
THEOREM ShownPriceRises ==
  ASSUME AllOnOne
  PROVE  Spec => PriceShownOnlyRises
  <1>1. SystemInv /\ LoneInv /\ [Next]_vars => [listing'.highest >= listing.highest]_storeVars
    BY RowOnlyGrows
  <1>2. Spec => []LoneInv
    BY LoneIsSound
  <1>. QED BY <1>1, <1>2, SystemIsSound, PTL DEF Spec, PriceShownOnlyRises

\* On one replica the end that was promised to the bidders comes no closer.
THEOREM PromisedEndStays ==
  ASSUME AllOnOne
  PROVE  Spec => EndNeverShrinks
  <1>1. SystemInv /\ LoneInv /\ [Next]_vars => [listing'.end >= listing.end]_storeVars
    BY RowOnlyGrows
  <1>2. Spec => []LoneInv
    BY LoneIsSound
  <1>. QED BY <1>1, <1>2, SystemIsSound, PTL DEF Spec, EndNeverShrinks

\* On one replica an auction closes only by a handler that commits the outcome of every
\* bid stored at that moment, but for amounts a proxy has raised in place since.
THEOREM AllBidsDecide ==
  ASSUME AllOnOne
  PROVE  Spec => DecidedByAllBids
  <1> DEFINE ByAll ==
        \E p \in Closing!Handlers :
          LET rows == task[p].rows
          IN  /\ listing'.status = Closing!Outcome(rows)
              /\ {x.id : x \in rows} = {y.id : y \in bids}
              /\ \A x \in rows, y \in bids :
                   x.id = y.id /\ x # y => x.bidder = y.bidder /\ x.amount < y.amount
  <1>1. SystemInv /\ LoneInv /\ [Next]_vars => [~Closed /\ Closed' => ByAll]_vars
    <2> SUFFICES ASSUME SystemInv, LoneInv, [Next]_vars, ~Closed, Closed' PROVE ByAll
      OBVIOUS
    <2>1. ASSUME NEW r \in Requests, BidStep(r) \/ BidInput(r)
          PROVE  FALSE
      BY <2>1, BiddingShows
    <2>2. listing' # listing
      BY DEF Closed, Closing!Closed
    <2>3. ~(Time \/ UNCHANGED vars)
      BY <2>2 DEF Time, Tick, vars, storeVars
    <2>4. PICK p \in Handlers : CloseStep(p) \/ CloseInput(p)
      BY <2>1, <2>3 DEF Next, Handlers
    <2>5. Closing!CommitClosure(p) /\ UNCHANGED biddingVars
      BY <2>2, <2>4, ClosingShows DEF CloseStep, CloseInput
    <2>6. listing'.status = Closing!Outcome(task[p].rows) /\ SameBids(task[p].rows)
      BY <2>5, CommitShows
    <2>. QED BY <2>6 DEF SameBids, Handlers
  <1>2. Spec => []LoneInv
    BY LoneIsSound
  <1>. QED BY <1>1, <1>2, SystemIsSound, PTL DEF Spec, DecidedByAllBids
====
