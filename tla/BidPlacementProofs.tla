------------------------- MODULE BidPlacementProofs -------------------------
(* Proofs about BidPlacement: any number of requests, replicas, bidders and    *)
(* offers, with any number of requests that end early.                         *)
EXTENDS BidPlacement, FiniteSetTheorems, TLAPS

PCs == Inside \cup {"new", "waiting", "done"}

\* from here on a request bids in the name of a proxy
Countering == {"autosession", "autohold", "autowrite", "autoundo", "autorelease", "autooutbid",
               "autoupdate", "autodrop", "autodelete", "autojob", "autoplaced"}

\* every choice among rows has a best row: what the finite tables of the code provide
HasBest(rows) ==
  \A S \in SUBSET rows : S # {} => \E x \in S : \A y \in S \ {x} : Outranks(x, y)

HasLargest(board) ==
  \A S \in SUBSET board : S # {} => \E p \in S : \A q \in S : q.max <= p.max

Price == [end : Nat, status : Statuses]
Row == [highest : Nat, end : Nat, status : Statuses]
AnyBid == BidRow \cup {NoBid}

Local ==
  [replica : Replicas, pc : PCs, result : {"none", "Ok", "Refused", "Error"},
   stopped : PCs \cup {"none"}, bidder : Bidders \cup {Nobody}, kind : {"standard", "proxy"},
   offer : Nat, time : Nat, row : Row, prev : AnyBid, accepted : Nat, after : Price,
   board : SUBSET ProxyRow, top : Bidders \cup {Nobody}, cur : AnyBid, target : Nat]

\* What a request may rely on whatever the other replicas do.
LocalOK(t) ==
  /\ t \in Local
  /\ t.pc # "new" => t.bidder \in Bidders
  /\ HasLargest(t.board)
  /\ t.pc = "contest" => \E p \in t.board : p.bidder = t.top
  /\ t.pc \in Countering => t.top \in Bidders /\ t.cur \in BidRow

BeforeInsert == {"new", "waiting", "read", "winner", "session", "saveproxy", "release", "hold",
                 "insert", "undo", "ownproxy"}
BeforeAuto == BeforeInsert \cup {"outbid", "update", "reread", "job", "board", "contest",
                                 "autosession", "autohold", "autowrite"}

\* a request that has not stored its bid yet finds its ids unused
FreshOK(r, pc) ==
  /\ pc \in BeforeInsert => \A x \in bids : x.id # BidId(r) /\ x.hold # BidId(r)
  /\ pc \in BeforeAuto => \A x \in bids : x.id # AutoId(r) /\ x.hold # AutoId(r)

StoreOK ==
  /\ listing \in Row
  /\ bids \subseteq BidRow
  /\ \A x, y \in bids : x.id = y.id => x = y
  /\ HasBest(bids)
  /\ proxies \subseteq ProxyRow
  /\ HasLargest(proxies)
  /\ DOMAIN holds \subseteq Nat \ {0}
  /\ \A i \in DOMAIN holds : holds[i] \in Hold
  /\ job \in [status : JobStatuses, due : Nat, lockedUntil : Nat]
  /\ now \in Nat
  /\ faults \in Nat

RequestsOK ==
  /\ Requests \subseteq Nat \ {0} /\ Free \notin Requests
  /\ req \in [Requests -> Local]
  /\ guard \in [Replicas -> Requests \cup {Free}]
  /\ \A r \in Requests : /\ LocalOK(req[r])
                         /\ FreshOK(r, req[r].pc)
                         /\ InProgress(r) <=> guard[req[r].replica] = r
  /\ \A p \in Replicas : guard[p] # Free => req[guard[p]].replica = p

\* The inductive invariant that holds on any number of replicas.
PlacementInv == StoreOK /\ RequestsOK

-----------------------------------------------------------------------------
(* The rows *)

\* The winning bid is a stored bid that outranks all others.
LEMMA WinningIsBest ==
  ASSUME HasBest(bids), bids # {}
  PROVE  Winning \in bids /\ \A y \in bids \ {Winning} : Outranks(Winning, y)
  <1>1. \E x \in bids : \A y \in bids \ {x} : Outranks(x, y)
    BY DEF HasBest
  <1>. QED BY <1>1 DEF Winning, Best

LEMMA WinningTyped ==
  ASSUME StoreOK
  PROVE  Winning \in AnyBid /\ (bids # {} => Winning \in bids)
  BY WinningIsBest DEF StoreOK, AnyBid, Winning, Best

\* Of two different rows one outranks the other.
LEMMA OutranksTotal ==
  ASSUME NEW x \in BidRow, NEW y \in BidRow, x.id # y.id
  PROVE  Outranks(x, y) \/ Outranks(y, x)
  BY DEF Outranks, BidRow

LEMMA OutranksTransitive ==
  ASSUME NEW x \in BidRow, NEW y \in BidRow, NEW z \in BidRow,
         Outranks(x, y), Outranks(y, z)
  PROVE  Outranks(x, z)
  BY DEF Outranks, BidRow

\* A row with an id of its own keeps every choice in order.
LEMMA HasBestWithRow ==
  ASSUME NEW rows \in SUBSET BidRow, NEW row \in BidRow, HasBest(rows),
         \A x \in rows : x.id # row.id
  PROVE  HasBest(rows \cup {row})
  <1> SUFFICES ASSUME NEW S \in SUBSET (rows \cup {row}), S # {}
               PROVE  \E x \in S : \A y \in S \ {x} : Outranks(x, y)
    BY DEF HasBest
  <1>1. CASE row \notin S
    BY <1>1 DEF HasBest
  <1>2. CASE S = {row}
    BY <1>2
  <1>3. CASE row \in S /\ S # {row}
    <2>1. S \ {row} \in SUBSET rows /\ S \ {row} # {}
      BY <1>3
    <2>2. PICK x \in S \ {row} : \A y \in (S \ {row}) \ {x} : Outranks(x, y)
      BY <2>1 DEF HasBest
    <2>3. CASE Outranks(x, row)
      BY <2>2, <2>3
    <2>4. CASE Outranks(row, x)
      <3>1. \A y \in S \ {row} : Outranks(row, y)
        BY <2>1, <2>2, <2>4, OutranksTransitive
      <3>. QED BY <1>3, <3>1
    <2>. QED BY <2>1, <2>3, <2>4, OutranksTotal
  <1>. QED BY <1>1, <1>2, <1>3

LEMMA HasBestOfPart ==
  ASSUME NEW rows, HasBest(rows), NEW part \in SUBSET rows
  PROVE  HasBest(part)
  BY DEF HasBest

LEMMA HasLargestWithRow ==
  ASSUME NEW board \in SUBSET ProxyRow, NEW row \in ProxyRow, HasLargest(board)
  PROVE  HasLargest(board \cup {row})
  <1> SUFFICES ASSUME NEW S \in SUBSET (board \cup {row}), S # {}
               PROVE  \E p \in S : \A q \in S : q.max <= p.max
    BY DEF HasLargest
  <1>1. row.max \in Nat /\ \A p \in board : p.max \in Nat
    BY DEF ProxyRow
  <1>2. CASE row \notin S
    BY <1>2 DEF HasLargest
  <1>3. CASE S = {row}
    BY <1>1, <1>3
  <1>4. CASE row \in S /\ S # {row}
    <2>1. S \ {row} \in SUBSET board /\ S \ {row} # {}
      BY <1>4
    <2>2. PICK p \in S \ {row} : \A q \in S \ {row} : q.max <= p.max
      BY <2>1 DEF HasLargest
    <2>3. CASE row.max <= p.max
      BY <2>2, <2>3
    <2>4. CASE p.max < row.max
      <3>1. \A q \in S : q.max <= row.max
        BY <1>1, <2>1, <2>2, <2>4
      <3>. QED BY <1>4, <3>1
    <2>. QED BY <1>1, <2>1, <2>3, <2>4
  <1>. QED BY <1>2, <1>3, <1>4

\* The upsert keeps the board in order.
LEMMA UpsertTyped ==
  ASSUME StoreOK, NEW b \in Bidders, NEW max \in Nat, NEW time \in Nat, UpsertMax(b, max, time)
  PROVE  /\ proxies' \subseteq ProxyRow /\ HasLargest(proxies')
         /\ \E p \in proxies' : p.bidder = b /\ p.max = max
         /\ \A p \in proxies : p.bidder # b => p \in proxies'
  <1> DEFINE old == {p \in proxies : p.bidder = b}
             created == IF old = {} THEN time ELSE (CHOOSE p \in old : TRUE).created
             row == [bidder |-> b, max |-> max, created |-> created]
  <1>1. proxies' = (proxies \ old) \cup {row}
    BY DEF UpsertMax
  <1>2. created \in Nat
    <2>1. CASE old = {}
      BY <2>1
    <2>2. CASE old # {}
      <3>1. (CHOOSE p \in old : TRUE) \in old
        BY <2>2
      <3>. QED BY <2>2, <3>1 DEF StoreOK, ProxyRow
    <2>. QED BY <2>1, <2>2
  <1>3. row \in ProxyRow
    BY <1>2 DEF ProxyRow
  <1>4. proxies \ old \in SUBSET ProxyRow /\ HasLargest(proxies \ old)
    BY DEF StoreOK, HasLargest
  <1>5. HasLargest((proxies \ old) \cup {row})
    BY <1>3, <1>4, HasLargestWithRow
  <1>6. \A p \in proxies : p.bidder # b => p \in proxies'
    BY <1>1
  <1>7. row \in proxies' /\ row.bidder = b /\ row.max = max
    BY <1>1
  <1>. QED BY <1>1, <1>3, <1>4, <1>5, <1>6, <1>7

\* What is held covers the amount, in whole rupiah.
LEMMA RupiahCovers ==
  ASSUME NEW cents \in Nat
  PROVE  Rupiah(cents) \in Nat /\ Rupiah(cents) * CentsPerRupiah >= cents
  <1>1. CentsPerRupiah \in Nat /\ CentsPerRupiah > 0
    BY StoreAssumption
  <1>2. CASE cents = 0
    BY <1>1, <1>2 DEF Rupiah
  <1>3. CASE cents > 0
    <2> DEFINE n == cents + CentsPerRupiah - 1
               q == n \div CentsPerRupiah
               m == n % CentsPerRupiah
    <2>1. n \in Nat
      BY <1>1, <1>3
    <2>2. q \in Nat /\ m \in Nat /\ m <= CentsPerRupiah - 1 /\ n = q * CentsPerRupiah + m
      <3> HIDE DEF n
      <3>. QED BY <1>1, <2>1
    <2>3. Rupiah(cents) = q
      BY <1>3 DEF Rupiah
    <2>4. q * CentsPerRupiah \in Int
      BY <1>1, <2>2
    <2>5. q * CentsPerRupiah >= cents
      <3>1. n = cents + CentsPerRupiah - 1
        OBVIOUS
      <3> HIDE DEF n, q, m
      <3>. QED BY <1>1, <2>2, <2>4, <3>1
    <2>. QED BY <2>2, <2>3, <2>5
  <1>. QED BY <1>2, <1>3

LEMMA NewHoldTyped ==
  ASSUME NEW b \in Bidders, NEW amount \in Nat, NEW end \in Nat
  PROVE  NewHold(b, amount, end) \in Hold
  BY RupiahCovers, StoreAssumption DEF NewHold, Hold

\* Anti-sniping never brings the end closer.
LEMMA AfterBidTyped ==
  ASSUME NEW row \in Row, NEW t \in Nat
  PROVE  /\ AfterBid(row, t) \in Price /\ AfterBid(row, t).end >= row.end
         /\ AfterRaise(row, t) \in Price /\ AfterRaise(row, t).end >= row.end
  <1>1. AfterBid(row, t) \in Price /\ AfterBid(row, t).end >= row.end
    BY PlacementAssumption DEF AfterBid, Row, Price, Statuses, Biddable
  <1>2. AfterRaise(row, t).end = AfterBid(row, t).end
    BY DEF AfterRaise
  <1>3. AfterRaise(row, t) \in Price
    BY <1>1 DEF AfterRaise, Row, Price, Statuses, Biddable
  <1>. QED BY <1>1, <1>2, <1>3

LEMMA MinimumTyped ==
  ASSUME NEW x \in AnyBid
  PROVE  MinimumOver(x) \in Nat /\ MinimumOver(x) > x.amount
  BY StoreAssumption DEF MinimumOver, AnyBid, NoBid, BidRow

\* The automatic bid is an amount, and no more than the top proxy's maximum.
LEMMA TargetTyped ==
  ASSUME NEW r, NEW winning \in AnyBid, req[r].board \in SUBSET ProxyRow,
         HasLargest(req[r].board), \E p \in req[r].board : p.bidder = req[r].top
  PROVE  /\ TargetAmount(r, winning) \in Nat
         /\ \E p \in req[r].board : p.bidder = req[r].top /\ TargetAmount(r, winning) <= p.max
  <1> DEFINE board == req[r].board
             others == {p.max : p \in {q \in board : q.bidder # req[r].top}}
             top == CHOOSE p \in board : p.bidder = req[r].top
  <1>1. top \in board /\ top.bidder = req[r].top
    OBVIOUS
  <1>2. top.max \in Nat /\ TopMax(r) = top.max
    BY <1>1 DEF TopMax, ProxyRow
  <1>3. CompetitorCap(r, winning) \in Nat
    <2>1. CASE others = {}
      BY <2>1 DEF CompetitorCap, AnyBid, BidRow, NoBid
    <2>2. CASE others # {}
      <3>1. {q \in board : q.bidder # req[r].top} # {}
        BY <2>2
      <3>2. PICK p \in {q \in board : q.bidder # req[r].top} :
              \A q \in {q \in board : q.bidder # req[r].top} : q.max <= p.max
        BY <3>1 DEF HasLargest
      <3>3. p.max \in others /\ \A y \in others : y <= p.max
        BY <3>2
      <3>4. LargestOf(others) \in others
        BY <3>3 DEF LargestOf
      <3>5. others \subseteq Nat
        BY DEF ProxyRow
      <3>. QED BY <2>2, <3>4, <3>5 DEF CompetitorCap
    <2>. QED BY <2>1, <2>2
  <1>4. CompetitorCap(r, winning) + MinimumIncrement \in Nat
    BY <1>3, StoreAssumption
  <1>5. TargetAmount(r, winning) \in Nat /\ TargetAmount(r, winning) <= top.max
    BY <1>2, <1>4 DEF TargetAmount, SmallerOf
  <1>. QED BY <1>1, <1>5

-----------------------------------------------------------------------------
(* The requests *)

\* ids that are new in the table of bids belong to r
OwnIds(r) ==
  \A x \in bids' :
    /\ x.id \in {BidId(r), AutoId(r)} \/ \E y \in bids : x.id = y.id
    /\ x.hold \in {BidId(r), AutoId(r)} \/ \E y \in bids : x.hold = y.hold

\* A request keeps its mutex, gives it back when it is answered, or enters a free one.
MutexStep(r, pc) ==
  \/ guard' = guard /\ (pc \in Inside <=> InProgress(r))
  \/ InProgress(r) /\ pc = "done" /\ guard' = [guard EXCEPT ![req[r].replica] = Free]
  \/ guard[req[r].replica] = Free /\ pc = "read" /\ guard' = [guard EXCEPT ![req[r].replica] = r]

\* What every step of a request r owes to the invariant.
LEMMA RequestStep ==
  ASSUME PlacementInv, NEW r \in Requests, NEW t,
         req' = [req EXCEPT ![r] = t], LocalOK(t), t.replica = req[r].replica,
         OwnIds(r), FreshOK(r, t.pc)', MutexStep(r, t.pc)
  PROVE  RequestsOK'
  <1>1. Requests' = Requests /\ Replicas' = Replicas
    BY DEF PlacementInv, RequestsOK, MutexStep, Requests, Replicas
  <1>2. Local' = Local
    BY <1>1 DEF Local
  <1>3. \A u : LocalOK(u)' <=> LocalOK(u)
    BY <1>2 DEF LocalOK
  <1>4. t \in Local /\ req' \in [Requests -> Local]
    BY DEF LocalOK, PlacementInv, RequestsOK
  <1>5. req[r].replica \in Replicas /\ Free \notin Requests
    BY DEF PlacementInv, RequestsOK, Local
  <1>6. guard' \in [Replicas -> Requests \cup {Free}]
    BY <1>5 DEF MutexStep, PlacementInv, RequestsOK
  <1>7. req'[r] = t /\ \A q \in Requests \ {r} : req'[q] = req[q]
    BY DEF PlacementInv, RequestsOK
  <1>8. ASSUME NEW q \in Requests
        PROVE  (LocalOK(req[q]) /\ FreshOK(q, req[q].pc))'
    <2>1. CASE q = r
      BY <1>3, <1>7, <2>1
    <2>2. CASE q # r
      <3>1. LocalOK(req[q]) /\ FreshOK(q, req[q].pc)
        BY DEF PlacementInv, RequestsOK
      <3>2. {BidId(q), AutoId(q)} \cap {BidId(r), AutoId(r)} = {}
        <4>1. q \in Nat /\ r \in Nat
          BY DEF PlacementInv, RequestsOK
        <4>. QED BY <2>2, <4>1 DEF BidId, AutoId
      <3>3. FreshOK(q, req[q].pc)'
        BY <1>7, <2>2, <3>1, <3>2 DEF FreshOK, OwnIds, BidId, AutoId
      <3>. QED BY <1>3, <1>7, <2>2, <3>1, <3>3
    <2>. QED BY <2>1, <2>2
  <1>9. ASSUME NEW q \in Requests
        PROVE  (InProgress(q) <=> guard[req[q].replica] = q)'
    <2>1. InProgress(q) <=> guard[req[q].replica] = q
      BY DEF PlacementInv, RequestsOK
    <2>2. InProgress(r) <=> guard[req[r].replica] = r
      BY DEF PlacementInv, RequestsOK
    <2>3. req[q].replica \in Replicas
      BY DEF PlacementInv, RequestsOK, Local
    <2>4. guard \in [Replicas -> Requests \cup {Free}]
      BY DEF PlacementInv, RequestsOK
    <2>5. CASE q = r
      <3>1. InProgress(r)' <=> t.pc \in Inside
        BY <1>7 DEF InProgress
      <3>. QED BY <1>5, <1>7, <2>2, <2>4, <2>5, <3>1 DEF MutexStep, Inside
    <2>6. CASE q # r
      <3>1. InProgress(q)' <=> InProgress(q)
        BY <1>7, <2>6 DEF InProgress
      <3>. QED BY <1>5, <1>7, <2>1, <2>2, <2>3, <2>4, <2>6, <3>1 DEF MutexStep
    <2>. QED BY <2>5, <2>6
  <1>10. ASSUME NEW p \in Replicas, guard'[p] # Free
         PROVE  req'[guard'[p]].replica = p
    <2>1. guard \in [Replicas -> Requests \cup {Free}]
      BY DEF PlacementInv, RequestsOK
    <2>2. guard[p] # Free => guard[p] \in Requests /\ req[guard[p]].replica = p
      BY <2>1 DEF PlacementInv, RequestsOK
    <2>. QED BY <1>5, <1>7, <1>10, <2>1, <2>2 DEF MutexStep
  <1>. QED BY <1>1, <1>2, <1>4, <1>5, <1>6, <1>8, <1>9, <1>10 DEF RequestsOK, PlacementInv

\* A request that goes on without reading anything.
LEMMA MovedOK ==
  ASSUME PlacementInv, NEW r \in Requests, NEW pc \in PCs \ {"new", "contest"},
         req[r].pc # "new", pc \in Countering => req[r].pc \in Countering
  PROVE  LET t == [req[r] EXCEPT !.pc = pc]
         IN  LocalOK(t) /\ t.replica = req[r].replica /\ t.pc = pc
  BY DEF PlacementInv, RequestsOK, LocalOK, Local

\* A request that is answered.
Answered(q, result) ==
  [Blank(q.replica) EXCEPT !.pc = "done", !.result = result,
     !.stopped = IF result = "Ok" THEN "none" ELSE q.pc,
     !.bidder = q.bidder, !.kind = q.kind, !.accepted = q.accepted, !.prev = q.prev]

LEMMA AnsweredOK ==
  ASSUME PlacementInv, NEW r \in Requests, InProgress(r),
         NEW result \in {"Ok", "Refused", "Error"}, Answer(r, result)
  PROVE  LET t == Answered(req[r], result)
         IN  /\ req' = [req EXCEPT ![r] = t] /\ LocalOK(t)
             /\ t.replica = req[r].replica /\ t.pc = "done" /\ MutexStep(r, t.pc)
  <1> DEFINE t == Answered(req[r], result)
  <1>1. req' = [req EXCEPT ![r] = t] /\ guard' = [guard EXCEPT ![req[r].replica] = Free]
    BY DEF Answer, Answered
  <1>2. /\ req[r] \in Local /\ req[r].bidder \in Bidders
    BY DEF PlacementInv, RequestsOK, LocalOK, InProgress, Inside
  <1>3. t.pc = "done" /\ t.replica = req[r].replica
    <2>1. PICK b : b = Blank(req[r].replica)
      OBVIOUS
    <2>2. b.replica = req[r].replica /\ "pc" \in DOMAIN b
      BY <2>1 DEF Blank
    <2>. QED BY <2>1, <2>2 DEF Answered
  <1>4. t \in Local /\ t.bidder \in Bidders /\ t.board = {}
    <2>1. /\ req[r].replica \in Replicas /\ req[r].pc \in PCs
          /\ req[r].kind \in {"standard", "proxy"}
          /\ req[r].accepted \in Nat /\ req[r].prev \in AnyBid
      BY <1>2 DEF Local
    <2>2. "done" \in PCs /\ "ACTIVE" \in Statuses /\ NoBid \in AnyBid
      BY DEF PCs, AnyBid, Statuses, Biddable
    <2>3. [highest |-> 0, end |-> 0, status |-> "ACTIVE"] \in Row
          /\ [end |-> 0, status |-> "ACTIVE"] \in Price
      BY <2>2 DEF Row, Price
    <2>4. PICK b : b = Blank(req[r].replica)
      OBVIOUS
    <2>5. b \in Local /\ b.board = {}
      BY <2>1, <2>2, <2>3, <2>4 DEF Blank, Local, PCs
    <2>6. t = [b EXCEPT !.pc = "done", !.result = result,
                 !.stopped = IF result = "Ok" THEN "none" ELSE req[r].pc,
                 !.bidder = req[r].bidder, !.kind = req[r].kind,
                 !.accepted = req[r].accepted, !.prev = req[r].prev]
      BY <2>4 DEF Answered
    <2> HIDE DEF t
    <2>. QED BY <1>2, <2>1, <2>2, <2>5, <2>6 DEF Local
  <1>5. LocalOK(t)
    BY <1>3, <1>4 DEF LocalOK, HasLargest, Countering
  <1>. QED BY <1>1, <1>3, <1>5 DEF MutexStep

\* Once a request has got past storing a bid it does not come back to it.
Onward(from, to) ==
  /\ to \in BeforeInsert => from \in BeforeInsert
  /\ to \in BeforeAuto => from \in BeforeAuto

\* The shape of every step of a request that leaves the table of bids alone.
LEMMA StepKeepsInv ==
  ASSUME PlacementInv, NEW r \in Requests, NEW t,
         req' = [req EXCEPT ![r] = t], LocalOK(t), t.replica = req[r].replica,
         Onward(req[r].pc, t.pc), MutexStep(r, t.pc), bids' = bids, StoreOK'
  PROVE  PlacementInv'
  <1>1. OwnIds(r)
    BY DEF OwnIds
  <1>2. FreshOK(r, t.pc)'
    BY DEF PlacementInv, RequestsOK, FreshOK, Onward
  <1>3. RequestsOK'
    BY <1>1, <1>2, RequestStep
  <1>. QED BY <1>3 DEF PlacementInv

LEMMA AnswerKeepsInv ==
  ASSUME PlacementInv, NEW r \in Requests, InProgress(r),
         NEW result \in {"Ok", "Refused", "Error"}, Answer(r, result), bids' = bids, StoreOK'
  PROVE  PlacementInv'
  <1>1. Onward(req[r].pc, "done")
    BY DEF Onward, BeforeInsert, BeforeAuto
  <1>. QED BY <1>1, AnsweredOK, StepKeepsInv

\* The same for a step inside the mutex that only moves on.
LEMMA MoveKeepsInv ==
  ASSUME PlacementInv, NEW r \in Requests, InProgress(r), NEW pc \in Inside \ {"contest"},
         pc \in Countering => req[r].pc \in Countering,
         req' = [req EXCEPT ![r].pc = pc],
         Onward(req[r].pc, pc), guard' = guard, bids' = bids, StoreOK'
  PROVE  PlacementInv'
  <1>1. PICK t : t = [req[r] EXCEPT !.pc = pc]
    OBVIOUS
  <1>2. req' = [req EXCEPT ![r] = t]
    BY <1>1
  <1>3. pc \in PCs \ {"new", "contest"} /\ req[r].pc # "new"
    BY DEF PCs, Inside, InProgress
  <1>4. LocalOK(t) /\ t.replica = req[r].replica /\ t.pc = pc
    BY <1>1, <1>3, MovedOK
  <1>5. MutexStep(r, t.pc)
    BY <1>4 DEF MutexStep
  <1>. QED BY <1>2, <1>4, <1>5, StepKeepsInv

\* What the invariant says of one request.
LEMMA RequestIsOK ==
  ASSUME PlacementInv, NEW r \in Requests
  PROVE  /\ req[r] \in Local /\ LocalOK(req[r]) /\ FreshOK(r, req[r].pc)
         /\ r \in Nat \ {0} /\ BidId(r) \in Nat \ {0} /\ AutoId(r) \in Nat \ {0}
         /\ AutoTime(r) \in Nat
  BY DEF PlacementInv, RequestsOK, LocalOK, BidId, AutoId, AutoTime, Local

LEMMA ReleaseTyped ==
  ASSUME StoreOK, NEW id, ReleaseHold(id)
  PROVE  DOMAIN holds' \subseteq Nat \ {0} /\ \A i \in DOMAIN holds' : holds'[i] \in Hold
  BY SMT DEF StoreOK, ReleaseHold, IsActive, Hold

LEMMA HoldTyped ==
  ASSUME StoreOK, NEW id \in Nat \ {0}, NEW hold \in Hold, HoldFunds(id, hold)
  PROVE  DOMAIN holds' \subseteq Nat \ {0} /\ \A i \in DOMAIN holds' : holds'[i] \in Hold
  BY DEF StoreOK, HoldFunds

-----------------------------------------------------------------------------
(* The actions, grouped by what they change *)

\* arriving, entering the mutex and the reads of place_bid_internal
LEMMA ReadingKeepsInv ==
  ASSUME PlacementInv, NEW r \in Requests,
         Arrive(r) \/ EnterGuard(r) \/ ReadAuction(r) \/ ReadWinner(r) \/ ReadSession(r)
  PROVE  PlacementInv'
  <1>0. /\ StoreOK /\ req[r] \in Local /\ LocalOK(req[r])
        /\ Winning \in AnyBid
    BY RequestIsOK, WinningTyped DEF PlacementInv
  <1>1. StoreOK'
    BY <1>0 DEF Arrive, EnterGuard, ReadAuction, ReadWinner, ReadSession, storeVars, StoreOK
  <1>2. UNCHANGED bids
    BY DEF Arrive, EnterGuard, ReadAuction, ReadWinner, ReadSession, storeVars
  <1>3. CASE Arrive(r)
    <2>1. PICK o \in Offers :
            req' = [req EXCEPT ![r].pc = "waiting", ![r].bidder = o.bidder,
                               ![r].kind = o.kind, ![r].offer = o.offer, ![r].time = now]
      BY <1>3 DEF Arrive
    <2>2. PICK t : t = [req[r] EXCEPT !.pc = "waiting", !.bidder = o.bidder,
                                      !.kind = o.kind, !.offer = o.offer, !.time = now]
      OBVIOUS
    <2>3. req' = [req EXCEPT ![r] = t]
      BY <2>1, <2>2
    <2>4. o.bidder \in Bidders /\ o.kind \in {"standard", "proxy"} /\ o.offer \in Nat
      BY PlacementAssumption
    <2>5. t.pc = "waiting" /\ t.replica = req[r].replica /\ LocalOK(t)
      BY <1>0, <2>2, <2>4 DEF LocalOK, Local, PCs, Countering, StoreOK
    <2>6. Onward(req[r].pc, t.pc) /\ MutexStep(r, t.pc)
      BY <1>3, <2>5 DEF Arrive, At, Onward, BeforeInsert, BeforeAuto, MutexStep, InProgress, Inside
    <2>. QED BY <1>1, <1>2, <2>3, <2>5, <2>6, StepKeepsInv
  <1>4. CASE EnterGuard(r)
    <2>1. PICK t : t = [req[r] EXCEPT !.pc = "read"]
      OBVIOUS
    <2>2. req' = [req EXCEPT ![r] = t]
      BY <1>4, <2>1 DEF EnterGuard
    <2>3. LocalOK(t) /\ t.replica = req[r].replica /\ t.pc = "read"
      BY <1>4, <2>1, MovedOK DEF EnterGuard, At, PCs, Inside, Countering
    <2>4. Onward(req[r].pc, t.pc) /\ MutexStep(r, t.pc)
      BY <1>4, <2>3 DEF EnterGuard, At, Onward, BeforeInsert, BeforeAuto, MutexStep
    <2>. QED BY <1>1, <1>2, <2>2, <2>3, <2>4, StepKeepsInv
  <1>5. ASSUME InProgress(r), NEW result \in {"Ok", "Refused", "Error"}, Answer(r, result)
        PROVE  PlacementInv'
    BY <1>1, <1>2, <1>5, AnswerKeepsInv
  <1>6. CASE ReadAuction(r)
    <2>1. InProgress(r) /\ req[r].pc = "read"
      BY <1>6 DEF ReadAuction, At, InProgress, Inside
    <2>2. CASE req' = [req EXCEPT ![r].pc = "winner", ![r].row = listing] /\ guard' = guard
      <3>1. PICK t : t = [req[r] EXCEPT !.pc = "winner", !.row = listing]
        OBVIOUS
      <3>2. req' = [req EXCEPT ![r] = t]
        BY <2>2, <3>1
      <3>3. t.pc = "winner" /\ t.replica = req[r].replica /\ LocalOK(t)
        BY <1>0, <2>1, <3>1 DEF LocalOK, Local, PCs, Inside, Countering, StoreOK
      <3>4. Onward(req[r].pc, t.pc) /\ MutexStep(r, t.pc)
        BY <2>1, <2>2, <3>3 DEF Onward, BeforeInsert, BeforeAuto, MutexStep, Inside
      <3>. QED BY <1>1, <1>2, <3>2, <3>3, <3>4, StepKeepsInv
    <2>. QED BY <1>5, <1>6, <2>1, <2>2 DEF ReadAuction
  <1>7. CASE ReadWinner(r)
    <2>1. InProgress(r) /\ req[r].pc = "winner"
      BY <1>7 DEF ReadWinner, At, InProgress, Inside
    <2>2. ASSUME NEW pc \in {"ownproxy", "session"}, guard' = guard,
                 req' = [req EXCEPT ![r].pc = pc, ![r].prev = Winning]
          PROVE  PlacementInv'
      <3>1. PICK t : t = [req[r] EXCEPT !.pc = pc, !.prev = Winning]
        OBVIOUS
      <3>2. req' = [req EXCEPT ![r] = t]
        BY <2>2, <3>1
      <3>3. t.pc = pc /\ t.replica = req[r].replica /\ LocalOK(t)
        BY <1>0, <2>1, <3>1 DEF LocalOK, Local, PCs, Inside, Countering
      <3>4. Onward(req[r].pc, t.pc) /\ MutexStep(r, t.pc)
        BY <2>1, <2>2, <3>3 DEF Onward, BeforeInsert, BeforeAuto, MutexStep, Inside
      <3>. QED BY <1>1, <1>2, <3>2, <3>3, <3>4, StepKeepsInv
    <2>. QED BY <1>5, <1>7, <2>1, <2>2 DEF ReadWinner
  <1>8. CASE ReadSession(r)
    <2>1. InProgress(r) /\ req[r].pc = "session"
      BY <1>8 DEF ReadSession, At, InProgress, Inside
    <2>2. ASSUME NEW pc \in {"saveproxy", "release"}, NEW amount \in Nat, NEW after \in Price,
                 req' = [req EXCEPT ![r].pc = pc, ![r].accepted = amount, ![r].after = after],
                 guard' = guard
          PROVE  PlacementInv'
      <3>1. PICK t : t = [req[r] EXCEPT !.pc = pc, !.accepted = amount, !.after = after]
        OBVIOUS
      <3>2. req' = [req EXCEPT ![r] = t]
        BY <2>2, <3>1
      <3>3. t.pc = pc /\ t.replica = req[r].replica /\ LocalOK(t)
        BY <1>0, <2>1, <3>1 DEF LocalOK, Local, PCs, Inside, Countering
      <3>4. Onward(req[r].pc, t.pc) /\ MutexStep(r, t.pc)
        BY <2>1, <2>2, <3>3 DEF Onward, BeforeInsert, BeforeAuto, MutexStep, Inside
      <3>. QED BY <1>1, <1>2, <3>2, <3>3, <3>4, StepKeepsInv
    <2>3. /\ req[r].row \in Row /\ req[r].time \in Nat /\ req[r].offer \in Nat
          /\ [end |-> req[r].row.end, status |-> req[r].row.status] \in Price
      BY <1>0 DEF Local, Row, Price
    <2>4. /\ AfterBid(req[r].row, req[r].time) \in Price
          /\ MinimumOver(Winning) \in Nat /\ Winning.amount \in Nat
      BY <1>0, <2>3, AfterBidTyped, MinimumTyped DEF AnyBid, BidRow, NoBid
    <2>5. CASE Answer(r, "Refused")
      BY <1>5, <2>1, <2>5
    <2>6. CASE ~Answer(r, "Refused")
      <3> DEFINE own == req[r].kind = "proxy" /\ Winning.bidder = req[r].bidder
                 amount == IF own THEN Winning.amount
                           ELSE IF req[r].kind = "proxy" THEN MinimumOver(Winning)
                                                         ELSE req[r].offer
                 pc == IF req[r].kind = "proxy" THEN "saveproxy" ELSE "release"
                 after == IF own THEN [end |-> req[r].row.end, status |-> req[r].row.status]
                                 ELSE AfterBid(req[r].row, req[r].time)
      <3>1. /\ req' = [req EXCEPT ![r].pc = pc, ![r].accepted = amount, ![r].after = after]
            /\ guard' = guard
        BY <1>8, <2>6, Zenon DEF ReadSession
      <3>2. amount \in Nat /\ after \in Price /\ pc \in {"saveproxy", "release"}
        BY <2>3, <2>4
      <3> HIDE DEF amount, after, pc
      <3>. QED BY <2>2, <3>1, <3>2
    <2>. QED BY <2>5, <2>6
  <1>. QED BY <1>3, <1>4, <1>6, <1>7, <1>8

\* the statements and calls of place_bid_internal, the insert apart
LEMMA PlacingKeepsInv ==
  ASSUME PlacementInv, NEW r \in Requests,
         \/ SaveOwnProxy(r) \/ SaveProxy(r) \/ ReleasePrevious(r) \/ HoldNew(r) \/ UndoHold(r)
         \/ PublishOutbid(r) \/ UpdateListing(r) \/ RereadListing(r) \/ Reschedule(r)
         \/ PublishPlaced(r)
  PROVE  PlacementInv'
  <1>0. /\ StoreOK /\ req[r] \in Local /\ LocalOK(req[r]) /\ req[r].offer \in Nat
        /\ req[r].time \in Nat /\ req[r].accepted \in Nat /\ req[r].row \in Row
        /\ req[r].after \in Price /\ req[r].prev \in AnyBid
        /\ BidId(r) \in Nat \ {0}
    BY RequestIsOK DEF PlacementInv, Local
  <1>1. ASSUME req[r].pc # "new" PROVE req[r].bidder \in Bidders
    BY <1>0, <1>1 DEF LocalOK
  <1>2. CASE SaveOwnProxy(r)
    <2>1. InProgress(r) /\ req[r].bidder \in Bidders
      BY <1>1, <1>2 DEF SaveOwnProxy, At, InProgress, Inside
    <2>2. StoreOK'
      BY <1>0, <1>2, <2>1, UpsertTyped DEF SaveOwnProxy, StoreOK
    <2>. QED BY <1>2, <2>1, <2>2, AnswerKeepsInv DEF SaveOwnProxy
  <1>3. CASE SaveProxy(r)
    <2>1. InProgress(r) /\ req[r].bidder \in Bidders
      BY <1>1, <1>3 DEF SaveProxy, At, InProgress, Inside
    <2>2. StoreOK'
      BY <1>0, <1>3, <2>1, UpsertTyped DEF SaveProxy, StoreOK
    <2>. QED BY <1>3, <2>1, <2>2, MoveKeepsInv
         DEF SaveProxy, At, Inside, Countering, Onward, BeforeInsert, BeforeAuto
  <1>4. CASE ReleasePrevious(r)
    <2>1. InProgress(r)
      BY <1>4 DEF ReleasePrevious, At, InProgress, Inside
    <2>2. StoreOK'
      BY <1>0, <1>4, ReleaseTyped DEF ReleasePrevious, StoreOK
    <2>. QED BY <1>4, <2>1, <2>2, MoveKeepsInv
         DEF ReleasePrevious, At, Inside, Countering, Onward, BeforeInsert, BeforeAuto
  <1>5. CASE HoldNew(r)
    <2>1. InProgress(r) /\ req[r].bidder \in Bidders
      BY <1>1, <1>5 DEF HoldNew, At, InProgress, Inside
    <2>2. NewHold(req[r].bidder, req[r].accepted, req[r].after.end) \in Hold
      BY <1>0, <2>1, NewHoldTyped DEF Price
    <2>3. StoreOK'
      BY <1>0, <1>5, <2>2, HoldTyped DEF HoldNew, StoreOK
    <2>. QED BY <1>5, <2>1, <2>3, MoveKeepsInv
         DEF HoldNew, At, Inside, Countering, Onward, BeforeInsert, BeforeAuto
  <1>6. CASE UndoHold(r)
    <2>1. InProgress(r)
      BY <1>6 DEF UndoHold, At, InProgress, Inside
    <2>2. StoreOK'
      BY <1>0, <1>6, ReleaseTyped DEF UndoHold, StoreOK
    <2>. QED BY <1>6, <2>1, <2>2, AnswerKeepsInv DEF UndoHold
  <1>7. CASE PublishOutbid(r)
    <2>1. InProgress(r)
      BY <1>7 DEF PublishOutbid, At, InProgress, Inside
    <2>2. req[r].prev.id \in Nat
      BY <1>0 DEF AnyBid, BidRow, NoBid
    <2>3. StoreOK'
      BY <1>0, <1>7, <2>2 DEF PublishOutbid, Publish, StoreOK
    <2>. QED BY <1>7, <2>1, <2>3, MoveKeepsInv
         DEF PublishOutbid, At, Inside, Countering, Onward, BeforeInsert, BeforeAuto
  <1>8. CASE UpdateListing(r) \/ RereadListing(r)
    <2> DEFINE new == [highest |-> req[r].accepted, end |-> req[r].after.end,
                       status |-> req[r].after.status]
    <2>1. InProgress(r)
      BY <1>8 DEF UpdateListing, RereadListing, At, InProgress, Inside
    <2>2. new \in Row
      BY <1>0 DEF Row, Price
    <2>3. StoreOK'
      BY <1>0, <1>8, <2>2 DEF UpdateListing, RereadListing, storeVars, StoreOK
    <2>4. CASE req' = [req EXCEPT ![r].pc = "reread"]
      BY <1>8, <2>1, <2>3, <2>4, MoveKeepsInv
      DEF UpdateListing, RereadListing, storeVars, At, Inside, Countering, Onward, BeforeInsert,
          BeforeAuto
    <2>5. ASSUME NEW row \in Row, req' = [req EXCEPT ![r].pc = "job", ![r].row = row]
          PROVE  PlacementInv'
      <3>1. PICK t : t = [req[r] EXCEPT !.pc = "job", !.row = row]
        OBVIOUS
      <3>2. req' = [req EXCEPT ![r] = t]
        BY <2>5, <3>1
      <3>3. t.pc = "job" /\ t.replica = req[r].replica /\ LocalOK(t)
        BY <1>0, <2>1, <3>1
        DEF LocalOK, Local, PCs, Inside, Countering, InProgress
      <3>4. Onward(req[r].pc, t.pc) /\ MutexStep(r, t.pc)
        BY <1>8, <3>3 DEF UpdateListing, RereadListing, At, Onward, BeforeInsert, BeforeAuto,
           MutexStep, InProgress, Inside
      <3>5. guard' = guard /\ bids' = bids
        BY <1>8 DEF UpdateListing, RereadListing, storeVars
      <3>. QED BY <2>3, <3>2, <3>3, <3>4, <3>5, StepKeepsInv
    <2>6. \/ req' = [req EXCEPT ![r].pc = "reread"]
          \/ \E row \in Row : req' = [req EXCEPT ![r].pc = "job", ![r].row = row]
      BY <1>0, <1>8, <2>2 DEF UpdateListing, RereadListing, StoreOK
    <2>. QED BY <2>4, <2>5, <2>6
  <1>9. CASE Reschedule(r)
    <2>1. InProgress(r)
      BY <1>9 DEF Reschedule, At, InProgress, Inside
    <2>2. StoreOK'
      BY <1>0, <1>9 DEF Reschedule, UpsertPending, StoreOK, JobStatuses, Row
    <2>. QED BY <1>9, <2>1, <2>2, MoveKeepsInv
         DEF Reschedule, At, Inside, Countering, Onward, BeforeInsert, BeforeAuto
  <1>10. CASE PublishPlaced(r)
    <2>1. InProgress(r)
      BY <1>10 DEF PublishPlaced, At, InProgress, Inside
    <2>2. StoreOK'
      BY <1>0, <1>10 DEF PublishPlaced, Publish, StoreOK
    <2>. QED BY <1>10, <2>1, <2>2, AnswerKeepsInv DEF PublishPlaced
  <1>. QED BY <1>2, <1>3, <1>4, <1>5, <1>6, <1>7, <1>8, <1>9, <1>10

\* the reads of resolve_proxy_auto_bid
LEMMA ContestingKeepsInv ==
  ASSUME PlacementInv, NEW r \in Requests,
         ReadBoard(r) \/ ReadContest(r) \/ ReadAutoSession(r)
  PROVE  PlacementInv'
  <1>0. /\ StoreOK /\ req[r] \in Local /\ LocalOK(req[r]) /\ req[r].row \in Row
        /\ AutoTime(r) \in Nat /\ Winning \in AnyBid
    BY RequestIsOK, WinningTyped DEF PlacementInv, Local
  <1>1. StoreOK' /\ UNCHANGED bids
    BY <1>0 DEF ReadBoard, ReadContest, ReadAutoSession, storeVars, StoreOK
  <1>2. InProgress(r)
    BY DEF ReadBoard, ReadContest, ReadAutoSession, At, InProgress, Inside
  <1>3. ASSUME req' = [req EXCEPT ![r].pc = "placed"], guard' = guard,
               Onward(req[r].pc, "placed")
        PROVE  PlacementInv'
    BY <1>1, <1>2, <1>3, MoveKeepsInv DEF Inside, Countering
  <1>4. CASE ReadBoard(r)
    <2>1. Onward(req[r].pc, "placed") /\ Onward(req[r].pc, "contest") /\ guard' = guard
      BY <1>4 DEF ReadBoard, At, Onward, BeforeInsert, BeforeAuto
    <2>2. ASSUME NEW p \in TopProxies(proxies),
                 req' = [req EXCEPT ![r].pc = "contest", ![r].board = proxies,
                                    ![r].top = p.bidder]
          PROVE  PlacementInv'
      <3>1. PICK t : t = [req[r] EXCEPT !.pc = "contest", !.board = proxies, !.top = p.bidder]
        OBVIOUS
      <3>2. req' = [req EXCEPT ![r] = t]
        BY <2>2, <3>1
      <3>3. p \in proxies /\ p.bidder \in Bidders
        BY <1>0 DEF TopProxies, StoreOK, ProxyRow
      <3>4. t.pc = "contest" /\ t.replica = req[r].replica /\ LocalOK(t)
        BY <1>0, <1>2, <3>1, <3>3
        DEF LocalOK, Local, PCs, Inside, InProgress, Countering, StoreOK
      <3>5. MutexStep(r, t.pc)
        BY <1>2, <2>1, <3>4 DEF MutexStep, Inside
      <3>. QED BY <1>1, <2>1, <3>2, <3>4, <3>5, StepKeepsInv
    <2>. QED BY <1>3, <1>4, <2>1, <2>2 DEF ReadBoard
  <1>5. CASE ReadContest(r)
    <2>1. guard' = guard /\ req[r].pc = "contest"
      BY <1>5 DEF ReadContest, At
    <2>2. Onward(req[r].pc, "placed") /\ Onward(req[r].pc, "autohold")
          /\ Onward(req[r].pc, "autosession")
      BY <2>1 DEF Onward, BeforeInsert, BeforeAuto
    <2>3. ASSUME Winning # NoBid, NEW pc \in {"autohold", "autosession"}, NEW after \in Price,
                 req' = [req EXCEPT ![r].pc = pc, ![r].cur = Winning,
                           ![r].target = TargetAmount(r, Winning), ![r].after = after]
          PROVE  PlacementInv'
      <3>1. PICK t : t = [req[r] EXCEPT !.pc = pc, !.cur = Winning,
                            !.target = TargetAmount(r, Winning), !.after = after]
        OBVIOUS
      <3>2. req' = [req EXCEPT ![r] = t]
        BY <2>3, <3>1
      <3>3. req[r].board \in SUBSET ProxyRow /\ HasLargest(req[r].board)
            /\ \E p \in req[r].board : p.bidder = req[r].top
        BY <1>0, <2>1 DEF LocalOK, Local
      <3>4. TargetAmount(r, Winning) \in Nat
        BY <1>0, <3>3, TargetTyped
      <3>5. req[r].top \in Bidders /\ Winning \in BidRow
        BY <1>0, <2>3, <3>3 DEF ProxyRow, AnyBid
      <3>6. t.pc = pc /\ t.replica = req[r].replica /\ LocalOK(t)
        <4> HIDE DEF TargetAmount
        <4>. QED BY <1>0, <1>2, <2>3, <3>1, <3>4, <3>5
             DEF LocalOK, Local, PCs, Inside, InProgress, Countering
      <3>7. MutexStep(r, t.pc)
        BY <1>2, <2>1, <3>6 DEF MutexStep, Inside
      <3>. QED BY <1>1, <2>2, <3>2, <3>6, <3>7, StepKeepsInv
    <2>4. AfterBid(req[r].row, AutoTime(r)) \in Price /\ AfterRaise(req[r].row, AutoTime(r)) \in Price
      BY <1>0, AfterBidTyped
    <2>. QED BY <1>3, <1>5, <2>1, <2>2, <2>3, <2>4 DEF ReadContest
  <1>6. CASE ReadAutoSession(r)
    <2>1. CASE Answer(r, "Refused")
      BY <1>1, <1>2, <2>1, AnswerKeepsInv
    <2>2. CASE req' = [req EXCEPT ![r].pc = "autohold"] /\ guard' = guard
      BY <1>1, <1>2, <1>6, <2>2, MoveKeepsInv
      DEF ReadAutoSession, At, Inside, Countering, Onward, BeforeInsert, BeforeAuto
    <2>. QED BY <1>6, <2>1, <2>2 DEF ReadAutoSession
  <1>. QED BY <1>4, <1>5, <1>6

\* the calls and statements of resolve_proxy_auto_bid, those on the table of bids apart
LEMMA CounteringKeepsInv ==
  ASSUME PlacementInv, NEW r \in Requests,
         \/ HoldAuto(r) \/ UndoAutoHold(r) \/ ReleaseReplaced(r) \/ PublishAutoOutbid(r)
         \/ UpdateListingAuto(r) \/ DropAutoHold(r) \/ RescheduleAuto(r) \/ PublishAutoPlaced(r)
  PROVE  PlacementInv'
  <1>0. /\ StoreOK /\ req[r] \in Local /\ LocalOK(req[r]) /\ req[r].target \in Nat
        /\ req[r].row \in Row /\ req[r].after \in Price
        /\ AutoId(r) \in Nat \ {0}
    BY RequestIsOK DEF PlacementInv, Local
  <1>1. InProgress(r) /\ req[r].pc \in Countering
    BY DEF HoldAuto, UndoAutoHold, ReleaseReplaced, PublishAutoOutbid, UpdateListingAuto,
       DropAutoHold, RescheduleAuto, PublishAutoPlaced, At, InProgress, Inside, Countering
  <1>2. req[r].top \in Bidders /\ req[r].cur \in BidRow
    BY <1>0, <1>1 DEF LocalOK
  <1>3. ASSUME NEW pc \in Inside \ {"contest"}, pc \notin BeforeAuto \/ HoldAuto(r),
               pc \notin BeforeInsert, req' = [req EXCEPT ![r].pc = pc],
               guard' = guard, bids' = bids, StoreOK'
        PROVE  PlacementInv'
    <2>1. Onward(req[r].pc, pc)
      BY <1>3 DEF HoldAuto, At, Onward, BeforeAuto
    <2>. QED BY <1>1, <1>3, <2>1, MoveKeepsInv
  <1>4. CASE HoldAuto(r)
    <2>1. NewHold(req[r].top, req[r].target, req[r].after.end) \in Hold
      BY <1>0, <1>2, NewHoldTyped DEF Price
    <2>2. StoreOK'
      BY <1>0, <1>4, <2>1, HoldTyped DEF HoldAuto, StoreOK
    <2>. QED BY <1>3, <1>4, <2>2 DEF HoldAuto, Inside, BeforeInsert
  <1>5. CASE UndoAutoHold(r)
    <2>1. StoreOK'
      BY <1>0, <1>5, ReleaseTyped DEF UndoAutoHold, StoreOK
    <2>. QED BY <1>1, <1>3, <1>5, <2>1, AnswerKeepsInv
         DEF UndoAutoHold, Inside, BeforeAuto, BeforeInsert
  <1>6. CASE ReleaseReplaced(r)
    <2>1. StoreOK'
      BY <1>0, <1>6, ReleaseTyped DEF ReleaseReplaced, StoreOK
    <2>. QED BY <1>3, <1>6, <2>1 DEF ReleaseReplaced, Inside, BeforeAuto, BeforeInsert
  <1>7. CASE PublishAutoOutbid(r)
    <2>1. StoreOK'
      BY <1>0, <1>2, <1>7 DEF PublishAutoOutbid, Publish, StoreOK, BidRow
    <2>. QED BY <1>3, <1>7, <2>1 DEF PublishAutoOutbid, Inside, BeforeAuto, BeforeInsert
  <1>8. CASE UpdateListingAuto(r)
    <2> DEFINE later == listing.end < req[r].after.end
               new == [highest |-> req[r].target,
                       end |-> IF later THEN req[r].after.end ELSE listing.end,
                       status |-> IF later THEN req[r].after.status ELSE listing.status]
    <2>1. new \in Row
      BY <1>0 DEF Row, Price, StoreOK
    <2>2. \/ listing' = new /\ req' = [req EXCEPT ![r].pc = "autojob", ![r].row = new]
          \/ listing' = listing /\ req' = [req EXCEPT ![r].pc = "autodrop"]
      BY <1>8 DEF UpdateListingAuto
    <2> HIDE DEF new
    <2>3. StoreOK' /\ guard' = guard /\ bids' = bids
      BY <1>0, <1>8, <2>1, <2>2 DEF UpdateListingAuto, StoreOK
    <2>4. CASE req' = [req EXCEPT ![r].pc = "autojob", ![r].row = new]
      <3>1. PICK t : t = [req[r] EXCEPT !.pc = "autojob", !.row = new]
        OBVIOUS
      <3>2. req' = [req EXCEPT ![r] = t]
        BY <2>4, <3>1
      <3>3. t.pc = "autojob" /\ t.replica = req[r].replica /\ LocalOK(t)
        BY <1>0, <1>2, <1>8, <2>1, <3>1
        DEF LocalOK, Local, PCs, Inside, Countering, UpdateListingAuto, At
      <3>4. Onward(req[r].pc, t.pc) /\ MutexStep(r, t.pc)
        BY <1>1, <2>3, <3>3 DEF Onward, BeforeInsert, BeforeAuto, MutexStep, Inside
      <3>. QED BY <2>3, <3>2, <3>3, <3>4, StepKeepsInv
    <2>. QED BY <1>3, <2>2, <2>3, <2>4 DEF Inside, BeforeAuto, BeforeInsert
  <1>9. CASE DropAutoHold(r)
    <2>1. StoreOK'
      BY <1>0, <1>9, ReleaseTyped DEF DropAutoHold, StoreOK
    <2>. QED BY <1>3, <1>9, <2>1 DEF DropAutoHold, Inside, BeforeAuto, BeforeInsert
  <1>10. CASE RescheduleAuto(r)
    <2>1. StoreOK'
      BY <1>0, <1>10 DEF RescheduleAuto, UpsertPending, StoreOK, JobStatuses, Row
    <2>. QED BY <1>3, <1>10, <2>1 DEF RescheduleAuto, Inside, BeforeAuto, BeforeInsert
  <1>11. CASE PublishAutoPlaced(r)
    <2>1. AutoRow(r).id \in Nat
      BY <1>0, <1>2 DEF AutoRow, BidRow
    <2>2. StoreOK'
      BY <1>0, <1>11, <2>1 DEF PublishAutoPlaced, Publish, StoreOK
    <2>. QED BY <1>3, <1>11, <2>2 DEF PublishAutoPlaced, Inside, BeforeAuto, BeforeInsert
  <1>. QED BY <1>4, <1>5, <1>6, <1>7, <1>8, <1>9, <1>10, <1>11

\* the statements on the table of bids
LEMMA StoringKeepsInv ==
  ASSUME PlacementInv, NEW r \in Requests,
         InsertNew(r) \/ WriteAuto(r) \/ DeleteAutoBid(r)
  PROVE  PlacementInv'
  <1>0. /\ StoreOK /\ req[r] \in Local /\ LocalOK(req[r]) /\ FreshOK(r, req[r].pc)
        /\ BidId(r) \in Nat \ {0} /\ AutoId(r) \in Nat \ {0}
        /\ AutoTime(r) \in Nat /\ req[r].target \in Nat /\ req[r].accepted \in Nat
        /\ req[r].time \in Nat /\ r \in Nat
    BY RequestIsOK DEF PlacementInv, Local
  <1>1. InProgress(r)
    BY DEF InsertNew, WriteAuto, DeleteAutoBid, At, InProgress, Inside
  <1>2. ASSUME NEW pc \in Inside \ {"contest"}, pc \in Countering => req[r].pc \in Countering,
               req' = [req EXCEPT ![r].pc = pc], guard' = guard,
               OwnIds(r), FreshOK(r, pc)', StoreOK'
        PROVE  PlacementInv'
    <2>1. PICK t : t = [req[r] EXCEPT !.pc = pc]
      OBVIOUS
    <2>2. req' = [req EXCEPT ![r] = t]
      BY <1>2, <2>1
    <2>3. pc \in PCs \ {"new", "contest"} /\ req[r].pc # "new"
      BY <1>1, <1>2 DEF PCs, Inside, InProgress
    <2>4. LocalOK(t) /\ t.replica = req[r].replica /\ t.pc = pc
      BY <1>2, <2>1, <2>3, MovedOK
    <2>5. MutexStep(r, t.pc)
      BY <1>1, <1>2, <2>4 DEF MutexStep
    <2>6. RequestsOK'
      BY <1>2, <2>2, <2>4, <2>5, RequestStep
    <2>. QED BY <1>2, <2>6 DEF PlacementInv
  <1>3. CASE InsertNew(r)
    <2> DEFINE row == [id |-> BidId(r), bidder |-> req[r].bidder, amount |-> req[r].accepted,
                       time |-> req[r].time, hold |-> BidId(r)]
    <2>1. row \in BidRow /\ bids' = bids \cup {row}
      BY <1>0, <1>3 DEF InsertNew, InsertBid, BidRow, LocalOK, At
    <2>2. row.id = BidId(r) /\ row.hold = BidId(r) /\ \A x \in bids : x.id # row.id
      BY <1>0, <1>3 DEF InsertNew, At, FreshOK, BeforeInsert
    <2> HIDE DEF row
    <2>3. HasBest(bids \cup {row})
      BY <1>0, <2>1, <2>2, HasBestWithRow DEF StoreOK
    <2>4. StoreOK'
      BY <1>0, <1>3, <2>1, <2>2, <2>3 DEF InsertNew, StoreOK
    <2>5. OwnIds(r)
      BY <2>1, <2>2 DEF OwnIds
    <2>6. FreshOK(r, "outbid")'
      BY <1>0, <1>3, <2>1, <2>2
      DEF InsertNew, At, FreshOK, BeforeInsert, BeforeAuto, BidId, AutoId
    <2>. QED BY <1>2, <1>3, <2>4, <2>5, <2>6 DEF InsertNew, Inside, Countering
  <1>4. CASE WriteAuto(r)
    <2>1. req[r].pc = "autowrite" /\ guard' = guard
      BY <1>4 DEF WriteAuto, At
    <2>2. CASE RaisesOwn(r) /\ RaisedRow(r) = {}
      <3>1. bids' = bids /\ req' = [req EXCEPT ![r].pc = "autoundo"] /\ StoreOK'
        BY <1>0, <1>4, <2>2 DEF WriteAuto, StoreOK
      <3>2. OwnIds(r) /\ FreshOK(r, "autoundo")'
        BY <3>1 DEF OwnIds, FreshOK, BeforeInsert, BeforeAuto
      <3>. QED BY <1>2, <2>1, <3>1, <3>2 DEF Inside, Countering
    <2>3. CASE ~(RaisesOwn(r) /\ RaisedRow(r) = {})
      <3>1. PICK rest : rest = IF RaisesOwn(r) THEN bids \ RaisedRow(r) ELSE bids
        OBVIOUS
      <3>2. bids' = rest \cup {AutoRow(r)} /\ req' = [req EXCEPT ![r].pc = "autorelease"]
        BY <1>4, <2>3, <3>1 DEF WriteAuto
      <3>3. AutoRow(r) \in BidRow /\ AutoRow(r).hold = AutoId(r)
        BY <1>0, <2>1 DEF AutoRow, BidRow, LocalOK, Countering
      <3>4. rest \in SUBSET bids
        BY <3>1
      <3>5. \A x \in rest : x.id # AutoRow(r).id
        <4>1. CASE RaisesOwn(r)
          BY <1>0, <2>3, <3>1, <4>1 DEF AutoRow, RaisedRow, StoreOK
        <4>2. CASE ~RaisesOwn(r)
          BY <1>0, <2>1, <3>1, <4>2 DEF AutoRow, FreshOK, BeforeAuto
        <4>. QED BY <4>1, <4>2
      <3>6. AutoRow(r).id = AutoId(r) \/ \E y \in bids : y.id = AutoRow(r).id
        BY <2>3 DEF AutoRow, RaisedRow
      <3>7. HasBest(rest \cup {AutoRow(r)})
        <4>1. HasBest(rest) /\ rest \in SUBSET BidRow
          BY <1>0, <3>4, HasBestOfPart DEF StoreOK
        <4>. QED BY <3>3, <3>5, <4>1, HasBestWithRow
      <3>8. StoreOK'
        BY <1>0, <1>4, <3>2, <3>3, <3>4, <3>5, <3>7 DEF WriteAuto, StoreOK
      <3>9. OwnIds(r)
        BY <3>2, <3>3, <3>4, <3>6 DEF OwnIds
      <3>10. FreshOK(r, "autorelease")'
        BY DEF FreshOK, BeforeInsert, BeforeAuto
      <3>. QED BY <1>2, <2>1, <3>2, <3>8, <3>9, <3>10 DEF Inside, Countering
    <2>. QED BY <2>2, <2>3
  <1>5. CASE DeleteAutoBid(r)
    <2>1. bids' \in SUBSET bids
      BY <1>5 DEF DeleteAutoBid
    <2>2. HasBest(bids')
      BY <1>0, <2>1, HasBestOfPart DEF StoreOK
    <2>3. StoreOK'
      BY <1>0, <1>5, <2>1, <2>2 DEF DeleteAutoBid, StoreOK
    <2>4. OwnIds(r) /\ FreshOK(r, "placed")'
      BY <2>1 DEF OwnIds, FreshOK, BeforeInsert, BeforeAuto
    <2>. QED BY <1>2, <1>5, <2>3, <2>4 DEF DeleteAutoBid, Inside, Countering
  <1>. QED BY <1>3, <1>4, <1>5

\* what ends a request early
LEMMA EndingKeepsInv ==
  ASSUME PlacementInv, NEW r \in Requests, EarlyEnd(r)
  PROVE  PlacementInv'
  <1>0. /\ StoreOK /\ req[r] \in Local /\ LocalOK(req[r])
        /\ req[r].target \in Nat /\ req[r].accepted \in Nat /\ req[r].after \in Price
        /\ BidId(r) \in Nat \ {0} /\ AutoId(r) \in Nat \ {0}
    BY RequestIsOK DEF PlacementInv, Local
  <1>1. InProgress(r) /\ UNCHANGED bids
    BY DEF EarlyEnd, WalletRefuses, GivesUp, WalletTimesOut, At, InProgress, Inside, storeVars
  <1>2. ASSUME Answer(r, "Error"), StoreOK'
        PROVE  PlacementInv'
    BY <1>1, <1>2, AnswerKeepsInv
  <1>3. CASE WalletRefuses(r)
    <2>1. StoreOK'
      BY <1>0, <1>3 DEF WalletRefuses, storeVars, StoreOK
    <2>. QED BY <1>2, <1>3, <2>1 DEF WalletRefuses
  <1>4. CASE GivesUp(r)
    <2>1. StoreOK'
      BY <1>0, <1>4 DEF GivesUp, storeVars, StoreOK
    <2>2. CASE Answer(r, "Error")
      BY <1>2, <2>1, <2>2
    <2>3. CASE ~Answer(r, "Error")
      <3>1. guard' = guard
        BY <1>4, <2>3 DEF GivesUp
      <3>2. CASE At(r, "insert") /\ req' = [req EXCEPT ![r].pc = "undo"]
        BY <1>1, <2>1, <3>1, <3>2, MoveKeepsInv
        DEF At, Inside, Countering, Onward, BeforeInsert, BeforeAuto
      <3>3. CASE At(r, "autowrite") /\ req' = [req EXCEPT ![r].pc = "autoundo"]
        BY <1>1, <2>1, <3>1, <3>3, MoveKeepsInv
        DEF At, Inside, Countering, Onward, BeforeInsert, BeforeAuto
      <3>4. CASE At(r, "autodrop") /\ req' = [req EXCEPT ![r].pc = "autodelete"]
        BY <1>1, <2>1, <3>1, <3>4, MoveKeepsInv
        DEF At, Inside, Countering, Onward, BeforeInsert, BeforeAuto
      <3>5. CASE req[r].pc \in {"autoundo", "autodelete"} /\ req' = [req EXCEPT ![r].pc = "placed"]
        BY <1>1, <2>1, <3>1, <3>5, MoveKeepsInv
        DEF At, Inside, Countering, Onward, BeforeInsert, BeforeAuto
      <3>. QED BY <1>4, <2>3, <3>2, <3>3, <3>4, <3>5 DEF GivesUp, At
    <2>. QED BY <2>2, <2>3
  <1>5. CASE WalletTimesOut(r)
    <2>1. ASSUME DOMAIN holds' \subseteq Nat \ {0}, \A i \in DOMAIN holds' : holds'[i] \in Hold
          PROVE  StoreOK'
      BY <1>0, <1>5, <2>1 DEF WalletTimesOut, StoreOK
    <2>2. CASE At(r, "release") /\ ReleaseHold(req[r].prev.hold)
      BY <1>0, <1>2, <1>5, <2>1, <2>2, ReleaseTyped DEF WalletTimesOut
    <2>3. CASE At(r, "autorelease") /\ ReleaseHold(req[r].cur.hold)
      BY <1>0, <1>2, <1>5, <2>1, <2>3, ReleaseTyped DEF WalletTimesOut
    <2>4. CASE /\ At(r, "hold")
               /\ HoldFunds(BidId(r), NewHold(req[r].bidder, req[r].accepted, req[r].after.end))
      <3>1. NewHold(req[r].bidder, req[r].accepted, req[r].after.end) \in Hold
        BY <1>0, <2>4, NewHoldTyped DEF LocalOK, At, Price
      <3>. QED BY <1>0, <1>2, <1>5, <2>1, <2>4, <3>1, HoldTyped DEF WalletTimesOut
    <2>5. CASE /\ At(r, "autohold")
               /\ HoldFunds(AutoId(r), NewHold(req[r].top, req[r].target, req[r].after.end))
      <3>1. NewHold(req[r].top, req[r].target, req[r].after.end) \in Hold
        BY <1>0, <2>5, NewHoldTyped DEF LocalOK, Countering, At, Price
      <3>. QED BY <1>0, <1>2, <1>5, <2>1, <2>5, <3>1, HoldTyped DEF WalletTimesOut
    <2>. QED BY <1>5, <2>2, <2>3, <2>4, <2>5 DEF WalletTimesOut
  <1>. QED BY <1>3, <1>4, <1>5 DEF EarlyEnd

\* what leaves the requests alone
LEMMA BackgroundKeepsInv ==
  ASSUME PlacementInv, UNCHANGED <<bids, guard, req>>, StoreOK'
  PROVE  PlacementInv'
  <1>1. Requests' = Requests /\ Replicas' = Replicas
    BY DEF Requests, Replicas
  <1>2. Local' = Local
    BY <1>1 DEF Local
  <1>3. \A r \in Requests : LocalOK(req[r])'
    BY <1>2 DEF PlacementInv, RequestsOK, LocalOK
  <1>4. \A r \in Requests : FreshOK(r, req[r].pc)'
    BY DEF PlacementInv, RequestsOK, FreshOK
  <1>. QED BY <1>1, <1>2, <1>3, <1>4 DEF PlacementInv, RequestsOK, InProgress

-----------------------------------------------------------------------------
(* The invariant *)

LEMMA PlacementInvInit == Init => PlacementInv
  <1> SUFFICES ASSUME Init PROVE PlacementInv
    OBVIOUS
  <1>1. StoreOK
    BY StoreAssumption
    DEF Init, StoreInit, StoreOK, Row, Statuses, Biddable, HasBest, HasLargest, JobStatuses
  <1>2. PICK d \in Deployments : /\ guard = [p \in {d[r] : r \in DOMAIN d} |-> Free]
                                 /\ req = [r \in DOMAIN d |-> Blank(d[r])]
    BY DEF Init
  <1>3. Requests = DOMAIN d /\ Requests \subseteq Nat \ {0} /\ Free \notin Requests
    BY <1>2, PlacementAssumption DEF Requests
  <1>4. guard \in [Replicas -> Requests \cup {Free}] /\ \A p \in Replicas : guard[p] = Free
    BY <1>2 DEF Replicas
  <1>5. ASSUME NEW r \in Requests
        PROVE  /\ req[r] \in Local /\ LocalOK(req[r]) /\ FreshOK(r, req[r].pc)
               /\ ~InProgress(r) /\ req[r].replica \in Replicas
    <2>1. req[r] = Blank(d[r]) /\ d[r] \in Replicas
      BY <1>2, <1>3 DEF Replicas
    <2>2. PICK t : t = Blank(d[r])
      OBVIOUS
    <2>3. t \in Local /\ t.pc = "new" /\ t.board = {} /\ t.replica = d[r]
      BY <2>1, <2>2 DEF Blank, Local, PCs, Row, Price, AnyBid, Statuses, Biddable
    <2>4. LocalOK(t)
      BY <2>3 DEF LocalOK, HasLargest, Countering
    <2>5. \A pc : FreshOK(r, pc)
      BY DEF Init, StoreInit, FreshOK
    <2>. QED BY <2>1, <2>2, <2>3, <2>4, <2>5 DEF InProgress, Inside
  <1>6. req \in [Requests -> Local]
    BY <1>2, <1>3, <1>5
  <1>7. \A r \in Requests : guard[req[r].replica] # r
    BY <1>3, <1>4, <1>5
  <1>. QED BY <1>1, <1>3, <1>4, <1>5, <1>6, <1>7 DEF PlacementInv, RequestsOK

LEMMA PlacementInvStep == PlacementInv /\ [Next]_vars => PlacementInv'
  <1> SUFFICES ASSUME PlacementInv, [Next]_vars PROVE PlacementInv'
    OBVIOUS
  <1>1. ASSUME NEW r \in Requests, Arrive(r) \/ Step(r) \/ EarlyEnd(r)
        PROVE  PlacementInv'
    BY <1>1, ReadingKeepsInv, PlacingKeepsInv, ContestingKeepsInv, CounteringKeepsInv,
       StoringKeepsInv, EndingKeepsInv DEF Step
  <1>2. ASSUME NEW b \in Deleters, DeleteProxy(b)
        PROVE  PlacementInv'
    <2>1. proxies' \in SUBSET proxies
      BY <1>2 DEF DeleteProxy
    <2>2. StoreOK'
      BY <1>2, <2>1 DEF DeleteProxy, PlacementInv, StoreOK, HasLargest
    <2>. QED BY <1>2, <2>2, BackgroundKeepsInv DEF DeleteProxy
  <1>3. CASE Tick /\ UNCHANGED <<guard, req, faults>>
    <2>1. StoreOK'
      BY <1>3 DEF Tick, PlacementInv, StoreOK
    <2>. QED BY <1>3, <2>1, BackgroundKeepsInv DEF Tick
  <1>4. CASE UNCHANGED vars
    <2>1. StoreOK'
      BY <1>4 DEF vars, PlacementInv, StoreOK
    <2>. QED BY <1>4, <2>1, BackgroundKeepsInv DEF vars
  <1>. QED BY <1>1, <1>2, <1>3, <1>4 DEF Next

LEMMA PlacementIsSound == Spec => []PlacementInv
  BY PlacementInvInit, PlacementInvStep, PTL DEF Spec

\* Requests write events of two kinds, about bids.
Events == {"Outbid", "BidPlaced"} \X Nat

LEMMA EventsTyped ==
  ASSUME PlacementInv, [Next]_vars, outbox \subseteq Events
  PROVE  outbox' \subseteq Events
  <1>1. ASSUME NEW r \in Requests, Step(r)
        PROVE  outbox' \subseteq Events
    <2>1. /\ r \in Nat \ {0} /\ req[r].prev.id \in Nat /\ req[r].cur.id \in Nat
      BY RequestIsOK DEF Local, AnyBid, BidRow, NoBid, PlacementInv, RequestsOK
    <2>2. BidId(r) \in Nat /\ AutoId(r) \in Nat
      BY <2>1 DEF BidId, AutoId
    <2>3. CASE PublishOutbid(r) \/ PublishPlaced(r)
      BY <2>1, <2>2, <2>3 DEF PublishOutbid, PublishPlaced, Publish, Events
    <2>4. CASE PublishAutoOutbid(r) \/ PublishAutoPlaced(r)
      BY <2>1, <2>2, <2>4 DEF PublishAutoOutbid, PublishAutoPlaced, AutoRow, Publish, Events
    <2>5. CASE EnterGuard(r) \/ ReadAuction(r) \/ ReadWinner(r) \/ ReadSession(r)
      BY <2>5 DEF EnterGuard, ReadAuction, ReadWinner, ReadSession, storeVars
    <2>6. CASE \/ SaveOwnProxy(r) \/ SaveProxy(r) \/ ReleasePrevious(r) \/ HoldNew(r)
               \/ InsertNew(r) \/ UndoHold(r) \/ UpdateListing(r) \/ RereadListing(r)
               \/ Reschedule(r)
      BY <2>6 DEF SaveOwnProxy, SaveProxy, ReleasePrevious, HoldNew, InsertNew, UndoHold,
                  UpdateListing, RereadListing, Reschedule, storeVars
    <2>7. CASE ReadBoard(r) \/ ReadContest(r) \/ ReadAutoSession(r)
      BY <2>7 DEF ReadBoard, ReadContest, ReadAutoSession, storeVars
    <2>8. CASE \/ HoldAuto(r) \/ WriteAuto(r) \/ UndoAutoHold(r) \/ ReleaseReplaced(r)
               \/ UpdateListingAuto(r) \/ DropAutoHold(r) \/ DeleteAutoBid(r)
               \/ RescheduleAuto(r)
      BY <2>8 DEF HoldAuto, WriteAuto, UndoAutoHold, ReleaseReplaced, UpdateListingAuto,
                  DropAutoHold, DeleteAutoBid, RescheduleAuto
    <2>. QED BY <1>1, <2>3, <2>4, <2>5, <2>6, <2>7, <2>8, Zenon DEF Step
  <1>2. ASSUME NEW r \in Requests, Arrive(r) \/ EarlyEnd(r)
        PROVE  outbox' = outbox
    BY <1>2 DEF Arrive, EarlyEnd, WalletRefuses, GivesUp, WalletTimesOut, storeVars
  <1>. QED BY <1>1, <1>2 DEF Next, vars, Tick, DeleteProxy

\* Every variable keeps the type of its column, map or local, whatever the replicas do
\* at once (TypeOK).
THEOREM PlacementTypes == Spec => []TypeOK
  <1>1. PlacementInv /\ outbox \subseteq Events => TypeOK
    BY DEF PlacementInv, StoreOK, RequestsOK, TypeOK, Row, Local, PCs, Replicas, Requests, Events
  <1>2. Init => outbox \subseteq Events
    BY DEF Init, StoreInit
  <1>3. PlacementInv /\ outbox \subseteq Events /\ [Next]_vars => (outbox \subseteq Events)'
    BY EventsTyped DEF Events
  <1>. QED BY <1>1, <1>2, <1>3, PlacementIsSound, PTL DEF Spec

\* The mutex of a replica admits one request of that replica at a time between reading
\* the auction and answering, and no request that has ended leaves it behind.
MutexKept ==
  /\ \A q, r \in Requests :
       InProgress(q) /\ InProgress(r) /\ req[q].replica = req[r].replica => q = r
  /\ \A p \in Replicas : guard[p] # Free => InProgress(guard[p]) /\ req[guard[p]].replica = p

THEOREM OneInsideAMutex == Spec => []MutexKept
  <1>1. PlacementInv => MutexKept
    <2> SUFFICES ASSUME PlacementInv PROVE MutexKept
      OBVIOUS
    <2>1. \A r \in Requests : InProgress(r) <=> guard[req[r].replica] = r
      BY DEF PlacementInv, RequestsOK
    <2>2. ASSUME NEW p \in Replicas, guard[p] # Free
          PROVE  InProgress(guard[p]) /\ req[guard[p]].replica = p
      BY <2>1, <2>2 DEF PlacementInv, RequestsOK
    <2>3. ASSUME NEW q \in Requests, NEW r \in Requests,
                 InProgress(q), InProgress(r), req[q].replica = req[r].replica
          PROVE  q = r
      <3>1. guard[req[q].replica] = q /\ guard[req[r].replica] = r
        BY <2>1, <2>3
      <3>. QED BY <2>3, <3>1
    <2>. QED BY <2>2, <2>3 DEF MutexKept
  <1>. QED BY <1>1, PlacementIsSound, PTL

\* Nothing but the two UPDATEs of listings changes the row.
LEMMA UpdatesShow ==
  ASSUME NEW r, Arrive(r) \/ Step(r) \/ EarlyEnd(r), listing' # listing
  PROVE  UpdateListing(r) \/ UpdateListingAuto(r)
  <1>1. ~(Arrive(r) \/ EnterGuard(r) \/ ReadAuction(r) \/ ReadWinner(r) \/ ReadSession(r))
    BY DEF Arrive, EnterGuard, ReadAuction, ReadWinner, ReadSession, storeVars
  <1>2. ~(\/ SaveOwnProxy(r) \/ SaveProxy(r) \/ ReleasePrevious(r) \/ HoldNew(r) \/ InsertNew(r)
          \/ UndoHold(r) \/ PublishOutbid(r) \/ RereadListing(r) \/ Reschedule(r) \/ PublishPlaced(r))
    BY DEF SaveOwnProxy, SaveProxy, ReleasePrevious, HoldNew, InsertNew, UndoHold, PublishOutbid,
       RereadListing, Reschedule, PublishPlaced, storeVars
  <1>3. ~(ReadBoard(r) \/ ReadContest(r) \/ ReadAutoSession(r))
    BY DEF ReadBoard, ReadContest, ReadAutoSession, storeVars
  <1>4. ~(\/ HoldAuto(r) \/ WriteAuto(r) \/ UndoAutoHold(r) \/ ReleaseReplaced(r)
          \/ PublishAutoOutbid(r) \/ DropAutoHold(r) \/ DeleteAutoBid(r) \/ RescheduleAuto(r)
          \/ PublishAutoPlaced(r))
    BY DEF HoldAuto, WriteAuto, UndoAutoHold, ReleaseReplaced, PublishAutoOutbid, DropAutoHold,
       DeleteAutoBid, RescheduleAuto, PublishAutoPlaced
  <1>5. ~EarlyEnd(r)
    BY DEF EarlyEnd, WalletRefuses, GivesUp, WalletTimesOut, storeVars
  <1>. QED BY <1>1, <1>2, <1>3, <1>4, <1>5, Zenon DEF Step

LEMMA OnlyUpdatesShow ==
  ASSUME [Next]_vars, listing' # listing
  PROVE  \E r \in Requests : UpdateListing(r) \/ UpdateListingAuto(r)
  <1>1. PICK r \in Requests : Arrive(r) \/ Step(r) \/ EarlyEnd(r)
    BY DEF Next, vars, Tick, DeleteProxy
  <1>. QED BY <1>1, UpdatesShow

\* The price shown never falls, on any number of replicas (PriceShownOnlyRises).
THEOREM PriceOnlyRises == Spec => PriceShownOnlyRises
  <1>1. ASSUME PlacementInv, [Next]_vars
        PROVE  [listing'.highest >= listing.highest]_storeVars
    <2>1. listing \in Row
      BY <1>1 DEF PlacementInv, StoreOK
    <2>2. CASE listing' = listing
      BY <2>1, <2>2 DEF Row
    <2>3. CASE listing' # listing
      <3>1. PICK r \in Requests : UpdateListing(r) \/ UpdateListingAuto(r)
        BY <1>1, <2>3, OnlyUpdatesShow
      <3>2. req[r].accepted \in Nat /\ req[r].target \in Nat
        BY <1>1, RequestIsOK DEF Local
      <3>. QED BY <2>1, <3>1, <3>2 DEF UpdateListing, UpdateListingAuto, Row
    <2>. QED BY <2>2, <2>3
  <1>. QED BY <1>1, PlacementIsSound, PTL DEF Spec, PriceShownOnlyRises

-----------------------------------------------------------------------------
(* One replica: what the mutex makes of the steps of a request *)

\* a request has stored its bid, or its counter-bid, and the row does not show it yet
Ahead == {"outbid", "update", "job", "autorelease", "autooutbid", "autoupdate", "autojob"}

\* What request r with local variables t, alone inside the mutex, may rely on.
Knows(r, t) ==
  /\ t.pc # "read" => t.row = listing
  /\ t.pc \in {"session", "saveproxy", "release", "hold", "insert", "undo", "ownproxy"} =>
       t.prev = Winning
  /\ t.pc = "ownproxy" => t.offer >= Winning.amount
  /\ t.pc \in {"session", "saveproxy", "release", "hold", "insert"} =>
       t.bidder # Winning.bidder
  /\ t.pc \in {"saveproxy", "release", "hold", "insert"} =>
       t.accepted >= MinimumOver(Winning) /\ t.after.end >= listing.end
  /\ t.pc = "saveproxy" => t.offer >= t.accepted
  /\ t.pc \in {"outbid", "update"} =>
       /\ Winning.hold = BidId(r) /\ Winning.amount = t.accepted
       /\ listing.highest < t.accepted /\ t.after.end >= listing.end
  /\ t.pc \in {"job", "board", "contest", "autosession", "autohold", "autowrite", "autoundo",
              "autojob", "autoplaced", "placed"} =>
       listing.highest = Winning.amount
  /\ t.pc \in {"board", "contest", "autosession", "autohold", "autowrite", "autoundo",
              "autoplaced", "placed"} =>
       job.due = listing.end
  /\ t.pc = "contest" => \A p \in t.board : p.bidder \notin Deleters => p \in proxies
  /\ t.pc \in {"autosession", "autohold", "autowrite", "autoundo"} =>
       t.cur = Winning /\ t.target > Winning.amount /\ t.after.end >= listing.end
  /\ t.pc \in {"autosession", "autoundo"} => t.top # Winning.bidder
  /\ t.pc \in {"autohold", "autowrite"} =>
       t.top = Winning.bidder \/ t.target >= MinimumOver(Winning)
  /\ t.pc \in {"autosession", "autohold", "autowrite"} /\ t.top \notin Deleters =>
       \E p \in proxies : p.bidder = t.top /\ t.target <= p.max
  /\ t.pc \in {"autorelease", "autooutbid", "autoupdate"} =>
       /\ Winning.hold = AutoId(r) /\ Winning.amount = t.target /\ t.cur.hold # AutoId(r)
       /\ listing.highest < t.target /\ t.after.end >= listing.end
  /\ t.pc \notin {"reread", "autodrop", "autodelete"}

RowsSound == ListingNeverAhead /\ AutoBidWithinMax /\ job.status = "PENDING"

\* The inductive invariant of one replica, on top of PlacementInv.
AloneInv ==
  OneReplica =>
    /\ RowsSound
    /\ \A r \in Requests : InProgress(r) => Knows(r, req[r])

\* no bid is above the winning bid
LEMMA WinningHighest ==
  ASSUME StoreOK, NEW x \in bids
  PROVE  Winning \in BidRow /\ x.amount <= Winning.amount
  <1>1. Winning \in bids /\ \A y \in bids \ {Winning} : Outranks(Winning, y)
    BY WinningIsBest DEF StoreOK
  <1>. QED BY <1>1 DEF StoreOK, BidRow, Outranks

\* a bid above all others is the best
LEMMA HigherWins ==
  ASSUME NEW rows \in SUBSET BidRow, NEW row \in rows,
         \A y \in rows \ {row} : y.amount < row.amount
  PROVE  Best(rows) = row
  <1>1. \A y \in rows \ {row} : Outranks(row, y) /\ ~Outranks(y, row)
    BY DEF Outranks, BidRow
  <1>2. \A x \in rows : (\A y \in rows \ {x} : Outranks(x, y)) => x = row
    BY <1>1
  <1>3. \A y \in rows \ {row} : Outranks(row, y)
    BY <1>1
  <1>4. rows # {} /\ Best(rows) = CHOOSE x \in rows : \A y \in rows \ {x} : Outranks(x, y)
    BY DEF Best
  <1>. QED BY <1>2, <1>3, <1>4

\* Requests come and go, the replicas and the numbers of the requests stay.
LEMMA SameReplicas ==
  ASSUME [Next]_vars, PlacementInv
  PROVE  Replicas' = Replicas /\ Requests' = Requests
  <1>1. CASE UNCHANGED <<guard, req>>
    BY <1>1 DEF Replicas, Requests
  <1>2. ASSUME NEW r \in Requests, Arrive(r) \/ Step(r) \/ EarlyEnd(r)
        PROVE  Replicas' = Replicas /\ Requests' = Requests
    <2> SUFFICES ASSUME ~(Replicas' = Replicas /\ Requests' = Requests)
                 PROVE  FALSE
      OBVIOUS
    <2>1. ~(Arrive(r) \/ EnterGuard(r) \/ ReadAuction(r) \/ ReadWinner(r) \/ ReadSession(r))
      BY DEF Arrive, EnterGuard, ReadAuction, ReadWinner, ReadSession, Answer, Replicas, Requests
    <2>2. ~(\/ SaveOwnProxy(r) \/ SaveProxy(r) \/ ReleasePrevious(r) \/ HoldNew(r) \/ InsertNew(r)
            \/ UndoHold(r) \/ PublishOutbid(r) \/ RereadListing(r) \/ Reschedule(r)
            \/ PublishPlaced(r))
      BY DEF SaveOwnProxy, SaveProxy, ReleasePrevious, HoldNew, InsertNew, UndoHold,
         PublishOutbid, RereadListing, Reschedule, PublishPlaced, Answer, Replicas, Requests
    <2>3. ~(ReadBoard(r) \/ ReadContest(r) \/ ReadAutoSession(r))
      BY DEF ReadBoard, ReadContest, ReadAutoSession, Answer, Replicas, Requests
    <2>4. ~(\/ HoldAuto(r) \/ WriteAuto(r) \/ UndoAutoHold(r) \/ ReleaseReplaced(r)
            \/ PublishAutoOutbid(r) \/ DropAutoHold(r) \/ DeleteAutoBid(r) \/ RescheduleAuto(r)
            \/ PublishAutoPlaced(r))
      BY DEF HoldAuto, WriteAuto, UndoAutoHold, ReleaseReplaced, PublishAutoOutbid, DropAutoHold,
         DeleteAutoBid, RescheduleAuto, PublishAutoPlaced, Answer, Replicas, Requests
    <2>5. ~(UpdateListing(r) \/ UpdateListingAuto(r))
      BY DEF UpdateListing, UpdateListingAuto, Replicas, Requests
    <2>6. ~EarlyEnd(r)
      BY DEF EarlyEnd, WalletRefuses, GivesUp, WalletTimesOut, Answer, Replicas, Requests
    <2>. QED BY <1>2, <2>1, <2>2, <2>3, <2>4, <2>5, <2>6, Zenon DEF Step
  <1>. QED BY <1>1, <1>2 DEF Next, vars, Tick, DeleteProxy

\* Whoever is inside on one replica is alone.
LEMMA OthersOutside ==
  ASSUME PlacementInv, OneReplica, NEW q \in Requests, NEW r \in Requests,
         InProgress(q), InProgress(r)
  PROVE  q = r
  <1>1. req[q].replica \in Replicas /\ req[r].replica \in Replicas
    BY DEF PlacementInv, RequestsOK, Local
  <1>2. guard[req[q].replica] = q /\ guard[req[r].replica] = r
    BY DEF PlacementInv, RequestsOK
  <1>. QED BY <1>1, <1>2 DEF OneReplica

\* The premises that the steps on one replica share.
AloneBefore(r) ==
  /\ PlacementInv /\ PlacementInv' /\ [Next]_vars
  /\ OneReplica /\ AloneInv /\ r \in Requests

\* What every step of a request inside the mutex owes to the invariant.
LEMMA AloneStep ==
  ASSUME NEW r, AloneBefore(r), NEW t, req' = [req EXCEPT ![r] = t],
         InProgress(r) \/ t.pc \in Inside, RowsSound', t.pc \in Inside => Knows(r, t)'
  PROVE  AloneInv'
  <1>1. Replicas' = Replicas /\ Requests' = Requests /\ OneReplica'
    BY SameReplicas DEF AloneBefore, OneReplica
  <1>2. r \in Requests /\ req'[r] = t /\ \A q \in Requests \ {r} : req'[q] = req[q]
    BY DEF AloneBefore, PlacementInv, RequestsOK
  <1>3. ASSUME NEW q \in Requests, InProgress(q)'
        PROVE  q = r
    <2>1. CASE InProgress(r)'
      <3>1. (guard[req[q].replica] = q /\ guard[req[r].replica] = r)'
        BY <1>1, <1>2, <1>3, <2>1 DEF AloneBefore, PlacementInv, RequestsOK
      <3>2. (req[q].replica \in Replicas /\ req[r].replica \in Replicas)'
        BY <1>1, <1>2 DEF AloneBefore, PlacementInv, RequestsOK, Local
      <3>. QED BY <1>1, <3>1, <3>2 DEF OneReplica
    <2>2. CASE ~InProgress(r)'
      <3>1. InProgress(r)
        BY <1>2, <2>2 DEF InProgress
      <3>2. q # r => InProgress(q)
        BY <1>2, <1>3 DEF InProgress
      <3>. QED BY <1>2, <3>1, <3>2, OthersOutside DEF AloneBefore
    <2>. QED BY <2>1, <2>2
  <1>4. InProgress(r)' <=> t.pc \in Inside
    BY <1>2 DEF InProgress
  <1>. QED BY <1>1, <1>2, <1>3, <1>4 DEF AloneInv

SameRows == UNCHANGED <<listing, bids, proxies, job>>

\* A step that leaves the rows alone owes only what the request knows next.
LEMMA AloneQuiet ==
  ASSUME NEW r, AloneBefore(r), SameRows, NEW t, req' = [req EXCEPT ![r] = t],
         InProgress(r) \/ t.pc \in Inside, t.pc \in Inside => Knows(r, t)
  PROVE  AloneInv'
  <1>1. OneReplica' /\ RowsSound
    BY SameReplicas DEF AloneBefore, OneReplica, AloneInv
  <1>2. Winning' = Winning /\ listing' = listing /\ job' = job /\ proxies' = proxies /\ bids' = bids
    BY DEF SameRows, Winning
  <1>3. RowsSound'
    BY <1>1, <1>2 DEF RowsSound, ListingNeverAhead, AutoBidWithinMax, AloneBefore
  <1>4. Knows(r, t) => Knows(r, t)'
    BY <1>2 DEF Knows
  <1>. QED BY <1>3, <1>4, AloneStep

LEMMA AloneAnswer ==
  ASSUME NEW r, AloneBefore(r), InProgress(r), RowsSound',
         NEW result \in {"Ok", "Refused", "Error"}, Answer(r, result)
  PROVE  AloneInv'
  <1>1. PICK t : t = Answered(req[r], result)
    OBVIOUS
  <1>2. req' = [req EXCEPT ![r] = t] /\ t.pc = "done"
    BY <1>1, AnsweredOK DEF AloneBefore
  <1>. QED BY <1>2, AloneStep DEF Inside

LEMMA AloneQuietAnswer ==
  ASSUME NEW r, AloneBefore(r), InProgress(r), SameRows,
         NEW result \in {"Ok", "Refused", "Error"}, Answer(r, result)
  PROVE  AloneInv'
  <1>1. PICK t : t = Answered(req[r], result)
    OBVIOUS
  <1>2. req' = [req EXCEPT ![r] = t] /\ t.pc = "done"
    BY <1>1, AnsweredOK DEF AloneBefore
  <1>. QED BY <1>2, AloneQuiet DEF Inside

\* What may be relied on before a step inside the mutex.
LEMMA AloneHas ==
  ASSUME NEW r, AloneBefore(r), InProgress(r)
  PROVE  /\ RowsSound /\ StoreOK /\ Knows(r, req[r]) /\ req[r] \in Local /\ LocalOK(req[r])
         /\ FreshOK(r, req[r].pc) /\ r \in Nat \ {0} /\ AutoTime(r) \in Nat
         /\ Winning \in AnyBid /\ listing \in Row
         /\ MinimumOver(Winning) \in Nat /\ MinimumOver(Winning) > Winning.amount
  BY RequestIsOK, WinningTyped, MinimumTyped DEF AloneBefore, AloneInv, PlacementInv, StoreOK

\* A step that only moves the request on.
LEMMA AloneMove ==
  ASSUME NEW r, AloneBefore(r), InProgress(r), SameRows, NEW pc \in Inside,
         req' = [req EXCEPT ![r].pc = pc], Knows(r, [req[r] EXCEPT !.pc = pc])
  PROVE  AloneInv'
  <1>1. PICK t : t = [req[r] EXCEPT !.pc = pc]
    OBVIOUS
  <1>2. req' = [req EXCEPT ![r] = t]
    BY <1>1
  <1>. QED BY <1>1, <1>2, AloneQuiet

LEMMA AloneReading ==
  ASSUME NEW r, AloneBefore(r),
         EnterGuard(r) \/ ReadAuction(r) \/ ReadWinner(r) \/ ReadSession(r)
  PROVE  AloneInv'
  <1>1. SameRows /\ r \in Requests
    BY DEF EnterGuard, ReadAuction, ReadWinner, ReadSession, storeVars, SameRows, AloneBefore
  <1>2. req[r] \in Local
    BY <1>1, RequestIsOK DEF AloneBefore
  <1>3. CASE EnterGuard(r)
    <2>1. PICK t : t = [req[r] EXCEPT !.pc = "read"]
      OBVIOUS
    <2>2. req' = [req EXCEPT ![r] = t]
      BY <1>3, <2>1 DEF EnterGuard
    <2>3. t.pc = "read"
      BY <1>2, <2>1 DEF Local
    <2>4. Knows(r, t)
      BY <2>3 DEF Knows
    <2>. QED BY <1>1, <2>2, <2>3, <2>4, AloneQuiet DEF Inside
  <1>4. CASE ReadAuction(r)
    <2>1. InProgress(r)
      BY <1>4 DEF ReadAuction, At, InProgress, Inside
    <2>2. CASE req' = [req EXCEPT ![r].pc = "winner", ![r].row = listing]
      <3>1. PICK t : t = [req[r] EXCEPT !.pc = "winner", !.row = listing]
        OBVIOUS
      <3>2. req' = [req EXCEPT ![r] = t]
        BY <2>2, <3>1
      <3>3. t.pc = "winner" /\ t.row = listing
        BY <1>2, <3>1 DEF Local
      <3>4. Knows(r, t)
        BY <3>3 DEF Knows
      <3>. QED BY <1>1, <2>1, <3>2, <3>4, AloneQuiet
    <2>. QED BY <1>1, <1>4, <2>1, <2>2, AloneQuietAnswer DEF ReadAuction
  <1>5. CASE ReadWinner(r)
    <2>1. InProgress(r) /\ req[r].pc = "winner"
      BY <1>5 DEF ReadWinner, At, InProgress, Inside
    <2>2. Knows(r, req[r])
      BY <2>1, AloneHas
    <2> DEFINE own == req[r].kind = "proxy" /\ Winning.bidder = req[r].bidder
               pc == IF own THEN "ownproxy" ELSE "session"
    <2>3. CASE ~Answer(r, "Refused")
      <3>1. /\ own => req[r].offer >= Winning.amount
            /\ ~own => req[r].bidder # Winning.bidder
            /\ req' = [req EXCEPT ![r].pc = pc, ![r].prev = Winning]
        BY <1>5, <2>3 DEF ReadWinner, Accepts
      <3>2. pc \in {"ownproxy", "session"} /\ (pc = "ownproxy" <=> own)
        OBVIOUS
      <3> HIDE DEF pc
      <3>3. PICK t : t = [req[r] EXCEPT !.pc = pc, !.prev = Winning]
        OBVIOUS
      <3>4. req' = [req EXCEPT ![r] = t]
        BY <3>1, <3>3
      <3>5. /\ t.pc = pc /\ t.prev = Winning /\ t.row = req[r].row
            /\ t.bidder = req[r].bidder /\ t.offer = req[r].offer
        BY <1>2, <3>3 DEF Local
      <3>6. Knows(r, t)
        BY <2>1, <2>2, <3>1, <3>2, <3>5 DEF Knows
      <3>. QED BY <1>1, <2>1, <3>4, <3>6, AloneQuiet
    <2>. QED BY <1>1, <2>1, <2>3, AloneQuietAnswer
  <1>6. CASE ReadSession(r)
    <2>1. InProgress(r) /\ req[r].pc = "session"
      BY <1>6 DEF ReadSession, At, InProgress, Inside
    <2>2. /\ Knows(r, req[r]) /\ listing \in Row /\ req[r].row = listing
          /\ req[r].bidder # Winning.bidder /\ req[r].prev = Winning
      BY <2>1, AloneHas DEF Knows
    <2> DEFINE amount == IF req[r].kind = "proxy" THEN MinimumOver(Winning) ELSE req[r].offer
               pc == IF req[r].kind = "proxy" THEN "saveproxy" ELSE "release"
               after == AfterBid(req[r].row, req[r].time)
    <2>3. CASE ~Answer(r, "Refused")
      <3>1. /\ amount >= MinimumOver(Winning) /\ req[r].offer >= amount
            /\ req' = [req EXCEPT ![r].pc = pc, ![r].accepted = amount, ![r].after = after]
        BY <1>6, <2>2, <2>3 DEF ReadSession, Accepts
      <3>2. pc \in {"saveproxy", "release"} /\ after.end >= listing.end
        BY <1>2, <2>2, AfterBidTyped DEF Local
      <3> HIDE DEF amount, pc, after
      <3>3. PICK t : t = [req[r] EXCEPT !.pc = pc, !.accepted = amount, !.after = after]
        OBVIOUS
      <3>4. req' = [req EXCEPT ![r] = t]
        BY <3>1, <3>3
      <3>5. /\ t.pc = pc /\ t.accepted = amount /\ t.after = after /\ t.row = req[r].row
            /\ t.bidder = req[r].bidder /\ t.offer = req[r].offer /\ t.prev = req[r].prev
        BY <1>2, <3>3 DEF Local
      <3>6. Knows(r, t)
        BY <2>2, <3>1, <3>2, <3>5 DEF Knows
      <3>. QED BY <1>1, <2>1, <3>4, <3>6, AloneQuiet
    <2>. QED BY <1>1, <2>1, <2>3, AloneQuietAnswer
  <1>. QED BY <1>3, <1>4, <1>5, <1>6

\* the calls of place_bid_internal: they leave the rows alone
LEMMA AloneCalling ==
  ASSUME NEW r, AloneBefore(r),
         ReleasePrevious(r) \/ HoldNew(r) \/ UndoHold(r) \/ PublishOutbid(r) \/ PublishPlaced(r)
  PROVE  AloneInv'
  <1>1. SameRows
    BY DEF ReleasePrevious, HoldNew, UndoHold, PublishOutbid, PublishPlaced, SameRows
  <1>2. InProgress(r)
    BY DEF ReleasePrevious, HoldNew, UndoHold, PublishOutbid, PublishPlaced, At, InProgress, Inside
  <1>3. req[r] \in Local /\ Knows(r, req[r])
    BY <1>2, AloneHas
  <1>4. CASE ReleasePrevious(r)
    <2>1. Knows(r, [req[r] EXCEPT !.pc = "hold"])
      BY <1>3, <1>4 DEF ReleasePrevious, At, Knows, Local
    <2>. QED BY <1>1, <1>2, <1>4, <2>1, AloneMove DEF ReleasePrevious, Inside
  <1>5. CASE HoldNew(r)
    <2>1. Knows(r, [req[r] EXCEPT !.pc = "insert"])
      BY <1>3, <1>5 DEF HoldNew, At, Knows, Local
    <2>. QED BY <1>1, <1>2, <1>5, <2>1, AloneMove DEF HoldNew, Inside
  <1>6. CASE PublishOutbid(r)
    <2>1. Knows(r, [req[r] EXCEPT !.pc = "update"])
      BY <1>3, <1>6 DEF PublishOutbid, At, Knows, Local
    <2>. QED BY <1>1, <1>2, <1>6, <2>1, AloneMove DEF PublishOutbid, Inside
  <1>7. CASE UndoHold(r) \/ PublishPlaced(r)
    BY <1>1, <1>2, <1>7, AloneQuietAnswer DEF UndoHold, PublishPlaced
  <1>. QED BY <1>4, <1>5, <1>6, <1>7

\* the reads of resolve_proxy_auto_bid: the board still holds, and the counter-bid will
\* be above the winning bid and within the maximum
LEMMA AloneContesting ==
  ASSUME NEW r, AloneBefore(r), ReadBoard(r) \/ ReadContest(r) \/ ReadAutoSession(r)
  PROVE  AloneInv'
  <1>1. SameRows
    BY DEF ReadBoard, ReadContest, ReadAutoSession, storeVars, SameRows
  <1>2. InProgress(r)
    BY DEF ReadBoard, ReadContest, ReadAutoSession, At, InProgress, Inside
  <1>3. /\ req[r] \in Local /\ LocalOK(req[r]) /\ Knows(r, req[r]) /\ AutoTime(r) \in Nat
        /\ Winning \in AnyBid
    BY <1>2, AloneHas
  <1>4. CASE req' = [req EXCEPT ![r].pc = "placed"] /\ req[r].pc \in {"board", "contest"}
    <2>1. Knows(r, [req[r] EXCEPT !.pc = "placed"])
      BY <1>3, <1>4 DEF Knows, Local
    <2>. QED BY <1>1, <1>2, <1>4, <2>1, AloneMove DEF Inside
  <1>5. CASE ReadBoard(r)
    <2>1. ASSUME NEW p \in TopProxies(proxies),
                 req' = [req EXCEPT ![r].pc = "contest", ![r].board = proxies,
                                    ![r].top = p.bidder]
          PROVE  AloneInv'
      <3>1. PICK t : t = [req[r] EXCEPT !.pc = "contest", !.board = proxies, !.top = p.bidder]
        OBVIOUS
      <3>2. req' = [req EXCEPT ![r] = t]
        BY <2>1, <3>1
      <3>3. t.pc = "contest" /\ t.board = proxies /\ t.row = req[r].row
        BY <1>3, <3>1 DEF Local
      <3>4. Knows(r, t)
        BY <1>3, <1>5, <3>3 DEF ReadBoard, At, Knows
      <3>. QED BY <1>1, <1>2, <3>2, <3>4, AloneQuiet
    <2>. QED BY <1>4, <1>5, <2>1 DEF ReadBoard, At
  <1>6. CASE ReadContest(r)
    <2> DEFINE leads == Winning.bidder = req[r].top
               pc == IF leads THEN "autohold" ELSE "autosession"
               target == TargetAmount(r, Winning)
               after == IF leads THEN AfterRaise(req[r].row, AutoTime(r))
                                 ELSE AfterBid(req[r].row, AutoTime(r))
    <2>1. req[r].pc = "contest"
      BY <1>6 DEF ReadContest, At
    <2>2. CASE /\ Winning # NoBid /\ Counters(r, Winning)
               /\ req' = [req EXCEPT ![r].pc = pc, ![r].cur = Winning,
                                     ![r].target = target, ![r].after = after]
      <3>1. target > Winning.amount
        BY <2>2 DEF Counters
      <3>2. req[r].board \in SUBSET ProxyRow /\ HasLargest(req[r].board)
            /\ \E p \in req[r].board : p.bidder = req[r].top
        BY <1>3, <2>1 DEF LocalOK, Local
      <3>3. PICK p \in req[r].board : p.bidder = req[r].top /\ target <= p.max
        BY <1>3, <3>2, TargetTyped
      <3>4. req[r].top \notin Deleters => \E q \in proxies : q.bidder = req[r].top /\ target <= q.max
        BY <1>3, <2>1, <3>3 DEF Knows
      <3>5. req[r].row \in Row
        BY <1>3 DEF Local
      <3>6. after.end >= listing.end
        BY <1>3, <2>1, <3>5, AfterBidTyped DEF Knows
      <3>7. /\ pc = "autohold" => Winning.bidder = req[r].top
            /\ pc = "autosession" => Winning.bidder # req[r].top
            /\ pc \in {"autohold", "autosession"}
        OBVIOUS
      <3> HIDE DEF pc, target, after
      <3>8. PICK t : t = [req[r] EXCEPT !.pc = pc, !.cur = Winning, !.target = target,
                                        !.after = after]
        OBVIOUS
      <3>9. req' = [req EXCEPT ![r] = t]
        BY <2>2, <3>8
      <3>10. /\ t.pc = pc /\ t.cur = Winning /\ t.target = target /\ t.after = after
             /\ t.row = req[r].row /\ t.top = req[r].top
        BY <1>3, <3>8 DEF Local
      <3>11. Knows(r, t)
        BY <1>3, <2>1, <3>1, <3>4, <3>6, <3>7, <3>10 DEF Knows
      <3>. QED BY <1>1, <1>2, <3>9, <3>11, AloneQuiet
    <2>. QED BY <1>4, <1>6, <2>1, <2>2 DEF ReadContest
  <1>7. CASE ReadAutoSession(r)
    <2>1. CASE /\ req' = [req EXCEPT ![r].pc = "autohold"]
               /\ Accepts(req[r].row, Winning, req[r].top, req[r].target, AutoTime(r))
      <3>1. req[r].pc = "autosession" /\ req[r].target >= MinimumOver(Winning)
        BY <1>7, <2>1 DEF ReadAutoSession, At, Accepts
      <3>2. Knows(r, [req[r] EXCEPT !.pc = "autohold"])
        BY <1>3, <3>1 DEF Knows, Local
      <3>. QED BY <1>1, <1>2, <2>1, <3>2, AloneMove DEF Inside
    <2>. QED BY <1>1, <1>2, <1>7, <2>1, AloneQuietAnswer DEF ReadAutoSession
  <1>. QED BY <1>5, <1>6, <1>7

\* the calls of resolve_proxy_auto_bid; the auto bid is never withdrawn
LEMMA AloneCountering ==
  ASSUME NEW r, AloneBefore(r),
         \/ HoldAuto(r) \/ UndoAutoHold(r) \/ ReleaseReplaced(r) \/ PublishAutoOutbid(r)
         \/ DropAutoHold(r) \/ DeleteAutoBid(r) \/ PublishAutoPlaced(r)
  PROVE  AloneInv'
  <1>1. InProgress(r)
    BY DEF HoldAuto, UndoAutoHold, ReleaseReplaced, PublishAutoOutbid, DropAutoHold,
       DeleteAutoBid, PublishAutoPlaced, At, InProgress, Inside
  <1>2. req[r] \in Local /\ Knows(r, req[r])
    BY <1>1, AloneHas
  <1>3. ~DropAutoHold(r) /\ ~DeleteAutoBid(r)
    BY <1>2 DEF DropAutoHold, DeleteAutoBid, At, Knows
  <1>4. SameRows
    BY <1>3 DEF HoldAuto, UndoAutoHold, ReleaseReplaced, PublishAutoOutbid, PublishAutoPlaced,
       SameRows
  <1>5. CASE HoldAuto(r)
    <2>1. Knows(r, [req[r] EXCEPT !.pc = "autowrite"])
      BY <1>2, <1>5 DEF HoldAuto, At, Knows, Local
    <2>. QED BY <1>1, <1>4, <1>5, <2>1, AloneMove DEF HoldAuto, Inside
  <1>6. CASE ReleaseReplaced(r)
    <2>1. Knows(r, [req[r] EXCEPT !.pc = "autooutbid"])
      BY <1>2, <1>6 DEF ReleaseReplaced, At, Knows, Local
    <2>. QED BY <1>1, <1>4, <1>6, <2>1, AloneMove DEF ReleaseReplaced, Inside
  <1>7. CASE PublishAutoOutbid(r)
    <2>1. Knows(r, [req[r] EXCEPT !.pc = "autoupdate"])
      BY <1>2, <1>7 DEF PublishAutoOutbid, At, Knows, Local
    <2>. QED BY <1>1, <1>4, <1>7, <2>1, AloneMove DEF PublishAutoOutbid, Inside
  <1>8. CASE PublishAutoPlaced(r)
    <2>1. Knows(r, [req[r] EXCEPT !.pc = "placed"])
      BY <1>2, <1>8 DEF PublishAutoPlaced, At, Knows, Local
    <2>. QED BY <1>1, <1>4, <1>8, <2>1, AloneMove DEF PublishAutoPlaced, Inside
  <1>9. CASE UndoAutoHold(r)
    <2>1. ~RaisesOwn(r)
      BY <1>2, <1>9 DEF UndoAutoHold, At, Knows, RaisesOwn
    <2>. QED BY <1>1, <1>4, <1>9, <2>1, AloneQuietAnswer DEF UndoAutoHold
  <1>. QED BY <1>3, <1>5, <1>6, <1>7, <1>8, <1>9

LEMMA AloneEnding ==
  ASSUME NEW r, AloneBefore(r), EarlyEnd(r)
  PROVE  AloneInv'
  <1>1. SameRows
    BY DEF EarlyEnd, WalletRefuses, GivesUp, WalletTimesOut, storeVars, SameRows
  <1>2. InProgress(r)
    BY DEF EarlyEnd, WalletRefuses, GivesUp, WalletTimesOut, At, InProgress, Inside
  <1>3. req[r] \in Local /\ Knows(r, req[r])
    BY <1>2, AloneHas
  <1>4. CASE Answer(r, "Error")
    BY <1>1, <1>2, <1>4, AloneQuietAnswer
  <1>5. CASE GivesUp(r)
    <2>1. CASE At(r, "insert") /\ req' = [req EXCEPT ![r].pc = "undo"]
      <3>1. Knows(r, [req[r] EXCEPT !.pc = "undo"])
        BY <1>3, <2>1 DEF At, Knows, Local
      <3>. QED BY <1>1, <1>2, <2>1, <3>1, AloneMove DEF Inside
    <2>2. CASE At(r, "autowrite") /\ ~RaisesOwn(r) /\ req' = [req EXCEPT ![r].pc = "autoundo"]
      <3>1. Knows(r, [req[r] EXCEPT !.pc = "autoundo"])
        BY <1>3, <2>2 DEF At, RaisesOwn, Knows, Local
      <3>. QED BY <1>1, <1>2, <2>2, <3>1, AloneMove DEF Inside
    <2>3. ~(At(r, "autoundo") /\ RaisesOwn(r)) /\ ~At(r, "autodrop") /\ ~At(r, "autodelete")
      BY <1>3 DEF At, RaisesOwn, Knows
    <2>. QED BY <1>4, <1>5, <2>1, <2>2, <2>3 DEF GivesUp
  <1>. QED BY <1>4, <1>5 DEF EarlyEnd, WalletRefuses, WalletTimesOut

\* saving a proxy whose maximum covers the winning bid
LEMMA UpsertSound ==
  ASSUME NEW r, AloneBefore(r), InProgress(r), req[r].offer >= Winning.amount,
         UpsertMax(req[r].bidder, req[r].offer, req[r].time), UNCHANGED <<listing, bids, job>>
  PROVE  RowsSound'
  <1>1. /\ RowsSound /\ StoreOK /\ req[r].bidder \in Bidders
        /\ req[r].offer \in Nat /\ req[r].time \in Nat
    BY AloneHas DEF LocalOK, Local, InProgress, Inside
  <1>2. /\ \E p \in proxies' : p.bidder = req[r].bidder /\ p.max = req[r].offer
        /\ \A p \in proxies : p.bidder # req[r].bidder => p \in proxies'
    BY <1>1, UpsertTyped
  <1>3. \A x \in bids : x.amount <= req[r].offer
    <2> SUFFICES ASSUME NEW x \in bids PROVE x.amount <= req[r].offer
      OBVIOUS
    <2>1. x.amount \in Nat /\ Winning.amount \in Nat /\ x.amount <= Winning.amount
      BY <1>1, WinningHighest DEF BidRow, StoreOK
    <2>. QED BY <1>1, <2>1
  <1>4. OneReplica /\ OneReplica'
    BY SameReplicas DEF AloneBefore, OneReplica
  <1>5. AutoBidWithinMax'
    <2> SUFFICES ASSUME NEW x \in bids, x.hold % 2 = 0, x.bidder \notin Deleters
                 PROVE  \E p \in proxies' : p.bidder = x.bidder /\ x.amount <= p.max
      BY DEF AutoBidWithinMax
    <2>1. PICK p \in proxies : p.bidder = x.bidder /\ x.amount <= p.max
      BY <1>1, <1>4 DEF RowsSound, AutoBidWithinMax
    <2>. QED BY <1>2, <1>3, <2>1
  <1>6. ListingNeverAhead' /\ job'.status = "PENDING"
    BY <1>1, <1>4 DEF RowsSound, ListingNeverAhead, Winning
  <1>. QED BY <1>5, <1>6 DEF RowsSound

LEMMA AloneSaving ==
  ASSUME NEW r, AloneBefore(r), SaveOwnProxy(r) \/ SaveProxy(r)
  PROVE  AloneInv'
  <1>1. InProgress(r)
    BY DEF SaveOwnProxy, SaveProxy, At, InProgress, Inside
  <1>2. /\ req[r] \in Local /\ Knows(r, req[r]) /\ Winning \in AnyBid
        /\ MinimumOver(Winning) \in Nat /\ MinimumOver(Winning) > Winning.amount
    BY <1>1, AloneHas
  <1>3. CASE SaveOwnProxy(r)
    <2>1. req[r].offer >= Winning.amount
      BY <1>2, <1>3 DEF SaveOwnProxy, At, Knows
    <2>2. RowsSound'
      BY <1>1, <1>3, <2>1, UpsertSound DEF SaveOwnProxy
    <2>. QED BY <1>1, <1>3, <2>2, AloneAnswer DEF SaveOwnProxy
  <1>4. CASE SaveProxy(r)
    <2>1. req[r].offer >= req[r].accepted /\ req[r].accepted >= MinimumOver(Winning)
      BY <1>2, <1>4 DEF SaveProxy, At, Knows
    <2>2. req[r].offer >= Winning.amount
      BY <1>2, <2>1 DEF Local, AnyBid, BidRow, NoBid
    <2>3. RowsSound'
      BY <1>1, <1>4, <2>2, UpsertSound DEF SaveProxy
    <2>4. PICK t : t = [req[r] EXCEPT !.pc = "release"]
      OBVIOUS
    <2>5. req' = [req EXCEPT ![r] = t]
      BY <1>4, <2>4 DEF SaveProxy
    <2>6. Winning' = Winning /\ listing' = listing
      BY <1>4 DEF SaveProxy, Winning
    <2>7. t.pc = "release" /\ Knows(r, t)
      BY <1>2, <1>4, <2>4 DEF SaveProxy, At, Knows, Local
    <2>8. Knows(r, t)'
      BY <2>6, <2>7 DEF Knows
    <2>. QED BY <1>1, <2>3, <2>5, <2>8, AloneStep
  <1>. QED BY <1>3, <1>4

\* a stored bid of place_bid_internal takes the lead
LEMMA InsertWins ==
  ASSUME NEW r, AloneBefore(r), InsertNew(r)
  PROVE  /\ Winning'.hold = BidId(r) /\ Winning'.amount = req[r].accepted
         /\ Winning'.bidder = req[r].bidder /\ Winning' \in BidRow /\ bids' = bids \cup {Winning'}
         /\ req[r].accepted >= MinimumOver(Winning) /\ req[r].accepted > Winning.amount
         /\ req[r].bidder # Winning.bidder
  <1>1. InProgress(r) /\ req[r].pc = "insert"
    BY DEF InsertNew, At, InProgress, Inside
  <1>2. /\ StoreOK /\ Knows(r, req[r]) /\ req[r] \in Local /\ LocalOK(req[r])
        /\ BidId(r) \in Nat \ {0} /\ MinimumOver(Winning) \in Nat
        /\ MinimumOver(Winning) > Winning.amount /\ Winning \in AnyBid
    BY <1>1, AloneHas, RequestIsOK DEF AloneBefore
  <1>3. PICK row : row = [id |-> BidId(r), bidder |-> req[r].bidder, amount |-> req[r].accepted,
                          time |-> req[r].time, hold |-> BidId(r)]
    OBVIOUS
  <1>4. row \in BidRow /\ bids' = bids \cup {row}
    BY <1>1, <1>2, <1>3 DEF InsertNew, InsertBid, BidRow, LocalOK, Local
  <1>5. req[r].accepted >= MinimumOver(Winning) /\ req[r].bidder # Winning.bidder
    BY <1>1, <1>2 DEF Knows
  <1>6. req[r].accepted > Winning.amount
    BY <1>2, <1>5 DEF Local, AnyBid, BidRow, NoBid
  <1>7. \A y \in bids' \ {row} : y.amount < row.amount
    <2> SUFFICES ASSUME NEW y \in bids PROVE y.amount < row.amount
      BY <1>4
    <2>1. y.amount \in Nat /\ Winning.amount \in Nat /\ y.amount <= Winning.amount
      BY <1>2, WinningHighest DEF BidRow, StoreOK
    <2>2. row.amount \in Nat /\ row.amount > Winning.amount
      BY <1>2, <1>3, <1>6 DEF Local
    <2>. QED BY <2>1, <2>2
  <1>8. Winning' = row
    <2>1. bids' \in SUBSET BidRow /\ row \in bids'
      BY <1>2, <1>4 DEF StoreOK
    <2>2. Best(bids') = row
      BY <1>7, <2>1, HigherWins
    <2>. QED BY <2>2 DEF Winning
  <1>. QED BY <1>3, <1>4, <1>5, <1>6, <1>8

\* and so does a counter-bid, which replaces the winning bid if that is the proxy's own
LEMMA WriteWins ==
  ASSUME NEW r, AloneBefore(r), WriteAuto(r)
  PROVE  /\ req' = [req EXCEPT ![r].pc = "autorelease"]
         /\ Winning' = AutoRow(r) /\ AutoRow(r) \in BidRow
         /\ bids' = (IF RaisesOwn(r) THEN bids \ {Winning} ELSE bids) \cup {AutoRow(r)}
         /\ Winning \in bids /\ req[r].cur = Winning
         /\ req[r].target > Winning.amount
         /\ req[r].top = Winning.bidder \/ req[r].target >= MinimumOver(Winning)
         /\ req[r].cur.hold # AutoId(r)
  <1>1. InProgress(r) /\ req[r].pc = "autowrite"
    BY DEF WriteAuto, At, InProgress, Inside
  <1>2. /\ StoreOK /\ Knows(r, req[r]) /\ req[r] \in Local /\ LocalOK(req[r])
        /\ FreshOK(r, req[r].pc) /\ AutoId(r) \in Nat \ {0} /\ AutoTime(r) \in Nat
    BY <1>1, AloneHas, RequestIsOK DEF AloneBefore
  <1>3. /\ req[r].cur = Winning /\ req[r].target > Winning.amount
        /\ req[r].top = Winning.bidder \/ req[r].target >= MinimumOver(Winning)
    BY <1>1, <1>2 DEF Knows
  <1>4. req[r].top \in Bidders /\ Winning \in BidRow /\ req[r].target \in Nat
    BY <1>1, <1>2, <1>3 DEF LocalOK, Countering, Local
  <1>5. Winning \in bids
    <2>1. CASE bids = {}
      BY <1>4, <2>1 DEF Winning, Best, NoBid, BidRow
    <2>. QED BY <1>2, <2>1, WinningTyped
  <1>6. AutoRow(r) \in BidRow /\ AutoRow(r).amount = req[r].target
    BY <1>2, <1>3, <1>4 DEF AutoRow, BidRow
  <1>7. RaisedRow(r) = {Winning}
    BY <1>2, <1>3, <1>5 DEF RaisedRow, StoreOK
  <1>8. /\ req' = [req EXCEPT ![r].pc = "autorelease"]
        /\ bids' = (IF RaisesOwn(r) THEN bids \ {Winning} ELSE bids) \cup {AutoRow(r)}
    BY <1>7 DEF WriteAuto
  <1>9. bids' \in SUBSET BidRow /\ AutoRow(r) \in bids'
    BY <1>2, <1>6, <1>8 DEF StoreOK
  <1>10. \A y \in bids' \ {AutoRow(r)} : y.amount < AutoRow(r).amount
    <2> SUFFICES ASSUME NEW y \in bids PROVE y.amount < AutoRow(r).amount
      BY <1>8
    <2>1. y.amount \in Nat /\ Winning.amount \in Nat /\ y.amount <= Winning.amount
      BY <1>2, WinningHighest DEF BidRow, StoreOK
    <2>. QED BY <1>3, <1>4, <1>6, <2>1
  <1>11. Winning' = AutoRow(r)
    BY <1>9, <1>10, HigherWins DEF Winning
  <1>12. req[r].cur.hold # AutoId(r)
    BY <1>1, <1>2, <1>3, <1>5 DEF FreshOK, BeforeAuto
  <1>. QED BY <1>3, <1>5, <1>6, <1>8, <1>11, <1>12

LEMMA AloneStoring ==
  ASSUME NEW r, AloneBefore(r), InsertNew(r) \/ WriteAuto(r)
  PROVE  AloneInv'
  <1>1. InProgress(r)
    BY DEF InsertNew, WriteAuto, At, InProgress, Inside
  <1>2. /\ RowsSound /\ StoreOK /\ req[r] \in Local /\ Knows(r, req[r]) /\ r \in Nat
        /\ Winning \in AnyBid /\ listing \in Row
    BY <1>1, AloneHas
  <1>3. OneReplica /\ OneReplica'
    BY SameReplicas DEF AloneBefore, OneReplica
  <1>4. UNCHANGED <<listing, proxies, job>>
    BY DEF InsertNew, WriteAuto
  <1>5. listing.highest \in Nat /\ Winning.amount \in Nat /\ listing.highest <= Winning.amount
    BY <1>2, <1>3 DEF RowsSound, ListingNeverAhead, AnyBid, BidRow, NoBid, Row
  <1>6. CASE InsertNew(r)
    <2>1. /\ Winning'.hold = BidId(r) /\ Winning'.amount = req[r].accepted
          /\ bids' = bids \cup {Winning'} /\ req[r].accepted > Winning.amount
          /\ req[r].accepted \in Nat
      BY <1>2, <1>6, InsertWins DEF Local
    <2>2. AutoBidWithinMax'
      <3> SUFFICES ASSUME NEW x \in bids', x.hold % 2 = 0, x.bidder \notin Deleters
                   PROVE  \E p \in proxies : p.bidder = x.bidder /\ x.amount <= p.max
        BY <1>4 DEF AutoBidWithinMax
      <3>1. BidId(r) % 2 = 1
        BY <1>2 DEF BidId
      <3>2. x \in bids
        BY <2>1, <3>1
      <3>. QED BY <1>2, <1>3, <3>2 DEF RowsSound, AutoBidWithinMax
    <2>3. RowsSound'
      BY <1>2, <1>3, <1>4, <1>5, <2>1, <2>2 DEF RowsSound, ListingNeverAhead
    <2>4. PICK t : t = [req[r] EXCEPT !.pc = "outbid"]
      OBVIOUS
    <2>5. req' = [req EXCEPT ![r] = t]
      BY <1>6, <2>4 DEF InsertNew
    <2>6. /\ t.pc = "outbid" /\ t.row = req[r].row /\ t.accepted = req[r].accepted
          /\ t.after = req[r].after /\ req[r].pc = "insert"
      BY <1>2, <1>6, <2>4 DEF InsertNew, At, Local
    <2>7. Knows(r, t)'
      BY <1>2, <1>4, <1>5, <2>1, <2>6 DEF Knows
    <2>. QED BY <1>1, <2>3, <2>5, <2>7, AloneStep
  <1>7. CASE WriteAuto(r)
    <2>1. /\ req' = [req EXCEPT ![r].pc = "autorelease"]
          /\ Winning' = AutoRow(r) /\ req[r].target > Winning.amount
          /\ bids' \subseteq bids \cup {AutoRow(r)} /\ req[r].cur.hold # AutoId(r)
          /\ req[r].target \in Nat
      BY <1>2, <1>7, WriteWins DEF Local
    <2>2. /\ AutoRow(r).amount = req[r].target /\ AutoRow(r).hold = AutoId(r)
          /\ AutoRow(r).bidder = req[r].top
      BY DEF AutoRow
    <2>3. req[r].pc = "autowrite"
      BY <1>7 DEF WriteAuto, At
    <2>4. AutoBidWithinMax'
      <3> SUFFICES ASSUME NEW x \in bids', x.hold % 2 = 0, x.bidder \notin Deleters
                   PROVE  \E p \in proxies : p.bidder = x.bidder /\ x.amount <= p.max
        BY <1>4 DEF AutoBidWithinMax
      <3>1. CASE x \in bids
        BY <1>2, <1>3, <3>1 DEF RowsSound, AutoBidWithinMax
      <3>2. CASE x = AutoRow(r)
        BY <1>2, <2>2, <2>3, <3>2 DEF Knows
      <3>. QED BY <2>1, <3>1, <3>2
    <2>5. RowsSound'
      BY <1>2, <1>3, <1>4, <1>5, <2>1, <2>2, <2>4 DEF RowsSound, ListingNeverAhead
    <2>6. PICK t : t = [req[r] EXCEPT !.pc = "autorelease"]
      OBVIOUS
    <2>7. req' = [req EXCEPT ![r] = t]
      BY <2>1, <2>6
    <2>8. /\ t.pc = "autorelease" /\ t.row = req[r].row /\ t.target = req[r].target
          /\ t.after = req[r].after /\ t.cur = req[r].cur
      BY <1>2, <2>6 DEF Local
    <2>9. Knows(r, t)'
      BY <1>2, <1>4, <1>5, <2>1, <2>2, <2>3, <2>8 DEF Knows
    <2>. QED BY <1>1, <2>5, <2>7, <2>9, AloneStep
  <1>. QED BY <1>6, <1>7

\* the UPDATEs of the auction's row: the guard of each is met, so each shows its bid
LEMMA AloneUpdating ==
  ASSUME NEW r, AloneBefore(r), UpdateListing(r) \/ UpdateListingAuto(r)
  PROVE  AloneInv'
  <1>1. InProgress(r)
    BY DEF UpdateListing, UpdateListingAuto, At, InProgress, Inside
  <1>2. /\ RowsSound /\ req[r] \in Local /\ Knows(r, req[r]) /\ listing \in Row
        /\ req[r].after \in Price /\ job.due \in Nat
    BY <1>1, AloneHas DEF Local, StoreOK
  <1>3. OneReplica /\ OneReplica'
    BY SameReplicas DEF AloneBefore, OneReplica
  <1>4. Winning' = Winning /\ UNCHANGED <<bids, proxies, job>>
    BY DEF UpdateListing, UpdateListingAuto, Winning
  <1>5. ASSUME NEW row, NEW pc \in {"job", "autojob"}, listing' = row,
               row.highest = Winning.amount, row.end >= listing.end, row.end \in Nat,
               req' = [req EXCEPT ![r].pc = pc, ![r].row = row]
        PROVE  AloneInv'
    <2>1. RowsSound'
      <3>1. AutoBidWithinMax'
        BY <1>2, <1>3, <1>4 DEF RowsSound, AutoBidWithinMax
      <3>2. job.due <= row.end
        BY <1>2, <1>3, <1>5 DEF RowsSound, ListingNeverAhead, Row
      <3>3. Winning.amount \in Nat
        BY <1>1, AloneHas DEF AnyBid, BidRow, NoBid
      <3>. QED BY <1>2, <1>4, <1>5, <3>1, <3>2, <3>3 DEF RowsSound, ListingNeverAhead
    <2>2. PICK t : t = [req[r] EXCEPT !.pc = pc, !.row = row]
      OBVIOUS
    <2>3. req' = [req EXCEPT ![r] = t]
      BY <1>5, <2>2
    <2>4. t.pc = pc /\ t.row = row
      BY <1>2, <2>2 DEF Local
    <2>5. Knows(r, t)'
      BY <1>4, <1>5, <2>4 DEF Knows
    <2>. QED BY <1>1, <2>1, <2>3, <2>5, AloneStep
  <1>6. CASE UpdateListing(r)
    <2> DEFINE new == [highest |-> req[r].accepted, end |-> req[r].after.end,
                       status |-> req[r].after.status]
    <2>1. /\ Winning.amount = req[r].accepted /\ listing.highest < req[r].accepted
          /\ req[r].after.end >= listing.end
      BY <1>2, <1>6 DEF UpdateListing, At, Knows
    <2>2. /\ listing' = new /\ req' = [req EXCEPT ![r].pc = "job", ![r].row = new]
      BY <1>6, <2>1 DEF UpdateListing
    <2>3. new.highest = Winning.amount /\ new.end >= listing.end /\ new.end \in Nat
      BY <1>2, <2>1 DEF Price
    <2> HIDE DEF new
    <2>. QED BY <1>5, <2>2, <2>3
  <1>7. CASE UpdateListingAuto(r)
    <2> DEFINE later == listing.end < req[r].after.end
               new == [highest |-> req[r].target,
                       end |-> IF later THEN req[r].after.end ELSE listing.end,
                       status |-> IF later THEN req[r].after.status ELSE listing.status]
    <2>1. /\ Winning.amount = req[r].target /\ listing.highest < req[r].target
          /\ req[r].after.end >= listing.end
      BY <1>2, <1>7 DEF UpdateListingAuto, At, Knows
    <2>2. /\ listing' = new /\ req' = [req EXCEPT ![r].pc = "autojob", ![r].row = new]
      BY <1>7, <2>1 DEF UpdateListingAuto
    <2>3. new.highest = Winning.amount /\ new.end >= listing.end /\ new.end \in Nat
      BY <1>2, <2>1 DEF Price, Row
    <2> HIDE DEF new
    <2>. QED BY <1>5, <2>2, <2>3
  <1>. QED BY <1>6, <1>7

LEMMA AloneScheduling ==
  ASSUME NEW r, AloneBefore(r), Reschedule(r) \/ RescheduleAuto(r)
  PROVE  AloneInv'
  <1>1. InProgress(r)
    BY DEF Reschedule, RescheduleAuto, At, InProgress, Inside
  <1>2. /\ RowsSound /\ req[r] \in Local /\ Knows(r, req[r]) /\ listing \in Row
        /\ job \in [status : JobStatuses, due : Nat, lockedUntil : Nat]
    BY <1>1, AloneHas DEF StoreOK
  <1>3. OneReplica /\ OneReplica'
    BY SameReplicas DEF AloneBefore, OneReplica
  <1>4. Winning' = Winning /\ UNCHANGED <<listing, bids, proxies>>
    BY DEF Reschedule, RescheduleAuto, Winning
  <1>5. job'.due = listing.end /\ job'.status = "PENDING"
    BY <1>2 DEF Reschedule, RescheduleAuto, UpsertPending, Knows, At, RowsSound
  <1>6. RowsSound'
    BY <1>2, <1>3, <1>4, <1>5 DEF RowsSound, ListingNeverAhead, AutoBidWithinMax, Row
  <1>7. ASSUME NEW pc \in {"board", "autoplaced"}, req' = [req EXCEPT ![r].pc = pc],
               req[r].pc \in {"job", "autojob"}
        PROVE  AloneInv'
    <2>1. PICK t : t = [req[r] EXCEPT !.pc = pc]
      OBVIOUS
    <2>2. req' = [req EXCEPT ![r] = t]
      BY <1>7, <2>1
    <2>3. t.pc = pc /\ t.row = req[r].row
      BY <1>2, <2>1 DEF Local
    <2>4. Knows(r, t)'
      BY <1>2, <1>4, <1>5, <1>7, <2>3 DEF Knows
    <2>. QED BY <1>1, <1>6, <2>2, <2>4, AloneStep
  <1>. QED BY <1>7 DEF Reschedule, RescheduleAuto, At

\* what happens outside the mutex
LEMMA AloneOutside ==
  ASSUME PlacementInv, [Next]_vars, OneReplica, AloneInv,
         \/ \E r \in Requests : Arrive(r)
         \/ \E b \in Deleters : DeleteProxy(b)
         \/ Tick /\ UNCHANGED <<guard, req, faults>>
         \/ UNCHANGED vars
  PROVE  AloneInv'
  <1>1. /\ OneReplica' /\ Requests' = Requests /\ RowsSound /\ StoreOK
        /\ \A q \in Requests : InProgress(q) => Knows(q, req[q])
    BY SameReplicas DEF OneReplica, AloneInv, PlacementInv
  <1>2. UNCHANGED <<listing, bids, job>> /\ Winning' = Winning
    BY DEF Arrive, DeleteProxy, Tick, vars, storeVars, Winning
  <1>3. \A p \in proxies : p.bidder \notin Deleters => p \in proxies'
    BY DEF Arrive, DeleteProxy, Tick, vars, storeVars
  <1>4. \A q \in Requests : InProgress(q)' => InProgress(q) /\ req'[q] = req[q]
    <2>1. CASE \E r \in Requests : Arrive(r)
      <3>1. PICK r \in Requests : Arrive(r)
        BY <2>1
      <3>2. PICK o \in Offers :
              req' = [req EXCEPT ![r].pc = "waiting", ![r].bidder = o.bidder,
                                 ![r].kind = o.kind, ![r].offer = o.offer, ![r].time = now]
        BY <3>1 DEF Arrive
      <3>3. req'[r].pc = "waiting" /\ \A q \in Requests \ {r} : req'[q] = req[q]
        BY <3>2, RequestIsOK DEF PlacementInv, RequestsOK, Local
      <3>. QED BY <3>3 DEF InProgress, Inside
    <2>2. CASE req' = req
      BY <2>2 DEF InProgress
    <2>. QED BY <2>1, <2>2 DEF DeleteProxy, Tick, vars
  <1>5. AutoBidWithinMax'
    <2> SUFFICES ASSUME NEW x \in bids, x.hold % 2 = 0, x.bidder \notin Deleters
                 PROVE  \E p \in proxies' : p.bidder = x.bidder /\ x.amount <= p.max
      BY <1>2 DEF AutoBidWithinMax
    <2>1. PICK p \in proxies : p.bidder = x.bidder /\ x.amount <= p.max
      BY <1>1 DEF RowsSound, AutoBidWithinMax
    <2>. QED BY <1>3, <2>1
  <1>6. RowsSound'
    BY <1>1, <1>2, <1>5 DEF RowsSound, ListingNeverAhead
  <1>7. ASSUME NEW q \in Requests, InProgress(q)'
        PROVE  Knows(q, req[q])'
    <2>1. PICK t : t = req[q]
      OBVIOUS
    <2>2. Knows(q, t) /\ req'[q] = t
      BY <1>1, <1>4, <1>7, <2>1
    <2>3. Knows(q, t)'
      BY <1>2, <1>3, <2>2 DEF Knows
    <2>. QED BY <2>2, <2>3
  <1>. QED BY <1>1, <1>6, <1>7 DEF AloneInv

LEMMA AloneInit == Init => AloneInv
  <1> SUFFICES ASSUME Init PROVE AloneInv
    OBVIOUS
  <1>1. RowsSound
    BY StoreAssumption DEF Init, StoreInit, RowsSound, ListingNeverAhead, AutoBidWithinMax,
       Winning, Best, NoBid
  <1>2. \A r \in Requests : ~InProgress(r)
    <2>1. PICK d \in Deployments : req = [r \in DOMAIN d |-> Blank(d[r])]
      BY DEF Init
    <2>2. ASSUME NEW r \in Requests PROVE req[r].pc = "new"
      BY <2>1 DEF Requests, Blank
    <2>. QED BY <2>2 DEF InProgress, Inside
  <1>. QED BY <1>1, <1>2 DEF AloneInv

LEMMA AloneNext ==
  ASSUME PlacementInv, PlacementInv', AloneInv, [Next]_vars
  PROVE  AloneInv'
  <1>1. CASE ~OneReplica
    BY <1>1, SameReplicas DEF OneReplica, AloneInv
  <1>2. CASE OneReplica
    <2>1. ASSUME NEW r \in Requests, Step(r) \/ EarlyEnd(r)
          PROVE  AloneInv'
      <3>1. AloneBefore(r)
        BY <1>2, <2>1 DEF AloneBefore
      <3> SUFFICES ASSUME ~AloneInv' PROVE FALSE
        OBVIOUS
      <3>2. ~(EnterGuard(r) \/ ReadAuction(r) \/ ReadWinner(r) \/ ReadSession(r))
        BY <3>1, AloneReading
      <3>3. ~(\/ ReleasePrevious(r) \/ HoldNew(r) \/ UndoHold(r) \/ PublishOutbid(r)
              \/ PublishPlaced(r))
        BY <3>1, AloneCalling
      <3>4. ~(ReadBoard(r) \/ ReadContest(r) \/ ReadAutoSession(r))
        BY <3>1, AloneContesting
      <3>5. ~(\/ HoldAuto(r) \/ UndoAutoHold(r) \/ ReleaseReplaced(r) \/ PublishAutoOutbid(r)
              \/ DropAutoHold(r) \/ DeleteAutoBid(r) \/ PublishAutoPlaced(r))
        BY <3>1, AloneCountering
      <3>6. ~(SaveOwnProxy(r) \/ SaveProxy(r)) /\ ~(InsertNew(r) \/ WriteAuto(r))
        BY <3>1, AloneSaving, AloneStoring
      <3>7. ~(UpdateListing(r) \/ UpdateListingAuto(r)) /\ ~(Reschedule(r) \/ RescheduleAuto(r))
        BY <3>1, AloneUpdating, AloneScheduling
      <3>8. ~EarlyEnd(r)
        BY <3>1, AloneEnding
      <3>9. ~RereadListing(r)
        BY <3>1, AloneHas DEF RereadListing, At, Knows, InProgress, Inside
      <3>. QED BY <2>1, <3>2, <3>3, <3>4, <3>5, <3>6, <3>7, <3>8, <3>9, Zenon DEF Step
    <2>2. CASE ~\E r \in Requests : Step(r) \/ EarlyEnd(r)
      BY <1>2, <2>2, AloneOutside DEF Next
    <2>. QED BY <2>1, <2>2
  <1>. QED BY <1>1, <1>2

LEMMA AloneIsSound == Spec => [](PlacementInv /\ AloneInv)
  <1>1. Init => PlacementInv /\ AloneInv
    BY PlacementInvInit, AloneInit
  <1>2. PlacementInv /\ AloneInv /\ [Next]_vars => (PlacementInv /\ AloneInv)'
    <2> SUFFICES ASSUME PlacementInv, AloneInv, [Next]_vars
                 PROVE  PlacementInv' /\ AloneInv'
      OBVIOUS
    <2>1. PlacementInv'
      BY PlacementInvStep
    <2>. QED BY <2>1, AloneNext
  <1>. QED BY <1>1, <1>2, PTL DEF Spec

\* On one replica the price shown never runs ahead of the winning bid, and the closure
\* job is never due after the end, whichever requests end early (ListingNeverAhead).
THEOREM ListingFollowsTheBids == Spec => []ListingNeverAhead
  <1>1. AloneInv => ListingNeverAhead
    BY DEF AloneInv, RowsSound, ListingNeverAhead
  <1>. QED BY <1>1, AloneIsSound, PTL

\* On one replica no automatic bid is above the maximum its bidder last confirmed
\* (AutoBidWithinMax).
THEOREM AutoBidsStayWithin == Spec => []AutoBidWithinMax
  <1>1. AloneInv => AutoBidWithinMax
    BY DEF AloneInv, RowsSound, AutoBidWithinMax
  <1>. QED BY <1>1, AloneIsSound, PTL

\* Only the insert of a bid, and the insert or the raise of a counter-bid, change the
\* table of bids on one replica: an auto bid is never withdrawn there.
LEMMA OnlyWritesLead ==
  ASSUME PlacementInv, AloneInv, OneReplica, [Next]_vars, bids' # bids
  PROVE  \E r \in Requests : InsertNew(r) \/ WriteAuto(r)
  <1>1. PICK r \in Requests : Arrive(r) \/ Step(r) \/ EarlyEnd(r)
    BY DEF Next, vars, Tick, DeleteProxy
  <1>2. ~(Arrive(r) \/ EnterGuard(r) \/ ReadAuction(r) \/ ReadWinner(r) \/ ReadSession(r))
    BY DEF Arrive, EnterGuard, ReadAuction, ReadWinner, ReadSession, storeVars
  <1>3. ~(\/ SaveOwnProxy(r) \/ SaveProxy(r) \/ ReleasePrevious(r) \/ HoldNew(r) \/ UpdateListing(r)
          \/ UndoHold(r) \/ PublishOutbid(r) \/ RereadListing(r) \/ Reschedule(r) \/ PublishPlaced(r))
    BY DEF SaveOwnProxy, SaveProxy, ReleasePrevious, HoldNew, UpdateListing, UndoHold,
       PublishOutbid, RereadListing, Reschedule, PublishPlaced, storeVars
  <1>4. ~(ReadBoard(r) \/ ReadContest(r) \/ ReadAutoSession(r))
    BY DEF ReadBoard, ReadContest, ReadAutoSession, storeVars
  <1>5. ~(\/ HoldAuto(r) \/ UndoAutoHold(r) \/ ReleaseReplaced(r) \/ PublishAutoOutbid(r)
          \/ UpdateListingAuto(r) \/ DropAutoHold(r) \/ RescheduleAuto(r) \/ PublishAutoPlaced(r))
    BY DEF HoldAuto, UndoAutoHold, ReleaseReplaced, PublishAutoOutbid, UpdateListingAuto,
       DropAutoHold, RescheduleAuto, PublishAutoPlaced
  <1>6. ~EarlyEnd(r)
    BY DEF EarlyEnd, WalletRefuses, GivesUp, WalletTimesOut, storeVars
  <1>7. ~DeleteAutoBid(r)
    BY DEF DeleteAutoBid, At, AloneInv, Knows, InProgress, Inside
  <1>. QED BY <1>1, <1>2, <1>3, <1>4, <1>5, <1>6, <1>7, Zenon DEF Step

\* On one replica the lead changes hands only upwards, by at least the increment and to
\* another bidder, and a standing bid is only ever raised in place (PriceLadder).
THEOREM LeadClimbsTheLadder == Spec => PriceLadder
  <1>1. ASSUME PlacementInv, AloneInv, PlacementInv', [Next]_vars,
               OneReplica, Winning' # Winning
        PROVE  \/ Winning'.bidder # Winning.bidder /\ Winning'.amount >= MinimumOver(Winning)
               \/ Winning'.id = Winning.id /\ Winning'.amount > Winning.amount
    <2>1. bids' # bids
      BY <1>1 DEF Winning
    <2>2. PICK r \in Requests : InsertNew(r) \/ WriteAuto(r)
      BY <1>1, <2>1, OnlyWritesLead
    <2>3. AloneBefore(r)
      BY <1>1 DEF AloneBefore
    <2>4. CASE InsertNew(r)
      BY <2>3, <2>4, InsertWins
    <2>5. CASE WriteAuto(r)
      <3>1. /\ Winning' = AutoRow(r) /\ req[r].cur = Winning /\ req[r].target > Winning.amount
            /\ req[r].top = Winning.bidder \/ req[r].target >= MinimumOver(Winning)
        BY <2>3, <2>5, WriteWins
      <3>2. /\ AutoRow(r).bidder = req[r].top /\ AutoRow(r).amount = req[r].target
            /\ RaisesOwn(r) => AutoRow(r).id = Winning.id
            /\ RaisesOwn(r) <=> req[r].top = Winning.bidder
        BY <3>1 DEF AutoRow, RaisesOwn
      <3>. QED BY <3>1, <3>2
    <2>. QED BY <2>2, <2>4, <2>5
  <1>2. ASSUME PlacementInv, AloneInv, PlacementInv', [Next]_vars
        PROVE  [OneReplica /\ Winning' # Winning =>
                  \/ Winning'.bidder # Winning.bidder /\ Winning'.amount >= MinimumOver(Winning)
                  \/ Winning'.id = Winning.id /\ Winning'.amount > Winning.amount]_vars
    BY <1>1, <1>2
  <1>. QED BY <1>2, AloneIsSound, PTL DEF Spec, PriceLadder

-----------------------------------------------------------------------------
(* One replica: events, holds and faults *)

Told(x) == <<"Outbid", x.id>> \in outbox

\* a request about to announce to the bidder of x that he has lost the lead
TellsOf(t, x) ==
  \/ /\ t.pc = "outbid" /\ t.prev # NoBid /\ t.prev.bidder # t.bidder
     /\ x.id = t.prev.id
  \/ t.pc \in {"autorelease", "autooutbid"} /\ t.cur.bidder # t.top /\ x.id = t.cur.id

Held(id, hold) == id \in DOMAIN holds /\ holds[id] = hold

FailedToOutbid(r) ==
  /\ At(r, "done") /\ req[r].result = "Error"
  /\ req[r].stopped \in {"release", "hold", "insert", "undo"}
  /\ req[r].prev = Winning

Covered == Winning = NoBid \/ Funded(Winning) \/ \E r \in Requests : FailedToOutbid(r)

\* the holds, next to the winning bid's, that a request under way still needs
Uses(r, t) ==
  IF t.pc \in {"insert", "undo"} THEN {BidId(r)}
  ELSE IF t.pc \in {"autowrite", "autoundo"} THEN {AutoId(r)}
  ELSE IF t.pc = "autorelease" THEN {t.cur.hold}
  ELSE {}

Active == {i \in DOMAIN holds : IsActive(i)}
Stranded(uses) == Active \ ({Winning.hold} \cup uses)
Counted(uses) == IsFiniteSet(Stranded(uses)) /\ Cardinality(Stranded(uses)) <= faults

RowsTell == listing.highest = Winning.amount /\ job.due = listing.end

\* What the books say when nobody is inside the mutex.
Settled ==
  /\ faults = 0 => RowsTell
  /\ faults = 0 => \A x \in bids \ {Winning} : Told(x)
  /\ Covered
  /\ Counted({})

\* What they say while request r, with local variables t, is inside.
Owes(r, t) ==
  /\ faults = 0 /\ t.pc \notin Ahead => RowsTell
  /\ faults = 0 => \A x \in bids \ {Winning} : Told(x) \/ TellsOf(t, x)
  /\ t.pc \in {"insert", "outbid", "update"} =>
       Held(BidId(r), NewHold(t.bidder, t.accepted, t.after.end))
  /\ t.pc \in {"autowrite", "autorelease", "autooutbid", "autoupdate"} =>
       Held(AutoId(r), NewHold(t.top, t.target, t.after.end))
  /\ t.pc \in {"hold", "insert", "undo"} => ~IsActive(Winning.hold)
  /\ t.pc = "autoundo" => Winning.hold # AutoId(r)
  /\ t.pc \in {"hold", "insert", "undo"} \/ Covered
  /\ Counted(Uses(r, t))

\* The inductive invariant of the books of one replica, on top of AloneInv.
BooksInv ==
  OneReplica =>
    /\ Quiet => Settled
    /\ \A r \in Requests : InProgress(r) => Owes(r, req[r])

LEMMA StillCounted ==
  ASSUME NEW old, NEW new \in SUBSET old, NEW n \in Nat, NEW m \in Nat,
         IsFiniteSet(old), Cardinality(old) <= n, n <= m
  PROVE  IsFiniteSet(new) /\ Cardinality(new) <= m
  <1>1. IsFiniteSet(new) /\ Cardinality(new) <= Cardinality(old)
    BY FS_Subset
  <1>2. Cardinality(new) \in Nat /\ Cardinality(old) \in Nat
    BY <1>1, FS_CardinalityType
  <1>. QED BY <1>1, <1>2

LEMMA OneMoreCounted ==
  ASSUME NEW old, NEW x, NEW new \in SUBSET (old \cup {x}), NEW n \in Nat,
         IsFiniteSet(old), Cardinality(old) <= n
  PROVE  IsFiniteSet(new) /\ Cardinality(new) <= n + 1
  <1>0. Cardinality(old) \in Nat
    BY FS_CardinalityType
  <1>1. IsFiniteSet(old \cup {x}) /\ Cardinality(old \cup {x}) <= Cardinality(old) + 1
    BY <1>0, FS_AddElement
  <1>2. Cardinality(old \cup {x}) \in Nat
    BY <1>1, FS_CardinalityType
  <1>3. Cardinality(old \cup {x}) <= n + 1
    BY <1>0, <1>1, <1>2
  <1>. QED BY <1>1, <1>3, StillCounted

\* What a release and a hold do to the holds in force.
LEMMA ReleaseActive ==
  ASSUME StoreOK, NEW id, ReleaseHold(id)
  PROVE  /\ Active' = Active \ {id}
         /\ \A i \in DOMAIN holds : i # id => i \in DOMAIN holds' /\ holds'[i] = holds[i]
  <1>1. CASE IsActive(id)
    <2>1. id \in DOMAIN holds /\ holds[id] \in Hold /\ holds' = [holds EXCEPT ![id].state = "released"]
      BY <1>1 DEF ReleaseHold, IsActive, StoreOK
    <2>2. DOMAIN holds' = DOMAIN holds /\ holds'[id].state = "released"
          /\ \A i \in DOMAIN holds \ {id} : holds'[i] = holds[i]
      BY <2>1, SMT DEF Hold
    <2>. QED BY <2>2 DEF Active, IsActive
  <1>2. CASE ~IsActive(id)
    BY <1>2 DEF ReleaseHold, Active, IsActive
  <1>. QED BY <1>1, <1>2

LEMMA HoldActive ==
  ASSUME NEW id, NEW b, NEW amount, NEW end, HoldFunds(id, NewHold(b, amount, end))
  PROVE  /\ Active' = Active \cup {id} /\ Held(id, NewHold(b, amount, end))'
         /\ \A i \in DOMAIN holds : i # id => i \in DOMAIN holds' /\ holds'[i] = holds[i]
  <1>1. PICK hold : hold = NewHold(b, amount, end)
    OBVIOUS
  <1>2. hold.state = "active"
    BY <1>1 DEF NewHold
  <1>3. holds' = [i \in DOMAIN holds \cup {id} |-> IF i = id THEN hold ELSE holds[i]]
    BY <1>1 DEF HoldFunds
  <1>4. Active' = Active \cup {id}
    BY <1>2, <1>3 DEF Active, IsActive
  <1>5. id \in DOMAIN holds' /\ holds'[id] = hold
    BY <1>3
  <1>6. \A i \in DOMAIN holds : i # id => i \in DOMAIN holds' /\ holds'[i] = holds[i]
    BY <1>3
  <1>. QED BY <1>1, <1>4, <1>5, <1>6 DEF Held, NewHold

BooksBefore(r) == AloneBefore(r) /\ AloneInv' /\ BooksInv

\* What every step of a request inside the mutex owes to the books.
LEMMA BooksStep ==
  ASSUME NEW r, BooksBefore(r), NEW t, req' = [req EXCEPT ![r] = t],
         InProgress(r) \/ t.pc \in Inside,
         t.pc \in Inside => Owes(r, t)', t.pc \notin Inside => Settled'
  PROVE  BooksInv'
  <1>1. Replicas' = Replicas /\ Requests' = Requests /\ OneReplica'
    BY SameReplicas DEF BooksBefore, AloneBefore, OneReplica
  <1>2. r \in Requests /\ req'[r] = t /\ \A q \in Requests \ {r} : req'[q] = req[q]
    BY DEF BooksBefore, AloneBefore, PlacementInv, RequestsOK
  <1>3. InProgress(r)' <=> t.pc \in Inside
    BY <1>2 DEF InProgress
  <1>4. ASSUME NEW q \in Requests, InProgress(q)'
        PROVE  q = r
    <2>1. CASE InProgress(r)'
      <3>1. (guard[req[q].replica] = q /\ guard[req[r].replica] = r)'
        BY <1>1, <1>2, <1>4, <2>1 DEF BooksBefore, AloneBefore, PlacementInv, RequestsOK
      <3>2. (req[q].replica \in Replicas /\ req[r].replica \in Replicas)'
        BY <1>1, <1>2 DEF BooksBefore, AloneBefore, PlacementInv, RequestsOK, Local
      <3>. QED BY <1>1, <3>1, <3>2 DEF OneReplica
    <2>2. CASE ~InProgress(r)'
      <3>1. InProgress(r)
        BY <1>3, <2>2
      <3>2. q # r => InProgress(q)
        BY <1>2, <1>4 DEF InProgress
      <3>. QED BY <1>2, <3>1, <3>2, OthersOutside DEF BooksBefore, AloneBefore
    <2>. QED BY <2>1, <2>2
  <1>5. CASE t.pc \in Inside
    <2>1. ~Quiet'
      BY <1>1, <1>2, <1>3, <1>5 DEF Quiet
    <2>. QED BY <1>1, <1>2, <1>4, <1>5, <2>1 DEF BooksInv
  <1>6. CASE t.pc \notin Inside
    <2>1. \A q \in Requests : ~InProgress(q)'
      BY <1>3, <1>4, <1>6
    <2>. QED BY <1>1, <1>6, <2>1 DEF BooksInv
  <1>. QED BY <1>5, <1>6

LEMMA BooksAnswer ==
  ASSUME NEW r, BooksBefore(r), InProgress(r), Settled',
         NEW result \in {"Ok", "Refused", "Error"}, Answer(r, result)
  PROVE  BooksInv'
  <1>1. PICK t : t = Answered(req[r], result)
    OBVIOUS
  <1>2. req' = [req EXCEPT ![r] = t] /\ t.pc = "done"
    BY <1>1, AnsweredOK DEF BooksBefore, AloneBefore
  <1>. QED BY <1>2, BooksStep DEF Inside

\* A request that has ended keeps the reason, and the bid it meant to outbid.
LEMMA AnswerKept ==
  ASSUME NEW r, AloneBefore(r), NEW result, Answer(r, result)
  PROVE  /\ req'[r].pc = "done" /\ req'[r].result = result /\ req'[r].prev = req[r].prev
         /\ result = "Error" => req'[r].stopped = req[r].pc
         /\ \A q \in Requests \ {r} : req'[q] = req[q]
  <1>1. r \in Requests /\ DOMAIN req = Requests
    BY DEF AloneBefore, PlacementInv, RequestsOK
  <1>2. PICK b : b = Blank(req[r].replica)
    OBVIOUS
  <1>3. {"pc", "result", "prev", "stopped", "bidder", "kind", "accepted"} \subseteq DOMAIN b
    BY <1>2 DEF Blank
  <1>4. req' = [req EXCEPT ![r] = [b EXCEPT !.pc = "done", !.result = result,
                  !.stopped = IF result = "Ok" THEN "none" ELSE req[r].pc,
                  !.bidder = req[r].bidder, !.kind = req[r].kind,
                  !.accepted = req[r].accepted, !.prev = req[r].prev]]
    BY <1>2 DEF Answer
  <1>. QED BY <1>1, <1>3, <1>4

\* A lead that was covered, or lost its cover to a failed attempt, stays so while it lasts.
LEMMA CoveredKept ==
  ASSUME NEW r, AloneBefore(r), ~At(r, "done"), Covered, Winning' = Winning,
         Funded(Winning) => Funded(Winning)',
         \A q \in Requests \ {r} : req'[q] = req[q]
  PROVE  Covered'
  <1>1. Requests' = Requests
    BY SameReplicas DEF AloneBefore
  <1>. QED BY <1>1 DEF Covered, FailedToOutbid, At

LEMMA FailureCovers ==
  ASSUME NEW r, AloneBefore(r), InProgress(r), Answer(r, "Error"),
         req[r].pc \in {"release", "hold", "insert", "undo"}, Winning' = Winning
  PROVE  Covered'
  <1>1. req[r].prev = Winning
    BY AloneHas DEF Knows
  <1>2. Requests' = Requests /\ r \in Requests
    BY SameReplicas DEF AloneBefore
  <1>. QED BY <1>1, <1>2, AnswerKept DEF Covered, FailedToOutbid, At

\* the steps at which a request owes the books nothing
Plain == {"read", "winner", "session", "saveproxy", "release", "ownproxy", "board", "contest",
          "autosession", "autohold", "autoplaced", "placed"}

LEMMA PlainOwes ==
  ASSUME NEW r, NEW t, t.pc \in Plain
  PROVE  (Owes(r, t) <=> Settled) /\ (Owes(r, t)' <=> Settled')
  <1>1. Uses(r, t) = {} /\ t.pc \notin Ahead /\ \A x : ~TellsOf(t, x)
    BY DEF Plain, Uses, Ahead, TellsOf
  <1>2. Owes(r, t) <=> Settled
    BY <1>1 DEF Owes, Settled, Plain
  <1>3. Owes(r, t)' <=> Settled'
    BY <1>1 DEF Owes, Settled, Plain, TellsOf, Uses
  <1>. QED BY <1>2, <1>3

\* The books of a request before its step.
LEMMA BooksHas ==
  ASSUME NEW r, BooksBefore(r), InProgress(r)
  PROVE  /\ Owes(r, req[r]) /\ (req[r].pc \in Plain => Settled)
         /\ faults \in Nat /\ faults' \in Nat /\ ~At(r, "done")
  <1>1. Owes(r, req[r])
    BY DEF BooksBefore, AloneBefore, BooksInv
  <1>2. req[r].pc \in Plain => Settled
    BY <1>1, PlainOwes
  <1>3. ~At(r, "done")
    BY DEF InProgress, Inside, At
  <1>. QED BY <1>1, <1>2, <1>3 DEF BooksBefore, AloneBefore, PlacementInv, StoreOK

\* A step that changes neither the rows nor the holds keeps the books in order.
LEMMA SettledKept ==
  ASSUME NEW r, AloneBefore(r), Settled, ~At(r, "done"),
         UNCHANGED <<listing, bids, holds, job>>, outbox \subseteq outbox',
         faults' = faults \/ faults' = faults + 1,
         \A q \in Requests \ {r} : req'[q] = req[q]
  PROVE  Settled'
  <1>1. faults \in Nat /\ faults' \in Nat /\ faults <= faults'
    BY DEF AloneBefore, PlacementInv, StoreOK
  <1>2. Winning' = Winning
    BY DEF Winning
  <1>3. Covered'
    BY <1>2, CoveredKept DEF Settled, Funded, IsActive
  <1>4. Counted({})'
    <2>1. Stranded({})' = Stranded({})
      BY <1>2 DEF Stranded, Active, IsActive
    <2>. QED BY <1>1, <2>1, StillCounted DEF Settled, Counted
  <1>. QED BY <1>1, <1>2, <1>3, <1>4 DEF Settled, RowsTell, Told

LEMMA BooksQuiet ==
  ASSUME NEW r, BooksBefore(r), Settled, ~At(r, "done"), NEW t, req' = [req EXCEPT ![r] = t],
         InProgress(r) \/ t.pc \in Inside, t.pc \in Plain \cup {"done"},
         UNCHANGED <<listing, bids, holds, job>>, outbox \subseteq outbox',
         faults' = faults \/ faults' = faults + 1
  PROVE  BooksInv'
  <1>1. \A q \in Requests \ {r} : req'[q] = req[q]
    BY DEF BooksBefore, AloneBefore, PlacementInv, RequestsOK
  <1>2. Settled'
    BY <1>1, SettledKept DEF BooksBefore
  <1>3. t.pc \in Inside => Owes(r, t)'
    BY <1>2, PlainOwes DEF Inside
  <1>. QED BY <1>2, <1>3, BooksStep

LEMMA BooksQuietAnswer ==
  ASSUME NEW r, BooksBefore(r), InProgress(r), Settled,
         NEW result \in {"Ok", "Refused", "Error"}, Answer(r, result),
         UNCHANGED <<listing, bids, holds, job>>, outbox \subseteq outbox',
         faults' = faults \/ faults' = faults + 1
  PROVE  BooksInv'
  <1>1. PICK t : t = Answered(req[r], result)
    OBVIOUS
  <1>2. req' = [req EXCEPT ![r] = t] /\ t.pc = "done"
    BY <1>1, AnsweredOK DEF BooksBefore, AloneBefore
  <1>. QED BY <1>2, BooksHas, BooksQuiet

\* entering, reading and the steps that change proxies or events only
LEMMA BooksReading ==
  ASSUME NEW r, BooksBefore(r),
         \/ EnterGuard(r) \/ ReadAuction(r) \/ ReadWinner(r) \/ ReadSession(r)
         \/ SaveOwnProxy(r) \/ SaveProxy(r) \/ PublishPlaced(r) \/ PublishAutoPlaced(r)
         \/ ReadBoard(r) \/ ReadContest(r) \/ ReadAutoSession(r)
  PROVE  BooksInv'
  <1>0. r \in Requests /\ req[r] \in Local /\ req \in [Requests -> Local]
    BY RequestIsOK DEF BooksBefore, AloneBefore, PlacementInv, RequestsOK
  <1>1. UNCHANGED <<listing, bids, holds, job, faults>> /\ outbox \subseteq outbox'
    <2>1. CASE \/ EnterGuard(r) \/ ReadAuction(r) \/ ReadWinner(r) \/ ReadSession(r)
               \/ ReadBoard(r) \/ ReadContest(r) \/ ReadAutoSession(r)
      BY <2>1 DEF EnterGuard, ReadAuction, ReadWinner, ReadSession, ReadBoard, ReadContest,
         ReadAutoSession, storeVars
    <2>2. CASE SaveOwnProxy(r) \/ SaveProxy(r) \/ PublishPlaced(r) \/ PublishAutoPlaced(r)
      BY <2>2 DEF SaveOwnProxy, SaveProxy, PublishPlaced, PublishAutoPlaced, Publish
    <2>. QED BY <2>1, <2>2
  <1>2. CASE EnterGuard(r)
    <2>1. Quiet
      <3> SUFFICES ASSUME NEW q \in Requests, InProgress(q) PROVE FALSE
        BY DEF Quiet
      <3>1. guard[req[q].replica] = q /\ req[q].replica \in Replicas /\ req[r].replica \in Replicas
        BY <1>0 DEF BooksBefore, AloneBefore, PlacementInv, RequestsOK, Local
      <3>2. guard[req[r].replica] = Free /\ Free \notin Requests
        BY <1>2 DEF EnterGuard, BooksBefore, AloneBefore, PlacementInv, RequestsOK
      <3>. QED BY <3>1, <3>2 DEF BooksBefore, AloneBefore, OneReplica
    <2>2. Settled
      BY <2>1 DEF BooksBefore, AloneBefore, BooksInv
    <2>3. PICK t : t = [req[r] EXCEPT !.pc = "read"]
      OBVIOUS
    <2>4. req' = [req EXCEPT ![r] = t]
      BY <1>2, <2>3 DEF EnterGuard
    <2>5. t.pc = "read" /\ ~At(r, "done")
      BY <1>0, <1>2, <2>3 DEF EnterGuard, At, Local
    <2>. QED BY <1>1, <2>2, <2>4, <2>5, BooksQuiet DEF Plain, Inside
  <1>3. CASE ~EnterGuard(r)
    <2>1. InProgress(r) /\ req[r].pc \in Plain
      BY <1>3 DEF ReadAuction, ReadWinner, ReadSession, SaveOwnProxy, SaveProxy, PublishPlaced,
         PublishAutoPlaced, ReadBoard, ReadContest, ReadAutoSession, At, InProgress, Inside, Plain
    <2>2. Settled /\ ~At(r, "done")
      BY <2>1, BooksHas
    <2> DEFINE Moves(pcs) == req' = [req EXCEPT ![r] = req'[r]] /\ req'[r].pc \in pcs
    <2>3. ASSUME NEW result, Answer(r, result)
          PROVE  Moves({"done"})
      BY <1>0, <2>3, AnswerKept DEF Answer, BooksBefore
    <2>4. ReadAuction(r) \/ ReadWinner(r) => Moves({"winner", "ownproxy", "session", "done"})
      BY <1>0, <2>3 DEF ReadAuction, ReadWinner, Local
    <2>5. ReadSession(r) \/ SaveOwnProxy(r) => Moves({"saveproxy", "release", "done"})
      BY <1>0, <2>3 DEF ReadSession, SaveOwnProxy, Local
    <2>6. SaveProxy(r) \/ PublishPlaced(r) \/ PublishAutoPlaced(r) =>
            Moves({"release", "placed", "done"})
      BY <1>0, <2>3 DEF SaveProxy, PublishPlaced, PublishAutoPlaced, Local
    <2>7. ReadBoard(r) => Moves({"contest", "placed"})
      BY <1>0 DEF ReadBoard, Local
    <2>8. ReadContest(r) => Moves({"autohold", "autosession", "placed"})
      BY <1>0 DEF ReadContest, Local
    <2>9. ReadAutoSession(r) => Moves({"autohold", "done"})
      BY <1>0, <2>3 DEF ReadAutoSession, Local
    <2>10. Moves(Plain \cup {"done"})
      BY <1>3, <2>4, <2>5, <2>6, <2>7, <2>8, <2>9 DEF Plain
    <2>11. PICK t : t = req'[r]
      OBVIOUS
    <2>. QED BY <1>1, <2>1, <2>2, <2>10, <2>11, BooksQuiet
  <1>. QED BY <1>2, <1>3

LEMMA MovedFields ==
  ASSUME NEW q \in Local, NEW pc, NEW t, t = [q EXCEPT !.pc = pc]
  PROVE  /\ t.pc = pc /\ t.bidder = q.bidder /\ t.prev = q.prev /\ t.accepted = q.accepted
         /\ t.after = q.after /\ t.top = q.top /\ t.cur = q.cur /\ t.target = q.target
         /\ t.row = q.row
  BY DEF Local

\* A step inside the mutex that moves the request on.
LEMMA BooksMove ==
  ASSUME NEW r, BooksBefore(r), InProgress(r), NEW pc, req' = [req EXCEPT ![r].pc = pc],
         NEW t, t = [req[r] EXCEPT !.pc = pc], Owes(r, t)', pc \in Inside
  PROVE  BooksInv'
  <1>1. req' = [req EXCEPT ![r] = t] /\ t.pc = pc
    BY AloneHas, MovedFields DEF BooksBefore
  <1>. QED BY <1>1, BooksStep

\* A bid that is not stored yet has a hold of its own.
LEMMA FreshHold ==
  ASSUME NEW r, AloneBefore(r), InProgress(r)
  PROVE  /\ req[r].pc \in BeforeInsert => Winning.hold # BidId(r)
         /\ req[r].pc \in BeforeAuto => Winning.hold # AutoId(r)
  <1>1. CASE bids = {}
    <2>1. Winning.hold = 0
      BY <1>1 DEF Winning, Best, NoBid
    <2>. QED BY <2>1, AloneHas DEF BidId, AutoId
  <1>2. CASE bids # {}
    <2>1. Winning \in bids
      BY <1>2, AloneHas, WinningTyped
    <2>. QED BY <2>1, AloneHas DEF FreshOK
  <1>. QED BY <1>1, <1>2

\* the hold of the bid being outbid is released: until the new bid is stored nobody is
\* covered
LEMMA BooksReleasing ==
  ASSUME NEW r, BooksBefore(r), ReleasePrevious(r)
  PROVE  BooksInv'
  <1>1. InProgress(r) /\ req[r].pc = "release"
    BY DEF ReleasePrevious, At, InProgress, Inside
  <1>2. /\ Settled /\ faults \in Nat /\ StoreOK /\ req[r] \in Local
        /\ req[r].prev = Winning /\ req[r].bidder # Winning.bidder
    BY <1>1, BooksHas, AloneHas DEF Plain, Knows, BooksBefore
  <1>3. Active' = Active \ {Winning.hold}
    <2>1. CASE Outbids(r)
      BY <1>2, <2>1, ReleaseActive DEF ReleasePrevious
    <2>2. CASE ~Outbids(r)
      <3>1. Winning.hold \notin Active
        BY <1>2, <2>2 DEF Outbids, NoBid, Active, StoreOK
      <3>2. holds' = holds
        BY <2>2 DEF ReleasePrevious
      <3>. QED BY <3>1, <3>2 DEF Active, IsActive
    <2>. QED BY <2>1, <2>2
  <1>4. PICK t : t = [req[r] EXCEPT !.pc = "hold"]
    OBVIOUS
  <1>5. t.pc = "hold"
    BY <1>2, <1>4, MovedFields
  <1>6. UNCHANGED <<listing, bids, job, outbox, faults>> /\ Winning' = Winning
    BY DEF ReleasePrevious, Winning
  <1>7. ~IsActive(Winning.hold)'
    BY <1>3, <1>6 DEF Active, IsActive
  <1>8. Counted(Uses(r, t))'
    <2>1. Stranded(Uses(r, t))' \in SUBSET Stranded({})
      BY <1>3, <1>5, <1>6 DEF Stranded, Uses
    <2>2. IsFiniteSet(Stranded({})) /\ Cardinality(Stranded({})) <= faults
      BY <1>2 DEF Settled, Counted
    <2>3. /\ IsFiniteSet(Stranded(Uses(r, t))')
          /\ Cardinality(Stranded(Uses(r, t))') <= faults
      BY <1>2, <2>1, <2>2, StillCounted
    <2>. QED BY <1>6, <2>3 DEF Counted
  <1>9. Owes(r, t)'
    BY <1>2, <1>5, <1>6, <1>7, <1>8 DEF Settled, Owes, RowsTell, Told
  <1>. QED BY <1>1, <1>4, <1>9, BooksMove DEF ReleasePrevious, Inside

\* the holds of a bid and of a counter-bid
LEMMA BooksHolding ==
  ASSUME NEW r, BooksBefore(r), HoldNew(r) \/ HoldAuto(r)
  PROVE  BooksInv'
  <1>1. InProgress(r)
    BY DEF HoldNew, HoldAuto, At, InProgress, Inside
  <1>2. /\ Owes(r, req[r]) /\ faults \in Nat /\ req[r] \in Local /\ ~At(r, "done")
    BY <1>1, BooksHas, AloneHas DEF BooksBefore
  <1>3. UNCHANGED <<listing, bids, job, outbox, faults>> /\ Winning' = Winning
    BY DEF HoldNew, HoldAuto, Winning
  <1>4. CASE HoldNew(r)
    <2>1. req[r].pc = "hold" /\ Winning.hold # BidId(r)
      BY <1>1, <1>4, FreshHold DEF HoldNew, At, BeforeInsert, BooksBefore
    <2>2. PICK b, amount, end :
            b = req[r].bidder /\ amount = req[r].accepted /\ end = req[r].after.end
      OBVIOUS
    <2>3. PICK id : id = BidId(r)
      OBVIOUS
    <2>4. Active' = Active \cup {id} /\ Held(id, NewHold(b, amount, end))'
      BY <1>4, <2>2, <2>3, HoldActive DEF HoldNew
    <2>5. PICK t : t = [req[r] EXCEPT !.pc = "insert"]
      OBVIOUS
    <2>6. t.pc = "insert" /\ t.bidder = b /\ t.accepted = amount /\ t.after.end = end
      BY <1>2, <2>2, <2>5, MovedFields
    <2>7. ~IsActive(Winning.hold)'
      BY <1>2, <1>3, <2>1, <2>3, <2>4 DEF Owes, Active, IsActive
    <2>8. Counted(Uses(r, t))'
      <3>1. Stranded(Uses(r, t))' \in SUBSET Stranded(Uses(r, req[r]))
        BY <1>3, <2>1, <2>3, <2>4, <2>6 DEF Stranded, Uses, BidId
      <3>. QED BY <1>2, <1>3, <3>1, StillCounted DEF Owes, Counted
    <2>9. Held(BidId(r), NewHold(t.bidder, t.accepted, t.after.end))'
      BY <2>3, <2>4, <2>6 DEF BidId
    <2>10. Owes(r, t)'
      BY <1>2, <1>3, <2>1, <2>6, <2>7, <2>8, <2>9 DEF Owes, RowsTell, Told, TellsOf, Ahead
    <2>. QED BY <1>1, <1>4, <2>5, <2>10, BooksMove DEF HoldNew, Inside
  <1>5. CASE HoldAuto(r)
    <2>1. req[r].pc = "autohold" /\ Winning.hold # AutoId(r)
      BY <1>1, <1>5, FreshHold DEF HoldAuto, At, BeforeAuto, BooksBefore
    <2>2. PICK b, amount, end :
            b = req[r].top /\ amount = req[r].target /\ end = req[r].after.end
      OBVIOUS
    <2>3. PICK id : id = AutoId(r)
      OBVIOUS
    <2>4. /\ Active' = Active \cup {id} /\ Held(id, NewHold(b, amount, end))'
          /\ \A i \in DOMAIN holds : i # id => i \in DOMAIN holds' /\ holds'[i] = holds[i]
      BY <1>5, <2>2, <2>3, HoldActive DEF HoldAuto
    <2>5. PICK t : t = [req[r] EXCEPT !.pc = "autowrite"]
      OBVIOUS
    <2>6. t.pc = "autowrite" /\ t.top = b /\ t.target = amount /\ t.after.end = end
      BY <1>2, <2>2, <2>5, MovedFields
    <2>7. Covered'
      <3>1. Funded(Winning) => Funded(Winning)'
        BY <1>3, <2>1, <2>3, <2>4 DEF Funded, IsActive
      <3>2. Covered /\ \A q \in Requests \ {r} : req'[q] = req[q]
        BY <1>2, <1>5, <2>1 DEF Owes, HoldAuto, BooksBefore, AloneBefore, PlacementInv, RequestsOK
      <3>. QED BY <1>2, <1>3, <3>1, <3>2, CoveredKept DEF BooksBefore
    <2>8. Counted(Uses(r, t))'
      <3>1. Stranded(Uses(r, t))' \in SUBSET Stranded(Uses(r, req[r]))
        BY <1>3, <2>1, <2>3, <2>4, <2>6 DEF Stranded, Uses, AutoId
      <3>. QED BY <1>2, <1>3, <3>1, StillCounted DEF Owes, Counted
    <2>9. Held(AutoId(r), NewHold(t.top, t.target, t.after.end))'
      BY <2>3, <2>4, <2>6 DEF AutoId
    <2>10. Owes(r, t)'
      BY <1>2, <1>3, <2>1, <2>6, <2>7, <2>8, <2>9 DEF Owes, RowsTell, Told, TellsOf, Ahead
    <2>. QED BY <1>1, <1>5, <2>5, <2>10, BooksMove DEF HoldAuto, Inside
  <1>. QED BY <1>4, <1>5

\* the insert of a bid, and the insert or the raise of a counter-bid: the new leader is
\* funded by the hold just taken
LEMMA BooksStoring ==
  ASSUME NEW r, BooksBefore(r), InsertNew(r) \/ WriteAuto(r)
  PROVE  BooksInv'
  <1>1. InProgress(r)
    BY DEF InsertNew, WriteAuto, At, InProgress, Inside
  <1>2. /\ Owes(r, req[r]) /\ faults \in Nat /\ req[r] \in Local /\ Knows(r, req[r]) /\ StoreOK
        /\ req[r].accepted \in Nat /\ req[r].target \in Nat /\ listing.end \in Nat
        /\ req[r].after.end \in Nat /\ Winning \in AnyBid
    BY <1>1, BooksHas, AloneHas DEF BooksBefore, Local, Row, Price
  <1>3. UNCHANGED <<listing, holds, job, outbox, faults>>
    BY DEF InsertNew, WriteAuto
  <1>4. ASSUME NEW b, NEW amount \in Nat, NEW end \in Nat, NEW x,
               Held(x.hold, NewHold(b, amount, end)),
               x.bidder = b, x.amount = amount, listing.end <= end, Winning' = x
        PROVE  Covered' /\ IsActive(x.hold)
    <2>1. holds[x.hold] = NewHold(b, amount, end) /\ x.hold \in DOMAIN holds
      BY <1>4 DEF Held
    <2>2. IsActive(x.hold) /\ holds[x.hold].bidder = b /\ holds[x.hold].amount = Rupiah(amount)
          /\ holds[x.hold].expires = end + HoldGrace
      BY <2>1 DEF NewHold, IsActive
    <2>3. Funded(x)
      BY <1>2, <1>4, <2>2, RupiahCovers, StoreAssumption DEF Funded
    <2>4. Funded(Winning)'
      BY <1>3, <1>4, <2>3 DEF Funded, IsActive
    <2>. QED BY <2>2, <2>4 DEF Covered
  <1>5. CASE InsertNew(r)
    <2>1. req[r].pc = "insert"
      BY <1>5 DEF InsertNew, At
    <2>2. /\ Winning'.hold = BidId(r) /\ Winning'.amount = req[r].accepted
          /\ Winning'.bidder = req[r].bidder /\ bids' = bids \cup {Winning'}
      BY <1>5, InsertWins DEF BooksBefore
    <2>3. /\ req[r].prev = Winning /\ listing.end <= req[r].after.end
          /\ req[r].bidder # Winning.bidder
      BY <1>2, <2>1 DEF Knows
    <2>4. PICK t : t = [req[r] EXCEPT !.pc = "outbid"]
      OBVIOUS
    <2>5. /\ t.pc = "outbid" /\ t.bidder = req[r].bidder /\ t.accepted = req[r].accepted
          /\ t.after = req[r].after /\ t.prev = req[r].prev
      BY <1>2, <2>4, MovedFields
    <2>6. Held(BidId(r), NewHold(req[r].bidder, req[r].accepted, req[r].after.end))
      BY <1>2, <2>1 DEF Owes
    <2>7. Covered'
      BY <1>2, <1>4, <2>2, <2>3, <2>6
    <2>8. Held(BidId(r), NewHold(t.bidder, t.accepted, t.after.end))'
      BY <1>3, <2>5, <2>6 DEF Held
    <2>9. ASSUME faults' = 0, NEW x \in bids' \ {Winning'}
          PROVE  Told(x)' \/ TellsOf(t, x)
      <3>1. x \in bids
        BY <2>2, <2>9
      <3>2. CASE x = Winning
        <4>1. Winning # NoBid
          BY <1>2, <3>1, <3>2 DEF StoreOK, BidRow, NoBid
        <4>. QED BY <2>3, <2>5, <3>2, <4>1 DEF TellsOf
      <3>3. CASE x # Winning
        BY <1>2, <1>3, <2>1, <2>9, <3>1, <3>3 DEF Owes, Told, TellsOf
      <3>. QED BY <3>2, <3>3
    <2>10. Counted(Uses(r, t))'
      <3>1. Winning.hold \notin Active
        BY <1>2, <2>1 DEF Owes, Active
      <3>2. Stranded(Uses(r, t))' \in SUBSET Stranded(Uses(r, req[r]))
        BY <1>3, <2>1, <2>2, <2>5, <3>1 DEF Stranded, Uses, Active, IsActive
      <3>. QED BY <1>2, <1>3, <3>2, StillCounted DEF Owes, Counted
    <2>11. Owes(r, t)'
      BY <2>5, <2>7, <2>8, <2>9, <2>10 DEF Owes, Ahead, TellsOf
    <2>. QED BY <1>1, <1>5, <2>4, <2>11, BooksMove DEF InsertNew, Inside
  <1>6. CASE WriteAuto(r)
    <2>1. req[r].pc = "autowrite"
      BY <1>6 DEF WriteAuto, At
    <2>2. /\ req' = [req EXCEPT ![r].pc = "autorelease"]
          /\ Winning' = AutoRow(r)
          /\ bids' = (IF RaisesOwn(r) THEN bids \ {Winning} ELSE bids) \cup {AutoRow(r)}
          /\ req[r].cur = Winning
      BY <1>6, WriteWins DEF BooksBefore
    <2>3. PICK row : row = AutoRow(r)
      OBVIOUS
    <2>4. /\ row.hold = AutoId(r) /\ row.bidder = req[r].top /\ row.amount = req[r].target
          /\ listing.end <= req[r].after.end
      BY <1>2, <2>1, <2>3 DEF AutoRow, Knows
    <2>5. PICK t : t = [req[r] EXCEPT !.pc = "autorelease"]
      OBVIOUS
    <2>6. /\ t.pc = "autorelease" /\ t.top = req[r].top /\ t.target = req[r].target
          /\ t.after = req[r].after /\ t.cur = Winning
      BY <1>2, <2>2, <2>5, MovedFields
    <2>7. Held(AutoId(r), NewHold(req[r].top, req[r].target, req[r].after.end))
      BY <1>2, <2>1 DEF Owes
    <2>8. Covered'
      BY <1>2, <1>4, <2>2, <2>3, <2>4, <2>7
    <2>9. Held(AutoId(r), NewHold(t.top, t.target, t.after.end))'
      BY <1>3, <2>6, <2>7 DEF Held
    <2>10. ASSUME faults' = 0, NEW x \in bids' \ {Winning'}
           PROVE  Told(x)' \/ TellsOf(t, x)
      <3>1. x \in bids /\ (RaisesOwn(r) => x # Winning)
        BY <2>2, <2>10
      <3>2. CASE x = Winning
        BY <2>2, <2>6, <3>1, <3>2 DEF TellsOf, RaisesOwn
      <3>3. CASE x # Winning
        BY <1>2, <1>3, <2>1, <2>10, <3>1, <3>3 DEF Owes, Told, TellsOf
      <3>. QED BY <3>2, <3>3
    <2>11. Counted(Uses(r, t))'
      <3>1. Stranded(Uses(r, t))' \in SUBSET Stranded(Uses(r, req[r]))
        BY <1>3, <2>1, <2>2, <2>3, <2>4, <2>6 DEF Stranded, Uses, Active, IsActive
      <3>. QED BY <1>2, <1>3, <3>1, StillCounted DEF Owes, Counted
    <2>12. Owes(r, t)'
      BY <2>6, <2>8, <2>9, <2>10, <2>11 DEF Owes, Ahead, TellsOf
    <2>. QED BY <1>1, <2>2, <2>5, <2>12, BooksMove DEF Inside
  <1>. QED BY <1>5, <1>6

\* the events that tell the bidder who has lost the lead
LEMMA BooksTelling ==
  ASSUME NEW r, BooksBefore(r), PublishOutbid(r) \/ PublishAutoOutbid(r)
  PROVE  BooksInv'
  <1>1. InProgress(r)
    BY DEF PublishOutbid, PublishAutoOutbid, At, InProgress, Inside
  <1>2. /\ Owes(r, req[r]) /\ faults \in Nat /\ req[r] \in Local /\ ~At(r, "done")
        /\ req \in [Requests -> Local]
    BY <1>1, BooksHas, AloneHas DEF BooksBefore, AloneBefore, PlacementInv, RequestsOK
  <1>3. UNCHANGED <<listing, bids, holds, job, faults>> /\ Winning' = Winning
    BY DEF PublishOutbid, PublishAutoOutbid, Winning
  <1>4. ASSUME NEW pc \in {"update", "autoupdate"}, req' = [req EXCEPT ![r].pc = pc],
               req[r].pc = IF pc = "update" THEN "outbid" ELSE "autooutbid",
               outbox \subseteq outbox', \A x \in bids : TellsOf(req[r], x) => Told(x)'
        PROVE  BooksInv'
    <2>1. PICK t : t = [req[r] EXCEPT !.pc = pc]
      OBVIOUS
    <2>2. /\ t.pc = pc /\ t.bidder = req[r].bidder /\ t.accepted = req[r].accepted
          /\ t.after = req[r].after /\ t.top = req[r].top /\ t.target = req[r].target
      BY <1>2, <2>1, MovedFields
    <2>3. Covered'
      <3>1. Covered /\ \A q \in Requests \ {r} : req'[q] = req[q]
        BY <1>2, <1>4 DEF Owes
      <3>2. Funded(Winning) => Funded(Winning)'
        BY <1>3 DEF Funded, IsActive
      <3>. QED BY <1>2, <1>3, <3>1, <3>2, CoveredKept DEF BooksBefore
    <2>4. Counted(Uses(r, t))'
      <3>1. Stranded(Uses(r, t))' \in SUBSET Stranded(Uses(r, req[r]))
        BY <1>3, <1>4, <2>2 DEF Stranded, Uses, Active, IsActive
      <3>. QED BY <1>2, <1>3, <3>1, StillCounted DEF Owes, Counted
    <2>5. faults' = 0 => \A x \in bids' \ {Winning'} : Told(x)'
      BY <1>2, <1>3, <1>4 DEF Owes, Told
    <2>6. /\ pc = "update" => Held(BidId(r), NewHold(t.bidder, t.accepted, t.after.end))'
          /\ pc = "autoupdate" => Held(AutoId(r), NewHold(t.top, t.target, t.after.end))'
      BY <1>2, <1>3, <1>4, <2>2 DEF Owes, Held
    <2>7. Owes(r, t)'
      BY <1>4, <2>2, <2>3, <2>4, <2>5, <2>6 DEF Owes, Ahead
    <2>. QED BY <1>1, <1>4, <2>1, <2>7, BooksMove DEF Inside
  <1>5. CASE PublishOutbid(r)
    <2>1. \A x \in bids : TellsOf(req[r], x) => Told(x)'
      BY <1>5 DEF PublishOutbid, At, TellsOf, Told, Publish, Outbids
    <2>. QED BY <1>4, <1>5, <2>1 DEF PublishOutbid, Publish, At
  <1>6. CASE PublishAutoOutbid(r)
    <2>1. \A x \in bids : TellsOf(req[r], x) => Told(x)'
      BY <1>6 DEF PublishAutoOutbid, At, TellsOf, Told, Publish, RaisesOwn
    <2>. QED BY <1>4, <1>6, <2>1 DEF PublishAutoOutbid, Publish, At
  <1>. QED BY <1>5, <1>6

\* the hold of the bid a counter-bid has replaced
LEMMA BooksReplacing ==
  ASSUME NEW r, BooksBefore(r), ReleaseReplaced(r)
  PROVE  BooksInv'
  <1>1. InProgress(r) /\ req[r].pc = "autorelease"
    BY DEF ReleaseReplaced, At, InProgress, Inside
  <1>2. /\ Owes(r, req[r]) /\ faults \in Nat /\ req[r] \in Local /\ ~At(r, "done") /\ StoreOK
        /\ req \in [Requests -> Local]
        /\ Winning.hold = AutoId(r) /\ req[r].cur.hold # AutoId(r)
    BY <1>1, BooksHas, AloneHas DEF BooksBefore, AloneBefore, PlacementInv, RequestsOK, Knows
  <1>3. UNCHANGED <<listing, bids, job, outbox, faults>> /\ Winning' = Winning
    BY DEF ReleaseReplaced, Winning
  <1>4. PICK id : id = req[r].cur.hold
    OBVIOUS
  <1>5. /\ Active' = Active \ {id}
        /\ \A i \in DOMAIN holds : i # id => i \in DOMAIN holds' /\ holds'[i] = holds[i]
    BY <1>2, <1>4, ReleaseActive DEF ReleaseReplaced
  <1>6. PICK t : t = [req[r] EXCEPT !.pc = "autooutbid"]
    OBVIOUS
  <1>7. /\ t.pc = "autooutbid" /\ t.top = req[r].top /\ t.target = req[r].target
        /\ t.after = req[r].after /\ t.cur = req[r].cur
    BY <1>2, <1>6, MovedFields
  <1>8. Covered'
    <2>1. Covered /\ \A q \in Requests \ {r} : req'[q] = req[q]
      BY <1>1, <1>2 DEF Owes, ReleaseReplaced
    <2>2. Funded(Winning) => Funded(Winning)'
      BY <1>2, <1>3, <1>4, <1>5 DEF Funded, IsActive
    <2>. QED BY <1>2, <1>3, <2>1, <2>2, CoveredKept DEF BooksBefore
  <1>9. Counted(Uses(r, t))'
    <2>1. Stranded(Uses(r, t))' \in SUBSET Stranded(Uses(r, req[r]))
      BY <1>1, <1>3, <1>4, <1>5, <1>7 DEF Stranded, Uses
    <2>. QED BY <1>2, <1>3, <2>1, StillCounted DEF Owes, Counted
  <1>10. Held(AutoId(r), NewHold(t.top, t.target, t.after.end))'
    BY <1>1, <1>2, <1>4, <1>5, <1>7 DEF Owes, Held
  <1>11. \A x : TellsOf(req[r], x) <=> TellsOf(t, x)
    BY <1>1, <1>7 DEF TellsOf
  <1>12. Owes(r, t)'
    BY <1>2, <1>3, <1>7, <1>8, <1>9, <1>10, <1>11 DEF Owes, Ahead, Told, TellsOf
  <1>. QED BY <1>1, <1>6, <1>12, BooksMove DEF ReleaseReplaced, Inside

\* the UPDATEs of the auction's row: the hold outlives the new end
LEMMA BooksUpdating ==
  ASSUME NEW r, BooksBefore(r), UpdateListing(r) \/ UpdateListingAuto(r)
  PROVE  BooksInv'
  <1>1. InProgress(r)
    BY DEF UpdateListing, UpdateListingAuto, At, InProgress, Inside
  <1>2. /\ Owes(r, req[r]) /\ faults \in Nat /\ req[r] \in Local /\ ~At(r, "done") /\ StoreOK
        /\ req \in [Requests -> Local] /\ Knows(r, req[r]) /\ listing.end \in Nat
        /\ req[r].after.end \in Nat
    BY <1>1, BooksHas, AloneHas
    DEF BooksBefore, AloneBefore, PlacementInv, RequestsOK, Local, Row, Price
  <1>3. UNCHANGED <<bids, holds, job, outbox, faults>> /\ Winning' = Winning
    BY DEF UpdateListing, UpdateListingAuto, Winning
  <1>4. ASSUME NEW row, NEW pc \in {"job", "autojob"}, req' = [req EXCEPT ![r].pc = pc, ![r].row = row],
               req[r].pc = IF pc = "job" THEN "update" ELSE "autoupdate",
               listing'.end = req[r].after.end,
               Winning.hold = IF pc = "job" THEN BidId(r) ELSE AutoId(r)
        PROVE  BooksInv'
    <2>1. PICK t : t = [req[r] EXCEPT !.pc = pc, !.row = row]
      OBVIOUS
    <2>2. t.pc = pc /\ req' = [req EXCEPT ![r] = t]
      BY <1>2, <1>4, <2>1 DEF Local
    <2>3. Covered'
      <3>1. Covered /\ \A q \in Requests \ {r} : req'[q] = req[q]
        BY <1>2, <1>4 DEF Owes
      <3>2. holds[Winning.hold].expires = req[r].after.end + HoldGrace
        BY <1>2, <1>4 DEF Owes, Held, NewHold
      <3>3. Funded(Winning) => Funded(Winning)'
        BY <1>2, <1>3, <1>4, <3>2, StoreAssumption DEF Funded, IsActive
      <3>. QED BY <1>2, <1>3, <3>1, <3>3, CoveredKept DEF BooksBefore
    <2>4. Counted(Uses(r, t))'
      <3>1. Stranded(Uses(r, t))' \in SUBSET Stranded(Uses(r, req[r]))
        BY <1>3, <1>4, <2>2 DEF Stranded, Uses, Active, IsActive
      <3>. QED BY <1>2, <1>3, <3>1, StillCounted DEF Owes, Counted
    <2>5. faults' = 0 => \A x \in bids' \ {Winning'} : Told(x)'
      BY <1>2, <1>3, <1>4 DEF Owes, Told, TellsOf
    <2>6. Owes(r, t)'
      BY <1>4, <2>2, <2>3, <2>4, <2>5 DEF Owes, Ahead
    <2>. QED BY <1>1, <1>4, <2>2, <2>6, BooksStep DEF Inside
  <1>5. CASE UpdateListing(r)
    <2>1. /\ Winning.hold = BidId(r) /\ listing.highest < req[r].accepted /\ req[r].pc = "update"
      BY <1>2, <1>5 DEF UpdateListing, At, Knows
    <2>2. /\ listing'.end = req[r].after.end
          /\ req' = [req EXCEPT ![r].pc = "job", ![r].row = listing']
      BY <1>5, <2>1 DEF UpdateListing
    <2>3. PICK row : row = listing'
      OBVIOUS
    <2>. QED BY <1>4, <2>1, <2>2, <2>3
  <1>6. CASE UpdateListingAuto(r)
    <2>1. /\ Winning.hold = AutoId(r) /\ listing.highest < req[r].target
          /\ req[r].after.end >= listing.end /\ req[r].pc = "autoupdate"
      BY <1>2, <1>6 DEF UpdateListingAuto, At, Knows
    <2>2. /\ listing'.end = req[r].after.end
          /\ req' = [req EXCEPT ![r].pc = "autojob", ![r].row = listing']
      BY <1>2, <1>6, <2>1 DEF UpdateListingAuto
    <2>3. PICK row : row = listing'
      OBVIOUS
    <2>. QED BY <1>4, <2>1, <2>2, <2>3
  <1>. QED BY <1>5, <1>6

LEMMA BooksScheduling ==
  ASSUME NEW r, BooksBefore(r), Reschedule(r) \/ RescheduleAuto(r)
  PROVE  BooksInv'
  <1>1. InProgress(r)
    BY DEF Reschedule, RescheduleAuto, At, InProgress, Inside
  <1>2. /\ Owes(r, req[r]) /\ faults \in Nat /\ req[r] \in Local /\ ~At(r, "done")
        /\ req \in [Requests -> Local] /\ Knows(r, req[r])
        /\ job \in [status : JobStatuses, due : Nat, lockedUntil : Nat]
    BY <1>1, BooksHas, AloneHas
    DEF BooksBefore, AloneBefore, PlacementInv, RequestsOK, StoreOK
  <1>3. UNCHANGED <<listing, bids, holds, outbox, faults>> /\ Winning' = Winning
    BY DEF Reschedule, RescheduleAuto, Winning
  <1>4. ASSUME NEW pc \in {"board", "autoplaced"}, req' = [req EXCEPT ![r].pc = pc],
               req[r].pc \in {"job", "autojob"}
        PROVE  BooksInv'
    <2>1. PICK t : t = [req[r] EXCEPT !.pc = pc]
      OBVIOUS
    <2>2. t.pc = pc
      BY <1>2, <2>1, MovedFields
    <2>3. Covered'
      <3>1. Covered /\ \A q \in Requests \ {r} : req'[q] = req[q]
        BY <1>2, <1>4 DEF Owes
      <3>2. Funded(Winning) => Funded(Winning)'
        BY <1>3 DEF Funded, IsActive
      <3>. QED BY <1>2, <1>3, <3>1, <3>2, CoveredKept DEF BooksBefore
    <2>4. Counted({})'
      <3>1. Stranded({})' \in SUBSET Stranded(Uses(r, req[r]))
        BY <1>3, <1>4 DEF Stranded, Uses, Active, IsActive
      <3>. QED BY <1>2, <1>3, <3>1, StillCounted DEF Owes, Counted
    <2>5. RowsTell'
      BY <1>2, <1>3, <1>4 DEF Reschedule, RescheduleAuto, UpsertPending, Knows, RowsTell
    <2>6. faults' = 0 => \A x \in bids' \ {Winning'} : Told(x)'
      BY <1>2, <1>3, <1>4 DEF Owes, Told, TellsOf
    <2>7. Settled'
      BY <2>3, <2>4, <2>5, <2>6 DEF Settled
    <2>8. Owes(r, t)'
      BY <1>4, <2>2, <2>7, PlainOwes DEF Plain
    <2>. QED BY <1>1, <1>4, <2>1, <2>8, BooksMove DEF Inside
  <1>. QED BY <1>4 DEF Reschedule, RescheduleAuto, At

\* A request that ends by giving a hold back: nothing is stranded by it.
LEMMA BooksGivingBack ==
  ASSUME NEW r, BooksBefore(r), UndoHold(r) \/ UndoAutoHold(r)
  PROVE  BooksInv'
  <1>1. InProgress(r)
    BY DEF UndoHold, UndoAutoHold, At, InProgress, Inside
  <1>2. /\ Owes(r, req[r]) /\ faults \in Nat /\ ~At(r, "done") /\ StoreOK /\ Knows(r, req[r])
    BY <1>1, BooksHas, AloneHas DEF BooksBefore
  <1>3. UNCHANGED <<listing, bids, job, outbox, faults>> /\ Winning' = Winning
    BY DEF UndoHold, UndoAutoHold, Winning
  <1>4. req[r].pc = "autoundo" => ~RaisesOwn(r)
    BY <1>2 DEF Knows, RaisesOwn
  <1>5. Answer(r, "Error")
    BY <1>4 DEF UndoHold, UndoAutoHold, At
  <1>6. PICK id : id = IF req[r].pc = "undo" THEN BidId(r) ELSE AutoId(r)
    OBVIOUS
  <1>7. ReleaseHold(id) /\ req[r].pc \in {"undo", "autoundo"}
    BY <1>6 DEF UndoHold, UndoAutoHold, At
  <1>8. /\ Active' = Active \ {id}
        /\ \A i \in DOMAIN holds : i # id => i \in DOMAIN holds' /\ holds'[i] = holds[i]
    BY <1>2, <1>7, ReleaseActive
  <1>9. Covered'
    <2>1. CASE req[r].pc = "undo"
      BY <1>1, <1>3, <1>5, <2>1, FailureCovers DEF BooksBefore
    <2>2. CASE req[r].pc = "autoundo"
      <3>1. Covered /\ Winning.hold # id
        BY <1>2, <1>6, <2>2 DEF Owes
      <3>2. Funded(Winning) => Funded(Winning)'
        BY <1>3, <1>8, <3>1 DEF Funded, IsActive
      <3>3. \A q \in Requests \ {r} : req'[q] = req[q]
        BY <1>5, AnswerKept DEF BooksBefore
      <3>. QED BY <1>2, <1>3, <3>1, <3>2, <3>3, CoveredKept DEF BooksBefore
    <2>. QED BY <1>7, <2>1, <2>2
  <1>10. Counted({})'
    <2>1. Stranded({})' \in SUBSET Stranded(Uses(r, req[r]))
      BY <1>3, <1>6, <1>7, <1>8 DEF Stranded, Uses
    <2>. QED BY <1>2, <1>3, <2>1, StillCounted DEF Owes, Counted
  <1>11. Settled'
    BY <1>2, <1>3, <1>7, <1>9, <1>10 DEF Owes, Settled, RowsTell, Told, TellsOf, Ahead
  <1>. QED BY <1>1, <1>5, <1>11, BooksAnswer

\* Every fault accounts for at most one hold that is left behind.
LEMMA BooksFailing ==
  ASSUME NEW r, BooksBefore(r), InProgress(r), faults' = faults + 1, Answer(r, "Error"),
         UNCHANGED <<listing, bids, job, outbox>>,
         NEW x, Stranded({})' \in SUBSET (Stranded(Uses(r, req[r])) \cup {x}),
         req[r].pc \in {"release", "hold", "insert", "undo"}
           \/ (Funded(Winning) => Funded(Winning)')
  PROVE  BooksInv'
  <1>1. Owes(r, req[r]) /\ faults \in Nat /\ ~At(r, "done") /\ Winning' = Winning
    BY BooksHas DEF Winning
  <1>2. Covered'
    <2>1. CASE req[r].pc \in {"release", "hold", "insert", "undo"}
      BY <1>1, <2>1, FailureCovers DEF BooksBefore
    <2>2. CASE req[r].pc \notin {"release", "hold", "insert", "undo"}
      <3>1. Covered
        BY <1>1, <2>2 DEF Owes
      <3>2. \A q \in Requests \ {r} : req'[q] = req[q]
        BY AnswerKept DEF BooksBefore
      <3>. QED BY <1>1, <2>2, <3>1, <3>2, CoveredKept DEF BooksBefore
    <2>. QED BY <2>1, <2>2
  <1>3. Counted({})'
    BY <1>1, OneMoreCounted DEF Owes, Counted
  <1>4. Settled'
    BY <1>1, <1>2, <1>3 DEF Settled
  <1>. QED BY <1>4, BooksAnswer

LEMMA BooksEnding ==
  ASSUME NEW r, BooksBefore(r), EarlyEnd(r)
  PROVE  BooksInv'
  <1>1. InProgress(r)
    BY DEF EarlyEnd, WalletRefuses, GivesUp, WalletTimesOut, At, InProgress, Inside
  <1>2. /\ Owes(r, req[r]) /\ faults \in Nat /\ req[r] \in Local /\ ~At(r, "done") /\ StoreOK
        /\ Knows(r, req[r]) /\ req \in [Requests -> Local]
    BY <1>1, BooksHas, AloneHas DEF BooksBefore, AloneBefore, PlacementInv, RequestsOK
  <1>3. UNCHANGED <<listing, bids, job, outbox>> /\ Winning' = Winning
    BY DEF EarlyEnd, WalletRefuses, GivesUp, WalletTimesOut, storeVars, Winning
  <1>4. PICK x : Uses(r, req[r]) \subseteq {x}
    BY DEF Uses
  <1>5. CASE WalletRefuses(r)
    <2>1. Answer(r, "Error") /\ UNCHANGED <<holds, faults>> /\ req[r].pc \in {"hold", "autohold"}
      BY <1>5 DEF WalletRefuses, storeVars
    <2>2. CASE req[r].pc = "autohold"
      <3>1. Settled
        BY <1>1, <2>2, BooksHas DEF Plain
      <3>. QED BY <1>1, <1>3, <2>1, <3>1, BooksQuietAnswer
    <2>3. CASE req[r].pc = "hold"
      <3>1. Covered'
        BY <1>1, <1>3, <2>1, <2>3, FailureCovers DEF BooksBefore
      <3>2. Counted({})'
        <4>1. Stranded({})' \in SUBSET Stranded(Uses(r, req[r]))
          BY <1>3, <2>1, <2>3 DEF Stranded, Uses, Active, IsActive
        <4>. QED BY <1>2, <2>1, <4>1, StillCounted DEF Owes, Counted
      <3>3. Settled'
        BY <1>2, <1>3, <2>1, <2>3, <3>1, <3>2 DEF Owes, Settled, RowsTell, Told, TellsOf, Ahead
      <3>. QED BY <1>1, <2>1, <3>3, BooksAnswer
    <2>. QED BY <2>1, <2>2, <2>3
  <1>6. CASE GivesUp(r)
    <2>1. faults' = faults + 1 /\ holds' = holds
      BY <1>6 DEF GivesUp, storeVars
    <2>2. Funded(Winning) => Funded(Winning)'
      BY <1>3, <2>1 DEF Funded, IsActive
    <2>3. CASE Answer(r, "Error")
      <3>1. Stranded({})' \in SUBSET (Stranded(Uses(r, req[r])) \cup {x})
        BY <1>3, <1>4, <2>1 DEF Stranded, Active, IsActive
      <3>. QED BY <1>1, <1>3, <2>1, <2>2, <2>3, <3>1, BooksFailing
    <2>4. ASSUME NEW pc \in {"undo", "autoundo"}, req' = [req EXCEPT ![r].pc = pc],
                 req[r].pc = IF pc = "undo" THEN "insert" ELSE "autowrite"
          PROVE  BooksInv'
      <3>1. PICK t : t = [req[r] EXCEPT !.pc = pc]
        OBVIOUS
      <3>2. t.pc = pc
        BY <1>2, <3>1, MovedFields
      <3>3. pc = "undo" => ~IsActive(Winning.hold)'
        BY <1>2, <1>3, <2>1, <2>4 DEF Owes, IsActive
      <3>4. pc = "autoundo" => Winning.hold # AutoId(r)
        BY <1>1, <2>4, FreshHold DEF BeforeAuto, BooksBefore
      <3>5. pc = "undo" \/ Covered'
        <4>1. pc = "undo" \/ Covered
          BY <1>2, <2>4 DEF Owes
        <4>2. \A q \in Requests \ {r} : req'[q] = req[q]
          BY <1>2, <2>4
        <4>. QED BY <1>2, <1>3, <2>2, <4>1, <4>2, CoveredKept DEF BooksBefore
      <3>6. Counted(Uses(r, t))'
        <4>1. Stranded(Uses(r, t))' \in SUBSET Stranded(Uses(r, req[r]))
          BY <1>3, <2>1, <2>4, <3>2 DEF Stranded, Uses, Active, IsActive
        <4>. QED BY <1>2, <2>1, <4>1, StillCounted DEF Owes, Counted
      <3>7. Owes(r, t)'
        BY <1>2, <1>3, <2>1, <2>4, <3>2, <3>3, <3>4, <3>5, <3>6 DEF Owes, AutoId
      <3>. QED BY <1>1, <2>4, <3>1, <3>7, BooksMove DEF Inside
    <2>5. /\ ~(At(r, "autoundo") /\ RaisesOwn(r))
          /\ ~At(r, "autodrop") /\ ~At(r, "autodelete")
      BY <1>2 DEF At, RaisesOwn, Knows
    <2>. QED BY <1>6, <2>3, <2>4, <2>5 DEF GivesUp, At
  <1>7. CASE WalletTimesOut(r)
    <2>1. faults' = faults + 1 /\ Answer(r, "Error")
      BY <1>7 DEF WalletTimesOut
    <2>2. CASE At(r, "release") /\ ReleaseHold(req[r].prev.hold)
      <3>1. PICK id : id = req[r].prev.hold
        OBVIOUS
      <3>2. Active' = Active \ {id}
        BY <1>2, <2>2, <3>1, ReleaseActive
      <3>3. Stranded({})' \in SUBSET (Stranded(Uses(r, req[r])) \cup {id})
        BY <1>3, <2>2, <3>2 DEF Stranded, Uses, At
      <3>. QED BY <1>1, <1>3, <2>1, <2>2, <3>3, BooksFailing DEF At
    <2>3. CASE /\ At(r, "hold")
               /\ HoldFunds(BidId(r), NewHold(req[r].bidder, req[r].accepted, req[r].after.end))
      <3>1. PICK b, amount, end :
              b = req[r].bidder /\ amount = req[r].accepted /\ end = req[r].after.end
        OBVIOUS
      <3>2. PICK id : id = BidId(r)
        OBVIOUS
      <3>3. Active' = Active \cup {id}
        BY <2>3, <3>1, <3>2, HoldActive
      <3>4. Stranded({})' \in SUBSET (Stranded(Uses(r, req[r])) \cup {id})
        BY <1>3, <2>3, <3>3 DEF Stranded, Uses, At
      <3>. QED BY <1>1, <1>3, <2>1, <2>3, <3>4, BooksFailing DEF At
    <2>4. CASE /\ At(r, "autohold")
               /\ HoldFunds(AutoId(r), NewHold(req[r].top, req[r].target, req[r].after.end))
      <3>1. PICK b, amount, end :
              b = req[r].top /\ amount = req[r].target /\ end = req[r].after.end
        OBVIOUS
      <3>2. PICK id : id = AutoId(r)
        OBVIOUS
      <3>3. /\ Active' = Active \cup {id}
            /\ \A i \in DOMAIN holds : i # id => i \in DOMAIN holds' /\ holds'[i] = holds[i]
        BY <2>4, <3>1, <3>2, HoldActive
      <3>4. Stranded({})' \in SUBSET (Stranded(Uses(r, req[r])) \cup {id})
        BY <1>3, <2>4, <3>3 DEF Stranded, Uses, At
      <3>5. Winning.hold # id
        BY <1>1, <2>4, <3>2, FreshHold DEF At, BeforeAuto, BooksBefore
      <3>6. Funded(Winning) => Funded(Winning)'
        BY <1>3, <3>3, <3>5 DEF Funded, IsActive
      <3>. QED BY <1>1, <1>3, <2>1, <3>4, <3>6, BooksFailing
    <2>5. CASE At(r, "autorelease") /\ ReleaseHold(req[r].cur.hold)
      <3>1. PICK id : id = req[r].cur.hold
        OBVIOUS
      <3>2. /\ Active' = Active \ {id}
            /\ \A i \in DOMAIN holds : i # id => i \in DOMAIN holds' /\ holds'[i] = holds[i]
        BY <1>2, <2>5, <3>1, ReleaseActive
      <3>3. Stranded({})' \in SUBSET (Stranded(Uses(r, req[r])) \cup {id})
        BY <1>3, <2>5, <3>1, <3>2 DEF Stranded, Uses, At
      <3>4. Winning.hold # id
        BY <1>2, <2>5, <3>1 DEF At, Knows
      <3>5. Funded(Winning) => Funded(Winning)'
        BY <1>3, <3>2, <3>4 DEF Funded, IsActive
      <3>. QED BY <1>1, <1>3, <2>1, <3>3, <3>5, BooksFailing
    <2>. QED BY <1>7, <2>2, <2>3, <2>4, <2>5 DEF WalletTimesOut
  <1>. QED BY <1>5, <1>6, <1>7 DEF EarlyEnd

LEMMA BooksOutside ==
  ASSUME PlacementInv, [Next]_vars, OneReplica, BooksInv,
         \/ \E r \in Requests : Arrive(r)
         \/ \E b \in Deleters : DeleteProxy(b)
         \/ Tick /\ UNCHANGED <<guard, req, faults>>
         \/ UNCHANGED vars
  PROVE  BooksInv'
  <1>1. Requests' = Requests
    BY SameReplicas
  <1>2. UNCHANGED <<listing, bids, holds, job, outbox, faults>> /\ Winning' = Winning
    BY DEF Arrive, DeleteProxy, Tick, vars, storeVars, Winning
  <1>3. \A q \in Requests :
          /\ InProgress(q)' <=> InProgress(q)
          /\ InProgress(q) \/ At(q, "done") => req'[q] = req[q]
    <2>1. CASE \E r \in Requests : Arrive(r)
      <3>1. PICK r \in Requests : Arrive(r)
        BY <2>1
      <3>2. PICK o \in Offers :
              req' = [req EXCEPT ![r].pc = "waiting", ![r].bidder = o.bidder,
                                 ![r].kind = o.kind, ![r].offer = o.offer, ![r].time = now]
        BY <3>1 DEF Arrive
      <3>3. req'[r].pc = "waiting" /\ \A q \in Requests \ {r} : req'[q] = req[q]
        BY <3>2, RequestIsOK DEF PlacementInv, RequestsOK, Local
      <3>4. req[r].pc = "new"
        BY <3>1 DEF Arrive, At
      <3>. QED BY <3>3, <3>4 DEF InProgress, Inside, At
    <2>2. CASE req' = req
      BY <2>2 DEF InProgress
    <2>. QED BY <2>1, <2>2 DEF DeleteProxy, Tick, vars
  <1>4. Covered => Covered'
    BY <1>1, <1>2, <1>3 DEF Covered, Funded, IsActive, FailedToOutbid, At
  <1>5. \A uses : Counted(uses) => Counted(uses)'
    BY <1>2 DEF Counted, Stranded, Active, IsActive
  <1>6. Settled => Settled'
    BY <1>2, <1>4, <1>5 DEF Settled, RowsTell, Told
  <1>7. ASSUME NEW q \in Requests, InProgress(q)'
        PROVE  Owes(q, req[q])'
    <2>1. PICK t : t = req[q]
      OBVIOUS
    <2>2. Owes(q, t) /\ req'[q] = t
      BY <1>3, <1>7, <2>1 DEF BooksInv
    <2>3. Counted(Uses(q, t)) /\ Uses(q, t)' = Uses(q, t)
      BY <2>2 DEF Owes, Uses
    <2>4. Counted(Uses(q, t))'
      BY <1>5, <2>3
    <2>5. Owes(q, t)'
      BY <1>2, <1>4, <2>2, <2>4 DEF Owes, RowsTell, Told, TellsOf, Held, IsActive, NewHold
    <2>. QED BY <2>2, <2>5
  <1>8. Quiet' => Quiet
    BY <1>1, <1>3 DEF Quiet
  <1>. QED BY <1>1, <1>6, <1>7, <1>8 DEF BooksInv

LEMMA BooksInit == Init => BooksInv
  <1> SUFFICES ASSUME Init PROVE BooksInv
    OBVIOUS
  <1>1. \A r \in Requests : ~InProgress(r)
    <2>1. PICK d \in Deployments : req = [r \in DOMAIN d |-> Blank(d[r])]
      BY DEF Init
    <2>2. ASSUME NEW r \in Requests PROVE req[r].pc = "new"
      BY <2>1 DEF Requests, Blank
    <2>. QED BY <2>2 DEF InProgress, Inside
  <1>2. Stranded({}) = {}
    BY DEF Init, StoreInit, Stranded, Active
  <1>3. Counted({})
    BY <1>2, FS_EmptySet DEF Init, Counted
  <1>4. Settled
    BY <1>3 DEF Init, StoreInit, Settled, RowsTell, Covered, Winning, Best, NoBid
  <1>. QED BY <1>1, <1>4 DEF BooksInv

LEMMA BooksNext ==
  ASSUME PlacementInv, PlacementInv', AloneInv, AloneInv', BooksInv, [Next]_vars
  PROVE  BooksInv'
  <1>1. CASE ~OneReplica
    BY <1>1, SameReplicas DEF OneReplica, BooksInv
  <1>2. CASE OneReplica
    <2>1. ASSUME NEW r \in Requests, Step(r) \/ EarlyEnd(r)
          PROVE  BooksInv'
      <3>1. BooksBefore(r) /\ AloneBefore(r)
        BY <1>2, <2>1 DEF BooksBefore, AloneBefore
      <3> SUFFICES ASSUME ~BooksInv' PROVE FALSE
        OBVIOUS
      <3>2. ~(\/ EnterGuard(r) \/ ReadAuction(r) \/ ReadWinner(r) \/ ReadSession(r)
              \/ SaveOwnProxy(r) \/ SaveProxy(r) \/ PublishPlaced(r) \/ PublishAutoPlaced(r)
              \/ ReadBoard(r) \/ ReadContest(r) \/ ReadAutoSession(r))
        BY <3>1, BooksReading
      <3>3. ~ReleasePrevious(r) /\ ~(HoldNew(r) \/ HoldAuto(r))
        BY <3>1, BooksReleasing, BooksHolding
      <3>4. ~(InsertNew(r) \/ WriteAuto(r)) /\ ~(PublishOutbid(r) \/ PublishAutoOutbid(r))
        BY <3>1, BooksStoring, BooksTelling
      <3>5. ~ReleaseReplaced(r) /\ ~(UpdateListing(r) \/ UpdateListingAuto(r))
        BY <3>1, BooksReplacing, BooksUpdating
      <3>6. ~(Reschedule(r) \/ RescheduleAuto(r)) /\ ~(UndoHold(r) \/ UndoAutoHold(r))
        BY <3>1, BooksScheduling, BooksGivingBack
      <3>7. ~EarlyEnd(r)
        BY <3>1, BooksEnding
      <3>8. ~RereadListing(r) /\ ~DropAutoHold(r) /\ ~DeleteAutoBid(r)
        BY <3>1, AloneHas DEF RereadListing, DropAutoHold, DeleteAutoBid, At, Knows, InProgress, Inside
      <3>. QED BY <2>1, <3>2, <3>3, <3>4, <3>5, <3>6, <3>7, <3>8, Zenon DEF Step
    <2>2. CASE ~\E r \in Requests : Step(r) \/ EarlyEnd(r)
      BY <1>2, <2>2, BooksOutside DEF Next
    <2>. QED BY <2>1, <2>2
  <1>. QED BY <1>1, <1>2

LEMMA BooksAreSound == Spec => []BooksInv
  <1>1. PlacementInv /\ PlacementInv' /\ AloneInv /\ AloneInv' /\ BooksInv /\ [Next]_vars => BooksInv'
    BY BooksNext
  <1>. QED BY <1>1, BooksInit, AloneIsSound, PTL DEF Spec

\* On one replica, when nobody is at work and nothing has failed, the auction's row, its
\* best bid and its closure job tell the same story (RowsAgree).
THEOREM RowsTellTheSame == Spec => []RowsAgree
  <1>1. AloneInv /\ BooksInv => RowsAgree
    BY DEF AloneInv, RowsSound, BooksInv, Settled, RowsTell, RowsAgree
  <1>. QED BY <1>1, AloneIsSound, BooksAreSound, PTL

\* On one replica every bid that has lost the lead is announced to its bidder, once the
\* requests under way are answered and if none of them failed (LosersTold).
THEOREM LosersAreTold == Spec => []LosersTold
  <1>1. BooksInv => LosersTold
    BY DEF BooksInv, Settled, LosersTold, Told
  <1>. QED BY <1>1, BooksAreSound, PTL

\* On one replica the leader's money is held, covers the bid and outlives the auction, or a
\* request that tried to outbid him has failed (FundedUnlessOutbidFailed).
THEOREM LeaderIsFunded == Spec => []FundedUnlessOutbidFailed
  <1>1. BooksInv => FundedUnlessOutbidFailed
    BY DEF BooksInv, Settled, Covered, FailedToOutbid, FundedUnlessOutbidFailed
  <1>. QED BY <1>1, BooksAreSound, PTL

\* On one replica each fault leaves at most one hold behind that backs no leading bid
\* (StrandedHoldsNeedFaults).
THEOREM StrandedHoldsAreFaults == Spec => []StrandedHoldsNeedFaults
  <1>1. BooksInv => StrandedHoldsNeedFaults
    <2> SUFFICES ASSUME BooksInv, OneReplica, Quiet
                 PROVE  Cardinality({i \in DOMAIN holds : IsActive(i)} \ {Winning.hold}) <= faults
      BY DEF StrandedHoldsNeedFaults
    <2>1. Stranded({}) = {i \in DOMAIN holds : IsActive(i)} \ {Winning.hold}
      BY DEF Stranded, Active
    <2>. QED BY <2>1 DEF BooksInv, Settled, Counted
  <1>. QED BY <1>1, BooksAreSound, PTL

-----------------------------------------------------------------------------
(* Whose money a hold is: on any number of replicas, and for the closing          *)

Holder(i, b) == i \in DOMAIN holds /\ holds[i].bidder = b

\* a bid has two holds of its bidder: the one it was stored with, which has its number,
\* and the one that covers it now
Backed(x) == Holder(x.id, x.bidder) /\ Holder(x.hold, x.bidder)

BeforeHold == {"new", "waiting", "read", "winner", "session", "saveproxy", "release", "hold"}
BeforeAutoHold == BeforeHold \cup {"insert", "outbid", "update", "reread", "job", "board", "contest",
                                   "autosession", "autohold"}

\* What a request r with local variables t knows of the wallet: a hold it has yet to ask
\* for does not exist, and the hold of the bid it is about to store is the bidder's.
WalletOK(r, t) ==
  /\ t.pc \in BeforeHold => BidId(r) \notin DOMAIN holds
  /\ t.pc \in BeforeAutoHold => AutoId(r) \notin DOMAIN holds
  /\ t.pc = "insert" => Holder(BidId(r), t.bidder)
  /\ t.pc = "autowrite" => Holder(AutoId(r), t.top)
  /\ t.pc \in Countering => Backed(t.cur)

WalletInv ==
  /\ \A x \in bids : Backed(x)
  /\ \A r \in Requests : WalletOK(r, req[r])

\* Holds are added under the ids in new, keep their bidders, and are not converted.
HoldsGrow(new) ==
  /\ DOMAIN holds \subseteq DOMAIN holds' /\ DOMAIN holds' \subseteq DOMAIN holds \cup new
  /\ \A i \in DOMAIN holds : holds'[i].bidder = holds[i].bidder
  /\ \A i \in DOMAIN holds' :
       holds'[i].state = "converted" => i \in DOMAIN holds /\ holds[i].state = "converted"

LEMMA ReleaseGrows ==
  ASSUME StoreOK, NEW id, ReleaseHold(id)
  PROVE  HoldsGrow({})
  <1>1. CASE IsActive(id)
    <2>1. id \in DOMAIN holds /\ holds[id] \in Hold /\ holds' = [holds EXCEPT ![id].state = "released"]
      BY <1>1 DEF ReleaseHold, IsActive, StoreOK
    <2>2. /\ DOMAIN holds' = DOMAIN holds /\ holds'[id].state = "released"
          /\ holds'[id].bidder = holds[id].bidder
          /\ \A i \in DOMAIN holds \ {id} : holds'[i] = holds[i]
      BY <2>1, SMT DEF Hold
    <2>. QED BY <2>2 DEF HoldsGrow
  <1>2. CASE ~IsActive(id)
    BY <1>2 DEF ReleaseHold, HoldsGrow
  <1>. QED BY <1>1, <1>2

LEMMA HoldGrows ==
  ASSUME NEW id, id \notin DOMAIN holds, NEW b, NEW amount, NEW end,
         HoldFunds(id, NewHold(b, amount, end))
  PROVE  HoldsGrow({id}) /\ Holder(id, b)'
  <1>1. PICK hold : hold = NewHold(b, amount, end)
    OBVIOUS
  <1>2. hold.state = "active" /\ hold.bidder = b
    BY <1>1 DEF NewHold
  <1>3. holds' = [i \in DOMAIN holds \cup {id} |-> IF i = id THEN hold ELSE holds[i]]
    BY <1>1 DEF HoldFunds
  <1>. QED BY <1>2, <1>3 DEF HoldsGrow, Holder

LEMMA BackedStays ==
  ASSUME NEW ids, HoldsGrow(ids), NEW x, Backed(x)
  PROVE  Backed(x)'
  BY DEF HoldsGrow, Backed, Holder

\* What every step of a request owes to the invariant.
LEMMA WalletStep ==
  ASSUME PlacementInv, WalletInv, NEW r \in Requests, NEW t, req' = [req EXCEPT ![r] = t],
         HoldsGrow({BidId(r), AutoId(r)}), WalletOK(r, t)',
         \A x \in bids' : x \in bids \/ Backed(x)'
  PROVE  WalletInv'
  <1>1. req'[r] = t /\ Requests' = Requests /\ \A q \in Requests \ {r} : req'[q] = req[q]
    BY DEF PlacementInv, RequestsOK, Requests
  <1>2. ASSUME NEW q \in Requests, q # r
        PROVE  WalletOK(q, req[q])'
    <2>1. WalletOK(q, req[q]) /\ req'[q] = req[q]
      BY <1>1, <1>2 DEF WalletInv
    <2>2. {BidId(q), AutoId(q)} \cap {BidId(r), AutoId(r)} = {}
      <3>1. q \in Nat /\ r \in Nat
        BY DEF PlacementInv, RequestsOK
      <3>. QED BY <1>2, <3>1 DEF BidId, AutoId
    <2>3. \A i \in {BidId(q), AutoId(q)} : i \notin DOMAIN holds => i \notin DOMAIN holds'
      BY <2>2 DEF HoldsGrow
    <2>4. \A i, b : Holder(i, b) => Holder(i, b)'
      BY DEF HoldsGrow, Holder
    <2>5. req[q].pc \in Countering => Backed(req[q].cur)'
      BY <2>1, <2>4 DEF WalletOK, Backed
    <2>6. /\ req[q].pc = "insert" => Holder(BidId(q), req[q].bidder)'
          /\ req[q].pc = "autowrite" => Holder(AutoId(q), req[q].top)'
      BY <2>1, <2>4 DEF WalletOK, BidId, AutoId
    <2>7. /\ req[q].pc \in BeforeHold => BidId(q) \notin DOMAIN holds'
          /\ req[q].pc \in BeforeAutoHold => AutoId(q) \notin DOMAIN holds'
      BY <2>1, <2>3 DEF WalletOK
    <2>. QED BY <2>1, <2>5, <2>6, <2>7 DEF WalletOK, Backed, Holder, BidId, AutoId
  <1>3. \A x \in bids' : Backed(x)'
    BY BackedStays DEF WalletInv
  <1>. QED BY <1>1, <1>2, <1>3 DEF WalletInv

\* A step that asks for no hold and stores no bid.
LEMMA WalletKept ==
  ASSUME PlacementInv, WalletInv, NEW r \in Requests, NEW t, req' = [req EXCEPT ![r] = t],
         HoldsGrow({}), bids' \subseteq bids, t.pc \notin {"insert", "autowrite"},
         t.pc \in BeforeHold => req[r].pc \in BeforeHold,
         t.pc \in BeforeAutoHold => req[r].pc \in BeforeAutoHold,
         t.pc \in Countering => Backed(t.cur)
  PROVE  WalletInv'
  <1>1. WalletOK(r, req[r])
    BY DEF WalletInv
  <1>2. WalletOK(r, t)'
    BY <1>1, BackedStays DEF WalletOK, HoldsGrow
  <1>3. HoldsGrow({BidId(r), AutoId(r)})
    BY DEF HoldsGrow
  <1>. QED BY <1>2, <1>3, WalletStep

\* The same for a step that only moves the request on.
LEMMA WalletMove ==
  ASSUME PlacementInv, WalletInv, NEW r \in Requests, NEW pc, pc \notin {"insert", "autowrite"},
         req' = [req EXCEPT ![r].pc = pc], HoldsGrow({}), bids' \subseteq bids,
         pc \in BeforeHold => req[r].pc \in BeforeHold,
         pc \in BeforeAutoHold => req[r].pc \in BeforeAutoHold,
         pc \in Countering => req[r].pc \in Countering
  PROVE  WalletInv'
  <1>1. PICK t : t = [req[r] EXCEPT !.pc = pc]
    OBVIOUS
  <1>2. req' = [req EXCEPT ![r] = t] /\ t.pc = pc /\ t.cur = req[r].cur
    BY <1>1, RequestIsOK, MovedFields
  <1>3. req[r].pc \in Countering => Backed(req[r].cur)
    BY DEF WalletInv, WalletOK
  <1>. QED BY <1>2, <1>3, WalletKept

LEMMA WalletAnswer ==
  ASSUME PlacementInv, WalletInv, NEW r \in Requests, InProgress(r),
         NEW result \in {"Ok", "Refused", "Error"}, Answer(r, result),
         HoldsGrow({BidId(r), AutoId(r)}), bids' \subseteq bids
  PROVE  WalletInv'
  <1>1. PICK t : t = Answered(req[r], result)
    OBVIOUS
  <1>2. req' = [req EXCEPT ![r] = t] /\ t.pc = "done"
    BY <1>1, AnsweredOK
  <1>3. WalletOK(r, t)'
    BY <1>2 DEF WalletOK, BeforeHold, BeforeAutoHold, Countering
  <1>. QED BY <1>2, <1>3, WalletStep

\* the reads, and arriving
LEMMA WalletReading ==
  ASSUME PlacementInv, WalletInv, NEW r \in Requests,
         \/ Arrive(r) \/ EnterGuard(r) \/ ReadAuction(r) \/ ReadWinner(r) \/ ReadSession(r)
         \/ ReadBoard(r) \/ ReadContest(r) \/ ReadAutoSession(r)
  PROVE  WalletInv'
  <1>1. UNCHANGED <<bids, holds>> /\ HoldsGrow({}) /\ HoldsGrow({BidId(r), AutoId(r)})
        /\ req[r] \in Local
    BY RequestIsOK DEF Arrive, EnterGuard, ReadAuction, ReadWinner, ReadSession, ReadBoard,
       ReadContest, ReadAutoSession, storeVars, HoldsGrow
  <1>2. /\ "placed" \notin BeforeHold \cup BeforeAutoHold \cup Countering \cup {"insert", "autowrite"}
        /\ bids' \subseteq bids
    BY <1>1 DEF BeforeHold, BeforeAutoHold, Countering
  <1>3. ASSUME Answer(r, "Ok") \/ Answer(r, "Refused"), InProgress(r)
        PROVE  WalletInv'
    BY <1>1, <1>3, WalletAnswer
  <1>4. CASE Arrive(r)
    <2>1. PICK o \in Offers :
            req' = [req EXCEPT ![r].pc = "waiting", ![r].bidder = o.bidder,
                               ![r].kind = o.kind, ![r].offer = o.offer, ![r].time = now]
      BY <1>4 DEF Arrive
    <2>2. PICK t : t = [req[r] EXCEPT !.pc = "waiting", !.bidder = o.bidder,
                                      !.kind = o.kind, !.offer = o.offer, !.time = now]
      OBVIOUS
    <2>3. req' = [req EXCEPT ![r] = t] /\ t.pc = "waiting"
      BY <1>1, <2>1, <2>2 DEF Local
    <2>. QED BY <1>1, <1>4, <2>3, WalletKept DEF Arrive, At, BeforeHold, BeforeAutoHold, Countering
  <1>5. CASE EnterGuard(r)
    <2>1. req[r].pc = "waiting" /\ req' = [req EXCEPT ![r].pc = "read"] /\ bids' \subseteq bids
      BY <1>1, <1>5 DEF EnterGuard, At
    <2>2. "read" \notin {"insert", "autowrite"} \cup Countering /\ req[r].pc \in BeforeHold
          /\ req[r].pc \in BeforeAutoHold
      BY <2>1 DEF BeforeHold, BeforeAutoHold, Countering
    <2>. QED BY <1>1, <2>1, <2>2, WalletMove
  <1>6. CASE ReadAuction(r)
    <2>1. InProgress(r) /\ req[r].pc = "read"
      BY <1>6 DEF ReadAuction, At, InProgress, Inside
    <2>2. CASE req' = [req EXCEPT ![r].pc = "winner", ![r].row = listing]
      <3>1. PICK t : t = [req[r] EXCEPT !.pc = "winner", !.row = listing]
        OBVIOUS
      <3>2. req' = [req EXCEPT ![r] = t] /\ t.pc = "winner"
        BY <1>1, <2>2, <3>1 DEF Local
      <3>. QED BY <1>1, <2>1, <3>2, WalletKept DEF BeforeHold, BeforeAutoHold, Countering
    <2>. QED BY <1>3, <1>6, <2>1, <2>2 DEF ReadAuction
  <1>7. CASE ReadWinner(r)
    <2>1. InProgress(r) /\ req[r].pc = "winner"
      BY <1>7 DEF ReadWinner, At, InProgress, Inside
    <2>2. ASSUME NEW pc \in {"ownproxy", "session"},
                 req' = [req EXCEPT ![r].pc = pc, ![r].prev = Winning]
          PROVE  WalletInv'
      <3>1. PICK t : t = [req[r] EXCEPT !.pc = pc, !.prev = Winning]
        OBVIOUS
      <3>2. req' = [req EXCEPT ![r] = t] /\ t.pc = pc
        BY <1>1, <2>2, <3>1 DEF Local
      <3>. QED BY <1>1, <2>1, <3>2, WalletKept DEF BeforeHold, BeforeAutoHold, Countering
    <2>. QED BY <1>3, <1>7, <2>1, <2>2 DEF ReadWinner
  <1>8. CASE ReadSession(r)
    <2>1. InProgress(r) /\ req[r].pc = "session"
      BY <1>8 DEF ReadSession, At, InProgress, Inside
    <2>2. ASSUME NEW pc \in {"saveproxy", "release"}, NEW amount, NEW after,
                 req' = [req EXCEPT ![r].pc = pc, ![r].accepted = amount, ![r].after = after]
          PROVE  WalletInv'
      <3>1. PICK t : t = [req[r] EXCEPT !.pc = pc, !.accepted = amount, !.after = after]
        OBVIOUS
      <3>2. req' = [req EXCEPT ![r] = t] /\ t.pc = pc
        BY <1>1, <2>2, <3>1 DEF Local
      <3>. QED BY <1>1, <2>1, <3>2, WalletKept DEF BeforeHold, BeforeAutoHold, Countering
    <2>3. CASE ~Answer(r, "Refused")
      <3> DEFINE own == req[r].kind = "proxy" /\ Winning.bidder = req[r].bidder
                 amount == IF own THEN Winning.amount
                           ELSE IF req[r].kind = "proxy" THEN MinimumOver(Winning)
                                                         ELSE req[r].offer
                 pc == IF req[r].kind = "proxy" THEN "saveproxy" ELSE "release"
                 after == IF own THEN [end |-> req[r].row.end, status |-> req[r].row.status]
                                 ELSE AfterBid(req[r].row, req[r].time)
      <3>1. req' = [req EXCEPT ![r].pc = pc, ![r].accepted = amount, ![r].after = after]
        BY <1>8, <2>3, Zenon DEF ReadSession
      <3>2. pc \in {"saveproxy", "release"}
        OBVIOUS
      <3> HIDE DEF amount, after, pc
      <3>. QED BY <2>2, <3>1, <3>2
    <2>. QED BY <1>3, <2>1, <2>3
  <1>9. CASE ReadBoard(r)
    <2>1. req[r].pc = "board"
      BY <1>9 DEF ReadBoard, At
    <2>2. CASE req' = [req EXCEPT ![r].pc = "placed"]
      BY <1>1, <1>2, <2>2, WalletMove
    <2>3. ASSUME NEW p, req' = [req EXCEPT ![r].pc = "contest", ![r].board = proxies,
                                           ![r].top = p.bidder]
          PROVE  WalletInv'
      <3>1. PICK t : t = [req[r] EXCEPT !.pc = "contest", !.board = proxies, !.top = p.bidder]
        OBVIOUS
      <3>2. req' = [req EXCEPT ![r] = t] /\ t.pc = "contest"
        BY <1>1, <2>3, <3>1 DEF Local
      <3>. QED BY <1>1, <2>1, <3>2, WalletKept DEF BeforeHold, BeforeAutoHold, Countering
    <2>. QED BY <1>9, <2>2, <2>3 DEF ReadBoard
  <1>10. CASE ReadContest(r)
    <2>1. req[r].pc = "contest"
      BY <1>10 DEF ReadContest, At
    <2>2. CASE req' = [req EXCEPT ![r].pc = "placed"]
      BY <1>1, <1>2, <2>2, WalletMove
    <2>3. CASE req' # [req EXCEPT ![r].pc = "placed"]
      <3> DEFINE pc == IF Winning.bidder = req[r].top THEN "autohold" ELSE "autosession"
      <3>0. pc \in {"autohold", "autosession"}
        OBVIOUS
      <3>1. PICK target, after :
              req' = [req EXCEPT ![r].pc = pc, ![r].cur = Winning, ![r].target = target,
                                 ![r].after = after]
        BY <1>10, <2>3, Zenon DEF ReadContest
      <3> HIDE DEF pc
      <3>2. Winning # NoBid
        BY <1>10, <2>3, Zenon DEF ReadContest
      <3>3. Backed(Winning)
        <4>1. bids # {} /\ StoreOK
          BY <3>2 DEF Winning, Best, PlacementInv
        <4>. QED BY <4>1, WinningTyped DEF WalletInv
      <3>4. PICK t : t = [req[r] EXCEPT !.pc = pc, !.cur = Winning, !.target = target,
                                        !.after = after]
        OBVIOUS
      <3>5. req' = [req EXCEPT ![r] = t] /\ t.pc = pc /\ t.cur = Winning
        BY <1>1, <3>1, <3>4 DEF Local
      <3>6. Backed(t.cur)
        BY <3>3, <3>5
      <3>. QED BY <1>1, <2>1, <3>0, <3>5, <3>6, WalletKept DEF BeforeHold, BeforeAutoHold
    <2>. QED BY <2>2, <2>3
  <1>11. CASE ReadAutoSession(r)
    <2>1. InProgress(r) /\ req[r].pc = "autosession"
      BY <1>11 DEF ReadAutoSession, At, InProgress, Inside
    <2>2. CASE req' = [req EXCEPT ![r].pc = "autohold"]
      <3>1. /\ "autohold" \notin BeforeHold \cup {"insert", "autowrite"}
            /\ req[r].pc \in BeforeAutoHold \cap Countering
        BY <2>1 DEF BeforeHold, BeforeAutoHold, Countering
      <3>. QED BY <1>1, <1>2, <2>2, <3>1, WalletMove
    <2>. QED BY <1>3, <1>11, <2>1, <2>2 DEF ReadAutoSession
  <1>. QED BY <1>4, <1>5, <1>6, <1>7, <1>8, <1>9, <1>10, <1>11

\* the steps after which no hold is new and no bid is
LEMMA WalletPlain ==
  ASSUME PlacementInv, NEW r \in Requests,
         \/ SaveOwnProxy(r) \/ SaveProxy(r) \/ ReleasePrevious(r) \/ UndoHold(r)
         \/ PublishOutbid(r) \/ UpdateListing(r) \/ RereadListing(r) \/ Reschedule(r)
         \/ PublishPlaced(r) \/ UndoAutoHold(r) \/ ReleaseReplaced(r) \/ PublishAutoOutbid(r)
         \/ UpdateListingAuto(r) \/ DropAutoHold(r) \/ DeleteAutoBid(r)
         \/ RescheduleAuto(r) \/ PublishAutoPlaced(r)
  PROVE  HoldsGrow({}) /\ bids' \subseteq bids /\ InProgress(r)
  <1>1. InProgress(r)
    BY DEF SaveOwnProxy, SaveProxy, ReleasePrevious, UndoHold, PublishOutbid, UpdateListing,
       RereadListing, Reschedule, PublishPlaced, UndoAutoHold, ReleaseReplaced,
       PublishAutoOutbid, UpdateListingAuto, DropAutoHold, DeleteAutoBid, RescheduleAuto,
       PublishAutoPlaced, At, InProgress, Inside
  <1>2. bids' \subseteq bids
    BY DEF SaveOwnProxy, SaveProxy, ReleasePrevious, UndoHold, PublishOutbid, UpdateListing,
       RereadListing, Reschedule, PublishPlaced, UndoAutoHold, ReleaseReplaced,
       PublishAutoOutbid, UpdateListingAuto, DropAutoHold, DeleteAutoBid, RescheduleAuto,
       PublishAutoPlaced, storeVars
  <1>3. UNCHANGED holds => HoldsGrow({})
    BY DEF HoldsGrow
  <1>4. ASSUME NEW id, ReleaseHold(id)
        PROVE  HoldsGrow({})
    BY <1>4, ReleaseGrows DEF PlacementInv
  <1>5. UNCHANGED holds \/ \E id : ReleaseHold(id)
    BY DEF SaveOwnProxy, SaveProxy, ReleasePrevious, UndoHold, PublishOutbid, UpdateListing,
       RereadListing, Reschedule, PublishPlaced, UndoAutoHold, ReleaseReplaced,
       PublishAutoOutbid, UpdateListingAuto, DropAutoHold, DeleteAutoBid, RescheduleAuto,
       PublishAutoPlaced, storeVars
  <1>. QED BY <1>1, <1>2, <1>3, <1>4, <1>5

\* from a pc to a pc that asks the wallet for nothing the first did not
Forth(from, to) ==
  /\ to \notin {"insert", "autowrite"}
  /\ to \in BeforeHold => from \in BeforeHold
  /\ to \in BeforeAutoHold => from \in BeforeAutoHold
  /\ to \in Countering => from \in Countering

LEMMA WalletForth ==
  ASSUME PlacementInv, WalletInv, NEW r \in Requests, HoldsGrow({}), bids' \subseteq bids,
         InProgress(r), NEW pc, Forth(req[r].pc, pc),
         \/ req' = [req EXCEPT ![r].pc = pc]
         \/ \E row : req' = [req EXCEPT ![r].pc = pc, ![r].row = row]
  PROVE  WalletInv'
  <1>1. CASE req' = [req EXCEPT ![r].pc = pc]
    BY <1>1, WalletMove DEF Forth
  <1>2. ASSUME NEW row, req' = [req EXCEPT ![r].pc = pc, ![r].row = row]
        PROVE  WalletInv'
    <2>1. PICK t : t = [req[r] EXCEPT !.pc = pc, !.row = row]
      OBVIOUS
    <2>2. req' = [req EXCEPT ![r] = t] /\ t.pc = pc /\ t.cur = req[r].cur
      <3>1. req[r] \in Local
        BY RequestIsOK
      <3>. QED BY <1>2, <2>1, <3>1 DEF Local
    <2>3. req[r].pc \in Countering => Backed(req[r].cur)
      BY DEF WalletInv, WalletOK
    <2>. QED BY <2>2, <2>3, WalletKept DEF Forth
  <1>. QED BY <1>1, <1>2

LEMMA WalletPlacing ==
  ASSUME PlacementInv, WalletInv, NEW r \in Requests,
         \/ SaveOwnProxy(r) \/ SaveProxy(r) \/ ReleasePrevious(r) \/ UndoHold(r)
         \/ PublishOutbid(r) \/ UpdateListing(r) \/ RereadListing(r) \/ Reschedule(r)
         \/ PublishPlaced(r)
  PROVE  WalletInv'
  <1>0. HoldsGrow({}) /\ bids' \subseteq bids /\ InProgress(r)
    BY WalletPlain
  <1>1. ASSUME Answer(r, "Ok") \/ Answer(r, "Error")
        PROVE  WalletInv'
    <2>1. HoldsGrow({BidId(r), AutoId(r)})
      BY <1>0 DEF HoldsGrow
    <2>. QED BY <1>0, <1>1, <2>1, WalletAnswer
  <1>2. CASE SaveOwnProxy(r) \/ UndoHold(r) \/ PublishPlaced(r)
    BY <1>1, <1>2 DEF SaveOwnProxy, UndoHold, PublishPlaced
  <1>3. CASE SaveProxy(r)
    <2>1. Forth(req[r].pc, "release") /\ req' = [req EXCEPT ![r].pc = "release"]
      BY <1>3 DEF SaveProxy, At, Forth, BeforeHold, BeforeAutoHold, Countering
    <2>. QED BY <1>0, <2>1, WalletForth
  <1>4. CASE ReleasePrevious(r)
    <2>1. Forth(req[r].pc, "hold") /\ req' = [req EXCEPT ![r].pc = "hold"]
      BY <1>4 DEF ReleasePrevious, At, Forth, BeforeHold, BeforeAutoHold, Countering
    <2>. QED BY <1>0, <2>1, WalletForth
  <1>5. CASE PublishOutbid(r)
    <2>1. Forth(req[r].pc, "update") /\ req' = [req EXCEPT ![r].pc = "update"]
      BY <1>5 DEF PublishOutbid, At, Forth, BeforeHold, BeforeAutoHold, Countering
    <2>. QED BY <1>0, <2>1, WalletForth
  <1>6. CASE UpdateListing(r) \/ RereadListing(r)
    <2>1. \/ Forth(req[r].pc, "reread") /\ req' = [req EXCEPT ![r].pc = "reread"]
          \/ /\ Forth(req[r].pc, "job")
             /\ \E row : req' = [req EXCEPT ![r].pc = "job", ![r].row = row]
      BY <1>6 DEF UpdateListing, RereadListing, At, Forth, BeforeHold, BeforeAutoHold, Countering
    <2>. QED BY <1>0, <2>1, WalletForth
  <1>7. CASE Reschedule(r)
    <2>1. Forth(req[r].pc, "board") /\ req' = [req EXCEPT ![r].pc = "board"]
      BY <1>7 DEF Reschedule, At, Forth, BeforeHold, BeforeAutoHold, Countering
    <2>. QED BY <1>0, <2>1, WalletForth
  <1>. QED BY <1>2, <1>3, <1>4, <1>5, <1>6, <1>7

LEMMA WalletCountering ==
  ASSUME PlacementInv, WalletInv, NEW r \in Requests,
         \/ UndoAutoHold(r) \/ ReleaseReplaced(r) \/ PublishAutoOutbid(r)
         \/ UpdateListingAuto(r) \/ DropAutoHold(r) \/ DeleteAutoBid(r)
         \/ RescheduleAuto(r) \/ PublishAutoPlaced(r)
  PROVE  WalletInv'
  <1>0. HoldsGrow({}) /\ bids' \subseteq bids /\ InProgress(r)
    BY WalletPlain
  <1>1. req[r].pc \in Countering
    BY DEF UndoAutoHold, ReleaseReplaced, PublishAutoOutbid, UpdateListingAuto, DropAutoHold,
       DeleteAutoBid, RescheduleAuto, PublishAutoPlaced, At, Countering
  <1>2. ASSUME NEW pc \in {"placed", "autooutbid", "autoupdate", "autojob", "autodrop",
                           "autodelete", "autoplaced"}
        PROVE  Forth(req[r].pc, pc)
    BY <1>1 DEF Forth, BeforeHold, BeforeAutoHold
  <1>3. CASE UpdateListingAuto(r)
    <2>1. \E pc \in {"autojob", "autodrop"} :
            \/ req' = [req EXCEPT ![r].pc = pc]
            \/ \E row : req' = [req EXCEPT ![r].pc = pc, ![r].row = row]
      BY <1>3, Zenon DEF UpdateListingAuto
    <2>. QED BY <1>0, <1>2, <2>1, WalletForth
  <1>4. CASE UndoAutoHold(r) /\ Answer(r, "Error")
    <2>1. HoldsGrow({BidId(r), AutoId(r)})
      BY <1>0 DEF HoldsGrow
    <2>. QED BY <1>0, <1>4, <2>1, WalletAnswer
  <1>5. ASSUME NEW pc \in {"placed", "autooutbid", "autoupdate", "autodelete", "autoplaced"},
               req' = [req EXCEPT ![r].pc = pc]
        PROVE  WalletInv'
    BY <1>0, <1>2, <1>5, WalletForth
  <1>6. CASE \/ UndoAutoHold(r) /\ ~Answer(r, "Error")
             \/ ReleaseReplaced(r) \/ PublishAutoOutbid(r) \/ DropAutoHold(r)
             \/ DeleteAutoBid(r) \/ RescheduleAuto(r) \/ PublishAutoPlaced(r)
    BY <1>5, <1>6 DEF UndoAutoHold, ReleaseReplaced, PublishAutoOutbid, DropAutoHold,
       DeleteAutoBid, RescheduleAuto, PublishAutoPlaced
  <1>. QED BY <1>3, <1>4, <1>6

\* what a call to hold money for a request does, whether its answer comes in time or not
LEMMA WalletHolds ==
  ASSUME PlacementInv, WalletInv, NEW r \in Requests,
         \/ /\ At(r, "hold")
            /\ HoldFunds(BidId(r), NewHold(req[r].bidder, req[r].accepted, req[r].after.end))
         \/ /\ At(r, "autohold")
            /\ HoldFunds(AutoId(r), NewHold(req[r].top, req[r].target, req[r].after.end))
  PROVE  /\ HoldsGrow({BidId(r), AutoId(r)})
         /\ req[r].pc = "hold" => AutoId(r) \notin DOMAIN holds'
         /\ \A b : req[r].pc = "hold" /\ b = req[r].bidder => Holder(BidId(r), b)'
         /\ \A b : req[r].pc = "autohold" /\ b = req[r].top => Holder(AutoId(r), b)'
  <1>1. WalletOK(r, req[r])
    BY DEF WalletInv
  <1>2. PICK i, j : i = BidId(r) /\ j = AutoId(r)
    OBVIOUS
  <1>3. i # j
    BY <1>2, RequestIsOK DEF BidId, AutoId
  <1>4. PICK b, c : b = req[r].bidder /\ c = req[r].top
    OBVIOUS
  <1>5. CASE At(r, "hold")
    <2>1. i \notin DOMAIN holds /\ j \notin DOMAIN holds
      BY <1>1, <1>2, <1>5 DEF WalletOK, At, BeforeHold, BeforeAutoHold
    <2>2. HoldFunds(i, NewHold(b, req[r].accepted, req[r].after.end))
      BY <1>2, <1>4, <1>5 DEF At
    <2>3. HoldsGrow({i}) /\ Holder(i, b)'
      BY <2>1, <2>2, HoldGrows
    <2>4. HoldsGrow({i, j}) /\ j \notin DOMAIN holds'
      BY <1>3, <2>1, <2>3 DEF HoldsGrow
    <2>5. Holder(BidId(r), b)'
      BY <1>2, <2>3 DEF BidId
    <2>. QED BY <1>2, <1>4, <1>5, <2>4, <2>5 DEF At
  <1>6. CASE At(r, "autohold")
    <2>1. j \notin DOMAIN holds
      BY <1>1, <1>2, <1>6 DEF WalletOK, At, BeforeAutoHold
    <2>2. HoldFunds(j, NewHold(c, req[r].target, req[r].after.end))
      BY <1>2, <1>4, <1>6 DEF At
    <2>3. HoldsGrow({j}) /\ Holder(j, c)'
      BY <2>1, <2>2, HoldGrows
    <2>4. HoldsGrow({i, j})
      BY <2>3 DEF HoldsGrow
    <2>5. Holder(AutoId(r), c)'
      BY <1>2, <2>3 DEF AutoId
    <2>. QED BY <1>2, <1>4, <1>6, <2>4, <2>5 DEF At
  <1>. QED BY <1>5, <1>6

LEMMA WalletHolding ==
  ASSUME PlacementInv, WalletInv, NEW r \in Requests, HoldNew(r) \/ HoldAuto(r)
  PROVE  WalletInv'
  <1>1. /\ HoldsGrow({BidId(r), AutoId(r)}) /\ bids' = bids /\ WalletOK(r, req[r])
        /\ req[r] \in Local
    BY WalletHolds, RequestIsOK DEF HoldNew, HoldAuto, WalletInv
  <1>2. CASE HoldNew(r)
    <2>1. PICK t : t = [req[r] EXCEPT !.pc = "insert"]
      OBVIOUS
    <2>2. /\ req' = [req EXCEPT ![r] = t] /\ t.pc = "insert" /\ t.bidder = req[r].bidder
          /\ req[r].pc = "hold"
      BY <1>1, <1>2, <2>1, MovedFields DEF HoldNew, At
    <2>3. Holder(BidId(r), t.bidder)' /\ AutoId(r) \notin DOMAIN holds'
      BY <1>2, <2>2, WalletHolds DEF HoldNew
    <2>4. WalletOK(r, t)'
      BY <2>2, <2>3 DEF WalletOK, BeforeHold, Countering, AutoId
    <2>. QED BY <1>1, <2>2, <2>4, WalletStep
  <1>3. CASE HoldAuto(r)
    <2>1. PICK t : t = [req[r] EXCEPT !.pc = "autowrite"]
      OBVIOUS
    <2>2. /\ req' = [req EXCEPT ![r] = t] /\ t.pc = "autowrite" /\ t.top = req[r].top
          /\ t.cur = req[r].cur /\ req[r].pc = "autohold"
      BY <1>1, <1>3, <2>1, MovedFields DEF HoldAuto, At
    <2>3. Holder(AutoId(r), t.top)'
      BY <1>3, <2>2, WalletHolds DEF HoldAuto
    <2>4. Backed(t.cur)'
      BY <1>1, <2>2, BackedStays DEF WalletOK, Countering
    <2>5. WalletOK(r, t)'
      BY <2>2, <2>3, <2>4 DEF WalletOK, BeforeHold, BeforeAutoHold
    <2>. QED BY <1>1, <2>2, <2>5, WalletStep
  <1>. QED BY <1>2, <1>3

\* a bid is stored with a hold that is its bidder's
LEMMA WalletStoring ==
  ASSUME PlacementInv, WalletInv, NEW r \in Requests, InsertNew(r) \/ WriteAuto(r)
  PROVE  WalletInv'
  <1>1. /\ HoldsGrow({BidId(r), AutoId(r)}) /\ holds' = holds /\ WalletOK(r, req[r])
        /\ req[r] \in Local
    BY RequestIsOK DEF InsertNew, WriteAuto, HoldsGrow, WalletInv
  <1>2. CASE InsertNew(r)
    <2>1. PICK t : t = [req[r] EXCEPT !.pc = "outbid"]
      OBVIOUS
    <2>2. PICK x : x = [id |-> BidId(r), bidder |-> req[r].bidder, amount |-> req[r].accepted,
                        time |-> req[r].time, hold |-> BidId(r)]
      OBVIOUS
    <2>3. /\ req' = [req EXCEPT ![r] = t] /\ t.pc = "outbid" /\ req[r].pc = "insert"
          /\ bids' = bids \cup {x}
      BY <1>1, <1>2, <2>1, <2>2, MovedFields DEF InsertNew, InsertBid, At
    <2>4. Backed(x)'
      BY <1>1, <2>2, <2>3 DEF WalletOK, Backed, Holder
    <2>5. WalletOK(r, t)'
      BY <1>1, <2>3 DEF WalletOK, BeforeHold, BeforeAutoHold, Countering, AutoId
    <2>. QED BY <1>1, <2>3, <2>4, <2>5, WalletStep
  <1>3. CASE WriteAuto(r)
    <2>1. req[r].pc = "autowrite" /\ Backed(req[r].cur) /\ Holder(AutoId(r), req[r].top)
      BY <1>1, <1>3 DEF WriteAuto, At, WalletOK, Countering
    <2>2. CASE req' = [req EXCEPT ![r].pc = "autoundo"] /\ bids' = bids
      <3>1. PICK t : t = [req[r] EXCEPT !.pc = "autoundo"]
        OBVIOUS
      <3>2. req' = [req EXCEPT ![r] = t] /\ t.pc = "autoundo" /\ t.cur = req[r].cur
        BY <1>1, <2>2, <3>1, MovedFields
      <3>3. WalletOK(r, t)'
        BY <1>1, <2>1, <3>2 DEF WalletOK, BeforeHold, BeforeAutoHold, Backed, Holder
      <3>. QED BY <1>1, <2>2, <3>2, <3>3, WalletStep
    <2>3. CASE /\ req' = [req EXCEPT ![r].pc = "autorelease"]
               /\ bids' = (IF RaisesOwn(r) THEN bids \ RaisedRow(r) ELSE bids) \cup {AutoRow(r)}
      <3>1. PICK t : t = [req[r] EXCEPT !.pc = "autorelease"]
        OBVIOUS
      <3>2. req' = [req EXCEPT ![r] = t] /\ t.pc = "autorelease" /\ t.cur = req[r].cur
        BY <1>1, <2>3, <3>1, MovedFields
      <3>3. WalletOK(r, t)'
        BY <1>1, <2>1, <3>2 DEF WalletOK, BeforeHold, BeforeAutoHold, Backed, Holder
      <3>4. PICK x : x = AutoRow(r)
        OBVIOUS
      <3>5. /\ x.id = IF RaisesOwn(r) THEN req[r].cur.id ELSE AutoId(r)
            /\ x.bidder = req[r].top /\ x.hold = AutoId(r)
        BY <3>4 DEF AutoRow
      <3>6. Holder(x.id, x.bidder)
        <4>1. CASE RaisesOwn(r)
          BY <2>1, <3>5, <4>1 DEF RaisesOwn, Backed
        <4>2. CASE ~RaisesOwn(r)
          BY <2>1, <3>5, <4>2
        <4>. QED BY <4>1, <4>2
      <3>7. Backed(x)'
        BY <1>1, <2>1, <3>5, <3>6 DEF Backed, Holder
      <3>8. bids' \subseteq bids \cup {x}
        BY <2>3, <3>4
      <3>. QED BY <1>1, <3>2, <3>3, <3>7, <3>8, WalletStep
    <2>. QED BY <1>3, <2>2, <2>3 DEF WriteAuto
  <1>. QED BY <1>2, <1>3

LEMMA WalletEnding ==
  ASSUME PlacementInv, WalletInv, NEW r \in Requests, EarlyEnd(r)
  PROVE  WalletInv' /\ HoldsGrow({BidId(r), AutoId(r)})
  <1>1. InProgress(r) /\ bids' \subseteq bids
    BY DEF EarlyEnd, WalletRefuses, GivesUp, WalletTimesOut, At, InProgress, Inside, storeVars
  <1>2. HoldsGrow({BidId(r), AutoId(r)})
    <2>1. CASE UNCHANGED holds
      BY <2>1 DEF HoldsGrow
    <2>2. CASE \E id : ReleaseHold(id)
      <3>1. HoldsGrow({})
        BY <2>2, ReleaseGrows DEF PlacementInv
      <3>. QED BY <3>1 DEF HoldsGrow
    <2>3. CASE \/ /\ At(r, "hold")
                  /\ HoldFunds(BidId(r), NewHold(req[r].bidder, req[r].accepted, req[r].after.end))
               \/ /\ At(r, "autohold")
                  /\ HoldFunds(AutoId(r), NewHold(req[r].top, req[r].target, req[r].after.end))
      BY <2>3, WalletHolds
    <2>. QED BY <2>1, <2>2, <2>3 DEF EarlyEnd, WalletRefuses, GivesUp, WalletTimesOut, storeVars
  <1>3. CASE Answer(r, "Error")
    BY <1>1, <1>2, <1>3, WalletAnswer
  <1>4. CASE ~Answer(r, "Error")
    <2>1. GivesUp(r) /\ HoldsGrow({})
      BY <1>4 DEF EarlyEnd, WalletRefuses, WalletTimesOut, GivesUp, storeVars, HoldsGrow
    <2>2. PICK pc \in {"undo", "autoundo", "placed", "autodelete"} :
            /\ req' = [req EXCEPT ![r].pc = pc]
            /\ pc \in {"autoundo", "autodelete"} => req[r].pc \in {"autowrite", "autodrop"}
      BY <1>4, <2>1 DEF GivesUp, At
    <2>3. Forth(req[r].pc, pc)
      BY <2>2 DEF Forth, BeforeHold, BeforeAutoHold, Countering
    <2>. QED BY <1>1, <1>2, <2>1, <2>2, <2>3, WalletForth
  <1>. QED BY <1>2, <1>3, <1>4

\* what leaves requests and bids alone, and adds no hold
LEMMA WalletOutside ==
  ASSUME PlacementInv, WalletInv, UNCHANGED <<bids, req>>, DOMAIN holds' = DOMAIN holds,
         \A i \in DOMAIN holds : holds'[i].bidder = holds[i].bidder
  PROVE  WalletInv'
  <1>1. \A i, b : Holder(i, b) => Holder(i, b)'
    BY DEF Holder
  <1>2. ASSUME NEW r \in Requests
        PROVE  WalletOK(r, req[r])'
    <2>1. WalletOK(r, req[r]) /\ req'[r] = req[r]
      BY DEF WalletInv
    <2>. QED BY <1>1, <2>1 DEF WalletOK, Backed, BidId, AutoId
  <1>. QED BY <1>1, <1>2 DEF WalletInv, Backed, Requests

\* No step of a request makes a request or a replica come or go.
LEMMA RequestsStay ==
  ASSUME PlacementInv, NEW r \in Requests, Arrive(r) \/ Step(r) \/ EarlyEnd(r)
  PROVE  Replicas' = Replicas /\ Requests' = Requests
  <1>1. [Next]_vars
    BY DEF Next
  <1>. QED BY <1>1, SameReplicas

LEMMA RequestKeepsInv ==
  ASSUME PlacementInv, NEW r \in Requests, Arrive(r) \/ Step(r) \/ EarlyEnd(r)
  PROVE  PlacementInv'
  <1>1. [Next]_vars
    BY DEF Next
  <1>. QED BY <1>1, PlacementInvStep

\* What the wallet and the outbox see of any step of a request.
LEMMA RequestGrows ==
  ASSUME PlacementInv, WalletInv, NEW r \in Requests, Arrive(r) \/ Step(r) \/ EarlyEnd(r)
  PROVE  HoldsGrow({BidId(r), AutoId(r)}) /\ outbox \subseteq outbox'
  <1>1. HoldsGrow({}) => HoldsGrow({BidId(r), AutoId(r)})
    BY DEF HoldsGrow
  <1>2. UNCHANGED holds => HoldsGrow({})
    BY DEF HoldsGrow
  <1>3. CASE \/ Arrive(r) \/ EnterGuard(r) \/ ReadAuction(r) \/ ReadWinner(r) \/ ReadSession(r)
             \/ ReadBoard(r) \/ ReadContest(r) \/ ReadAutoSession(r)
    BY <1>1, <1>2, <1>3 DEF Arrive, EnterGuard, ReadAuction, ReadWinner, ReadSession, ReadBoard,
       ReadContest, ReadAutoSession, storeVars
  <1>4. CASE \/ SaveOwnProxy(r) \/ SaveProxy(r) \/ ReleasePrevious(r) \/ UndoHold(r)
             \/ PublishOutbid(r) \/ UpdateListing(r) \/ RereadListing(r) \/ Reschedule(r)
             \/ PublishPlaced(r) \/ UndoAutoHold(r) \/ ReleaseReplaced(r) \/ PublishAutoOutbid(r)
             \/ UpdateListingAuto(r) \/ DropAutoHold(r) \/ DeleteAutoBid(r)
             \/ RescheduleAuto(r) \/ PublishAutoPlaced(r)
    <2>1. HoldsGrow({})
      BY <1>4, WalletPlain
    <2>2. outbox \subseteq outbox'
      BY <1>4 DEF SaveOwnProxy, SaveProxy, ReleasePrevious, UndoHold, PublishOutbid,
         UpdateListing, RereadListing, Reschedule, PublishPlaced, UndoAutoHold,
         ReleaseReplaced, PublishAutoOutbid, UpdateListingAuto, DropAutoHold, DeleteAutoBid,
         RescheduleAuto, PublishAutoPlaced, Publish, storeVars
    <2>. QED BY <1>1, <2>1, <2>2
  <1>5. CASE HoldNew(r) \/ HoldAuto(r)
    BY <1>5, WalletHolds DEF HoldNew, HoldAuto
  <1>6. CASE InsertNew(r) \/ WriteAuto(r)
    BY <1>1, <1>2, <1>6 DEF InsertNew, WriteAuto
  <1>7. CASE EarlyEnd(r)
    <2>1. outbox' = outbox
      BY <1>7 DEF EarlyEnd, WalletRefuses, GivesUp, WalletTimesOut, storeVars
    <2>. QED BY <1>7, <2>1, WalletEnding
  <1>. QED BY <1>3, <1>4, <1>5, <1>6, <1>7, Zenon DEF Step

LEMMA RequestKeepsWallet ==
  ASSUME PlacementInv, WalletInv, NEW r \in Requests, Arrive(r) \/ Step(r) \/ EarlyEnd(r)
  PROVE  WalletInv'
  <1>1. CASE \/ Arrive(r) \/ EnterGuard(r) \/ ReadAuction(r) \/ ReadWinner(r) \/ ReadSession(r)
             \/ ReadBoard(r) \/ ReadContest(r) \/ ReadAutoSession(r)
    BY <1>1, WalletReading
  <1>2. CASE \/ SaveOwnProxy(r) \/ SaveProxy(r) \/ ReleasePrevious(r) \/ UndoHold(r)
             \/ PublishOutbid(r) \/ UpdateListing(r) \/ RereadListing(r) \/ Reschedule(r)
             \/ PublishPlaced(r)
    BY <1>2, WalletPlacing
  <1>3. CASE \/ UndoAutoHold(r) \/ ReleaseReplaced(r) \/ PublishAutoOutbid(r)
             \/ UpdateListingAuto(r) \/ DropAutoHold(r) \/ DeleteAutoBid(r)
             \/ RescheduleAuto(r) \/ PublishAutoPlaced(r)
    BY <1>3, WalletCountering
  <1>4. CASE HoldNew(r) \/ HoldAuto(r) \/ InsertNew(r) \/ WriteAuto(r) \/ EarlyEnd(r)
    BY <1>4, WalletHolding, WalletStoring, WalletEnding
  <1>. QED BY <1>1, <1>2, <1>3, <1>4, Zenon DEF Step

LEMMA WalletInit == Init => WalletInv
  <1> SUFFICES ASSUME Init PROVE WalletInv
    OBVIOUS
  <1>1. bids = {} /\ holds = <<>>
    BY DEF Init, StoreInit
  <1>2. PICK d \in Deployments : req = [r \in DOMAIN d |-> Blank(d[r])]
    BY DEF Init
  <1>3. ASSUME NEW r \in Requests
        PROVE  WalletOK(r, req[r])
    <2>1. req[r].pc = "new"
      BY <1>2 DEF Requests, Blank
    <2>2. DOMAIN holds = {}
      BY <1>1
    <2>. QED BY <2>1, <2>2 DEF WalletOK, Countering
  <1>. QED BY <1>1, <1>3 DEF WalletInv

\* On any number of replicas, whatever fails, a stored bid has holds of its own bidder: no
\* call to release, convert or replace can name the money of somebody else.
THEOREM BidsAreBacked == Spec => [](\A x \in bids : Backed(x))
  <1>1. PlacementInv /\ WalletInv /\ [Next]_vars => WalletInv'
    <2> SUFFICES ASSUME PlacementInv, WalletInv, [Next]_vars PROVE WalletInv'
      OBVIOUS
    <2>1. ASSUME NEW r \in Requests, Arrive(r) \/ Step(r) \/ EarlyEnd(r)
          PROVE  WalletInv'
      BY <2>1, RequestKeepsWallet
    <2>2. UNCHANGED <<bids, holds, req>> => WalletInv'
      BY WalletOutside
    <2>. QED BY <2>1, <2>2 DEF Next, DeleteProxy, Tick, vars
  <1>2. WalletInv => \A x \in bids : Backed(x)
    BY DEF WalletInv
  <1>. QED BY <1>1, <1>2, WalletInit, PlacementIsSound, PTL DEF Spec
====
