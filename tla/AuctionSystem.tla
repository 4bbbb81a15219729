---------------------------- MODULE AuctionSystem ----------------------------
(***************************************************************************)
(* Bidding and closing on the rows of one auction: the requests of          *)
(* BidPlacement and the handlers of AuctionClosure, interleaved at every    *)
(* await, on PostgreSQL.  Neither side calls the other.  They meet in the   *)
(* rows of listings, bids, auction_closure_jobs and outbox_events, in the   *)
(* wallet's holds and in the lock of the auction's row: the closing takes   *)
(* it with SELECT ... FOR UPDATE, the statements of a request wait for it   *)
(* only where PostgreSQL makes them.                                        *)
(***************************************************************************)
EXTENDS AuctionStore

CONSTANTS ReplicaOf,                                 \* the requests and who serves them
          Offers, AntiSnipingWindow, AntiSnipingExtension, MaxFaults,  \* see BidPlacement
          Workers, Closers, ReservePrice,            \* see AuctionClosure
          LockTime, RetryDelay, MaxFailures, MaxCrashes,
          MaxMishaps,  \* bound: faults, failures and crashes together
          Free

ASSUME SystemAssumption ==
  /\ DOMAIN ReplicaOf \subseteq Nat \ {0}
  /\ Free \notin DOMAIN ReplicaOf \cup Workers \cup Closers
  /\ Workers \cap Closers = {}
  /\ Offers \subseteq [bidder : Bidders, kind : {"standard", "proxy"}, offer : Nat]
  /\ AntiSnipingWindow \in Nat
  /\ AntiSnipingExtension \in Nat
  /\ AntiSnipingWindow <= AntiSnipingExtension
  /\ ReservePrice \in Nat
  /\ LockTime \in Nat \ {0}
  /\ RetryDelay \in Nat \ {0}
  /\ MaxFaults \in Nat /\ MaxFailures \in Nat /\ MaxCrashes \in Nat /\ MaxMishaps \in Nat

VARIABLES guard, req, faults,                 \* see BidPlacement
          rowLock, task, failures, crashes    \* see AuctionClosure

biddingVars == <<guard, req, faults>>
closingVars == <<rowLock, task, failures, crashes>>
vars == <<storeVars, biddingVars, closingVars>>

\* nobody withdraws a proxy here, and the closing starts from what the bids leave
Bidding == INSTANCE BidPlacement WITH Deployments <- {ReplicaOf}, Deleters <- {}
Closing == INSTANCE AuctionClosure WITH Starts <- {}, Backend <- "postgres"

Requests == DOMAIN ReplicaOf

\* the auction as it was created, open, with its job; nobody is at work
Init ==
  /\ Bidding!Init
  /\ rowLock = Free
  /\ task = [p \in Closing!Handlers |-> Closing!Idle]
  /\ failures = 0
  /\ crashes = 0

Slip_InsertsDoNotWait(r) == req[r].pc \in {"update", "autoupdate"}

\* Statements that wait for the transaction that has the row FOR UPDATE: the UPDATEs
\* of listings, and the INSERTs of rows whose foreign key refers to it.  An UPDATE
\* or DELETE of a bid, an UPDATE of a proxy and the upsert of the job's row do not.
NeedsRow(r) ==
  LET q == req[r]
      hasProxy == \E p \in proxies : p.bidder = q.bidder
  IN  \/ q.pc \in {"insert", "update", "autoupdate"}
      \/ q.pc \in {"saveproxy", "ownproxy"} /\ ~hasProxy
      \/ q.pc = "autowrite" /\ ~Bidding!RaisesOwn(r)

BidStep(r) ==
  /\ NeedsRow(r) => rowLock = Free
  /\ Bidding!Step(r)
  /\ UNCHANGED closingVars

Mishaps == faults + failures + crashes

BidInput(r) ==
  /\ Bidding!Arrive(r) \/ Bidding!EarlyEnd(r)
  /\ UNCHANGED closingVars
  /\ Mishaps' <= MaxMishaps

CloseStep(p) == Closing!Step(p) /\ UNCHANGED biddingVars

CloseInput(p) ==
  /\ Closing!Request(p) \/ Closing!FailClosure(p) \/ Closing!WalletFails(p) \/ Closing!CutShort(p)
  /\ UNCHANGED biddingVars
  /\ Mishaps' <= MaxMishaps

Time == Tick /\ UNCHANGED <<biddingVars, closingVars>>

Next ==
  \/ \E r \in Requests : BidStep(r) \/ BidInput(r)
  \/ \E p \in Closing!Handlers : CloseStep(p) \/ CloseInput(p)
  \/ Time

Spec == Init /\ [][Next]_vars

\* the runtime keeps polling requests and handlers, and time goes on
FairSpec ==
  /\ Spec
  /\ WF_vars(Time)
  /\ \A r \in Requests : WF_vars(BidStep(r))
  /\ \A p \in Closing!Handlers : WF_vars(CloseStep(p))

-----------------------------------------------------------------------------
(* Properties *)

Closed == Closing!Closed

\* docs/3. Software Architecture.md:31: "bid and closure mutation paths use database
\* transactions and row locks".  An outcome that a closing has committed is therefore
\* not written over by a bid that was accepted on the row as it was before.
OutcomeIsFinal == [][Closed => Closed']_vars

\* Only a request already under way can write over an outcome: an auction that is
\* closed while no request is inside the mutex stays closed, although requests with
\* an earlier time may still be waiting for the mutex.
ClosedForGood == [](Closed /\ Bidding!Quiet => []Closed)

\* A closing decides by every bid that is stored when it commits: inserts wait for the
\* row it has locked.  Only a proxy that raises its own bid in place does not wait, so
\* that the amount it decided by may be too low.
DecidedByAllBids ==
  [][~Closed /\ Closed' =>
       \E p \in Closing!Handlers :
         LET rows == task[p].rows
         IN  /\ listing'.status = Closing!Outcome(rows)
             /\ {x.id : x \in rows} = {y.id : y \in bids}
             /\ \A x \in rows, y \in bids :
                  x.id = y.id /\ x # y => x.bidder = y.bidder /\ x.amount < y.amount]_vars

\* However often an auction is closed, reopened by a late write and closed again,
\* nobody pays who was not announced as its winner.
OnlyWinnerPays ==
  \A i \in DOMAIN holds : holds[i].state = "converted" =>
    \E e \in Closing!EndedEvents : /\ e[3] = "WON"
                                   /\ e[4] \in DOMAIN holds
                                   /\ holds[e[4]].bidder = holds[i].bidder

\* Closings included, no bidder's money stays locked for a bid that does not lead: an
\* automatic bid whose UPDATE finds the price the closing has written gives its hold
\* back, and still each fault strands one hold at most, and without a fault none is.
StrandedHoldsStayFew == Bidding!StrandedHoldsNeedFaults

\* Every request is answered, so that time and again nobody waits for the mutex or is
\* inside: neither the mutex nor the lock of the row is kept by anyone who fails, is
\* refused, goes away or crashes.
EveryRequestAnswered == []<>(\A r \in Requests : req[r].pc \in {"new", "done"})
=============================================================================
