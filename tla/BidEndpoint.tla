---------------------------- MODULE BidEndpoint ----------------------------
(***************************************************************************)
(* A replica's HTTP interface (src/src/http/router.rs): requests to bid on  *)
(* one auction, to create auctions and to close one, from their arrival to  *)
(* the answer, with the calls of the catalogue and the wallet that bids and *)
(* creations wait for, the mutex of the auction, and the request metrics.   *)
(* What the database answers is left open here; BidPlacement, AuctionCreate *)
(* and AuctionClosure, which also has the calls of a closing, have it.      *)
(***************************************************************************)
EXTENDS ServiceClient, Naturals, FiniteSets

CONSTANTS Loads,      \* what the requests may be: functions to Kinds
          Durations,  \* how long requests take, in ms
          Free        \* the mutex when nobody holds it

Kinds == {"bid", "proxy", "create", "close"}

ASSUME EndpointAssumption ==
  /\ IsFiniteSet(Requests)
  /\ Loads \subseteq [Requests -> Kinds]
  /\ Durations \subseteq Nat
  /\ Free \notin Requests

VARIABLES guard,   \* who is inside the mutex of the auction
          req,     \* per request: its kind, the step it is at, the status of its answer
          metrics  \* METRICS, the counters of router.rs

vars == <<clientVars, guard, req, metrics>>

Buckets == {500, 1000, 2500}  \* of the eight finite ones, those the classes of the apdex meet

Init ==
  /\ ClientInit
  /\ guard = Free
  /\ \E load \in Loads :
       req = [r \in Requests |-> [kind |-> load[r], at |-> "new", status |-> 0]]
  /\ metrics = [requests |-> 0, errors |-> 0, satisfied |-> 0, tolerating |-> 0,
                frustrated |-> 0, bids |-> 0, created |-> 0, closed |-> 0, inf |-> 0,
                le |-> [b \in Buckets |-> 0]]

At(r, step) == req[r].at = step
Places(r) == req[r].kind \in {"bid", "proxy"}

\* the answers of success: CREATED, and for a closing OK
Succeeded(r) == req[r].status \in {200, 201}

Goto(r, step) == req' = [req EXCEPT ![r].at = step]

\* the service has returned: the mutex is given back, the status is known
Finish(r, status) ==
  /\ req' = [req EXCEPT ![r].at = "record", ![r].status = status]
  /\ guard' = IF guard = r THEN Free ELSE guard
  /\ UNCHANGED metrics

Quietly == UNCHANGED <<guard, metrics>>

\* a request that waits for a call is at the step of that name
Asks(r, op) == Make(<<r, op>>) /\ Goto(r, op) /\ Quietly

-----------------------------------------------------------------------------
(* The handler, as far as the service *)

\* A missing user, amount or field, or a user that is not the trusted one, is answered
\* before anything is counted; whoever closes names nobody
Arrive(r) ==
  /\ At(r, "new")
  /\ \/ /\ req[r].kind # "close"
        /\ \E status \in {400, 403} :
             req' = [req EXCEPT ![r].at = "answered", ![r].status = status]
     \/ Goto(r, CASE Places(r) -> "lookup"
                  [] req[r].kind = "create" -> "validate"
                  [] req[r].kind = "close" -> "closing")
  /\ Quietly
  /\ UNCHANGED clientVars

Validate(r) ==
  /\ At(r, "validate")
  /\ Finish(r, 400) \/ (Goto(r, "listing") /\ Quietly)
  /\ UNCHANGED clientVars

FindAuction(r) ==
  /\ At(r, "lookup")
  /\ Finish(r, 404) \/ Finish(r, 500) \/ (Goto(r, "waiting") /\ Quietly)
  /\ UNCHANGED clientVars

EnterGuard(r) ==
  /\ At(r, "waiting")
  /\ guard = Free
  /\ guard' = r
  /\ Goto(r, "read")
  /\ UNCHANGED <<clientVars, metrics>>

\* a standard bid that is there already is answered as if it had just been placed
ReadAuction(r) ==
  /\ At(r, "read")
  /\ \/ req[r].kind = "bid" /\ Finish(r, 201)
     \/ Finish(r, 500)
     \/ Goto(r, "listing") /\ Quietly
  /\ UNCHANGED clientVars

\* require_active_listing; for a bid it is asked inside the mutex
AskCatalogue(r) ==
  /\ At(r, "listing")
  /\ endpoint.catalogue # "none"
  /\ Asks(r, "summary")

NoCatalogue(r) ==
  /\ At(r, "listing")
  /\ endpoint.catalogue = "none"
  /\ Finish(r, 400)
  /\ UNCHANGED clientVars

ReadSummary(r) ==
  /\ At(r, "summary")
  /\ Over(<<r, "summary">>)
  /\ \/ Finish(r, 400)     \* failed, unknown, or not biddable
     \/ /\ call[<<r, "summary">>].heard = "ok"
        /\ Goto(r, IF Places(r) THEN "rules" ELSE "store")
        /\ Quietly
  /\ UNCHANGED clientVars

\* the bid is refused, raises the leader's own maximum, or needs money
CheckRules(r) ==
  /\ At(r, "rules")
  /\ \/ \E status \in {400, 500} : Finish(r, status) /\ UNCHANGED clientVars
     \/ req[r].kind = "proxy" /\ Finish(r, 201) /\ UNCHANGED clientVars
     \/ endpoint.wallet = "none" /\ Goto(r, "insert") /\ Quietly /\ UNCHANGED clientVars
     \/ endpoint.wallet # "none" /\ (Asks(r, "release") \/ Asks(r, "hold"))

Released(r) ==
  /\ At(r, "release")
  /\ call[<<r, "release">>].heard = "ok"
  /\ Asks(r, "hold")

HoldPlaced(r) ==
  /\ At(r, "hold")
  /\ call[<<r, "hold">>].heard = "ok"
  /\ Goto(r, "insert")
  /\ Quietly
  /\ UNCHANGED clientVars

\* 402, whether the wallet refused, failed or did not answer in time; when it was the
\* counter-bid that could not be paid, the bid itself is stored all the same
NotPaid(r) ==
  /\ \E op \in {"release", "hold", "counter"} :
       At(r, op) /\ call[<<r, op>>].heard \in {"refused", "failed"}
  /\ Finish(r, 402)
  /\ UNCHANGED clientVars

InsertBid(r) == At(r, "insert") /\ Goto(r, "store") /\ Quietly /\ UNCHANGED clientVars

InsertFails(r) ==
  /\ At(r, "insert")
  /\ IF endpoint.wallet = "none" THEN Finish(r, 500) /\ UNCHANGED clientVars
                                 ELSE Asks(r, "undo")

\* whatever came of taking the hold back
Undone(r) == At(r, "undo") /\ Over(<<r, "undo">>) /\ Finish(r, 500) /\ UNCHANGED clientVars

\* The statements that follow the bid, or that store an auction: the listing is somebody
\* else's, or the counter-bid is refused (400), one of them fails, or all is done
Store(r) ==
  /\ At(r, "store")
  /\ \E status \in {201, 400, 500} : Finish(r, status)
  /\ UNCHANGED clientVars

\* a proxy counters; here "counter" stands for all wallet calls of resolve_proxy_auto_bid
Counter(r) ==
  /\ At(r, "store")
  /\ Places(r) /\ endpoint.wallet # "none"
  /\ Asks(r, "counter")

Countered(r) ==
  /\ At(r, "counter")
  /\ call[<<r, "counter">>].heard = "ok"
  /\ Finish(r, 201) \/ Finish(r, 500)
  /\ UNCHANGED clientVars

\* close_auction: not found, not ended, the wallet, the database, or closed
Close(r) ==
  /\ At(r, "closing")
  /\ \E status \in {200, 400, 402, 404, 500} : Finish(r, status)
  /\ UNCHANGED clientVars

-----------------------------------------------------------------------------
(* METRICS, and the answer *)

Slip_ForgetsErrors(r, ms) ==
  LET error == IF req[r].status >= 500 THEN 1 ELSE 0
      counts(below) == IF below THEN 1 ELSE 0
  IN  metrics' = [metrics EXCEPT
        !.requests = @ + 1,
        !.errors = @ + error,
        !.satisfied = @ + counts(ms <= 500),
        !.tolerating = @ + counts(500 < ms /\ ms <= 2000),
        !.frustrated = @ + counts(2000 < ms),
        !.inf = @ + 1,
        !.le = [b \in Buckets |-> @[b] + counts(ms <= b)]]

\* record_request, with the counters taken together: each is added to atomically
RecordRequest(r, ms) ==
  LET counts(condition) == IF condition THEN 1 ELSE 0
  IN  metrics' = [metrics EXCEPT
        !.requests = @ + 1,
        !.errors = @ + counts(~Succeeded(r)),
        !.satisfied = @ + counts(ms <= 500),
        !.tolerating = @ + counts(500 < ms /\ ms <= 2000),
        !.frustrated = @ + counts(2000 < ms),
        !.inf = @ + 1,
        !.le = [b \in Buckets |-> @[b] + counts(ms <= b)]]

Record(r) ==
  /\ At(r, "record")
  /\ \E ms \in Durations : RecordRequest(r, ms)
  /\ Goto(r, IF Succeeded(r) THEN "count" ELSE "answered")
  /\ UNCHANGED <<clientVars, guard>>

\* bids_placed, auctions_created or auctions_closed, also for what was there already
Count(r) ==
  /\ At(r, "count")
  /\ \/ Places(r) /\ metrics' = [metrics EXCEPT !.bids = @ + 1]
     \/ req[r].kind = "create" /\ metrics' = [metrics EXCEPT !.created = @ + 1]
     \/ req[r].kind = "close" /\ metrics' = [metrics EXCEPT !.closed = @ + 1]
  /\ Goto(r, "answered")
  /\ UNCHANGED <<clientVars, guard>>

InService(r) == req[r].at \notin {"new", "record", "count", "answered", "gone"}

\* The client closes its connection: axum drops the handler's future at its await, and
\* with it the mutex and the call under way
GoAway(r) ==
  /\ InService(r)
  /\ Goto(r, "gone")
  /\ guard' = IF guard = r THEN Free ELSE guard
  /\ IF req[r].at \in Ops /\ ~Over(<<r, req[r].at>>) THEN Abandon(<<r, req[r].at>>)
                                                   ELSE UNCHANGED clientVars
  /\ UNCHANGED metrics

-----------------------------------------------------------------------------
Handle(r) ==
  \/ Validate(r) \/ FindAuction(r) \/ EnterGuard(r) \/ ReadAuction(r)
  \/ AskCatalogue(r) \/ NoCatalogue(r) \/ ReadSummary(r) \/ CheckRules(r)
  \/ Released(r) \/ HoldPlaced(r) \/ NotPaid(r)
  \/ InsertBid(r) \/ InsertFails(r) \/ Undone(r)
  \/ Store(r) \/ Counter(r) \/ Countered(r)
  \/ Close(r)
  \/ Record(r) \/ Count(r)

PollCall(c) == Poll(c) /\ UNCHANGED <<guard, req, metrics>>
NetworkStep(c) == Network(c) /\ UNCHANGED <<guard, req, metrics>>

Next ==
  \/ \E r \in Requests : Arrive(r) \/ Handle(r) \/ GoAway(r)
  \/ \E c \in Calls : PollCall(c) \/ NetworkStep(c)

Spec == Init /\ [][Next]_vars

\* the runtime polls what is ready and fires its timers; the other services may be silent
FairSpec ==
  /\ Spec
  /\ \A r \in Requests : WF_vars(Handle(r))
  /\ \A c \in Calls : WF_vars(PollCall(c))

-----------------------------------------------------------------------------
(* Properties *)

\* Every request is answered, or its client has left, unless some call of the catalogue is
\* never answered: that call has no time limit and, for a bid, is made inside the mutex
\* (auction_core.rs:209), so one silent catalogue connection stops every bid on the auction.
\* The database is taken to answer every statement (Handle, which stands for them, is fair):
\* the promise is about the other services, and one statement without an answer inside the
\* mutex would stop the auction's bids as a silent catalogue does.
AnsweredUnlessCatalogueSilent ==
  (\A r \in Requests : []<>~At(r, "summary"))
    => \A r \in Requests : InService(r) ~> req[r].at \in {"answered", "gone"}

\* recorded, and about to be counted as a bid, an auction or a closing
Counting == {r \in Requests : At(r, "count")}

\* What /metrics reports fits together whatever the requests did: every request it counts
\* is in one class of the apdex and in the last bucket, the classes fit the buckets between
\* them, and it is an error, a success of its kind, or is about to be counted as one (router.rs:80-124).
\* Requests that were refused early, or whose client left, are in none of the counters.
CountersAgree ==
  /\ metrics.requests = metrics.satisfied + metrics.tolerating + metrics.frustrated
  /\ metrics.requests = metrics.inf
  /\ metrics.requests =
       metrics.errors + metrics.bids + metrics.created + metrics.closed + Cardinality(Counting)
  /\ metrics.satisfied = metrics.le[500]
  /\ metrics.le[1000] <= metrics.satisfied + metrics.tolerating
  /\ metrics.satisfied + metrics.tolerating <= metrics.le[2500]
=============================================================================
