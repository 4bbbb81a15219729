------------------------- MODULE BidEndpointProofs -------------------------
(***************************************************************************)
(* Proofs about the clients of the other services and the endpoint that     *)
(* uses them: both implement RemoteCall, for any requests, any kinds of     *)
(* request and any transports, and the endpoint's counters add up.          *)
(***************************************************************************)
EXTENDS BidEndpoint, FiniteSetTheorems, TLAPS

-----------------------------------------------------------------------------
(* The clients on their own *)

\* What is on the wire or told to the caller agrees with what the service has done:
\* a request on the wire has not been served yet, a success was, a refusal never will be
Honest(c) ==
  LET k == call[c]
  IN  /\ k.wire \in {"request", "refused"} => ~k.done
      /\ k.wire \in {"ok", "garbled"} => k.done
      /\ k.heard = "ok" => k.done
      /\ k.heard = "refused" => ~k.done /\ k.wire = "none"
      /\ k.at = "unmade" => k.heard = "unmade"
      /\ k.at \in {"unmade", "connect", "ready", "send"} => k.wire = "none" /\ ~k.done
      /\ UnderWay(c) => k.heard = "pending"
      /\ k.at = "over" => k.wire \in {"none", "request"}
      /\ k.wire = "request" => k.heard \in {"pending", "failed"}

CallType ==
  [Calls -> [at : {"unmade", "connect", "ready", "send", "await", "over"},
             wire : {"none", "request", "ok", "garbled", "refused", "error"},
             done : BOOLEAN,
             heard : {"unmade", "pending", "ok", "refused", "failed"}]]

ClientInv == call \in CallType /\ \A c \in Calls : Honest(c)

LEMMA InitHonest == ClientInit => ClientInv
  BY DEF ClientInit, ClientInv, CallType, Honest, UnderWay, Unmade

LEMMA StepHonest == ClientInv /\ [ClientNext]_clientVars => ClientInv'
<1> SUFFICES ASSUME ClientInv, [ClientNext]_clientVars PROVE ClientInv'
  OBVIOUS
<1> USE DEF ClientInv
<1>1. CASE UNCHANGED clientVars
  BY <1>1 DEF clientVars, CallType, Honest, UnderWay
<1>2. ASSUME NEW c \in Calls, Make(c) PROVE ClientInv'
  BY <1>2 DEF Make, CallType, Honest, UnderWay
<1>3. ASSUME NEW c \in Calls, Abandon(c) PROVE ClientInv'
  BY <1>3 DEF Abandon, End, CallType, Honest, UnderWay
<1>4. ASSUME NEW c \in Calls, Send(c) PROVE ClientInv'
  BY <1>4 DEF Send, CallType, Honest, UnderWay
<1>5. ASSUME NEW c \in Calls, Receive(c) PROVE ClientInv'
  <2>1. /\ FromReply(c, call[c].wire) \in {"ok", "refused", "failed"}
        /\ FromReply(c, call[c].wire) = "ok" => call[c].wire \in {"ok", "garbled"}
        /\ FromReply(c, call[c].wire) = "refused" => call[c].wire = "refused"
    BY DEF FromReply
  <2> QED
    BY <1>5, <2>1 DEF Receive, End, CallType, Honest, UnderWay
<1>6. ASSUME NEW c \in Calls, TimeLimit(c) PROVE ClientInv'
  BY <1>6 DEF TimeLimit, End, CallType, Honest, UnderWay
<1>7. ASSUME NEW c \in Calls, Connect(c) \/ Ready(c) PROVE ClientInv'
  <2>1. PICK from \in {"connect", "ready"}, to \in {"ready", "send"} : Proceed(c, from, to)
    BY <1>7 DEF Connect, Ready
  <2> QED
    BY <2>1 DEF Proceed, CallType, Honest, UnderWay
<1>8. ASSUME NEW c \in Calls, Unreachable(c) PROVE ClientInv'
  BY <1>8 DEF Unreachable, End, CallType, Honest, UnderWay
<1>9. ASSUME NEW c \in Calls, Serve(c) PROVE ClientInv'
  BY <1>9 DEF Serve, Replies, Over, CallType, Honest, UnderWay
<1>10. ASSUME NEW c \in Calls, Decline(c) PROVE ClientInv'
  BY <1>10 DEF Decline, Replies, Over, CallType, Honest, UnderWay
<1> QED
  BY <1>1, <1>2, <1>3, <1>4, <1>5, <1>6, <1>7, <1>8, <1>9, <1>10
     DEF ClientNext, Poll, Network

LEMMA ClientSafe == ClientSpec => []ClientInv
  BY InitHonest, StepHonest, PTL DEF ClientSpec

LEMMA InitImplements == ClientInit => Remote!Init
  BY DEF ClientInit, Remote!Init, Unmade

\* a step that touches one call shows RemoteCall that call alone
LEMMA StepImplements ==
  ClientInv /\ [ClientNext]_clientVars => [Remote!Next]_Remote!vars
<1> SUFFICES ASSUME ClientInv, [ClientNext]_clientVars PROVE [Remote!Next]_Remote!vars
  OBVIOUS
<1> USE DEF ClientInv
<1> DEFINE heard == [c \in Calls |-> call[c].heard]
           done == [c \in Calls |-> call[c].done]
<1>1. CASE UNCHANGED clientVars
  BY <1>1 DEF clientVars, Remote!vars
<1>2. ASSUME NEW c \in Calls, Make(c) PROVE Remote!Make(c)
  BY <1>2 DEF Make, CallType, Honest, Remote!Make
<1>3. ASSUME NEW c \in Calls, NEW a \in {"ok", "refused", "failed"}, End(c, a),
             call[c].heard = "pending", a = "ok" => call[c].done, a = "refused" => ~call[c].done
      PROVE  Remote!Learn(c, a)
  BY <1>3 DEF End, CallType, Remote!Learn
<1>4. ASSUME NEW c \in Calls, Abandon(c) \/ TimeLimit(c) \/ Unreachable(c)
      PROVE  Remote!Learn(c, "failed")
  BY <1>3, <1>4 DEF Abandon, TimeLimit, Unreachable, Honest, UnderWay
<1>5. ASSUME NEW c \in Calls, Receive(c)
      PROVE  \E a \in {"ok", "refused", "failed"} : Remote!Learn(c, a)
  <2>1. /\ FromReply(c, call[c].wire) \in {"ok", "refused", "failed"}
        /\ FromReply(c, call[c].wire) = "ok" => call[c].wire \in {"ok", "garbled"}
        /\ FromReply(c, call[c].wire) = "refused" => call[c].wire = "refused"
    BY DEF FromReply
  <2> QED
    BY <1>3, <1>5, <2>1 DEF Receive, Honest, UnderWay
<1>6. ASSUME NEW c \in Calls, Serve(c) PROVE Remote!TakeEffect(c)
  BY <1>6 DEF Serve, Replies, CallType, Honest, Remote!TakeEffect
<1>7. ASSUME NEW c \in Calls, Send(c) \/ Connect(c) \/ Ready(c) \/ Decline(c)
      PROVE  UNCHANGED Remote!vars
  <2>1. \A d \in Calls : call'[d].heard = call[d].heard /\ call'[d].done = call[d].done
    BY <1>7 DEF Send, Connect, Ready, Proceed, Decline, Replies, CallType, Honest
  <2> QED
    BY <2>1 DEF Remote!vars
<1> QED
  BY <1>1, <1>2, <1>4, <1>5, <1>6, <1>7 DEF ClientNext, Poll, Network, Remote!Next

\* However a call ends, its caller is told no more than what has happened to it: "ok" only
\* after the effect, "refused" only when there will be none (wallet_client.rs, catalog_client.rs).
THEOREM ClientImplementsCall == ClientSpec => ImplementsCall
<1>1. ClientSpec => []ClientInv
  BY ClientSafe
<1>2. ClientInit => Remote!Init
  BY InitImplements
<1>3. ClientInv /\ [ClientNext]_clientVars => [Remote!Next]_Remote!vars
  BY StepImplements
<1> QED
  BY <1>1, <1>2, <1>3, PTL DEF ClientSpec, ImplementsCall, Remote!Spec

-----------------------------------------------------------------------------
(* The endpoint uses the clients as they are meant to be used *)

LEMMA HandlerCalls ==
  ASSUME NEW r \in Requests, Arrive(r) \/ Handle(r) \/ GoAway(r)
  PROVE  [ClientNext]_clientVars
<1>1. ASSUME NEW op \in Ops, Make(<<r, op>>) PROVE ClientNext
  BY <1>1 DEF ClientNext, Calls
<1>2. CASE AskCatalogue(r) \/ CheckRules(r) \/ Released(r) \/ InsertFails(r) \/ Counter(r)
  BY <1>1, <1>2 DEF AskCatalogue, CheckRules, Released, InsertFails, Counter, Asks, Ops
<1>3. CASE Arrive(r) \/ Validate(r) \/ FindAuction(r) \/ EnterGuard(r) \/ ReadAuction(r)
           \/ NoCatalogue(r) \/ ReadSummary(r) \/ HoldPlaced(r) \/ NotPaid(r) \/ InsertBid(r)
           \/ Undone(r) \/ Store(r) \/ Countered(r) \/ Close(r)
           \/ Record(r) \/ Count(r)
  BY <1>3 DEF Arrive, Validate, FindAuction, EnterGuard, ReadAuction, NoCatalogue, ReadSummary,
              HoldPlaced, NotPaid, InsertBid, Undone, Store, Countered, Close, Record, Count
<1>4. CASE GoAway(r)
  BY <1>4 DEF GoAway, ClientNext, Calls
<1> QED
  BY <1>2, <1>3, <1>4 DEF Handle

LEMMA EndpointUsesClients == Spec => ClientSpec
<1>1. Init => ClientInit
  BY DEF Init
<1>2. [Next]_vars => [ClientNext]_clientVars
  BY HandlerCalls DEF Next, PollCall, NetworkStep, ClientNext, vars, clientVars
<1> QED
  BY <1>1, <1>2, PTL DEF Spec, ClientSpec

\* So does every request of the endpoint, whatever it is, whoever leaves, and however the
\* calls it makes inside and outside the mutex end.
THEOREM EndpointImplementsCall == Spec => ImplementsCall
  BY EndpointUsesClients, ClientImplementsCall

-----------------------------------------------------------------------------
(* The counters *)

Steps ==
  {"new", "lookup", "validate", "waiting", "read", "listing", "summary", "rules", "release", "hold",
   "insert", "undo", "store", "counter", "closing", "record", "count", "answered", "gone"}

Request == [kind : Kinds, at : Steps, status : Nat]

Counters ==
  [requests : Nat, errors : Nat, satisfied : Nat, tolerating : Nat, frustrated : Nat,
   bids : Nat, created : Nat, closed : Nat, inf : Nat, le : [Buckets -> Nat]]

\* only a request that placed something is about to be counted as one that did
RequestsOK ==
  /\ req \in [Requests -> Request]
  /\ \A r \in Requests : At(r, "count") => Succeeded(r)

MetricsInv == RequestsOK /\ metrics \in Counters /\ CountersAgree

LEMMA CountingIsFinite == IsFiniteSet(Counting) /\ Cardinality(Counting) \in Nat
<1>1. Counting \subseteq Requests
  BY DEF Counting
<1> QED
  BY <1>1, FS_Subset, FS_CardinalityType, EndpointAssumption

LEMMA InitMetrics == Init => MetricsInv
<1> SUFFICES ASSUME Init PROVE MetricsInv
  OBVIOUS
<1>1. PICK load \in Loads :
        req = [r \in Requests |-> [kind |-> load[r], at |-> "new", status |-> 0]]
  BY DEF Init
<1>2. \A r \in Requests : load[r] \in Kinds
  BY EndpointAssumption
<1>3. ASSUME NEW r \in Requests PROVE req[r] \in Request /\ ~At(r, "count")
  <2>1. req[r] = [kind |-> load[r], at |-> "new", status |-> 0]
    BY <1>1
  <2> QED
    BY <1>2, <2>1 DEF Request, Steps, At
<1>4. RequestsOK
  BY <1>1, <1>3 DEF RequestsOK
<1>5. Cardinality(Counting) = 0
  BY <1>3, FS_EmptySet DEF Counting
<1>6. metrics = [requests |-> 0, errors |-> 0, satisfied |-> 0, tolerating |-> 0,
                 frustrated |-> 0, bids |-> 0, created |-> 0, closed |-> 0, inf |-> 0,
                 le |-> [b \in Buckets |-> 0]]
  BY DEF Init
<1>7. metrics \in Counters
  BY <1>6 DEF Counters
<1>8. metrics.le = [b \in Buckets |-> 0]
  BY <1>6
<1>9. metrics.le[500] = 0 /\ metrics.le[1000] = 0 /\ metrics.le[2500] = 0
  BY <1>8 DEF Buckets
<1>10. CountersAgree
  BY <1>5, <1>6, <1>9 DEF CountersAgree
<1> QED
  BY <1>4, <1>7, <1>10 DEF MetricsInv

\* whoever neither arrives at nor leaves the last step of counting leaves the sums alone
LEMMA UncountedStep ==
  ASSUME MetricsInv, metrics' = metrics, NEW r \in Requests, NEW w \in Request,
         req' = [req EXCEPT ![r] = w], w.at # "count", ~At(r, "count")
  PROVE  MetricsInv'
<1>1. req' \in [Requests -> Request] /\ req'[r] = w /\ \A q \in Requests \ {r} : req'[q] = req[q]
  BY DEF MetricsInv, RequestsOK
<1>2. Counting' = Counting
  BY <1>1 DEF Counting, At
<1>3. RequestsOK'
  BY <1>1 DEF MetricsInv, RequestsOK, At, Succeeded
<1>4. CountersAgree'
  <2>1. CountersAgree /\ metrics \in Counters
    BY DEF MetricsInv
  <2>2. Cardinality(Counting') = Cardinality(Counting)
    BY <1>2
  <2> QED
    BY <2>1, <2>2, CountingIsFinite DEF CountersAgree, Counters
<1> QED
  BY <1>3, <1>4 DEF MetricsInv

LEMMA FinishStep ==
  ASSUME MetricsInv, NEW r \in Requests, NEW status \in Nat, Finish(r, status), ~At(r, "count")
  PROVE  MetricsInv'
<1> DEFINE w == [req[r] EXCEPT !.at = "record", !.status = status]
<1>1. req[r] \in Request
  BY DEF MetricsInv, RequestsOK
<1>2. w \in Request /\ w.at # "count"
  BY <1>1 DEF Request, Steps
<1>3. req' = [req EXCEPT ![r] = w] /\ metrics' = metrics
  BY DEF Finish
<1> QED
  BY <1>2, <1>3, UncountedStep

LEMMA RefusedStep ==
  ASSUME MetricsInv, NEW r \in Requests, NEW status \in Nat,
         req' = [req EXCEPT ![r].at = "answered", ![r].status = status],
         metrics' = metrics, ~At(r, "count")
  PROVE  MetricsInv'
<1> DEFINE w == [req[r] EXCEPT !.at = "answered", !.status = status]
<1>1. req[r] \in Request
  BY DEF MetricsInv, RequestsOK
<1>2. w \in Request /\ w.at # "count"
  BY <1>1 DEF Request, Steps
<1>3. req' = [req EXCEPT ![r] = w]
  OBVIOUS
<1> QED
  BY <1>2, <1>3, UncountedStep

LEMMA GotoStep ==
  ASSUME MetricsInv, NEW r \in Requests, NEW step \in Steps \ {"count"}, Goto(r, step),
         metrics' = metrics, ~At(r, "count")
  PROVE  MetricsInv'
<1> DEFINE w == [req[r] EXCEPT !.at = step]
<1>1. req[r] \in Request
  BY DEF MetricsInv, RequestsOK
<1>2. w \in Request /\ w.at # "count"
  BY <1>1 DEF Request
<1>3. req' = [req EXCEPT ![r] = w]
  BY DEF Goto
<1> QED
  BY <1>2, <1>3, UncountedStep

LEMMA AddedTo ==
  ASSUME NEW m \in Counters, NEW n \in Nat, NEW e \in Nat, NEW sat \in Nat, NEW tol \in Nat,
         NEW fru \in Nat, NEW i \in Nat, NEW le \in [Buckets -> Nat]
  PROVE  [m EXCEPT !.requests = n, !.errors = e, !.satisfied = sat, !.tolerating = tol,
                   !.frustrated = fru, !.inf = i, !.le = le] \in Counters
  BY DEF Counters

LEMMA RecordStep ==
  ASSUME MetricsInv, NEW r \in Requests, Record(r)
  PROVE  MetricsInv'
<1>1. PICK ms \in Nat : RecordRequest(r, ms)
  BY EndpointAssumption DEF Record
<1> DEFINE w == [req[r] EXCEPT !.at = IF Succeeded(r) THEN "count" ELSE "answered"]
           error == IF ~Succeeded(r) THEN 1 ELSE 0
           placed == IF Succeeded(r) THEN 1 ELSE 0
<1>2. req[r] \in Request /\ ~At(r, "count")
  BY DEF MetricsInv, RequestsOK, Record, At
<1>3. /\ w \in Request
      /\ w.at = "count" <=> Succeeded(r)
      /\ w.status = req[r].status
  BY <1>2 DEF Request, Steps
<1>4. req' = [req EXCEPT ![r] = w]
  BY DEF Record, Goto
<1> HIDE DEF w
<1>5. req' \in [Requests -> Request] /\ req'[r] = w /\ \A q \in Requests \ {r} : req'[q] = req[q]
  BY <1>3, <1>4 DEF MetricsInv, RequestsOK
<1>6. RequestsOK'
  BY <1>3, <1>5 DEF MetricsInv, RequestsOK, At, Succeeded
<1>7. Cardinality(Counting') = Cardinality(Counting) + placed
  <2>1. CASE Succeeded(r)
    <3>1. Counting' = Counting \cup {r} /\ r \notin Counting
      BY <1>2, <1>3, <1>5, <2>1 DEF Counting, At
    <3> QED
      BY <2>1, <3>1, CountingIsFinite, FS_AddElement
  <2>2. CASE ~Succeeded(r)
    <3>1. Counting' = Counting
      BY <1>2, <1>3, <1>5, <2>2 DEF Counting, At
    <3> QED
      BY <2>2, <3>1, CountingIsFinite
  <2> QED
    BY <2>1, <2>2
<1>8. metrics \in Counters
  BY DEF MetricsInv
<1> DEFINE counts(condition) == IF condition THEN 1 ELSE 0
           le == [b \in Buckets |-> metrics.le[b] + counts(ms <= b)]
           sat == counts(ms <= 500)
           tol == counts(500 < ms /\ ms <= 2000)
           fru == counts(2000 < ms)
<1>9. /\ metrics' \in Counters
      /\ metrics'.requests = metrics.requests + 1
      /\ metrics'.inf = metrics.inf + 1
      /\ metrics'.errors = metrics.errors + error
      /\ metrics'.bids = metrics.bids /\ metrics'.created = metrics.created
      /\ metrics'.closed = metrics.closed
      /\ metrics'.satisfied = metrics.satisfied + sat
      /\ metrics'.tolerating = metrics.tolerating + tol
      /\ metrics'.frustrated = metrics.frustrated + fru
      /\ metrics'.le = le
  <2>1. metrics' = [metrics EXCEPT
          !.requests = metrics.requests + 1, !.errors = metrics.errors + error,
          !.satisfied = metrics.satisfied + sat, !.tolerating = metrics.tolerating + tol,
          !.frustrated = metrics.frustrated + fru, !.inf = metrics.inf + 1, !.le = le]
    BY <1>1 DEF RecordRequest
  <2>2. error \in Nat /\ sat \in Nat /\ tol \in Nat /\ fru \in Nat
    OBVIOUS
  <2>3. le \in [Buckets -> Nat]
    BY <1>8 DEF Counters
  <2>4. /\ metrics.requests + 1 \in Nat /\ metrics.inf + 1 \in Nat
        /\ metrics.errors + error \in Nat /\ metrics.satisfied + sat \in Nat
        /\ metrics.tolerating + tol \in Nat /\ metrics.frustrated + fru \in Nat
    BY <1>8, <2>2 DEF Counters
  <2> HIDE DEF error, sat, tol, fru, le
  <2>5. /\ metrics'.requests = metrics.requests + 1
        /\ metrics'.inf = metrics.inf + 1
        /\ metrics'.errors = metrics.errors + error
    BY <1>8, <2>1 DEF Counters
  <2>6. /\ metrics'.bids = metrics.bids /\ metrics'.created = metrics.created
        /\ metrics'.closed = metrics.closed
        /\ metrics'.le = le
    BY <1>8, <2>1 DEF Counters
  <2>7. /\ metrics'.satisfied = metrics.satisfied + sat
        /\ metrics'.tolerating = metrics.tolerating + tol
        /\ metrics'.frustrated = metrics.frustrated + fru
    BY <1>8, <2>1 DEF Counters
  <2>8. metrics' \in Counters
    BY <1>8, <2>1, <2>3, <2>4, AddedTo
  <2> QED
    BY <2>5, <2>6, <2>7, <2>8
<1>10. /\ metrics'.le[500] = metrics.le[500] + counts(ms <= 500)
       /\ metrics'.le[1000] = metrics.le[1000] + counts(ms <= 1000)
       /\ metrics'.le[2500] = metrics.le[2500] + counts(ms <= 2500)
       /\ metrics.le[500] \in Nat /\ metrics.le[1000] \in Nat /\ metrics.le[2500] \in Nat
  <2>1. \A b \in Buckets : metrics'.le[b] = metrics.le[b] + counts(ms <= b) /\ metrics.le[b] \in Nat
    BY <1>8, <1>9 DEF Counters
  <2>2. 500 \in Buckets /\ 1000 \in Buckets /\ 2500 \in Buckets
    BY DEF Buckets
  <2> QED
    BY <2>1, <2>2
<1>11. CountersAgree'
  <2>1. sat + tol + fru = 1 /\ error + placed = 1 /\ sat = counts(ms <= 500)
    OBVIOUS
  <2>2. counts(ms <= 1000) <= sat + tol /\ sat + tol <= counts(ms <= 2500)
    OBVIOUS
  <2>3. /\ sat \in Nat /\ tol \in Nat /\ fru \in Nat /\ error \in Nat /\ placed \in Nat
        /\ counts(ms <= 500) \in Nat /\ counts(ms <= 1000) \in Nat /\ counts(ms <= 2500) \in Nat
    OBVIOUS
  <2>4. CountersAgree
    BY DEF MetricsInv
  <2> HIDE DEF sat, tol, fru, error, placed, counts, le
  <2> QED
    BY <1>7, <1>8, <1>9, <1>10, <2>1, <2>2, <2>3, <2>4, CountingIsFinite
    DEF CountersAgree, Counters
<1> QED
  BY <1>6, <1>9, <1>11 DEF MetricsInv

LEMMA CountStep ==
  ASSUME MetricsInv, NEW r \in Requests, Count(r)
  PROVE  MetricsInv'
<1> DEFINE w == [req[r] EXCEPT !.at = "answered"]
<1>1. req[r] \in Request /\ At(r, "count")
  BY DEF MetricsInv, RequestsOK, Count
<1>2. w \in Request /\ w.at = "answered"
  BY <1>1 DEF Request, Steps
<1>3. req' = [req EXCEPT ![r] = w]
  BY DEF Count, Goto
<1> HIDE DEF w
<1>4. req' \in [Requests -> Request] /\ req'[r] = w /\ \A q \in Requests \ {r} : req'[q] = req[q]
  BY <1>2, <1>3 DEF MetricsInv, RequestsOK
<1>5. RequestsOK'
  BY <1>2, <1>4 DEF MetricsInv, RequestsOK, At, Succeeded
<1>6. Cardinality(Counting') = Cardinality(Counting) - 1
  <2>1. Counting' = Counting \ {r} /\ r \in Counting
    BY <1>1, <1>2, <1>4 DEF Counting, At
  <2> QED
    BY <2>1, CountingIsFinite, FS_RemoveElement
<1>7. metrics \in Counters
  BY DEF MetricsInv
<1>8. /\ metrics' \in Counters
      /\ metrics'.bids + metrics'.created + metrics'.closed
           = metrics.bids + metrics.created + metrics.closed + 1
      /\ metrics'.requests = metrics.requests /\ metrics'.errors = metrics.errors
      /\ metrics'.satisfied = metrics.satisfied /\ metrics'.tolerating = metrics.tolerating
      /\ metrics'.frustrated = metrics.frustrated /\ metrics'.inf = metrics.inf
      /\ metrics'.le = metrics.le
  <2>1. CASE metrics' = [metrics EXCEPT !.bids = metrics.bids + 1]
    BY <1>7, <2>1 DEF Counters
  <2>2. CASE metrics' = [metrics EXCEPT !.created = metrics.created + 1]
    BY <1>7, <2>2 DEF Counters
  <2>3. CASE metrics' = [metrics EXCEPT !.closed = metrics.closed + 1]
    BY <1>7, <2>3 DEF Counters
  <2> QED
    BY <2>1, <2>2, <2>3 DEF Count
<1>9. CountersAgree'
  <2>1. CountersAgree /\ metrics'.le = metrics.le
    BY <1>8 DEF MetricsInv
  <2>2. /\ metrics'.requests = metrics'.satisfied + metrics'.tolerating + metrics'.frustrated
        /\ metrics'.requests = metrics'.inf
        /\ metrics'.satisfied = metrics'.le[500]
        /\ metrics'.le[1000] <= metrics'.satisfied + metrics'.tolerating
        /\ metrics'.satisfied + metrics'.tolerating <= metrics'.le[2500]
    BY <1>8, <2>1 DEF CountersAgree
  <2>3. metrics'.requests =
          metrics'.errors + metrics'.bids + metrics'.created + metrics'.closed + Cardinality(Counting')
    <3>1. metrics.requests =
            metrics.errors + metrics.bids + metrics.created + metrics.closed + Cardinality(Counting)
      BY <2>1 DEF CountersAgree
    <3>2. /\ metrics.errors \in Nat /\ metrics.bids \in Nat /\ metrics.created \in Nat
          /\ metrics'.bids \in Nat /\ metrics'.created \in Nat
          /\ metrics.closed \in Nat /\ metrics'.closed \in Nat
      BY <1>7, <1>8 DEF Counters
    <3> QED
      BY <1>6, <1>8, <3>1, <3>2, CountingIsFinite
  <2> QED
    BY <2>2, <2>3 DEF CountersAgree
<1> QED
  BY <1>5, <1>8, <1>9 DEF MetricsInv

\* One step per group of actions: those that finish the request or go on to another step of
\* it, those that may also make a call, and the few that do neither.
LEMMA StepMetrics == MetricsInv /\ [Next]_vars => MetricsInv'
<1> SUFFICES ASSUME MetricsInv, [Next]_vars PROVE MetricsInv'
  OBVIOUS
<1>1. ASSUME UNCHANGED <<req, metrics>> PROVE MetricsInv'
  <2>1. req' = req /\ metrics' = metrics
    BY <1>1
  <2>2. Counting' = Counting
    BY <2>1 DEF Counting, At
  <2>3. RequestsOK'
    BY <2>1 DEF MetricsInv, RequestsOK, At, Succeeded
  <2>4. CountersAgree'
    <3>1. Cardinality(Counting') = Cardinality(Counting) /\ CountersAgree
      BY <2>2 DEF MetricsInv
    <3> QED
      BY <2>1, <3>1 DEF CountersAgree
  <2> QED
    BY <2>1, <2>3, <2>4 DEF MetricsInv
<1>2. ASSUME NEW r \in Requests, Arrive(r) PROVE MetricsInv'
  <2>1. ~At(r, "count") /\ metrics' = metrics
    BY <1>2 DEF Arrive, At, Quietly
  <2>2. ASSUME NEW status \in {400, 403},
               req' = [req EXCEPT ![r].at = "answered", ![r].status = status]
        PROVE  MetricsInv'
    <3>1. status \in Nat
      OBVIOUS
    <3> QED
      BY <2>1, <2>2, <3>1, RefusedStep
  <2>3. ASSUME NEW step \in {"lookup", "validate", "closing"}, Goto(r, step) PROVE MetricsInv'
    BY <2>1, <2>3, GotoStep DEF Steps
  <2>4. req[r].kind \in Kinds
    BY DEF MetricsInv, RequestsOK, Request
  <2> QED
    BY <1>2, <2>2, <2>3, <2>4 DEF Arrive, Places, Kinds
<1>3. ASSUME NEW r \in Requests, ~At(r, "count"),
             \/ \E status \in {200, 201, 400, 402, 404, 500} : Finish(r, status)
             \/ \E step \in Steps \ {"count"} : Goto(r, step) /\ metrics' = metrics
      PROVE  MetricsInv'
  BY <1>3, FinishStep, GotoStep
<1>4. ASSUME NEW r \in Requests,
             Validate(r) \/ FindAuction(r) \/ EnterGuard(r) \/ ReadAuction(r) \/ NoCatalogue(r)
             \/ ReadSummary(r)
      PROVE  MetricsInv'
  <2>1. ~At(r, "count")
    BY <1>4 DEF Validate, FindAuction, EnterGuard, ReadAuction, NoCatalogue, ReadSummary, At
  <2>2. \/ \E status \in {200, 201, 400, 402, 404, 500} : Finish(r, status)
        \/ \E step \in Steps \ {"count"} : Goto(r, step) /\ metrics' = metrics
    BY <1>4 DEF Validate, FindAuction, EnterGuard, ReadAuction, NoCatalogue, ReadSummary,
                Quietly, Steps
  <2> QED
    BY <1>3, <2>1, <2>2
<1>5. ASSUME NEW r \in Requests,
             AskCatalogue(r) \/ CheckRules(r) \/ Released(r) \/ HoldPlaced(r) \/ Counter(r)
      PROVE  MetricsInv'
  <2>1. ~At(r, "count")
    BY <1>5 DEF AskCatalogue, CheckRules, Released, HoldPlaced, Counter, At
  <2>2. \/ \E status \in {200, 201, 400, 402, 404, 500} : Finish(r, status)
        \/ \E step \in Steps \ {"count"} : Goto(r, step) /\ metrics' = metrics
    BY <1>5 DEF AskCatalogue, CheckRules, Released, HoldPlaced, Counter, Asks, Quietly, Steps
  <2> QED
    BY <1>3, <2>1, <2>2
<1>6. ASSUME NEW r \in Requests,
             NotPaid(r) \/ InsertBid(r) \/ InsertFails(r) \/ Undone(r) \/ Store(r) \/ Countered(r)
             \/ Close(r)
      PROVE  MetricsInv'
  <2>1. ~At(r, "count")
    BY <1>6 DEF NotPaid, InsertBid, InsertFails, Undone, Store, Countered, Close, At
  <2>2. \/ \E status \in {200, 201, 400, 402, 404, 500} : Finish(r, status)
        \/ \E step \in Steps \ {"count"} : Goto(r, step) /\ metrics' = metrics
    BY <1>6 DEF NotPaid, InsertBid, InsertFails, Undone, Store, Countered, Close, Asks, Quietly, Steps
  <2> QED
    BY <1>3, <2>1, <2>2
<1>7. ASSUME NEW r \in Requests, GoAway(r) PROVE MetricsInv'
  <2>1. ~At(r, "count") /\ Goto(r, "gone") /\ metrics' = metrics
    BY <1>7 DEF GoAway, InService, At
  <2> QED
    BY <1>3, <2>1 DEF Steps
<1>8. ASSUME NEW r \in Requests, Handle(r) PROVE MetricsInv'
  BY <1>4, <1>5, <1>6, <1>8, RecordStep, CountStep DEF Handle
<1>9. CASE \E c \in Calls : PollCall(c) \/ NetworkStep(c)
  BY <1>1, <1>9 DEF PollCall, NetworkStep
<1>10. CASE UNCHANGED vars
  BY <1>1, <1>10 DEF vars
<1> QED
  BY <1>2, <1>7, <1>8, <1>9, <1>10 DEF Next

\* The counters fit together at every moment, for any requests, durations and transports.
THEOREM MetricsAddUp == Spec => []CountersAgree
<1>1. MetricsInv => CountersAgree
  BY DEF MetricsInv
<1> QED
  BY <1>1, InitMetrics, StepMetrics, PTL DEF Spec
=============================================================================
