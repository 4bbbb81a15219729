# A TLA+ model of the bidmart auction service

This directory specifies, model-checks and partly proves the auction service in `src/`: an
axum/sqlx service that creates English auctions for catalogue listings, takes standard and proxy
bids covered by wallet holds, extends auctions against sniping, closes them from a scheduler,
settles the holds, and relays events to RabbitMQ through an outbox table. Paths
of code are given below `src/` of the crate.

Run from this directory: `tlc -config X.cfg MCM.tla` checks one run of the table below,
`tlapm XProofs.tla` checks one module of proofs. `PROJECT.json` lists components, runs, the lines
every definition stands for, hazards, findings and theorems.

## The system

| part | state it keeps | operations | talks to |
|---|---|---|---|
| aggregate `listing_auction_session.rs` | one auction in memory: status, end, leading bid | activate, cancel, place_bid, place_proxy_bid, close, determine_outcome | used by placement and closing |
| policies, chain `service/bid_policies.rs`, `bid_validation_chain.rs` | none | the same rules over the database row | run before the aggregate |
| bid placement `service/auction_core.rs`, `auction_bid_lock.rs` | a mutex per auction and replica | place_bid, place_proxy_bid, resolve_proxy_auto_bid | database, wallet, catalogue |
| creation `service/auction_create.rs`, `auction_types.rs` | none | create_auction | catalogue, database |
| closing `service/auction_closure_use_case.rs`, `closure_workflow.rs` | none | process_one_pending_closure, close_auction | database (row lock), wallet |
| queries `service/auction_queries.rs` | none | lists, cursor pages, delete_proxy_bid | database |
| repositories `persistence/repositories.rs` | `listings`, `bids`, `proxy_bids`, `auction_closure_jobs`, `outbox_events` | one statement each | PostgreSQL or SQLite |
| clients `client/*.rs` | none (a time limit per wallet call) | listing summary; hold, release, convert | catalogue and wallet, over HTTP or gRPC |
| HTTP interface `http/router.rs` | `METRICS`, counters of the process | place_bid, place_proxy_bid, create_auction, close, reads | everything above, for its clients |
| closure scheduler, outbox scheduler, RabbitMQ publisher `scheduler/` | a cached channel | poll; claim, publish, mark | database, broker |

Behind the HTTP interface the parts share the tables and nothing else. A request holds the mutex of its auction on its own
replica only; closing holds the row in a transaction; everything else is separate statements with
awaits between them, and any of them may fail, or the process may stop there. That is where the
hazards are: the rows another handler changes between two statements, money held or released
ahead of the row that justifies it, retries of half-done work, two claims of one job or event, calls
that take effect after their caller has given up.

What makes each part correct:

* aggregate: an accepted bid is legal, leaves the others the answering window, and nothing
  follows the end; it is an ascending auction with a soft close.
* policies: they refuse with the same first error as the aggregate and leave it nothing to refuse.
* placement: the lead climbs by the increment; row, best bid, job and events agree when nobody is
  at work; no money is stranded without a fault; the mutex is always given back.
* placement and closing together: a closing decides by every bid that is stored, nobody pays but an
  announced winner, and neither the mutex nor the lock of the row keeps a request waiting for good.
* clients: "ok" only after the effect, "refused" only when there will be none, whatever the
  transport and the network do; anything else means perhaps.
* HTTP interface: every request is answered; the counters fit together in every state.
* creation: one auction per listing, announced once, closed in the end however creation went.
* closing: decided once, after the end, by the best bid and the reserve; announced once; money
  follows the outcome; an ended auction is closed and settled in the end.
* outbox: only handed-over events are marked; no two publishers hold one event in time; the
  backlog drains.
* cursor: pages in order, no untouched bid missed.

## Modules

| module | what it is |
|---|---|
| `EnglishAuction` | abstract: an ascending auction with a soft close |
| `ListingAuctionSession` | the aggregate, one action per method; implements `EnglishAuction` |
| `BidPolicies` | extends it with the chain and the order of checks in `place_bid_internal`, as operators that return the first error |
| `AuctionStore` | tables, wallet holds and clock of one auction; the statements as operators |
| `BidPlacement` | requests on one or more replicas, one action per await |
| `Settlement` | abstract: an outcome decided once, one hold paid at most or holds given back |
| `AuctionClosure` | schedulers and manual requests that close one auction, one action per await; implements `Settlement` |
| `AuctionSystem` | `BidPlacement` and `AuctionClosure` composed on the same rows, with the lock of the row |
| `AuctionCreate` | requests to create the auction of one listing, with the scheduler's reconciliation |
| `EventRelay` | abstract: only what is written is handed over, only what is handed over is marked |
| `Outbox` | publishers on several replicas; implements `EventRelay` |
| `RemoteCall` | abstract: a call that may take effect once, early, late or never, and what its caller may be told |
| `ServiceClient` | the clients of catalogue and wallet, await by await; implements `RemoteCall` |
| `BidEndpoint` | extends it with the handlers of the HTTP interface, the mutex and the metrics |
| `BidCursor` | a reader of cursor pages against a changing table |
| `MC...` | instances for TLC: small sets of users, offers, commands, starting rows |
| `...Proofs` | theorems and proofs about the module named |

`AuctionStore` is extended by `BidPlacement`, `AuctionClosure` and `AuctionSystem`. The last takes the
actions of the first two as they are (`INSTANCE`), so that their variables, guards and faults have one
definition each. A start of `AuctionClosure`
(constant `Starts`, assumption `StartsAssumption`) is a set of rows bidding leaves behind.

Operators named `Slip_...` are plausible mistakes: each stands before the definition it could
replace. With the replacement made, the run named in `PROJECT.json` finds its property violated, so
every property is known to depend on the code it is about. No specification uses them.

### Correspondence, and what is abstracted

* **Placement.** `req[r]` is the local state of `place_bid_internal`: `pc` names the next await.
  `EnterGuard`/`Answer` are the mutex; `ReadAuction`, `ReadWinner`, `ReadSession` the reads, with the
  search for a matching bid, the re-read and the catalogue check merged into them;
  `ReleasePrevious`, `HoldNew`, `InsertNew`, `UndoHold`, `PublishOutbid`, `UpdateListing`, `Reschedule`,
  `PublishPlaced` the standard path, with `RereadListing` after an UPDATE that
  matches no row; `ReadBoard` ... `PublishAutoPlaced` the automatic counter-bid. The lookup before the mutex only resolves an id and is left out. The auctions placed on are started,
  so the check of `start_time` never fails. `GivesUp` is a failing statement or a client that goes
  away (axum drops the future), `WalletTimesOut` a wallet call that takes effect but is reported as
  failed, `WalletRefuses` a refusal (not a fault). `DeleteProxy` does not take the mutex, as in the code.
  Requests arrive in the order of their numbers (they are interchangeable until then).
* **Closing.** `task[p]` is a handler; `Wake` fuses reading the clock and `reconcile_missing_pending_jobs`.
  PostgreSQL's `UPDATE ... RETURNING` is `ClaimReturning`; SQLite's select-then-update is
  `FindCandidate`, `ClaimCandidate`, and they differ in the status they report. SQLite transactions
  exclude one another: its in-memory pool has one connection (`server.rs:103`). `CutShort` is a crash
  at any step, `WalletFails` and `FailClosure` failing calls. The event of a closing names the best bid
  only if the auction is won (`Announcement`). Converting or releasing a hold again
  changes nothing: the wallet is external and modelled by how the code relies on it.
* **Placement with closing.** `AuctionSystem` interleaves the two at every await, on PostgreSQL. The
  closing holds the row of the auction `FOR UPDATE`; `NeedsRow` names the statements of a request that
  wait for it: updates of `listings`, and inserts whose foreign key refers to the row. The upsert of
  the job and the updates of bids and proxies do not wait, and do not in the model. `MaxMishaps` bounds
  the faults of both sides together.
* **Creation.** `Arrive` reads the clock and validates (no await between); then catalogue, lookup,
  `INSERT`, job, event. `Cut` ends a request at any await and takes nothing back. `Claim` and
  `CloseClaimed` stand for the whole closing, whose steps are in `AuctionClosure`; nobody bids here.
* **Outbox.** One clock for all publishers; `Tick` waits while no lock or retry waits for it. The lock
  of 60 s is scaled to 2, the back-off is the code's. A batch is published in any order on
  PostgreSQL (`RETURNING` promises none) and by creation on SQLite. `Drop` and crashes lose what is in
  transit. The message envelope, the routing key and `HttpOutboxPublisher` are left out. The channel
  is never put into confirm mode, so awaiting the confirm returns at once, and the model does too.
* **Clients.** `call[c]` is one call: `at` its await, `wire` what is on its connection, `done` whether the
  service has acted on it, `heard` what the caller was told. `Abandon` and `TimeLimit` drop the future;
  a request already sent stays on the wire and is served or not. `error` stands for any other status
  and for a broken connection, `garbled` for a success that cannot be decoded. Which transport a
  client got from the configured URLs is chosen in `ClientInit`. The code retries nothing. Its HTTPS client
  pools connections, so a call may find one open, and may be sent again if its connection was closed
  before anything of it was sent; `Connect` stands for that too, since neither gives a second effect.
* **HTTP interface.** `req[r].at` is the await the handler is at; a request that waits for a call is at
  the step named like it. What the database answers is a free choice, so statuses come out in every
  combination the handler can produce. `counter` stands for all wallet calls of
  `resolve_proxy_auto_bid`, `Close` for the whole of `close_auction`, whose steps are `AuctionClosure`.
  `GoAway` is a client that closes its connection: axum drops the handler, its
  mutex guard and its call. The counters of `record_request` are added to in one step; a scrape
  between two additions is not modelled. Of the eight finite buckets those between the classes
  of the apdex are kept, and `inf` for the last.
* **Cursor.** A bid is stamped by its request on arrival (`router.rs:360`), before the awaits that lead to
  its `INSERT`, so rows can appear out of the order of their times: a bid is inserted or raised with any
  of `Times`. A page is a set of rows, the order within it that of the statement; ids are numbers.
  The cursor's text is its three parts. Malformed cursors are refused before anything is read.
* **Numbers.** Cents and seconds are small naturals; 100 cents per rupiah become 2, so that rounding
  shows. `as u64` is modelled in `BidPolicies`, where the sign of an offer matters.

## Runs

| run | instance | distinct states | what it shows |
|---|---|---|---|
| `listing_session` | 3 users, whole life, offers of either sign | 8 195 | the aggregate is safe and implements `EnglishAuction`; chain and proxy path agree with it |
| `bid_placement` | 1 replica with 3 requests; 1 fault, withdrawals of a proxy | 2 750 000 | ladder, agreement of rows, losers told; what stays covered and what can be stranded; automatic bids within the bidder's maximum |
| `system` | 2 requests, 1 scheduler, 1 mishap on either side | 515 000 | a closing decides by all bids, only a winner pays, the shown price and the end never go back, an automatic bid beaten to the row gives its hold back, every request is answered |
| `closure` | PostgreSQL, 2 schedulers, 1 manual request, healthy and damaged starts, 1 failure, 1 crash | 661 000 | announced once, decided right, implements the settlement; every ended auction is dealt with |
| `closure_sqlite` | SQLite, 2 failures | 3 700 | failed settlements are resumed: done means settled, and all are settled |
| `create` | 2 requests, 6 commands, 1 cut | 64 700 | one auction, one announcement, answers agree; the stored auction is closed in the end |
| `outbox` | either database: 2 publishers and 1 event with 2 faults (SQLite: 1), 2 publishers and batches of 2 without, 1 publisher and 2 events in one batch or two with 1 | 553 000 | one holder per event within its lock, unless the event was once marked as failed; implements the relay; events arrive, the backlog drains |
| `bid_cursor` | 4 bids, 2 amounts, 2 times in any order | 900 000 | pages in order, nothing untouched missed |
| `bid_endpoint` | a standard bid with a proxy bid or with a creation, or a proxy bid with a closing; every transport | 411 000 | calls implement `RemoteCall`; requests are answered unless the catalogue is silent; the counters agree |

`EndedIsDealtWith` (PostgreSQL) is weaker than `EndedIsSettled` (SQLite) by what the code lacks: a
job that stays `PROCESSING` after a crash is claimed by nobody, and a failed settlement is not
resumed. `FundedUnlessOutbidFailed`, `EventArrives` and `AutoBidWithinMax` are stated with the
exceptions their comments name, for the same reason. So are `ClosedForGood`, which speaks of the moment
when nobody is inside the mutex because `OutcomeIsFinal` does not hold, `DecidedByAllBids`, which
allows for bids that a proxy has raised in place, and `AnsweredUnlessCatalogueSilent`.

Bounds: two or three actors per kind, since every conflict in this code is between two (a reader
and a writer, two claimants) and a third, where there is one, shows that nothing is only pairwise; one or two faults, enough for a
failure during the recovery from another; amounts that fall on, between and beyond the steps of
the ladder; `Horizon` past the last deadline, retry and lock that matter, so that every promise
has time to be kept. In the closing runs a failure is only allowed early enough for its retry to
come before `Horizon`. Runs end with `CHECK_DEADLOCK FALSE` because finitely many requests and
bounded time really do stop.

Fairness: weak fairness of every request's, handler's and publisher's step (tokio polls ready
tasks, and the schedulers loop at an interval), of the broker taking a message off an open
connection, and of time. Faults, bids, withdrawals and clients are never fair. In `BidEndpoint` the
handlers and what the runtime does for a call (sending, reading an answer that has come, the time
limit) are fair, and so is the answer of the database (`Handle`), which has no time limit in the code and
is assumed to come, with an error if need be; connecting and the other service are not, which is why a silent catalogue has to be
excluded by the premise of `AnsweredUnlessCatalogueSilent` while a silent wallet need not be.

### Where code and documents part

Each of these runs ends with a counterexample that the code can follow, against a line of a test or
of the code itself (quoted in `PROJECT.json`).

| run | property | what happens |
|---|---|---|
| `settlement_retry` | `SettledWhenDone` | on PostgreSQL the claim returns `PROCESSING`, so a failed settlement is taken for done on the retry |
| `system_outcome` | `OutcomeIsFinal` | a bid accepted before the end waits for the closing and then writes `ACTIVE` over `WON` or `UNSOLD` |
| `two_instances` | `ConcurrentProxiesResolve` | two proxies on two replicas can leave the weaker one leading |

The models also follow the code where it promises less than one might expect, and no property claims
more: `cancel` and `determine_outcome` look at no status, so an outcome is not final in the
aggregate; the sign of a proxy's maximum is not checked before `as u64`, so `ProxySameAsAggregate`
speaks of positive ones; a lone proxy raises its own bid; a standard bid above the second proxy's
step is not countered; on several replicas an old end can be written back, so `EndNeverShrinks` is
checked on one; the catalogue is asked inside the mutex without a time limit; the gRPC wallet
client fails `credit_seller_escrow` without a call, and nobody calls it; the channel is not in confirm mode, so a marked event can go down with the
connection; an automatic bid announced as the winner can be taken back when the update of its row
loses to a closing (`auction_core.rs:593`); 400 or 402 may answer a bid that is stored, when it was
the counter-bid that failed (`auction_core.rs:398`); a creation cut after its `INSERT` leaves `AuctionCreated` unwritten for good; and an auction with a
later start is stored as `DRAFT`, which nobody opens, and is decided unsold at its end.

## Proofs

TLAPS checks these for all values of the constants that satisfy the modules' named assumptions: any
number of users, requests, replicas, handlers and publishers, any amounts, and any number of faults,
failures and crashes. `PROJECT.json` lists the theorems with the property each one states.

* `ListingAuctionSessionProofs`: `SessionIsSafe`, `OutcomeFollowsReserve`, `EndedStaysEnded`,
  `SessionImplementsAuction`. The invariant `SessionInv` joins types, legality of the standing bid,
  the answering window and the outcome; the window needs `AntiSnipingWindow <= AntiSnipingExtension`,
  which the constants of the code (120 and 120 s) satisfy. About the policies: `ChainMatchesAggregate`,
  `ChainDecidesAlways`, `ProxyMatchesAggregate`, over the types of the aggregate.
* `BidPlacementProofs`, in layers, each invariant inductive relative to the ones before it:
  * `PlacementInv`, on any number of replicas: the types, what a request may rely on whatever the
    others do, and who is inside a mutex. It gives `PlacementTypes`, `OneInsideAMutex` and
    `PriceOnlyRises` (the UPDATEs are guarded by the price they replace; with closings, which write the row
    as well, the run `system` checks the same and `ShownPriceRises` proves it).
  * `WalletInv`, on any number of replicas: whose money a hold is, with an id of its own for the bid
    and for the counter-bid of every request. It gives `BidsAreBacked`: releasing, replacing or
    undoing a hold never touches the money of a bidder other than the bid's.
  * `AloneInv`, on one replica: what a request has read is still so when it writes, because only
    the holder of the mutex writes bids (`Knows`, one clause per stage of the request; a withdrawal of a proxy
    does not take the mutex and is allowed for). It gives `ListingFollowsTheBids`,
    `AutoBidsStayWithin` and `LeadClimbsTheLadder`.
  * `BooksInv`, on one replica: what the request inside still owes to the books (`Owes`), so that
    they are right when nobody is inside (`Settled`): `RowsTellTheSame`, `LosersAreTold`,
    `LeaderIsFunded`, and `StrandedHoldsAreFaults`, which counts the holds left behind against the
    faults.
* `AuctionClosureProofs`: `ClosureIsExact`, `EndAnnouncedOnce`, `ClosureTypes`,
  `ClosureImplementsSettlement`. `AnnouncedOnce` is not
  inductive alone: `ClosureInv` adds what rows can be (`RowsOK`) and, per handler, what its local
  variables say of the row while it holds the row lock (`TasksOK`): a handler about to commit has
  the bids as they are, after the end, with no outcome yet. `StartsAssumption` is used for `Init`.
  Money moves only in the settling of an outcome that is visible, one hold at a time (`WhoMoves`), which
  with `Unpaid` (nobody has paid while nothing is decided) gives the refinement.
  `SqliteSettles` proves `SettledWhenDone` on SQLite with one scheduler task, as `main.rs` starts it, and no
  other caller: with the job done, the hold of the announced winner is converted, or no bid's hold is
  active if nobody won. The hypotheses are needed: on PostgreSQL the property is false (`settlement_retry`),
  and a second handler that finds the auction closed marks the job done after the first one's
  failed settlement. The argument is that the status a claim reports on SQLite is the one before
  it, so that whoever finds `SETTLING` settles again (`ResumesOK`). Settling a won auction touches the
  winner's hold only, so a loser's hold that bidding has left behind stays active;
  `SqliteLeavesNothingHeld` therefore assumes that bidding has freed the losers (`LosersFreed`), which no
  step of a closing undoes, and concludes that no bid's hold is active once the job is done.
* `AuctionSystemProofs`: `WinnerPays`, `StaysClosed`, `AllBidsDecide`, `ShownPriceRises`,
  `PromisedEndStays`. A step of `Bidding` is a step of an instance `P` of `BidPlacementProofs`, so that
  `PlacementInv` and `WalletInv` need only be shown to survive the closing.
  * `SystemInv`, on any number of replicas, adds per handler that it decides by backed bids and
    settles only for the winner it has announced: `WinnerPays`.
  * `Shut`: the auction is closed and every request is waiting for the mutex or has done with the
    row, which no step undoes: `StaysClosed`.
  * `LoneInv`, under the hypothesis `AllOnOne` that one replica serves all requests of the auction
    (closings may run anywhere):
    what a request knows about a row that a closing may write meanwhile (`RowsKnown`), and what a
    handler relies on while it holds the row (`DecidesWell`), where only a raise in place gets past
    the lock. It gives the other three. On several replicas they are false: a request writes back
    an end from before another replica's extension, and one replica can delete a bid on which the
    price shown by another rests.
* `AuctionCreateProofs`: `CreationAgrees`, `CreationAnnouncedOnce`, `CreationTypes`, `CreationKeepsDone`. The primary key lets at most one
  request past its `INSERT` (`OneAuthor`); it keeps the terms it wrote (`AuthorsRow`) and is the only
  one to announce (`AuthorAnnounces`).
* `OutboxProofs`: `OutboxTypes`, `ClaimsAreExclusive`, `OutboxImplementsRelay`. `OneHolder` needs that
  the row of an event never marked as failed still carries its holder's lock until that has run out
  (`LockOK`); a mark as failed frees the row from whoever's lock is on it (`repositories.rs:594`), so
  nothing of the kind holds of an event that has one.
* `BidEndpointProofs`: `ClientImplementsCall`, `EndpointImplementsCall`, `MetricsAddUp`. The refinement
  needs `Honest`: what is on the wire or told to the caller agrees with what the service has done.
  Every step of the endpoint is a step of the clients or leaves them alone (`EndpointUsesClients`), so
  the second theorem follows from the first. `MetricsInv` adds to `CountersAgree` that only a request
  answered with success is about to be counted as a bid, an auction or a closing.
* `BidCursorProofs`: `PagesAreInOrder`, `ReaderMissesNothing`. `CursorInv` says that every bid that was
  there all along is on a page or after the cursor; that a page has a last row is a fact about
  finite sets, kept in the invariant (`TableOK`) instead of proved by induction.

The safety invariants and action properties that passing runs check are proved, some under the
hypotheses named above, except `StrandedHoldsStayFew`, the count of stranded holds with closings. Type
invariants are proved and not run.

Left to TLC: all liveness (`EveryRequestAnswered`, `EndedIsDealtWith`, `EndedIsSettled`, `StoredIsClosed`,
`EventArrives`, `BacklogDrains`, `AnsweredUnlessCatalogueSilent`), because fairness and ENABLED are out of
the prover's reach; `StrandedHoldsStayFew`; and the three counterexamples above.

## Not modelled

* HTTP: JSON, the conversions of `dto.rs`, headers; the GET handlers, each one SELECT; a scrape of the
  metrics between two additions of one request, which can see a smaller bucket ahead of a larger.
* The rest of configuration and start-up, and the profiling binaries, which are load generators.
* `close_strategy.rs` and `HttpOutboxPublisher`, which the service does not use; closing without a
  wallet client; the double-checked lock of the publisher's channel, which has one caller.
* Bidding with closing on SQLite: its single connection serialises a closing and every statement.
* Hazards no property covers: the map of mutexes gets one entry per auction and never loses one
  (`auction_bid_lock.rs:10`), which no bounded instance shows to be wrong; a failed event is published
  after later ones of its auction (`outbox_scheduler.rs:57`), and nothing in the repository promises an
  order; creation compares the times of a command with a clock read before the catalogue was asked
  (`auction_create.rs:19`), which nothing reads again; and nobody opens
  an auction stored as `DRAFT` (`auction_types.rs:80`). Of other hazards a part is the code's behaviour and
  no property claims otherwise; their notes in `PROJECT.json` say which: a job left `PROCESSING`, a mark of
  a retry overwritten by another handler, a negative maximum of a proxy, an event once marked as failed,
  an `AuctionCreated` never written.

## Plan

Done, in this order, because the money and the outcome depend on it: aggregate and policies,
placement, closing, outbox; creation and the cursor; placement composed with closing; clients and the
HTTP interface. Next:

1. What several replicas still promise about the price and the deciding bids in `AuctionSystem`,
   where the theorems of one replica are false, and a proof of `StrandedHoldsStayFew` on one.
2. The settlement of an auction that a late bid reopens (`system_outcome`): `WinnerPays` says who may
   pay, not that nobody pays twice.
