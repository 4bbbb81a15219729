--------------------------- MODULE AuctionClosure ---------------------------
(***************************************************************************)
(* The closing of one auction: process_one_pending_closure, run by the      *)
(* scheduler of every replica, and close_auction, the manual endpoint       *)
(* (src/src/service/auction_closure_use_case.rs), one action per statement, *)
(* transaction end or wallet call they await.                               *)
(*                                                                          *)
(* A transaction holds the row of the auction from SELECT ... FOR UPDATE to *)
(* its end.  SQLite has no row locks: the pool of the in-memory database    *)
(* has one connection (server.rs:103), so a transaction excludes all others. *)
(***************************************************************************)
EXTENDS AuctionStore

CONSTANTS Workers,       \* scheduler tasks
          Closers,       \* requests to the manual endpoint, one shot each
          Backend,       \* "postgres" or "sqlite": what claim_due returns differs
          ReservePrice,  \* reserve_price_cents
          Starts,        \* the rows bidding may leave behind: records of listing, bids, holds, job
          LockTime,      \* 60 s: a claim is locked for that long
          RetryDelay,    \* 30 s: a failed attempt is due again after that
          MaxFailures,   \* bound: wallet calls and closing statements that fail
          MaxCrashes,    \* bound: handlers cut short
          Free           \* the row lock nobody holds

ASSUME ClosureAssumption ==
  /\ Workers \cap Closers = {}
  /\ Free \notin Workers \cup Closers
  /\ Backend \in {"postgres", "sqlite"}
  /\ ReservePrice \in Nat
  /\ LockTime \in Nat \ {0}
  /\ RetryDelay \in Nat \ {0}
  /\ MaxFailures \in Nat
  /\ MaxCrashes \in Nat

\* what BidPlacement guarantees of the rows it leaves: no outcome yet, no price
\* without a bid, no two bids of one rank, one hold per bid, and nobody has paid
ASSUME StartsAssumption ==
  \A s \in Starts :
    /\ s.listing \in [highest : Nat, end : Nat, status : Statuses \ {"WON", "UNSOLD"}]
    /\ s.bids \subseteq BidRow
    /\ s.bids = {} => s.listing.highest = 0
    /\ s.bids # {} => \E x \in s.bids : \A y \in s.bids \ {x} : Outranks(x, y)
    /\ \A x \in s.bids : x.amount > 0 /\ x.hold \in DOMAIN s.holds
    /\ \A i \in DOMAIN s.holds : s.holds[i] \in Hold /\ s.holds[i].state # "converted"
    /\ s.job \in [status : {"ABSENT", "PENDING"}, due : Nat, lockedUntil : Nat]

VARIABLES rowLock,   \* the handler whose transaction holds the auction's row, or Free
          task,      \* per handler: where it is and its local variables
          failures,  \* how many calls have failed
          crashes    \* how many handlers were cut short

vars == <<listing, bids, proxies, holds, job, outbox, now, rowLock, task, failures, crashes>>

Handlers == Workers \cup Closers

\* the local variables before anything is read
Idle ==
  [pc      |-> "idle",     \* what it does next
   time    |-> 0,          \* now
   claimed |-> "ABSENT",   \* job.status
   status  |-> "ACTIVE",   \* auction.status, then updated.status
   end     |-> 0,          \* auction.end_time
   rows    |-> {}]         \* bids: those not dealt with yet

Init ==
  /\ \E s \in Starts : /\ listing = s.listing
                       /\ bids = s.bids
                       /\ holds = s.holds
                       /\ job = s.job
  /\ proxies = {}
  /\ outbox = {}
  /\ now = 0
  /\ rowLock = Free
  /\ task = [p \in Handlers |-> Idle]
  /\ failures = 0
  /\ crashes = 0

At(p, pc) == task[p].pc = pc

\* a scheduler task goes on polling, the endpoint answers once
Finished(p) == [Idle EXCEPT !.pc = IF p \in Workers THEN "idle" ELSE "gone"]
Finish(p) == task' = [task EXCEPT ![p] = Finished(p)]

\* nobody reads who holds the lock of a job, so the model does not keep it
Unlocked(status, due) == [status |-> status, due |-> due, lockedUntil |-> 0]

-----------------------------------------------------------------------------
(* Claiming the job *)

NeedsJob == listing.status \notin Terminal \cup {"CLOSED"}

Slip_NoReconcile(p) ==
  /\ p \in Workers /\ At(p, "idle")
  /\ task' = [task EXCEPT ![p].pc = "claim", ![p].time = now]
  /\ UNCHANGED <<listing, bids, proxies, holds, job, outbox, now, rowLock, failures, crashes>>
\* one round of the scheduler: the clock is read and a missing job is put back
Wake(p) ==
  /\ p \in Workers /\ At(p, "idle")
  /\ task' = [task EXCEPT ![p].pc = "claim", ![p].time = now]
  /\ job' = IF job.status = "ABSENT" /\ listing.end <= now /\ NeedsJob
              THEN Unlocked("PENDING", listing.end) ELSE job
  /\ UNCHANGED <<listing, bids, proxies, holds, outbox, now, rowLock, failures, crashes>>

Takeable(t) == job.status \in {"PENDING", "SETTLING"} /\ job.lockedUntil <= t
Claimable(t) == Takeable(t) /\ job.due <= t

Locked(p) ==
  [job EXCEPT !.status = "PROCESSING", !.lockedUntil = task[p].time + LockTime]

\* PostgreSQL: one UPDATE ... RETURNING, which returns the row it has written
ClaimReturning(p) ==
  /\ Backend = "postgres" /\ At(p, "claim")
  /\ IF Claimable(task[p].time)
       THEN /\ job' = Locked(p)
            /\ task' = [task EXCEPT ![p].pc = "lock", ![p].claimed = job'.status]
       ELSE Finish(p) /\ UNCHANGED job
  /\ UNCHANGED <<listing, bids, proxies, holds, outbox, now, rowLock, failures, crashes>>

\* SQLite: the candidate is read, then claimed unless another has claimed it; that
\* it is still due is not asked again
FindCandidate(p) ==
  /\ Backend = "sqlite" /\ At(p, "claim")
  /\ IF Claimable(task[p].time)
       THEN task' = [task EXCEPT ![p].pc = "claimit", ![p].claimed = job.status]
       ELSE Finish(p)
  /\ UNCHANGED <<storeVars, rowLock, failures, crashes>>

ClaimCandidate(p) ==
  /\ At(p, "claimit")
  /\ IF Takeable(task[p].time)
       THEN job' = Locked(p) /\ task' = [task EXCEPT ![p].pc = "lock"]
       ELSE Finish(p) /\ UNCHANGED job
  /\ UNCHANGED <<listing, bids, proxies, holds, outbox, now, rowLock, failures, crashes>>

\* the manual endpoint goes straight to the row
Request(p) ==
  /\ p \in Closers /\ At(p, "idle")
  /\ task' = [task EXCEPT ![p].pc = "lock", ![p].time = now]
  /\ UNCHANGED <<storeVars, rowLock, failures, crashes>>

-----------------------------------------------------------------------------
(* Deciding under the row lock *)

\* what the handler does with the row it has locked
Decision(p) ==
  IF p \in Workers
    THEN IF task[p].claimed = "SETTLING" THEN "resume"
         ELSE IF listing.status \in Terminal THEN "skip"
         ELSE IF listing.end > task[p].time THEN "early" ELSE "list"
    ELSE IF listing.end > task[p].time \/ listing.status \in {"WON", "UNSOLD"}
      THEN "answer" ELSE "list"

Slip_LockIgnored(p) ==
  /\ At(p, "lock")
  /\ rowLock' = p
  /\ task' = [task EXCEPT ![p].pc = Decision(p), ![p].status = listing.status,
                          ![p].end = listing.end]
  /\ UNCHANGED <<storeVars, failures, crashes>>
Slip_EndNotChecked(p) ==
  /\ At(p, "lock")
  /\ rowLock = Free
  /\ rowLock' = p
  /\ task' = [task EXCEPT ![p].pc = IF Decision(p) = "early" THEN "list" ELSE Decision(p),
                          ![p].status = listing.status, ![p].end = listing.end]
  /\ UNCHANGED <<storeVars, failures, crashes>>
\* find_by_id_for_update
LockRow(p) ==
  /\ At(p, "lock")
  /\ rowLock = Free
  /\ rowLock' = p
  /\ task' = [task EXCEPT ![p].pc = Decision(p), ![p].status = listing.status,
                          ![p].end = listing.end]
  /\ UNCHANGED <<storeVars, failures, crashes>>

Unlock(p, pc) ==
  /\ rowLock' = Free
  /\ task' = [task EXCEPT ![p].pc = pc]
  /\ UNCHANGED <<storeVars, failures, crashes>>

\* the job was claimed for settling: the bids are read and the row is given back
Resume(p) ==
  /\ At(p, "resume")
  /\ rowLock' = Free
  /\ task' = [task EXCEPT ![p].pc = "settle", ![p].rows = bids]
  /\ UNCHANGED <<storeVars, failures, crashes>>

\* closed already: rollback, and the job is done
Skip(p) == At(p, "skip") /\ Unlock(p, "done")

\* the end has moved: rollback, and the job is put back
Early(p) == At(p, "early") /\ Unlock(p, "postpone")

\* the manual endpoint: not ended yet, or closed already
AnswerAtOnce(p) ==
  /\ At(p, "answer")
  /\ rowLock' = Free
  /\ Finish(p)
  /\ UNCHANGED <<storeVars, failures, crashes>>

\* the job is due at the end the locked row showed, which may have moved again
Postpone(p) ==
  /\ At(p, "postpone")
  /\ UpsertPending(task[p].end)
  /\ Finish(p)
  /\ UNCHANGED <<listing, bids, proxies, holds, outbox, now, rowLock, failures, crashes>>

-----------------------------------------------------------------------------
(* execute_auction_closure *)

\* list_by_auction_id_desc: the bids as they are now, inside the transaction
ListBids(p) ==
  /\ At(p, "list")
  /\ task' = [task EXCEPT ![p].pc = "commit", ![p].rows = bids]
  /\ UNCHANGED <<storeVars, rowLock, failures, crashes>>

Slip_OldestBid(rows) ==
  IF rows = {} THEN listing.highest
  ELSE (CHOOSE x \in rows : \A y \in rows : x.id <= y.id).amount
\* the best bid or, without one, the amount the row shows
Highest(rows) == IF rows = {} THEN listing.highest ELSE Best(rows).amount

\* EnglishReserveClosureWorkflow::determine_outcome; without any amount nothing is
\* won, whatever the reserve
Outcome(rows) ==
  IF Highest(rows) # 0 /\ Highest(rows) >= ReservePrice THEN "WON" ELSE "UNSOLD"

\* publish_auction_ended_event_with_tx names bid and winner only if there is one
Announcement(p, rows) ==
  <<"AuctionEnded", p, Outcome(rows),
    IF Outcome(rows) = "WON" THEN Best(rows).id ELSE NoBid.id>>

\* the outcome and the AuctionEnded event become visible together
CommitClosure(p) ==
  /\ At(p, "commit")
  /\ listing' = [listing EXCEPT !.status = Outcome(task[p].rows),
                                !.highest = Highest(task[p].rows)]
  /\ Publish({Announcement(p, task[p].rows)})
  /\ rowLock' = Free
  /\ task' = [task EXCEPT ![p].pc = "settling", ![p].status = Outcome(task[p].rows)]
  /\ UNCHANGED <<bids, proxies, holds, job, now, failures, crashes>>

MarkSettling(p) ==
  /\ At(p, "settling")
  /\ job' = Unlocked("SETTLING", task[p].time)
  /\ task' = [task EXCEPT ![p].pc = "settle"]
  /\ UNCHANGED <<listing, bids, proxies, holds, outbox, now, rowLock, failures, crashes>>

\* bounds: so many failures, and early enough for the retry to fall before Horizon
MayFail(p) == failures < MaxFailures /\ task[p].time + RetryDelay <= Horizon

\* a statement of the closure fails: rollback; the scheduler tries again later, the
\* endpoint answers with the error
FailClosure(p) ==
  /\ MayFail(p)
  /\ failures' = failures + 1
  /\ task[p].pc \in {"list", "commit"}
  /\ rowLock' = Free
  /\ IF p \in Workers THEN task' = [task EXCEPT ![p].pc = "failed"] ELSE Finish(p)
  /\ UNCHANGED <<storeVars, crashes>>

Slip_StaysProcessing(p) ==
  /\ At(p, "failed")
  /\ job' = Unlocked(job.status, task[p].time + RetryDelay)
  /\ Finish(p)
  /\ UNCHANGED <<listing, bids, proxies, holds, outbox, now, rowLock, failures, crashes>>
MarkFailed(p) ==
  /\ At(p, "failed")
  /\ job' = Unlocked("PENDING", task[p].time + RetryDelay)
  /\ Finish(p)
  /\ UNCHANGED <<listing, bids, proxies, holds, outbox, now, rowLock, failures, crashes>>

-----------------------------------------------------------------------------
(* execute_post_closure_side_effects; the wallet is external: converting or       *)
(* releasing a hold twice is answered with success, a released hold is not        *)
(* converted                                                                      *)

Charge(id) ==
  holds' = IF IsActive(id) THEN [holds EXCEPT ![id].state = "converted"] ELSE holds

Winner(p) == Best(task[p].rows)

Slip_ChargesLowest(p) ==
  LET lowest == CHOOSE x \in task[p].rows : \A y \in task[p].rows \ {x} : Outranks(y, x)
  IN  /\ At(p, "settle") /\ task[p].status = "WON" /\ task[p].rows # {}
      /\ Charge(lowest.hold)
      /\ task' = [task EXCEPT ![p].pc = "done"]
      /\ UNCHANGED <<listing, bids, proxies, job, outbox, now, rowLock, failures, crashes>>
\* WON: the hold of the winning bid is converted, if the wallet still has it
ConvertHold(p) ==
  /\ At(p, "settle") /\ task[p].status = "WON" /\ task[p].rows # {}
  /\ holds[Winner(p).hold].state # "released"
  /\ Charge(Winner(p).hold)
  /\ task' = [task EXCEPT ![p].pc = "done"]
  /\ UNCHANGED <<listing, bids, proxies, job, outbox, now, rowLock, failures, crashes>>

CannotConvert(p) ==
  /\ At(p, "settle") /\ task[p].status = "WON"
  /\ task[p].rows = {} \/ holds[Winner(p).hold].state = "released"
  /\ task' = [task EXCEPT ![p].pc = "unsettled"]
  /\ UNCHANGED <<storeVars, rowLock, failures, crashes>>

\* not WON: the holds of all bids are released, the best bid's first
ReleaseNext(p) ==
  /\ At(p, "settle") /\ task[p].status # "WON" /\ task[p].rows # {}
  /\ ReleaseHold(Winner(p).hold)
  /\ task' = [task EXCEPT ![p].rows = @ \ {Winner(p)}]
  /\ UNCHANGED <<listing, bids, proxies, job, outbox, now, rowLock, failures, crashes>>

AllReleased(p) ==
  /\ At(p, "settle") /\ task[p].status # "WON" /\ task[p].rows = {}
  /\ task' = [task EXCEPT ![p].pc = "done"]
  /\ UNCHANGED <<storeVars, rowLock, failures, crashes>>

\* a wallet call fails, or takes effect and is answered after the time limit
WalletFails(p) ==
  /\ MayFail(p)
  /\ failures' = failures + 1
  /\ At(p, "settle") /\ task[p].rows # {}
  /\ \/ UNCHANGED holds
     \/ task[p].status = "WON" /\ Charge(Winner(p).hold)
     \/ task[p].status # "WON" /\ ReleaseHold(Winner(p).hold)
  /\ task' = [task EXCEPT ![p].pc = "unsettled"]
  /\ UNCHANGED <<listing, bids, proxies, job, outbox, now, rowLock, crashes>>

Slip_GivesUpSettling(p) ==
  /\ At(p, "unsettled")
  /\ job' = Unlocked("DONE", job.due)
  /\ Finish(p)
  /\ UNCHANGED <<listing, bids, proxies, holds, outbox, now, rowLock, failures, crashes>>
\* mark_settlement_failed, whatever the job's row says by now
MarkSettlementFailed(p) ==
  /\ At(p, "unsettled")
  /\ job' = Unlocked("SETTLING", task[p].time + RetryDelay)
  /\ Finish(p)
  /\ UNCHANGED <<listing, bids, proxies, holds, outbox, now, rowLock, failures, crashes>>

\* mark_done, whatever the job's row says by now
MarkDone(p) ==
  /\ At(p, "done")
  /\ job' = Unlocked("DONE", job.due)
  /\ Finish(p)
  /\ UNCHANGED <<listing, bids, proxies, holds, outbox, now, rowLock, failures, crashes>>

\* The process stops, the connection is lost or a statement outside the closure
\* fails: an open transaction is rolled back, nothing else is undone.
CutShort(p) ==
  /\ crashes < MaxCrashes
  /\ crashes' = crashes + 1
  /\ task[p].pc \notin {"idle", "gone"}
  /\ Finish(p)
  /\ rowLock' = IF rowLock = p THEN Free ELSE rowLock
  /\ UNCHANGED <<storeVars, failures>>

-----------------------------------------------------------------------------

Step(p) ==
  \/ Wake(p) \/ ClaimReturning(p) \/ FindCandidate(p) \/ ClaimCandidate(p) \/ LockRow(p)
  \/ Resume(p) \/ Skip(p) \/ Early(p) \/ AnswerAtOnce(p) \/ Postpone(p)
  \/ ListBids(p) \/ CommitClosure(p) \/ MarkSettling(p) \/ MarkFailed(p)
  \/ ConvertHold(p) \/ CannotConvert(p) \/ ReleaseNext(p) \/ AllReleased(p)
  \/ MarkSettlementFailed(p) \/ MarkDone(p)

Time == Tick /\ UNCHANGED <<rowLock, task, failures, crashes>>

Next ==
  \/ \E p \in Handlers : Request(p) \/ Step(p)
  \/ \E p \in Handlers : FailClosure(p) \/ WalletFails(p) \/ CutShort(p)
  \/ Time

Spec == Init /\ [][Next]_vars

\* the runtime keeps polling the handlers, and time goes on
FairSpec == Spec /\ WF_vars(Time) /\ \A p \in Handlers : WF_vars(Step(p))

-----------------------------------------------------------------------------
(* Properties *)

Closed == listing.status \in {"WON", "UNSOLD"}
Quiet == \A p \in Handlers : task[p].pc \in {"idle", "gone"}
EndedEvents == {e \in outbox : e[1] = "AuctionEnded"}

\* Every variable holds what its column or local can hold.
TypeOK ==
  /\ listing \in [highest : Nat, end : Nat, status : Statuses]
  /\ \A i \in DOMAIN holds : holds[i] \in Hold
  /\ job \in [status : JobStatuses, due : Nat, lockedUntil : Nat]
  /\ rowLock \in Handlers \cup {Free}
  /\ \A p \in Handlers : /\ task[p].time \in 0..now
                         /\ task[p].claimed \in JobStatuses
                         /\ task[p].status \in Statuses
                         /\ task[p].rows \subseteq bids

\* However many schedulers and callers close the auction at once, fail or crash,
\* its end is announced exactly once, in the same instant as the outcome becomes
\* visible, and names that outcome, with the best bid if it has won and no bid if not.
AnnouncedOnce ==
  LET winning == IF listing.status = "WON" THEN Best(bids).id ELSE NoBid.id
  IN  IF Closed THEN \E p \in Handlers :
                       EndedEvents = {<<"AuctionEnded", p, listing.status, winning>>}
                ELSE EndedEvents = {}

\* Nothing is decided before the end as the row shows it, extensions included, and
\* the auction is won exactly when the best bid reaches the reserve price.
OutcomeIsRight ==
  Closed =>
    /\ listing.end <= now
    /\ listing.status = "WON" <=> bids # {} /\ Best(bids).amount >= ReservePrice
    /\ listing.status = "WON" => listing.highest = Best(bids).amount

InState(state) == {i \in DOMAIN holds : holds[i].state = state}

Money == INSTANCE Settlement
  WITH None <- Nobody,
       outcome <- IF Closed THEN listing.status ELSE "open",
       winner <- IF listing.status = "WON" THEN Best(bids).hold ELSE Nobody,
       held <- InState("active"), paid <- InState("converted"), freed <- InState("released")

\* Closing implements the settlement, however many handlers decide, settle, fail and
\* start again: the outcome is decided once, and money moves only as it says and only
\* after it is visible.  The best bid's hold is paid at most once if the auction was
\* won, holds are released only if it was not, and a hold that is done with stays so.
ImplementsSettlement == Money!Spec

Settled ==
  IF listing.status = "WON" THEN holds[Best(bids).hold].state = "converted"
                            ELSE \A x \in bids : ~IsActive(x.hold)

\* closure_job_retries_settlement_after_wallet_failure
\* (tests/reliability_refactor_tests.rs:185, 256-266): a closed auction whose job is
\* done has been settled.  "Quiet" because the handler that finds the auction
\* closed marks the job done while the one that closed it may still be settling.
SettledWhenDone == Quiet /\ Closed /\ job.status = "DONE" => Settled

\* An auction that has ended is closed and settled in the end.
EndedIsSettled == (listing.end <= now) ~> (Closed /\ Settled)

\* The best bid has no hold to convert: a failed attempt to outbid it released it.
Uncovered == bids # {} /\ holds[Best(bids).hold].state = "released"

\* The same on PostgreSQL, where a failed settlement is not taken up again: an
\* auction that has ended is closed in the end whatever call or statement fails,
\* settled too if none does and the winner is covered; only a handler cut short may
\* leave it open, since nothing claims a job that stays PROCESSING.
EndedIsDealtWith ==
  (listing.end <= now) ~>
    (crashes > 0 \/ (Closed /\ (Settled \/ failures > 0 \/ Uncovered)))
=============================================================================
