---------------------------- MODULE AuctionCreate ----------------------------
(***************************************************************************)
(* Creating the auction of one listing: create_auction_core                 *)
(* (src/src/service/auction_create.rs), one action per statement or call it *)
(* awaits, for requests that arrive at once, late, or cut short; with the   *)
(* scheduler that puts a missing closure job back and closes what is due.   *)
(*                                                                          *)
(* The id of an auction is the id of its listing, so the primary key of the *)
(* table is all that keeps two requests from creating two auctions.         *)
(***************************************************************************)
EXTENDS Integers, FiniteSets

CONSTANTS Requests,  \* requests to create the auction
          Commands,  \* what they may carry: CreateAuctionCommand without the ids' texts
          Sellers,   \* user ids
          Unknown,   \* the seller of a listing whose catalogue entry names none
          Owner,     \* the listing's seller in the catalogue, or Unknown
          Skew,      \* 120 s: how late a start may be
          Horizon,   \* bound: the clock stops here
          MaxFaults  \* bound: requests cut short

ASSUME CreateAssumption ==
  /\ Commands \subseteq [seller : Sellers, type : STRING, starting : Int, reserve : Int,
                         increment : Int, start : Nat, end : Nat]
  /\ Unknown \notin Sellers
  /\ Owner \in Sellers \cup {Unknown}
  /\ Skew \in Nat
  /\ Horizon \in Nat
  /\ MaxFaults \in Nat

VARIABLES listings,   \* the rows of listings with this id
          job,        \* the row of auction_closure_jobs
          announced,  \* the AuctionCreated events in the outbox, with who wrote them
          request,    \* per request: where it is and its local variables
          offered,    \* whether the catalogue shows the listing as ACTIVE
          now,        \* the clock
          faults      \* requests cut short so far

vars == <<listings, job, announced, request, offered, now, faults>>

Statuses == {"DRAFT", "ACTIVE", "UNSOLD"}  \* nobody bids here; see AuctionClosure for WON
Row == [seller : Sellers, starting : Int, reserve : Int, increment : Int,
        status : Statuses, start : Nat, end : Nat]
Job == [status : {"ABSENT", "PENDING", "PROCESSING", "DONE"}, due : Nat]
Steps == {"idle", "catalogue", "find", "insert", "schedule", "announce",
          "created", "existing", "invalid", "database"}
Request == [pc : Steps, cmd : Commands, time : Nat, auction : SUBSET Row]

Init ==
  /\ listings = {}
  /\ job = [status |-> "ABSENT", due |-> 0]
  /\ announced = {}
  /\ request \in [Requests -> {[pc |-> "idle", cmd |-> c, time |-> 0, auction |-> {}] : c \in Commands}]
  /\ offered = TRUE
  /\ now = 0
  /\ faults = 0

At(r, pc) == request[r].pc = pc
Go(r, pc) == request' = [request EXCEPT ![r] = [@ EXCEPT !.pc = pc]]

-----------------------------------------------------------------------------
(* The steps of a request *)

\* the other types have a workflow that refuses them
Enabled(type) == type = "ENGLISH"

\* CreateAuctionCommand::validate, then the type's workflow
Valid(cmd, t) ==
  /\ cmd.starting > 0
  /\ cmd.increment > 0
  /\ cmd.reserve >= cmd.starting
  /\ cmd.end > cmd.start
  /\ cmd.start + Skew >= t
  /\ cmd.end > t
  /\ Enabled(cmd.type)

\* the clock is read once, here; everything later uses what it said
Arrive(r) ==
  /\ At(r, "idle")
  /\ request' = [request EXCEPT ![r] =
       [@ EXCEPT !.pc = IF Valid(request[r].cmd, now) THEN "catalogue" ELSE "invalid",
                 !.time = now]]
  /\ UNCHANGED <<listings, job, announced, offered, now, faults>>

OwnedBy(seller) == Owner \in {Unknown, seller}

Slip_AnySeller(r) ==
  /\ At(r, "catalogue")
  /\ Go(r, IF offered THEN "find" ELSE "invalid")
  /\ UNCHANGED <<listings, job, announced, offered, now, faults>>
\* require_active_listing and the check of the seller
AskCatalogue(r) ==
  /\ At(r, "catalogue")
  /\ Go(r, IF offered /\ OwnedBy(request[r].cmd.seller) THEN "find" ELSE "invalid")
  /\ UNCHANGED <<listings, job, announced, offered, now, faults>>

\* a listing that has an auction gets no second one: the first is the answer
FindExisting(r) ==
  /\ At(r, "find")
  /\ request' = [request EXCEPT ![r] =
       [@ EXCEPT !.pc = IF listings = {} THEN "insert" ELSE "existing", !.auction = listings]]
  /\ UNCHANGED <<listings, job, announced, offered, now, faults>>

InitialStatus(start, t) == IF start > t THEN "DRAFT" ELSE "ACTIVE"

NewRow(cmd, t) ==
  [seller |-> cmd.seller, starting |-> cmd.starting, reserve |-> cmd.reserve,
   increment |-> cmd.increment, status |-> InitialStatus(cmd.start, t),
   start |-> cmd.start, end |-> cmd.end]

Inserted(r) == NewRow(request[r].cmd, request[r].time)

Slip_Replaces(r) ==
  /\ At(r, "insert")
  /\ listings' = {Inserted(r)}
  /\ request' = [request EXCEPT ![r] = [@ EXCEPT !.pc = "schedule", !.auction = {Inserted(r)}]]
  /\ UNCHANGED <<job, announced, offered, now, faults>>
\* the INSERT: refused by the primary key if another request was faster
Insert(r) ==
  /\ At(r, "insert")
  /\ IF listings = {}
       THEN /\ listings' = {Inserted(r)}
            /\ request' = [request EXCEPT ![r] =
                 [@ EXCEPT !.pc = "schedule", !.auction = {Inserted(r)}]]
       ELSE /\ Go(r, "database")
            /\ UNCHANGED listings
  /\ UNCHANGED <<job, announced, offered, now, faults>>

Slip_RevivesJob(due) == job' = [status |-> "PENDING", due |-> due]
\* a job the scheduler has put back, and may have finished, is already there
UpsertPending(due) ==
  job' = [status |-> IF job.status = "DONE" THEN "DONE" ELSE "PENDING", due |-> due]

Schedule(r) ==
  /\ At(r, "schedule")
  /\ UpsertPending(request[r].cmd.end)
  /\ Go(r, "announce")
  /\ UNCHANGED <<listings, announced, offered, now, faults>>

Announce(r) ==
  /\ At(r, "announce")
  /\ announced' = announced \cup {[by |-> r, auction |-> Inserted(r)]}
  /\ Go(r, "created")
  /\ UNCHANGED <<listings, job, offered, now, faults>>

Waiting == {"catalogue", "find", "insert", "schedule", "announce"}

\* a statement fails, the catalogue cannot be asked, or the client goes away;
\* nothing that was written is taken back
Cut(r) ==
  /\ faults < MaxFaults
  /\ request[r].pc \in Waiting
  /\ Go(r, IF At(r, "catalogue") THEN "invalid" ELSE "database")
  /\ faults' = faults + 1
  /\ UNCHANGED <<listings, job, announced, offered, now>>

Step(r) ==
  Arrive(r) \/ AskCatalogue(r) \/ FindExisting(r) \/ Insert(r) \/ Schedule(r) \/ Announce(r)

-----------------------------------------------------------------------------
(* The scheduler, the catalogue and time *)

IsOver(row) == row.status = "UNSOLD"

Slip_OnlyActive ==
  /\ job.status = "ABSENT"
  /\ \E row \in listings : row.status = "ACTIVE" /\ row.end <= now
                           /\ job' = [status |-> "PENDING", due |-> row.end]
  /\ UNCHANGED <<listings, announced, request, offered, now, faults>>
\* a due auction without a job gets one
Reconcile ==
  /\ job.status = "ABSENT"
  /\ \E row \in listings : ~IsOver(row) /\ row.end <= now
                           /\ job' = [status |-> "PENDING", due |-> row.end]
  /\ UNCHANGED <<listings, announced, request, offered, now, faults>>

Claim ==
  /\ job.status = "PENDING" /\ job.due <= now
  /\ job' = [job EXCEPT !.status = "PROCESSING"]
  /\ UNCHANGED <<listings, announced, request, offered, now, faults>>

\* outcome and end of the job in one step: AuctionClosure has the steps between;
\* a job that was put back while it was being processed is finished all the same
CloseClaimed ==
  /\ job.status = "PROCESSING"
  /\ listings' = {[row EXCEPT !.status = "UNSOLD"] : row \in listings}
  /\ job' = [job EXCEPT !.status = "DONE"]
  /\ UNCHANGED <<announced, request, offered, now, faults>>

\* the seller takes the listing off the catalogue
Withdraw ==
  /\ offered
  /\ offered' = FALSE
  /\ UNCHANGED <<listings, job, announced, request, now, faults>>

Tick ==
  /\ now < Horizon
  /\ now' = now + 1
  /\ UNCHANGED <<listings, job, announced, request, offered, faults>>

Scheduler == Reconcile \/ Claim \/ CloseClaimed

Next ==
  \/ \E r \in Requests : Step(r) \/ Cut(r)
  \/ Scheduler \/ Withdraw \/ Tick

Spec == Init /\ [][Next]_vars

\* requests are polled by tokio, the scheduler polls at an interval
FairSpec == Spec /\ (\A r \in Requests : WF_vars(Step(r))) /\ WF_vars(Scheduler) /\ WF_vars(Tick)

-----------------------------------------------------------------------------
(* Properties *)

TypeOK ==
  /\ listings \subseteq Row
  /\ job \in Job
  /\ announced \subseteq [by : Requests, auction : Row]
  /\ request \in [Requests -> Request]
  /\ offered \in BOOLEAN
  /\ now \in Nat
  /\ faults \in Nat

\* what of an auction is settled when it is created
Terms(row) == [seller |-> row.seller, starting |-> row.starting, reserve |-> row.reserve,
               increment |-> row.increment, start |-> row.start, end |-> row.end]

\* However requests race, all that are answered with an auction are answered
\* with the terms of the one that is stored, whoever created it and whatever
\* they asked for themselves (the existing row is returned, the key refuses
\* the loser of a race).
AnswersAgree ==
  \A r \in Requests : request[r].pc \in {"created", "existing"} =>
    /\ request[r].auction # {}
    /\ {Terms(x) : x \in request[r].auction} = {Terms(row) : row \in listings}

\* AuctionCreated is written at most once, with the terms of the stored
\* auction, and its seller is the one the catalogue names.
OneTrueAnnouncement ==
  /\ Cardinality(announced) <= 1
  /\ \A e \in announced : /\ \E row \in listings : Terms(row) = Terms(e.auction)
                          /\ OwnedBy(e.auction.seller)

\* A request that goes on after the scheduler put the job back and closed the
\* auction does not make the finished job due again: ON CONFLICT keeps DONE.
DoneStaysDone == [][job.status = "DONE" => job'.status = "DONE"]_vars

\* Wherever its creation is cut short, an auction that is stored is closed in
\* the end and its job is done: the scheduler puts a missing job back.
StoredIsClosed ==
  (listings # {}) ~> (job.status = "DONE" /\ \A row \in listings : IsOver(row))
=============================================================================
