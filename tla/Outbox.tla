------------------------------- MODULE Outbox -------------------------------
(***************************************************************************)
(* The relay of the transactional outbox: OutboxScheduler::publish_pending  *)
(* (src/src/scheduler/outbox_scheduler.rs), run in a loop by the publisher  *)
(* task of every replica, over the rows of outbox_events, and the RabbitMQ  *)
(* publisher it calls (rabbitmq_outbox_publisher.rs).  One action per       *)
(* statement and per call of the AMQP client.                               *)
(*                                                                          *)
(* The channel is never put into confirm mode, so the second await of       *)
(* publish() is over as soon as the message has been handed to the client:  *)
(* what is in transit then may still be lost with the connection.           *)
(*                                                                          *)
(* A Slip_ operator is a plausible mistake in the definition that follows:  *)
(* put in its place, it breaks a property below.                            *)
(***************************************************************************)
EXTENDS Integers, FiniteSets

CONSTANTS Events,
          Publishers,  \* the publisher task of each replica
          Scenarios,   \* what may be going on: records of the database, the publishers that
                       \* run, their limit of a batch, the events that are written and (bound)
                       \* how many faults there are: calls and statements that fail, crashes,
                       \* lost connections
          LockTime,    \* 60 s: a claimed event is locked for that long
          LastInsert,  \* bound: no event is written later
          NoEvent      \* a publisher with no event in hand

ASSUME OutboxAssumption ==
  /\ Scenarios \subseteq [backend : {"postgres", "sqlite"}, publishers : SUBSET Publishers,
                           limit : Nat \ {0}, events : SUBSET Events, faults : Nat]
  /\ LockTime \in Nat \ {0}
  /\ LastInsert \in Nat
  /\ NoEvent \notin Events

VARIABLES scenario,  \* above all the database of the pool: it says how claim_pending takes a batch
          rows,      \* outbox_events
          work,      \* per publisher: where it is and its local variables
          connected, \* per publisher: channel.status().connected()
          transit,   \* per publisher: messages handed to the client, not yet at the broker
          received,  \* events the broker has
          lost,      \* events that went down with a connection at least once
          now,
          faults     \* how many faults there have been

vars == <<scenario, rows, work, connected, transit, received, lost, now, faults>>

\* next_attempt_at and locked_until; 0 also stands for NULL.  attempts, locked_by
\* and last_error are written and never read.
Row == [status : {"absent", "pending", "published"}, created : Nat, next : Nat, lock : Nat]

Idle == [pc |-> "idle", time |-> 0, found |-> {}, todo |-> {}, event |-> NoEvent, failed |-> 0]

Init ==
  /\ scenario \in Scenarios
  /\ rows = [e \in Events |-> [status |-> "absent", created |-> 0, next |-> 0, lock |-> 0]]
  /\ work = [p \in Publishers |-> Idle]
  /\ connected = [p \in Publishers |-> FALSE]
  /\ transit = [p \in Publishers |-> {}]
  /\ received = {}
  /\ lost = {}
  /\ now = 0
  /\ faults = 0

At(p, pc) == work[p].pc = pc
Broker == <<connected, transit, received, lost>>

\* no other event of S is older
Oldest(S) == {e \in S : \A x \in S : rows[e].created <= rows[x].created}

-----------------------------------------------------------------------------
(* The services write events *)

Insert(e) ==
  /\ e \in scenario.events
  /\ rows[e].status = "absent"
  /\ now <= LastInsert
  /\ rows' = [rows EXCEPT ![e] = [status |-> "pending", created |-> now, next |-> 0, lock |-> 0]]
  /\ UNCHANGED <<scenario, work, Broker, now, faults>>

-----------------------------------------------------------------------------
(* Claiming a batch *)

Wake(p) ==
  /\ p \in scenario.publishers
  /\ At(p, "idle")
  /\ work' = [work EXCEPT ![p] = [Idle EXCEPT !.pc = "claim", !.time = now]]
  /\ UNCHANGED <<scenario, rows, Broker, now, faults>>

\* the claim does not look at the locks

\* a lock does not expire: its publisher alone gives it back
Slip_LocksForGood(e, t) == rows[e].status = "pending" /\ rows[e].lock = 0

Unclaimed(e, t) == rows[e].status = "pending" /\ rows[e].lock <= t
Due(e, t) == Unclaimed(e, t) /\ rows[e].next <= t

\* ORDER BY created_at LIMIT $3: at most the limit of S, none older left behind
Batch(B, S) ==
  /\ B \subseteq S
  /\ Cardinality(B) <= scenario.limit
  /\ Cardinality(B) < scenario.limit => B = S
  /\ \A e \in B, x \in S \ B : rows[e].created <= rows[x].created

LockedUntil(e, t) == [rows[e] EXCEPT !.lock = t + LockTime]

\* PostgreSQL: select and update are one statement, RETURNING keeps no order
ClaimBatch(p) ==
  LET t == work[p].time IN
  /\ At(p, "claim")
  /\ scenario.backend = "postgres"
  /\ \E B \in SUBSET Events :
       /\ Batch(B, {e \in Events : Due(e, t)})
       /\ rows' = [e \in Events |-> IF e \in B THEN LockedUntil(e, t) ELSE rows[e]]
       /\ work' = [work EXCEPT ![p] = [@ EXCEPT !.pc = "next", !.todo = B]]
  /\ UNCHANGED <<scenario, Broker, now, faults>>

\* SQLite: a select, then one guarded update per candidate
FindCandidates(p) ==
  /\ At(p, "claim")
  /\ scenario.backend = "sqlite"
  /\ \E B \in SUBSET Events :
       /\ Batch(B, {e \in Events : Due(e, work[p].time)})
       /\ work' = [work EXCEPT ![p] = [@ EXCEPT !.pc = "lock", !.found = B]]
  /\ UNCHANGED <<scenario, rows, Broker, now, faults>>

\* SQLite: the update of a candidate has no guard
Slip_TakesCandidate(p) ==
  /\ At(p, "lock")
  /\ \E e \in work[p].found :
       /\ rows' = [rows EXCEPT ![e] = LockedUntil(e, work[p].time)]
       /\ work' = [work EXCEPT ![p] =
                     [@ EXCEPT !.found = work[p].found \ {e}, !.todo = work[p].todo \cup {e}]]
  /\ UNCHANGED <<scenario, Broker, now, faults>>

ClaimOne(p) ==
  LET t == work[p].time IN
  /\ At(p, "lock")
  /\ \E e \in Oldest(work[p].found) :
       \/ /\ Unclaimed(e, t)
          /\ rows' = [rows EXCEPT ![e] = LockedUntil(e, t)]
          /\ work' = [work EXCEPT ![p] =
                        [@ EXCEPT !.found = work[p].found \ {e}, !.todo = work[p].todo \cup {e}]]
       \/ /\ ~Unclaimed(e, t)
          /\ work' = [work EXCEPT ![p] = [@ EXCEPT !.found = work[p].found \ {e}]]
          /\ UNCHANGED rows
  /\ UNCHANGED <<scenario, Broker, now, faults>>

AllClaimed(p) ==
  /\ At(p, "lock")
  /\ work[p].found = {}
  /\ work' = [work EXCEPT ![p] = [@ EXCEPT !.pc = "next"]]
  /\ UNCHANGED <<scenario, rows, Broker, now, faults>>

-----------------------------------------------------------------------------
(* Publishing the batch, one event after the other *)

\* SQLite's claims keep the order of the select
NextOf(p) == IF scenario.backend = "sqlite" THEN Oldest(work[p].todo) ELSE work[p].todo

\* channel(): the open channel, or a new connection
GetChannel(p) ==
  /\ At(p, "next")
  /\ \E e \in NextOf(p) :
       work' = [work EXCEPT ![p] =
                 [@ EXCEPT !.pc = "send", !.event = e, !.todo = work[p].todo \ {e}]]
  /\ connected' = [connected EXCEPT ![p] = TRUE]
  /\ UNCHANGED <<scenario, rows, transit, received, lost, now, faults>>

HandOver(p) == transit' = [transit EXCEPT ![p] = @ \cup {work[p].event}]

\* basic_publish, and the confirmation nobody asked for
Send(p) ==
  /\ At(p, "send")
  /\ connected[p]
  /\ HandOver(p)
  /\ work' = [work EXCEPT ![p] = [@ EXCEPT !.pc = "mark"]]
  /\ UNCHANGED <<scenario, rows, connected, received, lost, now, faults>>

\* an error of the publisher is logged and the event marked all the same
Slip_MarksAnyway(p) ==
  /\ At(p, "send")
  /\ ~connected[p]
  /\ work' = [work EXCEPT ![p] = [@ EXCEPT !.pc = "mark"]]
  /\ UNCHANGED <<scenario, rows, Broker, now, faults>>

\* the channel was closed after it had been looked up
SendOnClosed(p) ==
  /\ At(p, "send")
  /\ ~connected[p]
  /\ work' = [work EXCEPT ![p] = [@ EXCEPT !.pc = "mark_failed"]]
  /\ UNCHANGED <<scenario, rows, Broker, now, faults>>

MarkPublished(p) ==
  /\ At(p, "mark")
  /\ rows' = [rows EXCEPT ![work[p].event] = [@ EXCEPT !.status = "published", !.lock = 0]]
  /\ work' = [work EXCEPT ![p] = [@ EXCEPT !.pc = "next", !.event = NoEvent]]
  /\ UNCHANGED <<scenario, Broker, now, faults>>

\* retry_delay_seconds: by the failures of this batch, not by attempts
RetryDelay(i) == LET delays == <<1, 2, 4, 8, 16, 32, 60>>
                 IN  IF i <= 7 THEN delays[i] ELSE 60

\* a failed event is parked instead of tried again
Slip_ParksFailed(p) ==
  /\ At(p, "mark_failed")
  /\ rows' = [rows EXCEPT ![work[p].event] = [@ EXCEPT !.status = "published", !.lock = 0]]
  /\ work' = [work EXCEPT ![p] =
                [@ EXCEPT !.pc = "next", !.event = NoEvent, !.failed = work[p].failed + 1]]
  /\ UNCHANGED <<scenario, Broker, now, faults>>

\* neither mark asks whether the lock is still this publisher's
MarkFailed(p) ==
  /\ At(p, "mark_failed")
  /\ rows' = [rows EXCEPT ![work[p].event] =
                [@ EXCEPT !.next = now + RetryDelay(work[p].failed + 1), !.lock = 0]]
  /\ work' = [work EXCEPT ![p] =
                [@ EXCEPT !.pc = "next", !.event = NoEvent, !.failed = work[p].failed + 1]]
  /\ UNCHANGED <<scenario, Broker, now, faults>>

EndRound(p) ==
  /\ At(p, "next")
  /\ work[p].todo = {}
  /\ work' = [work EXCEPT ![p] = Idle]
  /\ UNCHANGED <<scenario, rows, Broker, now, faults>>

-----------------------------------------------------------------------------
(* The network, the clock and what goes wrong *)

Receive(p) ==
  /\ \E e \in transit[p] : /\ received' = received \cup {e}
                           /\ transit' = [transit EXCEPT ![p] = @ \ {e}]
  /\ UNCHANGED <<scenario, rows, work, connected, lost, now, faults>>

\* bound: time stops when nobody waits for it any more
Tick ==
  /\ \/ now < LastInsert
     \/ \E e \in Events : /\ rows[e].status = "pending"
                          /\ rows[e].next > now \/ rows[e].lock > now
  /\ now' = now + 1
  /\ UNCHANGED <<scenario, rows, work, Broker, faults>>

Fault == faults < scenario.faults /\ faults' = faults + 1

Disconnect(p) ==
  /\ connected' = [connected EXCEPT ![p] = FALSE]
  /\ lost' = lost \cup transit[p]
  /\ transit' = [transit EXCEPT ![p] = {}]
  /\ UNCHANGED received

Drop(p) ==
  /\ Fault
  /\ connected[p]
  /\ Disconnect(p)
  /\ UNCHANGED <<scenario, rows, work, now>>

\* the broker cannot be reached
ConnectFails(p) ==
  /\ Fault
  /\ At(p, "next")
  /\ ~connected[p]
  /\ \E e \in NextOf(p) :
       work' = [work EXCEPT ![p] =
                 [@ EXCEPT !.pc = "mark_failed", !.event = e, !.todo = work[p].todo \ {e}]]
  /\ UNCHANGED <<scenario, rows, Broker, now>>

\* an error of basic_publish, before the message has left or after
SendFails(p) ==
  /\ Fault
  /\ At(p, "send")
  /\ UNCHANGED transit \/ (connected[p] /\ HandOver(p))
  /\ work' = [work EXCEPT ![p] = [@ EXCEPT !.pc = "mark_failed"]]
  /\ UNCHANGED <<scenario, rows, connected, received, lost, now>>

\* a statement fails: the rest of the batch is abandoned, its locks stay
StatementFails(p) ==
  /\ Fault
  /\ work[p].pc \in {"claim", "lock", "mark", "mark_failed"}
  /\ work' = [work EXCEPT ![p] = Idle]
  /\ UNCHANGED <<scenario, rows, Broker, now>>

\* the process stops at any step, and starts again
Crash(p) ==
  /\ Fault
  /\ ~At(p, "idle")
  /\ work' = [work EXCEPT ![p] = Idle]
  /\ Disconnect(p)
  /\ UNCHANGED <<scenario, rows, now>>

-----------------------------------------------------------------------------
Step(p) ==
  \/ Wake(p) \/ ClaimBatch(p) \/ FindCandidates(p) \/ ClaimOne(p) \/ AllClaimed(p)
  \/ GetChannel(p) \/ Send(p) \/ SendOnClosed(p) \/ MarkPublished(p) \/ MarkFailed(p)
  \/ EndRound(p)

GoesWrong(p) == Drop(p) \/ ConnectFails(p) \/ SendFails(p) \/ StatementFails(p) \/ Crash(p)

Next ==
  \/ \E e \in Events : Insert(e)
  \/ \E p \in Publishers : Step(p) \/ Receive(p) \/ GoesWrong(p)
  \/ Tick

\* the publisher tasks are scheduled, a connected broker takes what was sent, time passes
Fairness ==
  /\ \A p \in Publishers : WF_vars(Step(p)) /\ WF_vars(Receive(p))
  /\ WF_vars(Tick)

Spec == Init /\ [][Next]_vars /\ Fairness

-----------------------------------------------------------------------------
(* Properties *)

Work == [pc : {"idle", "claim", "lock", "next", "send", "mark", "mark_failed"},
         time : Nat, found : SUBSET Events, todo : SUBSET Events,
         event : Events \cup {NoEvent}, failed : Nat]

\* Types; and no publisher works with a time that is still to come.
TypeOK ==
  /\ scenario \in Scenarios
  /\ rows \in [Events -> Row]
  /\ work \in [Publishers -> Work]
  /\ connected \in [Publishers -> BOOLEAN]
  /\ transit \in [Publishers -> SUBSET Events]
  /\ received \subseteq Events
  /\ lost \subseteq Events
  /\ now \in Nat
  /\ faults \in Nat
  /\ \A p \in Publishers : work[p].time <= now

Holds(p, e) == e \in work[p].todo \/ e = work[p].event
Overran(p) == now >= work[p].time + LockTime

NeverMarkedFailed(e) == rows[e].next = 0

\* No event is in the hands of two publishers unless one of them has had it for longer
\* than its lock lasts, whatever crashes, disconnects or is refused: the locks of
\* claim_pending, and nothing else, keep replicas from publishing it twice.  Only an
\* event that was once marked as failed is excepted: that mark also frees it from the
\* lock of somebody else.
OneHolder ==
  \A p, q \in Publishers, e \in Events :
    NeverMarkedFailed(e) /\ Holds(p, e) /\ Holds(q, e) => p = q \/ Overran(p) \/ Overran(q)

Written == {e \in Events : rows[e].status # "absent"}
Published == {e \in Events : rows[e].status = "published"}
Handed == received \cup lost \cup UNION {transit[p] : p \in Publishers}

Relay == INSTANCE EventRelay
  WITH written <- Written, handed <- Handed, published <- Published

\* The outbox implements the relay, whatever fails: an event is marked as
\* published only after it was handed to the client, and stays published; only
\* what was written is ever sent.
ImplementsRelay == Relay!Spec

\* An event that was written reaches the broker in the end, whatever fails, or
\* was handed over and went down with the connection.
EventArrives == \A e \in Events : rows[e].status # "absent" ~> e \in received \cup lost

\* A written event does not stay in the backlog: it is marked as published.
BacklogDrains == \A e \in Events : rows[e].status = "pending" ~> rows[e].status = "published"

=============================================================================
