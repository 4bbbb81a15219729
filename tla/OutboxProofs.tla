---------------------------- MODULE OutboxProofs ----------------------------
(***************************************************************************)
(* Outbox: for any events, publishers, limits, lock time and faults,        *)
(* the type invariant, one holder per event that was never marked as failed, *)
(* and that the outbox implements EventRelay.                               *)
(***************************************************************************)
EXTENDS Outbox, TLAPS

InHand == {"send", "mark", "mark_failed"}

\* A publisher has an event in hand in the middle of its loop and only then;
\* what it holds was written, and what it is about to mark as published has
\* been handed to the client.
HandOK(p) ==
  /\ work[p].pc \in InHand => work[p].event \in Events
  /\ work[p].pc \notin InHand => work[p].event = NoEvent
  /\ \A e \in Events : Holds(p, e) => rows[e].status # "absent"
  /\ At(p, "mark") => work[p].event \in Handed

\* What a publisher in time may rely on of an event it holds, if nobody has marked it
\* as failed: the lock is its own, or another one, who is late, has published it.
Secure(p, e) ==
  NeverMarkedFailed(e) /\ Holds(p, e) /\ ~Overran(p)
    => \/ rows[e].status = "published"
       \/ rows[e].lock = work[p].time + LockTime

LockOK(p) == \A e \in Events : Secure(p, e)

OutboxInv ==
  /\ TypeOK
  /\ \A p \in Publishers : HandOK(p) /\ LockOK(p)
  /\ OneHolder

-----------------------------------------------------------------------------
LEMMA InitInv == Init => OutboxInv
  BY OutboxAssumption
  DEF Init, OutboxInv, TypeOK, Row, Work, Idle, HandOK, InHand, At, Holds, LockOK, Secure, OneHolder

LEMMA DelayIsPositive == \A i \in Nat \ {0} : RetryDelay(i) \in Nat \ {0}
  <1>1. TAKE i \in Nat \ {0}
  <1>2. CASE i <= 7
    <2>1. i = 1 \/ i = 2 \/ i = 3 \/ i = 4 \/ i = 5 \/ i = 6 \/ i = 7
      BY <1>2
    <2> QED
      BY <2>1 DEF RetryDelay
  <1>3. CASE ~(i <= 7)
    BY <1>3 DEF RetryDelay
  <1> QED
    BY <1>2, <1>3

-----------------------------------------------------------------------------
(* What the actions have in common *)

\* Publisher p goes on with w, the others stay as they are.
Moves(p, w) ==
  /\ work' \in [Publishers -> Work]
  /\ w \in Work
  /\ work'[p] = w
  /\ w.time <= now
  /\ \A q \in Publishers \ {p} : work'[q] = work[q]

LEMMA MoveStep ==
  ASSUME TypeOK, NEW p \in Publishers, NEW w \in Work, w.time <= now,
         work' = [work EXCEPT ![p] = w]
  PROVE  Moves(p, w)
  BY DEF TypeOK, Moves

\* A publisher that is not at work relies on nothing.
LEMMA IdleIsOK ==
  ASSUME NEW p \in Publishers, work'[p].pc \in {"idle", "claim"},
         work'[p].event = NoEvent, work'[p].todo = {}
  PROVE  HandOK(p)' /\ LockOK(p)'
  BY OutboxAssumption DEF HandOK, LockOK, Secure, Holds, At, InHand

\* the marks: published, which leaves the time of the next attempt, or failed
SameOrMarked(e) ==
  \/ rows'[e] = rows[e]
  \/ rows'[e].status = "published" /\ rows'[e].next = rows[e].next
  \/ rows'[e].next # 0

\* A publisher that does not move keeps what it relies on when the rows it holds
\* are touched only as the marks of another publisher touch them.
LEMMA OthersKeep ==
  ASSUME OutboxInv, NEW q \in Publishers, work'[q] = work[q],
         now' \in Nat, now <= now', TypeOK',
         Handed \subseteq Handed',
         \A e \in Events : rows[e].status # "absent" => rows'[e].status # "absent",
         \A e \in Events :
           NeverMarkedFailed(e) /\ Holds(q, e) /\ ~Overran(q) => SameOrMarked(e),
         \A e \in Events : Holds(q, e) /\ NeverMarkedFailed(e)' => NeverMarkedFailed(e)
  PROVE  HandOK(q)' /\ LockOK(q)'
  <1>1. HandOK(q) /\ LockOK(q)
    BY DEF OutboxInv
  <1>2. HandOK(q)'
    BY <1>1 DEF HandOK, Holds, At
  <1>3. ASSUME NEW e \in Events
        PROVE  Secure(q, e)'
    <2>1. Overran(q) => Overran(q)'
      BY OutboxAssumption DEF Overran, OutboxInv, TypeOK, Work
    <2>2. Secure(q, e)
      BY <1>1 DEF LockOK
    <2> QED
      BY <2>1, <2>2 DEF Secure, Holds, SameOrMarked, NeverMarkedFailed
  <1> QED
    BY <1>2, <1>3 DEF LockOK

\* Nobody who holds nothing new becomes a second holder.
LEMMA HoldersShrink ==
  ASSUME OutboxInv, TypeOK', now <= now',
         \A q \in Publishers, e \in Events :
           Holds(q, e)' => /\ Holds(q, e) /\ work'[q].time = work[q].time
                           /\ NeverMarkedFailed(e)' => NeverMarkedFailed(e)
  PROVE  OneHolder'
  <1>1. ASSUME NEW p \in Publishers, NEW q \in Publishers, NEW e \in Events,
               NeverMarkedFailed(e)', Holds(p, e)', Holds(q, e)'
        PROVE  p = q \/ Overran(p)' \/ Overran(q)'
    <2>1. p = q \/ Overran(p) \/ Overran(q)
      BY <1>1 DEF OutboxInv, OneHolder
    <2> QED
      BY <1>1, <2>1, OutboxAssumption DEF Overran, OutboxInv, TypeOK, Work
  <1> QED
    BY <1>1 DEF OneHolder

\* The shape of every step of a publisher that takes no new event.
LEMMA LocalStep ==
  ASSUME OutboxInv, NEW p \in Publishers, NEW w, Moves(p, w), TypeOK', now' = now,
         Handed \subseteq Handed',
         \A e \in Events : rows[e].status # "absent" => rows'[e].status # "absent",
         \A e \in Events : SameOrMarked(e),
         \A e \in Events : Holds(p, e)' => Holds(p, e) /\ w.time = work[p].time,
         HandOK(p)' /\ LockOK(p)'
  PROVE  OutboxInv'
  <1>1. now \in Nat
    BY DEF OutboxInv, TypeOK
  <1>2. \A e \in Events : NeverMarkedFailed(e)' => NeverMarkedFailed(e)
    BY DEF SameOrMarked, NeverMarkedFailed
  <1>3. ASSUME NEW q \in Publishers PROVE HandOK(q)' /\ LockOK(q)'
    <2>1. CASE q = p
      BY <2>1
    <2>2. CASE q # p
      BY <1>1, <1>2, <2>2, OthersKeep DEF Moves
    <2> QED
      BY <2>1, <2>2
  <1>4. \A q \in Publishers, e \in Events :
          Holds(q, e)' => Holds(q, e) /\ work'[q].time = work[q].time
    BY DEF Moves, Holds
  <1>5. OneHolder'
    BY <1>1, <1>2, <1>4, HoldersShrink
  <1> QED
    BY <1>3, <1>5 DEF OutboxInv

\* ... and of those that change no row and no message.
LEMMA QuietStep ==
  ASSUME OutboxInv, NEW p \in Publishers, NEW w \in Work, w.time <= now,
         work' = [work EXCEPT ![p] = w],
         UNCHANGED <<scenario, rows, transit, received, lost, now>>,
         connected' \in [Publishers -> BOOLEAN], faults' \in Nat,
         \A e \in Events : (e \in w.todo \/ e = w.event) => Holds(p, e) /\ w.time = work[p].time,
         w.pc \in InHand => w.event \in Events,
         w.pc \notin InHand => w.event = NoEvent,
         w.pc # "mark"
  PROVE  OutboxInv'
  <1>1. Moves(p, w)
    BY MoveStep DEF OutboxInv
  <1>2. TypeOK'
    BY <1>1 DEF OutboxInv, TypeOK, Moves
  <1>3. Handed' = Handed
    BY DEF Handed
  <1>4. HandOK(p) /\ LockOK(p)
    BY DEF OutboxInv
  <1>5. \A e \in Events : Holds(p, e)' => Holds(p, e) /\ w.time = work[p].time
    BY <1>1 DEF Holds, Moves
  <1>6. HandOK(p)'
    BY <1>1, <1>4, <1>5 DEF HandOK, At, Moves
  <1>7. ASSUME NEW e \in Events PROVE Secure(p, e)'
    BY <1>1, <1>4, <1>5 DEF LockOK, Secure, Overran, NeverMarkedFailed, Moves
  <1>8. LockOK(p)'
    BY <1>7 DEF LockOK
  <1>9. \A e \in Events : SameOrMarked(e)
    BY DEF SameOrMarked
  <1> QED
    BY <1>1, <1>2, <1>3, <1>5, <1>6, <1>8, <1>9, LocalStep

LEMMA WorkerIsTyped ==
  ASSUME OutboxInv, NEW p \in Publishers
  PROVE  /\ work[p] \in Work /\ work[p].time <= now /\ now \in Nat /\ faults \in Nat
         /\ connected \in [Publishers -> BOOLEAN]
         /\ HandOK(p) /\ LockOK(p)
  BY DEF OutboxInv, TypeOK

-----------------------------------------------------------------------------
(* The steps of a publisher *)

LEMMA RoundKeepsInv ==
  ASSUME OutboxInv, NEW p \in Publishers, Wake(p) \/ EndRound(p) \/ StatementFails(p)
  PROVE  OutboxInv'
  <1>0. Idle \in Work /\ now \in Nat /\ faults \in Nat /\ connected \in [Publishers -> BOOLEAN]
    BY WorkerIsTyped DEF Idle, Work
  <1>1. PICK w \in {Idle, [Idle EXCEPT !.pc = "claim", !.time = now]} :
          work' = [work EXCEPT ![p] = w]
    BY DEF Wake, EndRound, StatementFails
  <1>2. /\ w \in Work /\ w.time <= now /\ w.pc \in {"idle", "claim"}
        /\ w.todo = {} /\ w.event = NoEvent
    <2>1. CASE w = Idle
      BY <1>0, <2>1 DEF Idle, Work
    <2>2. CASE w = [Idle EXCEPT !.pc = "claim", !.time = now]
      <3>1. w = [pc |-> "claim", time |-> now, found |-> {}, todo |-> {},
                 event |-> NoEvent, failed |-> 0]
        BY <2>2 DEF Idle
      <3> QED
        BY <1>0, <3>1 DEF Work
    <2> QED
      BY <1>1, <2>1, <2>2
  <1>3. UNCHANGED <<scenario, rows, transit, received, lost, now, connected>>
    BY DEF Wake, EndRound, StatementFails, Broker
  <1>4. faults' \in Nat
    BY <1>0 DEF Wake, EndRound, StatementFails, Fault
  <1> QED
    <2>1. \A e \in Events : ~(e \in w.todo \/ e = w.event)
      BY <1>2, OutboxAssumption
    <2>2. w.pc \notin InHand
      BY <1>2 DEF InHand
    <2> QED
      BY <1>0, <1>1, <1>2, <1>3, <1>4, <2>1, <2>2, QuietStep DEF InHand

LEMMA LookingKeepsInv ==
  ASSUME OutboxInv, NEW p \in Publishers,
         FindCandidates(p) \/ AllClaimed(p) \/ SendOnClosed(p)
  PROVE  OutboxInv'
  <1>0. /\ work[p] \in Work /\ work[p].time <= now /\ faults \in Nat
        /\ connected \in [Publishers -> BOOLEAN] /\ HandOK(p) /\ LockOK(p)
    BY WorkerIsTyped
  <1>1. UNCHANGED <<scenario, rows, transit, received, lost, now, connected, faults>>
    BY DEF FindCandidates, AllClaimed, SendOnClosed, Broker
  <1>2. PICK w : /\ w \in Work /\ w.time = work[p].time
                 /\ w.todo = work[p].todo /\ w.event = work[p].event
                 /\ work' = [work EXCEPT ![p] = w]
                 /\ \/ w.pc \in {"lock", "next"} /\ work[p].pc \in {"claim", "lock"}
                    \/ w.pc = "mark_failed" /\ work[p].pc = "send"
    <2>1. CASE FindCandidates(p)
      <3>1. PICK B \in SUBSET Events :
              work' = [work EXCEPT ![p] = [@ EXCEPT !.pc = "lock", !.found = B]]
        BY <2>1 DEF FindCandidates
      <3>2. PICK w : w = [work[p] EXCEPT !.pc = "lock", !.found = B]
        OBVIOUS
      <3>3. w \in Work /\ w.time = work[p].time /\ w.todo = work[p].todo
            /\ w.event = work[p].event /\ w.pc = "lock"
        BY <1>0, <3>2 DEF Work
      <3> QED
        BY <2>1, <3>1, <3>2, <3>3 DEF FindCandidates, At
    <2>2. ASSUME NEW c \in {"next", "mark_failed"},
                 work' = [work EXCEPT ![p] = [@ EXCEPT !.pc = c]]
          PROVE  \E w : /\ w \in Work /\ w.time = work[p].time /\ w.todo = work[p].todo
                        /\ w.event = work[p].event /\ w.pc = c
                        /\ work' = [work EXCEPT ![p] = w]
      <3>1. PICK w : w = [work[p] EXCEPT !.pc = c]
        OBVIOUS
      <3>2. w \in Work /\ w.time = work[p].time /\ w.todo = work[p].todo
            /\ w.event = work[p].event /\ w.pc = c
        BY <1>0, <3>1 DEF Work
      <3> QED
        BY <2>2, <3>1, <3>2
    <2>3. CASE AllClaimed(p)
      BY <2>2, <2>3 DEF AllClaimed, At
    <2>4. CASE SendOnClosed(p)
      BY <2>2, <2>4 DEF SendOnClosed, At
    <2> QED
      BY <2>1, <2>3, <2>4
  <1>3. \A e \in Events : (e \in w.todo \/ e = w.event) => Holds(p, e)
    BY <1>2 DEF Holds
  <1>4. /\ w.pc \in InHand => w.event \in Events
        /\ w.pc \notin InHand => w.event = NoEvent
    BY <1>0, <1>2 DEF HandOK, InHand
  <1>5. w.pc # "mark"
    BY <1>2
  <1> QED
    BY <1>0, <1>1, <1>2, <1>3, <1>4, <1>5, QuietStep

\* the next event of the batch, to be sent or to be given up
LEMMA TakingKeepsInv ==
  ASSUME OutboxInv, NEW p \in Publishers, GetChannel(p) \/ ConnectFails(p)
  PROVE  OutboxInv'
  <1>0. /\ work[p] \in Work /\ work[p].time <= now /\ faults \in Nat
        /\ connected \in [Publishers -> BOOLEAN]
    BY WorkerIsTyped
  <1>1. PICK c \in {"send", "mark_failed"}, e \in work[p].todo :
          /\ work' = [work EXCEPT ![p] =
                       [@ EXCEPT !.pc = c, !.event = e, !.todo = work[p].todo \ {e}]]
          /\ faults' \in {faults, faults + 1}
    BY <1>0 DEF GetChannel, ConnectFails, NextOf, Oldest, Fault, Broker
  <1>2. PICK T : T = work[p].todo \ {e}
    OBVIOUS
  <1>3. PICK w : w = [work[p] EXCEPT !.pc = c, !.event = e, !.todo = T]
    OBVIOUS
  <1>4. e \in Events /\ T \in SUBSET Events
    BY <1>0, <1>2 DEF Work
  <1>5. /\ w \in Work /\ w.time = work[p].time /\ w.todo = T /\ w.event = e /\ w.pc = c
    BY <1>0, <1>3, <1>4 DEF Work
  <1>6. work' = [work EXCEPT ![p] = w]
    BY <1>1, <1>2, <1>3
  <1>7. \A x \in Events : (x \in w.todo \/ x = w.event) => Holds(p, x)
    BY <1>2, <1>5 DEF Holds
  <1>8. /\ UNCHANGED <<scenario, rows, transit, received, lost, now>>
        /\ connected' \in [Publishers -> BOOLEAN]
    BY <1>0 DEF GetChannel, ConnectFails, Broker
  <1>9. faults' \in Nat
    BY <1>0, <1>1
  <1>10. w.pc \in InHand /\ w.pc # "mark" /\ w.event \in Events
    BY <1>4, <1>5 DEF InHand
  <1> QED
    BY <1>0, <1>5, <1>6, <1>7, <1>8, <1>9, <1>10, QuietStep

\* The message is handed over, or basic_publish reports an error.
LEMMA SendingKeepsInv ==
  ASSUME OutboxInv, NEW p \in Publishers, Send(p) \/ SendFails(p)
  PROVE  OutboxInv'
  <1>0. /\ work[p] \in Work /\ work[p].time <= now /\ faults \in Nat
        /\ transit \in [Publishers -> SUBSET Events]
        /\ work[p].pc = "send" /\ work[p].event \in Events /\ HandOK(p) /\ LockOK(p)
    BY WorkerIsTyped DEF OutboxInv, TypeOK, HandOK, InHand, Send, SendFails, At
  <1>1. PICK c \in {"mark", "mark_failed"} :
          /\ work' = [work EXCEPT ![p] = [@ EXCEPT !.pc = c]]
          /\ c = "mark" => HandOver(p)
          /\ faults' \in {faults, faults + 1}
    BY DEF Send, SendFails, Fault
  <1>2. PICK w : w = [work[p] EXCEPT !.pc = c]
    OBVIOUS
  <1>3. w \in Work /\ w.time = work[p].time /\ w.todo = work[p].todo
        /\ w.event = work[p].event /\ w.pc = c
    BY <1>0, <1>2 DEF Work
  <1>4. Moves(p, w)
    BY <1>0, <1>1, <1>2, <1>3, MoveStep DEF OutboxInv
  <1>5. /\ UNCHANGED <<scenario, rows, connected, received, lost, now>>
        /\ UNCHANGED transit \/ HandOver(p)
    BY DEF Send, SendFails
  <1>6. transit' \in [Publishers -> SUBSET Events]
    BY <1>0, <1>5 DEF HandOver
  <1>7. faults' \in Nat
    BY <1>0, <1>1
  <1>8. TypeOK'
    BY <1>4, <1>5, <1>6, <1>7 DEF OutboxInv, TypeOK, Moves
  <1>9. Handed \subseteq Handed' /\ (c = "mark" => work[p].event \in Handed')
    BY <1>0, <1>1, <1>5 DEF Handed, HandOver
  <1>10. \A e \in Events : Holds(p, e)' <=> Holds(p, e)
    BY <1>3, <1>4 DEF Holds, Moves
  <1>11. HandOK(p)'
    BY <1>0, <1>3, <1>4, <1>5, <1>9, <1>10 DEF HandOK, InHand, At, Moves
  <1>12. LockOK(p)'
    BY <1>0, <1>3, <1>4, <1>5, <1>10 DEF LockOK, Secure, Overran, NeverMarkedFailed, Moves
  <1>13. \A e \in Events : SameOrMarked(e)
    BY <1>5 DEF SameOrMarked
  <1> QED
    BY <1>3, <1>4, <1>5, <1>8, <1>9, <1>10, <1>11, <1>12, <1>13, LocalStep

\* The marks ask for no lock: they touch only the event in hand.
LEMMA MarkingKeepsInv ==
  ASSUME OutboxInv, NEW p \in Publishers, MarkPublished(p) \/ MarkFailed(p)
  PROVE  OutboxInv'
  <1>0. /\ work[p] \in Work /\ work[p].time <= now /\ now \in Nat /\ faults \in Nat
        /\ rows \in [Events -> Row]
        /\ work[p].event \in Events /\ HandOK(p) /\ LockOK(p)
    BY WorkerIsTyped DEF OutboxInv, TypeOK, HandOK, InHand, MarkPublished, MarkFailed, At
  <1>1. UNCHANGED <<scenario, connected, transit, received, lost, now, faults>>
    BY DEF MarkPublished, MarkFailed, Broker
  <1>2. PICK w : /\ w \in Work /\ w.time = work[p].time /\ w.todo = work[p].todo
                 /\ w.event = NoEvent /\ w.pc = "next"
                 /\ work' = [work EXCEPT ![p] = w]
    <2>1. PICK n : n = work[p].failed + 1
      OBVIOUS
    <2>2. n \in Nat
      BY <1>0, <2>1 DEF Work
    <2>3. CASE MarkPublished(p)
      <3>1. PICK w : w = [work[p] EXCEPT !.pc = "next", !.event = NoEvent]
        OBVIOUS
      <3>2. w \in Work /\ w.time = work[p].time /\ w.todo = work[p].todo
            /\ w.event = NoEvent /\ w.pc = "next"
        BY <1>0, <3>1 DEF Work
      <3> QED
        BY <2>3, <3>1, <3>2 DEF MarkPublished
    <2>4. CASE MarkFailed(p)
      <3>1. PICK w : w = [work[p] EXCEPT !.pc = "next", !.event = NoEvent, !.failed = n]
        OBVIOUS
      <3>2. w \in Work /\ w.time = work[p].time /\ w.todo = work[p].todo
            /\ w.event = NoEvent /\ w.pc = "next"
        BY <1>0, <2>2, <3>1 DEF Work
      <3> QED
        BY <2>1, <2>4, <3>1, <3>2 DEF MarkFailed
    <2> QED
      BY <2>3, <2>4
  <1>3. PICK r : /\ r \in Row
                 /\ r.status \in {"published", rows[work[p].event].status}
                 /\ \/ r.status = "published" /\ r.next = rows[work[p].event].next
                    \/ r.next # 0
                 /\ rows' = [rows EXCEPT ![work[p].event] = r]
    <2>1. CASE MarkPublished(p)
      <3>1. PICK r : r = [rows[work[p].event] EXCEPT !.status = "published", !.lock = 0]
        OBVIOUS
      <3>2. r \in Row /\ r.status = "published" /\ r.next = rows[work[p].event].next
        BY <1>0, <3>1 DEF Row
      <3> QED
        BY <2>1, <3>1, <3>2 DEF MarkPublished
    <2>2. CASE MarkFailed(p)
      <3>1. PICK t : t = now + RetryDelay(work[p].failed + 1)
        OBVIOUS
      <3>2. t \in Nat \ {0}
        BY <1>0, <3>1, DelayIsPositive DEF Work
      <3>3. PICK r : r = [rows[work[p].event] EXCEPT !.next = t, !.lock = 0]
        OBVIOUS
      <3>4. r \in Row /\ r.status = rows[work[p].event].status /\ r.next # 0
        BY <1>0, <3>2, <3>3 DEF Row
      <3> QED
        BY <2>2, <3>1, <3>3, <3>4 DEF MarkFailed
    <2> QED
      BY <2>1, <2>2
  <1>4. Moves(p, w)
    BY <1>0, <1>2, MoveStep DEF OutboxInv
  <1>5. rows' \in [Events -> Row] /\ TypeOK'
    BY <1>0, <1>1, <1>3, <1>4 DEF OutboxInv, TypeOK, Moves
  <1>6. \A e \in Events : rows[e].status # "absent" => rows'[e].status # "absent"
    BY <1>0, <1>3
  <1>7. \A e \in Events : SameOrMarked(e)
    BY <1>0, <1>3 DEF SameOrMarked
  <1>8. Handed' = Handed
    BY <1>1 DEF Handed
  <1>9. \A e \in Events : Holds(p, e)' => Holds(p, e)
    BY <1>2, <1>4, OutboxAssumption DEF Holds, Moves
  <1>10. HandOK(p)'
    BY <1>0, <1>2, <1>4, <1>6, <1>9 DEF HandOK, InHand, At, Moves
  <1>11. LockOK(p)'
    BY <1>0, <1>1, <1>2, <1>4, <1>7, <1>9
    DEF LockOK, Secure, Overran, SameOrMarked, NeverMarkedFailed, Moves
  <1> QED
    BY <1>1, <1>2, <1>4, <1>5, <1>6, <1>7, <1>8, <1>9, <1>10, <1>11, LocalStep

\* What a publisher claims nobody holds in time, if it was never marked as failed: the
\* claim sees a pending row whose lock is not later than the clock.
LEMMA NobodyInTime ==
  ASSUME OutboxInv, NEW p \in Publishers, NEW q \in Publishers, NEW e \in Events,
         NeverMarkedFailed(e), Unclaimed(e, work[p].time), Holds(q, e)
  PROVE  Overran(q)
  <1>1. /\ work[p].time <= now /\ now \in Nat /\ work[p] \in Work /\ work[q] \in Work
        /\ LockOK(q) /\ rows \in [Events -> Row]
    BY WorkerIsTyped DEF OutboxInv, TypeOK
  <1> QED
    BY <1>1 DEF LockOK, Secure, Unclaimed, Work, Row, Overran

\* The shape of both claims: p adds the events of B to what it holds and locks
\* their rows.
LEMMA ClaimStep ==
  ASSUME OutboxInv, NEW p \in Publishers, NEW w \in Work, NEW B \in SUBSET Events,
         work' = [work EXCEPT ![p] = w], UNCHANGED <<scenario, Broker, now, faults>>,
         w.time = work[p].time, w.event = NoEvent, w.pc \in {"lock", "next"},
         w.todo \subseteq work[p].todo \cup B,
         \A e \in B : Unclaimed(e, work[p].time),
         rows' \in [Events -> Row],
         \A e \in Events \ B : rows'[e] = rows[e],
         \A e \in B : rows'[e] = LockedUntil(e, work[p].time)
  PROVE  OutboxInv'
  <1>0. /\ work[p] \in Work /\ work[p].time <= now /\ now \in Nat /\ faults \in Nat
        /\ rows \in [Events -> Row] /\ HandOK(p) /\ LockOK(p)
    BY WorkerIsTyped DEF OutboxInv, TypeOK
  <1>1. Moves(p, w)
    BY <1>0, MoveStep DEF OutboxInv
  <1>2. TypeOK' /\ Handed' = Handed
    BY <1>1 DEF OutboxInv, TypeOK, Broker, Moves, Handed
  <1>3. \A e \in B : /\ rows[e].status = "pending" /\ rows'[e].status = "pending"
                     /\ rows'[e].lock = work[p].time + LockTime /\ rows'[e].next = rows[e].next
    BY <1>0 DEF Unclaimed, LockedUntil, Row
  <1>4. \A e \in Events : /\ rows'[e].status = rows[e].status
                          /\ NeverMarkedFailed(e)' <=> NeverMarkedFailed(e)
    BY <1>3 DEF NeverMarkedFailed
  <1>5. \A e \in Events : Holds(p, e)' => Holds(p, e) \/ e \in B
    BY <1>1, OutboxAssumption DEF Holds, Moves
  <1>6. HandOK(p)'
    BY <1>0, <1>1, <1>3, <1>4, <1>5 DEF HandOK, InHand, At, Moves
  <1>7. ASSUME NEW e \in Events PROVE Secure(p, e)'
    <2>1. Overran(p)' <=> Overran(p)
      BY <1>1 DEF Overran, Moves
    <2>2. CASE e \in B
      BY <1>1, <1>3, <2>2 DEF Secure, Moves
    <2>3. CASE e \notin B
      BY <1>0, <1>1, <1>4, <1>5, <2>1, <2>3 DEF LockOK, Secure, Moves
    <2> QED
      BY <2>2, <2>3
  <1>8. LockOK(p)'
    BY <1>7 DEF LockOK
  <1>9. ASSUME NEW q \in Publishers, q # p PROVE HandOK(q)' /\ LockOK(q)'
    <2>1. work'[q] = work[q]
      BY <1>1, <1>9 DEF Moves
    <2>2. ASSUME NEW e \in Events, NeverMarkedFailed(e), Holds(q, e), ~Overran(q)
          PROVE  SameOrMarked(e)
      BY <2>2, NobodyInTime DEF SameOrMarked
    <2> QED
      BY <1>0, <1>2, <1>4, <2>1, <2>2, OthersKeep DEF Broker
  <1>10. ASSUME NEW q \in Publishers, NEW r \in Publishers, NEW e \in Events,
                NeverMarkedFailed(e)', Holds(q, e)', Holds(r, e)'
         PROVE  q = r \/ Overran(q)' \/ Overran(r)'
    <2>1. \A x \in Publishers : Overran(x)' <=> Overran(x)
      BY <1>1 DEF Overran, Moves
    <2>2. \A x \in Publishers : Holds(x, e)' => Holds(x, e) \/ (x = p /\ e \in B)
      BY <1>1, <1>5 DEF Holds, Moves
    <2>3. CASE Holds(q, e) /\ Holds(r, e)
      BY <1>4, <1>10, <2>1, <2>3 DEF OutboxInv, OneHolder
    <2>4. CASE e \in B
      BY <1>4, <1>10, <2>1, <2>2, <2>4, NobodyInTime
    <2> QED
      BY <1>10, <2>2, <2>3, <2>4
  <1>11. OneHolder'
    BY <1>10 DEF OneHolder
  <1> QED
    BY <1>2, <1>6, <1>8, <1>9, <1>11 DEF OutboxInv

LEMMA ClaimingKeepsInv ==
  ASSUME OutboxInv, NEW p \in Publishers, ClaimBatch(p) \/ ClaimOne(p)
  PROVE  OutboxInv'
  <1>0. /\ work[p] \in Work /\ rows \in [Events -> Row] /\ HandOK(p)
        /\ work[p].time \in Nat /\ work[p].time + LockTime \in Nat
    BY WorkerIsTyped, OutboxAssumption DEF OutboxInv, TypeOK, Work
  <1>1. UNCHANGED <<scenario, Broker, now, faults>> /\ work[p].event = NoEvent
    BY <1>0 DEF ClaimBatch, ClaimOne, HandOK, InHand, At
  <1>2. \A e \in Events : LockedUntil(e, work[p].time) \in Row
    <2>1. PICK t : t = work[p].time + LockTime
      OBVIOUS
    <2> QED
      BY <1>0, <2>1 DEF LockedUntil, Row
  <1>3. CASE ClaimBatch(p)
    <2>1. PICK B \in SUBSET Events :
            /\ \A e \in B : Unclaimed(e, work[p].time)
            /\ rows' = [e \in Events |-> IF e \in B THEN LockedUntil(e, work[p].time) ELSE rows[e]]
            /\ work' = [work EXCEPT ![p] = [@ EXCEPT !.pc = "next", !.todo = B]]
      BY <1>3 DEF ClaimBatch, Batch, Due
    <2>2. PICK w : w = [work[p] EXCEPT !.pc = "next", !.todo = B]
      OBVIOUS
    <2>3. w \in Work /\ w.time = work[p].time /\ w.event = NoEvent /\ w.pc = "next" /\ w.todo = B
      BY <1>0, <1>1, <2>2 DEF Work
    <2>4. work' = [work EXCEPT ![p] = w]
      BY <2>1, <2>2
    <2>5. /\ rows' \in [Events -> Row]
          /\ \A e \in Events \ B : rows'[e] = rows[e]
          /\ \A e \in B : rows'[e] = LockedUntil(e, work[p].time)
      BY <1>0, <1>2, <2>1
    <2> QED
      BY <1>1, <2>1, <2>3, <2>4, <2>5, ClaimStep
  <1>4. CASE ClaimOne(p)
    <2>1. PICK e \in work[p].found :
            \/ /\ Unclaimed(e, work[p].time)
               /\ rows' = [rows EXCEPT ![e] = LockedUntil(e, work[p].time)]
               /\ work' = [work EXCEPT ![p] =
                             [@ EXCEPT !.found = work[p].found \ {e},
                                       !.todo = work[p].todo \cup {e}]]
            \/ /\ rows' = rows
               /\ work' = [work EXCEPT ![p] = [@ EXCEPT !.found = work[p].found \ {e}]]
      BY <1>4 DEF ClaimOne, Oldest
    <2>2. e \in Events /\ work[p].pc = "lock"
      BY <1>0, <1>4 DEF Work, ClaimOne, At
    <2>3. PICK F, T : F = work[p].found \ {e} /\ T = work[p].todo \cup {e}
      OBVIOUS
    <2>4. F \in SUBSET Events /\ T \in SUBSET Events
      BY <1>0, <2>2, <2>3 DEF Work
    <2>5. CASE Unclaimed(e, work[p].time) /\ rows' = [rows EXCEPT ![e] = LockedUntil(e, work[p].time)]
               /\ work' = [work EXCEPT ![p] = [@ EXCEPT !.found = F, !.todo = T]]
      <3>1. PICK w : w = [work[p] EXCEPT !.found = F, !.todo = T]
        OBVIOUS
      <3>2. w \in Work /\ w.time = work[p].time /\ w.event = NoEvent /\ w.pc = "lock" /\ w.todo = T
        BY <1>0, <1>1, <2>2, <2>4, <3>1 DEF Work
      <3>3. work' = [work EXCEPT ![p] = w]
        BY <2>5, <3>1
      <3>4. /\ rows' \in [Events -> Row]
            /\ \A x \in Events \ {e} : rows'[x] = rows[x]
            /\ \A x \in {e} : rows'[x] = LockedUntil(x, work[p].time)
        BY <1>0, <1>2, <2>2, <2>5
      <3>5. {e} \in SUBSET Events /\ \A x \in {e} : Unclaimed(x, work[p].time)
        BY <2>2, <2>5
      <3>6. w.todo \subseteq work[p].todo \cup {e}
        BY <2>3, <3>2
      <3> QED
        BY <1>1, <3>2, <3>3, <3>4, <3>5, <3>6, ClaimStep
    <2>6. CASE rows' = rows /\ work' = [work EXCEPT ![p] = [@ EXCEPT !.found = F]]
      <3>1. PICK w : w = [work[p] EXCEPT !.found = F]
        OBVIOUS
      <3>2. w \in Work /\ w.time = work[p].time /\ w.event = NoEvent /\ w.pc = "lock"
            /\ w.todo = work[p].todo
        BY <1>0, <1>1, <2>2, <2>4, <3>1 DEF Work
      <3>3. work' = [work EXCEPT ![p] = w]
        BY <2>6, <3>1
      <3>4. /\ rows' \in [Events -> Row]
            /\ \A x \in Events \ {} : rows'[x] = rows[x]
            /\ \A x \in {} : rows'[x] = LockedUntil(x, work[p].time)
            /\ \A x \in {} : Unclaimed(x, work[p].time)
            /\ {} \in SUBSET Events /\ w.todo \subseteq work[p].todo \cup {}
        BY <1>0, <2>6, <3>2
      <3> QED
        BY <1>1, <3>2, <3>3, <3>4, ClaimStep
    <2> QED
      BY <2>1, <2>3, <2>5, <2>6
  <1> QED
    BY <1>3, <1>4

-----------------------------------------------------------------------------
(* The rest of the system *)

LEMMA CrashKeepsInv ==
  ASSUME OutboxInv, NEW p \in Publishers, Crash(p)
  PROVE  OutboxInv'
  <1>0. /\ Idle \in Work /\ Idle.time <= now /\ now \in Nat /\ faults \in Nat
        /\ connected \in [Publishers -> BOOLEAN] /\ transit \in [Publishers -> SUBSET Events]
    BY WorkerIsTyped DEF Idle, Work, OutboxInv, TypeOK
  <1>1. Moves(p, Idle)
    BY <1>0, MoveStep DEF Crash, OutboxInv
  <1>2. /\ UNCHANGED <<scenario, rows, now, received>> /\ faults' = faults + 1
        /\ connected' = [connected EXCEPT ![p] = FALSE]
        /\ lost' = lost \cup transit[p]
        /\ transit' = [transit EXCEPT ![p] = {}]
    BY DEF Crash, Disconnect, Fault
  <1>3. TypeOK'
    BY <1>0, <1>1, <1>2 DEF OutboxInv, TypeOK, Moves
  <1>4. Handed' = Handed
    BY <1>0, <1>2 DEF Handed
  <1>5. work'[p].pc = "idle" /\ work'[p].event = NoEvent /\ work'[p].todo = {}
    BY <1>1 DEF Moves, Idle
  <1>6. HandOK(p)' /\ LockOK(p)'
    BY <1>5, IdleIsOK
  <1>7. \A e \in Events : ~Holds(p, e)'
    BY <1>5, OutboxAssumption DEF Holds
  <1>8. \A e \in Events : SameOrMarked(e)
    BY <1>2 DEF SameOrMarked
  <1> QED
    BY <1>1, <1>2, <1>3, <1>4, <1>6, <1>7, <1>8, LocalStep

\* Steps that move no publisher.
LEMMA WorldStep ==
  ASSUME OutboxInv, TypeOK', work' = work, now <= now',
         Handed \subseteq Handed',
         \A e \in Events : rows[e].status # "absent" => rows'[e] = rows[e]
  PROVE  OutboxInv'
  <1>1. now' \in Nat
    BY DEF TypeOK
  <1>2. ASSUME NEW q \in Publishers, NEW e \in Events, Holds(q, e)
        PROVE  SameOrMarked(e) /\ (NeverMarkedFailed(e)' => NeverMarkedFailed(e))
    <2>1. HandOK(q)
      BY DEF OutboxInv
    <2> QED
      BY <1>2, <2>1 DEF HandOK, SameOrMarked, NeverMarkedFailed
  <1>3. ASSUME NEW q \in Publishers PROVE HandOK(q)' /\ LockOK(q)'
    BY <1>1, <1>2, OthersKeep
  <1>4. OneHolder'
    BY <1>2, HoldersShrink DEF Holds
  <1> QED
    BY <1>3, <1>4 DEF OutboxInv

LEMMA WorldKeepsInv ==
  ASSUME OutboxInv,
         \/ Tick
         \/ \E e \in Events : Insert(e)
         \/ \E p \in Publishers : Receive(p) \/ Drop(p)
  PROVE  OutboxInv'
  <1>0. /\ now \in Nat /\ faults \in Nat /\ rows \in [Events -> Row]
        /\ connected \in [Publishers -> BOOLEAN] /\ transit \in [Publishers -> SUBSET Events]
        /\ received \subseteq Events /\ lost \subseteq Events
    BY DEF OutboxInv, TypeOK
  <1>1. CASE Tick
    <2>1. UNCHANGED <<scenario, rows, work, Broker, faults>> /\ now' = now + 1
      BY <1>1 DEF Tick
    <2>2. TypeOK'
      BY <1>0, <2>1 DEF OutboxInv, TypeOK, Broker, Work
    <2> QED
      BY <1>0, <2>1, <2>2, WorldStep DEF Broker, Handed
  <1>2. ASSUME NEW e \in Events, Insert(e) PROVE OutboxInv'
    <2>1. rows' = [rows EXCEPT ![e] = [status |-> "pending", created |-> now, next |-> 0, lock |-> 0]]
          /\ rows[e].status = "absent" /\ UNCHANGED <<scenario, work, Broker, now, faults>>
      BY <1>2 DEF Insert
    <2>2. rows' \in [Events -> Row]
      BY <1>0, <2>1 DEF Row
    <2>3. TypeOK'
      BY <2>1, <2>2 DEF OutboxInv, TypeOK, Broker
    <2>4. \A x \in Events : rows[x].status # "absent" => rows'[x] = rows[x]
      BY <1>0, <2>1
    <2> QED
      BY <1>0, <2>1, <2>3, <2>4, WorldStep DEF Broker, Handed
  <1>3. ASSUME NEW p \in Publishers, Receive(p) PROVE OutboxInv'
    <2>1. PICK e \in transit[p] : /\ received' = received \cup {e}
                                  /\ transit' = [transit EXCEPT ![p] = @ \ {e}]
      BY <1>3 DEF Receive
    <2>2. UNCHANGED <<scenario, rows, work, connected, lost, now, faults>>
      BY <1>3 DEF Receive
    <2>3. TypeOK'
      BY <1>0, <2>1, <2>2 DEF OutboxInv, TypeOK
    <2>4. Handed \subseteq Handed'
      BY <1>0, <2>1, <2>2 DEF Handed
    <2> QED
      BY <1>0, <2>2, <2>3, <2>4, WorldStep
  <1>4. ASSUME NEW p \in Publishers, Drop(p) PROVE OutboxInv'
    <2>1. /\ UNCHANGED <<scenario, rows, work, now, received>> /\ faults' = faults + 1
          /\ connected' = [connected EXCEPT ![p] = FALSE]
          /\ lost' = lost \cup transit[p]
          /\ transit' = [transit EXCEPT ![p] = {}]
      BY <1>4 DEF Drop, Disconnect, Fault
    <2>2. TypeOK'
      BY <1>0, <2>1 DEF OutboxInv, TypeOK
    <2>3. Handed' = Handed
      BY <1>0, <2>1 DEF Handed
    <2> QED
      BY <1>0, <2>1, <2>2, <2>3, WorldStep
  <1> QED
    BY <1>1, <1>2, <1>3, <1>4

LEMMA NextKeepsInv == OutboxInv /\ [Next]_vars => OutboxInv'
  <1> SUFFICES ASSUME OutboxInv, [Next]_vars PROVE OutboxInv'
    OBVIOUS
  <1>1. CASE UNCHANGED vars
    <2>1. TypeOK'
      BY <1>1 DEF vars, OutboxInv, TypeOK
    <2>2. UNCHANGED <<scenario, rows, work, connected, transit, received, lost, now, faults>> /\ now \in Nat
      BY <1>1 DEF vars, OutboxInv, TypeOK
    <2> QED
      BY <2>1, <2>2, WorldStep DEF Handed
  <1>2. CASE Next
    BY <1>2, RoundKeepsInv, LookingKeepsInv, TakingKeepsInv, SendingKeepsInv, MarkingKeepsInv,
       ClaimingKeepsInv, CrashKeepsInv, WorldKeepsInv
    DEF Next, Step, GoesWrong
  <1> QED
    BY <1>1, <1>2

LEMMA InvHolds == Spec => []OutboxInv
  BY InitInv, NextKeepsInv, PTL DEF Spec

-----------------------------------------------------------------------------
(* The results *)

\* The type invariant of the relay: publish_pending works on the rows of
\* outbox_events and never with a time that is still to come.
THEOREM OutboxTypes == Spec => []TypeOK
  BY InvHolds, PTL DEF OutboxInv

\* Whatever crashes, disconnects or is refused, the locks of claim_pending keep an event
\* that was never marked as failed out of the hands of a second publisher until the first
\* has overrun its lock.
THEOREM ClaimsAreExclusive == Spec => []OneHolder
  BY InvHolds, PTL DEF OutboxInv

LEMMA RelayStarts == Init => Relay!Init
  BY DEF Init, Relay!Init, Written, Handed, Published

\* A step that changes neither the status of a row nor what was handed over and
\* received is none of the relay.
LEMMA Stutters ==
  ASSUME \A e \in Events : rows'[e].status = rows[e].status,
         Handed' = Handed, received' = received
  PROVE  UNCHANGED Relay!vars
  BY DEF Relay!vars, Written, Published

LEMMA RelayStep == OutboxInv /\ [Next]_vars => [Relay!Next]_(Relay!vars)
  <1> SUFFICES ASSUME OutboxInv, [Next]_vars PROVE [Relay!Next]_(Relay!vars)
    OBVIOUS
  <1>0. /\ rows \in [Events -> Row] /\ work \in [Publishers -> Work]
        /\ transit \in [Publishers -> SUBSET Events]
    BY DEF OutboxInv, TypeOK
  <1>1. ASSUME NEW e \in Events, Insert(e) PROVE Relay!Next
    <2>1. Written' = Written \cup {e} /\ e \notin Written /\ Published' = Published
      BY <1>0, <1>1 DEF Insert, Written, Published
    <2>2. Handed' = Handed /\ received' = received
      BY <1>1 DEF Insert, Handed, Broker
    <2>3. Relay!Write(e)
      BY <2>1, <2>2 DEF Relay!Write
    <2> QED
      BY <2>3 DEF Relay!Next
  <1>2. ASSUME NEW p \in Publishers, Send(p) \/ SendFails(p)
        PROVE  Relay!Next \/ UNCHANGED Relay!vars
    <2>1. UNCHANGED <<scenario, rows, received, lost>> /\ (UNCHANGED transit \/ HandOver(p))
      BY <1>2 DEF Send, SendFails
    <2>2. work[p].event \in Events /\ work[p].event \in Written
      BY <1>2, WorkerIsTyped DEF Send, SendFails, At, HandOK, InHand, Holds, Written
    <2>3. CASE UNCHANGED transit
      BY <2>1, <2>3, Stutters DEF Handed
    <2>4. CASE HandOver(p)
      <3>1. Handed' = Handed \cup {work[p].event}
        BY <1>0, <2>1, <2>4 DEF HandOver, Handed
      <3>2. Relay!Hand(work[p].event)
        BY <2>1, <2>2, <3>1 DEF Relay!Hand, Written, Published
      <3> QED
        BY <2>2, <3>2 DEF Relay!Next
    <2> QED
      BY <2>1, <2>3, <2>4
  <1>3. ASSUME NEW p \in Publishers, Receive(p) PROVE Relay!Next
    <2>1. PICK e \in transit[p] : /\ received' = received \cup {e}
                                  /\ transit' = [transit EXCEPT ![p] = @ \ {e}]
      BY <1>3 DEF Receive
    <2>2. UNCHANGED <<scenario, rows, lost>>
      BY <1>3 DEF Receive
    <2>3. e \in Events /\ e \in Handed /\ Handed' = Handed
      BY <1>0, <2>1, <2>2 DEF Handed
    <2>4. Relay!Arrive(e)
      BY <2>1, <2>2, <2>3 DEF Relay!Arrive, Written, Published
    <2> QED
      BY <2>3, <2>4 DEF Relay!Next
  <1>4. ASSUME NEW p \in Publishers, MarkPublished(p) PROVE Relay!Next
    <2>1. PICK e : e = work[p].event
      OBVIOUS
    <2>2. e \in Events /\ e \in Handed /\ rows[e].status # "absent"
      BY <1>4, <2>1, WorkerIsTyped DEF MarkPublished, At, HandOK, InHand, Holds
    <2>3. rows'[e].status = "published" /\ \A x \in Events \ {e} : rows'[x] = rows[x]
      BY <1>0, <1>4, <2>1, <2>2 DEF MarkPublished, Row
    <2>4. Written' = Written /\ Published' = Published \cup {e}
      BY <2>2, <2>3 DEF Written, Published
    <2>5. Handed' = Handed /\ received' = received
      BY <1>4 DEF MarkPublished, Broker, Handed
    <2>6. Relay!Settle(e)
      BY <2>2, <2>4, <2>5 DEF Relay!Settle
    <2> QED
      BY <2>2, <2>6 DEF Relay!Next
  <1>5. ASSUME NEW p \in Publishers, MarkFailed(p) PROVE UNCHANGED Relay!vars
    <2>1. work[p].event \in Events
      BY <1>5, WorkerIsTyped DEF MarkFailed, At, HandOK, InHand
    <2>2. \A e \in Events : rows'[e].status = rows[e].status
      BY <1>0, <1>5, <2>1 DEF MarkFailed, Row
    <2> QED
      BY <1>5, <2>2, Stutters DEF MarkFailed, Broker, Handed
  <1>6. ASSUME NEW p \in Publishers, ClaimBatch(p) \/ ClaimOne(p) PROVE UNCHANGED Relay!vars
    <2>1. \A e \in Events : LockedUntil(e, work[p].time).status = rows[e].status
      BY <1>0 DEF LockedUntil, Row
    <2>2. CASE ClaimBatch(p)
      <3>1. PICK B \in SUBSET Events :
              rows' = [e \in Events |-> IF e \in B THEN LockedUntil(e, work[p].time) ELSE rows[e]]
        BY <2>2 DEF ClaimBatch
      <3>2. \A e \in Events : rows'[e].status = rows[e].status
        BY <2>1, <3>1
      <3> QED
        BY <2>2, <3>2, Stutters DEF ClaimBatch, Broker, Handed
    <2>3. CASE ClaimOne(p)
      <3>1. PICK e \in Events : \/ rows' = rows
                                \/ rows' = [rows EXCEPT ![e] = LockedUntil(e, work[p].time)]
        BY <1>0, <2>3 DEF ClaimOne, Oldest, Work
      <3>2. \A x \in Events : rows'[x].status = rows[x].status
        BY <1>0, <2>1, <3>1
      <3> QED
        BY <2>3, <3>2, Stutters DEF ClaimOne, Broker, Handed
    <2> QED
      BY <1>6, <2>2, <2>3
  <1>7. ASSUME NEW p \in Publishers, Drop(p) \/ Crash(p) PROVE UNCHANGED Relay!vars
    <2>1. /\ UNCHANGED <<scenario, rows, received>>
          /\ lost' = lost \cup transit[p]
          /\ transit' = [transit EXCEPT ![p] = {}]
      BY <1>7 DEF Drop, Crash, Disconnect
    <2>2. Handed' = Handed
      BY <1>0, <2>1 DEF Handed
    <2> QED
      BY <2>1, <2>2, Stutters
  <1>8. ASSUME \/ Tick
               \/ UNCHANGED vars
               \/ \E p \in Publishers :
                    \/ Wake(p) \/ FindCandidates(p) \/ AllClaimed(p) \/ GetChannel(p)
                    \/ SendOnClosed(p) \/ EndRound(p) \/ ConnectFails(p) \/ StatementFails(p)
        PROVE  UNCHANGED Relay!vars
    <2>1. UNCHANGED <<scenario, rows, transit, received, lost>>
      BY <1>8 DEF Tick, vars, Wake, FindCandidates, AllClaimed, GetChannel, SendOnClosed, EndRound,
                  ConnectFails, StatementFails, Broker
    <2> QED
      BY <2>1, Stutters DEF Handed
  <1> QED
    BY <1>1, <1>2, <1>3, <1>4, <1>5, <1>6, <1>7, <1>8 DEF Next, Step, GoesWrong

\* The outbox implements the relay: what publish_pending marks as published was
\* handed to the client of the broker before, whatever fails in between.
THEOREM OutboxImplementsRelay == Spec => ImplementsRelay
  BY RelayStarts, RelayStep, InvHolds, PTL DEF Spec, ImplementsRelay, Relay!Spec
=============================================================================
