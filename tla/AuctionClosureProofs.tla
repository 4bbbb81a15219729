------------------------ MODULE AuctionClosureProofs ------------------------
(* Proofs about AuctionClosure: any number of scheduler tasks and callers, on  *)
(* either database, with any number of failures and crashes.                   *)
EXTENDS AuctionClosure, TLAPS

HasBest(rows) == \E x \in rows : \A y \in rows \ {x} : Outranks(x, y)

\* the rows are what StartsAssumption says, and stay typed; a job is SETTLING only
\* once the outcome is visible
RowsOK ==
  /\ listing \in [highest : Nat, end : Nat, status : Statuses]
  /\ bids \subseteq BidRow
  /\ bids # {} => HasBest(bids)
  /\ \A x \in bids : x.amount > 0 /\ x.hold \in DOMAIN holds
  /\ \A i \in DOMAIN holds : holds[i] \in Hold
  /\ job \in [status : JobStatuses, due : Nat, lockedUntil : Nat]
  /\ now \in Nat
  /\ rowLock \in Handlers \cup {Free}
  /\ ~Closed /\ bids = {} => listing.highest = 0
  /\ job.status = "SETTLING" => Closed

PCs == {"idle", "claim", "claimit", "lock", "resume", "skip", "early", "answer", "list", "commit",
        "postpone", "failed", "settling", "settle", "unsettled", "done", "gone"}

InTransaction(pc) == pc \in {"resume", "skip", "early", "answer", "list", "commit"}

Task == [pc : PCs, time : Nat, claimed : JobStatuses, status : Statuses, end : Nat,
         rows : SUBSET bids]

\* What a handler p with local variables t may rely on: inside its transaction it
\* holds the row; on its way to close the auction it knows the row is not closed
\* and has ended; on its way to settle it knows the visible outcome.
TaskOK(p, t) ==
  /\ t \in Task /\ t.time <= now
  /\ InTransaction(t.pc) => rowLock = p
  /\ t.pc \in {"list", "commit"} => ~Closed /\ listing.end <= t.time
  /\ t.pc = "commit" => t.rows = bids
  /\ t.claimed = "SETTLING" => Closed
  /\ t.pc \in {"resume", "settling", "settle", "unsettled"} => Closed
  /\ t.pc \in {"resume", "settling", "settle"} => t.status = listing.status
  /\ t.pc \in {"settling", "settle"} /\ listing.status = "WON" => t.rows = bids

TasksOK ==
  /\ task \in [Handlers -> Task]
  /\ \A p \in Handlers : TaskOK(p, task[p])

\* The inductive invariant.
ClosureInv ==
  /\ RowsOK
  /\ TasksOK
  /\ AnnouncedOnce
  /\ OutcomeIsRight

-----------------------------------------------------------------------------

\* The best bid is a bid that nobody outranks.
LEMMA BestIsBid ==
  ASSUME NEW rows, HasBest(rows)
  PROVE  Best(rows) \in rows /\ \A y \in rows \ {Best(rows)} : Outranks(Best(rows), y)
  <1>1. rows # {}
    BY DEF HasBest
  <1>2. \E x \in rows : \A y \in rows \ {x} : Outranks(x, y)
    BY DEF HasBest
  <1>. QED BY <1>1, <1>2 DEF Best

\* A step of one handler that leaves the auction and the announcements alone keeps
\* the invariant if it leaves that handler with local variables it may rely on.
LEMMA LocalStep ==
  ASSUME ClosureInv, NEW p \in Handlers, NEW t,
         UNCHANGED <<listing, bids, outbox, now>>,
         RowsOK',
         task' = [task EXCEPT ![p] = t],
         rowLock' = rowLock \/ rowLock \in {Free, p},
         TaskOK(p, t)'
  PROVE  ClosureInv'
  <1>1. Task' = Task /\ Closed' = Closed /\ EndedEvents' = EndedEvents
    BY DEF Task, Closed, EndedEvents
  <1>2. t \in Task
    BY <1>1 DEF TaskOK
  <1>3. task' \in [Handlers -> Task]
    BY <1>2 DEF ClosureInv, TasksOK
  <1>4. ASSUME NEW q \in Handlers
        PROVE  TaskOK(q, task[q])'
    <2>1. CASE q = p
      BY <2>1 DEF ClosureInv, TasksOK
    <2>2. CASE q # p
      <3>1. task'[q] = task[q] /\ TaskOK(q, task[q])
        BY <2>2 DEF ClosureInv, TasksOK
      <3>2. InTransaction(task[q].pc) => rowLock' = q
        BY <2>2, <3>1, ClosureAssumption DEF TaskOK, Handlers
      <3>. QED BY <3>1, <3>2, <1>1 DEF TaskOK
    <2>. QED BY <2>1, <2>2
  <1>5. TasksOK'
    BY <1>1, <1>3, <1>4 DEF TasksOK
  <1>6. AnnouncedOnce'
    BY <1>1 DEF ClosureInv, AnnouncedOnce
  <1>7. OutcomeIsRight'
    BY <1>1 DEF ClosureInv, OutcomeIsRight
  <1>. QED BY <1>5, <1>6, <1>7 DEF ClosureInv

-----------------------------------------------------------------------------
(* What the actions have in common *)

JobRow == [status : JobStatuses, due : Nat, lockedUntil : Nat]

\* The rows stay as the invariant says when only the job and the row lock change.
LEMMA RowsKept ==
  ASSUME ClosureInv, UNCHANGED <<listing, bids, holds, now>>,
         job' \in JobRow, job'.status = "SETTLING" => Closed,
         rowLock' \in Handlers \cup {Free}
  PROVE  RowsOK'
  BY DEF ClosureInv, RowsOK, JobRow, Closed

LEMMA JobRowIsTyped == ASSUME ClosureInv PROVE job \in JobRow
  BY DEF ClosureInv, RowsOK, JobRow

\* A hold whose state changes stays a hold.
LEMMA HoldsKept ==
  ASSUME ClosureInv, NEW id, NEW s \in {"released", "converted"},
         holds' = IF IsActive(id) THEN [holds EXCEPT ![id].state = s] ELSE holds,
         UNCHANGED <<listing, bids, job, now, rowLock>>
  PROVE  RowsOK'
  <1>1. DOMAIN holds' = DOMAIN holds
    OBVIOUS
  <1>2. \A i \in DOMAIN holds : holds'[i] \in Hold
    BY SMT DEF ClosureInv, RowsOK, Hold, IsActive
  <1>. QED BY <1>1, <1>2 DEF ClosureInv, RowsOK, Closed

\* A handler that has finished relies on nothing.
LEMMA FinishedIsOK ==
  ASSUME ClosureInv, NEW p \in Handlers, UNCHANGED <<bids, now>>
  PROVE  TaskOK(p, Finished(p))'
  BY DEF ClosureInv, RowsOK, TaskOK, Finished, Idle, Task, PCs, JobStatuses, Statuses, Biddable,
         InTransaction

\* The shape of every step that ends the work of a handler.
LEMMA FinishKeepsInv ==
  ASSUME ClosureInv, NEW p \in Handlers, UNCHANGED <<listing, bids, holds, outbox, now>>,
         Finish(p), job' \in JobRow, job'.status = "SETTLING" => Closed,
         rowLock' = rowLock \/ (rowLock' = Free /\ rowLock \in {Free, p})
  PROVE  ClosureInv'
  <1>1. RowsOK'
    BY RowsKept DEF ClosureInv, RowsOK
  <1>. QED BY <1>1, FinishedIsOK, LocalStep DEF Finish

\* The shape of every other step that may change the job and the row lock.
LEMMA MoveKeepsInv ==
  ASSUME ClosureInv, NEW p \in Handlers, NEW t,
         UNCHANGED <<listing, bids, holds, outbox, now>>,
         task' = [task EXCEPT ![p] = t], TaskOK(p, t)',
         job' \in JobRow, job'.status = "SETTLING" => Closed,
         rowLock' = rowLock \/ (rowLock' \in {Free, p} /\ rowLock \in {Free, p})
  PROVE  ClosureInv'
  <1>1. RowsOK'
    BY RowsKept DEF ClosureInv, RowsOK
  <1>. QED BY <1>1, LocalStep

LEMMA TaskIsOK == ASSUME ClosureInv, NEW p \in Handlers PROVE TaskOK(p, task[p])
  BY DEF ClosureInv, TasksOK

-----------------------------------------------------------------------------
(* The actions, grouped by what they change *)

\* waking up, claiming and asking
LEMMA ClaimingKeepsInv ==
  ASSUME ClosureInv, NEW p \in Handlers,
         \/ Wake(p) \/ ClaimReturning(p) \/ FindCandidate(p) \/ ClaimCandidate(p) \/ Request(p)
  PROVE  ClosureInv'
  <1>0. TaskOK(p, task[p]) /\ job \in JobRow /\ now \in Nat /\ listing.end \in Nat
        /\ (job.status = "SETTLING" => Closed) /\ rowLock \in Handlers \cup {Free}
    BY TaskIsOK, JobRowIsTyped DEF ClosureInv, RowsOK
  <1>1. CASE Wake(p)
    <2>1. PICK t : t = [task[p] EXCEPT !.pc = "claim", !.time = now]
      OBVIOUS
    <2>2. task' = [task EXCEPT ![p] = t]
      BY <1>1, <2>1 DEF Wake
    <2>3. TaskOK(p, t)'
      <3>1. t \in Task /\ t.pc = "claim" /\ t.time = now /\ t.claimed = task[p].claimed
        BY <1>0, <2>1 DEF TaskOK, Task, PCs
      <3>2. UNCHANGED <<listing, bids, now>>
        BY <1>1 DEF Wake
      <3>. QED BY <1>0, <3>1, <3>2 DEF TaskOK, Task, Closed, InTransaction
    <2>4. job' \in JobRow /\ (job'.status = "SETTLING" => Closed)
      BY <1>0, <1>1 DEF Wake, JobRow, JobStatuses, Unlocked
    <2>5. UNCHANGED <<listing, bids, holds, outbox, now, rowLock>>
      BY <1>1 DEF Wake
    <2>. QED BY <2>2, <2>3, <2>4, <2>5, MoveKeepsInv
  <1>2. ASSUME NEW pc \in {"lock", "claimit"}, NEW c \in JobStatuses, c = "SETTLING" => Closed,
               task' = [task EXCEPT ![p] = [@ EXCEPT !.pc = pc, !.claimed = c]],
               job' = job \/ job' = Locked(p),
               UNCHANGED <<listing, bids, holds, outbox, now, rowLock>>
        PROVE  ClosureInv'
    <2>1. PICK t : t = [task[p] EXCEPT !.pc = pc, !.claimed = c]
      OBVIOUS
    <2>2. task' = [task EXCEPT ![p] = t]
      BY <1>2, <2>1
    <2>3. TaskOK(p, t)'
      BY <1>0, <1>2, <2>1 DEF TaskOK, Task, Closed, InTransaction, PCs
    <2>4. job' \in JobRow /\ (job'.status = "SETTLING" => Closed)
      <3>1. task[p].time + LockTime \in Nat
        BY <1>0, ClosureAssumption DEF TaskOK, Task
      <3>. QED BY <1>0, <1>2, <3>1 DEF Locked, JobRow, JobStatuses
    <2>. QED BY <1>2, <2>2, <2>3, <2>4, MoveKeepsInv
  <1>3. ASSUME Finish(p), UNCHANGED <<listing, bids, holds, outbox, now, rowLock, job>>
        PROVE  ClosureInv'
    BY <1>0, <1>3, FinishKeepsInv
  <1>4. CASE ClaimReturning(p)
    <2>1. CASE Claimable(task[p].time)
      <3>1. job' = Locked(p) /\ job'.status = "PROCESSING"
        BY <1>0, <1>4, <2>1 DEF ClaimReturning, Locked, JobRow
      <3>2. job'.status \in JobStatuses
        BY <3>1 DEF JobStatuses
      <3>. QED BY <1>2, <1>4, <2>1, <3>1, <3>2 DEF ClaimReturning
    <2>. QED BY <1>3, <1>4, <2>1 DEF ClaimReturning
  <1>5. CASE FindCandidate(p)
    <2>1. job.status \in JobStatuses
      BY <1>0 DEF JobRow
    <2>. QED BY <1>0, <1>2, <1>3, <1>5, <2>1 DEF FindCandidate, storeVars
  <1>6. CASE ClaimCandidate(p)
    <2>1. task[p].claimed \in JobStatuses /\ (task[p].claimed = "SETTLING" => Closed)
      BY <1>0 DEF TaskOK, Task
    <2>2. [task[p] EXCEPT !.pc = "lock", !.claimed = task[p].claimed] = [task[p] EXCEPT !.pc = "lock"]
      BY <1>0 DEF TaskOK, Task
    <2>. QED BY <1>2, <1>3, <1>6, <2>1, <2>2 DEF ClaimCandidate
  <1>7. CASE Request(p)
    <2>1. PICK t : t = [task[p] EXCEPT !.pc = "lock", !.time = now]
      OBVIOUS
    <2>2. task' = [task EXCEPT ![p] = t]
      BY <1>7, <2>1 DEF Request
    <2>3. TaskOK(p, t)'
      <3>1. t \in Task /\ t.pc = "lock" /\ t.time = now /\ t.claimed = task[p].claimed
        BY <1>0, <2>1 DEF TaskOK, Task, PCs
      <3>2. UNCHANGED <<listing, bids, now>>
        BY <1>7 DEF Request, storeVars
      <3>. QED BY <1>0, <3>1, <3>2 DEF TaskOK, Task, Closed, InTransaction
    <2>4. UNCHANGED <<listing, bids, holds, outbox, now, rowLock, job>>
      BY <1>7 DEF Request, storeVars
    <2>. QED BY <1>0, <2>2, <2>3, <2>4, MoveKeepsInv
  <1>. QED BY <1>1, <1>4, <1>5, <1>6, <1>7

\* locking the row and what follows at once
LEMMA DecidingKeepsInv ==
  ASSUME ClosureInv, NEW p \in Handlers,
         \/ LockRow(p) \/ Resume(p) \/ Skip(p) \/ Early(p) \/ AnswerAtOnce(p) \/ Postpone(p)
         \/ ListBids(p)
  PROVE  ClosureInv'
  <1>0. TaskOK(p, task[p]) /\ job \in JobRow /\ now \in Nat /\ listing.end \in Nat
        /\ listing.status \in Statuses
        /\ (job.status = "SETTLING" => Closed) /\ rowLock \in Handlers \cup {Free}
    BY TaskIsOK, JobRowIsTyped DEF ClosureInv, RowsOK
  <1>1. CASE LockRow(p)
    <2>1. PICK t : t = [task[p] EXCEPT !.pc = Decision(p), !.status = listing.status,
                                       !.end = listing.end]
      OBVIOUS
    <2>2. task' = [task EXCEPT ![p] = t]
      BY <1>1, <2>1 DEF LockRow
    <2>3. /\ Decision(p) \in {"resume", "skip", "early", "answer", "list"}
          /\ Decision(p) = "resume" => task[p].claimed = "SETTLING"
          /\ Decision(p) = "list" => ~Closed /\ listing.end <= task[p].time
      BY <1>0 DEF Decision, Closed, Terminal, TaskOK, Task
    <2>4. TaskOK(p, t)'
      BY <1>0, <1>1, <2>1, <2>3 DEF LockRow, TaskOK, Task, Closed, InTransaction, PCs, storeVars
    <2>. QED BY <1>0, <1>1, <2>2, <2>4, MoveKeepsInv DEF LockRow, storeVars
  <1>2. CASE Resume(p)
    <2>1. PICK t : t = [task[p] EXCEPT !.pc = "settle", !.rows = bids]
      OBVIOUS
    <2>2. task' = [task EXCEPT ![p] = t]
      BY <1>2, <2>1 DEF Resume
    <2>3. TaskOK(p, t)'
      BY <1>0, <1>2, <2>1 DEF Resume, At, TaskOK, Task, Closed, InTransaction, PCs, storeVars
    <2>4. rowLock = p
      BY <1>0, <1>2 DEF Resume, At, TaskOK, InTransaction
    <2>. QED BY <1>0, <1>2, <2>2, <2>3, <2>4, MoveKeepsInv DEF Resume, storeVars
  <1>3. ASSUME NEW pc \in {"done", "postpone"}, InTransaction(task[p].pc), Unlock(p, pc)
        PROVE  ClosureInv'
    <2>1. PICK t : t = [task[p] EXCEPT !.pc = pc]
      OBVIOUS
    <2>2. task' = [task EXCEPT ![p] = t]
      BY <1>3, <2>1 DEF Unlock
    <2>3. TaskOK(p, t)'
      BY <1>0, <1>3, <2>1 DEF Unlock, TaskOK, Task, Closed, InTransaction, PCs, storeVars
    <2>4. rowLock = p
      BY <1>0, <1>3 DEF TaskOK
    <2>. QED BY <1>0, <1>3, <2>2, <2>3, <2>4, MoveKeepsInv DEF Unlock, storeVars
  <1>4. CASE Skip(p)
    BY <1>3, <1>4 DEF Skip, At, InTransaction
  <1>5. CASE Early(p)
    BY <1>3, <1>5 DEF Early, At, InTransaction
  <1>6. CASE AnswerAtOnce(p)
    <2>1. rowLock = p
      BY <1>0, <1>6 DEF AnswerAtOnce, At, TaskOK, InTransaction
    <2>. QED BY <1>0, <1>6, <2>1, FinishKeepsInv DEF AnswerAtOnce, storeVars
  <1>7. CASE Postpone(p)
    <2>1. job' \in JobRow /\ (job'.status = "SETTLING" => Closed)
      BY <1>0, <1>7 DEF Postpone, UpsertPending, JobRow, JobStatuses, TaskOK, Task
    <2>2. Finish(p) /\ UNCHANGED <<listing, bids, holds, outbox, now, rowLock>>
      BY <1>7 DEF Postpone
    <2>. QED BY <2>1, <2>2, FinishKeepsInv
  <1>8. CASE ListBids(p)
    <2>1. PICK t : t = [task[p] EXCEPT !.pc = "commit", !.rows = bids]
      OBVIOUS
    <2>2. task' = [task EXCEPT ![p] = t]
      BY <1>8, <2>1 DEF ListBids
    <2>3. TaskOK(p, t)'
      BY <1>0, <1>8, <2>1 DEF ListBids, At, TaskOK, Task, Closed, InTransaction, PCs, storeVars
    <2>4. UNCHANGED <<listing, bids, holds, outbox, now, rowLock, job>>
      BY <1>8 DEF ListBids, storeVars
    <2>. QED BY <1>0, <2>2, <2>3, <2>4, MoveKeepsInv
  <1>. QED BY <1>1, <1>2, <1>4, <1>5, <1>6, <1>7, <1>8

\* keeping the books of the job
LEMMA MarkingKeepsInv ==
  ASSUME ClosureInv, NEW p \in Handlers,
         \/ MarkSettling(p) \/ FailClosure(p) \/ MarkFailed(p) \/ MarkSettlementFailed(p)
         \/ MarkDone(p) \/ CutShort(p)
  PROVE  ClosureInv'
  <1>0. /\ TaskOK(p, task[p]) /\ job \in JobRow /\ (job.status = "SETTLING" => Closed)
        /\ rowLock \in Handlers \cup {Free}
        /\ task[p].time \in Nat /\ task[p].time + RetryDelay \in Nat
    BY TaskIsOK, JobRowIsTyped, ClosureAssumption DEF ClosureInv, RowsOK, TaskOK, Task
  <1>1. ASSUME NEW s \in JobStatuses, NEW due \in Nat, s = "SETTLING" => Closed,
               job' = Unlocked(s, due)
        PROVE  job' \in JobRow /\ (job'.status = "SETTLING" => Closed)
    BY <1>1 DEF Unlocked, JobRow
  <1>2. ASSUME Finish(p), job' \in JobRow /\ (job'.status = "SETTLING" => Closed),
               UNCHANGED <<listing, bids, holds, outbox, now, rowLock>>
        PROVE  ClosureInv'
    BY <1>2, FinishKeepsInv
  <1>3. CASE MarkSettling(p)
    <2>1. PICK t : t = [task[p] EXCEPT !.pc = "settle"]
      OBVIOUS
    <2>2. task' = [task EXCEPT ![p] = t]
      BY <1>3, <2>1 DEF MarkSettling
    <2>3. Closed /\ UNCHANGED <<listing, bids, holds, outbox, now, rowLock>>
      BY <1>0, <1>3 DEF MarkSettling, At, TaskOK
    <2>4. TaskOK(p, t)'
      BY <1>0, <1>3, <2>1, <2>3 DEF MarkSettling, At, TaskOK, Task, Closed, InTransaction, PCs
    <2>5. job' \in JobRow /\ (job'.status = "SETTLING" => Closed)
      BY <1>0, <1>1, <1>3, <2>3 DEF MarkSettling, JobStatuses
    <2>. QED BY <2>2, <2>3, <2>4, <2>5, MoveKeepsInv
  <1>4. CASE FailClosure(p)
    <2>1. /\ rowLock = p /\ rowLock' = Free
          /\ UNCHANGED <<listing, bids, holds, outbox, now, job>>
      BY <1>0, <1>4 DEF FailClosure, TaskOK, InTransaction, storeVars
    <2>2. CASE p \in Workers
      <3>1. PICK t : t = [task[p] EXCEPT !.pc = "failed"]
        OBVIOUS
      <3>2. task' = [task EXCEPT ![p] = t]
        BY <1>4, <2>2, <3>1 DEF FailClosure
      <3>3. TaskOK(p, t)'
        BY <1>0, <2>1, <3>1 DEF TaskOK, Task, Closed, InTransaction, PCs
      <3>. QED BY <1>0, <2>1, <3>2, <3>3, MoveKeepsInv
    <2>3. CASE p \notin Workers
      BY <1>0, <1>4, <2>1, <2>3, FinishKeepsInv DEF FailClosure
    <2>. QED BY <2>2, <2>3
  <1>5. CASE MarkFailed(p)
    BY <1>0, <1>1, <1>2, <1>5 DEF MarkFailed, JobStatuses
  <1>6. CASE MarkSettlementFailed(p)
    <2>1. Closed
      BY <1>0, <1>6 DEF MarkSettlementFailed, At, TaskOK
    <2>. QED BY <1>0, <1>1, <1>2, <1>6, <2>1 DEF MarkSettlementFailed, JobStatuses
  <1>7. CASE MarkDone(p)
    <2>1. job.due \in Nat
      BY <1>0 DEF JobRow
    <2>. QED BY <1>0, <1>1, <1>2, <1>7, <2>1 DEF MarkDone, JobStatuses
  <1>8. CASE CutShort(p)
    <2>1. UNCHANGED <<listing, bids, holds, outbox, now, job>> /\ Finish(p)
      BY <1>8 DEF CutShort, storeVars
    <2>2. rowLock' = rowLock \/ (rowLock' = Free /\ rowLock \in {Free, p})
      BY <1>8 DEF CutShort
    <2>. QED BY <1>0, <2>1, <2>2, FinishKeepsInv
  <1>. QED BY <1>3, <1>4, <1>5, <1>6, <1>7, <1>8

\* calling the wallet
LEMMA SettlingKeepsInv ==
  ASSUME ClosureInv, NEW p \in Handlers,
         \/ ConvertHold(p) \/ CannotConvert(p) \/ ReleaseNext(p) \/ AllReleased(p)
         \/ WalletFails(p)
  PROVE  ClosureInv'
  <1>0. /\ TaskOK(p, task[p]) /\ rowLock \in Handlers \cup {Free}
        /\ RowsOK /\ task[p].pc = "settle"
    BY TaskIsOK DEF ClosureInv, RowsOK, ConvertHold, CannotConvert, ReleaseNext, AllReleased,
                    WalletFails, At
  <1>1. ASSUME NEW pc \in {"done", "unsettled"}, task' = [task EXCEPT ![p].pc = pc], RowsOK',
               UNCHANGED <<listing, bids, outbox, now, rowLock>>
        PROVE  ClosureInv'
    <2>1. PICK t : t = [task[p] EXCEPT !.pc = pc]
      OBVIOUS
    <2>2. task' = [task EXCEPT ![p] = t]
      BY <1>1, <2>1
    <2>3. TaskOK(p, t)'
      BY <1>0, <1>1, <2>1 DEF TaskOK, Task, Closed, InTransaction, PCs
    <2>. QED BY <1>1, <2>2, <2>3, LocalStep
  <1>2. ASSUME UNCHANGED <<listing, bids, holds, job, now, rowLock>> PROVE RowsOK'
    BY <1>0, <1>2 DEF RowsOK, Closed
  <1>3. ASSUME NEW id, ReleaseHold(id) \/ Charge(id),
               UNCHANGED <<listing, bids, job, now, rowLock>>
        PROVE  RowsOK'
    BY <1>3, HoldsKept DEF ReleaseHold, Charge
  <1>4. CASE ConvertHold(p)
    BY <1>1, <1>3, <1>4 DEF ConvertHold
  <1>5. CASE CannotConvert(p)
    BY <1>1, <1>2, <1>5 DEF CannotConvert, storeVars
  <1>6. CASE ReleaseNext(p)
    <2>1. PICK t : t = [task[p] EXCEPT !.rows = @ \ {Winner(p)}]
      OBVIOUS
    <2>2. task' = [task EXCEPT ![p] = t]
      BY <1>6, <2>1 DEF ReleaseNext
    <2>3. UNCHANGED <<listing, bids, job, outbox, now, rowLock>>
      BY <1>6 DEF ReleaseNext
    <2>4. RowsOK'
      BY <1>3, <1>6, <2>3 DEF ReleaseNext
    <2>5. TaskOK(p, t)'
      <3>1. t \in Task /\ t.pc = "settle" /\ t.time = task[p].time /\ t.status = task[p].status
            /\ t.claimed = task[p].claimed
        BY <1>0, <2>1 DEF TaskOK, Task
      <3>2. listing.status # "WON"
        BY <1>0, <1>6 DEF ReleaseNext, TaskOK
      <3>. QED BY <1>0, <2>3, <3>1, <3>2 DEF TaskOK, Task, Closed, InTransaction
    <2>. QED BY <2>2, <2>3, <2>4, <2>5, LocalStep
  <1>7. CASE AllReleased(p)
    BY <1>1, <1>2, <1>7 DEF AllReleased, storeVars
  <1>8. CASE WalletFails(p)
    <2>1. UNCHANGED <<listing, bids, job, outbox, now, rowLock>>
      BY <1>8 DEF WalletFails
    <2>2. RowsOK'
      BY <1>2, <1>3, <1>8, <2>1 DEF WalletFails
    <2>. QED BY <1>1, <1>8, <2>1, <2>2 DEF WalletFails
  <1>. QED BY <1>4, <1>5, <1>6, <1>7, <1>8

\* The decision itself: the row lock makes p the only handler that can be here, and
\* the row it found open is open still.
LEMMA CommitKeepsInv ==
  ASSUME ClosureInv, NEW p \in Handlers, CommitClosure(p)
  PROVE  ClosureInv'
  <1> DEFINE outcome == Outcome(bids)
             event == Announcement(p, bids)
  <1>1. /\ TaskOK(p, task[p]) /\ RowsOK /\ task[p].pc = "commit" /\ task[p].rows = bids
        /\ ~Closed /\ listing.end <= now /\ rowLock = p
        /\ listing.end \in Nat /\ now \in Nat /\ task[p].time \in Nat
    <2>1. TaskOK(p, task[p]) /\ RowsOK /\ task[p].pc = "commit"
      BY TaskIsOK DEF ClosureInv, CommitClosure, At
    <2>2. listing.end \in Nat /\ now \in Nat /\ task[p].time \in Nat
      BY <2>1 DEF TaskOK, Task, RowsOK
    <2>. QED BY <2>1, <2>2 DEF TaskOK, InTransaction
  <1>2. /\ listing' = [listing EXCEPT !.status = outcome, !.highest = Highest(bids)]
        /\ outbox' = outbox \cup {event}
        /\ rowLock' = Free
        /\ task' = [task EXCEPT ![p].pc = "settling", ![p].status = outcome]
        /\ UNCHANGED <<bids, holds, job, now>>
    BY <1>1 DEF CommitClosure, Publish
  <1>3. /\ bids # {} => Best(bids) \in bids /\ Best(bids).amount \in Nat \ {0}
        /\ Highest(bids) \in Nat
        /\ bids # {} => Highest(bids) = Best(bids).amount
        /\ bids = {} => Highest(bids) = 0
        /\ outcome \in {"WON", "UNSOLD"}
    <2>1. CASE bids = {}
      BY <1>1, <2>1 DEF RowsOK, Highest, Outcome
    <2>2. CASE bids # {}
      <3>1. Best(bids) \in bids
        BY <1>1, <2>2, BestIsBid DEF RowsOK
      <3>2. Best(bids).amount \in Nat /\ Best(bids).amount > 0
        BY <1>1, <3>1 DEF RowsOK, BidRow
      <3>. QED BY <2>2, <3>1, <3>2 DEF Highest, Outcome
    <2>. QED BY <2>1, <2>2
  <1>4. /\ listing'.status = outcome /\ listing'.highest = Highest(bids)
        /\ listing'.end = listing.end
        /\ listing' \in [highest : Nat, end : Nat, status : Statuses]
        /\ Closed'
    BY <1>1, <1>2, <1>3 DEF RowsOK, Statuses, Terminal, Closed
  <1>5. RowsOK'
    BY <1>1, <1>2, <1>4 DEF RowsOK
  <1>6. TasksOK'
    <2>1. PICK t : t = [task[p] EXCEPT !.pc = "settling", !.status = outcome]
      OBVIOUS
    <2>2. task' = [task EXCEPT ![p] = t]
      BY <1>2, <2>1
    <2>3. outcome \in Statuses
      BY <1>3 DEF Statuses, Terminal
    <2>4. t \in Task /\ t.pc = "settling" /\ t.status = outcome /\ t.time = task[p].time
          /\ t.rows = bids
      BY <1>1, <2>1, <2>3 DEF TaskOK, Task, PCs
    <2>5. TaskOK(p, t)'
      BY <1>1, <1>2, <1>4, <2>4 DEF TaskOK, Task, InTransaction
    <2>6. Task' = Task /\ task' \in [Handlers -> Task]
      BY <1>2, <2>2, <2>4 DEF Task, ClosureInv, TasksOK
    <2>7. ASSUME NEW q \in Handlers, q # p PROVE TaskOK(q, task[q])'
      <3>1. task'[q] = task[q] /\ TaskOK(q, task[q])
        BY <2>2, <2>7, TaskIsOK DEF ClosureInv, TasksOK
      <3>2. ~InTransaction(task[q].pc)
        BY <1>1, <2>7, <3>1 DEF TaskOK
      <3>. QED BY <1>1, <1>2, <1>4, <2>6, <3>1, <3>2 DEF TaskOK, InTransaction
    <2>8. TaskOK(p, task[p])'
      BY <2>2, <2>5 DEF ClosureInv, TasksOK
    <2>. QED BY <2>6, <2>7, <2>8 DEF TasksOK
  <1>7. AnnouncedOnce'
    <2>1. EndedEvents = {}
      BY <1>1 DEF ClosureInv, AnnouncedOnce
    <2>2. EndedEvents' = {event}
      <3>1. event[1] = "AuctionEnded"
        BY DEF Announcement
      <3> HIDE DEF event
      <3>. QED BY <1>2, <2>1, <3>1 DEF EndedEvents
    <2>3. event = <<"AuctionEnded", p, listing'.status,
                    IF listing'.status = "WON" THEN Best(bids').id ELSE NoBid.id>>
      BY <1>2, <1>4 DEF Announcement
    <2>. QED BY <1>4, <2>2, <2>3 DEF AnnouncedOnce
  <1>8. OutcomeIsRight'
    <2>1. outcome = "WON" <=> bids # {} /\ Best(bids).amount >= ReservePrice
      BY <1>3, ClosureAssumption DEF Outcome
    <2>. QED BY <1>1, <1>2, <1>3, <1>4, <2>1 DEF OutcomeIsRight
  <1>. QED BY <1>5, <1>6, <1>7, <1>8 DEF ClosureInv

-----------------------------------------------------------------------------

LEMMA ClosureInvInit == Init => ClosureInv
  <1> SUFFICES ASSUME Init PROVE ClosureInv
    OBVIOUS
  <1>1. PICK s \in Starts : listing = s.listing /\ bids = s.bids /\ holds = s.holds /\ job = s.job
    BY DEF Init
  <1>2. ~Closed
    BY <1>1, StartsAssumption DEF Closed
  <1>3. RowsOK
    <2>1. listing \in [highest : Nat, end : Nat, status : Statuses]
      BY <1>1, StartsAssumption
    <2>2. job \in [status : JobStatuses, due : Nat, lockedUntil : Nat] /\ job.status # "SETTLING"
      BY <1>1, StartsAssumption DEF JobStatuses
    <2>3. /\ bids \subseteq BidRow
          /\ bids # {} => HasBest(bids)
          /\ \A x \in bids : x.amount > 0 /\ x.hold \in DOMAIN holds
          /\ \A i \in DOMAIN holds : holds[i] \in Hold
          /\ bids = {} => listing.highest = 0
      BY <1>1, StartsAssumption DEF HasBest
    <2>. QED BY <2>1, <2>2, <2>3 DEF Init, RowsOK
  <1>4. TasksOK
    BY <1>2 DEF Init, TasksOK, TaskOK, Task, Idle, PCs, JobStatuses, Statuses, Biddable, InTransaction
  <1>5. AnnouncedOnce
    BY <1>2 DEF Init, AnnouncedOnce, EndedEvents
  <1>6. OutcomeIsRight
    BY <1>2 DEF OutcomeIsRight
  <1>. QED BY <1>3, <1>4, <1>5, <1>6 DEF ClosureInv

LEMMA TimeKeepsInv ==
  ASSUME ClosureInv, Time \/ UNCHANGED vars
  PROVE  ClosureInv'
  <1>1. /\ UNCHANGED <<listing, bids, holds, job, outbox, rowLock, task>>
        /\ now' \in Nat /\ now' >= now /\ now \in Nat
    BY DEF Time, Tick, vars, ClosureInv, RowsOK
  <1>2. RowsOK'
    BY <1>1 DEF ClosureInv, RowsOK, Closed
  <1>3. TasksOK'
    <2>1. ASSUME NEW q \in Handlers PROVE TaskOK(q, task[q])'
      <3>1. TaskOK(q, task[q]) /\ task[q].time \in Nat
        BY TaskIsOK DEF TaskOK, Task
      <3>. QED BY <1>1, <3>1 DEF TaskOK, Task, Closed, InTransaction
    <2>. QED BY <1>1, <2>1 DEF ClosureInv, TasksOK, Task
  <1>4. AnnouncedOnce'
    BY <1>1 DEF ClosureInv, AnnouncedOnce, EndedEvents, Closed
  <1>5. OutcomeIsRight'
    BY <1>1 DEF ClosureInv, RowsOK, OutcomeIsRight, Closed
  <1>. QED BY <1>2, <1>3, <1>4, <1>5 DEF ClosureInv

LEMMA ClosureInvStep == ClosureInv /\ [Next]_vars => ClosureInv'
  <1> SUFFICES ASSUME ClosureInv, [Next]_vars PROVE ClosureInv'
    OBVIOUS
  <1>1. ASSUME NEW p \in Handlers, Request(p) \/ Step(p) PROVE ClosureInv'
    BY <1>1, ClaimingKeepsInv, DecidingKeepsInv, MarkingKeepsInv, SettlingKeepsInv, CommitKeepsInv
       DEF Step
  <1>2. ASSUME NEW p \in Handlers, FailClosure(p) \/ WalletFails(p) \/ CutShort(p)
        PROVE  ClosureInv'
    BY <1>2, MarkingKeepsInv, SettlingKeepsInv
  <1>. QED BY <1>1, <1>2, TimeKeepsInv DEF Next

\* Any number of schedulers and callers that close the auction at once, fail and
\* crash announce its end exactly once, with the outcome that is visible from then on
\* and that the best bid and the reserve price call for.
THEOREM ClosureIsExact == Spec => [](AnnouncedOnce /\ OutcomeIsRight)
  <1>1. ClosureInv => AnnouncedOnce /\ OutcomeIsRight
    BY DEF ClosureInv
  <1>. QED BY <1>1, ClosureInvInit, ClosureInvStep, PTL DEF Spec

\* One announcement for any number of schedulers, manual requests, retries and crashes.
THEOREM EndAnnouncedOnce == Spec => []AnnouncedOnce
  BY ClosureIsExact, PTL

\* The rows, jobs and local variables are well typed.
THEOREM ClosureTypes == Spec => []TypeOK
  <1>1. ClosureInv => TypeOK
    <2> SUFFICES ASSUME ClosureInv PROVE TypeOK
      OBVIOUS
    <2>1. ASSUME NEW p \in Handlers
          PROVE  /\ task[p].time \in 0..now
                 /\ task[p].claimed \in JobStatuses
                 /\ task[p].status \in Statuses
                 /\ task[p].rows \subseteq bids
      BY TaskIsOK DEF TaskOK, Task, ClosureInv, RowsOK
    <2>. QED BY <2>1 DEF ClosureInv, RowsOK, TypeOK
  <1>. QED BY <1>1, ClosureInvInit, ClosureInvStep, PTL DEF Spec

-----------------------------------------------------------------------------
(* Money *)

\* nobody has paid while nothing is decided
Unpaid == ~Closed => InState("converted") = {}

\* what the wallet does with a call about the hold id
Ends(id, state) == holds' = IF IsActive(id) THEN [holds EXCEPT ![id].state = state] ELSE holds

\* Money moves only in the settling of a visible outcome, one hold at a time.
LEMMA WhoMoves ==
  ASSUME ClosureInv, [Next]_vars
  PROVE  \/ UNCHANGED <<listing, bids, holds>>
         \/ UNCHANGED <<bids, holds>> /\ \E p \in Handlers : CommitClosure(p)
         \/ /\ UNCHANGED <<listing, bids>> /\ listing.status = "WON"
            /\ Ends(Best(bids).hold, "converted")
         \/ /\ UNCHANGED <<listing, bids>> /\ listing.status = "UNSOLD"
            /\ \E id : Ends(id, "released")
  <1>1. ASSUME NEW p \in Handlers, ConvertHold(p) \/ ReleaseNext(p) \/ WalletFails(p)
        PROVE  \/ UNCHANGED <<listing, bids, holds>>
               \/ /\ UNCHANGED <<listing, bids>> /\ listing.status = "WON"
                  /\ Ends(Best(bids).hold, "converted")
               \/ /\ UNCHANGED <<listing, bids>> /\ listing.status = "UNSOLD"
                  /\ \E id : Ends(id, "released")
    <2>1. /\ task[p].pc = "settle" /\ TaskOK(p, task[p]) /\ UNCHANGED <<listing, bids>>
      BY <1>1, TaskIsOK DEF ConvertHold, ReleaseNext, WalletFails, At
    <2>2. /\ Closed /\ task[p].status = listing.status
          /\ listing.status = "WON" => task[p].rows = bids
      BY <2>1 DEF TaskOK
    <2>3. CASE task[p].status = "WON" /\ Charge(Winner(p).hold)
      BY <2>1, <2>2, <2>3 DEF Charge, Winner, Ends
    <2>4. CASE task[p].status # "WON" /\ ReleaseHold(Winner(p).hold)
      BY <2>1, <2>2, <2>4 DEF ReleaseHold, Closed, Ends
    <2>. QED BY <1>1, <2>1, <2>3, <2>4 DEF ConvertHold, ReleaseNext, WalletFails
  <1>2. ASSUME NEW p \in Handlers,
               \/ Request(p) \/ FailClosure(p) \/ CutShort(p)
               \/ Wake(p) \/ ClaimReturning(p) \/ FindCandidate(p) \/ ClaimCandidate(p)
               \/ LockRow(p) \/ Resume(p) \/ Skip(p) \/ Early(p) \/ AnswerAtOnce(p) \/ Postpone(p)
               \/ ListBids(p) \/ MarkSettling(p) \/ MarkFailed(p)
               \/ CannotConvert(p) \/ AllReleased(p) \/ MarkSettlementFailed(p) \/ MarkDone(p)
        PROVE  UNCHANGED <<listing, bids, holds>>
    BY <1>2 DEF Request, FailClosure, CutShort, Wake, ClaimReturning, FindCandidate,
                ClaimCandidate, LockRow, Resume, Skip, Early, Unlock, AnswerAtOnce, Postpone,
                ListBids, MarkSettling, MarkFailed, CannotConvert, AllReleased,
                MarkSettlementFailed, MarkDone, storeVars
  <1>3. ASSUME NEW p \in Handlers, CommitClosure(p)
        PROVE  UNCHANGED <<bids, holds>>
    BY <1>3 DEF CommitClosure
  <1>4. CASE Time \/ UNCHANGED vars
    BY <1>4 DEF Time, Tick, vars
  <1>. QED BY <1>1, <1>2, <1>3, <1>4 DEF Next, Step

\* A call to the wallet leaves the holds alone or ends one that can be drawn on.
LEMMA OneHoldEnds ==
  ASSUME ClosureInv, NEW id, NEW s \in {"released", "converted"}, Ends(id, s)
  PROVE  \/ holds' = holds
         \/ /\ id \in InState("active") /\ InState("active")' = InState("active") \ {id}
            /\ InState(s)' = InState(s) \cup {id}
            /\ \A t \in {"released", "converted"} \ {s} : InState(t)' = InState(t)
  <1>1. CASE ~IsActive(id)
    BY <1>1 DEF Ends
  <1>2. CASE IsActive(id)
    <2>1. /\ id \in DOMAIN holds /\ holds[id].state = "active"
          /\ holds' = [holds EXCEPT ![id].state = s] /\ holds[id] \in Hold
      BY <1>2 DEF IsActive, Ends, ClosureInv, RowsOK
    <2>2. /\ DOMAIN holds' = DOMAIN holds /\ holds'[id].state = s
          /\ \A i \in DOMAIN holds \ {id} : holds'[i] = holds[i]
      BY <2>1 DEF Hold
    <2>. QED BY <2>1, <2>2 DEF InState
  <1>. QED BY <1>1, <1>2

LEMMA UnpaidStep == ClosureInv /\ Unpaid /\ [Next]_vars => Unpaid'
  <1> SUFFICES ASSUME ClosureInv, Unpaid, [Next]_vars PROVE Unpaid'
    OBVIOUS
  <1>1. CASE UNCHANGED <<listing, bids, holds>>
    BY <1>1 DEF Unpaid, Closed, InState
  <1>2. ASSUME NEW p \in Handlers, CommitClosure(p)
        PROVE  Unpaid'
    <2>1. Closed'
      BY <1>2 DEF CommitClosure, Outcome, Closed, ClosureInv, RowsOK
    <2>. QED BY <2>1 DEF Unpaid
  <1>3. CASE listing' = listing /\ listing.status \in {"WON", "UNSOLD"}
    BY <1>3 DEF Unpaid, Closed
  <1>. QED BY <1>1, <1>2, <1>3, WhoMoves

LEMMA MoneyStarts == Init => Unpaid /\ Money!Init
  <1> SUFFICES ASSUME Init PROVE Unpaid /\ Money!Init
    OBVIOUS
  <1>1. PICK s \in Starts : listing = s.listing /\ holds = s.holds
    BY DEF Init
  <1>2. /\ s.listing \in [highest : Nat, end : Nat, status : Statuses \ {"WON", "UNSOLD"}]
        /\ \A i \in DOMAIN s.holds : s.holds[i].state # "converted"
    BY <1>1, StartsAssumption DEF StartsAssumption
  <1>3. ~Closed
    BY <1>1, <1>2 DEF Closed
  <1>4. InState("converted") = {}
    BY <1>1, <1>2 DEF InState
  <1>. QED BY <1>3, <1>4 DEF Unpaid, Money!Init, Closed

LEMMA MoneyStep ==
  ClosureInv /\ Unpaid /\ [Next]_vars /\ ClosureInv' => [Money!Next]_(Money!vars)
  <1> SUFFICES ASSUME ClosureInv, Unpaid, [Next]_vars, ClosureInv'
               PROVE  [Money!Next]_(Money!vars)
    OBVIOUS
  <1>1. CASE UNCHANGED <<listing, bids, holds>>
    BY <1>1 DEF Money!vars, Closed, InState
  <1>2. ASSUME NEW p \in Handlers, CommitClosure(p), UNCHANGED <<bids, holds>>
        PROVE  Money!Decide
    <2>1. ~Closed /\ listing.status \notin {"WON", "UNSOLD"}
      BY <1>2, TaskIsOK DEF CommitClosure, At, TaskOK, Closed
    <2>2. Closed' /\ listing'.status \in {"WON", "UNSOLD"}
      BY <1>2 DEF CommitClosure, Outcome, Closed, ClosureInv, RowsOK
    <2>3. \A state : InState(state)' = InState(state)
      BY <1>2 DEF InState
    <2>4. CASE listing'.status = "WON"
      <3>1. bids # {} /\ Best(bids)' = Best(bids)
        BY <1>2, <2>2, <2>4 DEF ClosureInv, OutcomeIsRight, Best
      <3>2. Best(bids).hold \in DOMAIN holds
        BY <3>1, BestIsBid DEF ClosureInv, RowsOK
      <3>3. holds[Best(bids).hold] \in Hold /\ holds[Best(bids).hold].state # "converted"
        BY <2>1, <3>2 DEF ClosureInv, RowsOK, Unpaid, InState
      <3>4. Best(bids).hold \in InState("active") \cup InState("released")
        BY <3>2, <3>3 DEF InState, Hold
      <3>. QED BY <2>1, <2>2, <2>3, <2>4, <3>1, <3>4 DEF Money!Decide
    <2>5. CASE listing'.status = "UNSOLD"
      BY <2>1, <2>2, <2>3, <2>5 DEF Money!Decide
    <2>. QED BY <2>2, <2>4, <2>5
  <1>3. ASSUME UNCHANGED <<listing, bids>>, listing.status = "WON",
               Ends(Best(bids).hold, "converted"), holds' # holds
        PROVE  Money!Pay
    <2>1. PICK h : h = Best(bids).hold
      OBVIOUS
    <2>2. Closed /\ Closed' /\ Best(bids)' = Best(bids)
      BY <1>3 DEF Closed, Best
    <2>3. /\ h \in InState("active") /\ InState("active")' = InState("active") \ {h}
          /\ InState("converted")' = InState("converted") \cup {h}
          /\ InState("released")' = InState("released")
      BY <1>3, <2>1, OneHoldEnds
    <2>. QED BY <1>3, <2>1, <2>2, <2>3 DEF Money!Pay
  <1>4. ASSUME UNCHANGED <<listing, bids>>, listing.status = "UNSOLD", holds' # holds,
               NEW id, Ends(id, "released")
        PROVE  id \in InState("active") /\ Money!GiveBack(id)
    <2>1. Closed /\ Closed'
      BY <1>4 DEF Closed
    <2>2. /\ id \in InState("active") /\ InState("active")' = InState("active") \ {id}
          /\ InState("released")' = InState("released") \cup {id}
          /\ InState("converted")' = InState("converted")
      BY <1>4, OneHoldEnds
    <2>. QED BY <1>4, <2>1, <2>2 DEF Money!GiveBack
  <1>. QED BY <1>1, <1>2, <1>3, <1>4, WhoMoves DEF Money!Next

\* Closing implements the settlement, with any number of handlers on either database,
\* however often a call fails or a handler is cut short: what a bidder pays or gets back
\* follows an outcome that is decided once (ImplementsSettlement).
THEOREM ClosureImplementsSettlement == Spec => ImplementsSettlement
  <1>1. Init => Money!Init /\ Unpaid
    BY MoneyStarts
  <1>. QED BY <1>1, MoneyStep, UnpaidStep, ClosureInvInit, ClosureInvStep, PTL
       DEF Spec, ImplementsSettlement, Money!Spec

-----------------------------------------------------------------------------
(* Settlement on SQLite *)

\* No hold of a bid outside rows can be drawn on any more.
FreedOutside(rows) == \A x \in bids \ rows : ~IsActive(x.hold)

\* What a lone handler with local variables t knows once the auction is closed: it
\* resumes what it has claimed, it has released what it no longer lists, and it calls
\* the settlement done only when it is.
ResumesOK(t) ==
  Closed =>
    /\ t.pc \in {"idle", "claim", "claimit", "lock", "resume", "settling", "settle",
                 "unsettled", "done", "gone"}
    /\ t.pc \in {"claimit", "lock"} => t.claimed = "SETTLING"
    /\ \/ job.status \in {"PROCESSING", "SETTLING"}
       \/ job.status = "DONE" /\ Settled /\ t.pc \in {"idle", "claim", "gone"}
    /\ t.pc \in {"settling", "settle"} /\ listing.status # "WON" => FreedOutside(t.rows)
    /\ t.pc = "done" => Settled

\* With ClosureInv the inductive invariant for one handler: a job that is being decided
\* on is PROCESSING, and a closed auction is settled before its job is DONE.
SettlementInv ==
  \A p \in Handlers :
    /\ task[p].pc \in {"lock", "skip", "early", "list", "commit"} => job.status = "PROCESSING"
    /\ ResumesOK(task[p])

\* A hold that cannot be drawn on stays so, and a converted hold stays converted.
LEMMA HoldsOnlyEnd ==
  ASSUME ClosureInv, NEW id, NEW s \in {"released", "converted"},
         holds' = IF IsActive(id) THEN [holds EXCEPT ![id].state = s] ELSE holds
  PROVE  /\ \A i : ~IsActive(i) => ~IsActive(i)'
         /\ \A i \in DOMAIN holds : holds[i].state = "converted" => holds'[i].state = "converted"
         /\ ~IsActive(id)'
  BY DEF ClosureInv, RowsOK, Hold, IsActive

\* The steps before the outcome, and those that only read.
LEMMA DecidingKeepsSettlement ==
  ASSUME ClosureInv, SettlementInv, Backend = "sqlite", NEW p \in Workers, Handlers = {p},
         \/ Wake(p) \/ FindCandidate(p) \/ ClaimCandidate(p)
         \/ LockRow(p) \/ Resume(p) \/ Skip(p) \/ Early(p) \/ Postpone(p) \/ ListBids(p)
         \/ CommitClosure(p) \/ MarkSettling(p) \/ MarkFailed(p) \/ FailClosure(p) \/ CutShort(p)
  PROVE  SettlementInv'
  <1>1. /\ p \in Handlers /\ TaskOK(p, task[p]) /\ ResumesOK(task[p]) /\ job \in JobRow
        /\ task[p].pc \in {"lock", "skip", "early", "list", "commit"} => job.status = "PROCESSING"
    BY TaskIsOK, JobRowIsTyped DEF SettlementInv
  <1>2. ASSUME NEW t, task' = [task EXCEPT ![p] = t], ResumesOK(t)',
               t.pc \in {"lock", "skip", "early", "list", "commit"} => job'.status = "PROCESSING"
        PROVE  SettlementInv'
    <2>1. task'[p] = t
      BY <1>1, <1>2 DEF ClosureInv, TasksOK
    <2>. QED BY <1>2, <2>1 DEF SettlementInv
  <1>3. task[p] \in Task
    BY <1>1 DEF TaskOK
  <1>4. ASSUME Finish(p), UNCHANGED <<listing, bids, holds>>,
               Closed => job'.status \in {"PROCESSING", "SETTLING"} \/ (job'.status = "DONE" /\ Settled)
        PROVE  SettlementInv'
    <2>1. task' = [task EXCEPT ![p] = Finished(p)] /\ Finished(p).pc = "idle"
      BY <1>4 DEF Finish, Finished, Idle
    <2>2. Closed' = Closed /\ Settled' = Settled
      BY <1>4 DEF Closed, Settled, IsActive
    <2>3. ResumesOK(Finished(p))'
      BY <1>4, <2>1, <2>2 DEF ResumesOK
    <2>. QED BY <1>2, <2>1, <2>3
  <1>5. ASSUME NEW t, task' = [task EXCEPT ![p] = t], ~Closed, UNCHANGED listing,
               t.pc \in {"lock", "skip", "early", "list", "commit"} => job'.status = "PROCESSING"
        PROVE  SettlementInv'
    <2>1. ResumesOK(t)'
      BY <1>5 DEF ResumesOK, Closed
    <2>. QED BY <1>2, <1>5, <2>1
  <1>6. CASE Wake(p)
    <2>1. PICK t : t = [task[p] EXCEPT !.pc = "claim", !.time = now]
      OBVIOUS
    <2>2. task' = [task EXCEPT ![p] = t] /\ t.pc = "claim"
      BY <1>3, <1>6, <2>1 DEF Wake, Task
    <2>3. UNCHANGED <<listing, bids, holds>> /\ (Closed => job' = job)
      BY <1>6 DEF Wake, NeedsJob, Closed, Terminal
    <2>4. ResumesOK(t)'
      BY <1>1, <1>6, <2>2, <2>3 DEF Wake, At, ResumesOK, Closed, Settled, IsActive
    <2>. QED BY <1>2, <2>2, <2>4
  <1>7. CASE FindCandidate(p)
    <2>0. UNCHANGED <<listing, bids, holds, job>> /\ task[p].pc = "claim"
      BY <1>7 DEF FindCandidate, storeVars, At
    <2>1. CASE Claimable(task[p].time)
      <3>1. PICK t : t = [task[p] EXCEPT !.pc = "claimit", !.claimed = job.status]
        OBVIOUS
      <3>2. task' = [task EXCEPT ![p] = t] /\ t.pc = "claimit" /\ t.claimed = job.status
        BY <1>3, <1>7, <2>1, <3>1 DEF FindCandidate, Task
      <3>3. ResumesOK(t)'
        BY <1>1, <2>0, <2>1, <3>2 DEF Claimable, Takeable, ResumesOK, Closed
      <3>. QED BY <1>2, <3>2, <3>3
    <2>2. CASE ~Claimable(task[p].time)
      BY <1>1, <1>4, <1>7, <2>0, <2>2 DEF FindCandidate, ResumesOK
    <2>. QED BY <2>1, <2>2
  <1>8. CASE ClaimCandidate(p)
    <2>0. UNCHANGED <<listing, bids, holds>> /\ task[p].pc = "claimit"
      BY <1>8 DEF ClaimCandidate, At
    <2>1. CASE Takeable(task[p].time)
      <3>1. PICK t : t = [task[p] EXCEPT !.pc = "lock"]
        OBVIOUS
      <3>2. task' = [task EXCEPT ![p] = t] /\ t.pc = "lock" /\ t.claimed = task[p].claimed
        BY <1>3, <1>8, <2>1, <3>1 DEF ClaimCandidate, Task
      <3>3. job'.status = "PROCESSING"
        BY <1>1, <1>8, <2>1 DEF ClaimCandidate, Locked, JobRow
      <3>4. ResumesOK(t)'
        BY <1>1, <2>0, <3>2, <3>3 DEF ResumesOK, Closed
      <3>. QED BY <1>2, <3>2, <3>3, <3>4
    <2>2. CASE ~Takeable(task[p].time)
      BY <1>1, <1>4, <1>8, <2>0, <2>2 DEF ClaimCandidate, ResumesOK
    <2>. QED BY <2>1, <2>2
  <1>9. CASE LockRow(p)
    <2>0. UNCHANGED <<listing, bids, holds, job>> /\ job.status = "PROCESSING"
          /\ (Closed => task[p].claimed = "SETTLING")
      BY <1>1, <1>9 DEF LockRow, storeVars, At, ResumesOK
    <2>1. PICK t : t = [task[p] EXCEPT !.pc = Decision(p), !.status = listing.status,
                                       !.end = listing.end]
      OBVIOUS
    <2>2. task' = [task EXCEPT ![p] = t] /\ t.pc = Decision(p)
      BY <1>3, <1>9, <2>1 DEF LockRow, Task
    <2>3. Closed => t.pc = "resume"
      BY <2>0, <2>2 DEF Decision
    <2>4. ResumesOK(t)'
      BY <2>0, <2>3 DEF ResumesOK, Closed
    <2>. QED BY <1>2, <2>0, <2>2, <2>4
  <1>10. CASE Resume(p)
    <2>0. UNCHANGED <<listing, bids, holds, job>> /\ task[p].pc = "resume"
      BY <1>10 DEF Resume, storeVars, At
    <2>1. PICK t : t = [task[p] EXCEPT !.pc = "settle", !.rows = bids]
      OBVIOUS
    <2>2. task' = [task EXCEPT ![p] = t] /\ t.pc = "settle" /\ t.rows = bids
      BY <1>3, <1>10, <2>1 DEF Resume, Task
    <2>3. ResumesOK(t)'
      BY <1>1, <2>0, <2>2 DEF ResumesOK, Closed, FreedOutside
    <2>. QED BY <1>2, <2>2, <2>3
  <1>11. CASE Skip(p) \/ Early(p)
    <2>0. UNCHANGED listing /\ task[p].pc \in {"skip", "early"}
      BY <1>11 DEF Skip, Early, Unlock, storeVars, At
    <2>1. PICK t : task' = [task EXCEPT ![p] = t] /\ t.pc \in {"done", "postpone"}
      <3>1. PICK pc \in {"done", "postpone"} : task' = [task EXCEPT ![p].pc = pc]
        BY <1>11 DEF Skip, Early, Unlock
      <3>2. [task[p] EXCEPT !.pc = pc].pc = pc
        BY <1>3 DEF Task
      <3>. QED BY <3>1, <3>2
    <2>2. ~Closed
      BY <1>1, <2>0 DEF ResumesOK
    <2>. QED BY <1>5, <2>0, <2>1, <2>2
  <1>12. CASE Postpone(p) \/ MarkFailed(p)
    <2>1. ~Closed
      BY <1>1, <1>12 DEF Postpone, MarkFailed, At, ResumesOK
    <2>. QED BY <1>4, <1>12, <2>1 DEF Postpone, MarkFailed
  <1>13. CASE ListBids(p)
    <2>0. UNCHANGED <<listing, job>> /\ task[p].pc = "list" /\ ~Closed
      BY <1>1, <1>13 DEF ListBids, storeVars, At, ResumesOK
    <2>1. PICK t : t = [task[p] EXCEPT !.pc = "commit", !.rows = bids]
      OBVIOUS
    <2>. QED BY <1>1, <1>5, <1>13, <2>0, <2>1 DEF ListBids
  <1>14. CASE CommitClosure(p)
    <2>0. UNCHANGED job /\ job.status = "PROCESSING"
      BY <1>1, <1>14 DEF CommitClosure, At
    <2>1. PICK t : t = [task[p] EXCEPT !.pc = "settling", !.status = Outcome(task[p].rows)]
      OBVIOUS
    <2>2. task' = [task EXCEPT ![p] = t] /\ t.pc = "settling" /\ t.rows = task[p].rows
      BY <1>3, <1>14, <2>1 DEF CommitClosure, Task
    <2>3. task[p].rows = bids /\ bids' = bids
      BY <1>1, <1>14 DEF CommitClosure, At, TaskOK
    <2>4. ResumesOK(t)'
      BY <2>0, <2>2, <2>3 DEF ResumesOK, FreedOutside
    <2>. QED BY <1>2, <2>2, <2>4
  <1>15. CASE MarkSettling(p)
    <2>0. UNCHANGED <<listing, bids, holds>> /\ task[p].pc = "settling" /\ job'.status = "SETTLING"
      BY <1>15 DEF MarkSettling, At, Unlocked
    <2>1. PICK t : t = [task[p] EXCEPT !.pc = "settle"]
      OBVIOUS
    <2>2. task' = [task EXCEPT ![p] = t] /\ t.pc = "settle" /\ t.rows = task[p].rows
      BY <1>3, <1>15, <2>1 DEF MarkSettling, Task
    <2>3. ResumesOK(t)'
      BY <1>1, <2>0, <2>2 DEF ResumesOK, Closed, FreedOutside, IsActive
    <2>. QED BY <1>2, <2>2, <2>3
  <1>16. CASE FailClosure(p)
    <2>0. UNCHANGED listing /\ ~Closed
      BY <1>1, <1>16 DEF FailClosure, storeVars, ResumesOK
    <2>1. PICK t : t = [task[p] EXCEPT !.pc = "failed"]
      OBVIOUS
    <2>2. task' = [task EXCEPT ![p] = t] /\ t.pc = "failed"
      BY <1>3, <1>16, <2>1 DEF FailClosure, Task
    <2>. QED BY <1>5, <2>0, <2>2
  <1>17. CASE CutShort(p)
    <2>1. Finish(p) /\ UNCHANGED <<listing, bids, holds, job>>
      BY <1>17 DEF CutShort, storeVars
    <2>. QED BY <1>1, <1>4, <2>1 DEF ResumesOK
  <1>. QED BY <1>6, <1>7, <1>8, <1>9, <1>10, <1>11, <1>12, <1>13, <1>14, <1>15, <1>16, <1>17

\* The steps that move money, and those that record whether it has moved.
LEMMA SettlingKeepsSettlement ==
  ASSUME ClosureInv, SettlementInv, NEW p \in Handlers, Handlers = {p},
         \/ ConvertHold(p) \/ CannotConvert(p) \/ ReleaseNext(p) \/ AllReleased(p)
         \/ WalletFails(p) \/ MarkSettlementFailed(p) \/ MarkDone(p)
  PROVE  SettlementInv'
  <1>1. TaskOK(p, task[p]) /\ ResumesOK(task[p]) /\ task[p] \in Task
    BY TaskIsOK DEF SettlementInv, TaskOK
  <1>2. Closed' = Closed /\ UNCHANGED <<listing, bids>>
    BY DEF ConvertHold, CannotConvert, ReleaseNext, AllReleased, WalletFails,
           MarkSettlementFailed, MarkDone, storeVars, Closed
  <1>3. ASSUME NEW t, task' = [task EXCEPT ![p] = t], ResumesOK(t)',
               t.pc \in {"settle", "unsettled", "done", "idle", "gone"}
        PROVE  SettlementInv'
    <2>1. task'[p] = t
      BY <1>3 DEF ClosureInv, TasksOK
    <2>. QED BY <1>3, <2>1 DEF SettlementInv
  <1>4. ASSUME task' = [task EXCEPT ![p].pc = "unsettled"], UNCHANGED job, task[p].pc = "settle"
        PROVE  SettlementInv'
    <2>1. PICK t : t = [task[p] EXCEPT !.pc = "unsettled"]
      OBVIOUS
    <2>2. task' = [task EXCEPT ![p] = t] /\ t.pc = "unsettled"
      BY <1>1, <1>4, <2>1 DEF Task
    <2>3. ResumesOK(t)'
      BY <1>1, <1>2, <1>4, <2>2 DEF ResumesOK
    <2>. QED BY <1>3, <2>2, <2>3
  <1>5. ASSUME task' = [task EXCEPT ![p].pc = "done"], UNCHANGED job, task[p].pc = "settle",
               Closed => Settled'
        PROVE  SettlementInv'
    <2>1. PICK t : t = [task[p] EXCEPT !.pc = "done"]
      OBVIOUS
    <2>2. task' = [task EXCEPT ![p] = t] /\ t.pc = "done"
      BY <1>1, <1>5, <2>1 DEF Task
    <2>3. ResumesOK(t)'
      BY <1>1, <1>2, <1>5, <2>2 DEF ResumesOK
    <2>. QED BY <1>3, <2>2, <2>3
  <1>6. CASE ConvertHold(p)
    <2>0. /\ task[p].pc = "settle" /\ task[p].status = "WON" /\ bids # {}
          /\ listing.status = "WON" /\ task[p].rows = bids
          /\ holds[Best(bids).hold].state # "released" /\ Charge(Best(bids).hold)
      BY <1>1, <1>6 DEF ConvertHold, At, TaskOK, Winner
    <2>1. Best(bids).hold \in DOMAIN holds
      BY <2>0, BestIsBid DEF ClosureInv, RowsOK
    <2>2. holds'[Best(bids).hold].state = "converted"
      BY <2>0, <2>1 DEF Charge, IsActive, ClosureInv, RowsOK, Hold
    <2>3. Settled'
      BY <1>2, <2>0, <2>2 DEF Settled
    <2>. QED BY <1>5, <1>6, <2>0, <2>3 DEF ConvertHold
  <1>7. CASE CannotConvert(p)
    BY <1>4, <1>7 DEF CannotConvert, At, storeVars
  <1>8. CASE ReleaseNext(p)
    <2>0. /\ task[p].pc = "settle" /\ listing.status # "WON" /\ task[p].rows # {} /\ Closed
          /\ ReleaseHold(Winner(p).hold) /\ FreedOutside(task[p].rows) /\ UNCHANGED job
      BY <1>1, <1>8 DEF ReleaseNext, At, TaskOK, ResumesOK
    <2>1. PICK w : w = Winner(p)
      OBVIOUS
    <2>2. ~IsActive(w.hold)' /\ \A i : ~IsActive(i) => ~IsActive(i)'
      BY <2>0, <2>1, HoldsOnlyEnd DEF ReleaseHold
    <2>3. PICK t : t = [task[p] EXCEPT !.rows = @ \ {Winner(p)}]
      OBVIOUS
    <2>4. task' = [task EXCEPT ![p] = t] /\ t.pc = "settle" /\ t.rows = task[p].rows \ {Winner(p)}
      BY <1>1, <1>8, <2>0, <2>3 DEF ReleaseNext, Task
    <2>5. FreedOutside(t.rows)'
      <3> SUFFICES ASSUME NEW x \in bids \ t.rows PROVE ~IsActive(x.hold)'
        BY <1>2 DEF FreedOutside
      <3>1. CASE x = w
        BY <2>2, <3>1
      <3>2. CASE x # w
        BY <2>0, <2>1, <2>2, <2>4, <3>2 DEF FreedOutside
      <3>. QED BY <3>1, <3>2
    <2>6. ResumesOK(t)'
      BY <1>1, <1>2, <2>0, <2>4, <2>5 DEF ResumesOK
    <2>. QED BY <1>3, <2>4, <2>6
  <1>9. CASE AllReleased(p)
    <2>0. task[p].pc = "settle" /\ task[p].rows = {} /\ task[p].status # "WON" /\ UNCHANGED <<holds, job>>
      BY <1>9 DEF AllReleased, At, storeVars
    <2>1. Closed => FreedOutside({}) /\ listing.status # "WON"
      BY <1>1, <2>0 DEF ResumesOK, TaskOK
    <2>2. Closed => Settled'
      BY <1>2, <2>0, <2>1 DEF FreedOutside, Settled, IsActive
    <2>. QED BY <1>5, <1>9, <2>0, <2>2 DEF AllReleased
  <1>10. CASE WalletFails(p)
    BY <1>4, <1>10 DEF WalletFails, At
  <1>11. ASSUME Finish(p), Closed => job'.status = "SETTLING" \/ (job'.status = "DONE" /\ Settled'),
                UNCHANGED holds
         PROVE  SettlementInv'
    <2>1. task' = [task EXCEPT ![p] = Finished(p)] /\ Finished(p).pc \in {"idle", "gone"}
      BY <1>11 DEF Finish, Finished, Idle
    <2>2. ResumesOK(Finished(p))'
      BY <1>2, <1>11, <2>1 DEF ResumesOK
    <2>. QED BY <1>3, <2>1, <2>2
  <1>12. CASE MarkSettlementFailed(p)
    BY <1>11, <1>12 DEF MarkSettlementFailed, Unlocked
  <1>13. CASE MarkDone(p)
    <2>1. Closed => Settled'
      BY <1>1, <1>2, <1>13 DEF MarkDone, At, ResumesOK, Settled, IsActive
    <2>. QED BY <1>11, <1>13, <2>1 DEF MarkDone, Unlocked
  <1>. QED BY <1>6, <1>7, <1>8, <1>9, <1>10, <1>12, <1>13

LEMMA SettlementIsSound ==
  ASSUME Backend = "sqlite", NEW w, Workers = {w}, Closers = {}
  PROVE  Spec => [](ClosureInv /\ SettlementInv)
  <1>0. Handlers = {w} /\ w \in Workers
    BY DEF Handlers
  <1>1. Init => SettlementInv
    <2> SUFFICES ASSUME Init PROVE SettlementInv
      OBVIOUS
    <2>1. ~Closed
      BY StartsAssumption DEF Init, Closed
    <2>. QED BY <2>1 DEF Init, Idle, SettlementInv, ResumesOK
  <1>2. ClosureInv /\ SettlementInv /\ [Next]_vars => SettlementInv'
    <2> SUFFICES ASSUME ClosureInv, SettlementInv, [Next]_vars PROVE SettlementInv'
      OBVIOUS
    <2>1. ASSUME Request(w) \/ Step(w) \/ FailClosure(w) \/ WalletFails(w) \/ CutShort(w)
          PROVE  SettlementInv'
      <3>1. ~Request(w) /\ ~ClaimReturning(w)
        BY DEF Request, ClaimReturning
      <3>2. CASE AnswerAtOnce(w)
        <4>1. ~Closed /\ UNCHANGED listing
          BY <1>0, <3>2 DEF AnswerAtOnce, At, SettlementInv, ResumesOK, storeVars
        <4>2. task' = [task EXCEPT ![w] = Finished(w)] /\ Finished(w).pc = "idle"
          BY <1>0, <3>2 DEF AnswerAtOnce, Finish, Finished, Idle
        <4>3. task'[w].pc = "idle"
          BY <1>0, <4>2 DEF ClosureInv, TasksOK
        <4>. QED BY <1>0, <4>1, <4>3 DEF SettlementInv, ResumesOK, Closed
      <3>. QED BY <1>0, <2>1, <3>1, <3>2, DecidingKeepsSettlement, SettlingKeepsSettlement DEF Step
    <2>2. CASE Time \/ UNCHANGED vars
      <3>1. UNCHANGED <<listing, bids, holds, job, task>>
        BY <2>2 DEF Time, Tick, vars
      <3>. QED BY <3>1 DEF SettlementInv, ResumesOK, Closed, Settled, FreedOutside, IsActive
    <2>. QED BY <1>0, <2>1, <2>2 DEF Next
  <1>. QED BY <1>1, <1>2, ClosureInvInit, ClosureInvStep, PTL DEF Spec

\* A failed settlement on SQLite, where the claim returns the status before it, is
\* resumed until the money has moved: with one scheduler, however often it fails or is
\* cut short, a closed auction whose job is done has been settled: the winner's hold is
\* converted or, if nobody won, no bid has an active hold (SettledWhenDone).  Of a loser's
\* hold in an auction that was won it says nothing: closing does not touch it, bidding
\* releases it when the bid is outbid.
THEOREM SqliteSettles ==
  ASSUME Backend = "sqlite", NEW w, Workers = {w}, Closers = {}
  PROVE  Spec => []SettledWhenDone
  <1>1. SettlementInv => SettledWhenDone
    BY DEF Handlers, SettlementInv, ResumesOK, SettledWhenDone
  <1>. QED BY <1>1, SettlementIsSound, PTL

\* Bidding has released the holds of the bids that will lose.
LosersFreed ==
  bids # {} /\ Best(bids).amount >= ReservePrice =>
    \A x \in bids : x.hold # Best(bids).hold => ~IsActive(x.hold)

NothingHeldWhenDone ==
  Quiet /\ Closed /\ job.status = "DONE" => \A x \in bids : ~IsActive(x.hold)

LEMMA LosersFreedStep == ClosureInv /\ LosersFreed /\ [Next]_vars => LosersFreed'
  <1> SUFFICES ASSUME ClosureInv, LosersFreed, [Next]_vars PROVE LosersFreed'
    OBVIOUS
  <1>1. bids' = bids /\ Best(bids)' = Best(bids)
    <2>1. bids' = bids
      BY WhoMoves
    <2>. QED BY <2>1 DEF Best
  <1>2. ASSUME NEW i, ~IsActive(i)
        PROVE  ~IsActive(i)'
    <2>1. CASE UNCHANGED holds
      BY <1>2, <2>1 DEF IsActive
    <2>2. ASSUME NEW id, NEW s \in {"released", "converted"}, Ends(id, s)
          PROVE  ~IsActive(i)'
      BY <1>2, <2>2, HoldsOnlyEnd DEF Ends
    <2>. QED BY <2>1, <2>2, WhoMoves
  <1>. QED BY <1>1, <1>2 DEF LosersFreed

\* If bidding has left no hold of a losing bid active, a closed auction whose job is done
\* holds nobody's money: with one scheduler on SQLite, however often the settlement fails
\* or is cut short, each bid's hold has been converted or released.
THEOREM SqliteLeavesNothingHeld ==
  ASSUME Backend = "sqlite", NEW w, Workers = {w}, Closers = {}
  PROVE  Spec /\ LosersFreed => []NothingHeldWhenDone
  <1>1. ClosureInv /\ SettledWhenDone /\ LosersFreed => NothingHeldWhenDone
    <2> SUFFICES ASSUME ClosureInv, SettledWhenDone, LosersFreed,
                        Quiet, Closed, job.status = "DONE"
                 PROVE  \A x \in bids : ~IsActive(x.hold)
      BY DEF NothingHeldWhenDone
    <2>1. Settled
      BY DEF SettledWhenDone
    <2>2. CASE listing.status = "WON"
      <3>1. bids # {} /\ Best(bids).amount >= ReservePrice
        BY <2>2 DEF ClosureInv, OutcomeIsRight
      <3>2. ~IsActive(Best(bids).hold)
        BY <2>1, <2>2 DEF Settled, IsActive
      <3>. QED BY <3>1, <3>2 DEF LosersFreed
    <2>3. CASE listing.status # "WON"
      BY <2>1, <2>3 DEF Settled
    <2>. QED BY <2>2, <2>3
  <1>. QED BY <1>1, LosersFreedStep, SettlementIsSound, SqliteSettles, PTL DEF Spec
=============================================================================
