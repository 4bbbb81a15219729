-------------------------- MODULE AuctionCreateProofs --------------------------
(***************************************************************************)
(* For any requests, commands, clock and cuts: one auction per listing, one *)
(* announcement, and every answer names the stored terms.                   *)
(*                                                                          *)
(* Neither property is inductive.  What makes them so is that the key lets  *)
(* one request at most past the INSERT (OneAuthor), that this request still *)
(* holds the terms of the row it wrote (AuthorsRow), and that nobody else   *)
(* announces (AuthorAnnounces).                                             *)
(***************************************************************************)
EXTENDS AuctionCreate, FiniteSetTheorems, TLAPS

Author(r) == request[r].pc \in {"schedule", "announce", "created"}

OneRow == \A x, y \in listings : x = y

OneAuthor == \A r, q \in Requests : Author(r) /\ Author(q) => r = q

\* what the author wrote is stored, up to the status
AuthorsRow ==
  \A r \in Requests : Author(r) =>
    /\ request[r].auction = {Inserted(r)}
    /\ \E row \in listings : Terms(row) = Terms(Inserted(r))

AuthorAnnounces ==
  \A e \in announced : request[e.by].pc = "created" /\ e.auction = Inserted(e.by)

Owned ==
  \A r \in Requests :
    request[r].pc \in {"find", "insert"} \/ Author(r) => OwnedBy(request[r].cmd.seller)

\* what FindExisting returned still has the terms of the stored row
FoundRow ==
  \A r \in Requests : request[r].pc = "existing" =>
    /\ request[r].auction # {} /\ listings # {}
    /\ \A x \in request[r].auction, row \in listings : Terms(x) = Terms(row)

\* with TypeOK, the inductive invariant
Facts == OneRow /\ OneAuthor /\ AuthorsRow /\ AuthorAnnounces /\ Owned /\ FoundRow

-----------------------------------------------------------------------------

\* the row a valid request would write is a row
LEMMA InsertedIsRow ==
  ASSUME TypeOK, NEW r \in Requests
  PROVE  Inserted(r) \in Row
  <1>1. request[r] \in Request
    BY DEF TypeOK
  <1>2. request[r].cmd \in [seller : Sellers, type : STRING, starting : Int, reserve : Int,
                            increment : Int, start : Nat, end : Nat]
    BY <1>1, CreateAssumption DEF Request
  <1> QED
    BY <1>2 DEF Inserted, NewRow, InitialStatus, Row, Statuses

\* a request that is refused, cut short or not yet at the table disturbs nothing
LEMMA Aside ==
  ASSUME TypeOK, Facts, NEW r \in Requests, NEW w \in Request,
         w.pc \in {"catalogue", "invalid", "database"},
         request[r].pc # "created",
         request' = [request EXCEPT ![r] = w],
         UNCHANGED <<listings, announced>>
  PROVE  Facts'
  <1>1. /\ request'[r] = w
        /\ \A q \in Requests : q # r => request'[q] = request[q]
    BY DEF TypeOK
  <1>2. ~Author(r)'
    BY <1>1 DEF Author
  <1>3. \A q \in Requests : Author(q)' => q # r /\ Author(q) /\ Inserted(q)' = Inserted(q)
    BY <1>1, <1>2 DEF Author, Inserted
  <1>4. OneRow'
    BY DEF Facts, OneRow
  <1>5. OneAuthor'
    BY <1>3 DEF Facts, OneAuthor
  <1>6. AuthorsRow'
    BY <1>1, <1>3 DEF Facts, AuthorsRow
  <1>7. AuthorAnnounces'
    <2> SUFFICES ASSUME NEW e \in announced
                 PROVE  request'[e.by].pc = "created" /\ e.auction = Inserted(e.by)'
      BY DEF AuthorAnnounces
    <2>1. e.by \in Requests /\ request[e.by].pc = "created" /\ e.auction = Inserted(e.by)
      BY DEF Facts, AuthorAnnounces, TypeOK
    <2> QED
      BY <2>1, <1>1 DEF Inserted
  <1>8. Owned'
    BY <1>1, <1>2, <1>3 DEF Facts, Owned
  <1>9. FoundRow'
    BY <1>1 DEF Facts, FoundRow
  <1> QED
    BY <1>4, <1>5, <1>6, <1>7, <1>8, <1>9 DEF Facts

\* the scheduler, the catalogue and time leave requests and announcements alone
LEMMA Elsewhere ==
  ASSUME Facts, UNCHANGED <<listings, announced, request>>
  PROVE  Facts'
  BY DEF Facts, OneRow, OneAuthor, AuthorsRow, AuthorAnnounces, Owned, FoundRow,
         Author, Inserted

LEMMA CreateInit ==
  ASSUME Init
  PROVE  TypeOK /\ Facts
  <1>1. PICK f \in [Requests -> {[pc |-> "idle", cmd |-> c, time |-> 0, auction |-> {}] :
                                 c \in Commands}] : request = f
    BY DEF Init
  <1>2. \A r \in Requests : request[r] \in Request /\ request[r].pc = "idle"
    BY <1>1 DEF Request, Steps
  <1>3. request \in [Requests -> Request]
    BY <1>1, <1>2
  <1>4. TypeOK
    BY <1>3 DEF Init, TypeOK, Job
  <1>5. Facts
    BY <1>2 DEF Init, Facts, OneRow, OneAuthor, AuthorsRow, AuthorAnnounces, Owned,
                FoundRow, Author
  <1> QED
    BY <1>4, <1>5

\* every step keeps the types
LEMMA CreateTypes ==
  ASSUME TypeOK, [Next]_vars
  PROVE  TypeOK'
  <1> USE DEF TypeOK, Steps
  <1>1. ASSUME NEW r \in Requests, Arrive(r)
        PROVE  TypeOK'
    <2>1. PICK w : w = [request[r] EXCEPT
            !.pc = IF Valid(request[r].cmd, now) THEN "catalogue" ELSE "invalid", !.time = now]
      OBVIOUS
    <2>2. w \in Request
      BY <2>1 DEF Request
    <2>3. request' = [request EXCEPT ![r] = w]
      BY <1>1, <2>1 DEF Arrive
    <2> QED
      BY <1>1, <2>2, <2>3 DEF Arrive
  <1>2. ASSUME NEW r \in Requests, NEW pc \in Steps, Go(r, pc)
        PROVE  request' \in [Requests -> Request]
    <2>1. PICK w : w = [request[r] EXCEPT !.pc = pc]
      OBVIOUS
    <2>2. w \in Request
      BY <2>1 DEF Request
    <2> QED
      BY <1>2, <2>1, <2>2 DEF Go
  <1>3. ASSUME NEW r \in Requests, AskCatalogue(r)
        PROVE  TypeOK'
    <2>1. request' \in [Requests -> Request]
      BY <1>2, <1>3 DEF AskCatalogue
    <2> QED
      BY <1>3, <2>1 DEF AskCatalogue
  <1>4. ASSUME NEW r \in Requests, FindExisting(r)
        PROVE  TypeOK'
    <2>1. PICK w : w = [request[r] EXCEPT
            !.pc = IF listings = {} THEN "insert" ELSE "existing", !.auction = listings]
      OBVIOUS
    <2>2. w \in Request
      BY <2>1 DEF Request
    <2>3. request' = [request EXCEPT ![r] = w]
      BY <1>4, <2>1 DEF FindExisting
    <2> QED
      BY <1>4, <2>2, <2>3 DEF FindExisting
  <1>5. ASSUME NEW r \in Requests, Insert(r)
        PROVE  TypeOK'
    <2>1. PICK w : w = [request[r] EXCEPT !.pc = "schedule", !.auction = {Inserted(r)}]
      OBVIOUS
    <2>2. Inserted(r) \in Row
      BY InsertedIsRow
    <2>3. w \in Request
      BY <2>1, <2>2 DEF Request
    <2>4. CASE listings = {}
      <3>1. request' = [request EXCEPT ![r] = w] /\ listings' = {Inserted(r)}
        BY <1>5, <2>1, <2>4 DEF Insert
      <3> QED
        BY <1>5, <2>2, <2>3, <3>1 DEF Insert
    <2>5. CASE listings # {}
      <3>1. Go(r, "database") /\ listings' = listings
        BY <1>5, <2>5 DEF Insert
      <3>2. request' \in [Requests -> Request]
        BY <1>2, <3>1
      <3> QED
        BY <1>5, <3>1, <3>2 DEF Insert
    <2> QED
      BY <2>4, <2>5
  <1>6. ASSUME NEW r \in Requests, Schedule(r)
        PROVE  TypeOK'
    <2>1. request' \in [Requests -> Request]
      BY <1>2, <1>6 DEF Schedule
    <2>2. request[r].cmd.end \in Nat
      BY CreateAssumption DEF Request
    <2> QED
      BY <1>6, <2>1, <2>2 DEF Schedule, UpsertPending, Job
  <1>7. ASSUME NEW r \in Requests, Announce(r)
        PROVE  TypeOK'
    <2>1. request' \in [Requests -> Request]
      BY <1>2, <1>7 DEF Announce
    <2>2. Inserted(r) \in Row
      BY InsertedIsRow
    <2> QED
      BY <1>7, <2>1, <2>2 DEF Announce
  <1>8. ASSUME NEW r \in Requests, Cut(r)
        PROVE  TypeOK'
    <2>1. request' \in [Requests -> Request]
      BY <1>2, <1>8 DEF Cut
    <2> QED
      BY <1>8, <2>1 DEF Cut
  <1>9. ASSUME Reconcile
        PROVE  TypeOK'
    BY <1>9 DEF Reconcile, Job, Row
  <1>10. ASSUME Claim
         PROVE  TypeOK'
    BY <1>10 DEF Claim, Job
  <1>11. ASSUME CloseClaimed
         PROVE  TypeOK'
    <2>1. \A row \in listings : [row EXCEPT !.status = "UNSOLD"] \in Row
      BY DEF Row, Statuses
    <2> QED
      BY <1>11, <2>1 DEF CloseClaimed, Job
  <1>12. ASSUME Withdraw
         PROVE  TypeOK'
    BY <1>12, ZenonT(20) DEF Withdraw
  <1>14. ASSUME Tick
         PROVE  TypeOK'
    <2>1. now' \in Nat
      BY <1>14 DEF Tick
    <2> QED
      BY <1>14, <2>1, ZenonT(20) DEF Tick
  <1>13. ASSUME UNCHANGED vars
         PROVE  TypeOK'
    BY <1>13 DEF vars
  <1> QED
    BY <1>1, <1>3, <1>4, <1>5, <1>6, <1>7, <1>8, <1>9, <1>10, <1>11, <1>12,
       <1>13, <1>14 DEF Next, Step, Scheduler

LEMMA CreateFacts ==
  ASSUME TypeOK, Facts, [Next]_vars
  PROVE  Facts'
  <1>1. ASSUME NEW r \in Requests, Arrive(r)
        PROVE  Facts'
    <2>1. PICK w : w = [request[r] EXCEPT
            !.pc = IF Valid(request[r].cmd, now) THEN "catalogue" ELSE "invalid", !.time = now]
      OBVIOUS
    <2>2. w \in Request /\ w.pc \in {"catalogue", "invalid", "database"}
      BY <2>1 DEF TypeOK, Request, Steps
    <2>3. request' = [request EXCEPT ![r] = w]
      BY <1>1, <2>1 DEF Arrive
    <2> QED
      BY <1>1, <2>2, <2>3, Aside DEF Arrive, At
  <1>2. ASSUME NEW r \in Requests, NEW pc \in {"catalogue", "invalid", "database"},
               Go(r, pc), request[r].pc # "created", UNCHANGED <<listings, announced>>
        PROVE  Facts'
    <2>1. PICK w : w = [request[r] EXCEPT !.pc = pc]
      OBVIOUS
    <2>2. w \in Request /\ w.pc \in {"catalogue", "invalid", "database"}
      BY <2>1 DEF TypeOK, Request, Steps
    <2> QED
      BY <1>2, <2>1, <2>2, Aside DEF Go
  <1>3. ASSUME NEW r \in Requests, AskCatalogue(r)
        PROVE  Facts'
    <2>1. CASE offered /\ OwnedBy(request[r].cmd.seller)
      <3>1. PICK w : w = [request[r] EXCEPT !.pc = "find"]
        OBVIOUS
      <3>2. w.pc = "find" /\ w.cmd = request[r].cmd /\ request[r].pc = "catalogue"
        BY <1>3, <3>1 DEF AskCatalogue, At, TypeOK, Request
      <3>3. request' = [request EXCEPT ![r] = w] /\ UNCHANGED <<listings, announced>>
        BY <1>3, <2>1, <3>1 DEF AskCatalogue, Go
      <3>4. /\ request'[r] = w
            /\ \A q \in Requests : q # r => request'[q] = request[q]
        BY <3>3 DEF TypeOK
      <3>5. \A q \in Requests : Author(q)' => q # r /\ Author(q) /\ Inserted(q)' = Inserted(q)
        BY <3>2, <3>4 DEF Author, Inserted
      <3>6. AuthorAnnounces'
        BY <3>2, <3>3, <3>4 DEF Facts, AuthorAnnounces, Inserted, TypeOK
      <3>7. OneAuthor' /\ AuthorsRow'
        BY <3>3, <3>4, <3>5 DEF Facts, OneAuthor, AuthorsRow
      <3>8. Owned'
        BY <2>1, <3>2, <3>4, <3>5 DEF Facts, Owned, OwnedBy
      <3>9. OneRow' /\ FoundRow'
        BY <3>2, <3>3, <3>4 DEF Facts, OneRow, FoundRow
      <3> QED
        BY <3>6, <3>7, <3>8, <3>9 DEF Facts
    <2>2. CASE ~(offered /\ OwnedBy(request[r].cmd.seller))
      BY <1>2, <1>3, <2>2 DEF AskCatalogue, At
    <2> QED
      BY <2>1, <2>2
  <1>4. ASSUME NEW r \in Requests, FindExisting(r)
        PROVE  Facts'
    <2>1. PICK w : w = [request[r] EXCEPT
            !.pc = IF listings = {} THEN "insert" ELSE "existing", !.auction = listings]
      OBVIOUS
    <2>2. /\ request[r].pc = "find" /\ w.cmd = request[r].cmd /\ w.auction = listings
          /\ w.pc = IF listings = {} THEN "insert" ELSE "existing"
      BY <1>4, <2>1 DEF FindExisting, At, TypeOK, Request
    <2>3. request' = [request EXCEPT ![r] = w] /\ UNCHANGED <<listings, announced>>
      BY <1>4, <2>1 DEF FindExisting
    <2>4. /\ request'[r] = w
          /\ \A q \in Requests : q # r => request'[q] = request[q]
      BY <2>3 DEF TypeOK
    <2>5. \A q \in Requests : Author(q)' => q # r /\ Author(q) /\ Inserted(q)' = Inserted(q)
      BY <2>2, <2>4 DEF Author, Inserted
    <2>6. AuthorAnnounces'
      BY <2>2, <2>3, <2>4 DEF Facts, AuthorAnnounces, Inserted, TypeOK
    <2>7. OneAuthor' /\ AuthorsRow'
      BY <2>3, <2>4, <2>5 DEF Facts, OneAuthor, AuthorsRow
    <2>8. Owned'
      BY <2>2, <2>4, <2>5 DEF Facts, Owned, OwnedBy
    <2>9. OneRow' /\ FoundRow'
      BY <2>2, <2>3, <2>4 DEF Facts, OneRow, FoundRow
    <2> QED
      BY <2>6, <2>7, <2>8, <2>9 DEF Facts
  <1>5. ASSUME NEW r \in Requests, Insert(r)
        PROVE  Facts'
    <2>1. CASE listings # {}
      BY <1>2, <1>5, <2>1 DEF Insert, At
    <2>2. CASE listings = {}
      <3>1. PICK w : w = [request[r] EXCEPT !.pc = "schedule", !.auction = {Inserted(r)}]
        OBVIOUS
      <3>2. /\ request[r].pc = "insert" /\ w.cmd = request[r].cmd /\ w.time = request[r].time
            /\ w.pc = "schedule" /\ w.auction = {Inserted(r)}
        BY <1>5, <3>1 DEF Insert, At, TypeOK, Request
      <3>3. /\ request' = [request EXCEPT ![r] = w]
            /\ listings' = {Inserted(r)} /\ UNCHANGED announced
        BY <1>5, <2>2, <3>1 DEF Insert
      <3>4. /\ request'[r] = w
            /\ \A q \in Requests : q # r => request'[q] = request[q]
        BY <3>3 DEF TypeOK
      <3>5. \A q \in Requests : ~Author(q) /\ request[q].pc # "existing"
        BY <2>2 DEF Facts, AuthorsRow, FoundRow
      <3>6. Inserted(r)' = Inserted(r)
        BY <3>2, <3>4 DEF Inserted
      <3>7. \A q \in Requests : Author(q)' => q = r
        BY <3>4, <3>5 DEF Author
      <3>8. AuthorsRow'
        BY <3>2, <3>3, <3>4, <3>6, <3>7 DEF AuthorsRow
      <3>9. AuthorAnnounces'
        <4>1. announced = {}
          BY <3>5 DEF Facts, AuthorAnnounces, Author, TypeOK
        <4> QED
          BY <3>3, <4>1 DEF AuthorAnnounces
      <3>10. Owned'
        BY <3>2, <3>4, <3>7 DEF Facts, Owned, OwnedBy
      <3>11. OneRow' /\ OneAuthor' /\ FoundRow'
        BY <3>2, <3>3, <3>4, <3>5, <3>7 DEF OneRow, OneAuthor, FoundRow
      <3> QED
        BY <3>8, <3>9, <3>10, <3>11 DEF Facts
    <2> QED
      BY <2>1, <2>2
  <1>6. ASSUME NEW r \in Requests, Schedule(r) \/ Announce(r)
        PROVE  Facts'
    <2>1. PICK w : w = [request[r] EXCEPT !.pc = IF At(r, "schedule") THEN "announce" ELSE "created"]
      OBVIOUS
    <2>2. /\ Author(r) /\ request[r].pc # "created"
          /\ w.cmd = request[r].cmd /\ w.time = request[r].time
          /\ w.auction = request[r].auction /\ w.pc \in {"announce", "created"}
          /\ At(r, "announce") => w.pc = "created"
      BY <1>6, <2>1 DEF Schedule, Announce, At, TypeOK, Request, Author
    <2>3. request' = [request EXCEPT ![r] = w] /\ UNCHANGED listings
      BY <1>6, <2>1 DEF Schedule, Announce, Go, At
    <2>4. /\ request'[r] = w
          /\ \A q \in Requests : q # r => request'[q] = request[q]
      BY <2>3 DEF TypeOK
    <2>5. \A q \in Requests : /\ Author(q)' <=> Author(q)
                             /\ Inserted(q)' = Inserted(q)
                             /\ request'[q].auction = request[q].auction
      BY <2>2, <2>4 DEF Author, Inserted
    <2>6. AuthorAnnounces'
      <3>1. CASE Announce(r)
        <4>1. w.pc = "created" /\ announced' = announced \cup {[by |-> r, auction |-> Inserted(r)]}
          BY <2>2, <3>1 DEF Announce
        <4>2. \A e \in announced : e.by # r /\ e.by \in Requests
          BY <2>2 DEF Facts, AuthorAnnounces, TypeOK
        <4> QED
          BY <2>4, <2>5, <4>1, <4>2 DEF Facts, AuthorAnnounces
      <3>2. CASE Schedule(r)
        <4>1. announced' = announced
          BY <3>2 DEF Schedule
        <4>2. \A e \in announced : e.by # r /\ e.by \in Requests
          BY <2>2 DEF Facts, AuthorAnnounces, TypeOK
        <4> QED
          BY <2>4, <2>5, <4>1, <4>2 DEF Facts, AuthorAnnounces
      <3> QED
        BY <1>6, <3>1, <3>2
    <2>7. OneAuthor' /\ AuthorsRow'
      BY <2>3, <2>5 DEF Facts, OneAuthor, AuthorsRow
    <2>8. Owned'
      BY <2>2, <2>4, <2>5 DEF Facts, Owned, OwnedBy
    <2>9. OneRow' /\ FoundRow'
      BY <2>2, <2>3, <2>4 DEF Facts, OneRow, FoundRow
    <2> QED
      BY <2>6, <2>7, <2>8, <2>9 DEF Facts
  <1>7. ASSUME NEW r \in Requests, Cut(r)
        PROVE  Facts'
    <2>1. request[r].pc # "created"
      BY <1>7 DEF Cut, Waiting
    <2> QED
      BY <1>2, <1>7, <2>1 DEF Cut
  <1>8. ASSUME CloseClaimed
        PROVE  Facts'
    <2>1. /\ listings' = {[row EXCEPT !.status = "UNSOLD"] : row \in listings}
          /\ UNCHANGED <<request, announced>>
      BY <1>8 DEF CloseClaimed
    <2>2. \A row \in listings : Terms([row EXCEPT !.status = "UNSOLD"]) = Terms(row)
      BY DEF TypeOK, Row, Terms
    <2>3. OneRow'
      BY <2>1 DEF Facts, OneRow
    <2>4. AuthorsRow'
      BY <2>1, <2>2 DEF Facts, AuthorsRow, Author, Inserted
    <2>5. FoundRow'
      BY <2>1, <2>2 DEF Facts, FoundRow
    <2>6. OneAuthor' /\ AuthorAnnounces' /\ Owned'
      BY <2>1 DEF Facts, OneAuthor, AuthorAnnounces, Owned, Author, Inserted
    <2> QED
      BY <2>3, <2>4, <2>5, <2>6 DEF Facts
  <1>9. ASSUME UNCHANGED <<listings, announced, request>>
        PROVE  Facts'
    BY <1>9, Elsewhere
  <1>10. Reconcile \/ Claim \/ Withdraw \/ Tick \/ UNCHANGED vars
           => UNCHANGED <<listings, announced, request>>
    BY DEF Reconcile, Claim, Withdraw, Tick, vars
  <1> QED
    BY <1>1, <1>3, <1>4, <1>5, <1>6, <1>7, <1>8, <1>9, <1>10 DEF Next, Step, Scheduler

\* The answers and the announcement follow from the invariant.
LEMMA FactsSuffice ==
  ASSUME TypeOK, Facts
  PROVE  AnswersAgree /\ OneTrueAnnouncement
  <1>1. AnswersAgree
    <2> SUFFICES ASSUME NEW r \in Requests, request[r].pc \in {"created", "existing"}
                 PROVE  /\ request[r].auction # {}
                        /\ {Terms(x) : x \in request[r].auction} = {Terms(row) : row \in listings}
      BY DEF AnswersAgree
    <2>1. CASE request[r].pc = "created"
      <3>1. request[r].auction = {Inserted(r)}
            /\ \E row \in listings : Terms(row) = Terms(Inserted(r))
        BY <2>1 DEF Facts, AuthorsRow, Author
      <3>2. \A row \in listings : Terms(row) = Terms(Inserted(r))
        BY <3>1 DEF Facts, OneRow
      <3> QED
        BY <3>1, <3>2
    <2>2. CASE request[r].pc = "existing"
      BY <2>2 DEF Facts, FoundRow
    <2> QED
      BY <2>1, <2>2
  <1>2. \A e, f \in announced : e = f
    <2> SUFFICES ASSUME NEW e \in announced, NEW f \in announced
                 PROVE  e = f
      OBVIOUS
    <2>1. /\ e \in [by : Requests, auction : Row] /\ f \in [by : Requests, auction : Row]
          /\ Author(e.by) /\ Author(f.by)
      BY DEF TypeOK, Facts, AuthorAnnounces, Author
    <2>2. e.by = f.by
      BY <2>1 DEF Facts, OneAuthor
    <2> QED
      BY <2>1, <2>2 DEF Facts, AuthorAnnounces
  <1>3. Cardinality(announced) <= 1
    <2>1. CASE announced = {}
      BY <2>1, FS_EmptySet
    <2>2. CASE announced # {}
      <3>1. PICK e : announced = {e}
        BY <1>2, <2>2
      <3> QED
        BY <3>1, FS_Singleton
    <2> QED
      BY <2>1, <2>2
  <1>4. ASSUME NEW e \in announced
        PROVE  /\ \E row \in listings : Terms(row) = Terms(e.auction)
               /\ OwnedBy(e.auction.seller)
    <2>1. e.by \in Requests /\ Author(e.by) /\ e.auction = Inserted(e.by)
      BY DEF TypeOK, Facts, AuthorAnnounces, Author
    <2>2. e.auction.seller = request[e.by].cmd.seller
      BY <2>1 DEF Inserted, NewRow
    <2> QED
      BY <2>1, <2>2 DEF Facts, AuthorsRow, Owned
  <1> QED
    BY <1>1, <1>3, <1>4 DEF OneTrueAnnouncement

\* However many requests race or are cut short, whatever they carry: all answers
\* name the terms of the one stored auction (create_auction_core).
THEOREM CreationAgrees == Spec => []AnswersAgree
  <1>1. Init => TypeOK /\ Facts
    BY CreateInit
  <1>2. TypeOK /\ Facts /\ [Next]_vars => (TypeOK /\ Facts)'
    BY CreateTypes, CreateFacts
  <1>3. TypeOK /\ Facts => AnswersAgree
    BY FactsSuffice
  <1> QED
    BY <1>1, <1>2, <1>3, PTL DEF Spec

\* AuctionCreated is written at most once, by the request whose row is stored,
\* with its terms and for the seller the catalogue names.
THEOREM CreationAnnouncedOnce == Spec => []OneTrueAnnouncement
  <1>1. Init => TypeOK /\ Facts
    BY CreateInit
  <1>2. TypeOK /\ Facts /\ [Next]_vars => (TypeOK /\ Facts)'
    BY CreateTypes, CreateFacts
  <1>3. TypeOK /\ Facts => OneTrueAnnouncement
    BY FactsSuffice
  <1> QED
    BY <1>1, <1>2, <1>3, PTL DEF Spec

\* The rows, jobs, announcements and the locals of every request are well typed.
THEOREM CreationTypes == Spec => []TypeOK
  <1>1. Init => TypeOK /\ Facts
    BY CreateInit
  <1>2. TypeOK /\ Facts /\ [Next]_vars => (TypeOK /\ Facts)'
    BY CreateTypes, CreateFacts
  <1> QED
    BY <1>1, <1>2, PTL DEF Spec

\* However late a request writes the closure job, and however often the scheduler puts
\* it back, a finished job stays finished (ON CONFLICT in upsert_pending).
THEOREM CreationKeepsDone == Spec => DoneStaysDone
  <1>1. TypeOK /\ [Next]_vars => [job.status = "DONE" => job'.status = "DONE"]_vars
    <2> SUFFICES ASSUME TypeOK, Next, job.status = "DONE"
                 PROVE  job'.status = "DONE"
      BY DEF vars
    <2>1. ASSUME NEW r \in Requests, Step(r) \/ Cut(r)
          PROVE  job'.status = "DONE"
      BY <2>1 DEF Step, Cut, Arrive, AskCatalogue, FindExisting, Insert, Schedule, UpsertPending,
                  Announce
    <2>2. ~Scheduler
      BY DEF Scheduler, Reconcile, Claim, CloseClaimed
    <2>3. CASE Withdraw \/ Tick
      BY <2>3 DEF Withdraw, Tick
    <2> QED
      BY <2>1, <2>2, <2>3 DEF Next
  <1>2. Spec => []TypeOK
    BY CreationTypes
  <1> QED
    BY <1>1, <1>2, PTL DEF Spec, DoneStaysDone
=============================================================================
