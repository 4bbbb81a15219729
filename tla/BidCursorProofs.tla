--------------------------- MODULE BidCursorProofs ---------------------------
(* Proofs about BidCursor: any tables of bids, any sizes of page asked for, any *)
(* number of pages, and any bidding between them.                              *)
EXTENDS BidCursor, FiniteSetTheorems, TLAPS

\* every choice among rows has a first and a last row: what a finite table provides
HasFirst(rows) ==
  \A S \in SUBSET rows : S # {} => \E x \in S : \A y \in S \ {x} : Precedes(x, y)
HasLast(rows) ==
  \A S \in SUBSET rows : S # {} => \E x \in S : \A y \in S \ {x} : Precedes(y, x)

TableOK ==
  /\ bids \subseteq Bid /\ IsFiniteSet(bids)
  /\ HasFirst(bids) /\ HasLast(bids)
  /\ \A x, y \in bids : x.id = y.id => x = y
  /\ \A x \in bids : x.id \in used
  /\ used \subseteq Ids
  /\ kept \subseteq bids

Shown(row) == \E i \in DOMAIN pages : row \in pages[i]

\* Where the reader is: the cursor names the last row shown, and the rows that were left
\* alone are shown or still to come.
ReaderOK ==
  /\ pages \in Seq(SUBSET Bid)
  /\ reading \in {"no", "yes", "done"}
  /\ reading = "no" => pages = <<>> /\ cursor = <<>>
  /\ reading = "yes" =>
       \E last \in Bid :
         /\ cursor = CursorText(last)
         /\ \A i \in DOMAIN pages : \A x \in pages[i] : ~After(x, last)
         /\ \A row \in kept : Shown(row) \/ After(row, last)
  /\ reading = "done" => cursor = <<>> /\ \A row \in kept : Shown(row)

CursorInv == TableOK /\ ReaderOK /\ PagesInOrder

-----------------------------------------------------------------------------
(* The order of the list *)

LEMMA BidNumbers ==
  ASSUME NEW x \in Bid
  PROVE  x.amount \in Nat /\ x.time \in Nat /\ x.id \in Nat
  BY CursorAssumption DEF Bid

LEMMA PrecedesTotal ==
  ASSUME NEW x \in Bid, NEW y \in Bid, x.id # y.id
  PROVE  Precedes(x, y) \/ Precedes(y, x)
  BY BidNumbers DEF Precedes

LEMMA PrecedesTransitive ==
  ASSUME NEW x \in Bid, NEW y \in Bid, NEW z \in Bid, Precedes(x, y), Precedes(y, z)
  PROVE  Precedes(x, z)
  BY BidNumbers DEF Precedes

LEMMA PrecedesStrict ==
  ASSUME NEW x \in Bid, NEW y \in Bid, Precedes(x, y)
  PROVE  ~Precedes(y, x) /\ x # y
  BY BidNumbers DEF Precedes

\* What the WHERE of a page selects are the rows that the cursor's row precedes.
LEMMA AfterIsPrecedes ==
  ASSUME NEW x \in Bid, NEW c \in Bid
  PROVE  After(x, c) <=> Precedes(c, x)
  BY BidNumbers DEF After, Precedes

\* A row up to the cursor precedes every row after it.
LEMMA UpToPrecedes ==
  ASSUME NEW x \in Bid, NEW c \in Bid, NEW y \in Bid, ~After(x, c), After(y, c)
  PROVE  Precedes(x, y) /\ ~After(x, y)
  BY BidNumbers DEF After, Precedes

\* The cursor's text gives back what it was made of.
LEMMA CursorReadsBack ==
  ASSUME NEW x, NEW b
  PROVE  /\ CursorText(b) # <<>>
         /\ After(x, ParseCursor(CursorText(b))) <=> After(x, b)
  <1>1. CursorText(b) # <<>>
    BY DEF CursorText
  <1>2. ParseCursor(CursorText(b)) = [amount |-> b.amount, time |-> b.time, id |-> b.id]
    BY DEF ParseCursor, CursorText
  <1>. QED BY <1>1, <1>2 DEF After

\* A row with an id of its own keeps every choice in order.
LEMMA InOrderWithRow ==
  ASSUME NEW rows \in SUBSET Bid, NEW row \in Bid, HasFirst(rows), HasLast(rows),
         \A x \in rows : x.id # row.id
  PROVE  HasFirst(rows \cup {row}) /\ HasLast(rows \cup {row})
  <1>1. ASSUME NEW S \in SUBSET (rows \cup {row}), S # {}, row \in S, S # {row}
        PROVE  /\ \E x \in S : \A y \in S \ {x} : Precedes(x, y)
               /\ \E x \in S : \A y \in S \ {x} : Precedes(y, x)
    <2>1. S \ {row} \in SUBSET rows /\ S \ {row} # {}
      BY <1>1
    <2>2. PICK f \in S \ {row} : \A y \in (S \ {row}) \ {f} : Precedes(f, y)
      BY <2>1 DEF HasFirst
    <2>3. PICK l \in S \ {row} : \A y \in (S \ {row}) \ {l} : Precedes(y, l)
      BY <2>1 DEF HasLast
    <2>4. \E x \in S : \A y \in S \ {x} : Precedes(x, y)
      <3>1. CASE Precedes(f, row)
        BY <2>2, <3>1
      <3>2. CASE Precedes(row, f)
        <4>1. \A y \in S \ {row} : Precedes(row, y)
          BY <2>1, <2>2, <3>2, PrecedesTransitive
        <4>. QED BY <1>1, <4>1
      <3>. QED BY <2>1, <3>1, <3>2, PrecedesTotal
    <2>5. \E x \in S : \A y \in S \ {x} : Precedes(y, x)
      <3>1. CASE Precedes(row, l)
        BY <2>3, <3>1
      <3>2. CASE Precedes(l, row)
        <4>1. \A y \in S \ {row} : Precedes(y, row)
          BY <2>1, <2>3, <3>2, PrecedesTransitive
        <4>. QED BY <1>1, <4>1
      <3>. QED BY <2>1, <3>1, <3>2, PrecedesTotal
    <2>. QED BY <2>4, <2>5
  <1>2. ASSUME NEW S \in SUBSET (rows \cup {row}), S # {}, row \notin S \/ S = {row}
        PROVE  /\ \E x \in S : \A y \in S \ {x} : Precedes(x, y)
               /\ \E x \in S : \A y \in S \ {x} : Precedes(y, x)
    <2>1. CASE row \notin S
      BY <1>2, <2>1 DEF HasFirst, HasLast
    <2>2. CASE S = {row}
      BY <2>2
    <2>. QED BY <1>2, <2>1, <2>2
  <1>. QED BY <1>1, <1>2 DEF HasFirst, HasLast

-----------------------------------------------------------------------------
(* LIMIT *)

\* A page is a piece from the front: what it leaves out comes after all it has.
LEMMA FirstIsFront ==
  ASSUME NEW rows \in SUBSET Bid, IsFiniteSet(rows), NEW n \in Nat,
         \A x, y \in rows : x.id = y.id => x = y,
         NEW x \in First(n, rows), NEW y \in rows \ First(n, rows)
  PROVE  Precedes(x, y)
  <1> DEFINE Before(z) == {w \in rows : Precedes(w, z)}
  <1>1. x \in rows /\ x # y /\ Cardinality(Before(x)) < n /\ ~(Cardinality(Before(y)) < n)
    BY DEF First
  <1>2. CASE Precedes(y, x)
    <2>1. Before(y) \subseteq Before(x)
      BY <1>1, <1>2, PrecedesTransitive
    <2>2. IsFiniteSet(Before(x)) /\ IsFiniteSet(Before(y))
      BY FS_Subset
    <2>3. Cardinality(Before(y)) <= Cardinality(Before(x))
      BY <2>1, <2>2, FS_Subset
    <2>4. Cardinality(Before(y)) \in Nat /\ Cardinality(Before(x)) \in Nat
      BY <2>2, FS_CardinalityType
    <2> HIDE DEF Before
    <2>. QED BY <1>1, <2>3, <2>4
  <1>. QED BY <1>1, <1>2, PrecedesTotal

\* The front of a table that is not empty is not empty.
LEMMA FirstNotEmpty ==
  ASSUME NEW rows \in SUBSET Bid, HasFirst(rows), rows # {}, NEW n \in Nat \ {0}
  PROVE  First(n, rows) # {}
  <1>1. PICK x \in rows : \A y \in rows \ {x} : Precedes(x, y)
    BY DEF HasFirst
  <1>2. {y \in rows : Precedes(y, x)} = {}
    BY <1>1, PrecedesStrict
  <1>3. Cardinality({y \in rows : Precedes(y, x)}) < n
    BY <1>2, FS_EmptySet
  <1>. QED BY <1>3 DEF First

\* Fewer rows than asked for are all the rows there are.
LEMMA ShortPageIsAll ==
  ASSUME NEW rows \in SUBSET Bid, IsFiniteSet(rows), HasFirst(rows), NEW n \in Nat,
         Cardinality(First(n + 1, rows)) <= n
  PROVE  First(n + 1, rows) = rows
  <1> DEFINE front == First(n + 1, rows)
  <1>1. front \subseteq rows /\ IsFiniteSet(front)
    BY FS_Subset DEF First
  <1> SUFFICES ASSUME rows \ front # {} PROVE FALSE
    BY <1>1
  <1>2. PICK m \in rows \ front : \A y \in (rows \ front) \ {m} : Precedes(m, y)
    BY DEF HasFirst
  <1> DEFINE before == {y \in rows : Precedes(y, m)}
  <1>3. before \subseteq front
    BY <1>2, PrecedesStrict
  <1>4. IsFiniteSet(before) /\ Cardinality(before) <= Cardinality(front)
    BY <1>1, <1>3, FS_Subset
  <1>5. Cardinality(before) \in Nat /\ Cardinality(front) \in Nat
    BY <1>1, <1>4, FS_CardinalityType
  <1>6. Cardinality(before) < n + 1
    <2> HIDE DEF before
    <2>1. Cardinality(front) <= n
      OBVIOUS
    <2> HIDE DEF front
    <2>. QED BY <1>4, <1>5, <2>1
  <1>7. m \in front
    BY <1>2, <1>6 DEF First
  <1>. QED BY <1>2, <1>7

LEMMA LastIsLast ==
  ASSUME NEW rows, HasLast(rows), rows # {}
  PROVE  LastOf(rows) \in rows /\ \A y \in rows \ {LastOf(rows)} : Precedes(y, LastOf(rows))
  <1>1. \E x \in rows : \A y \in rows \ {x} : Precedes(y, x)
    BY DEF HasLast
  <1>. QED BY <1>1 DEF LastOf

-----------------------------------------------------------------------------
(* The steps *)

LEMMA PartsInOrder ==
  ASSUME NEW rows, HasFirst(rows), HasLast(rows), NEW part \in SUBSET rows
  PROVE  HasFirst(part) /\ HasLast(part)
  BY DEF HasFirst, HasLast

\* What the reader may rely on of the rows a page is taken from.
LEMMA CandidatesOK ==
  ASSUME CursorInv, reading # "done"
  PROVE  /\ Candidates \in SUBSET Bid /\ Candidates \subseteq bids
         /\ IsFiniteSet(Candidates) /\ HasFirst(Candidates) /\ HasLast(Candidates)
         /\ \A x, y \in Candidates : x.id = y.id => x = y
         /\ reading = "no" => pages = <<>> /\ Candidates = bids
         /\ \A i \in DOMAIN pages : \A x \in pages[i] :
              x \in Bid /\ \A y \in Candidates : Precedes(x, y) /\ ~After(x, y)
         /\ reading = "yes" => \A row \in kept : Shown(row) \/ row \in Candidates
  <1>1. Candidates \subseteq bids
    BY DEF Candidates
  <1>2. /\ Candidates \in SUBSET Bid /\ IsFiniteSet(Candidates)
        /\ HasFirst(Candidates) /\ HasLast(Candidates)
    BY <1>1, PartsInOrder, FS_Subset DEF CursorInv, TableOK
  <1>3. reading = "no" => pages = <<>> /\ Candidates = bids
    BY DEF CursorInv, ReaderOK, Candidates
  <1>4. \A i \in DOMAIN pages : pages[i] \in SUBSET Bid
    BY DEF CursorInv, ReaderOK
  <1>5. CASE reading = "no"
    BY <1>1, <1>2, <1>3, <1>5 DEF CursorInv, TableOK
  <1>6. CASE reading = "yes"
    <2>1. PICK last \in Bid :
            /\ cursor = CursorText(last)
            /\ \A i \in DOMAIN pages : \A x \in pages[i] : ~After(x, last)
            /\ \A row \in kept : Shown(row) \/ After(row, last)
      BY <1>6 DEF CursorInv, ReaderOK
    <2>2. Candidates = {row \in bids : After(row, last)}
      BY <2>1, CursorReadsBack DEF Candidates
    <2>3. \A i \in DOMAIN pages : \A x \in pages[i] :
            x \in Bid /\ \A y \in Candidates : Precedes(x, y) /\ ~After(x, y)
      BY <1>2, <1>4, <2>1, <2>2, UpToPrecedes
    <2>4. \A row \in kept : Shown(row) \/ row \in Candidates
      BY <2>1, <2>2 DEF CursorInv, TableOK
    <2>. QED BY <1>1, <1>2, <1>3, <2>3, <2>4 DEF CursorInv, TableOK
  <1>. QED BY <1>5, <1>6 DEF CursorInv, ReaderOK

LEMMA ListBidsKeepsInv ==
  ASSUME CursorInv, NEW limit \in Limits, ListBids(limit)
  PROVE  CursorInv'
  <1> DEFINE size == Sanitized(limit)
             fetched == First(size + 1, Candidates)
             more == Cardinality(fetched) > size
             items == IF more THEN First(size, fetched) ELSE fetched
             left == IF reading = "no" THEN bids ELSE kept
  <1>1. /\ reading # "done" /\ pages' = Append(pages, items)
        /\ cursor' = IF more THEN CursorText(LastOf(items)) ELSE <<>>
        /\ reading' = IF more THEN "yes" ELSE "done"
        /\ kept' = left /\ UNCHANGED <<bids, used>>
    BY DEF ListBids
  <1>2. /\ Candidates \in SUBSET Bid /\ Candidates \subseteq bids
        /\ IsFiniteSet(Candidates) /\ HasFirst(Candidates) /\ HasLast(Candidates)
        /\ \A x, y \in Candidates : x.id = y.id => x = y
        /\ reading = "no" => pages = <<>> /\ Candidates = bids
        /\ \A i \in DOMAIN pages : \A x \in pages[i] :
             x \in Bid /\ \A y \in Candidates : Precedes(x, y) /\ ~After(x, y)
        /\ reading = "yes" => \A row \in kept : Shown(row) \/ row \in Candidates
    BY <1>1, CandidatesOK
  <1>3. size \in Nat \ {0} /\ size + 1 \in Nat
    BY CursorAssumption DEF Sanitized
  <1>4. fetched \in SUBSET Candidates /\ items \in SUBSET fetched /\ items \in SUBSET Candidates
    BY DEF First
  <1>5. IsFiniteSet(fetched) /\ HasFirst(fetched) /\ HasLast(fetched) /\ HasLast(items)
    BY <1>2, <1>4, PartsInOrder, FS_Subset
  <1>6. pages \in Seq(SUBSET Bid) /\ items \in SUBSET Bid
    BY <1>2, <1>4 DEF CursorInv, ReaderOK
  <1>7. \A row \in left : Shown(row) \/ row \in Candidates
    BY <1>1, <1>2 DEF CursorInv, ReaderOK
  <1>8. /\ pages' \in Seq(SUBSET Bid) /\ DOMAIN pages' = 1..(Len(pages) + 1)
        /\ Len(pages') = Len(pages) + 1 /\ Len(pages) \in Nat /\ DOMAIN pages = 1..Len(pages)
        /\ \A i \in 1..Len(pages) : pages'[i] = pages[i]
        /\ pages'[Len(pages) + 1] = items
    <2> HIDE DEF items
    <2>. QED BY <1>1, <1>6
  <1> HIDE DEF items
  <1>9. TableOK'
    BY <1>1 DEF CursorInv, TableOK
  <1>10. PagesInOrder'
    <2> SUFFICES ASSUME NEW i \in DOMAIN pages', NEW j \in (i + 1)..Len(pages'),
                        NEW x \in pages'[i], NEW y \in pages'[j]
                 PROVE  Precedes(x, y)
      BY DEF PagesInOrder
    <2>1. CASE j \in 1..Len(pages)
      BY <1>8, <2>1 DEF CursorInv, PagesInOrder
    <2>2. CASE j = Len(pages) + 1
      <3>1. i \in DOMAIN pages /\ x \in pages[i] /\ y \in items
        BY <1>8, <2>2
      <3>. QED BY <1>2, <1>4, <3>1
    <2>. QED BY <1>8, <2>1, <2>2
  <1>11. \A row : Shown(row)' <=> Shown(row) \/ row \in items
    BY <1>8 DEF Shown
  <1>12. CASE ~more
    <2>1. Cardinality(fetched) <= size
      <3>1. Cardinality(fetched) \in Nat
        BY <1>5, FS_CardinalityType
      <3> HIDE DEF fetched, size
      <3>. QED BY <1>3, <1>12, <3>1
    <2>2. items = Candidates
      BY <1>2, <1>3, <1>12, <2>1, ShortPageIsAll DEF items
    <2>3. \A row \in kept' : Shown(row)'
      BY <1>1, <1>7, <1>11, <2>2
    <2>. QED BY <1>1, <1>8, <1>9, <1>10, <1>12, <2>3 DEF CursorInv, ReaderOK
  <1>13. CASE more
    <2>1. items = First(size, fetched)
      BY <1>13 DEF items
    <2>2. fetched # {}
      <3> HIDE DEF fetched, size
      <3>. QED BY <1>3, <1>13, FS_EmptySet
    <2>3. items # {}
      BY <1>2, <1>3, <1>4, <1>5, <2>1, <2>2, FirstNotEmpty
    <2>4. PICK last : last = LastOf(items)
      OBVIOUS
    <2>5. last \in items /\ \A y \in items \ {last} : Precedes(y, last)
      BY <1>5, <2>3, <2>4, LastIsLast
    <2>6. last \in Bid /\ last \in fetched /\ last \in Candidates
      BY <1>4, <1>6, <2>5
    <2>7. \A x \in items : ~After(x, last)
      <3> SUFFICES ASSUME NEW x \in items PROVE ~After(x, last)
        OBVIOUS
      <3>1. x \in Bid
        BY <1>6
      <3>2. x = last \/ Precedes(x, last)
        BY <2>5
      <3>. QED BY <2>6, <3>1, <3>2, AfterIsPrecedes, PrecedesStrict
    <2>8. \A i \in DOMAIN pages' : \A x \in pages'[i] : ~After(x, last)
      BY <1>2, <1>8, <2>6, <2>7
    <2>9. \A row \in Candidates : row \in items \/ After(row, last)
      <3> SUFFICES ASSUME NEW row \in Candidates, row \notin items PROVE After(row, last)
        OBVIOUS
      <3>1. Precedes(last, row)
        <4>1. CASE row \in fetched
          <5>1. fetched \in SUBSET Bid /\ \A x, y \in fetched : x.id = y.id => x = y
            BY <1>2, <1>4
          <5>. QED BY <1>3, <1>5, <2>1, <2>5, <4>1, <5>1, FirstIsFront
        <4>2. CASE row \notin fetched
          BY <1>2, <1>3, <2>6, <4>2, FirstIsFront
        <4>. QED BY <4>1, <4>2
      <3>. QED BY <1>2, <2>6, <3>1, AfterIsPrecedes
    <2>10. \A row \in kept' : Shown(row)' \/ After(row, last)
      BY <1>1, <1>7, <1>11, <2>9
    <2>11. cursor' = CursorText(last) /\ reading' = "yes"
      BY <1>1, <1>13, <2>4
    <2>. QED BY <1>8, <1>9, <1>10, <2>6, <2>8, <2>10, <2>11 DEF CursorInv, ReaderOK
  <1>. QED BY <1>12, <1>13

\* Bidding leaves the reader where he is.
LEMMA ReaderLeftAlone ==
  ASSUME CursorInv, TableOK', kept' \subseteq kept, UNCHANGED readerVars
  PROVE  CursorInv'
  <1>1. PagesInOrder' /\ \A row : Shown(row)' <=> Shown(row)
    BY DEF CursorInv, PagesInOrder, readerVars, Shown
  <1>. QED BY <1>1 DEF CursorInv, ReaderOK, readerVars

\* a row of the table, new or raised, with an id that no other row has
LEMMA RowStored ==
  ASSUME TableOK, NEW part \in SUBSET bids, NEW row \in Bid, \A x \in part : x.id # row.id,
         bids' = part \cup {row}, used' \subseteq Ids, used \subseteq used', row.id \in used',
         kept' \subseteq part
  PROVE  TableOK'
  <1>1. HasFirst(part) /\ HasLast(part) /\ part \in SUBSET Bid
    BY PartsInOrder DEF TableOK
  <1>2. HasFirst(bids') /\ HasLast(bids')
    BY <1>1, InOrderWithRow
  <1>3. IsFiniteSet(bids')
    BY FS_Subset, FS_AddElement DEF TableOK
  <1>. QED BY <1>1, <1>2, <1>3 DEF TableOK

LEMMA CursorInvStep ==
  ASSUME CursorInv, [Next]_vars
  PROVE  CursorInv'
  <1>1. ASSUME NEW limit \in Limits, ListBids(limit)
        PROVE  CursorInv'
    BY <1>1, ListBidsKeepsInv
  <1>2. ASSUME NEW i \in Ids, NEW amount \in Amounts, NEW time \in Times,
               InsertBid(i, amount, time)
        PROVE  CursorInv'
    <2>1. PICK row : row = [id |-> i, amount |-> amount, time |-> time]
      OBVIOUS
    <2>2. row \in Bid /\ row.id = i /\ bids' = bids \cup {row}
      BY <1>2, <2>1 DEF InsertBid, Bid, CursorInv, TableOK
    <2>3. \A x \in bids : x.id # row.id
      BY <1>2, <2>2 DEF InsertBid, CursorInv, TableOK
    <2>4. TableOK'
      BY <1>2, <2>2, <2>3, RowStored DEF InsertBid, CursorInv, TableOK
    <2>. QED BY <1>2, <2>4, ReaderLeftAlone DEF InsertBid
  <1>3. ASSUME NEW old \in bids, NEW amount \in Amounts, NEW time \in Times,
               RaiseBid(old, amount, time)
        PROVE  CursorInv'
    <2>1. PICK row : row = [id |-> old.id, amount |-> amount, time |-> time]
      OBVIOUS
    <2>2. row \in Bid /\ row.id = old.id /\ bids' = (bids \ {old}) \cup {row}
      BY <1>3, <2>1 DEF RaiseBid, Bid, CursorInv, TableOK
    <2>3. \A x \in bids \ {old} : x.id # row.id
      BY <2>2 DEF CursorInv, TableOK
    <2>4. TableOK'
      BY <1>3, <2>2, <2>3, RowStored DEF RaiseBid, CursorInv, TableOK
    <2>. QED BY <1>3, <2>4, ReaderLeftAlone DEF RaiseBid
  <1>4. ASSUME NEW row \in bids, WithdrawBid(row)
        PROVE  CursorInv'
    <2>1. bids' \in SUBSET bids /\ kept' \subseteq bids'
      BY <1>4 DEF WithdrawBid, CursorInv, TableOK
    <2>2. TableOK'
      BY <1>4, <2>1, PartsInOrder, FS_Subset DEF WithdrawBid, CursorInv, TableOK
    <2>. QED BY <1>4, <2>2, ReaderLeftAlone DEF WithdrawBid
  <1>5. CASE UNCHANGED vars
    <2>1. TableOK'
      BY <1>5 DEF vars, CursorInv, TableOK
    <2>. QED BY <1>5, <2>1, ReaderLeftAlone DEF vars, readerVars
  <1>. QED BY <1>1, <1>2, <1>3, <1>4, <1>5 DEF Next

LEMMA CursorIsSound == Spec => []CursorInv
  <1>1. Init => CursorInv
    BY FS_EmptySet DEF Init, CursorInv, TableOK, ReaderOK, PagesInOrder, HasFirst, HasLast, Bid
  <1>2. CursorInv /\ [Next]_vars => CursorInv'
    BY CursorInvStep
  <1>. QED BY <1>1, <1>2, PTL DEF Spec

\* Whatever is inserted, raised or withdrawn between two pages, every row of a later page
\* comes after every row of an earlier one (PagesInOrder).
THEOREM PagesAreInOrder == Spec => []PagesInOrder
  BY CursorIsSound, PTL DEF CursorInv

\* A reader who has come to the last page has seen every bid that was there from the first
\* page on and was left alone (NothingMissed).
THEOREM ReaderMissesNothing == Spec => []NothingMissed
  <1>1. CursorInv => NothingMissed
    BY DEF CursorInv, ReaderOK, NothingMissed, Shown
  <1>. QED BY <1>1, CursorIsSound, PTL
====
