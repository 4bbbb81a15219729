--------------------------- MODULE MCAuctionCreate ---------------------------
(* Small instances of AuctionCreate: a seller and a stranger, auctions that     *)
(* start at once, late or in the future, and commands that must be refused.     *)
EXTENDS AuctionCreate

CONSTANTS s, x

TwoSellers == {s, x}

Command(who, type, reserve, from, to) ==
  [seller |-> who, type |-> type, starting |-> 1, reserve |-> reserve, increment |-> 1,
   start |-> from, end |-> to]

\* at once; other terms; in the future; by a stranger
Good == {Command(s, "ENGLISH", 1, 0, 2), Command(s, "ENGLISH", 2, 0, 1),
         Command(s, "ENGLISH", 1, 2, 3)}
Bad == {Command(x, "ENGLISH", 3, 0, 2), Command(s, "ENTERPRISE", 1, 0, 2),
        Command(s, "ENGLISH", 0, 0, 2)}
MCCommands == Good \cup Bad
=============================================================================
