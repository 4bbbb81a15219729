----------------------------- MODULE Settlement -----------------------------
(***************************************************************************)
(* What closing an auction promises to whoever has money held for it.  The *)
(* outcome is decided once and stays.  If the auction is won, the hold of  *)
(* one bid is paid, once, or nothing is; if not, holds are freed and none  *)
(* is ever paid.  No money is taken from a hold that is paid or free.      *)
(***************************************************************************)
CONSTANT None  \* no hold: nobody has won

VARIABLES outcome,  \* "open", "WON" or "UNSOLD"
          winner,   \* the hold of the bid that has won, or None
          held,     \* the holds that can be drawn on
          paid,     \* the holds that were paid
          freed     \* the holds whose money was given back

vars == <<outcome, winner, held, paid, freed>>

\* the bids have left holds, some of them given back already
Init ==
  /\ outcome = "open"
  /\ winner = None
  /\ paid = {}

\* the winning bid may have lost its hold to a failed attempt to outbid it
Decide ==
  /\ outcome = "open"
  /\ \/ outcome' = "WON" /\ winner' \in held \cup freed
     \/ outcome' = "UNSOLD" /\ winner' = None
  /\ UNCHANGED <<held, paid, freed>>

Pay ==
  /\ outcome = "WON" /\ winner \in held
  /\ held' = held \ {winner}
  /\ paid' = paid \cup {winner}
  /\ UNCHANGED <<outcome, winner, freed>>

GiveBack(h) ==
  /\ outcome = "UNSOLD" /\ h \in held
  /\ held' = held \ {h}
  /\ freed' = freed \cup {h}
  /\ UNCHANGED <<outcome, winner, paid>>

Next == Decide \/ Pay \/ \E h \in held : GiveBack(h)

Spec == Init /\ [][Next]_vars
=============================================================================
