----------------------------- MODULE EventRelay -----------------------------
(***************************************************************************)
(* What the outbox promises to whoever writes an event into it: it is       *)
(* written down as published only after it was handed to the broker, and    *)
(* nothing reaches a consumer that was not written.  It may be handed over  *)
(* more than once, in any order, and the broker may lose it.                *)
(***************************************************************************)
CONSTANT Events

VARIABLES written, handed, received, published

vars == <<written, handed, received, published>>

Init ==
  /\ written = {}
  /\ handed = {}
  /\ received = {}
  /\ published = {}

Write(e) ==
  /\ e \notin written
  /\ written' = written \cup {e}
  /\ UNCHANGED <<handed, received, published>>

Hand(e) ==
  /\ e \in written
  /\ handed' = handed \cup {e}
  /\ UNCHANGED <<written, received, published>>

Arrive(e) ==
  /\ e \in handed
  /\ received' = received \cup {e}
  /\ UNCHANGED <<written, handed, published>>

Settle(e) ==
  /\ e \in handed
  /\ published' = published \cup {e}
  /\ UNCHANGED <<written, handed, received>>

Next == \E e \in Events : Write(e) \/ Hand(e) \/ Arrive(e) \/ Settle(e)

Spec == Init /\ [][Next]_vars
=============================================================================
