------------------------------ MODULE MCOutbox ------------------------------
(***************************************************************************)
(* Instances of Outbox for TLC.  Two publishers contend for one event and   *)
(* things go wrong, also while an earlier fault is being recovered from;    *)
(* they contend for a batch of two and nothing goes wrong; one publisher    *)
(* loses the rest of a batch, or has more events than a batch holds.        *)
(***************************************************************************)
EXTENDS Outbox

CONSTANTS e1, e2, p1, p2

MCEvents == {e1, e2}
MCPublishers == {p1, p2}

On(backend, publishers, limit, events, count) ==
  [backend |-> backend, publishers |-> publishers, limit |-> limit,
   events |-> events, faults |-> count]

Databases == {"postgres", "sqlite"}

MCScenarios ==
  {On("postgres", MCPublishers, 1, {e1}, 2), On("sqlite", MCPublishers, 1, {e1}, 1)}
    \cup {On(backend, MCPublishers, 2, MCEvents, 0) : backend \in Databases}
    \cup {On(backend, {p1}, limit, MCEvents, 1) : backend \in Databases, limit \in {1, 2}}
=============================================================================
