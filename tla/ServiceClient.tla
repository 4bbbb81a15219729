--------------------------- MODULE ServiceClient ---------------------------
(***************************************************************************)
(* The clients of the catalogue and the wallet (src/src/client): one call,  *)
(* await by await, over plain HTTP or HTTPS (http_service_client.rs) or     *)
(* gRPC (tonic).  Plain HTTP and gRPC open a connection per call; the HTTPS *)
(* client keeps connections for later calls and tries again on another one  *)
(* when the one it took turns out closed before the request was sent.  Both *)
(* are Connect here: it stands for whatever comes before the request leaves, *)
(* and a request that has left is never sent again.                         *)
(* WalletClientProxy drops a wallet call at its time limit; a call of the   *)
(* catalogue has none.  A request that was sent before its caller left is   *)
(* still on the wire.  The services themselves are external.                *)
(***************************************************************************)
CONSTANT Requests   \* whoever makes calls, one of each operation at most

VARIABLES endpoint, \* which transport the clients were built with at start-up
          call      \* per call: where it is, what is on the wire, what came of it

clientVars == <<endpoint, call>>

\* get_listing_summary, release_hold of the leader's hold, hold_funds, release_hold of the
\* hold just placed, hold_funds for the bid of a proxy that counters
Ops == {"summary", "release", "hold", "undo", "counter"}
Calls == Requests \X Ops

Transports == {"http", "grpc"}

\* catalog_client_from_endpoints prefers gRPC, wallet_client_from_endpoints HTTP
CatalogueOver(urls) ==
  IF "grpc" \in urls THEN "grpc" ELSE IF "http" \in urls THEN "http" ELSE "none"
WalletOver(urls) ==
  IF "http" \in urls THEN "http" ELSE IF "grpc" \in urls THEN "grpc" ELSE "none"

OfWallet(c) == c[2] # "summary"
Transport(c) == IF OfWallet(c) THEN endpoint.wallet ELSE endpoint.catalogue

Unmade == [at |-> "unmade", wire |-> "none", done |-> FALSE, heard |-> "unmade"]

UnderWay(c) == call[c].at \in {"connect", "ready", "send", "await"}
Over(c) == call[c].at = "over"

ClientInit ==
  /\ \E catalogue, wallet \in SUBSET Transports :
       endpoint = [catalogue |-> CatalogueOver(catalogue), wallet |-> WalletOver(wallet)]
  /\ call = [c \in Calls |-> Unmade]

\* the caller starts to poll the call
Make(c) ==
  /\ call[c].at = "unmade"
  /\ call' = [call EXCEPT ![c].at = "connect", ![c].heard = "pending"]
  /\ UNCHANGED endpoint

\* the caller has its answer, or has gone; only a request already sent stays behind
End(c, answer) ==
  /\ call' = [call EXCEPT ![c].at = "over", ![c].heard = answer,
                          ![c].wire = IF @ = "request" THEN "request" ELSE "none"]
  /\ UNCHANGED endpoint

Proceed(c, from, to) ==
  /\ call[c].at = from
  /\ call' = [call EXCEPT ![c].at = to]
  /\ UNCHANGED endpoint

\* a connection of its own, or one the HTTPS client has kept, after as many closed ones as
\* it takes
Connect(c) == Proceed(c, "connect", IF Transport(c) = "grpc" THEN "ready" ELSE "send")

Ready(c) == Proceed(c, "ready", "send")

\* no connection, or a gRPC channel that does not become ready
Unreachable(c) == call[c].at \in {"connect", "ready"} /\ End(c, "failed")

Send(c) ==
  /\ call[c].at = "send"
  /\ call' = [call EXCEPT ![c].at = "await", ![c].wire = "request"]
  /\ UNCHANGED endpoint

\* what the service sends back is read by nobody once the caller has gone
Replies(c, done, reply) ==
  /\ call[c].wire = "request"
  /\ call' = [call EXCEPT ![c].done = done, ![c].wire = IF Over(c) THEN "none" ELSE reply]
  /\ UNCHANGED endpoint

\* external: the service does what is asked, whatever becomes of the answer: garbled is a
\* success the client cannot decode, error any other status or a broken connection
Serve(c) == \E reply \in {"ok", "garbled", "error"} : Replies(c, TRUE, reply)

\* external: insufficient balance or unknown listing, or an error before any effect
Decline(c) == \E reply \in {"refused", "error"} : Replies(c, FALSE, reply)

Slip_ErrorsAreRefusals(c, reply) ==
  CASE reply = "ok" -> "ok" [] reply \in {"refused", "error"} -> "refused" [] OTHER -> "failed"

\* What the caller is told.  Over HTTP a release looks at the status alone: it takes any
\* body for a success and does not tell a refusal from an error.
FromReply(c, reply) ==
  LET statusOnly == c[2] \in {"release", "undo"} /\ Transport(c) = "http"
  IN  CASE reply = "ok" \/ (reply = "garbled" /\ statusOnly) -> "ok"
        [] reply = "refused" /\ ~statusOnly -> "refused"
        [] OTHER -> "failed"

Receive(c) ==
  /\ call[c].at = "await"
  /\ call[c].wire \notin {"none", "request"}
  /\ End(c, FromReply(c, call[c].wire))

Slip_LimitsConnecting(c) ==
  /\ OfWallet(c)
  /\ call[c].at \in {"connect", "ready"}
  /\ End(c, "failed")

\* WalletClientProxy::guarded
TimeLimit(c) ==
  /\ OfWallet(c)
  /\ UnderWay(c)
  /\ End(c, "failed")

\* the future of the call is dropped with the request that awaits it
Abandon(c) == UnderWay(c) /\ End(c, "failed")

\* what the runtime does for a call, and what is up to the other side
Poll(c) == Send(c) \/ Receive(c) \/ TimeLimit(c)
Network(c) == Connect(c) \/ Ready(c) \/ Unreachable(c) \/ Serve(c) \/ Decline(c)

ClientNext == \E c \in Calls : Make(c) \/ Abandon(c) \/ Poll(c) \/ Network(c)

ClientSpec == ClientInit /\ [][ClientNext]_clientVars

-----------------------------------------------------------------------------
(* Properties *)

Remote == INSTANCE RemoteCall WITH heard <- [c \in Calls |-> call[c].heard],
                                   done <- [c \in Calls |-> call[c].done]

\* Whichever transport and whatever the network does, a client tells its caller "ok" only
\* after the effect and "refused" only when there will be none; anything else is "failed",
\* which the handlers must take for "perhaps" (wallet_client.rs:419-440, catalog_client.rs:136-160).
ImplementsCall == Remote!Spec
=============================================================================
