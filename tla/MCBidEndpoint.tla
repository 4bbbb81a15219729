--------------------------- MODULE MCBidEndpoint ---------------------------
(***************************************************************************)
(* Instance of BidEndpoint for TLC: a standard and a proxy bid on one       *)
(* auction, a standard bid beside the creation of another auction, or a     *)
(* proxy bid beside the closing of its auction.                             *)
(***************************************************************************)
EXTENDS BidEndpoint, TLC

MCLoads ==
  {1 :> "bid" @@ 2 :> "proxy", 1 :> "bid" @@ 2 :> "create", 1 :> "proxy" @@ 2 :> "close"}
=============================================================================
