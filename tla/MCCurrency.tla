----------------------------- MODULE MCCurrency -----------------------------
(***************************************************************************)
(* Instances of Currency for TLC: two auctions with a bid each.            *)
(***************************************************************************)
EXTENDS Currency

TwoAuctions == {1, 2}
TwoBids == {"b1", "b2"}
AuctionOfBid == [b \in TwoBids |-> IF b = "b2" THEN 2 ELSE 1]
=============================================================================
