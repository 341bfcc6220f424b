----------------------------- MODULE MCBidCache -----------------------------
(***************************************************************************)
(* An instance of BidCache for TLC: two auctions with a bid each.          *)
(***************************************************************************)
EXTENDS BidCache

TwoAuctions == {1, 2}
TwoBids == {1, 2}
OneEach == [b \in TwoBids |-> b]
SameTTL == [b \in TwoBids |-> 1]
SomeMinTTLs == {Null, 0}
SomeMinTargeted == {Null, 3}
=============================================================================
