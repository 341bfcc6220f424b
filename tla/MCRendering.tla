---------------------------- MODULE MCRendering ----------------------------
(***************************************************************************)
(* An instance of Rendering for TLC: one ad unit with one slot, and a bid in *)
(* each of two auctions.                                                   *)
(***************************************************************************)
EXTENDS Rendering

TwoAuctions == {1, 2}
TwoBids == {1, 2}
OneEach == [b \in TwoBids |-> b]
SameUnit == [b \in TwoBids |-> "top"]
OneUnit == {"top"}
OneSlot == {"div"}
SlotOfUnit == [s \in OneSlot |-> "top"]
OneBid == {1}
=============================================================================
