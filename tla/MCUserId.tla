------------------------------ MODULE MCUserId ------------------------------
(***************************************************************************)
(* Instances of UserId for TLC: two submodules, callers and consents, an   *)
(* auction.                                                                *)
(***************************************************************************)
EXTENDS UserId

TwoModules == {"shared", "other"}
TwoCallers == {1, 2}
OneAuction == {3}
TwoConsents == {"first", "second"}
=============================================================================
