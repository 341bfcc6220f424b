---------------------------- MODULE MCVideoCache ----------------------------
(***************************************************************************)
(* An instance of VideoCache for TLC.                                      *)
(***************************************************************************)
EXTENDS VideoCache

FourBids == {1, 2, 3, 4}
=============================================================================
