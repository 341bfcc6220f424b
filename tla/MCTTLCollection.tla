--------------------------- MODULE MCTTLCollection ---------------------------
(***************************************************************************)
(* Instances of TTLCollection for TLC.                                     *)
(***************************************************************************)
EXTENDS TTLCollection, TLC

CONSTANTS i1, i2
TwoItems == {i1, i2}
Symmetric == Permutations(TwoItems)
Forever == 1000
ShortTtls == {0, 1, None}
=============================================================================
