----------------------------- MODULE MCConsent -----------------------------
(***************************************************************************)
(* Instances of Consent for TLC.                                           *)
(***************************************************************************)
EXTENDS Consent

TwoAuctions == {1, 2}
OneAuction == {1}
OneReader == {"userId"}
OneShown == {"prompt"}
OneGiven == {"yes"}
=============================================================================
