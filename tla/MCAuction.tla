------------------------------ MODULE MCAuction ------------------------------
(***************************************************************************)
(* Instances of Auction for TLC.                                           *)
(***************************************************************************)
EXTENDS Auction

(* Two client bidders, "slow" being secondary; "main" may send two HTTP     *)
(* requests and sells two placements, one of them video.                    *)
PairRequests == {"main", "slow"}
PairSecondary == {"slow"}
PairImps == {"banner", "video", "other"}
PairOwner == [i \in PairImps |-> IF i = "other" THEN "slow" ELSE "main"]
PairCallOf == [r \in PairRequests |-> r]
PairHttps == {"m1", "m2", "s1"}
PairCaller == [h \in PairHttps |-> IF h = "s1" THEN "slow" ELSE "main"]
PairVideo == {"video", "other"}

(* A server adapter call that serves two bidders, and one client bidder     *)
(* that may send two HTTP requests.                                         *)
ServerRequests == {"sa", "sb", "cl"}
ServerSecondary == {"sb"}
ServerImps == {"ia", "ib", "ic"}
ServerOwner == [i \in ServerImps |-> CASE i = "ia" -> "sa" [] i = "ib" -> "sb" [] OTHER -> "cl"]
ServerCalls == {"pbs", "cl"}
ServerS2S == {"pbs"}
ServerCallOf == [r \in ServerRequests |-> IF r = "cl" THEN "cl" ELSE "pbs"]
ServerHttps == {"hp", "c1", "c2"}
ServerCaller == [h \in ServerHttps |-> IF h = "hp" THEN "pbs" ELSE "cl"]
ServerVideo == {"ia"}
=============================================================================
