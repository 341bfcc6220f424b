--------------------------- MODULE MCRequestQueue ---------------------------
(***************************************************************************)
(* Instances of RequestQueue for TLC.                                      *)
(***************************************************************************)
EXTENDS RequestQueue

(* Four auctions; the first yields and asks one source, the others ask two, *)
(* each with an origin of its own: "one" sends one request per auction,     *)
(* "many" one per bid.  The third auction has more bids than the limit.     *)
FourAuctions == 1..4
FirstYields == {1}
BothSources == {"one", "many"}
TwoOrigins == {"x", "y"}
MixedAsked == [a \in FourAuctions |-> IF a = 1 THEN {"one"} ELSE BothSources]
MixedBids == [a \in FourAuctions |-> [s \in BothSources |-> IF a = 3 THEN 3 ELSE 2]]
MixedHttps ==
  {<<a, "one", 1>> : a \in FourAuctions} \cup {<<a, "many", n>> : a \in 2..4, n \in 1..2}
    \cup {<<3, "many", 3>>}
AuctionOfHttp == [h \in MixedHttps |-> h[1]]
SourceOfHttp == [h \in MixedHttps |-> h[2]]
OriginOfHttp == [h \in MixedHttps |-> IF h[2] = "one" THEN "x" ELSE "y"]

(* Three auctions that ask two single-request sources of the same origin.   *)
ThreeAuctions == 1..3
SharedAsked == [a \in ThreeAuctions |-> BothSources]
SharedBids == [a \in ThreeAuctions |-> [s \in BothSources |-> 1]]
SharedHttps == ThreeAuctions \X BothSources
AuctionOfShared == [h \in SharedHttps |-> h[1]]
SourceOfShared == [h \in SharedHttps |-> h[2]]
OriginOfShared == [h \in SharedHttps |-> "x"]

(* The sources of the four auctions are what LimitHolds is about; the two   *)
(* that share an origin are not.                                            *)
ASSUME SteadySources == Https = MixedHttps => Steady
=============================================================================
