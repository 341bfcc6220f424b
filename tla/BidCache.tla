------------------------------ MODULE BidCache ------------------------------
(***************************************************************************)
(* How long bids and their auctions are remembered: the collections of     *)
(* src/auctionManager.js and src/auction.ts with the lifetimes of          *)
(* src/bidTTL.ts, and the blobs of bids whose VAST is cached in the page   *)
(* (storeLocally and the clean up handler of src/videoCache.ts).           *)
(*                                                                         *)
(* The collections are those of TTLCollection, seen from outside: each has *)
(* a timer, at the first expiry and a slack, that removes what has expired *)
(* by then; it runs in time while the page is in view. Once the page has   *)
(* been hidden it may be late, or early: the timers of purges that were    *)
(* put off are not always cleared.                                         *)
(* Promises settle within the step that causes them. A lifetime of Null is *)
(* that of the page. Every bid is a video bid cached locally.              *)
(***************************************************************************)
EXTENDS Naturals, FiniteSets, FiniteSetsExt

CONSTANTS
  Auctions, CachedBids,
  AuctionOf,      \* [CachedBids -> Auctions]
  ttl,            \* [CachedBids -> Nat]
  MinTTLs,        \* what minBidCacheTTL can be set to, ...
  MinTargeted,    \* ... and minTargetedBidCacheTTL
  Slack,
  InView,         \* the page is never hidden
  MaxTime,        \* bounds the clock
  Null

ASSUME BidCacheAssumption ==
  /\ AuctionOf \in [CachedBids -> Auctions] /\ ttl \in [CachedBids -> Nat]
  /\ MinTTLs \cup MinTargeted \subseteq Nat \cup {Null} /\ Null \in MinTTLs \cap MinTargeted
  /\ Slack \in Nat /\ MaxTime \in Nat /\ InView \in BOOLEAN /\ Null \notin Nat

VARIABLES
  now,
  minCacheTTL, minTargetedBidCacheTTL,
  auctions,       \* in the collection of the auction manager, at first all of them
  auctionEnd,     \* of each auction, or Null
  auctionExpiry,
  received,       \* bids in the collections of these auctions
  responseTimestamp,
  status,         \* of each bid: "none", "targetingSet", "rendered"
  bidExpiry,
  late,           \* bids that came when their auction was over
  vastLocalCache  \* bids that have a blob

settings == <<minCacheTTL, minTargetedBidCacheTTL>>
cacheVars == <<now, settings, auctions, auctionEnd, auctionExpiry, received,
               responseTimestamp, status, bidExpiry, late, vastLocalCache>>

Time == 0 .. MaxTime
Expiry == Nat \cup {Null}
CacheTypeOK ==
  /\ now \in Time /\ minCacheTTL \in MinTTLs /\ minTargetedBidCacheTTL \in MinTargeted
  /\ auctions \subseteq Auctions /\ received \subseteq {b \in CachedBids : AuctionOf[b] \in auctions}
  /\ auctionEnd \in [Auctions -> Time \cup {Null}] /\ auctionExpiry \in [Auctions -> Expiry]
  /\ responseTimestamp \in [CachedBids -> Time \cup {Null}] /\ bidExpiry \in [CachedBids -> Expiry]
  /\ status \in [CachedBids -> {"none", "targetingSet", "rendered"}]
  /\ late \subseteq CachedBids /\ vastLocalCache \subseteq CachedBids

CacheInit ==
  /\ now = 0
  /\ minCacheTTL = Null /\ minTargetedBidCacheTTL = Null
  /\ auctions = Auctions /\ received = {} /\ late = {} /\ vastLocalCache = {}
  /\ auctionEnd = [a \in Auctions |-> Null] /\ auctionExpiry = [a \in Auctions |-> Null]
  /\ responseTimestamp = [b \in CachedBids |-> Null] /\ bidExpiry = [b \in CachedBids |-> Null]
  /\ status = [b \in CachedBids |-> "none"]

-----------------------------------------------------------------------------
getBidsReceived(a) == {b \in received : AuctionOf[b] = a}

getEffectiveMinBidCacheTTL(b) ==
  IF status[b] = "targetingSet" /\ minTargetedBidCacheTTL # Null
    THEN minTargetedBidCacheTTL ELSE minCacheTTL

Lifetime(b) ==
  LET min == getEffectiveMinBidCacheTTL(b) IN
  IF min = Null THEN Null ELSE Max({min, ttl[b]})

(* The lifetime of an auction that is over. *)
AuctionLifetime(a) ==
  IF getBidsReceived(a) = {} THEN minCacheTTL
  ELSE IF \E b \in getBidsReceived(a) : Lifetime(b) = Null THEN Null
  ELSE Max({Lifetime(b) : b \in getBidsReceived(a)})

After(start, lifetime) == IF start = Null \/ lifetime = Null THEN Null ELSE start + lifetime

\* Faulty: the auctions keep the expiry they have.
KeepAuctionExpiry == UNCHANGED auctionExpiry
(* New expiries from the state after the step, of every auction ... *)
RefreshAuctions ==
  auctionExpiry' = [a \in Auctions |-> IF a \in auctions THEN After(auctionEnd[a], AuctionLifetime(a)')
                                                       ELSE auctionExpiry[a]]

(* ... and of the bids of as. *)
RefreshBids(as) ==
  bidExpiry' = [b \in CachedBids |-> IF b \in received /\ AuctionOf[b] \in as
                                 THEN After(responseTimestamp[b], Lifetime(b)') ELSE bidExpiry[b]]

-----------------------------------------------------------------------------
(* A bid comes in, in time or late, and its VAST becomes a blob. *)
BidReceived(b) ==
  /\ responseTimestamp[b] = Null
  /\ responseTimestamp' = [responseTimestamp EXCEPT ![b] = now]
  /\ vastLocalCache' = vastLocalCache \cup {b}
  /\ late' = IF auctionEnd[AuctionOf[b]] = Null THEN late ELSE late \cup {b}
  /\ received' = received \cup {c \in {b} : AuctionOf[c] \in auctions}
  /\ bidExpiry' = [bidExpiry EXCEPT ![b] = After(now, Lifetime(b))]
  /\ UNCHANGED <<now, settings, auctions, auctionEnd, auctionExpiry, status>>

\* The end of an auction starts its lifetime, from the bids it has then.
AuctionEnd(a) ==
  /\ auctionEnd[a] = Null
  /\ auctionEnd' = [auctionEnd EXCEPT ![a] = now]
  /\ auctionExpiry' = [auctionExpiry EXCEPT ![a] = After(now, AuctionLifetime(a))]
  /\ UNCHANGED <<now, settings, auctions, received, responseTimestamp, status, bidExpiry,
                 late, vastLocalCache>>

(* setTargeting offers a bid that is not too old. *)
SetTargeting(b) ==
  /\ b \in received /\ auctionEnd[AuctionOf[b]] # Null
  /\ status[b] # "rendered" /\ now < responseTimestamp[b] + ttl[b]
  /\ status' = [status EXCEPT ![b] = "targetingSet"]
  /\ UNCHANGED <<now, settings, auctions, auctionEnd, received, responseTimestamp,
                 late, vastLocalCache>>
  /\ RefreshBids({AuctionOf[b]}) /\ RefreshAuctions

(* Its ad is rendered, and nothing is refreshed. *)
MarkAsRendered(b) ==
  /\ b \in received
  /\ status' = [status EXCEPT ![b] = "rendered"]
  /\ UNCHANGED <<now, settings, auctions, auctionEnd, auctionExpiry, received,
                 responseTimestamp, bidExpiry, late, vastLocalCache>>

SetTTLs ==
  /\ minCacheTTL' \in MinTTLs /\ minTargetedBidCacheTTL' \in MinTargeted
  /\ settings' # settings
  /\ UNCHANGED <<now, auctions, auctionEnd, received, responseTimestamp, status,
                 late, vastLocalCache>>
  /\ RefreshBids(auctions) /\ RefreshAuctions

-----------------------------------------------------------------------------
Expired(e) == e # Null /\ e <= now
PurgeDue(expiries) == \E e \in expiries : e # Null /\ e + Slack <= now
BidExpiries(a) == {bidExpiry[b] : b \in getBidsReceived(a)}
AuctionExpiries == {auctionExpiry[a] : a \in auctions}
MayPurge(expiries) == IF InView THEN PurgeDue(expiries) ELSE \E e \in expiries : Expired(e)

PurgeBids(a) ==
  /\ MayPurge(BidExpiries(a))
  /\ received' = received \ {b \in getBidsReceived(a) : Expired(bidExpiry[b])}
  /\ UNCHANGED <<now, settings, auctions, auctionEnd, auctionExpiry, responseTimestamp,
                 status, bidExpiry, late, vastLocalCache>>

\* Faulty: every blob is let go of.
allBlobs(expired) == vastLocalCache
cleanedUp(expired) == {b \in received : AuctionOf[b] \in expired}

(* The clean up handler runs for each auction that is about to be removed. *)
PurgeAuctions ==
  LET expired == {a \in auctions : Expired(auctionExpiry[a])} IN
  /\ MayPurge(AuctionExpiries)
  /\ auctions' = auctions \ expired
  /\ received' = {b \in received : AuctionOf[b] \notin expired}
  /\ vastLocalCache' = vastLocalCache \ cleanedUp(expired)
  /\ UNCHANGED <<now, settings, auctionEnd, auctionExpiry, responseTimestamp, status,
                 bidExpiry, late>>

ClearAllAuctions ==
  /\ auctions' = {} /\ received' = {}
  /\ UNCHANGED <<now, settings, auctionEnd, auctionExpiry, responseTimestamp, status,
                 bidExpiry, late, vastLocalCache>>

Tick ==
  /\ now < MaxTime
  /\ InView => ~PurgeDue(AuctionExpiries) /\ \A a \in Auctions : ~PurgeDue(BidExpiries(a))
  /\ now' = now + 1
  /\ UNCHANGED <<settings, auctions, auctionEnd, auctionExpiry, received,
                 responseTimestamp, status, bidExpiry, late, vastLocalCache>>

CacheNext ==
  \/ \E a \in Auctions : AuctionEnd(a) \/ PurgeBids(a)
  \/ \E b \in CachedBids : BidReceived(b) \/ SetTargeting(b) \/ MarkAsRendered(b)
  \/ SetTTLs
  \/ PurgeAuctions
  \/ ClearAllAuctions
  \/ Tick

CacheSpec == CacheInit /\ [][CacheNext]_cacheVars

-----------------------------------------------------------------------------
(* Time never takes away a bid that came in time before its ttl, and while *)
(* it is not rendered before the minimum that the page has set last, in    *)
(* whichever order auctions end, settings change and bids are targeted.    *)
KeptLongEnough ==
  [][PurgeAuctions \/ (\E a \in Auctions : PurgeBids(a)) =>
       \A b \in received \ (received' \cup late) :
         /\ now >= responseTimestamp[b] + ttl[b]
         /\ status[b] # "rendered" =>
              Lifetime(b) # Null /\ now >= responseTimestamp[b] + Lifetime(b)]_cacheVars

(* A bid that can be found can be played: its blob is there. *)
FoundHasBlob == received \subseteq vastLocalCache
=============================================================================
