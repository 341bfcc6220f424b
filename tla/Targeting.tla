------------------------------ MODULE Targeting ------------------------------
(***************************************************************************)
(* Which bids are offered to the ad server, and for how long:              *)
(* src/targeting.ts with src/targeting/filters.ts and lock.ts, over the    *)
(* auctions that src/auctionManager.js remembers. Rendering extends this   *)
(* module with what happens to a bid that the ad server picks.             *)
(*                                                                         *)
(* Abstracted: the key-value pairs (a slot has the bid of hb_adid), prices *)
(* (any usable bid may be the best), and time: entries of pendingReset and *)
(* slotRenderedAt grow older than 100 ms at some time, locks time out at   *)
(* some time. Each slot serves one ad unit.                                *)
(***************************************************************************)
EXTENDS Naturals

CONSTANTS
  Auctions, Units, Slots, Bids,
  AuctionOf, UnitOf,   \* [Bids -> Auctions], [Bids -> Units]
  SlotUnit,            \* [Slots -> Units]: the ad unit of a GPT slot
  useBidCache,         \* bids of earlier auctions may be offered
  enableSendAllBids,   \* every bid is offered, not the best alone
  lockAdId,            \* targetingControls.lock includes hb_adid
  None

ASSUME TargetingAssumption ==
  /\ AuctionOf \in [Bids -> Auctions] /\ UnitOf \in [Bids -> Units]
  /\ SlotUnit \in [Slots -> Units]
  /\ {useBidCache, enableSendAllBids, lockAdId} \subseteq BOOLEAN
  /\ None \notin Bids \cup Auctions \cup [slots : SUBSET Slots, due : BOOLEAN]

VARIABLES
  auctionStatus,    \* of each: "new", "started" (it may be queued), "running", "completed"
  auctions,         \* those the auction manager remembers
  received,         \* their bids, those findBidByAdId finds
  latestAuction,    \* latestAuctionForAdUnit
  expired,          \* bids past their buffered ttl
  status,           \* of each bid: "none", "targetingSet", "rendered"
  slotTargeting,    \* of each slot: the bid of hb_adid, or None
  targetedAdIds,    \* targetedAdIdsBySlot
  locked,           \* bids whose ad id is locked
  slotRenderedAt,   \* slots that rendered less than 100 ms ago
  pendingReset,     \* of each unit: None, or the slots of its winner and whether it is due
  reschedule        \* the timer that looks at them is set

targetingVars ==
  <<auctionStatus, auctions, received, latestAuction, expired, status, slotTargeting,
    targetedAdIds, locked, slotRenderedAt, pendingReset, reschedule>>
slotVars == <<slotTargeting, targetedAdIds, locked, slotRenderedAt, pendingReset, reschedule>>
bidVars == <<auctionStatus, auctions, received, latestAuction, expired>>

TargetingTypeOK ==
  /\ auctionStatus \in [Auctions -> {"new", "started", "running", "completed"}]
  /\ auctions \subseteq Auctions /\ received \subseteq Bids /\ expired \subseteq Bids
  /\ latestAuction \in [Units -> Auctions \cup {None}]
  /\ status \in [Bids -> {"none", "targetingSet", "rendered"}]
  /\ slotTargeting \in [Slots -> Bids \cup {None}]
  /\ targetedAdIds \in [Slots -> SUBSET Bids]
  /\ locked \subseteq Bids /\ slotRenderedAt \subseteq Slots
  /\ pendingReset \in [Units -> {None} \cup [slots : SUBSET Slots, due : BOOLEAN]]
  /\ reschedule \in BOOLEAN

-----------------------------------------------------------------------------
\* getBidsReceived looks at the auctions that are over; findBidByAdId at all.
BidsReceived == {b \in received : auctionStatus[AuctionOf[b]] = "completed"}

isBidUsable(b) == b \notin expired /\ status[b] # "rendered" /\ b \notin locked

(* What getBidsReceived of targeting.ts leaves of an ad unit's bids. *)
Usable(u) ==
  {b \in BidsReceived :
     /\ UnitOf[b] = u
     /\ useBidCache \/ latestAuction[u] = AuctionOf[b]
     /\ isBidUsable(b)}

SlotsOf(us) == {s \in Slots : SlotUnit[s] \in us}

\* updateGPTTargeting with nothing to offer: presetGPTTargeting.
Preset(us) == [s \in Slots |-> IF SlotUnit[s] \in us THEN None ELSE slotTargeting[s]]

-----------------------------------------------------------------------------
TargetingInit ==
  /\ auctionStatus = [a \in Auctions |-> "new"]
  /\ auctions = {} /\ received = {} /\ expired = {}
  /\ latestAuction = [u \in Units |-> None]
  /\ status = [b \in Bids |-> "none"]
  /\ slotTargeting = [s \in Slots |-> None]
  /\ targetedAdIds = [s \in Slots |-> {}]
  /\ locked = {} /\ slotRenderedAt = {}
  /\ pendingReset = [u \in Units |-> None]
  /\ reschedule = FALSE

(* The page starts an auction, which may have to wait before it runs. *)
StartAuction(a) ==
  /\ auctionStatus[a] = "new"
  /\ auctionStatus' = [auctionStatus EXCEPT ![a] = "started"]
  /\ auctions' = auctions \cup {a}
  /\ latestAuction' =
       [u \in Units |-> IF \E b \in Bids : AuctionOf[b] = a /\ UnitOf[b] = u
                          THEN a ELSE latestAuction[u]]
  /\ UNCHANGED <<received, expired, status, slotVars>>

(* AUCTION_INIT: the slots of its ad units are given back. *)
AuctionInit(a) ==
  /\ auctionStatus[a] = "started"
  /\ auctionStatus' = [auctionStatus EXCEPT ![a] = "running"]
  /\ slotTargeting' = Preset({UnitOf[b] : b \in {c \in Bids : AuctionOf[c] = a}})
  /\ UNCHANGED <<auctions, received, latestAuction, expired, status, targetedAdIds, locked,
                 slotRenderedAt, pendingReset, reschedule>>

(* A bid comes in, in time or late. *)
BidReceived(b) ==
  /\ AuctionOf[b] \in auctions
  /\ auctionStatus[AuctionOf[b]] \in {"running", "completed"}
  /\ b \notin (received \cup expired)
  /\ received' = received \cup {b}
  /\ UNCHANGED <<auctionStatus, auctions, latestAuction, expired, status, slotVars>>

AuctionEnd(a) ==
  /\ auctionStatus[a] = "running"
  /\ auctionStatus' = [auctionStatus EXCEPT ![a] = "completed"]
  /\ UNCHANGED <<auctions, received, latestAuction, expired, status, slotVars>>

(* A bid grows too old to be used; it is forgotten no sooner than that. *)
Expire(b) ==
  /\ b \in received \ expired
  /\ expired' = expired \cup {b}
  /\ UNCHANGED <<auctionStatus, auctions, received, latestAuction, status, slotVars>>
Forget(b) ==
  /\ b \in received \cap expired
  /\ received' = received \ {b}
  /\ UNCHANGED <<auctionStatus, auctions, latestAuction, expired, status, slotVars>>

(* An auction's time is up, or the page clears them all. *)
ForgetAuctions(as) ==
  /\ as # {} /\ as \subseteq auctions
  /\ \/ as = auctions
     \/ \E a \in as : as = {a} /\ auctionStatus[a] = "completed"
  /\ auctions' = auctions \ as
  /\ received' = {b \in received : AuctionOf[b] \notin as}
  /\ UNCHANGED <<auctionStatus, latestAuction, expired, status, slotVars>>

-----------------------------------------------------------------------------
\* Faulty: a reset that is pending is left so when there is new targeting.
keepPending(us) == UNCHANGED pendingReset
dropPending(us) ==
  pendingReset' = [u \in Units |-> IF u \in us /\ SlotsOf(us) # {} THEN None ELSE pendingReset[u]]

offers(u, bid) == IF enableSendAllBids THEN Usable(u) ELSE {bid} \ {None}

(* setTargetingForGPT: best is the bid of hb_adid, for each unit that has   *)
(* bids.                                                                   *)
SetTargeting(us) ==
  \E best \in [us -> Bids \cup {None}] :
    LET chosen == {best[u] : u \in us} \ {None} IN
    /\ \A u \in us : IF Usable(u) = {} THEN best[u] = None ELSE best[u] \in Usable(u)
    /\ slotTargeting' =
         [s \in Slots |-> IF SlotUnit[s] \in us THEN best[SlotUnit[s]] ELSE slotTargeting[s]]
    /\ targetedAdIds' =
         [s \in Slots |-> IF SlotUnit[s] \in us THEN offers(SlotUnit[s], best[SlotUnit[s]])
                                                ELSE targetedAdIds[s]]
    /\ dropPending(us)
    /\ locked' = locked \cup (IF lockAdId THEN {best[SlotUnit[s]] : s \in SlotsOf(us)} \ {None}
                                          ELSE {})
    /\ status' = [b \in Bids |-> IF b \in chosen THEN "targetingSet" ELSE status[b]]
    /\ UNCHANGED <<bidVars, slotRenderedAt, reschedule>>

(* GPT's slotRenderEnded, which both the lock and the resets listen to: it  *)
(* unlocks what the slot has now, and makes a recent win due. The timer it *)
(* sets when there is no win does nothing and is left out.                 *)
SlotRenderEnded(s) ==
  /\ locked' = locked \ {slotTargeting[s]}
  /\ slotRenderedAt' = slotRenderedAt \cup {s}
  /\ pendingReset' =
       [u \in Units |-> IF pendingReset[u] # None /\ s \in pendingReset[u].slots
                          THEN [pendingReset[u] EXCEPT !.due = TRUE] ELSE pendingReset[u]]
  /\ reschedule' = (\E u \in Units : pendingReset[u] # None)
  /\ UNCHANGED <<bidVars, status, slotTargeting, targetedAdIds>>

(* The handler of BID_WON, a part of the step that emits it. *)
OnBidWon(b) ==
  LET slots == {s \in Slots : b \in targetedAdIds[s]} IN
  IF slots = {}
    THEN UNCHANGED slotVars
    ELSE /\ pendingReset' = [pendingReset EXCEPT ![UnitOf[b]] =
                               [slots |-> slots, due |-> slots \cap slotRenderedAt # {}]]
         /\ reschedule' = TRUE
         /\ locked' = locked \ {slotTargeting[s] : s \in slots}
         /\ UNCHANGED <<slotTargeting, targetedAdIds, slotRenderedAt>>

Due == {u \in Units : pendingReset[u] # None /\ pendingReset[u].due}

\* Faulty: the timer is not set again for those that are not due yet.
noFurtherTimer == FALSE
furtherTimer == \E u \in Units \ Due : pendingReset[u] # None

(* The timer: units that are due are reset. *)
Reschedule ==
  /\ reschedule
  /\ slotTargeting' = Preset(Due)
  /\ pendingReset' = [u \in Units |-> IF u \in Due THEN None ELSE pendingReset[u]]
  /\ reschedule' = furtherTimer
  /\ UNCHANGED <<bidVars, status, targetedAdIds, locked, slotRenderedAt>>

(* 100 ms have passed since a win, or since a slot rendered; lockTimeout.   *)
WinAges(u) ==
  /\ pendingReset[u] # None /\ ~pendingReset[u].due
  /\ pendingReset' = [pendingReset EXCEPT ![u].due = TRUE]
  /\ UNCHANGED <<bidVars, status, slotTargeting, targetedAdIds, locked, slotRenderedAt, reschedule>>
RenderAges(s) ==
  /\ s \in slotRenderedAt
  /\ slotRenderedAt' = slotRenderedAt \ {s}
  /\ UNCHANGED <<bidVars, status, slotTargeting, targetedAdIds, locked, pendingReset, reschedule>>
LockTimesOut(b) ==
  /\ b \in locked
  /\ locked' = locked \ {b}
  /\ UNCHANGED <<bidVars, status, slotTargeting, targetedAdIds, slotRenderedAt, pendingReset,
                 reschedule>>

TargetingNext ==
  \/ \E a \in Auctions : StartAuction(a) \/ AuctionInit(a) \/ AuctionEnd(a)
  \/ \E b \in Bids : BidReceived(b) \/ Expire(b) \/ Forget(b) \/ LockTimesOut(b)
  \/ \E as \in SUBSET Auctions : ForgetAuctions(as)
  \/ \E us \in (SUBSET Units) \ {{}} : SetTargeting(us)
  \/ \E s \in Slots : SlotRenderEnded(s) \/ RenderAges(s)
  \/ \E u \in Units : WinAges(u)
  \/ Reschedule
=============================================================================
