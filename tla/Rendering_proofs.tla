------------------------- MODULE Rendering_proofs -------------------------
(***************************************************************************)
(* Theorems about Rendering, and through it about Targeting.               *)
(***************************************************************************)
EXTENDS Rendering, TLAPS

SlotTypeOK ==
  /\ slotTargeting \in [Slots -> Bids \cup {None}]
  /\ targetedAdIds \in [Slots -> SUBSET Bids]
  /\ locked \subseteq Bids /\ slotRenderedAt \subseteq Slots
  /\ pendingReset \in [Units -> {None} \cup [slots : SUBSET Slots, due : BOOLEAN]]
  /\ reschedule \in BOOLEAN

BidTypeOK ==
  /\ auctionStatus \in [Auctions -> {"new", "started", "running", "completed"}]
  /\ auctions \subseteq Auctions /\ received \subseteq Bids /\ expired \subseteq Bids
  /\ latestAuction \in [Units -> Auctions \cup {None}]

StatusTypeOK == status \in [Bids -> {"none", "targetingSet", "rendered"}]

\* The slots of an ad unit have been offered the same bids, which are its own.
SameAdIds ==
  \A s, t \in Slots :
    /\ SlotUnit[s] = SlotUnit[t] => targetedAdIds[s] = targetedAdIds[t]
    /\ \A b \in targetedAdIds[s] : UnitOf[b] = SlotUnit[s]

\* An ad unit that waits to be reset has a winner on each of its slots.
PendingWon ==
  \A s \in Slots : pendingReset[SlotUnit[s]] # None => targetedAdIds[s] \cap won # {}

\* A winner whose billing is not deferred has been billed.
WinnersBilled == WINNERS \ DeferBilling \subseteq BILLED

\* A bid that was sold says so.
SoldIsRendered ==
  \A b \in (won \cup winning) \ (deferRendering \cup Native) : status[b] = "rendered"

\* A bid that was written says so.
WrittenIsRendered == \A b \in Bids : written[b] # 0 => status[b] = "rendered"

IInv ==
  /\ TypeOK /\ SameAdIds /\ PendingWon /\ WinnersBilled /\ BilledFirst /\ SoldIsRendered
  /\ suppressStaleRender => WrittenIsRendered
  /\ WrittenOnce

-----------------------------------------------------------------------------
(* The parts of the type. *)
LEMMA TypeParts ==
  TypeOK <=> /\ BidTypeOK /\ StatusTypeOK /\ SlotTypeOK
             /\ deferRendering \subseteq DeferBilling
             /\ WINNERS \subseteq Bids /\ won \subseteq Bids /\ winning \subseteq Bids
             /\ BILLED \subseteq Bids
             /\ DEFERRED_RENDER \in [Bids -> {None, "ad", "native"}]
             /\ written \in [Bids -> Nat] /\ requests \in 0 .. MaxRequests
BY DEF TypeOK, TargetingTypeOK, BidTypeOK, StatusTypeOK, SlotTypeOK

(* A preset empties slots and does nothing else to them. *)
LEMMA PresetType ==
  ASSUME SlotTypeOK, NEW us
  PROVE  /\ Preset(us) \in [Slots -> Bids \cup {None}]
         /\ \A s \in Slots : Preset(us)[s] # slotTargeting[s] =>
                               Preset(us)[s] = None /\ SlotUnit[s] \in us
BY DEF SlotTypeOK, Preset

(* A win changes no targeting; it leaves the unit of its bid pending, if   *)
(* the bid is on a slot.                                                   *)
LEMMA OnBidWonSlots ==
  ASSUME SlotTypeOK, NEW b \in Bids, OnBidWon(b)
  PROVE  /\ SlotTypeOK'
         /\ UNCHANGED <<slotTargeting, targetedAdIds>>
         /\ \A u \in Units : pendingReset'[u] # pendingReset[u] =>
              u = UnitOf[b] /\ \E s \in Slots : b \in targetedAdIds[s]
<1>. DEFINE slots == {s \in Slots : b \in targetedAdIds[s]}
            entry == [slots |-> slots, due |-> slots \cap slotRenderedAt # {}]
<1>1. CASE slots = {}
  BY <1>1 DEF OnBidWon, SlotTypeOK, slotVars
<1>2. CASE slots # {}
  <2>1. /\ pendingReset' = [pendingReset EXCEPT ![UnitOf[b]] = entry]
        /\ reschedule' = TRUE
        /\ locked' = locked \ {slotTargeting[s] : s \in slots}
        /\ UNCHANGED <<slotTargeting, targetedAdIds, slotRenderedAt>>
    BY <1>2 DEF OnBidWon
  <2>2. entry \in [slots : SUBSET Slots, due : BOOLEAN]
    OBVIOUS
  <2>3. \E s \in Slots : b \in targetedAdIds[s]
    BY <1>2
  <2>. HIDE DEF entry, slots
  <2>4. pendingReset' \in [Units -> {None} \cup [slots : SUBSET Slots, due : BOOLEAN]]
    BY <2>1, <2>2 DEF SlotTypeOK
  <2>5. \A u \in Units : pendingReset'[u] # pendingReset[u] => u = UnitOf[b]
    BY <2>1 DEF SlotTypeOK
  <2>6. SlotTypeOK'
    BY <2>1, <2>4 DEF SlotTypeOK
  <2>. QED  BY <2>1, <2>3, <2>5, <2>6
<1>. QED  BY <1>1, <1>2

(* Adding a winning bid, with or without its event.                        *)
LEMMA WinningBids ==
  ASSUME TypeOK, NEW b \in Bids, addWinningBid(b)
  PROVE  /\ winning' = winning \cup {b} /\ BILLED \subseteq BILLED'
         /\ BILLED' \subseteq Bids /\ winning' \subseteq Bids
         /\ b \notin DeferBilling => b \in BILLED'
BY DEF addWinningBid, TypeOK

(* What markWinner does, whether or not it was called before.              *)
LEMMA MarkWinner ==
  ASSUME TypeOK, WinnersBilled, NEW b \in Bids, markWinner(b)
  PROVE  /\ SlotTypeOK' /\ UNCHANGED <<slotTargeting, targetedAdIds>>
         /\ WINNERS' = WINNERS \cup {b} /\ BILLED \subseteq BILLED' /\ BILLED' \subseteq Bids
         /\ won' \in {won, won \cup {b}} /\ winning' \in {winning, winning \cup {b}}
         /\ \A u \in Units : pendingReset'[u] # pendingReset[u] =>
              b \in won' /\ u = UnitOf[b] /\ \E s \in Slots : b \in targetedAdIds[s]
         /\ WinnersBilled'
<1>. SlotTypeOK
  BY TypeParts
<1>1. CASE b \in WINNERS
  BY <1>1 DEF markWinner, slotVars, SlotTypeOK, WinnersBilled, TypeOK
<1>2. CASE b \notin WINNERS
  <2>1. OnBidWon(b) /\ won' = won \cup {b} /\ addWinningBid(b) /\ WINNERS' = WINNERS \cup {b}
    BY <1>2 DEF markWinner, markWinningBid
  <2>2. WinnersBilled'
    BY <2>1, WinningBids DEF WinnersBilled
  <2>. QED  BY <2>1, <2>2, OnBidWonSlots, WinningBids
<1>. QED  BY <1>1, <1>2

-----------------------------------------------------------------------------
(* New targeting offers bids that are usable, and drops the resets that    *)
(* were pending on its ad units.                                           *)
LEMMA SetTargetingSlots ==
  ASSUME TypeOK, SameAdIds, NEW us \in SUBSET Units, SetTargeting(us)
  PROVE  /\ SlotTypeOK' /\ StatusTypeOK' /\ SameAdIds'
         /\ \A b \in Bids : status[b] = "rendered" => status'[b] = "rendered"
         /\ \A s \in Slots :
              slotTargeting'[s] # slotTargeting[s] =>
                slotTargeting'[s] = None \/ status[slotTargeting'[s]] # "rendered"
         /\ \A s \in Slots : pendingReset'[SlotUnit[s]] # None =>
              pendingReset[SlotUnit[s]] # None /\ targetedAdIds'[s] = targetedAdIds[s]
<1>. PICK best \in [us -> Bids \cup {None}] :
       /\ \A u \in us : IF Usable(u) = {} THEN best[u] = None ELSE best[u] \in Usable(u)
       /\ slotTargeting' =
            [s \in Slots |-> IF SlotUnit[s] \in us THEN best[SlotUnit[s]] ELSE slotTargeting[s]]
       /\ targetedAdIds' =
            [s \in Slots |-> IF SlotUnit[s] \in us THEN offers(SlotUnit[s], best[SlotUnit[s]])
                                                   ELSE targetedAdIds[s]]
       /\ dropPending(us)
       /\ locked' = locked \cup (IF lockAdId THEN {best[SlotUnit[s]] : s \in SlotsOf(us)} \ {None}
                                             ELSE {})
       /\ status' = [b \in Bids |-> IF b \in {best[u] : u \in us} \ {None}
                                      THEN "targetingSet" ELSE status[b]]
       /\ UNCHANGED <<bidVars, slotRenderedAt, reschedule>>
  BY DEF SetTargeting
<1>. /\ SlotTypeOK /\ StatusTypeOK /\ BidTypeOK
     /\ SlotUnit \in [Slots -> Units] /\ UnitOf \in [Bids -> Units]
  BY TypeParts, TargetingAssumption DEF TargetingAssumption
<1>1. \A u \in us : \A b \in Usable(u) : b \in Bids /\ UnitOf[b] = u /\ status[b] # "rendered"
  BY DEF Usable, BidsReceived, isBidUsable, BidTypeOK
<1>2. \A u \in us : best[u] = None \/ best[u] \in Usable(u)
  OBVIOUS
<1>3. \A u \in us : offers(u, best[u]) \subseteq Usable(u)
  BY <1>2 DEF offers
<1>4. \A s \in Slots : targetedAdIds'[s] \subseteq Bids
  BY <1>1, <1>3 DEF SlotTypeOK
<1>5. \A s \in Slots : \A b \in targetedAdIds'[s] : UnitOf[b] = SlotUnit[s]
  BY <1>1, <1>3 DEF SlotTypeOK, SameAdIds
<1>6. \A s, t \in Slots : SlotUnit[s] = SlotUnit[t] => targetedAdIds'[s] = targetedAdIds'[t]
  BY DEF SameAdIds, SlotTypeOK
<1>7. SameAdIds'
  BY <1>5, <1>6 DEF SameAdIds
<1>8. locked' \subseteq Bids
  <2>1. \A s \in SlotsOf(us) : SlotUnit[s] \in us
    BY DEF SlotsOf
  <2>. QED  BY <2>1 DEF SlotTypeOK
<1>9. \A u \in Units : pendingReset'[u] # None => pendingReset'[u] = pendingReset[u]
  BY DEF dropPending, SlotTypeOK
<1>10. pendingReset' \in [Units -> {None} \cup [slots : SUBSET Slots, due : BOOLEAN]]
  <2>1. \A u \in Units : pendingReset'[u] \in {None, pendingReset[u]}
    BY DEF dropPending
  <2>. QED  BY <2>1 DEF dropPending, SlotTypeOK
<1>11. SlotTypeOK'
  <2>1. slotTargeting' \in [Slots -> Bids \cup {None}]
    BY DEF SlotTypeOK
  <2>2. targetedAdIds' \in [Slots -> SUBSET Bids]
    BY <1>4
  <2>. QED  BY <1>8, <1>10, <2>1, <2>2 DEF SlotTypeOK
<1>12. StatusTypeOK'
  BY DEF StatusTypeOK
<1>13. \A b \in Bids : status[b] = "rendered" => status'[b] = "rendered"
  BY <1>1, <1>2 DEF StatusTypeOK
<1>14. \A s \in Slots : slotTargeting'[s] # slotTargeting[s] =>
         slotTargeting'[s] = None \/ status[slotTargeting'[s]] # "rendered"
  BY <1>1, <1>2
<1>15. \A s \in Slots : pendingReset'[SlotUnit[s]] # None => targetedAdIds'[s] = targetedAdIds[s]
  <2>. SUFFICES ASSUME NEW s \in Slots, SlotUnit[s] \in us PROVE pendingReset'[SlotUnit[s]] = None
    BY DEF SlotTypeOK
  <2>. SlotsOf(us) # {}
    BY DEF SlotsOf
  <2>. QED  BY DEF dropPending
<1>. QED  BY <1>7, <1>9, <1>11, <1>12, <1>13, <1>14, <1>15

(* The other steps of Targeting offer nothing and leave nothing pending.   *)
LEMMA TargetingSlots ==
  ASSUME TypeOK, TargetingNext, \A us \in SUBSET Units : ~SetTargeting(us)
  PROVE  /\ SlotTypeOK' /\ BidTypeOK' /\ UNCHANGED <<status, targetedAdIds>>
         /\ \A u \in Units : pendingReset'[u] # None => pendingReset[u] # None
         /\ \A s \in Slots : slotTargeting'[s] # slotTargeting[s] => slotTargeting'[s] = None
<1>. SlotTypeOK /\ BidTypeOK
  BY TypeParts
<1>. USE DEF slotVars
<1>1. ASSUME NEW a \in Auctions, StartAuction(a) PROVE BidTypeOK' /\ UNCHANGED <<slotVars, status>>
  BY <1>1 DEF StartAuction, BidTypeOK
<1>2. ASSUME NEW a \in Auctions, AuctionInit(a)
      PROVE  /\ BidTypeOK' /\ UNCHANGED <<status, targetedAdIds, pendingReset>> /\ SlotTypeOK'
             /\ \A s \in Slots : slotTargeting'[s] # slotTargeting[s] => slotTargeting'[s] = None
  BY <1>2, PresetType DEF AuctionInit, BidTypeOK, SlotTypeOK
<1>3. ASSUME NEW a \in Auctions, AuctionEnd(a) PROVE BidTypeOK' /\ UNCHANGED <<slotVars, status>>
  BY <1>3 DEF AuctionEnd, BidTypeOK
<1>4. ASSUME NEW b \in Bids, BidReceived(b) \/ Expire(b) \/ Forget(b)
      PROVE  BidTypeOK' /\ UNCHANGED <<slotVars, status>>
  BY <1>4 DEF BidReceived, Expire, Forget, BidTypeOK
<1>5. ASSUME NEW as \in SUBSET Auctions, ForgetAuctions(as)
      PROVE  BidTypeOK' /\ UNCHANGED <<slotVars, status>>
  BY <1>5 DEF ForgetAuctions, BidTypeOK
<1>6. ASSUME NEW b \in Bids, LockTimesOut(b)
      PROVE  UNCHANGED <<bidVars, status, slotTargeting, targetedAdIds, pendingReset>> /\ SlotTypeOK'
  BY <1>6 DEF LockTimesOut, SlotTypeOK
<1>7. ASSUME NEW s \in Slots, SlotRenderEnded(s)
      PROVE  /\ UNCHANGED <<bidVars, status, slotTargeting, targetedAdIds>> /\ SlotTypeOK'
             /\ \A u \in Units : pendingReset'[u] # None => pendingReset[u] # None
  <2>. DEFINE pending(u) == IF pendingReset[u] # None /\ s \in pendingReset[u].slots
                              THEN [pendingReset[u] EXCEPT !.due = TRUE] ELSE pendingReset[u]
  <2>1. pendingReset' = [u \in Units |-> pending(u)]
    BY <1>7 DEF SlotRenderEnded
  <2>2. \A u \in Units : pending(u) \in {None} \cup [slots : SUBSET Slots, due : BOOLEAN]
    BY DEF SlotTypeOK
  <2>3. \A u \in Units : pendingReset[u] = None => pending(u) = None
    OBVIOUS
  <2>. HIDE DEF pending
  <2>4. pendingReset' \in [Units -> {None} \cup [slots : SUBSET Slots, due : BOOLEAN]]
    BY <2>1, <2>2
  <2>5. \A u \in Units : pendingReset'[u] # None => pendingReset[u] # None
    BY <2>1, <2>3
  <2>. QED  BY <1>7, <2>4, <2>5 DEF SlotRenderEnded, SlotTypeOK
<1>8. ASSUME NEW s \in Slots, RenderAges(s)
      PROVE  UNCHANGED <<bidVars, status, slotTargeting, targetedAdIds, pendingReset>> /\ SlotTypeOK'
  BY <1>8 DEF RenderAges, SlotTypeOK
<1>9. ASSUME NEW u \in Units, WinAges(u)
      PROVE  /\ UNCHANGED <<bidVars, status, slotTargeting, targetedAdIds>> /\ SlotTypeOK'
             /\ \A v \in Units : pendingReset'[v] # None => pendingReset[v] # None
  <2>1. [pendingReset[u] EXCEPT !.due = TRUE] \in [slots : SUBSET Slots, due : BOOLEAN]
    BY <1>9 DEF WinAges, SlotTypeOK
  <2>2. pendingReset' = [pendingReset EXCEPT ![u] = [pendingReset[u] EXCEPT !.due = TRUE]]
    BY <1>9 DEF WinAges
  <2>3. pendingReset' \in [Units -> {None} \cup [slots : SUBSET Slots, due : BOOLEAN]]
    BY <2>1, <2>2 DEF SlotTypeOK
  <2>. QED  BY <1>9, <2>2, <2>3 DEF WinAges, SlotTypeOK
<1>10. ASSUME Reschedule
       PROVE  /\ UNCHANGED <<bidVars, status, targetedAdIds>> /\ SlotTypeOK'
              /\ \A u \in Units : pendingReset'[u] # None => pendingReset[u] # None
              /\ \A s \in Slots : slotTargeting'[s] # slotTargeting[s] => slotTargeting'[s] = None
  BY <1>10, PresetType DEF Reschedule, SlotTypeOK, furtherTimer
<1>11. UNCHANGED bidVars => BidTypeOK'
  BY DEF bidVars, BidTypeOK
<1>12. UNCHANGED slotVars => SlotTypeOK'
  BY DEF SlotTypeOK
<1>. QED  BY <1>1, <1>2, <1>3, <1>4, <1>5, <1>6, <1>7, <1>8, <1>9, <1>10, <1>11, <1>12
          DEF TargetingNext

-----------------------------------------------------------------------------
(* What every step keeps of the bids that were sold, once it is known how  *)
(* the step goes.                                                          *)
SlotsKept ==
  /\ SlotTypeOK' /\ SameAdIds' /\ PendingWon'
  /\ \A s \in Slots : slotTargeting'[s] # slotTargeting[s] =>
       slotTargeting'[s] \notin (won \cup winning) \ (deferRendering \cup Native)

LEMMA TargetingStep ==
  ASSUME IInv, TargetingNext, UNCHANGED renderVars
  PROVE  IInv' /\ SlotsKept
<1>. TypeOK /\ SameAdIds /\ PendingWon /\ None \notin Bids
  BY TargetingAssumption DEF IInv, TargetingAssumption
<1>. BidTypeOK /\ StatusTypeOK /\ SlotTypeOK /\ SlotUnit \in [Slots -> Units]
  BY TypeParts, TargetingAssumption DEF TargetingAssumption
<1>1. /\ SlotTypeOK' /\ BidTypeOK' /\ StatusTypeOK' /\ SameAdIds'
      /\ \A b \in Bids : status[b] = "rendered" => status'[b] = "rendered"
      /\ \A s \in Slots : slotTargeting'[s] # slotTargeting[s] =>
           slotTargeting'[s] = None \/ status[slotTargeting'[s]] # "rendered"
      /\ \A s \in Slots : pendingReset'[SlotUnit[s]] # None =>
           pendingReset[SlotUnit[s]] # None /\ targetedAdIds'[s] = targetedAdIds[s]
  <2>1. CASE \E us \in SUBSET Units : SetTargeting(us)
    <3>1. BidTypeOK'
      BY <2>1 DEF SetTargeting, bidVars, BidTypeOK
    <3>. QED  BY <2>1, <3>1, SetTargetingSlots
  <2>2. CASE \A us \in SUBSET Units : ~SetTargeting(us)
    <3>1. /\ SlotTypeOK' /\ BidTypeOK' /\ UNCHANGED <<status, targetedAdIds>>
          /\ \A u \in Units : pendingReset'[u] # None => pendingReset[u] # None
          /\ \A s \in Slots : slotTargeting'[s] # slotTargeting[s] => slotTargeting'[s] = None
      BY <2>2, TargetingSlots
    <3>2. SameAdIds' /\ StatusTypeOK'
      BY <3>1 DEF SameAdIds, StatusTypeOK
    <3>. QED  BY <3>1, <3>2
  <2>. QED  BY <2>1, <2>2
<1>2. UNCHANGED <<deferRendering, WINNERS, won, winning, DEFERRED_RENDER, BILLED, written, requests>>
  BY DEF renderVars
<1>3. TypeOK'
  BY <1>1, <1>2, TypeParts DEF BidTypeOK, StatusTypeOK, SlotTypeOK, TypeOK, TargetingTypeOK
<1>4. PendingWon'
  BY <1>1, <1>2 DEF PendingWon
<1>5. WinnersBilled' /\ BilledFirst'
  BY <1>2 DEF IInv, WinnersBilled, BilledFirst
<1>6. SoldIsRendered'
  BY <1>1, <1>2 DEF IInv, SoldIsRendered, TypeOK
<1>7. (suppressStaleRender => WrittenIsRendered') /\ WrittenOnce'
  BY <1>1, <1>2 DEF IInv, WrittenIsRendered, WrittenOnce
<1>8. SlotsKept
  <2>. SUFFICES ASSUME NEW s \in Slots, slotTargeting'[s] # slotTargeting[s]
                PROVE  slotTargeting'[s] \notin (won \cup winning) \ (deferRendering \cup Native)
    BY <1>1, <1>4 DEF SlotsKept
  <2>1. None \notin won \cup winning
    BY DEF TypeOK
  <2>. QED  BY <1>1, <2>1 DEF IInv, SoldIsRendered
<1>. QED  BY <1>1, <1>3, <1>4, <1>5, <1>6, <1>7, <1>8 DEF IInv

(* How a render request, a native request or message, or a bid that is     *)
(* marked as used goes: status, what is written and what is left deferred  *)
(* differ, what is sold and billed does not.                               *)
LEMMA SoldStep ==
  ASSUME IInv, NEW b \in Bids,
         UNCHANGED <<bidVars, deferRendering, slotTargeting, targetedAdIds>>, SlotTypeOK',
         won' \in {won, won \cup {b}}, winning' \in {winning, winning \cup {b}},
         \A u \in Units : pendingReset'[u] # pendingReset[u] =>
           b \in won' /\ u = UnitOf[b] /\ \E s \in Slots : b \in targetedAdIds[s],
         \A c \in Bids : status[c] = "rendered" => status'[c] = "rendered",
         b \in deferRendering \cup Native \/ status'[b] = "rendered"
  PROVE  SlotsKept /\ SoldIsRendered'
<1>. SlotUnit \in [Slots -> Units]
  BY TargetingAssumption DEF TargetingAssumption
<1>1. SameAdIds'
  BY DEF IInv, SameAdIds
<1>2. PendingWon'
  <2>. SUFFICES ASSUME NEW s \in Slots, pendingReset'[SlotUnit[s]] # None
                PROVE  targetedAdIds[s] \cap won' # {}
    BY DEF PendingWon
  <2>1. CASE pendingReset'[SlotUnit[s]] = pendingReset[SlotUnit[s]]
    BY <2>1 DEF IInv, PendingWon
  <2>2. CASE pendingReset'[SlotUnit[s]] # pendingReset[SlotUnit[s]]
    <3>1. PICK t \in Slots : b \in targetedAdIds[t]
      BY <2>2
    <3>2. b \in won' /\ SlotUnit[s] = UnitOf[b] /\ SlotUnit[t] = UnitOf[b]
      BY <2>2, <3>1 DEF IInv, SameAdIds
    <3>. QED  BY <3>1, <3>2 DEF IInv, SameAdIds
  <2>. QED  BY <2>1, <2>2
<1>3. SoldIsRendered'
  BY DEF IInv, SoldIsRendered, TypeOK
<1>. QED  BY <1>1, <1>2, <1>3 DEF SlotsKept

(* Writing the ads of some bids and marking them, and others, as rendered. *)
LEMMA WriteAds ==
  ASSUME IInv, NEW bs \in SUBSET Bids, NEW ads \in SUBSET bs, Write(ads), markBidAsRendered(bs)
  PROVE  /\ written' \in [Bids -> Nat] /\ StatusTypeOK'
         /\ suppressStaleRender => WrittenIsRendered'
         /\ WrittenOnce'
         /\ \A c \in Bids : status[c] = "rendered" \/ c \in bs => status'[c] = "rendered"
         /\ \A c \in Bids : written'[c] # written[c] => c \in ads
<1>. PICK ok \in SUBSET {b \in ads : ~suppressed(b)} :
       written' = [b \in Bids |-> IF b \in ok THEN written[b] + 1 ELSE written[b]]
  BY DEF Write
<1>. StatusTypeOK /\ written \in [Bids -> Nat]
  BY DEF IInv, TypeOK, TargetingTypeOK, StatusTypeOK
<1>. status' = [b \in Bids |-> IF b \in bs THEN "rendered" ELSE status[b]]
  BY DEF markBidAsRendered
<1>1. suppressStaleRender => \A b \in ok : status[b] # "rendered" /\ written[b] = 0
  BY DEF suppressed, IInv, WrittenIsRendered
<1>2. suppressStaleRender => \A c \in Bids : written'[c] <= 1
  BY <1>1 DEF IInv, WrittenOnce
<1>. QED  BY <1>2 DEF IInv, WrittenIsRendered, WrittenOnce, StatusTypeOK

LEMMA RenderRequestStep ==
  ASSUME IInv, NEW b \in Bids, RenderRequest(b)
  PROVE  IInv' /\ SlotsKept
<1>. DEFINE Deferred == /\ DEFERRED_RENDER' = [DEFERRED_RENDER EXCEPT ![b] = "ad"]
                        /\ UNCHANGED <<status, written>>
            Now == /\ Write({b}) /\ markBidAsRendered({b})
                   /\ DEFERRED_RENDER' = [DEFERRED_RENDER EXCEPT ![b] = None]
<1>. TypeOK /\ WinnersBilled /\ MaxRequests \in Nat
  BY RenderingAssumption DEF IInv, RenderingAssumption
<1>1. /\ markWinner(b) /\ UNCHANGED <<bidVars, deferRendering>> /\ requests' \in 0 .. MaxRequests
      /\ (b \in deferRendering /\ Deferred) \/ (b \notin deferRendering /\ Now)
  BY DEF RenderRequest, waitsForBilling, Asked, TypeOK
<1>2. /\ WinnersBilled' /\ BILLED \subseteq BILLED' /\ BILLED' \subseteq Bids
      /\ b \notin DeferBilling => b \in BILLED'
      /\ WINNERS' \subseteq Bids /\ won' \subseteq Bids /\ winning' \subseteq Bids
  BY <1>1, MarkWinner DEF WinnersBilled, TypeOK
<1>3. DEFERRED_RENDER' \in [Bids -> {None, "ad", "native"}]
  BY <1>1 DEF TypeOK
<1>4. /\ written' \in [Bids -> Nat] /\ StatusTypeOK' /\ WrittenOnce'
      /\ suppressStaleRender => WrittenIsRendered'
      /\ \A c \in Bids : status[c] = "rendered" => status'[c] = "rendered"
      /\ b \in deferRendering \/ status'[b] = "rendered"
      /\ \A c \in Bids : written'[c] # written[c] => c = b /\ b \notin deferRendering
  <2>1. CASE b \in deferRendering
    BY <1>1, <2>1 DEF IInv, TypeOK, TargetingTypeOK, StatusTypeOK, WrittenOnce, WrittenIsRendered
  <2>2. CASE b \notin deferRendering
    BY <1>1, <2>2, WriteAds
  <2>. QED  BY <2>1, <2>2
<1>5. BilledFirst'
  <2>. SUFFICES ASSUME NEW c \in Bids, written'[c] > 0, c \in deferRendering \/ c \notin DeferBilling
                PROVE  c \in BILLED'
    BY <1>1 DEF BilledFirst
  <2>1. CASE written'[c] = written[c]
    BY <1>2, <2>1 DEF IInv, BilledFirst
  <2>2. CASE written'[c] # written[c]
    BY <1>2, <1>4, <2>2
  <2>. QED  BY <2>1, <2>2
<1>6. SlotsKept /\ SoldIsRendered'
  BY <1>1, <1>4, MarkWinner, SoldStep
<1>7. TypeOK'
  <2>1. BidTypeOK' /\ SlotTypeOK' /\ deferRendering' \subseteq DeferBilling
    BY <1>1, <1>6 DEF bidVars, BidTypeOK, TypeOK, TargetingTypeOK, SlotsKept
  <2>. QED  BY <1>1, <1>2, <1>3, <1>4, <2>1
            DEF TypeOK, TargetingTypeOK, BidTypeOK, SlotTypeOK, StatusTypeOK
<1>. QED  BY <1>2, <1>4, <1>5, <1>6, <1>7 DEF IInv, SlotsKept

(* A native request or message, and a bid marked as used, write nothing.   *)
LEMMA UnwrittenStep ==
  ASSUME IInv, NEW b \in Bids, UNCHANGED <<bidVars, deferRendering, written>>,
         SlotTypeOK', UNCHANGED <<slotTargeting, targetedAdIds>>,
         WINNERS' \subseteq Bids, BILLED \subseteq BILLED', BILLED' \subseteq Bids,
         won' \in {won, won \cup {b}}, winning' \in {winning, winning \cup {b}},
         \A u \in Units : pendingReset'[u] # pendingReset[u] =>
           b \in won' /\ u = UnitOf[b] /\ \E s \in Slots : b \in targetedAdIds[s],
         status' = status \/ markBidAsRendered({b}),
         b \in Native \/ status'[b] = "rendered",
         WinnersBilled',
         DEFERRED_RENDER' \in [Bids -> {None, "ad", "native"}], requests' \in 0 .. MaxRequests
  PROVE  IInv' /\ SlotsKept
<1>1. StatusTypeOK' /\ \A c \in Bids : status[c] = "rendered" => status'[c] = "rendered"
  BY DEF IInv, TypeOK, TargetingTypeOK, StatusTypeOK, markBidAsRendered
<1>2. SlotsKept /\ SoldIsRendered'
  BY <1>1, SoldStep
<1>3. BilledFirst' /\ WrittenOnce' /\ (suppressStaleRender => WrittenIsRendered')
  BY <1>1 DEF IInv, BilledFirst, WrittenOnce, WrittenIsRendered
<1>4. TypeOK'
  <2>1. BidTypeOK' /\ deferRendering' \subseteq DeferBilling /\ written' \in [Bids -> Nat]
        /\ won' \subseteq Bids /\ winning' \subseteq Bids
    BY DEF IInv, bidVars, BidTypeOK, TypeOK, TargetingTypeOK
  <2>. QED  BY <1>1, <2>1 DEF TypeOK, TargetingTypeOK, BidTypeOK, SlotTypeOK, StatusTypeOK
<1>. QED  BY <1>2, <1>3, <1>4 DEF IInv, SlotsKept

LEMMA NativeRequestStep ==
  ASSUME IInv, NEW b \in Bids, NativeRequest(b)
  PROVE  IInv' /\ SlotsKept
<1>. TypeOK /\ WinnersBilled /\ SlotTypeOK /\ MaxRequests \in Nat
  BY TypeParts, RenderingAssumption DEF IInv, RenderingAssumption
<1>1. /\ b \in Native /\ requests' \in 0 .. MaxRequests
      /\ UNCHANGED <<bidVars, deferRendering, written>>
      /\ DEFERRED_RENDER' \in [Bids -> {None, "ad", "native"}]
      /\ status' = status \/ markBidAsRendered({b})
  BY DEF NativeRequest, Asked, TypeOK
<1>2. CASE markWinner(b)
  <2>1. /\ SlotTypeOK' /\ UNCHANGED <<slotTargeting, targetedAdIds>>
        /\ WINNERS' \subseteq Bids /\ BILLED \subseteq BILLED' /\ BILLED' \subseteq Bids
        /\ won' \in {won, won \cup {b}} /\ winning' \in {winning, winning \cup {b}}
        /\ \A u \in Units : pendingReset'[u] # pendingReset[u] =>
             b \in won' /\ u = UnitOf[b] /\ \E s \in Slots : b \in targetedAdIds[s]
        /\ WinnersBilled'
    BY <1>2, MarkWinner DEF TypeOK
  <2>. QED  BY <1>1, <2>1, UnwrittenStep
<1>3. CASE UNCHANGED <<status, slotVars, WINNERS, won, winning, BILLED>>
  <2>1. /\ SlotTypeOK' /\ WinnersBilled'
        /\ UNCHANGED <<slotTargeting, targetedAdIds, pendingReset>>
    BY <1>3 DEF slotVars, SlotTypeOK, WinnersBilled
  <2>. QED  BY <1>1, <1>3, <2>1, UnwrittenStep DEF TypeOK
<1>. QED  BY <1>2, <1>3 DEF NativeRequest

LEMMA NativeMessageStep ==
  ASSUME IInv, NEW b \in Bids, NativeMessage(b)
  PROVE  IInv' /\ SlotsKept
<1>. TypeOK /\ WinnersBilled /\ MaxRequests \in Nat
  BY RenderingAssumption DEF IInv, RenderingAssumption
<1>1. /\ b \in Native /\ requests' \in 0 .. MaxRequests /\ markWinner(b)
      /\ UNCHANGED <<bidVars, status, deferRendering, DEFERRED_RENDER, written>>
  BY DEF NativeMessage, Asked, TypeOK
<1>. QED  BY <1>1, MarkWinner, UnwrittenStep DEF TypeOK

LEMMA MarkAsUsedStep ==
  ASSUME IInv, NEW b \in Bids, MarkAsUsed(b)
  PROVE  IInv' /\ SlotsKept
<1>. TypeOK /\ WinnersBilled /\ SlotTypeOK /\ MaxRequests \in Nat
  BY TypeParts, RenderingAssumption DEF IInv, RenderingAssumption
<1>1. /\ requests' \in 0 .. MaxRequests /\ markBidAsRendered({b}) /\ addWinningBid(b)
      /\ UNCHANGED <<bidVars, deferRendering, WINNERS, DEFERRED_RENDER, written>>
      /\ \/ OnBidWon(b) /\ won' = won \cup {b}
         \/ UNCHANGED <<slotVars, won>>
  BY DEF MarkAsUsed, markWinningBid, used, Asked, TypeOK
<1>2. /\ SlotTypeOK' /\ UNCHANGED <<slotTargeting, targetedAdIds>> /\ won' \in {won, won \cup {b}}
      /\ \A u \in Units : pendingReset'[u] # pendingReset[u] =>
           b \in won' /\ u = UnitOf[b] /\ \E s \in Slots : b \in targetedAdIds[s]
  <2>1. CASE OnBidWon(b) /\ won' = won \cup {b}
    BY <2>1, OnBidWonSlots
  <2>2. CASE UNCHANGED <<slotVars, won>>
    BY <2>2 DEF slotVars, SlotTypeOK
  <2>. QED  BY <1>1, <2>1, <2>2
<1>3. status'[b] = "rendered"
  BY <1>1 DEF markBidAsRendered
<1>4. WinnersBilled'
  BY <1>1, WinningBids DEF WinnersBilled
<1>. QED  BY <1>1, <1>2, <1>3, <1>4, WinningBids, UnwrittenStep DEF TypeOK

LEMMA TriggerBillingStep ==
  ASSUME IInv, TriggerBilling
  PROVE  IInv' /\ SlotsKept
<1>. TypeOK /\ SlotTypeOK
  BY TypeParts DEF IInv
<1>. DEFINE bids == {b \in winning : AuctionOf[b] \in auctions}
<1>. PICK chosen \in {{b} : b \in bids} \cup {{b \in bids : UnitOf[b] = u} : u \in Units},
          thrower \in bids \cup {None} :
       \E done \in SUBSET (chosen \ {thrower}) :
         LET rendered == {b \in done : DEFERRED_RENDER[b] # None} IN
         /\ BILLED' = BILLED \cup done \cup (chosen \cap {thrower})
         /\ Write({b \in rendered : DEFERRED_RENDER[b] = "ad"})
         /\ markBidAsRendered(rendered)
         /\ DEFERRED_RENDER' =
              [b \in Bids |-> IF b \in rendered THEN None ELSE DEFERRED_RENDER[b]]
         /\ UNCHANGED <<bidVars, slotVars, deferRendering, WINNERS, won, winning, requests>>
  BY DEF TriggerBilling
<1>. PICK done \in SUBSET (chosen \ {thrower}) :
         LET rendered == {b \in done : DEFERRED_RENDER[b] # None} IN
         /\ BILLED' = BILLED \cup done \cup (chosen \cap {thrower})
         /\ Write({b \in rendered : DEFERRED_RENDER[b] = "ad"})
         /\ markBidAsRendered(rendered)
         /\ DEFERRED_RENDER' =
              [b \in Bids |-> IF b \in rendered THEN None ELSE DEFERRED_RENDER[b]]
         /\ UNCHANGED <<bidVars, slotVars, deferRendering, WINNERS, won, winning, requests>>
  OBVIOUS
<1>. DEFINE rendered == {b \in done : DEFERRED_RENDER[b] # None}
            ads == {b \in rendered : DEFERRED_RENDER[b] = "ad"}
<1>1. chosen \subseteq Bids
  <2>1. bids \subseteq Bids
    BY DEF TypeOK
  <2>. QED  BY <2>1
<1>2. /\ BILLED' = BILLED \cup done \cup (chosen \cap {thrower})
      /\ Write(ads) /\ markBidAsRendered(rendered)
      /\ DEFERRED_RENDER' = [b \in Bids |-> IF b \in rendered THEN None ELSE DEFERRED_RENDER[b]]
      /\ UNCHANGED <<bidVars, slotVars, deferRendering, WINNERS, won, winning, requests>>
  OBVIOUS
<1>3. rendered \in SUBSET Bids /\ ads \in SUBSET rendered /\ ads \subseteq done /\ done \subseteq Bids
  BY <1>1
<1>. HIDE DEF rendered, ads, bids
<1>4. /\ written' \in [Bids -> Nat] /\ StatusTypeOK' /\ WrittenOnce'
      /\ suppressStaleRender => WrittenIsRendered'
      /\ \A c \in Bids : status[c] = "rendered" => status'[c] = "rendered"
      /\ \A c \in Bids : written'[c] # written[c] => c \in ads
  BY <1>2, <1>3, WriteAds
<1>5. BilledFirst' /\ WinnersBilled'
  <2>1. BILLED \subseteq BILLED' /\ ads \subseteq BILLED'
    BY <1>2, <1>3
  <2>. QED  BY <1>2, <1>4, <2>1 DEF IInv, BilledFirst, WinnersBilled
<1>6. SoldIsRendered'
  BY <1>2, <1>4 DEF IInv, SoldIsRendered, TypeOK
<1>7. SlotsKept
  BY <1>2 DEF SlotsKept, slotVars, IInv, SlotTypeOK, SameAdIds, PendingWon
<1>8. TypeOK'
  <2>1. DEFERRED_RENDER' \in [Bids -> {None, "ad", "native"}]
    BY <1>2 DEF TypeOK
  <2>2. BILLED' \subseteq Bids
    BY <1>1, <1>2, <1>3 DEF TypeOK
  <2>3. BidTypeOK' /\ SlotTypeOK'
    BY <1>2, <1>7 DEF SlotsKept, bidVars, BidTypeOK, TypeOK, TargetingTypeOK
  <2>. QED  BY <1>2, <1>4, <2>1, <2>2, <2>3
            DEF TypeOK, TargetingTypeOK, BidTypeOK, SlotTypeOK, StatusTypeOK
<1>. QED  BY <1>4, <1>5, <1>6, <1>7, <1>8 DEF IInv, SlotsKept

-----------------------------------------------------------------------------
LEMMA InitHolds == Init => IInv
<1>. SUFFICES ASSUME Init PROVE IInv
  OBVIOUS
<1>1. TypeOK
  <2>1. requests \in 0 .. MaxRequests
    BY RenderingAssumption DEF Init, RenderingAssumption
  <2>2. TargetingTypeOK
    BY DEF Init, TargetingInit, TargetingTypeOK
  <2>. QED  BY <2>1, <2>2 DEF Init, TypeOK
<1>2. SameAdIds /\ PendingWon
  <2>. SlotUnit \in [Slots -> Units]
    BY TargetingAssumption DEF TargetingAssumption
  <2>. QED  BY DEF Init, TargetingInit, SameAdIds, PendingWon
<1>. QED  BY <1>1, <1>2 DEF Init, IInv, WinnersBilled, BilledFirst, SoldIsRendered,
                            WrittenIsRendered, WrittenOnce

LEMMA StepHolds == IInv /\ Next => IInv' /\ SlotsKept
BY TargetingStep, RenderRequestStep, NativeRequestStep, NativeMessageStep, MarkAsUsedStep,
   TriggerBillingStep DEF Next

LEMMA StutterHolds == IInv /\ UNCHANGED vars => IInv'
BY DEF IInv, vars, targetingVars, renderVars, TypeOK, TargetingTypeOK, SameAdIds, PendingWon,
       WinnersBilled, BilledFirst, SoldIsRendered, WrittenIsRendered, WrittenOnce

THEOREM Invariance == Spec => []IInv
<1>1. Init => IInv
  BY InitHolds
<1>2. IInv /\ [Next]_vars => IInv'
  BY StepHolds, StutterHolds
<1>. QED  BY <1>1, <1>2, PTL DEF Spec

(* Targeting, winners and billing are well typed in every state.           *)
THEOREM TypeCorrect == Spec => []TypeOK
<1>1. IInv => TypeOK
  BY DEF IInv
<1>. QED  BY <1>1, Invariance, PTL

(* With stale renders suppressed no ad is written twice, for any number of *)
(* bids, auctions, slots and requests.                                     *)
THEOREM AdsAreWrittenOnce == Spec => []WrittenOnce
<1>1. IInv => WrittenOnce
  BY DEF IInv
<1>. QED  BY <1>1, Invariance, PTL

(* What has been written was billed, unless its billing alone is deferred. *)
THEOREM AdsAreBilledFirst == Spec => []BilledFirst
<1>1. IInv => BilledFirst
  BY DEF IInv
<1>. QED  BY <1>1, Invariance, PTL

(* What was sold is not offered again, but for deferred and native bids.   *)
THEOREM BidsAreSoldOnce == Spec => SoldOnce
<1>1. IInv /\ [Next]_vars =>
        [\A s \in Slots : slotTargeting'[s] # slotTargeting[s] =>
           slotTargeting'[s] \notin (won \cup winning) \ (deferRendering \cup Native)]_vars
  BY StepHolds DEF SlotsKept
<1>. QED  BY <1>1, Invariance, PTL DEF Spec, SoldOnce

(* The resets after a win clear no targeting that names no winner.         *)
THEOREM ResetsSpareNew == Spec => ResetSparesNew
<1>1. IInv /\ [Next]_vars =>
        [Reschedule => \A s \in Slots : slotTargeting'[s] # slotTargeting[s] =>
           targetedAdIds[s] \cap won # {}]_vars
  <2>. SUFFICES ASSUME IInv, Reschedule, NEW s \in Slots, slotTargeting'[s] # slotTargeting[s]
                PROVE  targetedAdIds[s] \cap won # {}
    OBVIOUS
  <2>1. slotTargeting' = Preset(Due) /\ SlotTypeOK
    BY TypeParts DEF Reschedule, IInv
  <2>2. SlotUnit[s] \in Due
    BY <2>1, PresetType
  <2>. QED  BY <2>2 DEF Due, IInv, PendingWon
<1>. QED  BY <1>1, Invariance, PTL DEF Spec, ResetSparesNew

-----------------------------------------------------------------------------
(* Why the targeting of a winner is cleared: what a slot names was offered *)
(* for it, so that the win of that bid finds the slot; while a unit awaits *)
(* its reset the timer is set.                                             *)
NamedIsOffered == \A s \in Slots : slotTargeting[s] # None => slotTargeting[s] \in targetedAdIds[s]

TimerSet == (\E u \in Units : pendingReset[u] # None) => reschedule

WinnerPending ==
  \A b \in Bids \ Native, s \in Slots :
    b \in won \ deferRendering /\ slotTargeting[s] = b => pendingReset[SlotUnit[s]] # None

WatchInv == NamedIsOffered /\ TimerSet /\ WinnerPending

(* A win, of a bid that is offered on some slot or on none.                *)
LEMMA WinSeen ==
  ASSUME IInv, WatchInv, NEW b \in Bids, UNCHANGED deferRendering,
         (OnBidWon(b) /\ won' = won \cup {b}) \/ UNCHANGED <<slotVars, won>>
  PROVE  WatchInv'
<1>. SlotTypeOK /\ SameAdIds /\ None \notin Bids
     /\ SlotUnit \in [Slots -> Units] /\ UnitOf \in [Bids -> Units]
  BY TypeParts, TargetingAssumption DEF IInv, TargetingAssumption
<1>. DEFINE slots == {s \in Slots : b \in targetedAdIds[s]}
            entry == [slots |-> slots, due |-> slots \cap slotRenderedAt # {}]
<1>1. CASE UNCHANGED <<slotVars, won>>
  BY <1>1 DEF slotVars, WatchInv, NamedIsOffered, TimerSet, WinnerPending
<1>2. CASE OnBidWon(b) /\ won' = won \cup {b} /\ slots = {}
  <2>1. UNCHANGED slotVars
    BY <1>2 DEF OnBidWon
  <2>2. \A s \in Slots : slotTargeting[s] # b
    BY <1>2 DEF WatchInv, NamedIsOffered
  <2>. QED  BY <1>2, <2>1, <2>2 DEF slotVars, WatchInv, NamedIsOffered, TimerSet, WinnerPending
<1>3. CASE OnBidWon(b) /\ won' = won \cup {b} /\ slots # {}
  <2>1. /\ pendingReset' = [pendingReset EXCEPT ![UnitOf[b]] = entry]
        /\ reschedule' = TRUE
        /\ UNCHANGED <<slotTargeting, targetedAdIds>>
    BY <1>3 DEF OnBidWon
  <2>2. entry # None
    <3>1. entry \in [slots : SUBSET Slots, due : BOOLEAN]
      OBVIOUS
    <3>2. None \notin [slots : SUBSET Slots, due : BOOLEAN]
      BY TargetingAssumption DEF TargetingAssumption
    <3>. HIDE DEF entry
    <3>. QED  BY <3>1, <3>2
  <2>. HIDE DEF entry
  <2>3. \A u \in Units : pendingReset[u] # None \/ u = UnitOf[b] => pendingReset'[u] # None
    BY <2>1, <2>2 DEF SlotTypeOK
  <2>4. \A s \in Slots : slotTargeting[s] = b => SlotUnit[s] = UnitOf[b]
    BY DEF WatchInv, NamedIsOffered, SameAdIds
  <2>. QED  BY <1>3, <2>1, <2>3, <2>4 DEF WatchInv, NamedIsOffered, TimerSet, WinnerPending
<1>. QED  BY <1>1, <1>2, <1>3

(* The steps of Targeting: new targeting names no winner, and what ends a  *)
(* wait takes its slots' targeting along.                                  *)
LEMMA TargetingSeen ==
  ASSUME IInv, WatchInv, TargetingNext, UNCHANGED renderVars
  PROVE  WatchInv'
<1>. SlotTypeOK /\ TypeOK /\ SlotUnit \in [Slots -> Units] /\ None \notin Bids
     /\ None \notin [slots : SUBSET Slots, due : BOOLEAN]
  BY TypeParts, TargetingAssumption DEF IInv, TargetingAssumption
<1>. UNCHANGED <<won, deferRendering>>
  BY DEF renderVars
<1>. USE DEF slotVars, WatchInv
<1>1. ASSUME UNCHANGED <<targetedAdIds, pendingReset, reschedule>>,
             \A s \in Slots : slotTargeting'[s] \in {slotTargeting[s], None}
      PROVE  WatchInv'
  BY <1>1 DEF NamedIsOffered, TimerSet, WinnerPending
<1>2. ASSUME NEW a \in Auctions, AuctionInit(a) PROVE WatchInv'
  BY <1>1, <1>2, PresetType DEF AuctionInit
<1>3. ASSUME NEW us \in SUBSET Units, SetTargeting(us) PROVE WatchInv'
  <2>1. PICK best \in [us -> Bids \cup {None}] :
          /\ \A u \in us : IF Usable(u) = {} THEN best[u] = None ELSE best[u] \in Usable(u)
          /\ slotTargeting' =
               [s \in Slots |-> IF SlotUnit[s] \in us THEN best[SlotUnit[s]] ELSE slotTargeting[s]]
          /\ targetedAdIds' =
               [s \in Slots |-> IF SlotUnit[s] \in us THEN offers(SlotUnit[s], best[SlotUnit[s]])
                                                      ELSE targetedAdIds[s]]
          /\ dropPending(us)
          /\ reschedule' = reschedule
    BY <1>3 DEF SetTargeting
  <2>2. \A s \in Slots : SlotUnit[s] \in us /\ slotTargeting'[s] # None =>
          slotTargeting'[s] \in targetedAdIds'[s] /\ status[slotTargeting'[s]] # "rendered"
    BY <2>1 DEF offers, Usable, isBidUsable
  <2>3. /\ \A s \in Slots : SlotUnit[s] \notin us =>
             /\ slotTargeting'[s] = slotTargeting[s]
             /\ targetedAdIds'[s] = targetedAdIds[s]
             /\ pendingReset'[SlotUnit[s]] = pendingReset[SlotUnit[s]]
        /\ \A u \in Units : pendingReset'[u] # None => pendingReset[u] # None
    BY <2>1 DEF dropPending
  <2>4. NamedIsOffered' /\ TimerSet'
    BY <2>1, <2>2, <2>3 DEF NamedIsOffered, TimerSet
  <2>5. WinnerPending'
    <3>. SUFFICES ASSUME NEW b \in Bids \ Native, NEW s \in Slots,
                         b \in won \ deferRendering, slotTargeting'[s] = b
                  PROVE  pendingReset'[SlotUnit[s]] # None
      BY DEF WinnerPending
    <3>1. SlotUnit[s] \notin us
      BY <2>2 DEF IInv, SoldIsRendered
    <3>. QED  BY <2>3, <3>1 DEF WinnerPending
  <2>. QED  BY <2>4, <2>5
<1>4. ASSUME NEW s \in Slots, SlotRenderEnded(s) PROVE WatchInv'
  <2>1. \A u \in Units : pendingReset'[u] # None <=> pendingReset[u] # None
    <3>. SUFFICES ASSUME NEW u \in Units, pendingReset[u] # None PROVE pendingReset'[u] # None
      BY <1>4 DEF SlotRenderEnded
    <3>1. [pendingReset[u] EXCEPT !.due = TRUE] \in [slots : SUBSET Slots, due : BOOLEAN]
      BY DEF SlotTypeOK
    <3>. QED  BY <1>4, <3>1 DEF SlotRenderEnded
  <2>. QED  BY <1>4, <2>1 DEF SlotRenderEnded, NamedIsOffered, TimerSet, WinnerPending
<1>5. ASSUME NEW u \in Units, WinAges(u) PROVE WatchInv'
  <2>1. \A v \in Units : pendingReset'[v] # None <=> pendingReset[v] # None
    <3>1. [pendingReset[u] EXCEPT !.due = TRUE] \in [slots : SUBSET Slots, due : BOOLEAN]
      BY <1>5 DEF WinAges, SlotTypeOK
    <3>. HIDE DEF SlotTypeOK
    <3>2. pendingReset' = [pendingReset EXCEPT ![u] = [pendingReset[u] EXCEPT !.due = TRUE]]
      BY <1>5 DEF WinAges
    <3>. QED  BY <1>5, <3>1, <3>2 DEF WinAges, SlotTypeOK
  <2>. QED  BY <1>5, <2>1 DEF WinAges, NamedIsOffered, TimerSet, WinnerPending
<1>6. ASSUME Reschedule PROVE WatchInv'
  <2>1. \A s \in Slots : slotTargeting'[s] = (IF SlotUnit[s] \in Due THEN None ELSE slotTargeting[s])
    BY <1>6 DEF Reschedule, Preset
  <2>2. \A u \in Units : pendingReset'[u] = (IF u \in Due THEN None ELSE pendingReset[u])
    BY <1>6 DEF Reschedule
  <2>3. TimerSet'
    BY <1>6, <2>2 DEF Reschedule, TimerSet, furtherTimer
  <2>. QED  BY <1>6, <2>1, <2>2, <2>3 DEF Reschedule, NamedIsOffered, WinnerPending
<1>7. ASSUME UNCHANGED slotVars PROVE WatchInv'
  BY <1>1, <1>7
<1>8. ASSUME NEW b \in Bids, LockTimesOut(b) PROVE WatchInv'
  BY <1>1, <1>8 DEF LockTimesOut
<1>9. ASSUME NEW s \in Slots, RenderAges(s) PROVE WatchInv'
  BY <1>1, <1>9 DEF RenderAges
<1>10. \/ UNCHANGED slotVars
       \/ \E a \in Auctions : AuctionInit(a)
       \/ \E b \in Bids : LockTimesOut(b)
       \/ \E us \in SUBSET Units : SetTargeting(us)
       \/ \E s \in Slots : SlotRenderEnded(s) \/ RenderAges(s)
       \/ \E u \in Units : WinAges(u)
       \/ Reschedule
  BY DEF TargetingNext, StartAuction, AuctionEnd, BidReceived, Expire, Forget, ForgetAuctions
<1>. QED  BY <1>2, <1>3, <1>4, <1>5, <1>6, <1>7, <1>8, <1>9, <1>10

LEMMA StepSeen ==
  ASSUME IInv, WatchInv, [Next]_vars
  PROVE  WatchInv'
<1>1. CASE TargetingNext /\ UNCHANGED renderVars
  BY <1>1, TargetingSeen
<1>2. ASSUME NEW b \in Bids,
             RenderRequest(b) \/ NativeRequest(b) \/ NativeMessage(b) \/ MarkAsUsed(b)
      PROVE  WatchInv'
  <2>1. UNCHANGED deferRendering
    BY <1>2 DEF RenderRequest, NativeRequest, NativeMessage, MarkAsUsed
  <2>2. (OnBidWon(b) /\ won' = won \cup {b}) \/ UNCHANGED <<slotVars, won>>
    BY <1>2 DEF RenderRequest, NativeRequest, NativeMessage, MarkAsUsed, markWinner, markWinningBid
  <2>. QED  BY <2>1, <2>2, WinSeen
<1>3. ASSUME UNCHANGED <<slotVars, won, deferRendering>>
      PROVE  WatchInv'
  BY <1>3 DEF slotVars, WatchInv, NamedIsOffered, TimerSet, WinnerPending
<1>4. CASE TriggerBilling \/ UNCHANGED vars
  BY <1>3, <1>4 DEF TriggerBilling, vars, targetingVars, renderVars, slotVars
<1>. QED  BY <1>1, <1>2, <1>4 DEF Next

(* A slot that still names a winner awaits its reset, for any number of    *)
(* slots on an ad unit, wins at once and resets that are dropped.          *)
THEOREM WinnersAreWatched == Spec => []WinnerWatched
<1>1. Init => WatchInv
  BY TargetingAssumption
     DEF TargetingAssumption, Init, TargetingInit, WatchInv, NamedIsOffered, TimerSet, WinnerPending
<1>2. IInv /\ WatchInv /\ [Next]_vars => WatchInv'
  BY StepSeen
<1>3. WatchInv => WinnerWatched
  <2>. SlotUnit \in [Slots -> Units]
    BY TargetingAssumption DEF TargetingAssumption
  <2>. QED  BY DEF WatchInv, TimerSet, WinnerPending, WinnerWatched
<1>. QED  BY <1>1, <1>2, <1>3, Invariance, PTL DEF Spec
=============================================================================
