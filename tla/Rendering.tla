----------------------------- MODULE Rendering -----------------------------
(***************************************************************************)
(* What happens to a bid whose ad is asked for: src/adRendering.ts, the    *)
(* messages of src/secureCreatives.js, and markWinningBidAsUsed and        *)
(* triggerBilling of src/prebid.ts, on top of Targeting.                   *)
(*                                                                         *)
(* A request names any bid that findBidByAdId finds. Abstracted: what is   *)
(* written and how; writing an ad may fail, which goes unnoticed here.     *)
(***************************************************************************)
EXTENDS Targeting

CONSTANTS
  DeferBilling,           \* bids of ad units with deferBilling
  Native,                 \* bids whose creatives ask for assets
  suppressStaleRender,
  suppressExpiredRender,
  MaxRequests             \* how often ads are asked for or marked as used

ASSUME RenderingAssumption ==
  /\ DeferBilling \subseteq Bids /\ Native \subseteq Bids
  /\ {suppressStaleRender, suppressExpiredRender} \subseteq BOOLEAN
  /\ MaxRequests \in Nat

VARIABLES
  deferRendering,    \* bids whose rendering waits for billing: fixed as they come in
  WINNERS,           \* bids that markWinner has dealt with
  won,               \* bids BID_WON was emitted for
  winning,           \* _winningBids of the auctions
  DEFERRED_RENDER,   \* of each bid: None, or what waits, an "ad" or a "native" reply
  BILLED,
  written,           \* how often the ad of each bid was written
  requests           \* requests so far

renderVars ==
  <<deferRendering, WINNERS, won, winning, DEFERRED_RENDER, BILLED, written, requests>>
vars == <<targetingVars, renderVars>>

TypeOK ==
  /\ TargetingTypeOK
  /\ deferRendering \subseteq DeferBilling
  /\ WINNERS \subseteq Bids /\ won \subseteq Bids /\ winning \subseteq Bids /\ BILLED \subseteq Bids
  /\ DEFERRED_RENDER \in [Bids -> {None, "ad", "native"}]
  /\ written \in [Bids -> Nat]
  /\ requests \in 0 .. MaxRequests

Init ==
  /\ TargetingInit
  /\ deferRendering \in SUBSET DeferBilling
  /\ WINNERS = {} /\ won = {} /\ winning = {} /\ BILLED = {}
  /\ DEFERRED_RENDER = [b \in Bids |-> None]
  /\ written = [b \in Bids |-> 0]
  /\ requests = 0

-----------------------------------------------------------------------------
Asked == requests < MaxRequests /\ requests' = requests + 1

\* Faulty: a bid that is late is written all the same.
suppressedIfExpired(b) == suppressExpiredRender /\ b \in expired
suppressed(b) ==
  \/ suppressStaleRender /\ status[b] = "rendered"
  \/ suppressExpiredRender /\ b \in expired

(* What the render functions of bs write, or fail to. *)
Write(bs) ==
  \E ok \in SUBSET {b \in bs : ~suppressed(b)} :
    written' = [b \in Bids |-> IF b \in ok THEN written[b] + 1 ELSE written[b]]

markBidAsRendered(bs) == status' = [b \in Bids |-> IF b \in bs THEN "rendered" ELSE status[b]]

addWinningBid(b) ==
  /\ winning' = winning \cup {b}
  /\ BILLED' = BILLED \cup ({b} \ DeferBilling)

markWinningBid(b) == OnBidWon(b) /\ won' = won \cup {b} /\ addWinningBid(b)

markWinner(b) ==
  /\ WINNERS' = WINNERS \cup {b}
  /\ IF b \in WINNERS THEN UNCHANGED <<slotVars, won, winning, BILLED>>
                      ELSE markWinningBid(b)

\* Faulty: rendering does not wait for billing.
waitsForNothing(b) == FALSE
waitsForBilling(b) == b \in deferRendering

(* A creative or the page asks for an ad: deferRendering with the function  *)
(* of handleRender.                                                        *)
RenderRequest(b) ==
  /\ b \in received /\ Asked
  /\ IF waitsForBilling(b)
       THEN /\ DEFERRED_RENDER' = [DEFERRED_RENDER EXCEPT ![b] = "ad"]
            /\ UNCHANGED <<status, written>>
       ELSE /\ Write({b})
            /\ markBidAsRendered({b})
            /\ DEFERRED_RENDER' = [DEFERRED_RENDER EXCEPT ![b] = None]
  /\ markWinner(b)
  /\ UNCHANGED <<bidVars, deferRendering>>

(* A native creative asks for assets; the reply may throw, and then it is   *)
(* left to be sent and the bid has not won.                                *)
NativeRequest(b) ==
  /\ b \in received \cap Native /\ Asked
  /\ \/ /\ waitsForBilling(b)
        /\ DEFERRED_RENDER' = [DEFERRED_RENDER EXCEPT ![b] = "native"]
        /\ markWinner(b)
        /\ UNCHANGED status
     \/ /\ ~waitsForBilling(b)
        /\ markBidAsRendered({b})
        /\ DEFERRED_RENDER' = [DEFERRED_RENDER EXCEPT ![b] = None]
        /\ markWinner(b)
     \/ /\ ~waitsForBilling(b)
        /\ DEFERRED_RENDER' = [DEFERRED_RENDER EXCEPT ![b] = "native"]
        /\ UNCHANGED <<status, slotVars, WINNERS, won, winning, BILLED>>
  /\ UNCHANGED <<bidVars, deferRendering, written>>

(* It reports a click, an impression or its height. *)
NativeMessage(b) ==
  /\ b \in received \cap Native /\ Asked
  /\ markWinner(b)
  /\ UNCHANGED <<bidVars, status, deferRendering, DEFERRED_RENDER, written>>

-----------------------------------------------------------------------------
(* The page bills winning bids, by ad id or by ad unit. A native reply that *)
(* throws ends it there: done are the bids before it.                      *)
TriggerBilling ==
  LET bids == {b \in winning : AuctionOf[b] \in auctions} IN
  \E chosen \in {{b} : b \in bids} \cup {{b \in bids : UnitOf[b] = u} : u \in Units},
     thrower \in bids \cup {None} :
    \E done \in SUBSET (chosen \ {thrower}) :
      LET rendered == {b \in done : DEFERRED_RENDER[b] # None} IN
      /\ \/ thrower = None /\ done = chosen
         \/ thrower \in chosen /\ DEFERRED_RENDER[thrower] = "native"
      /\ BILLED' = BILLED \cup done \cup (chosen \cap {thrower})
      /\ Write({b \in rendered : DEFERRED_RENDER[b] = "ad"})
      /\ markBidAsRendered(rendered)
      /\ DEFERRED_RENDER' =
           [b \in Bids |-> IF b \in rendered THEN None ELSE DEFERRED_RENDER[b]]
      /\ UNCHANGED <<bidVars, slotVars, deferRendering, WINNERS, won, winning, requests>>

\* Faulty: nothing tells that the bid has been used.
usedUntold(b) == UNCHANGED status
used(b) == markBidAsRendered({b})

(* The page shows the ad itself and says so: BID_WON or not. *)
MarkAsUsed(b) ==
  /\ b \in received /\ Asked
  /\ \/ markWinningBid(b)
     \/ addWinningBid(b) /\ UNCHANGED <<slotVars, won>>
  /\ used(b)
  /\ UNCHANGED <<bidVars, deferRendering, WINNERS, DEFERRED_RENDER, written>>

Next ==
  \/ TargetingNext /\ UNCHANGED renderVars
  \/ \E b \in Bids : RenderRequest(b) \/ NativeRequest(b) \/ NativeMessage(b) \/ MarkAsUsed(b)
  \/ TriggerBilling

Spec == Init /\ [][Next]_vars

(* Timers fire; the page, the ad server and the creatives owe nothing. *)
FairSpec ==
  /\ Spec
  /\ WF_vars(Reschedule /\ UNCHANGED renderVars)
  /\ \A u \in Units : WF_vars(WinAges(u) /\ UNCHANGED renderVars)

-----------------------------------------------------------------------------
(* With stale renders suppressed no ad is written twice, whatever is asked *)
(* for while its bid is deferred, billed, marked as used or offered anew:  *)
(* the status that says so is never taken back.                            *)
WrittenOnce == suppressStaleRender => \A b \in Bids : written[b] <= 1

(* No ad is shown for free: what has been written was billed, unless the   *)
(* page has deferred the billing and not the rendering.                    *)
BilledFirst ==
  \A b \in Bids : written[b] > 0 /\ (b \in deferRendering \/ b \notin DeferBilling) => b \in BILLED

(* A bid that has won, or was marked as used, is not offered to the ad     *)
(* server again, in this or a later auction, unless nothing of it has been *)
(* rendered yet.                                                           *)
SoldOnce ==
  [][\A s \in Slots :
       slotTargeting'[s] # slotTargeting[s] =>
         slotTargeting'[s] \notin (won \cup winning) \ (deferRendering \cup Native)]_vars

(* What the timer takes out of a slot has been won: targeting that was set *)
(* after a win is not cleared because of that win.                         *)
ResetSparesNew ==
  [][Reschedule =>
       \A s \in Slots : slotTargeting'[s] # slotTargeting[s] => targetedAdIds[s] \cap won # {}]_vars

(* A slot that still names a bid that has won is going to be cleared: its  *)
(* unit awaits a reset, and the timer that looks for it is set.            *)
WinnerWatched ==
  \A b \in Bids \ Native, s \in Slots :
    b \in won \ deferRendering /\ slotTargeting[s] = b =>
      reschedule /\ pendingReset[SlotUnit[s]] # None

(* A slot does not keep the targeting of a bid that has won: it is cleared *)
(* when the slot has rendered or 100 ms later.                             *)
WinnerCleared ==
  \A b \in Bids \ Native, s \in Slots :
    b \in won \ deferRendering /\ slotTargeting[s] = b ~> slotTargeting[s] # b
=============================================================================
