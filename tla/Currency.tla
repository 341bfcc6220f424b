------------------------------ MODULE Currency ------------------------------
(***************************************************************************)
(* The currency module (modules/currency.ts) under several auctions: when  *)
(* rates are fetched, which bids wait for them, and when the auctions that *)
(* wait for those bids (the responsesReady hook) may end.                   *)
(*                                                                         *)
(* Every bid here is in a currency that has to be converted.  An auction   *)
(* has one adapter, which is done after its bids.                           *)
(***************************************************************************)
EXTENDS Integers, FiniteSets

CONSTANTS
  Auctions, Bids,
  AuctionOf,   \* [Bids -> Auctions]
  Configs,     \* what the page passes to setConfig: "rates" (given), "file",
               \* "defaults" (file, with defaultRates), "off" (no adServerCurrency)
  Delay,       \* auctionDelay > 0
  Failures,    \* the rates file may fail to load, or to parse
  MaxId        \* bound on ratesRequestId

ASSUME CurrencyAssumption ==
  /\ AuctionOf \in [Bids -> Auctions]
  /\ Configs \subseteq {"rates", "file", "defaults", "off"}
  /\ Delay \in BOOLEAN /\ Failures \in BOOLEAN
  /\ MaxId \in Nat

VARIABLES
  enabled,     \* currencySupportEnabled
  loaded,      \* currencyRatesLoaded
  needCall,    \* needToCallForCurrencyFile
  useDefaults, \* shouldUseDefaults
  rates,       \* currencyRates: "none", "given", "default" or "file"
  requestId,   \* ratesRequestId
  inflight,    \* ids of the requests for the rates file in flight
  gate,        \* which responseReady this is: resetCurrency makes a new one
  opened,      \* those that are resolved; 0 stands for no gate at all
  phase,       \* of each auction: "new", "delayed", "pending", "open", or how it
               \* ended: "done", "timeout"
  bid,         \* of each bid: "none", "queued", "passed" on, "rejected"
  signal,      \* adapterDone of each auction: "none", "waiting", "ran"
  on           \* the gate it waits on

settings == <<enabled, needCall, useDefaults, rates>>
fetching == <<loaded, requestId, inflight>>
gates == <<gate, opened>>
vars == <<settings, fetching, gates, phase, bid, signal, on>>

-----------------------------------------------------------------------------
bidResponseQueue == {b \in Bids : bid[b] = "queued"}

(* processBidResponseQueue: the queued bids are converted, and passed on,   *)
(* or rejected for want of rates; the gate opens.                           *)
ProcessWith(queue, table) ==
  /\ bid' = [b \in Bids |->
               IF b \in queue THEN IF table = "none" THEN "rejected" ELSE "passed"
               ELSE bid[b]]
  /\ opened' = opened \cup {gate}

processBidResponseQueue == ProcessWith(bidResponseQueue, rates')

\* delayedAuctions.resume()
resume == phase' = [a \in Auctions |-> IF phase[a] = "delayed" THEN "pending" ELSE phase[a]]

(* loadRates, when the file is needed: a new request for it. *)
fetchRates ==
  /\ requestId < MaxId
  /\ loaded' = FALSE
  /\ requestId' = requestId + 1
  /\ inflight' = inflight \cup {requestId'}
  /\ UNCHANGED <<bid, opened>>

-----------------------------------------------------------------------------
Init ==
  /\ enabled = FALSE /\ loaded = FALSE
  /\ needCall = TRUE /\ useDefaults = TRUE /\ rates = "none"
  /\ requestId = 0 /\ inflight = {}
  /\ gate = 1 /\ opened = {0}
  /\ phase = [a \in Auctions |-> "new"]
  /\ bid = [b \in Bids |-> "none"]
  /\ signal = [a \in Auctions |-> "none"]
  /\ on = [a \in Auctions |-> 0]

(* setConfig with rates. *)
SetRates ==
  /\ "rates" \in Configs /\ requestId < MaxId
  /\ enabled' = TRUE
  /\ rates' = "given" /\ useDefaults' = FALSE
  /\ loaded' = TRUE /\ needCall' = FALSE
  /\ requestId' = requestId + 1
  /\ IF enabled THEN UNCHANGED <<bid, opened>> ELSE processBidResponseQueue
  /\ UNCHANGED <<inflight, gate, phase, signal, on>>

(* setConfig without rates, with or without defaultRates. *)
SetFile ==
  \E defaults \in BOOLEAN :
    LET use == useDefaults /\ defaults IN
    /\ IF defaults THEN "defaults" \in Configs ELSE "file" \in Configs
    /\ enabled' = TRUE
    /\ rates' = IF use THEN "default" ELSE rates
    /\ IF enabled
         THEN /\ loaded' = (loaded \/ use)
              /\ UNCHANGED <<needCall, requestId, inflight, bid, opened>>
         ELSE needCall' = FALSE /\ fetchRates
    /\ UNCHANGED <<useDefaults, gate, phase, signal, on>>

(* setConfig without adServerCurrency: resetCurrency.  The bids that are    *)
(* queued stay where they are.                                              *)
Disable ==
  /\ "off" \in Configs /\ enabled /\ requestId < MaxId
  /\ enabled' = FALSE /\ loaded' = FALSE
  /\ needCall' = TRUE /\ useDefaults' = TRUE /\ rates' = "none"
  /\ requestId' = requestId + 1
  /\ gate' = gate + 1
  /\ UNCHANGED <<inflight, opened, phase, bid, signal, on>>

-----------------------------------------------------------------------------
\* Faulty: an answer counts whichever request it answers.
notSuperseded(i) == FALSE
isSuperseded(i) == i # requestId

\* Faulty: a failure, or a superseded answer, leaves what waits to the next request.
leaveWaiting == UNCHANGED <<bid, opened, phase>>
goOn == processBidResponseQueue /\ resume

(* A request for the file is answered. *)
RatesLoaded(i) ==
  /\ i \in inflight /\ ~isSuperseded(i)
  /\ inflight' = inflight \ {i}
  /\ rates' = "file" /\ useDefaults' = FALSE
  /\ loaded' = TRUE
  /\ goOn
  /\ UNCHANGED <<enabled, needCall, requestId, gate, signal, on>>

(* ratesLoadFailed: the next auction tries again. *)
RatesFailed(i) ==
  /\ Failures
  /\ i \in inflight /\ ~isSuperseded(i)
  /\ inflight' = inflight \ {i}
  /\ loaded' = TRUE /\ needCall' = TRUE
  /\ UNCHANGED rates
  /\ goOn
  /\ UNCHANGED <<enabled, useDefaults, requestId, gate, signal, on>>

(* ratesRequestSuperseded, on an answer or a failure. *)
RatesSuperseded(i) ==
  /\ i \in inflight /\ isSuperseded(i)
  /\ inflight' = inflight \ {i}
  /\ UNCHANGED <<settings, loaded, requestId>>
  /\ IF loaded THEN goOn ELSE UNCHANGED <<bid, opened, phase>>
  /\ UNCHANGED <<gate, signal, on>>

-----------------------------------------------------------------------------
(* requestBidsHook. *)
RequestBids(a) ==
  /\ phase[a] = "new"
  /\ phase' = [phase EXCEPT ![a] =
                 IF enabled /\ ~loaded /\ Delay THEN "delayed" ELSE "pending"]
  /\ UNCHANGED <<settings, fetching, gates, bid, signal, on>>

DelayOver(a) ==
  /\ phase[a] = "delayed"
  /\ phase' = [phase EXCEPT ![a] = "pending"]
  /\ UNCHANGED <<settings, fetching, gates, bid, signal, on>>

(* AUCTION_INIT. *)
AuctionInit(a) ==
  /\ phase[a] = "pending"
  /\ phase' = [phase EXCEPT ![a] = "open"]
  /\ UNCHANGED <<enabled, useDefaults, rates, gate, signal, on>>
  /\ IF ~enabled
       THEN UNCHANGED <<needCall, fetching, bid, opened>>
       ELSE IF needCall
         THEN needCall' = FALSE /\ fetchRates
         ELSE processBidResponseQueue /\ UNCHANGED <<needCall, fetching>>

(* addBidResponseHook, for a bid in time or late. *)
AddBidResponse(b) ==
  LET a == AuctionOf[b] IN
  /\ phase[a] \in {"open", "done", "timeout"} /\ signal[a] = "none"
  /\ bid[b] = "none"
  /\ UNCHANGED <<settings, fetching, gate, phase, signal, on>>
  /\ IF enabled /\ loaded
       THEN ProcessWith(bidResponseQueue \cup {b}, rates)
       ELSE /\ bid' = [bid EXCEPT ![b] = IF enabled THEN "queued" ELSE "passed"]
            /\ UNCHANGED opened

(* The adapter is done; its adapterDone waits on the gate there is now.     *)
AdapterSignals(a) ==
  /\ phase[a] \in {"open", "done", "timeout"} /\ signal[a] = "none"
  /\ signal' = [signal EXCEPT ![a] = "waiting"]
  /\ on' = [on EXCEPT ![a] = IF enabled THEN gate ELSE 0]
  /\ UNCHANGED <<settings, fetching, gates, phase, bid>>

(* adapterDone: the auction ends unless it has. *)
AdapterDone(a) ==
  /\ signal[a] = "waiting" /\ on[a] \in opened
  /\ signal' = [signal EXCEPT ![a] = "ran"]
  /\ phase' = [phase EXCEPT ![a] = IF @ = "open" THEN "done" ELSE @]
  /\ UNCHANGED <<settings, fetching, gates, bid, on>>

rejectOnAuctionTimeout(a) ==
  bid' = [b \in Bids |-> IF enabled /\ b \in bidResponseQueue /\ AuctionOf[b] = a
                         THEN "rejected" ELSE bid[b]]

(* The auction's timer. *)
TimerFires(a) ==
  /\ phase[a] = "open"
  /\ phase' = [phase EXCEPT ![a] = "timeout"]
  /\ rejectOnAuctionTimeout(a)
  /\ UNCHANGED <<settings, fetching, gates, signal, on>>

-----------------------------------------------------------------------------
Configure == SetRates \/ SetFile \/ Disable

FileStep(i) == RatesLoaded(i) \/ RatesFailed(i) \/ RatesSuperseded(i)

AuctionStep(a) ==
  \/ RequestBids(a) \/ DelayOver(a) \/ AuctionInit(a)
  \/ AdapterSignals(a) \/ AdapterDone(a) \/ TimerFires(a)

Next ==
  \/ Configure
  \/ \E i \in inflight : FileStep(i)
  \/ \E a \in Auctions : AuctionStep(a)
  \/ \E b \in Bids : AddBidResponse(b)

(* Requests for the file settle, and promise reactions run. *)
Fairness ==
  /\ \A i \in 1..MaxId : WF_vars(FileStep(i))
  /\ \A a \in Auctions : WF_vars(AdapterDone(a))

Spec == Init /\ [][Next]_vars
FairSpec == Spec /\ Fairness

-----------------------------------------------------------------------------
TypeOK ==
  /\ enabled \in BOOLEAN /\ loaded \in BOOLEAN
  /\ needCall \in BOOLEAN /\ useDefaults \in BOOLEAN
  /\ rates \in {"none", "given", "default", "file"}
  /\ requestId \in 0..MaxId /\ inflight \subseteq 1..requestId
  /\ gate \in Nat \ {0} /\ opened \subseteq 0..gate
  /\ phase \in [Auctions -> {"new", "delayed", "pending", "open", "done", "timeout"}]
  /\ bid \in [Bids -> {"none", "queued", "passed", "rejected"}]
  /\ signal \in [Auctions -> {"none", "waiting", "ran"}]
  /\ on \in [Auctions -> 0..gate]

(* Who waits for rates: bids in the queue, auctions that are delayed, and   *)
(* auctions whose adapterDone waits on a gate.                              *)
SomebodyWaits ==
  \/ bidResponseQueue # {}
  \/ \E a \in Auctions : \/ phase[a] = "delayed"
                         \/ signal[a] = "waiting" /\ on[a] \notin opened

\* The page has turned the module off, maybe on again.
TurnedOff == gate > 1

(* "let queued bids and delayed auctions continue ...; otherwise a newer    *)
(* request is responsible for that": whoever waits for rates, a request is  *)
(* in flight that will let it go on when it settles.  Turning the module    *)
(* off breaks it: the queue stays, and no request is made.                  *)
NobodyStranded ==
  ~TurnedOff /\ SomebodyWaits => \E i \in inflight : i = requestId \/ loaded

(* Rates given by the page stay until it turns the module off: no request   *)
(* that was in flight, and no later defaultRates, replaces them.            *)
GivenRatesStay == [][rates = "given" => rates' = "given" \/ ~enabled']_vars

Begins(a) == phase[a] = "pending" /\ phase'[a] = "open"
TimesOut(a) == phase[a] = "open" /\ phase'[a] = "timeout"

(* No queued bid is given up while rates may still come: it is rejected     *)
(* when its own auction times out, or for want of rates when no request is  *)
(* left that could bring any. An answer to a request that was superseded,   *)
(* before or after the module was turned off and on, does not reject it,    *)
(* nor does the timeout of another auction. The one event that does so too  *)
(* early is the AUCTION_INIT of an auction, which runs the queue while the  *)
(* file is in flight.                                                       *)
RejectedForCause ==
  [][\A b \in bidResponseQueue : bid'[b] = "rejected" =>
       \/ TimesOut(AuctionOf[b])
       \/ /\ rates' = "none"
          /\ requestId' \notin inflight' \/ \E a \in Auctions : Begins(a)]_vars

(* "let queued bids ... continue": no bid stays in the queue for ever, and  *)
(* no auction waits for ever on a gate, the timers of auctions left aside.  *)
WaitsEnd ==
  /\ \A b \in Bids : bid[b] = "queued" ~> bid[b] # "queued" \/ TurnedOff
  /\ \A a \in Auctions : signal[a] = "waiting" ~> signal[a] = "ran" \/ TurnedOff
=============================================================================
