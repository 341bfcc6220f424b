-------------------------- MODULE Currency_proofs --------------------------
(***************************************************************************)
(* Theorems about Currency.                                                *)
(***************************************************************************)
EXTENDS Currency, TLAPS

BidStates == {"none", "queued", "passed", "rejected"}
Phases == {"new", "delayed", "pending", "open", "done", "timeout"}

\* While rates are not loaded, the latest request for them is in flight.
LatestInFlight == enabled => loaded \/ requestId \in inflight

\* While the gate is closed, some request in flight will open it.
GateWillOpen == enabled /\ gate \notin opened => \E i \in inflight : i = requestId \/ loaded

\* There is one gate, and nobody waits before the module is enabled.
OneGate ==
  /\ 0 \in opened
  /\ \A a \in Auctions : on[a] \in {0, gate}
  /\ ~enabled => /\ bidResponseQueue = {}
                 /\ \A a \in Auctions : phase[a] # "delayed" /\ on[a] = 0

\* What holds until the page turns the module off.
Freed == SomebodyWaits => \E i \in inflight : i = requestId \/ loaded
WhileOn == LatestInFlight /\ GateWillOpen /\ OneGate /\ Freed

IInv == TypeOK /\ (TurnedOff \/ WhileOn)

-----------------------------------------------------------------------------
(* What a new request id leaves true of the ids in flight. *)
LEMMA NewId ==
  ASSUME TypeOK, requestId < MaxId, requestId' = requestId + 1
  PROVE  /\ requestId' \in 0..MaxId
         /\ inflight \subseteq 1..requestId'
         /\ inflight \cup {requestId'} \subseteq 1..requestId'
BY CurrencyAssumption DEF CurrencyAssumption, TypeOK

(* The queue's processing leaves no bid in it, and opens the gate. *)
LEMMA ProcessEmptiesQueue ==
  ASSUME TypeOK, processBidResponseQueue
  PROVE  /\ bidResponseQueue' = {}
         /\ opened' = opened \cup {gate}
         /\ opened' \subseteq 0..gate
         /\ bid' \in [Bids -> BidStates]
<1>1. bidResponseQueue' = {} /\ bid' \in [Bids -> BidStates] /\ opened' = opened \cup {gate}
  BY DEF TypeOK, processBidResponseQueue, ProcessWith, bidResponseQueue, BidStates
<1>. QED  BY <1>1 DEF TypeOK

(* When delayed auctions resume as well, no auction is delayed. *)
LEMMA GoOnType ==
  ASSUME TypeOK, goOn
  PROVE  /\ bidResponseQueue' = {}
         /\ opened' = opened \cup {gate}
         /\ opened' \subseteq 0..gate
         /\ bid' \in [Bids -> BidStates]
         /\ phase' \in [Auctions -> Phases]
         /\ \A a \in Auctions : phase'[a] # "delayed"
<1>1. /\ phase' \in [Auctions -> Phases]
      /\ \A a \in Auctions : phase'[a] # "delayed"
  BY DEF TypeOK, goOn, resume, Phases
<1>. QED  BY <1>1, ProcessEmptiesQueue DEF goOn

(* ... and nobody waits. *)
LEMMA GoOnFreesAll ==
  ASSUME TypeOK, OneGate, goOn, UNCHANGED <<gate, signal, on>>
  PROVE  ~SomebodyWaits' /\ (enabled' => OneGate')
<1>1. \A a \in Auctions : on'[a] \in opened' /\ on'[a] \in {0, gate}
  BY GoOnType DEF OneGate, TypeOK
<1>. QED  BY <1>1, GoOnType DEF SomebodyWaits, OneGate

-----------------------------------------------------------------------------
(* Type correctness, a lemma for each kind of step. *)
LEMMA InitType == Init => TypeOK
<1>. SUFFICES ASSUME Init PROVE TypeOK
  OBVIOUS
<1>1. requestId \in 0..MaxId /\ inflight \subseteq 1..requestId
  BY CurrencyAssumption DEF CurrencyAssumption, Init
<1>2. gate \in Nat \ {0} /\ opened \subseteq 0..gate
  BY DEF Init
<1>3. on \in [Auctions -> 0..gate]
  BY DEF Init
<1>. QED  BY <1>1, <1>2, <1>3 DEF Init, TypeOK

LEMMA ConfigureType == ASSUME TypeOK, Configure PROVE TypeOK'
<1>1. CASE SetRates
  <2>1. requestId' \in 0..MaxId /\ inflight' \subseteq 1..requestId'
    BY <1>1, NewId DEF SetRates
  <2>2. bid' \in [Bids -> BidStates] /\ opened' \subseteq 0..gate
    <3>1. CASE enabled
      BY <1>1, <3>1 DEF SetRates, TypeOK, BidStates
    <3>2. CASE ~enabled
      BY <1>1, <3>2, ProcessEmptiesQueue DEF SetRates
    <3>. QED  BY <3>1, <3>2
  <2>. QED  BY <1>1, <2>1, <2>2 DEF SetRates, TypeOK, BidStates
<1>2. CASE SetFile
  <2>0. /\ enabled' = TRUE /\ UNCHANGED <<useDefaults, gate, phase, signal, on, bid, opened>>
        /\ rates' \in {rates, "default"}
    BY <1>2 DEF SetFile, fetchRates
  <2>1. CASE enabled
    <3>1. UNCHANGED <<needCall, requestId, inflight>> /\ loaded' \in BOOLEAN
      BY <1>2, <2>1 DEF SetFile, TypeOK
    <3>. QED  BY <2>0, <3>1 DEF TypeOK
  <2>2. CASE ~enabled
    <3>1. needCall' = FALSE /\ fetchRates
      BY <1>2, <2>2 DEF SetFile
    <3>. QED  BY <2>0, <3>1, NewId DEF fetchRates, TypeOK
  <2>. QED  BY <2>1, <2>2
<1>3. CASE Disable
  <2>1. requestId' \in 0..MaxId /\ inflight' \subseteq 1..requestId'
    BY <1>3, NewId DEF Disable
  <2>2. gate' \in Nat \ {0} /\ opened' \subseteq 0..gate' /\ on' \in [Auctions -> 0..gate']
    <3>1. gate' = gate + 1 /\ gate \in Nat \ {0} /\ 0..gate \subseteq 0..gate'
      BY <1>3 DEF Disable, TypeOK
    <3>2. \A a \in Auctions : on[a] \in 0..gate'
      BY <3>1 DEF TypeOK
    <3>. QED  BY <1>3, <3>1, <3>2 DEF Disable, TypeOK
  <2>. QED  BY <1>3, <2>1, <2>2 DEF Disable, TypeOK
<1>. QED  BY <1>1, <1>2, <1>3 DEF Configure

LEMMA FileStepType == ASSUME TypeOK, NEW i \in inflight, FileStep(i) PROVE TypeOK'
<1>1. CASE RatesLoaded(i) \/ RatesFailed(i)
  <2>1. goOn /\ UNCHANGED <<enabled, requestId, gate, signal, on>> /\ inflight' \subseteq inflight
    BY <1>1 DEF RatesLoaded, RatesFailed
  <2>2. /\ loaded' \in BOOLEAN /\ needCall' \in BOOLEAN /\ useDefaults' \in BOOLEAN
        /\ rates' \in {"none", "given", "default", "file"}
    BY <1>1 DEF RatesLoaded, RatesFailed, TypeOK
  <2>. QED  BY <2>1, <2>2, GoOnType DEF TypeOK, BidStates, Phases
<1>2. CASE RatesSuperseded(i)
  <2>1. UNCHANGED <<settings, loaded, requestId, gate, signal, on>> /\ inflight' \subseteq inflight
    BY <1>2 DEF RatesSuperseded
  <2>2. CASE loaded
    BY <1>2, <2>1, <2>2, GoOnType DEF RatesSuperseded, settings, TypeOK, BidStates, Phases
  <2>3. CASE ~loaded
    BY <1>2, <2>1, <2>3 DEF RatesSuperseded, settings, TypeOK
  <2>. QED  BY <2>2, <2>3
<1>. QED  BY <1>1, <1>2 DEF FileStep

LEMMA AuctionStepType == ASSUME TypeOK, NEW a \in Auctions, AuctionStep(a) PROVE TypeOK'
<1>1. CASE RequestBids(a) \/ DelayOver(a)
  BY <1>1 DEF RequestBids, DelayOver, TypeOK, settings, fetching, gates
<1>2. CASE AuctionInit(a)
  <2>0. /\ UNCHANGED <<enabled, useDefaults, rates, gate, signal, on>>
        /\ phase' \in [Auctions -> Phases]
    BY <1>2 DEF AuctionInit, TypeOK, Phases
  <2>1. CASE ~enabled
    BY <1>2, <2>0, <2>1 DEF AuctionInit, fetching, TypeOK, Phases
  <2>2. CASE enabled /\ needCall
    <3>1. needCall' = FALSE /\ fetchRates
      BY <1>2, <2>2 DEF AuctionInit
    <3>. QED  BY <2>0, <3>1, NewId DEF fetchRates, TypeOK, Phases
  <2>3. CASE enabled /\ ~needCall
    <3>1. processBidResponseQueue /\ UNCHANGED <<needCall, fetching>>
      BY <1>2, <2>3 DEF AuctionInit
    <3>. QED  BY <2>0, <3>1, ProcessEmptiesQueue DEF fetching, TypeOK, Phases, BidStates
  <2>. QED  BY <2>1, <2>2, <2>3
<1>3. CASE AdapterSignals(a)
  BY <1>3 DEF AdapterSignals, TypeOK, settings, fetching, gates
<1>4. CASE AdapterDone(a)
  BY <1>4 DEF AdapterDone, TypeOK, settings, fetching, gates
<1>5. CASE TimerFires(a)
  BY <1>5 DEF TimerFires, rejectOnAuctionTimeout, TypeOK, settings, fetching, gates
<1>. QED  BY <1>1, <1>2, <1>3, <1>4, <1>5 DEF AuctionStep

LEMMA AddBidResponseType == ASSUME TypeOK, NEW b \in Bids, AddBidResponse(b) PROVE TypeOK'
<1>0. UNCHANGED <<settings, fetching, gate, phase, signal, on>>
  BY DEF AddBidResponse
<1>1. opened' \subseteq 0..gate
  <2>1. opened' \subseteq opened \cup {gate}
    BY DEF AddBidResponse, ProcessWith
  <2>. QED  BY <2>1 DEF TypeOK
<1>2. bid' \in [Bids -> BidStates]
  <2>1. CASE enabled /\ loaded
    BY <2>1 DEF AddBidResponse, ProcessWith, TypeOK, BidStates
  <2>2. CASE ~(enabled /\ loaded)
    BY <2>2 DEF AddBidResponse, TypeOK, BidStates
  <2>. QED  BY <2>1, <2>2
<1>. QED  BY <1>0, <1>1, <1>2 DEF TypeOK, settings, fetching, BidStates

-----------------------------------------------------------------------------
(* The same for what holds until the module is turned off. *)
LEMMA InitOn == Init => WhileOn
BY DEF Init, WhileOn, LatestInFlight, GateWillOpen, OneGate, Freed, SomebodyWaits,
       bidResponseQueue

LEMMA ConfigureOn ==
  ASSUME TypeOK, TypeOK', WhileOn, Configure, ~Disable
  PROVE  WhileOn'
<1>. USE DEF WhileOn
<1>1. CASE SetRates /\ enabled
  <2>1. UNCHANGED <<bid, opened, inflight, gate, phase, signal, on>> /\ loaded' /\ enabled'
    BY <1>1 DEF SetRates
  <2>. QED
    BY <1>1, <2>1 DEF LatestInFlight, GateWillOpen, OneGate, Freed, SomebodyWaits, bidResponseQueue
<1>2. CASE SetRates /\ ~enabled
  <2>1. processBidResponseQueue /\ UNCHANGED <<inflight, gate, phase, signal, on>>
        /\ loaded' /\ enabled'
    BY <1>2 DEF SetRates
  <2>2. bidResponseQueue' = {} /\ opened' = opened \cup {gate}
    BY <2>1, ProcessEmptiesQueue
  <2>. QED
    BY <1>2, <2>1, <2>2 DEF LatestInFlight, GateWillOpen, OneGate, Freed, SomebodyWaits, TypeOK
<1>3. CASE SetFile
  <2>0. enabled' /\ UNCHANGED <<gate, phase, signal, on, bid, opened>>
    BY <1>3 DEF SetFile, fetchRates
  <2>1. CASE enabled
    <3>1. UNCHANGED <<requestId, inflight>> /\ (loaded => loaded')
      BY <1>3, <2>1 DEF SetFile
    <3>. QED
      BY <2>0, <2>1, <3>1
      DEF LatestInFlight, GateWillOpen, OneGate, Freed, SomebodyWaits, bidResponseQueue
  <2>2. CASE ~enabled
    <3>1. requestId' \in inflight'
      BY <1>3, <2>2 DEF SetFile, fetchRates
    <3>2. OneGate'
      BY <2>0, <2>2 DEF OneGate, bidResponseQueue
    <3>. QED  BY <3>1, <3>2 DEF LatestInFlight, GateWillOpen, Freed
  <2>. QED  BY <2>1, <2>2
<1>. QED  BY <1>1, <1>2, <1>3 DEF Configure

(* An answer to the latest request frees everybody; one to an older request *)
(* leaves the latest in flight.                                             *)
LEMMA FileStepOn ==
  ASSUME TypeOK, TypeOK', WhileOn, NEW i \in inflight, FileStep(i)
  PROVE  WhileOn'
<1>. USE DEF WhileOn
<1>1. CASE goOn /\ loaded' /\ UNCHANGED <<enabled, gate, signal, on>>
  <2>1. ~SomebodyWaits' /\ opened' = opened \cup {gate}
    BY <1>1, GoOnFreesAll, GoOnType
  <2>2. OneGate'
    BY <1>1, <2>1, GoOnFreesAll, GoOnType DEF OneGate
  <2>. QED  BY <1>1, <2>1, <2>2 DEF LatestInFlight, GateWillOpen, Freed
<1>2. CASE ~loaded /\ RatesSuperseded(i)
  <2>1. /\ UNCHANGED <<settings, loaded, requestId, bid, opened, phase, gate, signal, on>>
        /\ inflight' = inflight \ {i} /\ i # requestId
    BY <1>2 DEF RatesSuperseded, isSuperseded
  <2>. QED
    BY <1>2, <2>1
    DEF LatestInFlight, GateWillOpen, OneGate, Freed, SomebodyWaits, bidResponseQueue, settings
<1>3. \/ goOn /\ loaded' /\ UNCHANGED <<enabled, gate, signal, on>>
      \/ ~loaded /\ RatesSuperseded(i)
  <2>1. CASE RatesLoaded(i)
    BY <2>1 DEF RatesLoaded
  <2>2. CASE RatesFailed(i)
    BY <2>2 DEF RatesFailed
  <2>3. CASE RatesSuperseded(i)
    BY <2>3 DEF RatesSuperseded, settings
  <2>. QED  BY <2>1, <2>2, <2>3 DEF FileStep
<1>. QED  BY <1>1, <1>2, <1>3

(* The life of an auction. *)
LEMMA AuctionStepOn ==
  ASSUME TypeOK, TypeOK', WhileOn, NEW a \in Auctions, AuctionStep(a)
  PROVE  WhileOn'
<1>. USE DEF WhileOn
<1>1. CASE RequestBids(a) \/ DelayOver(a)
  BY <1>1
  DEF RequestBids, DelayOver, LatestInFlight, GateWillOpen, OneGate, Freed, SomebodyWaits,
      bidResponseQueue, settings, fetching, gates, TypeOK
<1>2. CASE AuctionInit(a)
  <2>0. UNCHANGED <<enabled, gate, signal, on>> /\ phase' = [phase EXCEPT ![a] = "open"]
    BY <1>2 DEF AuctionInit
  <2>1. CASE ~enabled
    <3>1. UNCHANGED <<needCall, fetching, bid, opened>>
      BY <1>2, <2>1 DEF AuctionInit
    <3>2. OneGate' /\ ~SomebodyWaits'
      BY <2>0, <2>1, <3>1 DEF OneGate, SomebodyWaits, bidResponseQueue, TypeOK
    <3>. QED  BY <2>0, <2>1, <3>2 DEF LatestInFlight, GateWillOpen, Freed
  <2>2. CASE enabled /\ needCall
    <3>1. requestId' \in inflight' /\ UNCHANGED <<bid, opened>>
      BY <1>2, <2>2 DEF AuctionInit, fetchRates
    <3>2. OneGate'
      BY <2>0, <2>2, <3>1 DEF OneGate
    <3>. QED  BY <3>1, <3>2 DEF LatestInFlight, GateWillOpen, Freed
  <2>3. CASE enabled /\ ~needCall
    <3>1. processBidResponseQueue /\ UNCHANGED fetching
      BY <1>2, <2>3 DEF AuctionInit
    <3>2. bidResponseQueue' = {} /\ opened' = opened \cup {gate}
      BY <3>1, ProcessEmptiesQueue
    <3>. QED
      BY <2>0, <2>3, <3>1, <3>2
      DEF LatestInFlight, GateWillOpen, OneGate, Freed, SomebodyWaits, fetching, TypeOK
  <2>. QED  BY <2>1, <2>2, <2>3
<1>3. CASE AdapterSignals(a)
  BY <1>3
  DEF AdapterSignals, LatestInFlight, GateWillOpen, OneGate, Freed, SomebodyWaits,
      bidResponseQueue, settings, fetching, gates, TypeOK
<1>4. CASE AdapterDone(a)
  BY <1>4
  DEF AdapterDone, LatestInFlight, GateWillOpen, OneGate, Freed, SomebodyWaits,
      bidResponseQueue, settings, fetching, gates, TypeOK
<1>5. CASE TimerFires(a)
  <2>1. bidResponseQueue' \subseteq bidResponseQueue
    BY <1>5 DEF TimerFires, rejectOnAuctionTimeout, bidResponseQueue
  <2>. QED
    BY <1>5, <2>1
    DEF TimerFires, LatestInFlight, GateWillOpen, OneGate, Freed, SomebodyWaits, settings,
        fetching, gates, TypeOK
<1>. QED  BY <1>1, <1>2, <1>3, <1>4, <1>5 DEF AuctionStep

(* A bid is queued only while the latest request is in flight. *)
LEMMA AddBidResponseOn ==
  ASSUME TypeOK, TypeOK', WhileOn, NEW b \in Bids, AddBidResponse(b)
  PROVE  WhileOn'
<1>. USE DEF WhileOn
<1>0. UNCHANGED <<settings, fetching, gate, phase, signal, on>>
  BY DEF AddBidResponse
<1>1. CASE enabled /\ loaded
  <2>1. ProcessWith(bidResponseQueue \cup {b}, rates)
    BY <1>1 DEF AddBidResponse
  <2>2. bidResponseQueue' = {} /\ opened' = opened \cup {gate}
    BY <2>1 DEF ProcessWith, bidResponseQueue, TypeOK
  <2>. QED
    BY <1>0, <1>1, <2>2
    DEF LatestInFlight, GateWillOpen, OneGate, Freed, SomebodyWaits, settings, fetching, TypeOK
<1>2. CASE ~(enabled /\ loaded)
  <2>1. /\ bid' = [bid EXCEPT ![b] = IF enabled THEN "queued" ELSE "passed"]
        /\ UNCHANGED opened
    BY <1>2 DEF AddBidResponse
  <2>2. ~enabled => bidResponseQueue' \subseteq bidResponseQueue
    BY <2>1 DEF bidResponseQueue, TypeOK
  <2>. QED
    BY <1>0, <1>2, <2>1, <2>2
    DEF LatestInFlight, GateWillOpen, OneGate, Freed, SomebodyWaits, settings, fetching, TypeOK
<1>. QED  BY <1>1, <1>2

-----------------------------------------------------------------------------
(* Every step keeps the invariant. *)
LEMMA NextInv == IInv /\ [Next]_vars => IInv'
<1>. SUFFICES ASSUME IInv, [Next]_vars PROVE IInv'
  OBVIOUS
<1>1. CASE UNCHANGED vars
  BY <1>1
  DEF IInv, WhileOn, TurnedOff, vars, settings, fetching, gates, TypeOK, LatestInFlight,
      GateWillOpen, OneGate, Freed, SomebodyWaits, bidResponseQueue
<1>2. CASE Next
  <2>1. TypeOK'
    BY <1>2, ConfigureType, FileStepType, AuctionStepType, AddBidResponseType DEF Next, IInv
  <2>2. CASE TurnedOff \/ Disable
    <3>1. gate' \in {gate, gate + 1} /\ (Disable => gate' = gate + 1)
      BY <1>2
      DEF Next, Configure, SetRates, SetFile, Disable, FileStep, RatesLoaded, RatesFailed,
          RatesSuperseded, AuctionStep, RequestBids, DelayOver, AuctionInit, AdapterSignals,
          AdapterDone, TimerFires, AddBidResponse, gates
    <3>2. TurnedOff'
      BY <2>2, <3>1 DEF TurnedOff, IInv, TypeOK
    <3>. QED  BY <2>1, <3>2 DEF IInv
  <2>3. CASE ~TurnedOff /\ ~Disable
    BY <1>2, <2>1, <2>3, ConfigureOn, FileStepOn, AuctionStepOn, AddBidResponseOn
    DEF Next, IInv
  <2>. QED  BY <2>2, <2>3
<1>. QED  BY <1>1, <1>2

LEMMA Invariance == Spec => []IInv
<1>1. Init => IInv
  BY InitType, InitOn DEF IInv
<1>. QED  BY <1>1, NextInv, PTL DEF Spec

(* Every state is well typed: no answer is awaited from a request that was  *)
(* not made, and no auction waits on a gate that does not exist.            *)
THEOREM TypeCorrect == Spec => []TypeOK
<1>1. IInv => TypeOK
  BY DEF IInv
<1>. QED  BY <1>1, Invariance, PTL

(* Until the page turns conversion off, whoever waits for rates has a       *)
(* request in flight that will let it go on: queued bids, delayed auctions  *)
(* and adapterDone, for any number of auctions and bids, whatever the       *)
(* reconfigurations and the failures to load.                               *)
THEOREM NeverStranded == Spec => []NobodyStranded
<1>1. IInv => NobodyStranded
  BY DEF IInv, WhileOn, Freed, NobodyStranded
<1>. QED  BY <1>1, Invariance, PTL

-----------------------------------------------------------------------------
(* With rates given by the page, conversion is on, and nothing that could   *)
(* replace them is asked for, or still counts when it is answered.          *)
GivenIsFinal ==
  rates = "given" => enabled /\ ~needCall /\ ~useDefaults /\ requestId \notin inflight

LEMMA StepGiven ==
  TypeOK /\ GivenIsFinal /\ [Next]_vars =>
    GivenIsFinal' /\ (rates = "given" => rates' = "given" \/ ~enabled')
<1>. SUFFICES ASSUME TypeOK, GivenIsFinal, [Next]_vars
              PROVE  GivenIsFinal' /\ (rates = "given" => rates' = "given" \/ ~enabled')
  OBVIOUS
<1>0. ASSUME UNCHANGED <<settings, requestId, inflight>>
      PROVE  GivenIsFinal' /\ (rates = "given" => rates' = "given" \/ ~enabled')
  BY <1>0 DEF GivenIsFinal, settings
<1>1. CASE SetRates
  <2>1. requestId + 1 \notin inflight
    BY DEF TypeOK
  <2>. QED  BY <1>1, <2>1 DEF SetRates, GivenIsFinal
<1>2. CASE SetFile
  BY <1>2 DEF SetFile, GivenIsFinal, TypeOK
<1>3. CASE Disable
  BY <1>3 DEF Disable, GivenIsFinal
<1>4. ASSUME NEW i \in inflight, FileStep(i)
      PROVE  GivenIsFinal' /\ (rates = "given" => rates' = "given" \/ ~enabled')
  BY <1>4 DEF FileStep, RatesLoaded, RatesFailed, RatesSuperseded, isSuperseded, settings,
     GivenIsFinal
<1>5. ASSUME NEW a \in Auctions, AuctionInit(a)
      PROVE  GivenIsFinal' /\ (rates = "given" => rates' = "given" \/ ~enabled')
  BY <1>5 DEF AuctionInit, GivenIsFinal, fetching, processBidResponseQueue
<1>6. ASSUME NEW a \in Auctions, AuctionStep(a), ~AuctionInit(a)
      PROVE  GivenIsFinal' /\ (rates = "given" => rates' = "given" \/ ~enabled')
  BY <1>0, <1>6 DEF AuctionStep, RequestBids, DelayOver, AdapterSignals, AdapterDone,
     TimerFires, fetching
<1>7. ASSUME NEW b \in Bids, AddBidResponse(b)
      PROVE  GivenIsFinal' /\ (rates = "given" => rates' = "given" \/ ~enabled')
  BY <1>0, <1>7 DEF AddBidResponse, fetching
<1>8. CASE UNCHANGED vars
  BY <1>0, <1>8 DEF vars, fetching
<1>. QED
  BY <1>1, <1>2, <1>3, <1>4, <1>5, <1>6, <1>7, <1>8 DEF Next, Configure

(* Rates given by the page stay until it turns conversion off: neither a    *)
(* request that was in flight nor later defaults replace them.              *)
THEOREM GivenRatesAreKept == Spec => GivenRatesStay
<1>1. Init => GivenIsFinal
  BY DEF Init, GivenIsFinal
<1>2. TypeOK /\ GivenIsFinal /\ [Next]_vars =>
        GivenIsFinal' /\ [rates = "given" => rates' = "given" \/ ~enabled']_vars
  BY StepGiven
<1>. QED  BY <1>1, <1>2, TypeCorrect, PTL DEF Spec, GivenRatesStay

-----------------------------------------------------------------------------
(* Once loading is over and has brought no rates, no request is left that   *)
(* could bring any: the others do not count.                                *)
NothingToCome == loaded /\ rates = "none" => requestId \notin inflight

ForCause(b) ==
  \/ TimesOut(AuctionOf[b])
  \/ rates' = "none" /\ (requestId' \notin inflight' \/ \E a \in Auctions : Begins(a))

(* What the queue is given when it is processed with a table.               *)
LEMMA ProcessRejects ==
  ASSUME TypeOK, NEW b \in bidResponseQueue, NEW queue, NEW table,
         ProcessWith(queue, table), bid'[b] = "rejected"
  PROVE  table = "none"
BY DEF ProcessWith, bidResponseQueue

LEMMA StepNothingToCome == TypeOK /\ NothingToCome /\ [Next]_vars => NothingToCome'
<1>. SUFFICES ASSUME TypeOK, NothingToCome, [Next]_vars PROVE NothingToCome'
  OBVIOUS
<1>0. ASSUME UNCHANGED <<rates, loaded, requestId, inflight>> PROVE NothingToCome'
  BY <1>0 DEF NothingToCome
<1>1. CASE Configure
  <2>1. CASE SetRates
    BY <2>1 DEF SetRates, NothingToCome
  <2>2. CASE SetFile
    <3>1. PICK defaults \in BOOLEAN :
            /\ rates' = IF useDefaults /\ defaults THEN "default" ELSE rates
            /\ IF enabled THEN /\ loaded' = (loaded \/ (useDefaults /\ defaults))
                              /\ UNCHANGED <<requestId, inflight>>
                         ELSE loaded' = FALSE
      BY <2>2 DEF SetFile, fetchRates
    <3>2. loaded' /\ rates' = "none" => loaded /\ rates = "none" /\ UNCHANGED <<requestId, inflight>>
      <4>1. loaded \in BOOLEAN
        BY DEF TypeOK
      <4>. QED  BY <3>1, <4>1
    <3>. QED  BY <3>2 DEF NothingToCome
  <2>3. CASE Disable
    BY <2>3 DEF Disable, NothingToCome
  <2>. QED  BY <1>1, <2>1, <2>2, <2>3 DEF Configure
<1>2. ASSUME NEW i \in inflight, FileStep(i) PROVE NothingToCome'
  <2>1. CASE RatesLoaded(i)
    BY <2>1 DEF RatesLoaded, NothingToCome
  <2>2. CASE RatesFailed(i)
    BY <2>2 DEF RatesFailed, isSuperseded, NothingToCome
  <2>3. CASE RatesSuperseded(i)
    BY <2>3 DEF RatesSuperseded, settings, NothingToCome
  <2>. QED  BY <1>2, <2>1, <2>2, <2>3 DEF FileStep
<1>3. ASSUME NEW a \in Auctions, AuctionInit(a) PROVE NothingToCome'
  <2>1. \/ loaded' = FALSE
        \/ UNCHANGED <<rates, loaded, requestId, inflight>>
    BY <1>3 DEF AuctionInit, fetchRates, fetching
  <2>2. CASE loaded' = FALSE
    BY <2>2 DEF NothingToCome
  <2>. QED  BY <1>0, <2>1, <2>2
<1>4. ASSUME NEW a \in Auctions, AuctionStep(a), ~AuctionInit(a) PROVE NothingToCome'
  BY <1>0, <1>4 DEF AuctionStep, RequestBids, DelayOver, AdapterSignals, AdapterDone,
     TimerFires, settings, fetching
<1>5. ASSUME NEW b \in Bids, AddBidResponse(b) PROVE NothingToCome'
  BY <1>0, <1>5 DEF AddBidResponse, settings, fetching
<1>6. CASE UNCHANGED vars
  BY <1>0, <1>6 DEF vars, settings, fetching
<1>. QED  BY <1>1, <1>2, <1>3, <1>4, <1>5, <1>6 DEF Next

LEMMA StepForCause ==
  ASSUME TypeOK, NothingToCome, [Next]_vars,
         NEW b \in bidResponseQueue, bid'[b] = "rejected"
  PROVE  ForCause(b)
<1>. b \in Bids /\ bid[b] = "queued"
  BY DEF bidResponseQueue
<1>0. bid'[b] # bid[b]
  OBVIOUS
<1>1. CASE Configure
  <2>1. enabled \/ ~SetRates
    BY ProcessRejects DEF SetRates, processBidResponseQueue
  <2>. QED  BY <1>0, <1>1, <2>1 DEF Configure, SetRates, SetFile, Disable, fetchRates
<1>2. ASSUME NEW i \in inflight, FileStep(i) PROVE ForCause(b)
  <2>1. CASE RatesLoaded(i)
    BY <2>1, ProcessRejects DEF RatesLoaded, goOn, processBidResponseQueue
  <2>2. CASE RatesFailed(i)
    <3>1. rates' = "none"
      BY <2>2, ProcessRejects DEF RatesFailed, goOn, processBidResponseQueue
    <3>. QED  BY <2>2, <3>1 DEF RatesFailed, isSuperseded, ForCause
  <2>3. CASE RatesSuperseded(i)
    <3>1. loaded /\ goOn
      BY <1>0, <2>3 DEF RatesSuperseded
    <3>2. rates' = "none" /\ rates' = rates /\ requestId' = requestId /\ inflight' \subseteq inflight
      BY <2>3, <3>1, ProcessRejects DEF RatesSuperseded, goOn, processBidResponseQueue, settings
    <3>. QED  BY <3>1, <3>2 DEF NothingToCome, ForCause
  <2>. QED  BY <1>2, <2>1, <2>2, <2>3 DEF FileStep
<1>3. ASSUME NEW a \in Auctions, AuctionInit(a) PROVE ForCause(b)
  <2>1. Begins(a)
    BY <1>3 DEF AuctionInit, Begins, TypeOK
  <2>2. processBidResponseQueue
    BY <1>0, <1>3 DEF AuctionInit, fetchRates
  <2>3. rates' = "none"
    BY <2>2, ProcessRejects DEF processBidResponseQueue
  <2>. QED  BY <2>1, <2>3 DEF ForCause
<1>4. ASSUME NEW a \in Auctions, TimerFires(a) PROVE ForCause(b)
  <2>1. AuctionOf[b] = a
    BY <1>0, <1>4 DEF TimerFires, rejectOnAuctionTimeout
  <2>2. TimesOut(a)
    BY <1>4 DEF TimerFires, TimesOut, TypeOK
  <2>. QED  BY <2>1, <2>2 DEF ForCause
<1>5. ASSUME NEW a \in Auctions, AuctionStep(a), ~AuctionInit(a), ~TimerFires(a) PROVE FALSE
  BY <1>0, <1>5 DEF AuctionStep, RequestBids, DelayOver, AdapterSignals, AdapterDone
<1>6. ASSUME NEW c \in Bids, AddBidResponse(c) PROVE ForCause(b)
  <2>1. CASE enabled /\ loaded
    <3>1. rates = "none"
      BY <1>6, <2>1, ProcessRejects DEF AddBidResponse
    <3>. QED  BY <1>6, <2>1, <3>1 DEF AddBidResponse, settings, fetching, NothingToCome, ForCause
  <2>2. CASE ~(enabled /\ loaded)
    BY <1>0, <1>6, <2>2 DEF AddBidResponse, TypeOK
  <2>. QED  BY <2>1, <2>2
<1>7. CASE UNCHANGED vars
  BY <1>0, <1>7 DEF vars
<1>. QED  BY <1>1, <1>2, <1>3, <1>4, <1>5, <1>6, <1>7 DEF Next

(* Bids wait for rates as long as a request may bring them, through answers *)
(* that were superseded, failures, reconfigurations and the timeouts of     *)
(* other auctions: only their own timeout, loading that has failed, or an   *)
(* AUCTION_INIT ends the wait with a rejection.                             *)
THEOREM RejectedOnlyForCause == Spec => RejectedForCause
<1>1. Init => NothingToCome
  BY DEF Init, NothingToCome
<1>2. TypeOK /\ NothingToCome /\ [Next]_vars =>
        /\ NothingToCome'
        /\ [\A b \in bidResponseQueue : bid'[b] = "rejected" =>
              \/ TimesOut(AuctionOf[b])
              \/ /\ rates' = "none"
                 /\ requestId' \notin inflight' \/ \E a \in Auctions : Begins(a)]_vars
  BY StepNothingToCome, StepForCause DEF ForCause
<1>. QED  BY <1>1, <1>2, TypeCorrect, PTL DEF Spec, RejectedForCause
=============================================================================
