--------------------------- MODULE Auction_proofs ---------------------------
(***************************************************************************)
(* Proofs about Auction: for any number of bidders, bid requests and HTTP  *)
(* requests, whatever adapters throw and however modules hold bids.        *)
(***************************************************************************)
EXTENDS Auction, FiniteSetTheorems, TLAPS

(* allAdapterCalledDone says what its name says. *)
AllDoneExact == allDone = (Primary \subseteq requestsDone)

(* The count of bids being cached is exact, and finite. *)
Counted == IsFiniteSet(caching) /\ OutstandingExact

(* The lifecycle: how the status, the timer, the end and the callback move *)
(* together.                                                               *)
Lifecycle ==
  /\ (ended = "open") = (status # "completed")
  /\ (callback = "idle") = (ended = "open")
  /\ timer = "armed" => status = "inProgress"
  /\ status = "none" => bidderRequests = {}
  /\ status \in {"started", "inProgress"} => bidderRequests = Requests

(* Nothing moves before the auction runs, or when it asked nobody. *)
Quiet ==
  status \in {"none", "started"} \/ bidderRequests = {} =>
    /\ toCall = {} /\ hooked = {} /\ caching = {} /\ requestsDone = {}
    /\ \A h \in Https : http[h] = "unsent"
    /\ \A r \in Requests : doneSignals[r] = 0

(* A bid is in one place at a time, and only after its response; an adapter *)
(* that has not been called has sent nothing.                               *)
InOnePlace ==
  /\ hooked \cap caching = {}
  /\ \A b \in hooked \cup caching : http[b[1]] = "answered"
  /\ \A h \in Https : Caller[h] \in toCall => http[h] = "unsent"

IInv ==
  TypeOK /\ AllDoneExact /\ Counted /\ PromptEnd /\ Lifecycle /\ Quiet /\ InOnePlace

-----------------------------------------------------------------------------
LEMMA PrimaryNotEmpty == Primary # {} /\ Primary \subseteq Requests
  BY AuctionAssumption DEF Primary

(* Initially nothing is outstanding and nobody is done. *)
LEMMA InitIInv == Init => IInv
<1> SUFFICES ASSUME Init PROVE IInv
  OBVIOUS
<1> USE AuctionAssumption, PrimaryNotEmpty DEF Init
<1>1. TypeOK
  <2>1. /\ http \in [Https -> {"unsent", "flight", "answered", "aborted"}]
        /\ left \in [Calls -> Int]
        /\ doneSignals \in [Requests -> Nat]
        /\ noBids \in [Imps -> Nat]
    OBVIOUS
  <2>2. QED BY <2>1 DEF TypeOK
<1>2. AllDoneExact
  BY DEF AllDoneExact
<1>3. Counted
  BY FS_EmptySet DEF Counted, OutstandingExact
<1>4. PromptEnd
  BY DEF PromptEnd
<1>5. Lifecycle /\ Quiet /\ InOnePlace
  BY DEF Lifecycle, Quiet, InOnePlace
<1>6. QED BY <1>1, <1>2, <1>3, <1>4, <1>5 DEF IInv

-----------------------------------------------------------------------------
(* What AuctionDone leaves behind. *)
LEMMA AuctionDoneFacts ==
  ASSUME TypeOK, Lifecycle, AuctionDone
  PROVE  /\ status' = "completed" /\ ended' # "open" /\ callback' # "idle"
         /\ timer' \in {"off", "armed", "cleared", "fired"} /\ timer' # "armed"
         /\ ended' \in {"open", "done", "timeout"}
         /\ callback' \in {"idle", "pending", "called"}
         /\ timedOutImps' \subseteq Imps
  BY DEF AuctionDone, ExecuteCallback, TypeOK, Lifecycle

(* A step that may close the auction keeps the types and the lifecycle of  *)
(* what it closes.                                                         *)
LEMMA AuctionDoneIfFacts ==
  ASSUME TypeOK, Lifecycle, NEW condition \in BOOLEAN, AuctionDoneIf(condition),
         UNCHANGED bidderRequests
  PROVE  /\ status' \in {"none", "started", "inProgress", "completed"}
         /\ timer' \in {"off", "armed", "cleared", "fired"}
         /\ ended' \in {"open", "done", "timeout"}
         /\ callback' \in {"idle", "pending", "called"}
         /\ timedOutImps' \subseteq Imps
         /\ Lifecycle'
         /\ condition => ended' # "open"
         /\ ended # "open" => ended' = ended
         /\ status' # status => status' = "completed" /\ condition
<1>1. CASE condition
  BY <1>1, AuctionDoneFacts DEF AuctionDoneIf, AuctionDone, ExecuteCallback, TypeOK, Lifecycle
<1>2. CASE ~condition
  BY <1>2 DEF AuctionDoneIf, ending, TypeOK, Lifecycle
<1>3. QED BY <1>1, <1>2

(* Calling an adapter keeps the types; it only disturbs the loop, the      *)
(* network and the pending done signals.                                   *)
LEMMA AdapterStepIInv ==
  ASSUME IInv, NEW c \in Calls, AdapterStep(c)
  PROVE  IInv'
<1> USE AuctionAssumption
<1>1. c \in toCall /\ toCall' \subseteq toCall
  BY DEF AdapterStep, CallAdapter, CallAdapterWithoutRequests, CallAdapterThrows,
         CallServerWithoutRequest, CallServerThrows, NextCall
<1>2. UNCHANGED <<bidderRequests, ending, timely, answers, requestsDone, allDone, noBids>>
  BY DEF AdapterStep, CallAdapter, CallAdapterWithoutRequests, CallAdapterThrows,
         CallServerWithoutRequest, CallServerThrows, finished
<1>3. /\ http' \in [Https -> {"unsent", "flight", "answered", "aborted"}]
      /\ left' \in [Calls -> Int]
  <2>1. ASSUME NEW S \in SUBSET HttpsOf(c)
        PROVE  Cardinality(S) \in Int
    BY <2>1, FS_Subset, FS_CardinalityType DEF HttpsOf
  <2>2. QED
    BY <2>1 DEF AdapterStep, CallAdapter, CallAdapterWithoutRequests, CallAdapterThrows,
         CallServerWithoutRequest, CallServerThrows, IInv, TypeOK
<1>4. doneSignals' \in [Requests -> Nat]
  BY DEF AdapterStep, CallAdapter, CallAdapterWithoutRequests, CallAdapterThrows,
         CallServerWithoutRequest, CallServerThrows, Signal, finished, IInv, TypeOK
<1>5. TypeOK'
  BY <1>1, <1>2, <1>3, <1>4 DEF IInv, TypeOK, ending, answers
<1>6. AllDoneExact' /\ Counted' /\ PromptEnd' /\ Lifecycle'
  BY <1>2 DEF IInv, AllDoneExact, Counted, OutstandingExact, PromptEnd, Lifecycle,
              ending, answers
<1>7. Quiet'
  BY <1>1, <1>2 DEF IInv, Quiet, ending
<1>8. InOnePlace'
  <2>1. /\ toCall' \subseteq toCall \ {c}
        /\ \A h \in Https : Caller[h] # c => http'[h] = http[h]
    BY DEF AdapterStep, CallAdapter, CallAdapterWithoutRequests, CallAdapterThrows,
         CallServerWithoutRequest, CallServerThrows, HttpsOf, IInv, TypeOK
  <2>2. \A b \in hooked \cup caching : b[1] \in Https /\ Caller[b[1]] # c
    BY <1>1 DEF IInv, TypeOK, Bid, InOnePlace
  <2>3. QED BY <1>2, <2>1, <2>2 DEF IInv, InOnePlace, answers
<1>9. QED BY <1>5, <1>6, <1>7, <1>8 DEF IInv

(* The start of an auction: nothing is outstanding in it. *)
LEMMA StartIInv ==
  ASSUME IInv, Start
  PROVE  IInv'
<1> USE AuctionAssumption, PrimaryNotEmpty
<1>1. CASE CallBidsWithoutRequests
  <2>1. AuctionDone /\ status = "none"
        /\ UNCHANGED <<bidderRequests, network, answers, finished>>
    BY <1>1 DEF CallBidsWithoutRequests
  <2>2. TypeOK'
    BY <2>1, AuctionDoneFacts DEF IInv, TypeOK, network, answers, finished
  <2>3. AllDoneExact' /\ Counted' /\ PromptEnd' /\ Lifecycle' /\ Quiet' /\ InOnePlace'
    BY <2>1, AuctionDoneFacts DEF IInv, AllDoneExact, Counted, OutstandingExact, PromptEnd,
       Lifecycle, Quiet, InOnePlace, network, answers, finished
  <2>4. QED BY <2>2, <2>3 DEF IInv
<1>2. CASE CallBids
  <2>1. TypeOK'
    BY <1>2 DEF CallBids, IInv, TypeOK, network, answers, finished
  <2>2. AllDoneExact' /\ Counted' /\ PromptEnd' /\ Lifecycle' /\ Quiet' /\ InOnePlace'
    BY <1>2 DEF CallBids, IInv, AllDoneExact, Counted, OutstandingExact, PromptEnd, Lifecycle,
       Quiet, InOnePlace, network, answers, finished
  <2>3. QED BY <2>1, <2>2 DEF IInv
<1>3. CASE Run
  <2>1. TypeOK'
    BY <1>3 DEF Run, startAuctionTimer, IInv, TypeOK, answers, finished
  <2>2. AllDoneExact' /\ Counted' /\ PromptEnd' /\ Lifecycle' /\ Quiet' /\ InOnePlace'
    BY <1>3 DEF Run, startAuctionTimer, IInv, AllDoneExact, Counted, OutstandingExact,
       PromptEnd, Lifecycle, Quiet, InOnePlace, answers, finished
  <2>3. QED BY <2>1, <2>2 DEF IInv
<1>4. QED BY <1>1, <1>2, <1>3 DEF Start

(* Nothing in the invariant but the types, and the auction's end, is touched *)
(* by a step that adds no bid to the cache and finishes no bidder.           *)
LEMMA UntouchedIInv ==
  ASSUME IInv, TypeOK', Lifecycle', InOnePlace', ended # "open" => ended' # "open",
         UNCHANGED <<bidderRequests, toCall, caching, outstanding, requestsDone, allDone>>,
         bidderRequests # {}, status \notin {"none", "started"},
         status' \notin {"none", "started"}
  PROVE  IInv'
BY DEF IInv, AllDoneExact, Counted, OutstandingExact, PromptEnd, Quiet

(* A request in flight means that the auction runs. *)
LEMMA FlightMeansRunning ==
  ASSUME IInv, NEW h \in Https, http[h] = "flight"
  PROVE  bidderRequests # {} /\ status \notin {"none", "started"}
BY DEF IInv, Quiet

LEMMA RequestDoneType ==
  ASSUME TypeOK, NEW c \in Calls, RequestDone(c)
  PROVE  left' \in [Calls -> Int] /\ doneSignals' \in [Requests -> Nat]
BY DEF RequestDone, Signal, TypeOK

LEMMA TakeResponseIInv ==
  ASSUME IInv, NEW h \in Https, NEW bids \in SUBSET BidsIn(h),
         NEW invalid \in SUBSET BidsIn(h), TakeResponse(h, bids, invalid),
         left' \in [Calls -> Int], doneSignals' \in [Requests -> Nat],
         UNCHANGED <<requestsDone, allDone, noBids>>
  PROVE  IInv'
<1> USE AuctionAssumption
<1>1. bidderRequests # {} /\ status \notin {"none", "started"}
  BY FlightMeansRunning DEF TakeResponse
<1>2. AuctionDoneIf(invalid # {} /\ allDone /\ outstanding = 0) /\ UNCHANGED bidderRequests
  BY DEF TakeResponse
<1>3. (invalid # {} /\ allDone /\ outstanding = 0) \in BOOLEAN
  OBVIOUS
<1>4. /\ status' \in {"none", "started", "inProgress", "completed"}
      /\ timer' \in {"off", "armed", "cleared", "fired"}
      /\ ended' \in {"open", "done", "timeout"}
      /\ callback' \in {"idle", "pending", "called"}
      /\ timedOutImps' \subseteq Imps
      /\ Lifecycle' /\ (ended # "open" => ended' = ended)
      /\ (status' # status => status' = "completed")
  BY <1>2, <1>3, AuctionDoneIfFacts DEF IInv
<1>5. bids \subseteq Bid /\ invalid \subseteq Bid /\ {b[2] : b \in invalid} \subseteq Imps
  BY DEF BidsIn, Bid, ImpsOf
<1>6. /\ http' \in [Https -> {"unsent", "flight", "answered", "aborted"}]
      /\ timely' \subseteq Requests /\ hooked' \subseteq Bid /\ rejected' \subseteq Bid
      /\ responded' \subseteq Imps
  BY <1>5 DEF TakeResponse, onTimelyResponse, Served, IInv, TypeOK
<1>7. TypeOK'
  BY <1>4, <1>6 DEF TakeResponse, IInv, TypeOK
<1>8. InOnePlace'
  <2>1. \A b \in bids : b \notin caching /\ b[1] = h
    BY DEF TakeResponse, BidsIn, IInv, InOnePlace
  <2>2. \A b \in hooked \cup caching : b[1] # h
    BY DEF TakeResponse, IInv, InOnePlace
  <2>3. QED
    BY <1>5, <2>1, <2>2 DEF TakeResponse, IInv, TypeOK, Bid, InOnePlace
<1>9. QED BY <1>1, <1>4, <1>7, <1>8, UntouchedIInv DEF TakeResponse

LEMMA HttpStepIInv ==
  ASSUME IInv, NEW h \in Https, HttpStep(h)
  PROVE  IInv'
<1> USE AuctionAssumption
<1>0. Caller[h] \in Calls
  OBVIOUS
<1>1. CASE Respond(h)
  <2>1. PICK bids \in SUBSET BidsIn(h), invalid \in SUBSET BidsIn(h) :
          TakeResponse(h, bids, invalid)
    BY <1>1 DEF Respond
  <2>2. left' \in [Calls -> Int] /\ doneSignals' \in [Requests -> Nat]
    BY <1>0, <1>1, RequestDoneType DEF Respond, IInv
  <2>3. UNCHANGED <<requestsDone, allDone, noBids>>
    BY <1>1 DEF Respond
  <2>4. QED BY <2>1, <2>2, <2>3, TakeResponseIInv
<1>2. CASE RespondThrows(h)
  <2>1. PICK bids \in SUBSET BidsIn(h), invalid \in SUBSET BidsIn(h) :
          TakeResponse(h, bids, invalid)
    BY <1>2 DEF RespondThrows
  <2>2. /\ left' \in [Calls -> Int] /\ doneSignals' \in [Requests -> Nat]
        /\ UNCHANGED <<requestsDone, allDone, noBids>>
    BY <1>2 DEF RespondThrows, finished, IInv, TypeOK
  <2>3. QED BY <2>1, <2>2, TakeResponseIInv
<1>3. CASE Fail(h)
  <2>1. left' \in [Calls -> Int] /\ doneSignals' \in [Requests -> Nat]
    BY <1>0, <1>3, RequestDoneType DEF Fail, IInv
  <2>2. /\ http' \in [Https -> {"unsent", "flight", "answered", "aborted"}]
        /\ timely' \subseteq Requests
    BY <1>3 DEF Fail, onTimelyResponse, Served, IInv, TypeOK
  <2>3. TypeOK'
    BY <1>3, <2>1, <2>2 DEF Fail, IInv, TypeOK, ending, answers
  <2>4. /\ bidderRequests # {} /\ status \notin {"none", "started"}
    BY <1>3, FlightMeansRunning DEF Fail
  <2>5. Lifecycle' /\ (ended # "open" => ended' # "open")
    BY <1>3 DEF Fail, IInv, Lifecycle, ending
  <2>6. InOnePlace'
    BY <1>3 DEF Fail, IInv, TypeOK, Bid, InOnePlace, answers
  <2>7. QED
    BY <1>3, <2>3, <2>4, <2>5, <2>6, UntouchedIInv DEF Fail, answers, ending
<1>4. QED BY <1>1, <1>2, <1>3 DEF HttpStep

(* A bid leaves the hook, or the cache. *)
LEMMA BidStepIInv ==
  ASSUME IInv, NEW b \in Bid, HookStep(b) \/ CacheAnswer(b)
  PROVE  IInv'
<1> USE AuctionAssumption
<1>0. b[2] \in Imps
  BY DEF Bid
<1>1. bidderRequests # {} /\ status \notin {"none", "started"}
  BY DEF IInv, Quiet, HookStep, Accept, AcceptVideo, Reject, CacheAnswer
<1>2. CASE Accept(b) \/ Reject(b)
  <2>1. AuctionDoneIf(allDone /\ outstanding = 0) /\ UNCHANGED bidderRequests
    BY <1>2 DEF Accept, Reject
  <2>2. (allDone /\ outstanding = 0) \in BOOLEAN
    BY DEF IInv, TypeOK
  <2>3. /\ status' \in {"none", "started", "inProgress", "completed"}
        /\ timer' \in {"off", "armed", "cleared", "fired"}
        /\ ended' \in {"open", "done", "timeout"}
        /\ callback' \in {"idle", "pending", "called"}
        /\ timedOutImps' \subseteq Imps
        /\ Lifecycle' /\ (ended # "open" => ended' = ended)
        /\ (status' # status => status' = "completed")
    BY <2>1, <2>2, AuctionDoneIfFacts DEF IInv
  <2>4. TypeOK'
    BY <1>0, <1>2, <2>3 DEF Accept, Reject, network, finished, IInv, TypeOK
  <2>5. InOnePlace'
    BY <1>2 DEF Accept, Reject, network, IInv, InOnePlace
  <2>6. QED
    BY <1>1, <1>2, <2>3, <2>4, <2>5, UntouchedIInv DEF Accept, Reject, network, finished
<1>3. CASE AcceptVideo(b)
  <2>1. TypeOK'
    BY <1>0, <1>3 DEF AcceptVideo, ending, network, finished, IInv, TypeOK
  <2>2. b \notin caching
    BY <1>3 DEF AcceptVideo, IInv, InOnePlace
  <2>3. Counted'
    BY <1>3, <2>2, FS_AddElement DEF AcceptVideo, IInv, Counted, OutstandingExact
  <2>4. AllDoneExact' /\ PromptEnd' /\ Lifecycle' /\ Quiet' /\ InOnePlace'
    BY <1>1, <1>3 DEF AcceptVideo, ending, network, finished, IInv, AllDoneExact, PromptEnd,
       Lifecycle, Quiet, InOnePlace
  <2>5. QED BY <2>1, <2>3, <2>4 DEF IInv
<1>4. CASE CacheAnswer(b)
  <2>1. /\ AuctionDoneIf(allDone /\ outstanding' = 0) /\ outstanding' = outstanding - 1
        /\ UNCHANGED <<bidderRequests, network, hooked, responded, rejected, finished>>
        /\ b \in caching /\ caching' = caching \ {b}
        /\ received' \in {received, received \cup {b}}
    BY <1>4 DEF CacheAnswer, afterBidAdded
  <2>2. (allDone /\ outstanding' = 0) \in BOOLEAN
    BY DEF IInv, TypeOK
  <2>3. /\ status' \in {"none", "started", "inProgress", "completed"}
        /\ timer' \in {"off", "armed", "cleared", "fired"}
        /\ ended' \in {"open", "done", "timeout"}
        /\ callback' \in {"idle", "pending", "called"}
        /\ timedOutImps' \subseteq Imps
        /\ Lifecycle' /\ (allDone /\ outstanding' = 0 => ended' # "open")
        /\ (ended # "open" => ended' = ended)
        /\ (status' # status => status' = "completed")
    BY <2>1, <2>2, AuctionDoneIfFacts DEF IInv
  <2>4. TypeOK'
    BY <2>1, <2>3 DEF network, finished, IInv, TypeOK
  <2>5. Counted'
    BY <2>1, FS_RemoveElement DEF IInv, Counted, OutstandingExact
  <2>6. AllDoneExact' /\ Quiet' /\ InOnePlace'
    BY <1>1, <2>1, <2>3 DEF network, finished, IInv, AllDoneExact, Quiet, InOnePlace
  <2>7. PromptEnd'
    <3>1. caching' = {} => outstanding' = 0
      BY <2>5, FS_EmptySet DEF Counted, OutstandingExact
    <3>2. Primary \subseteq requestsDone' => allDone
      BY <2>1 DEF IInv, AllDoneExact, finished
    <3>3. QED BY <2>3, <3>1, <3>2 DEF PromptEnd
  <2>8. QED BY <2>3, <2>4, <2>5, <2>6, <2>7 DEF IInv
<1>5. QED BY <1>2, <1>3, <1>4 DEF HookStep

(* A bidder finishes: the auction ends if it is the last one. *)
LEMMA AdapterDoneIInv ==
  ASSUME IInv, NEW r \in Requests, AdapterDone(r)
  PROVE  IInv'
<1> USE AuctionAssumption
<1>1. bidderRequests # {} /\ status \notin {"none", "started"}
  BY DEF IInv, Quiet, AdapterDone
<1>2. /\ AuctionDoneIf(allDone' /\ outstanding = 0)
      /\ UNCHANGED <<bidderRequests, network, answers>>
      /\ allDone' = (Primary \subseteq requestsDone') /\ requestsDone' = requestsDone \cup {r}
  BY DEF AdapterDone, everyCalledDone
<1>3. (allDone' /\ outstanding = 0) \in BOOLEAN
  BY <1>2
<1>4. /\ status' \in {"none", "started", "inProgress", "completed"}
      /\ timer' \in {"off", "armed", "cleared", "fired"}
      /\ ended' \in {"open", "done", "timeout"}
      /\ callback' \in {"idle", "pending", "called"}
      /\ timedOutImps' \subseteq Imps
      /\ Lifecycle' /\ (allDone' /\ outstanding = 0 => ended' # "open")
      /\ (status' # status => status' = "completed")
  BY <1>2, <1>3, AuctionDoneIfFacts DEF IInv
<1>5. doneSignals' \in [Requests -> Nat] /\ noBids' \in [Imps -> Nat]
  BY DEF AdapterDone, withoutBid, IInv, TypeOK
<1>6. TypeOK'
  BY <1>2, <1>4, <1>5 DEF network, answers, IInv, TypeOK
<1>7. AllDoneExact' /\ Quiet' /\ InOnePlace' /\ Counted'
  BY <1>1, <1>2, <1>4 DEF network, answers, IInv, AllDoneExact, Quiet, InOnePlace, Counted,
     OutstandingExact
<1>8. PromptEnd'
  <2>1. caching = {} => outstanding = 0
    BY FS_EmptySet DEF IInv, Counted, OutstandingExact
  <2>2. QED BY <1>2, <1>4, <2>1 DEF PromptEnd, answers
<1>9. QED BY <1>4, <1>6, <1>7, <1>8 DEF IInv

(* The end of the auction: the timer, and the page's callback. *)
LEMMA EndIInv ==
  ASSUME IInv, TimerFires \/ BidsBack
  PROVE  IInv'
<1> USE AuctionAssumption
<1>1. CASE TimerFires
  <2>1. status = "inProgress" /\ ended = "open" /\ bidderRequests # {}
    BY <1>1 DEF TimerFires, IInv, Lifecycle, TypeOK
  <2>2. TypeOK'
    BY <1>1, <2>1 DEF TimerFires, ExecuteCallback, silentBids, IInv, TypeOK, network, answers,
       finished
  <2>3. Lifecycle'
    BY <1>1, <2>1 DEF TimerFires, ExecuteCallback, Lifecycle, IInv
  <2>4. InOnePlace'
    BY <1>1 DEF TimerFires, IInv, InOnePlace, network, answers
  <2>5. QED
    BY <1>1, <2>1, <2>2, <2>3, <2>4, UntouchedIInv
    DEF TimerFires, network, answers, finished
<1>2. CASE BidsBack
  <2>1. /\ callback = "pending" /\ callback' = "called"
        /\ UNCHANGED <<bidderRequests, status, timer, ended, timedOutImps, network, answers,
                       finished>>
    BY <1>2 DEF BidsBack
  <2>2. TypeOK'
    BY <2>1 DEF IInv, TypeOK, network, answers, finished
  <2>3. /\ AllDoneExact' /\ Counted' /\ PromptEnd' /\ Lifecycle' /\ Quiet' /\ InOnePlace'
    BY <2>1 DEF IInv, AllDoneExact, Counted, OutstandingExact, PromptEnd, Lifecycle, Quiet,
       InOnePlace, network, answers, finished
  <2>4. QED BY <2>2, <2>3 DEF IInv
<1>3. QED BY <1>1, <1>2

-----------------------------------------------------------------------------
LEMMA StepIInv == IInv /\ [Next]_vars => IInv'
<1> SUFFICES ASSUME IInv, [Next]_vars PROVE IInv'
  OBVIOUS
<1>1. CASE Start
  BY <1>1, StartIInv
<1>2. ASSUME NEW c \in Calls, AdapterStep(c) PROVE IInv'
  BY <1>2, AdapterStepIInv
<1>3. ASSUME NEW h \in Https, HttpStep(h) PROVE IInv'
  BY <1>3, HttpStepIInv
<1>4. ASSUME NEW b \in Bid, HookStep(b) \/ CacheAnswer(b) PROVE IInv'
  BY <1>4, BidStepIInv
<1>5. ASSUME NEW r \in Requests, AdapterDone(r) PROVE IInv'
  BY <1>5, AdapterDoneIInv
<1>6. CASE TimerFires \/ BidsBack
  BY <1>6, EndIInv
<1>7. CASE UNCHANGED vars
  BY <1>7 DEF vars, ending, network, answers, finished, IInv, TypeOK, AllDoneExact, Counted,
     OutstandingExact, PromptEnd, Lifecycle, Quiet, InOnePlace
<1>8. QED BY <1>1, <1>2, <1>3, <1>4, <1>5, <1>6, <1>7 DEF Next

(* The inductive invariant holds of every auction. *)
THEOREM Invariance == Spec => []IInv
  BY InitIInv, StepIInv, PTL DEF Spec

(* Every variable keeps its type: in particular doneSignals never goes     *)
(* below zero, and what is cached, received or timed out is a bid.         *)
THEOREM TypeCorrect == Spec => []TypeOK
<1>1. IInv => TypeOK
  BY DEF IInv
<1>2. QED BY <1>1, Invariance, PTL

(* outstandingBidsAdded is exact in every auction. *)
THEOREM OutstandingIsExact == Spec => []OutstandingExact
<1>1. IInv => OutstandingExact
  BY DEF IInv, Counted
<1>2. QED BY <1>1, Invariance, PTL

(* An auction never waits for its timer once everybody it waits for has    *)
(* called done and nothing is being cached.                                *)
THEOREM EndsPromptly == Spec => []PromptEnd
<1>1. IInv => PromptEnd
  BY DEF IInv
<1>2. QED BY <1>1, Invariance, PTL

-----------------------------------------------------------------------------
(* How one step may change what executeCallback guards. *)
ClosesOnceStep ==
  /\ ended # "open" => UNCHANGED <<ended, timedOutImps>>
  /\ callback # callback' => \/ callback = "idle" /\ ended = "open" /\ ended' # "open"
                             \/ callback = "pending" /\ callback' = "called"

LEMMA AuctionDoneIfClosesOnce ==
  ASSUME IInv, NEW condition \in BOOLEAN, AuctionDoneIf(condition)
  PROVE  ClosesOnceStep
BY DEF AuctionDoneIf, AuctionDone, ExecuteCallback, ending, IInv, Lifecycle, ClosesOnceStep

LEMMA UnchangedClosesOnce ==
  ASSUME UNCHANGED <<ended, timedOutImps, callback>>
  PROVE  ClosesOnceStep
BY DEF ClosesOnceStep

LEMMA StepClosesOnce == IInv /\ [Next]_vars => ClosesOnceStep
<1> SUFFICES ASSUME IInv, [Next]_vars PROVE ClosesOnceStep
  OBVIOUS
<1>1. CASE Start
  <2>1. CASE CallBidsWithoutRequests
    BY <2>1 DEF CallBidsWithoutRequests, AuctionDone, ExecuteCallback, IInv, Lifecycle,
       ClosesOnceStep
  <2>2. CASE CallBids \/ Run
    BY <2>2, UnchangedClosesOnce DEF CallBids, Run
  <2>3. QED BY <1>1, <2>1, <2>2 DEF Start
<1>2. ASSUME NEW c \in Calls, AdapterStep(c) PROVE ClosesOnceStep
  BY <1>2, UnchangedClosesOnce DEF AdapterStep, CallAdapter, CallAdapterWithoutRequests,
     CallAdapterThrows, CallServerWithoutRequest, CallServerThrows, ending
<1>3. ASSUME NEW h \in Https, HttpStep(h) PROVE ClosesOnceStep
  <2>1. ASSUME NEW bids, NEW invalid, TakeResponse(h, bids, invalid) PROVE ClosesOnceStep
    <3>1. (invalid # {} /\ allDone /\ outstanding = 0) \in BOOLEAN
      OBVIOUS
    <3>2. QED BY <2>1, <3>1, AuctionDoneIfClosesOnce DEF TakeResponse
  <2>2. CASE Fail(h)
    BY <2>2, UnchangedClosesOnce DEF Fail, ending
  <2>3. QED BY <1>3, <2>1, <2>2 DEF HttpStep, Respond, RespondThrows
<1>4. ASSUME NEW b \in Bid, HookStep(b) \/ CacheAnswer(b) PROVE ClosesOnceStep
  <2>1. CASE Accept(b) \/ Reject(b)
    <3>1. (allDone /\ outstanding = 0) \in BOOLEAN
      BY DEF IInv, TypeOK
    <3>2. QED BY <2>1, <3>1, AuctionDoneIfClosesOnce DEF Accept, Reject
  <2>2. CASE AcceptVideo(b)
    BY <2>2, UnchangedClosesOnce DEF AcceptVideo, ending
  <2>3. CASE CacheAnswer(b)
    <3>1. (allDone /\ outstanding' = 0) \in BOOLEAN
      BY DEF IInv, TypeOK
    <3>2. QED BY <2>3, <3>1, AuctionDoneIfClosesOnce DEF CacheAnswer, afterBidAdded
  <2>4. QED BY <1>4, <2>1, <2>2, <2>3 DEF HookStep
<1>5. ASSUME NEW r \in Requests, AdapterDone(r) PROVE ClosesOnceStep
  <2>1. (allDone' /\ outstanding = 0) \in BOOLEAN
    BY <1>5 DEF AdapterDone, everyCalledDone
  <2>2. QED BY <1>5, <2>1, AuctionDoneIfClosesOnce DEF AdapterDone
<1>6. CASE TimerFires
  BY <1>6 DEF TimerFires, ExecuteCallback, IInv, Lifecycle, ClosesOnceStep
<1>7. CASE BidsBack
  BY <1>7 DEF BidsBack, ClosesOnceStep
<1>8. CASE UNCHANGED vars
  BY <1>8, UnchangedClosesOnce DEF vars, ending
<1>9. QED BY <1>1, <1>2, <1>3, <1>4, <1>5, <1>6, <1>7, <1>8 DEF Next

(* Whatever comes late, an auction closes once and calls the page once.    *)
THEOREM ClosesOnceAlways == Spec => ClosesOnce
<1>1. IInv /\ [Next]_vars => [ClosesOnceStep]_vars
  BY StepClosesOnce
<1>2. Spec => [][ClosesOnceStep]_vars
  BY <1>1, Invariance, PTL DEF Spec
<1>3. QED BY <1>2 DEF ClosesOnce, ClosesOnceStep

-----------------------------------------------------------------------------
(* What the page sees of a step, on the auction as AuctionPromise has it. *)
PromiseStep == Promise!Next \/ UNCHANGED Promise!vars

(* The end of an auction that runs, or has ended, as the page sees it. *)
LEMMA AuctionDoneIfSeen ==
  ASSUME IInv, NEW condition \in BOOLEAN, AuctionDoneIf(condition),
         status \notin {"none", "started"}
  PROVE  /\ status' \notin {"none", "started"}
         /\ ended # "open" \/ ~condition => Phase' = Phase
         /\ Phase = "open" /\ condition => Phase' = "closed"
         /\ Phase = "open" <=> ended = "open"
         /\ Phase # "idle"
BY DEF AuctionDoneIf, AuctionDone, ExecuteCallback, ending, IInv, Lifecycle, TypeOK, Phase

(* Whom the auction waits for depends on who is done alone, once it runs. *)
LEMMA WaitingWhileRunning ==
  ASSUME bidderRequests # {}
  PROVE  Waiting = Primary \ requestsDone
BY DEF Waiting

(* Steps that neither finish a bidder, nor touch the cache, nor end it. *)
LEMMA UnseenStep ==
  ASSUME UNCHANGED <<bidderRequests, requestsDone, caching, status>>, Phase' = Phase
  PROVE  PromiseStep
<1>1. Waiting' = Waiting
  BY DEF Waiting
<1>. QED  BY <1>1 DEF PromiseStep, Promise!vars

LEMMA StartSeen ==
  ASSUME IInv, IInv', Start
  PROVE  PromiseStep
<1> USE AuctionAssumption, PrimaryNotEmpty
<1>1. CASE CallBidsWithoutRequests
  <2>1. /\ status = "none" /\ status' = "completed" /\ ended' # "open" /\ callback' # "called"
        /\ bidderRequests = {} /\ bidderRequests' = {} /\ UNCHANGED caching
    BY <1>1 DEF CallBidsWithoutRequests, AuctionDone, ExecuteCallback, answers, IInv, Lifecycle
  <2>2. Phase = "idle" /\ Phase' = "closed" /\ Waiting' = {}
    BY <2>1 DEF Phase, Waiting
  <2>. QED  BY <2>1, <2>2 DEF PromiseStep, Promise!Next, Promise!Start
<1>2. CASE CallBids
  <2>1. /\ status = "none" /\ status' = "started"
        /\ UNCHANGED <<requestsDone, caching>>
    BY <1>2 DEF CallBids, finished, answers
  <2>2. Phase' = Phase /\ Waiting' = Waiting
    BY <2>1 DEF Phase, Waiting
  <2>. QED  BY <2>1, <2>2 DEF PromiseStep, Promise!vars
<1>3. CASE Run
  <2>1. /\ status = "started" /\ status' = "inProgress" /\ ended = "open"
        /\ UNCHANGED <<requestsDone, caching, ended, bidderRequests>>
    BY <1>3 DEF Run, finished, answers, IInv, Lifecycle
  <2>2. Phase = "idle" /\ Phase' = "open" /\ Waiting' = Waiting
    BY <2>1 DEF Phase, Waiting
  <2>. QED  BY <2>1, <2>2 DEF PromiseStep, Promise!Next, Promise!Start
<1>. QED  BY <1>1, <1>2, <1>3 DEF Start

LEMMA AdapterStepSeen ==
  ASSUME NEW c \in Calls, AdapterStep(c)
  PROVE  PromiseStep
<1>1. UNCHANGED <<bidderRequests, requestsDone, caching, status, ended, callback>>
  BY DEF AdapterStep, CallAdapter, CallAdapterWithoutRequests, CallAdapterThrows,
         CallServerWithoutRequest, CallServerThrows, ending, answers, finished
<1>2. Phase' = Phase
  BY <1>1 DEF Phase
<1>. QED  BY <1>1, <1>2, UnseenStep

(* A bid that is added or rejected, and a response, end no auction: one     *)
(* that waits for nothing has ended.                                        *)
LEMMA LateEnd ==
  ASSUME IInv, NEW condition \in BOOLEAN, condition => allDone /\ outstanding = 0,
         AuctionDoneIf(condition), bidderRequests # {}, status \notin {"none", "started"},
         UNCHANGED <<bidderRequests, requestsDone, caching>>
  PROVE  PromiseStep
<1>1. condition => ended # "open"
  BY FS_EmptySet DEF IInv, AllDoneExact, Counted, OutstandingExact, PromptEnd
<1>2. Phase' = Phase
  BY <1>1, AuctionDoneIfSeen
<1>3. Waiting' = Waiting
  BY DEF Waiting
<1>. QED  BY <1>2, <1>3 DEF PromiseStep, Promise!vars

LEMMA HttpStepSeen ==
  ASSUME IInv, NEW h \in Https, HttpStep(h)
  PROVE  PromiseStep
<1>1. ASSUME NEW bids, NEW invalid, TakeResponse(h, bids, invalid),
             UNCHANGED requestsDone
      PROVE  PromiseStep
  <2>1. /\ bidderRequests # {} /\ status \notin {"none", "started"}
        /\ AuctionDoneIf(invalid # {} /\ allDone /\ outstanding = 0)
        /\ UNCHANGED <<bidderRequests, requestsDone, caching>>
    BY <1>1, FlightMeansRunning DEF TakeResponse
  <2>2. (invalid # {} /\ allDone /\ outstanding = 0) \in BOOLEAN
    BY DEF IInv, TypeOK
  <2>. QED  BY <2>1, <2>2, LateEnd
<1>2. CASE Fail(h)
  <2>1. UNCHANGED <<bidderRequests, requestsDone, caching, status, ended, callback>>
    BY <1>2 DEF Fail, ending, answers
  <2>2. Phase' = Phase
    BY <2>1 DEF Phase
  <2>. QED  BY <2>1, <2>2, UnseenStep
<1>. QED  BY <1>1, <1>2 DEF HttpStep, Respond, RespondThrows, finished

LEMMA BidStepSeen ==
  ASSUME IInv, IInv', NEW b \in Bid, HookStep(b) \/ CacheAnswer(b)
  PROVE  PromiseStep
<1>1. bidderRequests # {} /\ status \notin {"none", "started"}
  BY DEF IInv, Quiet, HookStep, Accept, AcceptVideo, Reject, CacheAnswer
<1>2. CASE Accept(b) \/ Reject(b)
  <2>1. /\ AuctionDoneIf(allDone /\ outstanding = 0)
        /\ UNCHANGED <<bidderRequests, requestsDone, caching>>
    BY <1>2 DEF Accept, Reject, finished
  <2>2. (allDone /\ outstanding = 0) \in BOOLEAN
    BY DEF IInv, TypeOK
  <2>. QED  BY <1>1, <2>1, <2>2, LateEnd
<1>3. CASE AcceptVideo(b)
  <2>1. /\ caching' = caching \cup {b} /\ b \notin caching
        /\ UNCHANGED <<bidderRequests, status, ended, callback, requestsDone>>
    BY <1>3 DEF AcceptVideo, ending, finished, IInv, InOnePlace
  <2>2. Phase # "idle" /\ Phase' = Phase /\ Waiting' = Waiting
    BY <1>1, <2>1 DEF Phase, Waiting
  <2>3. caching' \in SUBSET Bid
    BY DEF IInv, TypeOK
  <2>. QED  BY <2>1, <2>2, <2>3 DEF PromiseStep, Promise!Next, Promise!Advance
<1>4. CASE CacheAnswer(b)
  <2>1. /\ caching' = caching \ {b} /\ b \in caching
        /\ AuctionDoneIf(allDone /\ outstanding' = 0)
        /\ UNCHANGED <<bidderRequests, requestsDone>>
    BY <1>4 DEF CacheAnswer, afterBidAdded, finished
  <2>2. (allDone /\ outstanding' = 0) \in BOOLEAN
    BY DEF IInv, TypeOK
  <2>3. Waiting = Primary \ requestsDone /\ Waiting' = Waiting
    BY <1>1, <2>1 DEF Waiting
  <2>4. allDone /\ outstanding' = 0 <=> Waiting' = {} /\ caching' = {}
    BY <2>1, <2>3, FS_EmptySet DEF IInv, AllDoneExact, Counted, OutstandingExact
  <2>5. /\ Phase # "idle"
        /\ Phase' = IF Phase = "open" /\ Waiting' = {} /\ caching' = {} THEN "closed" ELSE Phase
    BY <1>1, <2>1, <2>2, <2>4, AuctionDoneIfSeen
  <2>6. caching' \in SUBSET Bid
    BY DEF IInv, TypeOK
  <2>. QED  BY <2>1, <2>3, <2>5, <2>6 DEF PromiseStep, Promise!Next, Promise!Advance
<1>. QED  BY <1>2, <1>3, <1>4 DEF HookStep

LEMMA AdapterDoneSeen ==
  ASSUME IInv, IInv', NEW r \in Requests, AdapterDone(r)
  PROVE  PromiseStep
<1>1. bidderRequests # {} /\ status \notin {"none", "started"}
  BY DEF IInv, Quiet, AdapterDone
<1>2. /\ AuctionDoneIf(allDone' /\ outstanding = 0) /\ requestsDone' = requestsDone \cup {r}
      /\ UNCHANGED <<bidderRequests, caching, outstanding>>
  BY DEF AdapterDone, answers
<1>3. (allDone' /\ outstanding = 0) \in BOOLEAN
  BY DEF IInv, TypeOK
<1>4. Waiting = Primary \ requestsDone /\ Waiting' = Primary \ requestsDone'
  BY <1>1, <1>2 DEF Waiting
<1>5. allDone' /\ outstanding = 0 <=> Waiting' = {} /\ caching' = {}
  BY <1>2, <1>4, FS_EmptySet DEF IInv, AllDoneExact, Counted, OutstandingExact
<1>6. /\ Phase # "idle" /\ (Phase = "open" <=> ended = "open")
      /\ Phase' = IF Phase = "open" /\ Waiting' = {} /\ caching' = {} THEN "closed" ELSE Phase
  BY <1>1, <1>2, <1>3, <1>5, AuctionDoneIfSeen
<1>7. CASE Waiting' = Waiting
  <2>1. Waiting = {} /\ caching = {} => ended # "open"
    BY <1>4 DEF IInv, PromptEnd
  <2>2. Phase' = Phase
    BY <1>2, <1>6, <1>7, <2>1
  <2>. QED  BY <1>2, <1>7, <2>2 DEF PromiseStep, Promise!vars
<1>8. CASE Waiting' # Waiting
  <2>1. Waiting' \in SUBSET Waiting
    BY <1>2, <1>4
  <2>2. caching' \in SUBSET Bid
    BY DEF IInv, TypeOK
  <2>. QED  BY <1>6, <1>8, <2>1, <2>2 DEF PromiseStep, Promise!Next, Promise!Advance
<1>. QED  BY <1>7, <1>8

LEMMA EndSeen ==
  ASSUME IInv, TimerFires \/ BidsBack
  PROVE  PromiseStep
<1>1. CASE TimerFires
  <2>1. /\ status = "inProgress" /\ ended = "open" /\ bidderRequests # {}
        /\ status' = "completed" /\ ended' # "open" /\ callback' = "pending"
        /\ UNCHANGED <<bidderRequests, requestsDone, caching>>
    BY <1>1, AuctionAssumption
       DEF TimerFires, ExecuteCallback, finished, answers, IInv, Lifecycle, TypeOK
  <2>2. Phase = "open" /\ Phase' = "closed" /\ Waiting' = Waiting
    BY <2>1 DEF Phase, Waiting
  <2>. QED  BY <2>1, <2>2 DEF PromiseStep, Promise!Next, Promise!TimeUp
<1>2. CASE BidsBack
  <2>1. /\ callback = "pending" /\ callback' = "called" /\ status = "completed" /\ ended # "open"
        /\ UNCHANGED <<bidderRequests, status, ended, requestsDone, caching>>
    BY <1>2 DEF BidsBack, finished, answers, IInv, Lifecycle
  <2>2. Phase = "closed" /\ Phase' = "reported" /\ Waiting' = Waiting
    BY <2>1 DEF Phase, Waiting
  <2>. QED  BY <2>1, <2>2 DEF PromiseStep, Promise!Next, Promise!Report
<1>. QED  BY <1>1, <1>2

(* Every step of the auction is one the promise allows, or none at all. *)
LEMMA StepSeen == IInv /\ IInv' /\ [Next]_vars => PromiseStep
<1> SUFFICES ASSUME IInv, IInv', [Next]_vars PROVE PromiseStep
  OBVIOUS
<1>1. CASE Start
  BY <1>1, StartSeen
<1>2. ASSUME NEW c \in Calls, AdapterStep(c) PROVE PromiseStep
  BY <1>2, AdapterStepSeen
<1>3. ASSUME NEW h \in Https, HttpStep(h) PROVE PromiseStep
  BY <1>3, HttpStepSeen
<1>4. ASSUME NEW b \in Bid, HookStep(b) \/ CacheAnswer(b) PROVE PromiseStep
  BY <1>4, BidStepSeen
<1>5. ASSUME NEW r \in Requests, AdapterDone(r) PROVE PromiseStep
  BY <1>5, AdapterDoneSeen
<1>6. CASE TimerFires \/ BidsBack
  BY <1>6, EndSeen
<1>7. CASE UNCHANGED vars
  <2>1. UNCHANGED <<bidderRequests, requestsDone, caching, status, ended, callback>>
    BY <1>7 DEF vars, ending, answers, finished
  <2>2. Phase' = Phase
    BY <2>1 DEF Phase
  <2>. QED  BY <2>1, <2>2, UnseenStep
<1>8. QED BY <1>1, <1>2, <1>3, <1>4, <1>5, <1>6, <1>7 DEF Next

(* The auction implements the safety of what it promises the page: for any  *)
(* bidders, faults and modules, it closes in the very step that leaves      *)
(* nothing to wait for, or when its time is up, and hands over once.        *)
THEOREM ImplementsPromise == Spec => Promise!Safety
<1>1. Init => Promise!Init
  <2>. SUFFICES ASSUME Init PROVE Promise!Init
    OBVIOUS
  <2>1. Phase = "idle" /\ Waiting = Primary
    BY DEF Init, Phase, Waiting
  <2>. QED  BY <2>1 DEF Init, Promise!Init
<1>2. IInv /\ IInv' /\ [Next]_vars => [Promise!Next]_(Promise!vars)
  BY StepSeen DEF PromiseStep
<1>. QED  BY <1>1, <1>2, Invariance, PTL DEF Spec, Promise!Safety

-----------------------------------------------------------------------------
(* How an auction ends: by its timer, or done with everybody it asked. *)
EndsHow ==
  ended = "open" /\ ended' # "open" =>
    \/ TimerFires /\ ended' = "timeout"
    \/ ended' = "done" /\ (bidderRequests = {} \/ (allDone' /\ outstanding' = 0))

LEMMA AuctionDoneIfEnds ==
  ASSUME NEW condition \in BOOLEAN, AuctionDoneIf(condition),
         condition => allDone' /\ outstanding' = 0
  PROVE  EndsHow
BY DEF AuctionDoneIf, AuctionDone, ExecuteCallback, ending, EndsHow

LEMMA StepEndsHow == IInv /\ [Next]_vars => EndsHow
<1> SUFFICES ASSUME IInv, [Next]_vars PROVE EndsHow
  OBVIOUS
<1>0. ASSUME UNCHANGED ended PROVE EndsHow
  BY <1>0 DEF EndsHow
<1>1. CASE Start
  <2>1. CASE CallBidsWithoutRequests
    BY <2>1 DEF CallBidsWithoutRequests, AuctionDone, ExecuteCallback, IInv, Lifecycle, EndsHow
  <2>. QED  BY <1>0, <1>1, <2>1 DEF Start, CallBids, Run
<1>2. ASSUME NEW c \in Calls, AdapterStep(c) PROVE EndsHow
  BY <1>0, <1>2 DEF AdapterStep, CallAdapter, CallAdapterWithoutRequests,
     CallAdapterThrows, CallServerWithoutRequest, CallServerThrows, ending
<1>3. ASSUME NEW h \in Https, HttpStep(h) PROVE EndsHow
  <2>1. ASSUME NEW bids, NEW invalid, TakeResponse(h, bids, invalid), UNCHANGED allDone
        PROVE  EndsHow
    <3>1. (invalid # {} /\ allDone /\ outstanding = 0) \in BOOLEAN
      OBVIOUS
    <3>. QED  BY <2>1, <3>1, AuctionDoneIfEnds DEF TakeResponse
  <2>2. CASE Fail(h)
    BY <1>0, <2>2 DEF Fail, ending
  <2>3. CASE Respond(h)
    BY <2>1, <2>3 DEF Respond
  <2>4. CASE RespondThrows(h)
    BY <2>1, <2>4 DEF RespondThrows, finished
  <2>. QED  BY <1>3, <2>2, <2>3, <2>4 DEF HttpStep
<1>4. ASSUME NEW b \in Bid, HookStep(b) \/ CacheAnswer(b) PROVE EndsHow
  <2>1. CASE Accept(b) \/ Reject(b)
    <3>1. /\ AuctionDoneIf(allDone /\ outstanding = 0)
          /\ UNCHANGED <<allDone, outstanding>>
      BY <2>1 DEF Accept, Reject, finished
    <3>2. (allDone /\ outstanding = 0) \in BOOLEAN
      OBVIOUS
    <3>. QED  BY <3>1, <3>2, AuctionDoneIfEnds
  <2>2. CASE AcceptVideo(b)
    BY <1>0, <2>2 DEF AcceptVideo, ending
  <2>3. CASE CacheAnswer(b)
    <3>1. (allDone /\ outstanding' = 0) \in BOOLEAN
      BY DEF IInv, TypeOK
    <3>. QED  BY <2>3, <3>1, AuctionDoneIfEnds DEF CacheAnswer, afterBidAdded, finished
  <2>. QED  BY <1>4, <2>1, <2>2, <2>3 DEF HookStep
<1>5. ASSUME NEW r \in Requests, AdapterDone(r) PROVE EndsHow
  <2>1. (allDone' /\ outstanding = 0) \in BOOLEAN
    BY <1>5 DEF AdapterDone, everyCalledDone
  <2>. QED  BY <1>5, <2>1, AuctionDoneIfEnds DEF AdapterDone, answers
<1>6. CASE TimerFires
  BY <1>6 DEF TimerFires, ExecuteCallback, EndsHow
<1>7. CASE BidsBack \/ UNCHANGED vars
  BY <1>0, <1>7 DEF BidsBack, vars, ending
<1>. QED  BY <1>1, <1>2, <1>3, <1>4, <1>5, <1>6, <1>7 DEF Next

-----------------------------------------------------------------------------
(* The timely bidder requests are those with an answered HTTP request. *)
TimelyExact ==
  timely = {r \in Requests : \E h \in HttpsOf(CallOf[r]) : http[h] = "answered"}

LEMMA TimelyKept ==
  ASSUME TimelyExact, UNCHANGED timely,
         \A h \in Https : http'[h] = "answered" <=> http[h] = "answered"
  PROVE  TimelyExact'
BY DEF TimelyExact, HttpsOf

LEMMA TimelyAnswered ==
  ASSUME TimelyExact, NEW h \in Https, http \in [Https -> {"unsent", "flight", "answered", "aborted"}],
         http' = [http EXCEPT ![h] = "answered"], onTimelyResponse(Caller[h])
  PROVE  TimelyExact'
<1>1. timely' = timely \cup {r \in Requests : CallOf[r] = Caller[h]}
  BY DEF onTimelyResponse, Served
<1>2. \A g \in Https : http'[g] = "answered" <=> http[g] = "answered" \/ g = h
  OBVIOUS
<1>. QED  BY <1>1, <1>2 DEF TimelyExact, HttpsOf

(* What calling an adapter does to its HTTP requests. *)
LEMMA AdapterSends ==
  ASSUME IInv, NEW c \in Calls, AdapterStep(c)
  PROVE  /\ c \in toCall /\ toCall' \subseteq toCall \ {c}
         /\ \A h \in HttpsOf(c) : http[h] = "unsent" /\ http'[h] \in {"unsent", "flight"}
         /\ \A h \in Https : Caller[h] # c => http'[h] = http[h]
         /\ UNCHANGED <<timely, hooked, responded, requestsDone, noBids>>
<1>1. c \in toCall /\ toCall' \subseteq toCall \ {c}
  BY DEF AdapterStep, CallAdapter, CallAdapterWithoutRequests, CallAdapterThrows,
         CallServerWithoutRequest, CallServerThrows, NextCall
<1>2. \A h \in HttpsOf(c) : http[h] = "unsent"
  BY <1>1 DEF IInv, InOnePlace, HttpsOf
<1>3. /\ \A h \in HttpsOf(c) : http'[h] \in {"unsent", "flight"}
      /\ \A h \in Https : Caller[h] # c => http'[h] = http[h]
  BY <1>2 DEF AdapterStep, CallAdapter, CallAdapterWithoutRequests, CallAdapterThrows,
         CallServerWithoutRequest, CallServerThrows, HttpsOf
<1>4. UNCHANGED <<timely, hooked, responded, requestsDone, noBids>>
  BY DEF AdapterStep, CallAdapter, CallAdapterWithoutRequests, CallAdapterThrows,
         CallServerWithoutRequest, CallServerThrows, answers, finished
<1>. QED  BY <1>1, <1>2, <1>3, <1>4

LEMMA StepTimely == IInv /\ TimelyExact /\ [Next]_vars => TimelyExact'
<1> SUFFICES ASSUME IInv, TimelyExact, [Next]_vars PROVE TimelyExact'
  OBVIOUS
<1>0. ASSUME UNCHANGED <<http, timely>> PROVE TimelyExact'
  BY <1>0, TimelyKept
<1>1. CASE Start
  BY <1>0, <1>1 DEF Start, CallBidsWithoutRequests, CallBids, Run, network
<1>2. ASSUME NEW c \in Calls, AdapterStep(c) PROVE TimelyExact'
  <2>1. \A h \in Https : http'[h] = "answered" <=> http[h] = "answered"
    BY <1>2, AdapterSends DEF HttpsOf
  <2>. QED  BY <1>2, <2>1, AdapterSends, TimelyKept
<1>3. ASSUME NEW h \in Https, HttpStep(h) PROVE TimelyExact'
  <2>0. http \in [Https -> {"unsent", "flight", "answered", "aborted"}]
    BY DEF IInv, TypeOK
  <2>1. ASSUME http' = [http EXCEPT ![h] = "answered"], onTimelyResponse(Caller[h])
        PROVE  TimelyExact'
    BY <2>0, <2>1, TimelyAnswered
  <2>2. CASE Respond(h) \/ RespondThrows(h)
    BY <2>1, <2>2 DEF Respond, RespondThrows, TakeResponse
  <2>3. CASE Fail(h)
    <3>1. ASSUME http[h] = "flight", http' = [http EXCEPT ![h] = "aborted"], UNCHANGED timely
          PROVE  TimelyExact'
      BY <2>0, <3>1, TimelyKept
    <3>. QED  BY <2>1, <2>3, <3>1 DEF Fail
  <2>. QED  BY <1>3, <2>2, <2>3 DEF HttpStep
<1>4. ASSUME NEW b \in Bid, HookStep(b) \/ CacheAnswer(b) PROVE TimelyExact'
  BY <1>0, <1>4 DEF HookStep, Accept, AcceptVideo, Reject, CacheAnswer, network
<1>5. ASSUME NEW r \in Requests, AdapterDone(r) PROVE TimelyExact'
  BY <1>0, <1>5 DEF AdapterDone, network
<1>6. CASE TimerFires \/ BidsBack \/ UNCHANGED vars
  BY <1>0, <1>6 DEF TimerFires, BidsBack, vars, network
<1>. QED  BY <1>1, <1>2, <1>3, <1>4, <1>5, <1>6 DEF Next

TimeoutStep ==
  ended = "open" /\ ended' = "timeout" =>
    timedOutImps' = {i \in Imps : \A h \in HttpsOf(CallOfImp(i)) : http[h] # "answered"}

LEMMA StepTimeout == IInv /\ TimelyExact /\ [Next]_vars => TimeoutStep
<1> SUFFICES ASSUME IInv, TimelyExact, [Next]_vars, ended = "open", ended' = "timeout"
             PROVE  timedOutImps' = {i \in Imps : \A h \in HttpsOf(CallOfImp(i)) : http[h] # "answered"}
  BY DEF TimeoutStep
<1> USE AuctionAssumption
<1>1. TimerFires
  BY StepEndsHow DEF EndsHow
<1>2. bidderRequests = Requests /\ timedOutImps' = silentBids
  BY <1>1 DEF TimerFires, ExecuteCallback, IInv, Lifecycle
<1>3. silentBids = {i \in Imps : Owner[i] \in Requests \ timely}
  BY <1>2 DEF silentBids
<1>. QED  BY <1>2, <1>3 DEF TimelyExact, CallOfImp

(* BID_TIMEOUT names exactly the bid requests of the bidders that have not  *)
(* answered any of their HTTP requests, whatever adapters throw.            *)
THEOREM TimeoutsAreSilent == Spec => TimeoutReport
<1>1. Init => TimelyExact
  BY DEF Init, TimelyExact, HttpsOf
<1>2. Spec => []TimelyExact
  BY <1>1, StepTimely, Invariance, PTL DEF Spec
<1>3. IInv /\ TimelyExact /\ [Next]_vars =>
        [ended = "open" /\ ended' = "timeout" =>
           timedOutImps' = {i \in Imps : \A h \in HttpsOf(CallOfImp(i)) : http[h] # "answered"}]_vars
  BY StepTimeout DEF TimeoutStep
<1>. QED  BY <1>2, <1>3, Invariance, PTL DEF Spec, TimeoutReport

-----------------------------------------------------------------------------
(* When nobody hears of a bidder's end before its answers: no module holds  *)
(* bids without holding responsesReady too, sending a request does not      *)
(* throw once another has left, and neither does getUserSyncs.              *)
Orderly == Hook # "async" /\ Faults \subseteq {"build", "bid"}

Flying(c) == {h \in HttpsOf(c) : http[h] = "flight"}
Signalled(r) == doneSignals[r] # 0 \/ r \in requestsDone

(* delayExecution waits for at least the requests in flight. *)
LeftCovers == \A c \in Calls : Cardinality(Flying(c)) <= left[c]

(* A bidder is done at most once, when its adapter was called and has no    *)
(* request in flight.                                                       *)
DoneOnce ==
  \A r \in Requests :
    /\ doneSignals[r] <= IF r \in requestsDone THEN 0 ELSE 1
    /\ Signalled(r) => CallOf[r] \notin toCall /\ Flying(CallOf[r]) = {}

(* No bid of a bidder that is done is held by a module. *)
HeardOut == \A b \in hooked : Owner[b[2]] \notin requestsDone

(* NO_BID goes out once, for the bid requests of bidders that are done. *)
NoBidMeans ==
  \A i \in Imps :
    /\ noBids[i] <= IF i \in responded THEN 0 ELSE 1
    /\ noBids[i] # 0 => Owner[i] \in requestsDone

OInv == LeftCovers /\ DoneOnce /\ HeardOut /\ NoBidMeans

LEMMA FlyingIsFinite == \A c \in Calls : IsFiniteSet(Flying(c)) /\ Cardinality(Flying(c)) \in Nat
<1>1. \A c \in Calls : Flying(c) \subseteq Https
  BY DEF Flying, HttpsOf
<1>. QED  BY <1>1, AuctionAssumption, FS_Subset, FS_CardinalityType

LEMMA InitOInv == Init => OInv
<1> SUFFICES ASSUME Init PROVE OInv
  OBVIOUS
<1> USE AuctionAssumption
<1>1. LeftCovers
  <2>1. \A c \in Calls : Flying(c) = {} /\ left[c] = 0
    BY DEF Init, Flying, HttpsOf
  <2>. QED  BY <2>1, FS_EmptySet DEF LeftCovers
<1>2. DoneOnce /\ HeardOut /\ NoBidMeans
  BY DEF Init, DoneOnce, Signalled, HeardOut, NoBidMeans
<1>. QED  BY <1>1, <1>2 DEF OInv

(* Calling an adapter: it had sent nothing, and nobody it serves was done.  *)
LEMMA AdapterOrderly ==
  ASSUME Orderly, IInv, OInv, NEW c \in Calls, AdapterStep(c)
  PROVE  OInv'
<1> USE AuctionAssumption
<1>1. /\ c \in toCall /\ toCall' \subseteq toCall \ {c}
      /\ \A h \in HttpsOf(c) : http[h] = "unsent"
      /\ \A h \in Https : Caller[h] # c => http'[h] = http[h]
      /\ UNCHANGED <<hooked, responded, requestsDone, noBids>>
  BY AdapterSends
<1>2. Flying(c) = {}
  BY <1>1 DEF Flying
<1>3. \A d \in Calls \ {c} : Flying(d)' = Flying(d)
  BY <1>1 DEF Flying, HttpsOf
<1>4. \A r \in Requests : CallOf[r] = c => ~Signalled(r)
  BY <1>1 DEF OInv, DoneOnce
<1>5. \/ UNCHANGED doneSignals
      \/ Flying(c)' = {} /\ Signal(c, 1)
  <2>1. CASE CallAdapter(c)
    BY <2>1 DEF CallAdapter, finished
  <2>2. CASE CallAdapterWithoutRequests(c)
    BY <1>2, <2>2 DEF CallAdapterWithoutRequests, Flying, Orderly
  <2>3. CASE CallAdapterThrows(c)
    <3>1. http' = [h \in Https |-> http[h]]
      BY <2>3 DEF CallAdapterThrows, Orderly
    <3>. QED  BY <1>2, <2>3, <3>1 DEF CallAdapterThrows, Flying, HttpsOf
  <2>4. CASE CallServerWithoutRequest(c) \/ CallServerThrows(c)
    BY <2>4 DEF CallServerWithoutRequest, CallServerThrows, finished
  <2>. QED  BY <2>1, <2>2, <2>3, <2>4 DEF AdapterStep
<1>6. LeftCovers'
  <2>1. CASE CallAdapter(c)
    <3>1. PICK sent \in SUBSET HttpsOf(c) :
            /\ http' = [h \in Https |-> IF h \in sent THEN "flight" ELSE http[h]]
            /\ left' = [left EXCEPT ![c] = Cardinality(sent)]
      BY <2>1 DEF CallAdapter
    <3>2. Flying(c)' = sent
      BY <1>1, <3>1 DEF Flying, HttpsOf
    <3>3. IsFiniteSet(sent) /\ Cardinality(sent) \in Nat
      BY FS_Subset, FS_CardinalityType DEF HttpsOf
    <3>. QED  BY <1>3, <3>1, <3>2, <3>3 DEF OInv, LeftCovers, IInv, TypeOK
  <2>2. CASE CallAdapterThrows(c)
    <3>1. /\ http' = [h \in Https |-> http[h]]
          /\ \E built \in SUBSET HttpsOf(c) :
               built = {} /\ left' = [left EXCEPT ![c] = Cardinality(built)]
      BY <2>2 DEF CallAdapterThrows, Orderly
    <3>2. Flying(c)' = {} /\ left' = [left EXCEPT ![c] = 0]
      BY <1>2, <3>1, FS_EmptySet DEF Flying, HttpsOf
    <3>3. Cardinality(Flying(c))' = 0
      BY <3>2, FS_EmptySet
    <3>4. ASSUME NEW d \in Calls PROVE Cardinality(Flying(d))' <= left'[d]
      <4>1. CASE d = c
        <5>1. left'[d] = 0
          BY <3>2, <4>1 DEF IInv, TypeOK
        <5>. QED  BY <3>3, <4>1, <5>1
      <4>2. CASE d # c
        <5>1. left'[d] = left[d] /\ Flying(d)' = Flying(d)
          BY <1>3, <3>2, <4>2 DEF IInv, TypeOK
        <5>. QED  BY <5>1 DEF OInv, LeftCovers
      <4>. QED  BY <4>1, <4>2
    <3>. QED  BY <3>4 DEF LeftCovers
  <2>3. CASE UNCHANGED <<http, left>>
    BY <2>3 DEF OInv, LeftCovers, Flying
  <2>. QED
    BY <2>1, <2>2, <2>3 DEF AdapterStep, CallAdapterWithoutRequests,
       CallServerWithoutRequest, CallServerThrows
<1>7. DoneOnce'
  <2> SUFFICES ASSUME NEW r \in Requests
               PROVE  /\ doneSignals'[r] <= IF r \in requestsDone' THEN 0 ELSE 1
                      /\ Signalled(r)' => CallOf[r] \notin toCall' /\ Flying(CallOf[r])' = {}
    BY DEF DoneOnce
  <2>0. doneSignals[r] \in Nat /\ CallOf[r] \in Calls
    BY DEF IInv, TypeOK
  <2>1. CASE CallOf[r] # c
    BY <1>1, <1>3, <1>5, <2>0, <2>1 DEF OInv, DoneOnce, Signalled, Signal
  <2>2. CASE CallOf[r] = c
    BY <1>1, <1>4, <1>5, <2>0, <2>2 DEF Signalled, Signal
  <2>. QED  BY <2>1, <2>2
<1>8. HeardOut' /\ NoBidMeans'
  BY <1>1 DEF OInv, HeardOut, NoBidMeans
<1>. QED  BY <1>6, <1>7, <1>8 DEF OInv

(* An HTTP request settles: one less in flight. *)
LEMMA OneLess ==
  ASSUME IInv, NEW h \in Https, http[h] = "flight", NEW how \in {"answered", "aborted"},
         http' = [http EXCEPT ![h] = how]
  PROVE  /\ h \in Flying(Caller[h])
         /\ Flying(Caller[h])' = Flying(Caller[h]) \ {h}
         /\ Cardinality(Flying(Caller[h])') = Cardinality(Flying(Caller[h])) - 1
         /\ \A d \in Calls \ {Caller[h]} : Flying(d)' = Flying(d)
<1> USE AuctionAssumption
<1>1. http \in [Https -> {"unsent", "flight", "answered", "aborted"}] /\ Caller[h] \in Calls
  BY DEF IInv, TypeOK
<1>2. h \in Flying(Caller[h]) /\ Flying(Caller[h])' = Flying(Caller[h]) \ {h}
  BY <1>1 DEF Flying, HttpsOf
<1>3. \A d \in Calls \ {Caller[h]} : Flying(d)' = Flying(d)
  BY <1>1 DEF Flying, HttpsOf
<1>4. IsFiniteSet(Flying(Caller[h]))
  BY <1>1, FlyingIsFinite
<1>5. Cardinality(Flying(Caller[h]) \ {h}) = Cardinality(Flying(Caller[h])) - 1
  BY <1>2, <1>4, FS_RemoveElement
<1>. QED  BY <1>2, <1>3, <1>5

(* Nobody the adapter of a request in flight serves is done. *)
LEMMA FlightMeansUndone ==
  ASSUME IInv, OInv, NEW h \in Https, http[h] = "flight"
  PROVE  /\ Caller[h] \notin toCall
         /\ \A r \in Requests : CallOf[r] = Caller[h] => ~Signalled(r)
BY DEF IInv, InOnePlace, OInv, DoneOnce, Flying, HttpsOf

LEMMA RequestDoneOrderly ==
  ASSUME IInv, OInv, NEW h \in Https, http[h] = "flight", NEW how \in {"answered", "aborted"},
         http' = [http EXCEPT ![h] = how], RequestDone(Caller[h]),
         UNCHANGED <<toCall, requestsDone>>
  PROVE  LeftCovers' /\ DoneOnce'
<1> USE AuctionAssumption
<1> DEFINE c == Caller[h]
<1>0. c \in Calls /\ left \in [Calls -> Int]
  BY DEF IInv, TypeOK
<1>1. /\ h \in Flying(c) /\ Flying(c)' = Flying(c) \ {h}
      /\ Cardinality(Flying(c)') = Cardinality(Flying(c)) - 1
      /\ \A d \in Calls \ {c} : Flying(d)' = Flying(d)
  BY OneLess
<1>2. c \notin toCall /\ \A r \in Requests : CallOf[r] = c => ~Signalled(r)
  BY FlightMeansUndone
<1>3. ASSUME NEW d \in Calls PROVE Cardinality(Flying(d)') <= left'[d]
  <2>1. CASE d = c
    <3>1. left'[c] = left[c] - 1 /\ Cardinality(Flying(c)) <= left[c]
      BY <1>0 DEF RequestDone, OInv, LeftCovers
    <3>2. Cardinality(Flying(c)) \in Nat /\ left[c] \in Int
      BY <1>0, FlyingIsFinite
    <3>3. Cardinality(Flying(c)') <= left'[c]
      BY <1>1, <3>1, <3>2
    <3>. QED  BY <2>1, <3>3
  <2>2. CASE d # c
    BY <1>0, <1>1, <2>2 DEF RequestDone, OInv, LeftCovers
  <2>. QED  BY <2>1, <2>2
<1>4. LeftCovers'
  BY <1>3 DEF LeftCovers
<1>5. left[c] = 1 => Flying(c)' = {}
  <2>1. IsFiniteSet(Flying(c)') /\ Cardinality(Flying(c)') \in Nat
    <3>1. IsFiniteSet(Flying(c))
      BY <1>0, FlyingIsFinite
    <3>2. IsFiniteSet(Flying(c) \ {h})
      BY <3>1, FS_RemoveElement
    <3>3. IsFiniteSet(Flying(c)')
      BY <1>1, <3>2
    <3>. QED  BY <3>3, FS_CardinalityType
  <2>2. left[c] = 1 => Cardinality(Flying(c)') = 0
    <3>1. Cardinality(Flying(c)) <= left[c] /\ Cardinality(Flying(c)) \in Nat
      BY <1>0, FlyingIsFinite DEF OInv, LeftCovers
    <3>. QED  BY <1>1, <2>1, <3>1
  <2>. QED  BY <2>1, <2>2, FS_EmptySet
<1>6. ASSUME NEW r \in Requests
      PROVE  /\ doneSignals'[r] <= IF r \in requestsDone' THEN 0 ELSE 1
             /\ Signalled(r)' => CallOf[r] \notin toCall' /\ Flying(CallOf[r])' = {}
  <2>0. doneSignals[r] \in Nat /\ CallOf[r] \in Calls
    BY DEF IInv, TypeOK
  <2>1. CASE CallOf[r] # c
    BY <1>1, <2>0, <2>1 DEF OInv, DoneOnce, Signalled, RequestDone, Signal
  <2>2. CASE CallOf[r] = c
    BY <1>2, <1>5, <2>0, <2>2 DEF Signalled, RequestDone, Signal
  <2>. QED  BY <2>1, <2>2
<1>. QED  BY <1>4, <1>6 DEF DoneOnce

(* A response: its bids, and the invalid ones, are of bidders not done.     *)
LEMMA TakeResponseOrderly ==
  ASSUME IInv, OInv, NEW h \in Https, NEW bids \in SUBSET BidsIn(h),
         NEW invalid \in SUBSET BidsIn(h), TakeResponse(h, bids, invalid),
         UNCHANGED <<requestsDone, noBids>>
  PROVE  HeardOut' /\ NoBidMeans'
<1> USE AuctionAssumption
<1>1. \A i \in ImpsOf(Caller[h]) : Owner[i] \in Requests /\ Owner[i] \notin requestsDone
  BY FlightMeansUndone DEF TakeResponse, ImpsOf, CallOfImp, Signalled
<1>2. /\ \A b \in bids : Owner[b[2]] \notin requestsDone
      /\ \A b \in invalid : b[2] \in Imps /\ Owner[b[2]] \notin requestsDone
  BY <1>1 DEF BidsIn, ImpsOf
<1>3. HeardOut'
  BY <1>2 DEF TakeResponse, OInv, HeardOut
<1>4. \A i \in Imps : i \in responded' => i \in responded \/ noBids[i] = 0
  BY <1>2 DEF TakeResponse, OInv, NoBidMeans
<1>5. NoBidMeans'
  BY <1>4 DEF TakeResponse, OInv, NoBidMeans, IInv, TypeOK
<1>. QED  BY <1>3, <1>5

LEMMA HttpOrderly ==
  ASSUME IInv, OInv, NEW h \in Https, HttpStep(h)
  PROVE  OInv'
<1> USE AuctionAssumption
<1>0. http \in [Https -> {"unsent", "flight", "answered", "aborted"}]
  BY DEF IInv, TypeOK
<1>1. CASE Respond(h)
  <2>1. PICK bids \in SUBSET BidsIn(h), invalid \in SUBSET BidsIn(h) :
          TakeResponse(h, bids, invalid)
    BY <1>1 DEF Respond
  <2>2. HeardOut' /\ NoBidMeans'
    BY <1>1, <2>1, TakeResponseOrderly DEF Respond
  <2>3. LeftCovers' /\ DoneOnce'
    BY <1>1, <2>1, RequestDoneOrderly DEF Respond, TakeResponse
  <2>. QED  BY <2>2, <2>3 DEF OInv
<1>2. CASE RespondThrows(h)
  <2>1. PICK bids \in SUBSET BidsIn(h), invalid \in SUBSET BidsIn(h) :
          TakeResponse(h, bids, invalid)
    BY <1>2 DEF RespondThrows
  <2>2. HeardOut' /\ NoBidMeans'
    BY <1>2, <2>1, TakeResponseOrderly DEF RespondThrows, finished
  <2>3. /\ http[h] = "flight" /\ http' = [http EXCEPT ![h] = "answered"]
        /\ UNCHANGED <<left, doneSignals, requestsDone, toCall>>
    BY <1>2, <2>1 DEF RespondThrows, TakeResponse, finished
  <2>4. /\ Flying(Caller[h])' = Flying(Caller[h]) \ {h}
        /\ Cardinality(Flying(Caller[h])') = Cardinality(Flying(Caller[h])) - 1
        /\ \A d \in Calls \ {Caller[h]} : Flying(d)' = Flying(d)
    BY <2>3, OneLess
  <2>5. ASSUME NEW d \in Calls PROVE Cardinality(Flying(d)') <= left'[d]
    <3>1. Cardinality(Flying(d)) \in Nat /\ left[d] \in Int /\ Cardinality(Flying(d)) <= left[d]
      BY FlyingIsFinite DEF OInv, LeftCovers, IInv, TypeOK
    <3>2. CASE d = Caller[h]
      <4>1. Cardinality(Flying(Caller[h])') <= left[Caller[h]]
        BY <2>4, <3>1, <3>2
      <4>. QED  BY <2>3, <3>2, <4>1
    <3>3. CASE d # Caller[h]
      BY <2>3, <2>4, <3>1, <3>3
    <3>. QED  BY <3>2, <3>3
  <2>6. LeftCovers'
    BY <2>5 DEF LeftCovers
  <2>7. DoneOnce'
    BY <2>3, <2>4 DEF OInv, DoneOnce, Signalled
  <2>. QED  BY <2>2, <2>6, <2>7 DEF OInv
<1>3. CASE Fail(h)
  <2>1. /\ http[h] = "flight" /\ RequestDone(Caller[h])
        /\ UNCHANGED <<toCall, requestsDone, hooked, responded, noBids>>
        /\ \E how \in {"answered", "aborted"} : http' = [http EXCEPT ![h] = how]
    BY <1>3 DEF Fail, answers
  <2>2. LeftCovers' /\ DoneOnce'
    BY <2>1, RequestDoneOrderly
  <2>3. HeardOut' /\ NoBidMeans'
    BY <2>1 DEF OInv, HeardOut, NoBidMeans
  <2>. QED  BY <2>2, <2>3 DEF OInv
<1>. QED  BY <1>1, <1>2, <1>3 DEF HttpStep

LEMMA AdapterDoneOrderly ==
  ASSUME Orderly, IInv, OInv, NEW r \in Requests, AdapterDone(r)
  PROVE  OInv'
<1> USE AuctionAssumption
<1>0. doneSignals \in [Requests -> Nat] /\ noBids \in [Imps -> Nat]
  BY DEF IInv, TypeOK
<1>1. /\ doneSignals[r] > 0
      /\ doneSignals' = [doneSignals EXCEPT ![r] = @ - 1]
      /\ requestsDone' = requestsDone \cup {r}
      /\ noBids' = [i \in Imps |-> IF i \in withoutBid(r) THEN noBids[i] + 1 ELSE noBids[i]]
      /\ UNCHANGED <<toCall, http, left, hooked, responded>>
  BY DEF AdapterDone, network, answers
<1>2. hooked = {}
  BY DEF AdapterDone, Idle, HooksSettled, responsesReady, Orderly
<1>3. doneSignals[r] = 1 /\ r \notin requestsDone /\ Signalled(r)
  BY <1>0, <1>1 DEF OInv, DoneOnce, Signalled
<1>4. LeftCovers' /\ HeardOut'
  BY <1>1, <1>2 DEF OInv, LeftCovers, Flying, HeardOut
<1>5. DoneOnce'
  <2>1. \A d \in Calls : Flying(d)' = Flying(d)
    BY <1>1 DEF Flying
  <2>2. \A q \in Requests : Signalled(q)' => Signalled(q)
    BY <1>0, <1>1, <1>3 DEF Signalled
  <2>3. \A q \in Requests : doneSignals'[q] <= IF q \in requestsDone' THEN 0 ELSE 1
    BY <1>0, <1>1, <1>3 DEF OInv, DoneOnce
  <2>. QED  BY <1>1, <2>1, <2>2, <2>3 DEF OInv, DoneOnce
<1>6. NoBidMeans'
  <2> SUFFICES ASSUME NEW i \in Imps
               PROVE  /\ noBids'[i] <= IF i \in responded' THEN 0 ELSE 1
                      /\ noBids'[i] # 0 => Owner[i] \in requestsDone'
    BY DEF NoBidMeans
  <2>1. CASE i \in withoutBid(r)
    <3>1. i \notin responded /\ Owner[i] = r /\ noBids[i] = 0
      BY <1>0, <1>3, <2>1 DEF withoutBid, OInv, NoBidMeans
    <3>. QED  BY <1>1, <2>1, <3>1
  <2>2. CASE i \notin withoutBid(r)
    BY <1>1, <2>2 DEF OInv, NoBidMeans
  <2>. QED  BY <2>1, <2>2
<1>. QED  BY <1>4, <1>5, <1>6 DEF OInv

LEMMA StepOInv == Orderly /\ IInv /\ OInv /\ [Next]_vars => OInv'
<1> SUFFICES ASSUME Orderly, IInv, OInv, [Next]_vars PROVE OInv'
  OBVIOUS
<1> USE AuctionAssumption
<1>0. ASSUME UNCHANGED <<toCall, http, left, hooked, responded, doneSignals, requestsDone, noBids>>
      PROVE  OInv'
  BY <1>0 DEF OInv, LeftCovers, DoneOnce, HeardOut, NoBidMeans, Signalled, Flying
<1>1. CASE Start
  <2>1. CASE Run
    <3>1. UNCHANGED <<http, left, hooked, responded, doneSignals, requestsDone, noBids>>
      BY <2>1 DEF Run, answers, finished
    <3>2. \A r \in Requests : ~Signalled(r)
      BY <2>1 DEF Run, IInv, Quiet, Signalled
    <3>3. \A r \in Requests : ~Signalled(r)'
      BY <3>1, <3>2 DEF Signalled
    <3>. QED
      BY <3>1, <3>3 DEF OInv, LeftCovers, DoneOnce, HeardOut, NoBidMeans, Flying
  <2>. QED
    BY <1>0, <1>1, <2>1 DEF Start, CallBidsWithoutRequests, CallBids, network, answers, finished
<1>2. ASSUME NEW c \in Calls, AdapterStep(c) PROVE OInv'
  BY <1>2, AdapterOrderly
<1>3. ASSUME NEW h \in Https, HttpStep(h) PROVE OInv'
  BY <1>3, HttpOrderly
<1>4. ASSUME NEW b \in Bid, HookStep(b) PROVE OInv'
  <2>1. /\ b \in hooked /\ hooked' \subseteq hooked /\ responded' = responded \cup {b[2]}
        /\ UNCHANGED <<toCall, http, left, doneSignals, requestsDone, noBids>>
    BY <1>4 DEF HookStep, Accept, AcceptVideo, Reject, network, finished
  <2>2. LeftCovers' /\ DoneOnce' /\ HeardOut'
    BY <2>1 DEF OInv, LeftCovers, DoneOnce, HeardOut, Signalled, Flying
  <2>3. b[2] \in Imps /\ noBids[b[2]] = 0
    BY <2>1 DEF Bid, OInv, HeardOut, NoBidMeans
  <2>4. NoBidMeans'
    BY <2>1, <2>3 DEF OInv, NoBidMeans
  <2>. QED  BY <2>2, <2>4 DEF OInv
<1>5. ASSUME NEW b \in Bid, CacheAnswer(b) PROVE OInv'
  BY <1>0, <1>5 DEF CacheAnswer, network, finished
<1>6. ASSUME NEW r \in Requests, AdapterDone(r) PROVE OInv'
  BY <1>6, AdapterDoneOrderly
<1>7. CASE TimerFires \/ BidsBack \/ UNCHANGED vars
  BY <1>0, <1>7 DEF TimerFires, BidsBack, vars, network, answers, finished
<1>. QED  BY <1>1, <1>2, <1>3, <1>4, <1>5, <1>6, <1>7 DEF Next

LEMMA OrderlyInvariance == ASSUME Orderly PROVE Spec => []OInv
<1>1. IInv /\ OInv /\ [Next]_vars => OInv'
  BY StepOInv
<1>. QED  BY <1>1, InitOInv, Invariance, PTL DEF Spec

(* NO_BID is sent once for a bid request, and never for one that has, or    *)
(* will have, an answer.                                                    *)
THEOREM NoBidIsOnce == ASSUME Orderly PROVE Spec => []NoBidOnce
<1>1. OInv => NoBidOnce
  BY DEF OInv, NoBidMeans, NoBidOnce
<1>. QED  BY <1>1, OrderlyInvariance, PTL

EarlyEnd ==
  ended = "open" /\ ended' = "done" /\ bidderRequests # {} =>
    /\ caching' = {}
    /\ \A h \in Https : Served(Caller[h]) \cap Primary # {} => http'[h] # "flight"
    /\ \A b \in hooked' : Owner[b[2]] \notin Primary

LEMMA StepEarlyEnd == IInv /\ IInv' /\ OInv' /\ [Next]_vars => EarlyEnd
<1> SUFFICES ASSUME IInv, IInv', OInv', [Next]_vars, ended = "open", ended' = "done",
                    bidderRequests # {}
             PROVE  /\ caching' = {}
                    /\ \A h \in Https : Served(Caller[h]) \cap Primary # {} => http'[h] # "flight"
                    /\ \A b \in hooked' : Owner[b[2]] \notin Primary
  BY DEF EarlyEnd
<1>1. allDone' /\ outstanding' = 0
  BY StepEndsHow DEF EndsHow
<1>2. Primary \subseteq requestsDone'
  BY <1>1 DEF IInv, AllDoneExact
<1>3. caching' = {}
  BY <1>1, FS_EmptySet DEF IInv, Counted, OutstandingExact
<1>4. ASSUME NEW h \in Https, Served(Caller[h]) \cap Primary # {}
      PROVE  http'[h] # "flight"
  <2>1. PICK r \in Requests : CallOf[r] = Caller[h] /\ r \in requestsDone'
    BY <1>2, <1>4 DEF Served
  <2>2. Flying(Caller[h])' = {}
    BY <2>1 DEF OInv, DoneOnce, Signalled
  <2>. QED  BY <2>2 DEF Flying, HttpsOf
<1>5. \A b \in hooked' : Owner[b[2]] \notin Primary
  BY <1>2 DEF OInv, HeardOut
<1>. QED  BY <1>3, <1>4, <1>5

(* An auction that closes before its timeout has heard out every bidder it  *)
(* waits for.                                                               *)
THEOREM EarlyEndIsComplete == ASSUME Orderly PROVE Spec => EarlyEndComplete
<1>1. IInv /\ IInv' /\ OInv' /\ [Next]_vars =>
        [ended = "open" /\ ended' = "done" /\ bidderRequests # {} =>
           /\ caching' = {}
           /\ \A h \in Https : Served(Caller[h]) \cap Primary # {} => http'[h] # "flight"
           /\ \A b \in hooked' : Owner[b[2]] \notin Primary]_vars
  BY StepEarlyEnd DEF EarlyEnd
<1>. QED  BY <1>1, OrderlyInvariance, Invariance, PTL DEF Spec, EarlyEndComplete

-----------------------------------------------------------------------------
(* When an answer always reaches requestDone, and the loop every adapter:  *)
(* no bid of a response throws, and neither does the server adapter.       *)
Reaching == "bid" \notin Faults /\ (S2S = {} \/ "build" \notin Faults)

Called == status \notin {"none", "started"} /\ bidderRequests # {}

(* A bidder that was called and not told that it is done has as many       *)
(* requests in flight, at least one, as delayExecution waits for.          *)
Underway(c) == left[c] = Cardinality(Flying(c)) /\ Flying(c) # {}
LeftExact ==
  Called =>
    \A r \in Requests : Signalled(r) \/ CallOf[r] \in toCall \cup S2S \/ Underway(CallOf[r])

(* Calling an adapter: it sends, and counts what it sent, or is done.      *)
LEMMA AdapterReaches ==
  ASSUME Reaching, IInv, LeftExact, NEW c \in Calls, AdapterStep(c)
  PROVE  LeftExact'
<1>. USE AuctionAssumption
<1>1. /\ c \in toCall /\ \A h \in HttpsOf(c) : http[h] = "unsent"
      /\ \A h \in Https : Caller[h] # c => http'[h] = http[h]
      /\ UNCHANGED <<status, bidderRequests, requestsDone>>
  <2>1. UNCHANGED <<status, bidderRequests>>
    BY DEF AdapterStep, CallAdapter, CallAdapterWithoutRequests, CallAdapterThrows,
           CallServerWithoutRequest, CallServerThrows, ending
  <2>. QED  BY <2>1, AdapterSends
<1>2. c \in S2S \/ toCall' = toCall \ {c}
  BY DEF AdapterStep, CallAdapter, CallAdapterWithoutRequests, CallAdapterThrows,
         CallServerWithoutRequest, CallServerThrows
<1>3. toCall' = toCall \ {c}
  BY <1>2 DEF Reaching, AdapterStep, CallAdapter, CallAdapterWithoutRequests, CallAdapterThrows,
         CallServerWithoutRequest, CallServerThrows
<1>4. doneSignals \in [Requests -> Nat] /\ left \in [Calls -> Int]
      /\ http \in [Https -> {"unsent", "flight", "answered", "aborted"}]
  BY DEF IInv, TypeOK
<1>5. /\ \A d \in Calls \ {c} : left'[d] = left[d]
      /\ \A r \in Requests : doneSignals[r] # 0 => doneSignals'[r] # 0
  BY <1>4 DEF AdapterStep, CallAdapter, CallAdapterWithoutRequests, CallAdapterThrows,
     CallServerWithoutRequest, CallServerThrows, Signal, finished
<1>6. c \in S2S \/ Underway(c)' \/ \A r \in Requests : CallOf[r] = c => doneSignals'[r] # 0
  <2>1. CASE CallAdapter(c)
    <3>1. PICK sent \in SUBSET HttpsOf(c) :
            /\ sent # {}
            /\ http' = [h \in Https |-> IF h \in sent THEN "flight" ELSE http[h]]
            /\ left' = [left EXCEPT ![c] = Cardinality(sent)]
      BY <2>1 DEF CallAdapter
    <3>2. Flying(c)' = sent
      BY <1>1, <3>1 DEF Flying, HttpsOf
    <3>3. left'[c] = Cardinality(Flying(c)')
      BY <1>4, <3>1, <3>2
    <3>. QED  BY <3>1, <3>2, <3>3 DEF Underway
  <2>2. CASE CallAdapterWithoutRequests(c) \/ CallAdapterThrows(c)
    BY <1>4, <2>2 DEF CallAdapterWithoutRequests, CallAdapterThrows, Signal
  <2>. QED  BY <2>1, <2>2 DEF AdapterStep, CallServerWithoutRequest, CallServerThrows
<1>7. \A d \in Calls \ {c} : Underway(d) => Underway(d)'
  <2>1. \A d \in Calls \ {c} : Flying(d)' = Flying(d)
    BY <1>1 DEF Flying, HttpsOf
  <2>. QED  BY <1>5, <2>1 DEF Underway
<1>. QED  BY <1>1, <1>3, <1>5, <1>6, <1>7 DEF LeftExact, Called, Signalled

(* An answer: one less in flight and to wait for, and done with the last.  *)
LEMMA AnswerReaches ==
  ASSUME Reaching, IInv, LeftExact, NEW h \in Https, HttpStep(h)
  PROVE  LeftExact'
<1>. USE AuctionAssumption
<1>. DEFINE c == Caller[h]
<1>1. /\ http[h] = "flight" /\ RequestDone(c)
      /\ \E how \in {"answered", "aborted"} : http' = [http EXCEPT ![h] = how]
      /\ UNCHANGED <<bidderRequests, toCall, requestsDone>>
  BY DEF Reaching, HttpStep, Respond, RespondThrows, Fail, TakeResponse
<1>2. status' = status \/ Called
  BY <1>1 DEF IInv, Quiet, Called
<1>3. /\ h \in Flying(c) /\ Flying(c)' = Flying(c) \ {h}
      /\ Cardinality(Flying(c)') = Cardinality(Flying(c)) - 1
      /\ \A d \in Calls \ {c} : Flying(d)' = Flying(d)
  BY <1>1, OneLess
<1>4. /\ doneSignals \in [Requests -> Nat] /\ left \in [Calls -> Int] /\ c \in Calls
      /\ Cardinality(Flying(c)) \in Nat
  BY FlyingIsFinite DEF IInv, TypeOK
<1>5. ASSUME Called, NEW r \in Requests, ~Signalled(r)', CallOf[r] \notin toCall \cup S2S
      PROVE  Underway(CallOf[r])'
  <2>1. ~Signalled(r)
    BY <1>1, <1>4, <1>5 DEF Signalled, RequestDone, Signal
  <2>2. Underway(CallOf[r])
    BY <1>5, <2>1 DEF LeftExact
  <2>3. CASE CallOf[r] = c
    <3>1. left[c] # 1 /\ left'[c] = left[c] - 1
      BY <1>1, <1>4, <1>5, <2>3 DEF Signalled, RequestDone, Signal
    <3>2. left'[c] = Cardinality(Flying(c)') /\ Cardinality(Flying(c)') # 0
      BY <1>3, <1>4, <2>2, <2>3, <3>1 DEF Underway
    <3>3. Flying(c)' # {}
      BY <3>2, FS_EmptySet
    <3>. QED  BY <2>3, <3>2, <3>3 DEF Underway
  <2>4. CASE CallOf[r] # c
    BY <1>1, <1>3, <1>4, <2>2, <2>4 DEF Underway, RequestDone
  <2>. QED  BY <2>3, <2>4
<1>6. Called
  BY <1>1 DEF IInv, Quiet, Called
<1>. QED  BY <1>1, <1>5, <1>6 DEF LeftExact

LEMMA StepReaches == Reaching /\ IInv /\ LeftExact /\ [Next]_vars => LeftExact'
<1>. SUFFICES ASSUME Reaching, IInv, LeftExact, [Next]_vars PROVE LeftExact'
  OBVIOUS
<1>. USE AuctionAssumption
<1>0. ASSUME Called' => Called, UNCHANGED <<toCall, http, left, doneSignals, requestsDone>>
      PROVE  LeftExact'
  BY <1>0 DEF LeftExact, Signalled, Underway, Flying
<1>1. CASE Start
  <2>1. CASE Run
    BY <2>1 DEF Run, IInv, Lifecycle, LeftExact
  <2>2. CASE CallBidsWithoutRequests \/ CallBids
    <3>1. ~Called'
      BY <2>2 DEF CallBidsWithoutRequests, CallBids, Called, IInv, Lifecycle
    <3>. QED  BY <3>1 DEF LeftExact
  <2>. QED  BY <1>1, <2>1, <2>2 DEF Start
<1>2. ASSUME NEW c \in Calls, AdapterStep(c) PROVE LeftExact'
  BY <1>2, AdapterReaches
<1>3. ASSUME NEW h \in Https, HttpStep(h) PROVE LeftExact'
  BY <1>3, AnswerReaches
<1>4. ASSUME NEW b \in Bid, HookStep(b) \/ CacheAnswer(b) PROVE LeftExact'
  <2>1. Called
    BY <1>4 DEF HookStep, Accept, AcceptVideo, Reject, CacheAnswer, IInv, Quiet, Called
  <2>2. UNCHANGED <<toCall, http, left, doneSignals, requestsDone>>
    BY <1>4 DEF HookStep, Accept, AcceptVideo, Reject, CacheAnswer, network, finished
  <2>. QED  BY <1>0, <2>1, <2>2
<1>5. ASSUME NEW r \in Requests, AdapterDone(r) PROVE LeftExact'
  <2>1. /\ Called
        /\ UNCHANGED <<toCall, http, left>>
        /\ doneSignals' = [doneSignals EXCEPT ![r] = @ - 1]
        /\ requestsDone' = requestsDone \cup {r}
    BY <1>5 DEF AdapterDone, network, IInv, Quiet, Called
  <2>2. \A q \in Requests : Signalled(q) => Signalled(q)'
    BY <2>1 DEF Signalled, IInv, TypeOK
  <2>. QED  BY <2>1, <2>2 DEF LeftExact, Underway, Flying
<1>6. CASE TimerFires
  BY <1>0, <1>6 DEF TimerFires, network, answers, finished, IInv, Lifecycle, Called
<1>7. CASE BidsBack \/ UNCHANGED vars
  BY <1>0, <1>7 DEF BidsBack, vars, ending, network, finished, Called
<1>. QED  BY <1>1, <1>2, <1>3, <1>4, <1>5, <1>6, <1>7 DEF Next

(* No bidder of a running auction is forgotten, however many requests its   *)
(* adapter sends, in any order they are answered, fail or are aborted.      *)
THEOREM NobodyIsForgotten == ASSUME Reaching PROVE Spec => []NobodyForgotten
<1>1. Init => LeftExact
  BY DEF Init, LeftExact, Called
<1>2. IInv /\ LeftExact /\ [Next]_vars => LeftExact'
  BY StepReaches
<1>3. IInv /\ LeftExact => NobodyForgotten
  <2>. SUFFICES ASSUME IInv, LeftExact, status = "inProgress", NEW r \in Requests \ requestsDone,
                       CallOf[r] \notin toCall \cup S2S, ~(doneSignals[r] > 0)
                PROVE  \E h \in HttpsOf(CallOf[r]) : http[h] = "flight"
    BY DEF NobodyForgotten
  <2>1. ~Signalled(r)
    BY DEF Signalled, IInv, TypeOK
  <2>2. bidderRequests # {}
    BY AuctionAssumption DEF IInv, Lifecycle
  <2>3. Flying(CallOf[r]) # {}
    BY <2>1, <2>2 DEF LeftExact, Called, Underway
  <2>. QED  BY <2>3 DEF Flying
<1>. QED  BY <1>1, <1>2, <1>3, Invariance, PTL DEF Spec
=============================================================================
