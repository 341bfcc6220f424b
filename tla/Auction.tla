------------------------------- MODULE Auction -------------------------------
(***************************************************************************)
(* One auction: newAuction and auctionCallbacks (src/auction.ts), the      *)
(* adapter loop of adapterManager.callBids, and the request bookkeeping of *)
(* bidderFactory.newBidder and processBidderRequests.                      *)
(*                                                                         *)
(* The page's JavaScript is single threaded: an action is one task, or the *)
(* part of a task between two points where other code may run.  A bid is   *)
(* a pair <<h, i>>: the answer to bid request i in HTTP response h.        *)
(***************************************************************************)
EXTENDS Integers, FiniteSets

CONSTANTS
  Requests,    \* bidder requests of the auction (one per bidder)
  Secondary,   \* those of auctionOptions.secondaryBidders
  Imps,        \* bid requests (one per ad unit and bidder)
  Owner,       \* [Imps -> Requests]
  Calls,       \* adapter invocations: one per client bidder, one per s2sConfig
  S2S,         \* the invocations of the Prebid Server adapter
  CallOf,      \* [Requests -> Calls]
  Https,       \* the HTTP requests the adapters may send
  Caller,      \* [Https -> Calls]
  VideoImps,   \* bid requests whose bids may have to be cached
  Hook,        \* addBidResponse: "sync", "gated" (async, and its module delays
               \* responsesReady until the held bids are released), or "async"
  Yield,       \* auctionOptions.yield
  Faults       \* subset of {"build", "send", "syncs", "bid"}: where adapter
               \* code may throw

ASSUME AuctionAssumption ==
  /\ Requests # {} /\ Secondary \subseteq Requests
  /\ IsFiniteSet(Imps) /\ IsFiniteSet(Https)
  /\ Owner \in [Imps -> Requests]
  /\ S2S \subseteq Calls
  /\ CallOf \in [Requests -> Calls]
  /\ Caller \in [Https -> Calls]
  /\ VideoImps \subseteq Imps
  /\ Hook \in {"sync", "gated", "async"}
  /\ Yield \in BOOLEAN
  /\ Faults \subseteq {"build", "send", "syncs", "bid"}

VARIABLES
  bidderRequests, \* _bidderRequests
  status,         \* _auctionStatus
  timer,          \* _timeoutTimer: "off", "armed", "cleared", "fired"
  ended,          \* _auctionEnd: "open", or how executeCallback closed it
  callback,       \* bidsBackCallback: "idle", "pending", "called"
  timedOutImps,   \* _timedOutRequests
  toCall,         \* adapters yieldAll has yet to call
  http,           \* state of each HTTP request
  left,           \* delayExecution: requestDone calls until onCompletion
  timely,         \* _timelyRequests
  hooked,         \* bids inside the addBidResponse hook
  caching,        \* bids handed to the video cache
  outstanding,    \* outstandingBidsAdded
  responded,      \* bidResponseMap
  received,       \* _bidsReceived
  rejected,       \* _bidsRejected
  doneSignals,    \* adapterDone continuations waiting on responsesReady
  requestsDone,   \* bidderRequestsDone
  allDone,        \* allAdapterCalledDone
  noBids          \* NO_BID events emitted for each bid request

ending == <<status, timer, ended, callback, timedOutImps>>
network == <<toCall, http, left, timely>>
answers == <<hooked, caching, outstanding, responded, received, rejected>>
finished == <<doneSignals, requestsDone, allDone, noBids>>
vars == <<bidderRequests, ending, network, answers, finished>>

-----------------------------------------------------------------------------
Served(c) == {r \in Requests : CallOf[r] = c}
HttpsOf(c) == {h \in Https : Caller[h] = c}
CallOfImp(i) == CallOf[Owner[i]]
ImpsOf(c) == {i \in Imps : CallOfImp(i) = c}
BidsIn(h) == {<<h, i>> : i \in ImpsOf(Caller[h])}
Bid == {b \in Https \X Imps : CallOfImp(b[2]) = Caller[b[1]]}

\* Faulty: auctionOptions.secondaryBidders is not honoured.
PrimaryUnfiltered == Requests

(* The requests adapterDone waits for: secondary bidders count only when   *)
(* there is no other bidder.                                               *)
Primary == IF Requests \subseteq Secondary THEN Requests ELSE Requests \ Secondary

(* No task is halfway: the adapter loop is over unless it yields, and a    *)
(* synchronous hook chain has let go of every bid.                         *)
HooksSettled == Hook = "sync" => hooked = {}
Idle == HooksSettled /\ (~Yield => toCall = {})

-----------------------------------------------------------------------------
(* executeCallback(timedOut): close the auction unless it is closed. *)
ExecuteCallback(how, silent) ==
  IF ended = "open"
    THEN /\ ended' = how
         /\ timedOutImps' = silent
         /\ callback' = "pending"
    ELSE UNCHANGED <<ended, timedOutImps, callback>>

AuctionDone ==
  /\ status' = "completed"
  /\ timer' = IF timer = "armed" THEN "cleared" ELSE timer
  /\ ExecuteCallback("done", {})

AuctionDoneIf(condition) ==
  IF condition THEN AuctionDone ELSE UNCHANGED ending

-----------------------------------------------------------------------------
Init ==
  /\ bidderRequests = {}
  /\ status = "none" /\ timer = "off" /\ ended = "open"
  /\ callback = "idle" /\ timedOutImps = {}
  /\ toCall = {} /\ timely = {}
  /\ http = [h \in Https |-> "unsent"]
  /\ left = [c \in Calls |-> 0]
  /\ hooked = {} /\ caching = {} /\ outstanding = 0
  /\ responded = {} /\ received = {} /\ rejected = {}
  /\ doneSignals = [r \in Requests |-> 0]
  /\ requestsDone = {} /\ allDone = FALSE
  /\ noBids = [i \in Imps |-> 0]

(* callBids when makeBidRequests found no one to ask. *)
CallBidsWithoutRequests ==
  /\ status = "none"
  /\ AuctionDone
  /\ UNCHANGED <<bidderRequests, network, answers, finished>>

(* callBids and addBidderRequestsCallback: the auction may now be queued.  *)
CallBids ==
  /\ status = "none"
  /\ status' = "started"
  /\ bidderRequests' = Requests
  /\ UNCHANGED <<timer, ended, callback, timedOutImps, network, answers, finished>>

\* Faulty: the auction's timer is never started.
NoAuctionTimer == UNCHANGED timer
startAuctionTimer == timer' = "armed"

(* run(): the origins have capacity. *)
Run ==
  /\ status = "started"
  /\ status' = "inProgress"
  /\ startAuctionTimer
  /\ toCall' = {CallOf[r] : r \in bidderRequests}
  /\ UNCHANGED <<bidderRequests, ended, callback, timedOutImps, http, left, timely,
                 answers, finished>>

-----------------------------------------------------------------------------
(* done() of an adapter: one adapterDone continuation per request it serves *)
Signal(c, times) ==
  doneSignals' = [r \in Requests |->
                    IF CallOf[r] = c THEN doneSignals[r] + times ELSE doneSignals[r]]

(* The loop of adapterManager.callBids: server adapters first, in any order *)
(* among themselves (bidderSequence is random by default).                  *)
NextCall(c) ==
  /\ c \in toCall
  /\ c \in S2S \/ toCall \cap S2S = {}
  /\ HooksSettled

(* The adapter sends its HTTP requests. *)
CallAdapter(c) ==
  /\ NextCall(c)
  /\ \E sent \in SUBSET HttpsOf(c) :
       /\ sent # {}
       /\ http' = [h \in Https |-> IF h \in sent THEN "flight" ELSE http[h]]
       /\ left' = [left EXCEPT ![c] = Cardinality(sent)]
  /\ toCall' = toCall \ {c}
  /\ UNCHANGED <<bidderRequests, ending, timely, answers, finished>>

(* The client adapter has no valid bid, or builds no request that can be   *)
(* sent: afterAllResponses runs inside the loop; if getUserSyncs throws in  *)
(* it, the loop's catch calls adapterDone a second time.                    *)
CallAdapterWithoutRequests(c) ==
  /\ NextCall(c)
  /\ c \notin S2S
  /\ \/ Signal(c, 1)
     \/ "syncs" \in Faults /\ Signal(c, 2)
  /\ toCall' = toCall \ {c}
  /\ UNCHANGED <<bidderRequests, ending, http, left, timely, answers,
                 requestsDone, allDone, noBids>>

(* buildRequests throws (nothing sent), or sending one of the requests     *)
(* throws after some of them left: the loop's catch calls adapterDone.     *)
CallAdapterThrows(c) ==
  /\ NextCall(c)
  /\ c \notin S2S
  /\ \E built, sent \in SUBSET HttpsOf(c) :
       /\ sent \subseteq built
       /\ \/ "build" \in Faults /\ built = {}
          \/ "send" \in Faults /\ sent # built
       /\ http' = [h \in Https |-> IF h \in sent THEN "flight" ELSE http[h]]
       /\ left' = [left EXCEPT ![c] = Cardinality(built)]
  /\ Signal(c, 1)
  /\ toCall' = toCall \ {c}
  /\ UNCHANGED <<bidderRequests, ending, timely, answers, requestsDone, allDone, noBids>>

(* The server adapter makes no request ("Check endpoints"): it never calls *)
(* done.                                                                    *)
CallServerWithoutRequest(c) ==
  /\ NextCall(c)
  /\ c \in S2S
  /\ toCall' = toCall \ {c}
  /\ UNCHANGED <<bidderRequests, ending, http, left, timely, answers, finished>>

(* The server adapter throws: nothing catches it, and the adapters after it *)
(* in the loop are never called.                                            *)
CallServerThrows(c) ==
  /\ NextCall(c)
  /\ c \in S2S /\ "build" \in Faults
  /\ toCall' = {}
  /\ UNCHANGED <<bidderRequests, ending, http, left, timely, answers, finished>>

-----------------------------------------------------------------------------
\* Faulty: done() on every response, as without delayExecution.
RequestDoneEach(c) ==
  /\ left' = [left EXCEPT ![c] = @ - 1]
  /\ Signal(c, 1)

\* Faulty: the count is compared before the call is added to it.
RequestDoneLate(c) ==
  /\ left' = [left EXCEPT ![c] = @ - 1]
  /\ Signal(c, IF left[c] = 0 THEN 1 ELSE 0)

(* requestDone(): onCompletion, hence done(), on the last of the requests.  *)
RequestDone(c) ==
  /\ left' = [left EXCEPT ![c] = @ - 1]
  /\ Signal(c, IF left[c] = 1 THEN 1 ELSE 0)

\* Faulty: a bidder is timely only once the last of its answers is in.
onLastResponse(c) ==
  timely' = IF left[c] = 1 THEN timely \cup Served(c) ELSE timely

onTimelyResponse(c) == timely' = timely \cup Served(c)

(* An HTTP response: some bids enter the addBidResponse hook, some are      *)
(* invalid and rejected on the spot.                                        *)
TakeResponse(h, bids, invalid) ==
  /\ Idle
  /\ http[h] = "flight"
  /\ http' = [http EXCEPT ![h] = "answered"]
  /\ onTimelyResponse(Caller[h])
  /\ hooked' = hooked \cup bids
  /\ rejected' = rejected \cup invalid
  /\ responded' = responded \cup {b[2] : b \in invalid}
  /\ AuctionDoneIf(invalid # {} /\ allDone /\ outstanding = 0)
  /\ UNCHANGED <<bidderRequests, toCall, caching, outstanding, received>>

(* onSuccess, interpretResponse having returned (or thrown: no bids).       *)
Respond(h) ==
  /\ \E bids, invalid \in SUBSET BidsIn(h) :
       bids \cap invalid = {} /\ TakeResponse(h, bids, invalid)
  /\ RequestDone(Caller[h])
  /\ UNCHANGED <<requestsDone, allDone, noBids>>

(* onSuccess, a bid of the response making onBid throw: the client adapter  *)
(* never gets to requestDone; the server adapter catches it and goes on.    *)
RespondThrows(h) ==
  /\ "bid" \in Faults
  /\ Caller[h] \notin S2S
  /\ \E bids, invalid \in SUBSET BidsIn(h) :
       bids \cap invalid = {} /\ TakeResponse(h, bids, invalid)
  /\ UNCHANGED <<left, finished>>

(* onFailure, or onError of the server adapter.  The browser's abort of a   *)
(* fetch comes after the auction's timer, which started first and runs for  *)
(* the same time.                                                           *)
Fail(h) ==
  /\ Idle
  /\ http[h] = "flight"
  /\ \/ /\ http' = [http EXCEPT ![h] = "answered"]
        /\ onTimelyResponse(Caller[h])
     \/ /\ timer # "armed"
        /\ http' = [http EXCEPT ![h] = "aborted"]
        /\ UNCHANGED timely
  /\ RequestDone(Caller[h])
  /\ UNCHANGED <<bidderRequests, ending, toCall, answers, requestsDone, allDone, noBids>>

-----------------------------------------------------------------------------
(* acceptBidResponse for a bid that is added, or dropped by the video path, *)
(* at once: outstandingBidsAdded goes up and down within the task.          *)
Accept(b) ==
  /\ b \in hooked
  /\ hooked' = hooked \ {b}
  /\ responded' = responded \cup {b[2]}
  /\ \/ received' = received \cup {b}
     \/ b[2] \in VideoImps /\ UNCHANGED received
  /\ AuctionDoneIf(allDone /\ outstanding = 0)
  /\ UNCHANGED <<bidderRequests, network, caching, outstanding, rejected, finished>>

(* acceptBidResponse for a video bid that has to be cached first. *)
AcceptVideo(b) ==
  /\ b \in hooked
  /\ b[2] \in VideoImps
  /\ hooked' = hooked \ {b}
  /\ responded' = responded \cup {b[2]}
  /\ caching' = caching \cup {b}
  /\ outstanding' = outstanding + 1
  /\ UNCHANGED <<bidderRequests, ending, network, received, rejected, finished>>

(* The hook, or a module in it, rejects the bid. *)
Reject(b) ==
  /\ b \in hooked
  /\ hooked' = hooked \ {b}
  /\ responded' = responded \cup {b[2]}
  /\ rejected' = rejected \cup {b}
  /\ AuctionDoneIf(allDone /\ outstanding = 0)
  /\ UNCHANGED <<bidderRequests, network, caching, outstanding, received, finished>>

afterBidAdded ==
  /\ outstanding' = outstanding - 1
  /\ AuctionDoneIf(allDone /\ outstanding' = 0)

(* The video cache answers; a bid it could not store is dropped. *)
CacheAnswer(b) ==
  /\ Idle
  /\ b \in caching
  /\ caching' = caching \ {b}
  /\ received' \in {received, received \cup {b}}
  /\ afterBidAdded
  /\ UNCHANGED <<bidderRequests, network, hooked, responded, rejected, finished>>

-----------------------------------------------------------------------------
(* A module that holds bids also holds responsesReady. *)
\* Faulty: adapterDone runs without waiting for responsesReady.
notWaiting == TRUE
responsesReady == Hook = "gated" => hooked = {}

\* Faulty: one of the bidders has called done, where every one should have.
someCalledDone(done) == Primary \cap done # {}
everyCalledDone(done) == Primary \subseteq done

withoutBid(r) == {i \in Imps : Owner[i] = r /\ i \notin responded}

(* adapterDone, once responsesReady has resolved. *)
AdapterDone(r) ==
  /\ Idle
  /\ doneSignals[r] > 0
  /\ responsesReady
  /\ doneSignals' = [doneSignals EXCEPT ![r] = @ - 1]
  /\ requestsDone' = requestsDone \cup {r}
  /\ allDone' = everyCalledDone(requestsDone')
  /\ noBids' = [i \in Imps |-> IF i \in withoutBid(r) THEN noBids[i] + 1 ELSE noBids[i]]
  /\ AuctionDoneIf(allDone' /\ outstanding = 0)
  /\ UNCHANGED <<bidderRequests, network, answers>>

\* Faulty: bidder requests, where their bid requests are meant.
silentRequests == bidderRequests \ timely
silentBids == {i \in Imps : Owner[i] \in bidderRequests \ timely}

(* executeCallback(true). *)
TimerFires ==
  /\ Idle
  /\ timer = "armed"
  /\ timer' = "fired"
  /\ ExecuteCallback("timeout", silentBids)
  /\ status' = "completed"
  /\ UNCHANGED <<bidderRequests, network, answers, finished>>

(* The bidsBackCallback hook lets go: the page's handler runs, then the     *)
(* timed out bidders are told.                                              *)
BidsBack ==
  /\ Idle
  /\ callback = "pending"
  /\ callback' = "called"
  /\ UNCHANGED <<bidderRequests, status, timer, ended, timedOutImps, network, answers,
                 finished>>

-----------------------------------------------------------------------------
Start == CallBidsWithoutRequests \/ CallBids \/ Run

AdapterStep(c) ==
  \/ CallAdapter(c)
  \/ CallAdapterWithoutRequests(c)
  \/ CallAdapterThrows(c)
  \/ CallServerWithoutRequest(c)
  \/ CallServerThrows(c)

HttpStep(h) == Respond(h) \/ RespondThrows(h) \/ Fail(h)
HookStep(b) == Accept(b) \/ AcceptVideo(b) \/ Reject(b)

Next ==
  \/ Start
  \/ \E c \in Calls : AdapterStep(c)
  \/ \E h \in Https : HttpStep(h)
  \/ \E b \in Bid : HookStep(b) \/ CacheAnswer(b)
  \/ \E r \in Requests : AdapterDone(r)
  \/ TimerFires
  \/ BidsBack

(* Tasks run to their end; every module lets go of the bids, and of the end *)
(* of auction, that it holds.                                               *)
LoopFairness ==
  /\ WF_vars(\E c \in Calls : AdapterStep(c))
  /\ \A b \in Bid : WF_vars(HookStep(b))
  /\ WF_vars(BidsBack)

(* The fetches of the bidders the auction waits for settle, and so do the   *)
(* requests to the video cache; promise reactions run.                      *)
AnswerFairness ==
  /\ \A h \in Https : ~(Served(Caller[h]) \subseteq Secondary) => WF_vars(HttpStep(h))
  /\ \A b \in Bid : WF_vars(CacheAnswer(b))
  /\ \A r \in Requests : WF_vars(AdapterDone(r))

Spec == Init /\ [][Next]_vars
TimerSpec == Spec /\ LoopFairness /\ WF_vars(TimerFires)
AnswerSpec == Spec /\ LoopFairness /\ AnswerFairness

-----------------------------------------------------------------------------
TypeOK ==
  /\ bidderRequests \in {{}, Requests}
  /\ status \in {"none", "started", "inProgress", "completed"}
  /\ timer \in {"off", "armed", "cleared", "fired"}
  /\ ended \in {"open", "done", "timeout"}
  /\ callback \in {"idle", "pending", "called"}
  /\ timedOutImps \subseteq Imps
  /\ toCall \subseteq Calls
  /\ http \in [Https -> {"unsent", "flight", "answered", "aborted"}]
  /\ left \in [Calls -> Int]
  /\ timely \subseteq Requests
  /\ hooked \subseteq Bid /\ caching \subseteq Bid
  /\ outstanding \in Int
  /\ responded \subseteq Imps
  /\ received \subseteq Bid /\ rejected \subseteq Bid
  /\ doneSignals \in [Requests -> Nat]
  /\ requestsDone \subseteq Requests
  /\ allDone \in BOOLEAN
  /\ noBids \in [Imps -> Nat]

(* outstandingBidsAdded is exactly the number of bids whose storage in the  *)
(* video cache is pending: a bid counted twice, or not at all, would hold   *)
(* the auction open until its timeout or close it on top of the bid.        *)
OutstandingExact == outstanding = Cardinality(caching)

(* An auction never sits waiting for its timer once every bidder it waits   *)
(* for has called done and no bid is being cached, whichever of the two     *)
(* happened last and in whichever order.                                    *)
PromptEnd == Primary \subseteq requestsDone /\ caching = {} => ended # "open"

(* executeCallback closes an auction once: a late done, a late bid or the   *)
(* timer never reopens it, changes how it ended or whom it timed out, and   *)
(* the page's handler runs once, after the end.                             *)
ClosesOnce ==
  [][/\ ended # "open" => UNCHANGED <<ended, timedOutImps>>
     /\ callback # callback' => \/ callback = "idle" /\ ended = "open" /\ ended' # "open"
                                \/ callback = "pending" /\ callback' = "called"]_vars

(* An auction that closes before its timeout has heard out every bidder it  *)
(* waits for: none has an HTTP request in flight or a bid held by a module, *)
(* and nobody's bid is still being cached.                                  *)
EarlyEndComplete ==
  [][ended = "open" /\ ended' = "done" /\ bidderRequests # {} =>
       /\ caching' = {}
       /\ \A h \in Https : Served(Caller[h]) \cap Primary # {} => http'[h] # "flight"
       /\ \A b \in hooked' : Owner[b[2]] \notin Primary]_vars

(* "Fired once for each bid request ... that produced no bid": NO_BID is    *)
(* not repeated, and a bid request that got one never has an answer, before *)
(* or after.                                                               *)
NoBidOnce == \A i \in Imps : noBids[i] <= IF i \in responded THEN 0 ELSE 1

(* BID_TIMEOUT names a bid request exactly when no HTTP request of its      *)
(* bidder had been answered when the timer fired.                           *)
TimeoutReport ==
  [][ended = "open" /\ ended' = "timeout" =>
       timedOutImps' = {i \in Imps : \A h \in HttpsOf(CallOfImp(i)) : http[h] # "answered"}]_vars

(* Whatever bidders, caches and adapters that throw do, a running auction   *)
(* calls the page back.                                                     *)
AlwaysCallsBack == status = "inProgress" ~> callback = "called"

(* The timer is only a safety net: when the awaited bidders' requests       *)
(* settle, the auction ends without it, however slow the secondary ones are *)
EndsWithoutTimer == status = "inProgress" ~> callback = "called"

(* What that rests on: while the auction runs no bidder is forgotten.  One  *)
(* that is not done has an adapter to be called, an HTTP request in flight  *)
(* or a done() on its way, unless the server adapter left it out.           *)
NobodyForgotten ==
  status = "inProgress" =>
    \A r \in Requests \ requestsDone :
      \/ CallOf[r] \in toCall \cup S2S
      \/ doneSignals[r] > 0
      \/ \E h \in HttpsOf(CallOf[r]) : http[h] = "flight"

-----------------------------------------------------------------------------
(* The auction as the page sees it. *)
Phase ==
  IF status \in {"none", "started"} THEN "idle"
  ELSE IF ended = "open" THEN "open"
  ELSE IF callback = "called" THEN "reported" ELSE "closed"

Waiting ==
  IF status = "completed" /\ bidderRequests = {} THEN {} ELSE Primary \ requestsDone

Promise == INSTANCE AuctionPromise WITH
  Awaited <- Primary, Storable <- Bid,
  phase <- Phase, waiting <- Waiting, storing <- caching

(* The auction keeps what it promises the page. *)
KeepsPromise == Promise!Spec
=============================================================================
