# Prebid.js in TLA+

A TLA+ model of the control logic of Prebid.js: the auction and what it talks
to. Every definition is translated from the code under `src/` at this commit
(paths below are relative to the repository's root, so `src/auction.ts` is the
file the project map calls `src/src/auction.ts`).

## The system

Prebid.js runs in a web page. The page describes its ad units and calls
`requestBids`; Prebid starts an *auction*: it asks a set of bidder adapters for
bids (each adapter sends HTTP requests of its own), takes in their bids through
a chain of hooks that modules may extend, stores video bids in a remote cache,
and, when everybody has answered or when a timer fires, calls the page back.
The page then sets targeting on its ad server, which may choose a Prebid bid
that is rendered later. Several auctions may run at the same time.

JavaScript has one thread; concurrency is the interleaving of tasks: timers,
promise reactions, HTTP answers, hooks that continue later, calls from the page.

### Inventory

| Component | State it keeps | Operations | Talks to | What makes it correct |
|---|---|---|---|---|
| Auction (`src/auction.ts`) | status, timer, end time, bids received and rejected, timely bidders, counter of bids being stored, set of bidders that are done | callBids, run, addBidResponse, reject, adapterDone, timer, bidsBack | adapter manager, hooks, video cache, page | ends once, as soon as nothing is awaited, and never on top of an answer it waits for; events NO_BID, BID_TIMEOUT name the right bids |
| Request queue (`src/auction.ts`, module globals) | outstanding requests per origin, what each source does, queued auctions | run or queue an auction, count a request, count its end | auctions, ajax | an origin's limit holds; queued auctions run, in order, once |
| Bidder framework (`src/adapters/bidderFactory.ts`) | per call: requests to come, responses | callBids, onSuccess, onFailure, onBid | adapter code, ajax, user sync | done is called once, after the last answer, whatever adapter code does |
| Adapter manager (`src/adapterManager.ts`) | registry, aliases, s2s configs, the loop over adapters | makeBidRequests, callBids, callTimedOutBidders, callBidWonBidder, triggerBilling | adapters, auction | one faulty adapter does not stop the others |
| Prebid Server adapter (`modules/prebidServerBidAdapter/`) | one HTTP call for many bidders | callBids | ajax, auction | done reaches every bidder it serves |
| Video cache (`src/videoCache.ts`) | batches, debouncing flag, blobs | batch, store, store locally, clean up | cache server, auction, auction manager | each bid is answered exactly once, with its own key, in whatever batch |
| TTL collections (`src/utils/ttlCollection.ts`, `src/utils/focusTimeout.js`) | items, their start times and ttls, the list to purge, its timer; time out of focus | add, delete, clear, refresh, purge; hide, show | auction manager, auctions, events, targeting lock | nothing is dropped before its time nor kept much longer |
| Auction manager (`src/auctionManager.js`, `src/bidTTL.ts`) | auctions with a time to live, auctions in flight | createAuction, addWinningBid, queries, expiry | auctions, rendering, video cache | a bid can be used for as long as it is to be kept |
| Currency (`modules/currency.ts`) | rates, queue of bids, ready flag and promise | auction init, rates loaded or failed, addBidResponse, responsesReady | ajax, auction, hooks | bids wait for the rates and the auction for the bids |
| Consent (`src/consentHandler.ts`, `libraries/consentManagement/`) | enabled, ready, data, hash, pending promises | enable, set, error, promise, hash, lookup with timeout | CMP, requestBids, activity rules | a request waits for consent or its timeout; readers see the current consent |
| User sync (`src/userSync.ts`) | queues of pixels, bidders done, "has fired" | registerSync, bidderDone, syncUsers, fire | bidders, page | each sync fires at most once, within limits and filters |
| Rendering (`src/adRendering.ts`, `src/secureCreatives.js`, `src/prebid.ts`) | status of each bid, winners, deferred renders | render, native messages, markWinner, deferRendering, renderIfDeferred, triggerBilling, markWinningBidAsUsed | auction manager, targeting, adapters | an ad is written once, billed before it is shown, and not sold again |
| Targeting (`src/targeting.ts`, `src/targeting/`) | targeting of each slot, ad ids offered there, locks, resets that wait for their slot | setTargetingForGPT, filters, resets after a win | auction manager, ad server, rendering | an expired, rendered or locked bid is not offered; a winner's targeting is cleared, that of the next ad is not |
| User ids (`modules/userId/index.ts`) | configured and initialised submodules, the chain of the last refresh, batches in flight, who waits | setConfig, init, refreshUserIds, getUserIdsAsync, requestBids hook | id submodules, consent, auctions | ids are given out complete, and asked for under the consent that holds |
| Events (`src/events.ts`), hooks (`src/hook.ts`) | handlers, history | on, off, emit, install | everyone | order of installation and priority |
| Activity controls (`src/activities/`) | rules by activity and priority | registerActivityControl, isActivityAllowed | adapters, consent modules | a denial at the strongest priority wins |
| Configuration, storage, bidder settings, first party data, native, price granularity, metrics, utilities | data | getters, setters, formatting | everyone | data |
| Other modules (`modules/`): about 900 bid, analytics, id and RTD submodules | per module | per module | vendor servers | outside this project |

### What is hard

* *Ordering.* `adapterDone` runs as a promise reaction after `responsesReady`;
  bids of the same adapter may still be inside an asynchronous hook. The last
  done, the last cache answer and the last bid race to end the auction.
* *Faults of adapter code.* It may throw while requests are built, between two
  of them, when they are answered, or in user syncs; what is caught differs
  from place to place, so done may be called never, once or twice.
* *Timeouts.* The auction's timer races the last answers; fetches are aborted
  at about the same time.
* *Limits.* An origin's limit on concurrent requests makes auctions wait on
  each other.
* *Stale state.* A promise resolved for the previous auction, a hash computed
  for earlier consent, the id of a timer that has been set again, a win whose
  targeting has been replaced, ids asked for under earlier consent.
* *Sequences nobody planned.* The page, creatives and GPT may ask for, bill,
  mark and reset the same bid in any order.

The list with source lines is in `PROJECT.json`, "hazards".

## Modules

| Module | Models | Instances, runs | Theorems |
|---|---|---|---|
| `AuctionPromise` | what an auction promises its page: abstract specification | refined by `Auction` | |
| `Auction` | one auction: `newAuction`, `auctionCallbacks`, `adapterManager.callBids`, `newBidder`, `processBidderRequests`, control of the Prebid Server adapter | `MCAuction` | `Auction_proofs` |
| `RequestQueue` | the limit on requests to an origin and the queue of auctions, which all auctions share | `MCRequestQueue` | `RequestQueue_proofs` |
| `Currency` | rates, the queue of bids, delayed auctions, `responsesReady` | `MCCurrency` | `Currency_proofs` |
| `Consent` | TCF consent: data handler, lookup with timeouts, loader, CMP listener, reconfiguration | `MCConsent` | `Consent_proofs` |
| `TTLCollection` | a collection that forgets its items, on timers that count visible time | `MCTTLCollection` | `TTLCollection_proofs` |
| `BidCache` | how long auctions and bids are remembered (two levels of such collections, seen from outside), and the blobs of locally cached VAST | `MCBidCache` | `VideoCache_proofs` |
| `CachePromise` | what the cache promises each video bid: abstract specification | refined by `VideoCache` | |
| `VideoCache` | cache keys in batches: `batchingCache`, `storeBatch` | `MCVideoCache` | `VideoCache_proofs` |
| `Targeting` | which bids are offered on which slot, locks, resets after wins, over the auctions that are remembered | extended by `Rendering` | |
| `Rendering` | `Targeting` composed with what happens to the bid the ad server picks | `MCRendering` | `Rendering_proofs` |
| `UserId` | initialisation and refreshes of the ID submodules, and who waits for them | `MCUserId` | `UserId_proofs` |

Every action is one JavaScript task, or the part of a task between two points
where other code may run. Definitions marked *Faulty* are used by no
specification: each states what a plausible mistake would make of the definition
that follows it, and shows which property it would break.

`Rendering` extends `Targeting` and the two are checked and proved together:
rendering decides the status that targeting filters by, targeting the ad ids
that a win resets. The others stand alone. `Auction` takes from them only what
an auction can tell of them, as choices: a module that holds bids in the
`addBidResponse` hook and delays `responsesReady` (`Hook`) is what `Currency` is
in detail; the answer of the cache (`CacheAnswer`) is what `VideoCache` is; an
auction of `RequestQueue`, `Consent` and `UserId` is seen before it runs, which
is when it waits there. `BidCache` takes from `TTLCollection` that a purge removes
exactly what has expired and that in a page in view it comes within the slack
(`ForgetsInTime`).

## Runs

| Run | Shows | Bounds | Expected |
|---|---|---|---|
| `auction_faults` | with adapters that throw anywhere, the auction refines `AuctionPromise` (it ends once, and in the step in which nothing is awaited any more), reports who never answered, and calls back | a server call for two bidders, a client bidder with two requests | pass |
| `auction_gated` | a bid request has NO_BID once or a bid and never both; an auction that ends early heard everyone out; no bidder is forgotten; it ends without its timer | two bidders, two requests, two placements | pass |
| `queue` | the limit kept, nobody stranded, every queued auction runs | four auctions, two sources, limit 2 | pass |
| `queue_stuck` | an auction that sends nothing leaves the next one queued for ever | three auctions, limit 1 | finding |
| `currency` | nobody is stranded, given rates stay, no bid is given up while rates may come, bids and auctions go on | two auctions with a bid each, three requests | pass |
| `consent` | auctions have a timer and go on, readers are answered, failures are forgotten, given consent is kept | one auction, one reader, two lookups | pass |
| `ttl` | the list to purge is exact, purges are in time and remove exactly what has ended, no callback runs early | two items, two timers, four instants | pass |
| `rendering` | no ad is written twice or shown unbilled, what was sold is not offered again, targeting is cleared after wins, and only then: a slot that names a winner awaits its reset | two auctions with a bid each, one slot, two requests for ads | pass |
| `videocache` | each bid is answered once, with its own key, as if it were stored alone (`CachePromise`); only a throw leaves bids behind | four bids, batches of up to two | pass |
| `bidcache` | bids are kept as long as promised, and can be played while they are | two auctions with a bid each, five instants | pass |
| `userid` | ids are complete when given out, submodules that are let in are asked under the consent that holds, nobody waits on what was replaced or is over | two submodules, two callers, an auction, two consents, two refreshes | pass |
| `userid_init` | no refresh initialises the submodules after the consent lookup failed | the same | finding |

Deadlock is not checked: every system here may come to rest, when its auctions
are over and its bounds are used up.

## `Auction`

*State.* Each variable is one variable of the code, named in its declaration; the
closures of `auctionCallbacks` and of `processBidderRequests` are flattened
(`outstanding`, `allDone`, `requestsDone`, `responded` from the first, `left`
from the second). `hooked` and `caching` stand for continuations: bids inside
the asynchronous `addBidResponse` hook, and bids in the video cache.
`doneSignals` are the `adapterDone` reactions not yet run; a fault can
make it two for one bidder.

*Actions.* `Run` starts the timer and the loop over the adapters. `CallAdapter*`
and `CallServer*` are the ways one iteration of the loop can go: requests sent,
nothing to send, a throw before or between requests, a server adapter without
endpoint. `Respond`, `RespondThrows` and `Fail` settle an HTTP request.
`Accept`, `AcceptVideo`, `Reject` take a bid out of the hook, `CacheAnswer` out
of the cache. `AdapterDone`, `TimerFires` and `BidsBack` are the three parts of
the end. A synchronous chain of hooks is cut into actions too, and `Idle` keeps
any other task from running until it is over; likewise for the adapter loop when
it does not yield.

*Abstractions.* A bid is a pair of an HTTP response and a bid request: a response
brings at most one bid for a bid request. Bids carry no price. Which bids are
invalid, rejected or need caching is a nondeterministic choice. An HTTP request
that is aborted is aborted after the auction's timer has left "armed": both are
set to the same delay and the auction's is set first.

*Instances.* *Server* (`auction_faults`): one Prebid Server call serving a
primary and a secondary bidder, and a client bidder with two HTTP requests; one
bid request is for video; every fault. *Pair* (`auction_gated`): a primary
client bidder with two HTTP requests and two placements, one of them video, and
a slow secondary one; no faults. Two HTTP requests of one bidder are what it
takes for `requestDone` to matter; two bidders, for one to be awaited and the
other not; a video and a display placement, for the cache to race bids and done;
one call with two bidders, for one answer to signal two dones.

*Fairness.* `LoopFairness`: a task that was queued runs, the adapter loop goes
on, and modules release what they hold in hooks (the hook contract; the shipped
modules hold bids behind timeouts of their own). `AlwaysCallsBack` (`TimerSpec`)
adds only the auction's timer; nothing is assumed of bidders or of the cache.
`EndsWithoutTimer` (`AnswerSpec`) adds instead that awaited HTTP requests settle
(fetches are aborted by a timer), that the cache answers and that promise
reactions run; neither the auction's timer nor the requests of secondary bidders
are fair there.

*Proved.* `[]TypeOK`, `[]OutstandingExact`, `[]PromptEnd`, and `ClosesOnce` (an
auction that has ended stays so, and calls back once). The
inductive invariant `IInv` adds what they need: `AllDoneExact` (the flag
`allAdapterCalledDone` is what `bidderRequestsDone` says), `Lifecycle` (status,
timer, end and callback move together), `Counted` (the count of bids in the
cache is exact, and finite), `Quiet` (nothing is in motion before the
auction runs) and `InOnePlace` (a bid is never in the hook and in the cache, nor
in either before its HTTP answer; without it a bid could enter the cache twice
and the count would drift). `PromptEnd` is not inductive alone: a step that
empties the cache has to know that the counter reaches zero with it.

The refinement is proved step by step: `ImplementsPromise` says that `Spec`
implements `AuctionPromise` without its fairness. Each action of `Auction` maps
to `Start`, `Advance`, `TimeUp` or `Report` of the promise or to a stutter
(`StepSeen`), and that the promise's end comes in the same step as the last of
what it waits for is `PromptEnd`. That it does come is `KeepsPromise`, for TLC.

`TimeoutReport` rests on `TimelyExact`: the timely bidders are those with an
answered HTTP request, in every state. It holds with every fault.

`[]NoBidOnce` and `EarlyEndComplete` are proved under `Orderly`: modules that
hold bids also hold `responsesReady`, and adapters throw at most while they
build requests and while a bid is taken in. What is excluded has to be: with the
others a bidder is told done while it still answers: sending throws after a
request has left; `getUserSyncs` throws after done, and the loop says it again;
a bid held by a module without `responsesReady` comes after its bidder's done. The
invariant `OInv` is `LeftCovers` (`delayExecution` waits for at least the
requests in flight), `DoneOnce` (a bidder is done once, when its adapter was
called and has nothing in flight), `HeardOut` (no bid of a bidder that is done is
still held) and `NoBidMeans` (NO_BID is for bidders that are done).

`[]NobodyForgotten`, the safety that `EndsWithoutTimer` rests on, is proved under
`Reaching`: no bid of a response throws (`requestDone` would not be reached), and
a server adapter does not throw (the adapters after it would not be called). Its
invariant is `LeftExact`: a bidder that was called and not told done has exactly as many
requests in flight as `delayExecution` still waits for (`Underway`), at least one.
The server adapter is left out, as one that makes no request never calls done.
Only model-checked: liveness.

*Seen while modelling.* An adapter that has nothing to send and whose
`getUserSyncs` throws is done twice, and NO_BID is emitted twice for its bid
requests.

## `RequestQueue`

*State.* `queuedCalls`, `outstanding` (`outstandingRequests`), `origin` and `SRA`
(the two fields of `sourceInfo`) are the module globals of `src/auction.ts`;
`phase` and `http` stand for the auctions and their requests. A source learns
its origin from its first request, and whether it sends one request per auction
or one per bid from the end of its first auction (`SendingOver`).

*Actions.* `AddBidderRequests` is `addBidderRequestsCallback` (start or queue),
`SendingOver` the end of the adapters' calls, `Request` is `onRequest`, and
`Done` is `requestDone` with the one look it takes at the first queued auction
(`runQueued`).

*Conditions.* `LimitHolds` is about origins each served by one source that
behaves in every auction as in its first, and about auctions that do not yield
between adapters: what the code estimates requests with. A source without an
origin yet is let through by the code, and so by the model. `NotStranded` and
`QueueDrains` need every auction to send a request (`AlwaysSends`; `Elective`
is FALSE): without it see the finding.

*Instance.* Four auctions, the first of which yields; two sources with an
origin each, one request per auction and one per bid; a limit of two; the third
auction has three bids, more than the limit. Four auctions make two wait while
two run. *Fairness:* requests end (they have a timeout), and an adapter that
does not choose its requests sends them.

*Proved.* `[]TypeOK`, `[]CountExact`, `[]QueuedOnce`, and under `AlwaysSends`
`[]NotStranded`. `CountExact` needs of the invariant that the counter and the
set of requests in flight change together; `NotStranded` needs `Fresh` (an
auction that is still sending has unsent requests, and one that has not started
has all of them). `[]LimitHolds` is proved under `Steady`, the conditions above
as a formula over the constants (TLC evaluates it for the instance of the run).
Its invariant counts not what is in flight but what is `Planned`: in flight, or
still to be sent by the auction whose turn it is. `Within` says that this stays
within the limit or is all of one auction. It rests on what the code learns:
`OriginLearned` (a source's origin is that of its requests), `SRALearned`
(whether it ever sent two in one auction) and `SentAll` (an auction that has
finished sending left nothing out); with these the estimate a new auction is let
in by is never too low. Only model-checked: `QueueDrains`.

*Finding* (`queue_stuck`). Only the end of a request looks at the queue, at one
auction. If that one runs and sends nothing, the next stays queued.

## `Currency`

*State.* The module's globals (`enabled`, `loaded`, `needCall`, `useDefaults`,
`rates`, `requestId`); `inflight`, the requests for the rates file by their id;
`gate` and `opened`, the `responseReady` deferreds that were made and those that
are resolved. A bid waits in `bidResponseQueue`, an auction in
`delayedAuctions`, its `adapterDone` on a gate (`signal`, `on`).

*Actions.* `Configure` is `setConfig` with the four things the page may pass;
`FileStep` the success and the failure of a request; `AuctionStep` what the
auction does (`requestBids` hook, AUCTION_INIT, end, timeout, `adapterDone`);
`AddBidResponse` the hook on bids.

*Instance.* Two auctions with a bid each, all configurations in any order, the
file may fail, at most three requests for it (`MaxId`): one that is superseded,
its successor, and a retry. A page that configures the module more often meets no new
combination: requests differ only in being the newest or not.
*Fairness:* requests for the file settle, promise reactions run.

*Proved.* `[]TypeOK` and `[]NobodyStranded`. The invariant is, until the module
is turned off, `WhileOn`: the newest request is in flight unless rates are loaded
(`LatestInFlight`), an unresolved gate has a request that will open it
(`GateWillOpen`), there is one gate (`OneGate`), and who waits will be freed
(`Freed`). Turning the module off leaves the queue as it is, which is why every
one of these, and both liveness properties, stop there (`TurnedOff`).
`GivenRatesStay` follows from `GivenIsFinal`: with given rates the newest id is
that of no request, and nothing makes a new one. `RejectedForCause` is about all
that may run the shared queue: answers in any order, failures, other auctions and
their timeouts, also after the module was turned off and on. It rests on
`NothingToCome`: when loading is over and there are no rates, the newest request
is not in flight. Only model-checked: liveness (`WaitsEnd`).

*Seen while modelling.* Enabling the module requests the file; the AUCTION_INIT
that follows takes the other branch of `loadRates` and resolves `responseReady`
while the file is in flight (`modules/currency.ts:217`). The auction may end
without the bids that wait for it; the bids themselves go on (`WaitsEnd`). With
several auctions the AUCTION_INIT of one rejects the bids of another that are
queued, before the file comes: it is the exception in `RejectedForCause`, which
TLC finds violated without it.

## `Consent`

*State.* The fields of `gdprDataHandler`; for each lookup its stage, its timer
and what the closure of `lookupConsentData` holds; the event manager of the TCF
module; the loader with the lookup it keeps (`cd`); the auctions and the readers
of the handler's promise that wait.

*Actions.* The page configures, reconfigures, disables (`Configure`,
`Deconfigure`, `Disable`); `LooksUp`, `Waits`, `GoesOn` are the requestBids hook;
`Polls`, `PollFinds` the wait for a CMP that appears late; `CmpShows`,
`CmpAnswers`, `CmpFails` calls of the listener, also within the call that adds
it; `TimerFires` the two timeouts; `ReadPromise`, `PromiseSettles`, `ReadHash`
the readers. Consent data is abstracted to what decides anything: none, "no
answer", shown before the user acts, given.

*Conditions.* Disabling the module strands the readers of the old promise and
drops the listeners: the code resets the handler, and the properties stop there.
The failure of a lookup wipes consent that another one stored;
`GivenConsentKept` allows it. GPP and USP use the same library and are not
modelled apart; frameworks without data and the GVL registries are left out.

*Instance.* One auction, one reader, two lookups (a retry, or a reconfiguration
with a lookup pending).
*Fairness:* timers fire and reactions run; nothing is assumed of the CMP, so
`WaitsEnd` rests on the timeouts alone.

*Proved.* All safety properties of the run `consent`: `TypeOK`,
`NobodyWaitsUntimed`, `PromiseCovered`, `FailuresForgotten`, `ListenersKnow`,
`GivenConsentKept`, `ContinuesInformed`. The invariant adds `Timed` (a pending
lookup has a timer), `WaitsRight` (an auction waits for a lookup that is
pending), `WillBeReady` (an enabled handler that is not ready has such a lookup)
and `LoadedShows` (a lookup whose CMP loaded has something to show when it times
out). Only model-checked: liveness.

*Seen while modelling.* The flag that makes the hash be computed again is
assigned, not raised, so storing the same data twice clears it
(`src/consentHandler.ts:131`, `:140`). When the CMP calls the listener within
`addEventListener`, the timer for the user's action is replaced by the one for
the CMP to load (`libraries/consentManagement/cmUtils.ts:119`).

## `TTLCollection`

*State.* `items`, `start` and `delta` are the entries; `asked` has those whose
ttl is being asked for (`currentCall`, `currentCohort`); `pendingPurge`,
`nextPurge`, `task` are the closure's. `timers` are the chains of
native timers behind each `setFocusTimeout`: a chain that was set again more than
once, or is suspended, has an id that the getter in `task` does not know, so that
`clearTask` clears nothing and the old purge runs beside the new one. `past`,
and `left` of a timer, record history for the properties.

*Actions.* `Add`, `Known` (an item's ttl arrives: `update`), `Refresh`, `Clear`,
`Delete`; `TimerFires` runs the purge (`Sweep`), suspends the timer, or sets it
again; `Hide`, `Show` are `visibilitychange`; `Tick` lets time pass, not beyond
a timer that is due: tasks take no time. `Int32` is what `setTimeout` makes of a
delay that is too long; `Plus` is addition with JavaScript's Infinity.

*Conditions.* An item's start time is known no later than its ttl, and an item is
deleted only when its ttl is known, as in all uses of the collection. A
"monotonic" collection is the special case in which items are marked in order.
The page is not hidden for longer than `MaxDelay` (24.8 days) in all. On a page
that *loads* hidden, timers run while it is hidden, and the time out of focus is
wrong from its first return to view (`src/utils/focusTimeout.js:9`);
`SweepInTime` and `FocusedEnough` exclude such pages, the other properties do not.

*Instance.* Two items (two make an order), ttls of 0, 1 and none, slack 1, two
timers (a purge and a stale one), four instants: enough to expire, sweep, hide,
show, and suspend a timer in between; the page loads at time 20, so that a page
that loads hidden overflows `MaxDelay`.

*Proved.* All four properties of the run `ttl`, and the type, for any items, ttls, slack and
times. The argument of `SweepInTime` and `FocusedEnough` is that nothing but time changes when a timer
will run its callback (`RunsAt`: when it fires, plus the time out of focus it
will then find it has missed): firing while hidden, suspending, setting again,
hiding and showing all leave it where it is, as long as the time out of focus
fits in a delay. So `TimersRight` (what is left to wait ends no later than
`RunsAt`; no set timer is overdue) and `TaskRight` (`RunsAt` of the purge is
within `nextPurge` and twice the time out of focus) are inductive, with
`FocusRight` and `HiddenSince` to bound the time out of focus. `PurgeListExact`
with `Entries` is inductive alone; that lists stay in order is proved by
`MarkedExact` (insertion) and `KeptExact` (removal). `ForgetsInTime` puts these
together for who uses a collection: what has ended is a prefix of the list
(`EndedIsListed`), which is what a purge takes (`SweptExactly`); and as time does
not pass a timer that is due, it does not pass `nextPurge` (`TicksInTime`).

*Seen while modelling.* `outOfFocusStart` is set by `visibilitychange` alone: on
a page that loads hidden timers count time out of view, and the first return to
view adds the time since 1970 to the time out of focus
(`src/utils/focusTimeout.js:9`); `FocusedEnough`, `SweepInTime` and
`ForgetsInTime` are about the other pages. The documented setting `minTargetedBidCacheTTL:
Infinity` makes an expiry of Infinity, and `nextPurge - now`, being Infinity, a
delay of 0: the purge runs again and again, without end
(`src/utils/ttlCollection.ts:75`).

## `BidCache`

*State.* `auctions` is the collection of the auction manager, `received` the
union of the collections of each auction, with their expiries; `minCacheTTL` and
`minTargetedBidCacheTTL` are the module variables of `src/bidTTL.ts`;
`vastLocalCache` is the map of blobs in `src/videoCache.ts`.

*Actions.* `BidReceived` and `AuctionEnd` start lifetimes, `SetTargeting` and
`SetTTLs` refresh them, for the bids concerned and for every auction, in this
order; `MarkAsRendered` refreshes nothing. `PurgeBids` and `PurgeAuctions` are
the two purges, `PurgeAuctions` with the clean up handler; `ClearAllAuctions` is
the page's. `Tick` does not pass a purge that is due while `InView`; on a page
that was hidden stale purge timers run too, so there a purge may come as soon as
something has expired (`MayPurge`), and late.

*Abstractions.* Promises settle within the step. A bid's ttl is the same for all
bids of the instance: what differs is when they come and which minimum holds.

*Instance.* Two auctions with a bid each, minimums unset, zero and long (3,
longer than the ttl of 1), five instants, purges as late as a hidden page can
make them (`InView` is FALSE).

*Checked.* `KeptLongEnough` is about bids in time. A late bid goes with its
auction, whose lifetime was taken from the bids it had when it ended
(`src/auctionManager.js:47`), though bids are "kept in memory for the duration of
their actual TTL" (`src/bidTTL.ts:21`): the property excludes `late` bids.
`FoundHasBlob` says that no blob goes too early. Not every blob goes: those of
bids that were purged before their auction, came after it, or were cleared stay
for good (`src/videoCache.ts:389`).

*Proved*, for any auctions, bids, ttls, minimums and slack, in view or not:
`[]FoundHasBlob`, inductive alone, and `KeptLongEnough`. The proofs are in
`VideoCache_proofs`, next to those of the cache that is not local. The invariant `KInv` is `BidKept` (a bid's
expiry is no sooner than its ttl and, until it is rendered, the one its lifetime
gives now) and `AuctionKept` (an auction's expiry is no sooner than what each of
its bids that came in time may still claim). Both are about the lifetime *now*:
`RefreshKInv` shows that a change of settings or targeting, which changes
lifetimes, takes every expiry along. That an auction's lifetime, a maximum
over its bids, is one at all needs that a finite set has a largest element
(`LargestExists`, by the well-foundedness of the naturals).

## `VideoCache`

*State.* `batches` and `debouncing` are the closure of `batchingCache`, `timer`
its `setTimeout`, `requests` the batches the server has not answered; `outcome`
and `answers` record what has become of each bid and how often `afterBidAdded`
was called for it.

*Actions.* `Configure` changes `batchSize` and `batchTimeout` at any time, as
`setConfig` may. `AddDirectly` is a bid that needs no remote cache.
`BatchAndStore` collects a bid and sends at once when there is no timeout;
`TimerFires` sends. `Dispatch` is the callback of both: all batches become
requests, or the request for one of them throws, and then neither the batches nor
the flag are reset (`src/videoCache.ts:419`). `Answer` is `storeBatch`'s callback: an
error, a wrong number of ids, or an id or none for each bid, by position.

*Instance.* Four bids, batches of up to two: two full batches, with requests
answered out of order. *Fairness:* the timer fires; requests are answered, as
`ajax` times them out.

*Proved.* `[]AnsweredOnce`, `[]BatchesTimed`, `[]OwnKey`, and the refinement of
`CachePromise`, for any bids and batch sizes.
The invariant is `InOneBatch`: no bid is in two batches or two requests, and none
in both unless the cache is `Stuck` after a throw, in which case it never sends
again; with `Timed` (the cache debounces while it has bids; there is a timer
until a throw). The sequence lemmas (`AppendedBatch`, `JoinedBatches`,
`PartOfBatches`, `Removed`) say where bids go when batches are appended, joined
and taken out. `[]OwnKey` rests on `EveryPlace`: an increasing choice of as many
places as there are ids is every place, in order (by cardinalities, without
induction), so the id at a bid's place is its own; `AnswerTells` says so of each
kind of answer.

`ImplementsPromise` is that `Spec` implements `CachePromise`, in which each bid is
held, sent, and answered for once with its own key, and batches cannot be seen.
The mapping (`stageOf`) is where a bid is: in a request it was sent, in the
batches alone it is held. Each action maps to `Skip`, `Send` or `Answer`, or to a
stutter (`StepSeen`). It needs `InOneBatch`, as a bid in two requests would be
answered twice, and `NoneLost`: a bid that waits is in the batches or in a
request, also after a throw. That it does not stay there is `EachAnswered`, for
TLC.

## `Targeting` and `Rendering`

*State.* Of `src/targeting.ts`: `latestAuction`, `slotTargeting` (the bid of
`hb_adid`), `targetedAdIds` (`targetedAdIdsBySlot`), `slotRenderedAt`,
`pendingReset`, and the timer `reschedule`; of `lock.ts`: `locked`; of the bids
themselves: `status`, `expired`, `received`. Of rendering: `WINNERS`,
`DEFERRED_RENDER`, `BILLED`, `winning` (`_winningBids`), and, as history, `won`
(BID_WON was emitted) and `written`.

*Actions.* `SetTargeting` is `setTargetingForGPT` for some ad units: it picks a
usable bid for each, presets the others, records the ad ids, drops pending
resets, locks and marks. `OnBidWon` is the handler of BID_WON, part of the step that
emits it; `SlotRenderEnded` is the event of GPT for both of its listeners;
`Reschedule` the timer that resets. `RenderRequest`, `NativeRequest`,
`NativeMessage`, `TriggerBilling` and `MarkAsUsed` are the ways an ad is
asked for, billed and reported; each writes, marks and emits as the code does,
in one task.

*Abstractions.* Any usable bid may be the best; one slot serves one ad unit;
creatives and writing are opaque and may fail. Time is that an entry is older
than 100 ms, or a lock has timed out, at some time.

*Instance.* One slot and a bid in each of two auctions, one of the bids both
deferred and native, so that each kind meets a plain competitor; bids of the
first auction may be offered in the second (`useBidCache`); ad ids are locked;
two requests for ads, as it takes two to render twice. *Fairness:* timers fire
and time passes; the page, GPT and creatives owe nothing.

*Conditions.* `WrittenOnce` needs `suppressStaleRender`: without it the code
warns and writes again. `SoldOnce` leaves out deferred and native bids, which
win without the status that keeps them from being offered again
(`src/targeting/filters.ts:9` says that "bids that have been rendered" are to be
left out, and only those are).

*Proved.* `[]TypeOK`, `[]WrittenOnce`, `[]BilledFirst`, `[]WinnerWatched`,
`SoldOnce`, `ResetSparesNew`, for any auctions, units, slots, bids and settings. The
invariant adds `SameAdIds` (the slots of an ad unit record the same ad ids, its
own), `PendingWon` (an ad unit that waits to be reset has a winner on each of its
slots), `WinnersBilled`, `SoldIsRendered` (who has won is rendered, deferred
and native bids aside) and `WrittenIsRendered`. `ResetSparesNew` is where they
meet: new targeting drops the reset, so what a reset clears is what was won.

`[]WinnerWatched` is the safety that `WinnerCleared` rests on. Its invariant
`WatchInv` is `NamedIsOffered` (what a slot names is recorded for it, so a win
finds the slot), `TimerSet` (while a unit awaits its reset the timer is set) and
`WinnerPending` (a slot that names a winner has its unit pending). New targeting
drops what is pending but, by `SoldIsRendered`, names no winner; what ends the
wait otherwise clears the slot.
Only model-checked: `WinnerCleared`.

*Seen while modelling.* `markWinningBidAsUsed` does not go through `WINNERS`: a
bid that was rendered and is then marked emits BID_WON twice
(`src/prebid.ts:1195`). The end of a slot's rendering unlocks what the slot has
now, which may be new targeting and not what was rendered
(`src/targeting/lock.ts:48`).

## `UserId`

*State.* `configured`, `inited` (`initializedSubmodules`), `callback` and
`initialized` are those of `modules/userId/index.ts`; `startCallbacks` is the
deferred of that name with what may resolve it. Each refresh replaces `done` by a
promise over a new chain, and cancels the old one; so a chain is a number,
`issued` the last, with its `stage` and the submodules that have not called back
(`left`); `inFlight` is the set of outstanding batches, `prior` what a partial
refresh waits for besides its own. `waiter` is each caller and auction.

*Actions.* `Configure` is `setConfig` (the first time it starts the
initialisation, later it refreshes the new submodules), `Consent` and `Notify`
are a change of consent: the promise and the initialisation that waits for it
first, then the listeners. `refreshUserIds` and `getUserIdsAsync` are the page's;
`Auction` and `DelayOver` the `requestBids` hook with its delay; `AuctionEnd` and
`SyncDelayOver` what releases the callbacks held by the initialisation;
`CallBack` is a submodule's answer; `Retry` is the microtask in which a caller
whose wait was cancelled waits again. No task begins while there is one
(`TaskOver`).

*Instance.* Two submodules (so that a refresh can be partial), two callers and
an auction, consent that comes late, fails or changes, two refreshes: what a
third supersedes is again a refresh. *Fairness:* timers, microtasks and the end
of an auction; the submodules and consent owe nothing. `EachAnswered` says that
then somebody waits for ever only on a submodule that still counts and never
answers, or on consent, configuration or an auction's end.

*Proved.* `[]TypeOK`, `[]AskedUnderConsent`, `CompleteWhenGiven`,
`[]WaitsForSomething`, for any submodules, callers, auctions, consents and number
of refreshes. The invariant is `ChainInv` (what is outstanding in a chain that counts has a batch in flight, and
the last chain waits for every batch in flight) and `SystemInv` (nothing is
refreshed before it is initialised, nor initialised before there is consent).
`CompleteWhenGiven` follows as every answer is given by a fulfilled `done`
(`GivenByDone`), and `FulfilledComplete`.

`WaitsForSomething` is the safety that `EachAnswered` rests on: a caller that
waits does so for a `done` that has not settled, and that one for a submodule,
consent, configuration, an auction's end or the syncDelay. Its invariant is
`WaitersTold` (when `done` settles all who wait are told, and a new `done`
takes over those of the old one) and `StageInv` (a chain at its callbacks has some
left, only the initialisation waits for anything else, and it is held no longer
than the syncDelay). Only model-checked: `EachAnswered`.

*Finding* (`userid_init`). When the consent lookup fails first, the
initialisation fails with it and is not started again: refreshes, also forced
ones and those for later consent, do nothing.

*Conditions.* `AskedUnderConsent` is about submodules that were let in
when they were last to be initialised. `seen` says of the others that they were
passed over: the user opted out, storage or activity rules exclude them, or they
threw (`index.ts:998-1028`). Such a submodule is not asked, and the container it
has in the priority maps stays, with its id (`index.ts:378-381`), unless the user
opted out, which empties the maps. That consent management is turned off is left
out: `reset()` makes the promise of its handler a new one and drops the listener
(`src/consentHandler.ts:103-114`), so that later changes of that consent refresh
nothing.

*Seen while modelling.* A callback that was made under earlier consent
stores its answer when it comes, also over a newer one
(`index.ts:306-315`), and one that is still held is run by a later refresh if the
submodule returns no new one. What ids and answers contain is left out, and no
property is about it.

## What the theorems rest on

Each `*_proofs` module proves an inductive invariant `IInv`, checked by TLC
before it was proved, from the named assumption on the constants of its module
(`AuctionAssumption`, `QueueAssumption`, ...), which TLC evaluates in every run,
and derives the theorems from `Spec => []IInv`. The lemma for each step has a
part for each conjunct the step can disturb. No theorem assumes fairness;
liveness under fairness is checked by TLC only.

The order in which the theorems were found is the same everywhere: TLC refuted
or confirmed each candidate conjunct of `IInv` on the instance of the run, and
the proof then showed which facts were missing.

Five theorems assume more than that, each what its property is conditional on:
`NeverStranded` of the queue `AlwaysSends`, `LimitAlwaysHolds` `Steady`,
`NoBidIsOnce` and `EarlyEndIsComplete` `Orderly`, and `NobodyIsForgotten` `Reaching`.

With this every invariant and every action property that a run checks is
proved. What stays with TLC is liveness under fairness: `AlwaysCallsBack`,
`EndsWithoutTimer`, the fairness in `KeepsPromise`, `QueueDrains`, `WaitsEnd` of
`Currency` and of `Consent`, `WinnerCleared` and `EachAnswered` of `VideoCache`
and of `UserId`. For these the safety they rest on, that whoever waits
waits for something that is still to come, is an invariant and proved:
`NobodyForgotten` and `PromptEnd`, `NotStranded`, `WinnerWatched` and
`WaitsForSomething`, `NobodyStranded` of `Currency`, `NobodyWaitsUntimed` of
`Consent`, and `BatchesTimed`.

Four invariants are proved and are no property of a run, because a bug that
breaks them shows in another one: with a count of bids in the cache that drifts or
is read too early (`OutstandingExact`, `PromptEnd`) TLC finds `KeepsPromise`
violated, with a count of requests that drifts (`CountExact`) `NotStranded`, and
with ids given out whatever their number (`OwnKey`) `StoresEach`. Type
correctness is proved of seven modules; a run checks that of `Auction`.

## Not modelled

* *Bid, analytics and RTD adapters* (`modules/`, about 900 files): each is a
  mapping between its vendor's protocol and Prebid's. What they share, the
  framework that calls them and every way they may fail, is `Auction`. They are
  most of the repository's lines, which is why the map covers a small share of it.
* *User sync* (`src/userSync.ts`): queues of pixels with limits and filters,
  run from one place. An exception while firing leaves the queue as it was.
* *Activity controls*, *events* and *hooks*: rules and handlers, called in an
  order that is data. *Configuration*, storage, bidder settings, first party
  data: getters, setters and merges.
* *Formatting*: price granularity, native assets, OpenRTB conversion, VAST
  wrappers, metrics, logging.
* *GPP and USP consent*: the same library as TCF, which `Consent` models.
* Within modelled components, what each component's note in `PROJECT.json`
  leaves out.
