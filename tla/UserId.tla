------------------------------- MODULE UserId -------------------------------
(***************************************************************************)
(* When the ID submodules are initialised, asked and asked again, and who  *)
(* waits for them: idSystemInitializer, retryOnCancel, startAuctionHook    *)
(* and init of modules/userId/index.ts.                                    *)
(*                                                                         *)
(* Promises are greedy: what a step settles has run when the step is over. *)
(* The one exception is the retry of a caller whose initialization was     *)
(* cancelled, a microtask: Retry.                                          *)
(*                                                                         *)
(* Chain 0 is the initialization, chain n the n-th refresh. A chain asks   *)
(* its submodules for ids; those that need time return a callback, which   *)
(* the chain runs and waits for. What an id is and how it is stored is     *)
(* left out; a submodule may throw, be ruled out or have its id at once.   *)
(*                                                                         *)
(* Consent management stays on: that it is turned off is left out, which   *)
(* resets its handler (src/consentHandler.ts:103), makes its promise a new *)
(* one and drops the listener that refreshes the submodules.               *)
(***************************************************************************)
EXTENDS Naturals

CONSTANTS
  Modules,       \* ID submodules
  Callers,       \* calls of getUserIdsAsync and refreshUserIds
  Auctions,      \* auctions, which wait for their ids
  Given,         \* consent data
  MaxRefreshes

ASSUME UserIdAssumption ==
  /\ MaxRefreshes \in Nat
  /\ Given \cap {"pending", "failed", "none", "passed"} = {}
  /\ Callers \cap Auctions = {}

Waiters == Callers \cup Auctions
Chains == 0 .. MaxRefreshes

VARIABLES
  consent,      \* of allConsent: data, or that its promise is pending or was rejected
  notify,       \* its listeners are still to be told, in the same task
  auctionDelay, \* whether there is one
  configured,   \* submodules that have a configuration
  inited,       \* those in initializedSubmodules
  callback,     \* those with a callback that has not been run
  seen,         \* of each: the consent it was asked under when it was last to be
                \* initialised, "passed" if that did not let it in, "none" before
  initialized,
  startCallbacks, \* "off", "listening" for AUCTION_END, "timed" by syncDelay, "resolved"
  issued,       \* the chain of the last refresh, whose promise is in done
  prior,        \* the batches done waits for besides
  lastFull,     \* the last refresh of all submodules
  stage,        \* of each chain: "new", "consent", "held", "callbacks", "done", "failed"
  left,         \* of each chain: submodules that have not called back
  inFlight,     \* chains whose batch is outstanding
  waiter        \* of each: "idle", "waiting", "retry", "answered", "rejected", "timedout"

submoduleVars == <<configured, inited, callback, seen>>
chainVars == <<issued, prior, lastFull, stage, left, inFlight>>
vars == <<consent, notify, auctionDelay, submoduleVars, initialized, startCallbacks,
          chainVars, waiter>>

TypeOK ==
  /\ consent \in Given \cup {"pending", "failed"}
  /\ {notify, auctionDelay, initialized} \subseteq BOOLEAN
  /\ configured \subseteq Modules /\ inited \subseteq configured /\ callback \subseteq configured
  /\ seen \in [Modules -> Given \cup {"none", "passed"}]
  /\ startCallbacks \in {"off", "listening", "timed", "resolved"}
  /\ issued \in Chains /\ lastFull \in 0 .. issued /\ prior \subseteq 0 .. issued
  /\ stage \in [Chains -> {"new", "consent", "held", "callbacks", "done", "failed"}]
  /\ left \in [Chains -> SUBSET Modules]
  /\ inFlight \subseteq lastFull .. issued
  /\ waiter \in [Waiters -> {"idle", "waiting", "retry", "answered", "rejected", "timedout"}]

Init ==
  /\ consent \in Given \cup {"pending"} /\ notify = FALSE /\ auctionDelay \in BOOLEAN
  /\ configured = {} /\ inited = {} /\ callback = {} /\ seen = [m \in Modules |-> "none"]
  /\ initialized = FALSE /\ startCallbacks = "off"
  /\ issued = 0 /\ prior = {} /\ lastFull = 0 /\ inFlight = {}
  /\ stage = [c \in Chains |-> "new"] /\ left = [c \in Chains |-> {}]
  /\ waiter = [w \in Waiters |-> "idle"]

-----------------------------------------------------------------------------
(* done: the race of the last chain, and the batches before it, with cancel. *)
Fulfilled == stage[issued] = "done" /\ prior \cap inFlight = {}
Failed == stage[issued] = "failed"

\* What becomes of who waits for done, and of who does when it is cancelled.
Outcome == IF Fulfilled THEN "answered" ELSE IF Failed THEN "rejected" ELSE "waiting"
SettleDone == waiter' = [w \in Waiters |-> IF waiter[w] = "waiting" THEN Outcome' ELSE waiter[w]]
CancelDone(asking) ==
  waiter' = [w \in Waiters |-> IF w \in asking THEN Outcome'
                               ELSE IF waiter[w] = "waiting" THEN "retry" ELSE waiter[w]]

(* A task begins when the last one, with its microtasks, is over. The page *)
(* can make several calls in one task, and a callback can come at once.    *)
TaskOver == ~notify /\ \A w \in Waiters : waiter[w] # "retry"

(* initSubmodules for ms: it asks and lets in those of ok, of which those  *)
(* of cbs have a new callback, and passes over those that are ruled out or *)
(* throw; or it resets them all, if the user has opted out, and asks none. *)
initSubmodules(ms, c, ok, cbs) ==
  /\ \/ inited' = inited \cup ok
     \/ inited' = {} /\ ok = {}
  /\ cbs \subseteq ok
  /\ seen' = [m \in Modules |-> IF m \in ok THEN c ELSE IF m \in ms THEN "passed" ELSE seen[m]]

\* Faulty: the batch of a chain is left in flight.
stillInFlight(batches, chain) == batches
settled(batches, chain) == batches \ {chain}

(* processSubmoduleCallbacks of a chain, for the submodules of ms that have *)
(* one of callbacks; batches are those in flight.                          *)
RunCallbacks(chain, ms, callbacks, batches) ==
  LET run == ms \cap callbacks IN
  /\ callback' = callbacks \ run
  /\ left' = [left EXCEPT ![chain] = run]
  /\ stage' = [stage EXCEPT ![chain] = IF run = {} THEN "done" ELSE "callbacks"]
  /\ inFlight' = IF run = {} THEN settled(batches, chain) ELSE batches

(* initChain from the consent on, for the submodules ms.                   *)
RunInit(c, ms, start) ==
  \E ok \in SUBSET ms : \E cbs \in SUBSET ok :
    /\ initSubmodules(ms, c, ok, cbs)
    /\ initialized' = TRUE
    /\ IF start
         THEN RunCallbacks(0, inited', callback \cup cbs, inFlight \cup {0})
         ELSE /\ callback' = callback \cup cbs
              /\ stage' = [stage EXCEPT ![0] = "held"]
              /\ inFlight' = inFlight \cup (IF inited' \cap callback' = {} THEN {} ELSE {0})
              /\ UNCHANGED left

FailInit ==
  /\ stage' = [stage EXCEPT ![0] = "failed"]
  /\ UNCHANGED <<inited, callback, seen, initialized, left, inFlight>>

-----------------------------------------------------------------------------
\* Faulty: a refresh of some submodules waits for nothing but those.
waitsForItsOwn(full) == {}
waitsFor(full) == IF full THEN {} ELSE inFlight

\* Faulty: a refresh of all submodules leaves what it replaces in flight.
supersedesNone(full) == inFlight
supersedeAll(full) == IF full THEN {} ELSE inFlight

(* initIdSystem with refresh, of all submodules or of ms; asking are those *)
(* who wait for the new done.                                              *)
Refresh(ms, full, asking) ==
  LET chain == issued + 1 IN
  /\ issued < MaxRefreshes
  /\ issued' = chain
  /\ lastFull' = IF full THEN chain ELSE lastFull
  /\ prior' = waitsFor(full)
  /\ IF consent = "failed"
       THEN /\ stage' = [stage EXCEPT ![chain] = "failed"]
            /\ inFlight' = supersedeAll(full)
            /\ UNCHANGED <<inited, callback, seen, left>>
       ELSE \E ok \in SUBSET ms : \E cbs \in SUBSET ok :
              /\ initSubmodules(ms, consent, ok, cbs)
              /\ RunCallbacks(chain, ok, callback \cup cbs, supersedeAll(full) \cup {chain})
  /\ CancelDone(asking)

(* setConfig adds submodules: they are refreshed if the others have been    *)
(* initialised, and the first time it starts the initialization.           *)
Configure(ms) ==
  /\ TaskOver
  /\ ms # {} /\ ms \subseteq Modules \ configured
  /\ configured' = configured \cup ms
  /\ IF initialized
       THEN Refresh(ms, FALSE, {}) /\ UNCHANGED <<initialized, startCallbacks>>
       ELSE IF stage[0] = "new"
         THEN /\ startCallbacks' = IF auctionDelay THEN "resolved" ELSE "listening"
              /\ IF consent = "pending"
                   THEN /\ stage' = [stage EXCEPT ![0] = "consent"]
                        /\ UNCHANGED <<inited, callback, seen, initialized, left, inFlight>>
                   ELSE IF consent = "failed" THEN FailInit
                        ELSE RunInit(consent, ms, auctionDelay)
              /\ UNCHANGED <<issued, prior, lastFull>>
              /\ SettleDone
         ELSE UNCHANGED <<inited, callback, seen, initialized, startCallbacks, chainVars, waiter>>
  /\ UNCHANGED <<consent, notify, auctionDelay>>

\* Faulty: listeners are told of a consent that replaces another.
replacesOther(c) == consent \in Given /\ c \in Given
Data(c) == IF c \in Given THEN c ELSE "none"
consentChanged(c) == Data(c) # Data(consent)

(* allConsent settles or changes. Its promise comes first, and with it the *)
(* initialization that waits for it; then its listeners, unless the hash   *)
(* of the new consent has been read on the way. reset() is left out.       *)
Consent(c) ==
  /\ TaskOver
  /\ issued < MaxRefreshes
  /\ c \in (Given \cup {"failed"}) \ {consent}
  /\ consent' = c
  /\ IF stage[0] = "consent"
       THEN IF c = "failed"
              THEN FailInit /\ notify' = consentChanged(c)
              ELSE RunInit(c, configured, startCallbacks = "resolved") /\ notify' \in BOOLEAN
       ELSE /\ notify' = consentChanged(c)
            /\ UNCHANGED <<inited, callback, seen, initialized, stage, left, inFlight>>
  /\ UNCHANGED <<auctionDelay, configured, startCallbacks, issued, prior, lastFull>>
  /\ SettleDone

Notify ==
  /\ notify
  /\ notify' = FALSE
  /\ IF initialized
       THEN Refresh(configured, TRUE, {})
       ELSE UNCHANGED <<inited, callback, seen, chainVars, waiter>>
  /\ UNCHANGED <<consent, auctionDelay, configured, initialized, startCallbacks>>

-----------------------------------------------------------------------------
(* refreshUserIds, which only waits when there is nothing to refresh yet.  *)
refreshUserIds(w, ms, full) ==
  /\ ~notify /\ waiter[w] = "idle"
  /\ IF initialized
       THEN Refresh(ms, full, {w})
       ELSE /\ waiter' = [waiter EXCEPT ![w] = Outcome]
            /\ UNCHANGED <<inited, callback, seen, chainVars>>
  /\ UNCHANGED <<consent, notify, auctionDelay, configured, initialized, startCallbacks>>

getUserIdsAsync(w) ==
  /\ ~notify /\ waiter[w] = "idle"
  /\ waiter' = [waiter EXCEPT ![w] = Outcome]
  /\ UNCHANGED <<consent, notify, auctionDelay, submoduleVars, initialized, startCallbacks, chainVars>>

Retry(w) ==
  /\ ~notify /\ waiter[w] = "retry"
  /\ waiter' = [waiter EXCEPT ![w] = Outcome]
  /\ UNCHANGED <<consent, notify, auctionDelay, submoduleVars, initialized, startCallbacks, chainVars>>

(* startAuctionHook: the auction goes on with the ids or after its delay,  *)
(* which is at once if there is none.                                      *)
Auction(w) ==
  /\ ~notify /\ waiter[w] = "idle" /\ configured # {}
  /\ waiter' = [waiter EXCEPT ![w] =
                  IF Outcome = "waiting" /\ ~auctionDelay THEN "timedout" ELSE Outcome]
  /\ UNCHANGED <<consent, notify, auctionDelay, submoduleVars, initialized, startCallbacks, chainVars>>

DelayOver(w) ==
  /\ TaskOver /\ waiter[w] = "waiting"
  /\ waiter' = [waiter EXCEPT ![w] = "timedout"]
  /\ UNCHANGED <<consent, notify, auctionDelay, submoduleVars, initialized, startCallbacks, chainVars>>

GoneOn(w) == waiter[w] \in {"answered", "rejected", "timedout"}
AuctionEnd ==
  /\ TaskOver /\ startCallbacks = "listening"
  /\ \E w \in Auctions : GoneOn(w)
  /\ startCallbacks' = "timed"
  /\ UNCHANGED <<consent, notify, auctionDelay, submoduleVars, initialized, chainVars, waiter>>

(* syncDelay is over: the initialization runs the callbacks it has held.   *)
SyncDelayOver ==
  /\ TaskOver /\ startCallbacks = "timed"
  /\ startCallbacks' = "resolved"
  /\ UNCHANGED <<consent, notify, auctionDelay, configured, inited, seen, initialized,
                 issued, prior, lastFull>>
  /\ IF stage[0] = "held"
       THEN RunCallbacks(0, inited, callback, inFlight) /\ SettleDone
       ELSE UNCHANGED <<callback, left, stage, inFlight, waiter>>

(* A submodule calls back, or its callback throws.                         *)
CallBack(chain, m) ==
  /\ m \in left[chain]
  /\ left' = [left EXCEPT ![chain] = @ \ {m}]
  /\ IF left[chain] = {m}
       THEN /\ stage' = [stage EXCEPT ![chain] = "done"]
            /\ inFlight' = settled(inFlight, chain)
       ELSE UNCHANGED <<stage, inFlight>>
  /\ UNCHANGED <<consent, notify, auctionDelay, submoduleVars, initialized, startCallbacks,
                 issued, prior, lastFull>>
  /\ SettleDone

Next ==
  \/ \E ms \in SUBSET Modules : Configure(ms)
  \/ \E c \in Given \cup {"failed"} : Consent(c)
  \/ Notify
  \/ \E w \in Callers :
       \/ getUserIdsAsync(w)
       \/ refreshUserIds(w, configured, TRUE)
       \/ \E ms \in SUBSET configured : refreshUserIds(w, ms, FALSE)
  \/ \E w \in Waiters : Retry(w)
  \/ \E w \in Auctions : Auction(w) \/ DelayOver(w)
  \/ AuctionEnd
  \/ SyncDelayOver
  \/ \E chain \in Chains, m \in Modules : CallBack(chain, m)

Spec == Init /\ [][Next]_vars

(* Listeners and microtasks run, timers fire and auctions end. The page,   *)
(* consent and the submodules owe nothing.                                 *)
FairSpec ==
  /\ Spec
  /\ WF_vars(Notify) /\ WF_vars(AuctionEnd) /\ WF_vars(SyncDelayOver)
  /\ \A w \in Waiters : WF_vars(Retry(w))
  /\ \A w \in Auctions : WF_vars(DelayOver(w))

-----------------------------------------------------------------------------
(* Chains whose answers still count: a refresh of all replaces the others. *)
Current == lastFull .. issued
Held(chain) == chain = 0 /\ stage[0] = "held" /\ inited \cap callback # {}

(* When callers and auctions are given the ids, every submodule that was   *)
(* asked for one has answered: a refresh that names some does not cut the  *)
(* wait for the others short, in whichever order refreshes, answers and    *)
(* the end of the auction come.                                            *)
CompleteWhenGiven ==
  [][\A w \in Waiters : waiter[w] # "answered" /\ waiter'[w] = "answered" =>
       (\A chain \in Current : left[chain] = {} /\ ~Held(chain))']_vars

(* Once initialised, and listeners told, every submodule that was let in    *)
(* when it was last to be initialised was asked under the consent that      *)
(* holds, and each was to be initialised at least once.  A submodule that   *)
(* was passed over then (the user opted out, it was ruled out or threw) was *)
(* not asked, and may have kept its id; nor does this say under which       *)
(* consent a callback was made that is still to answer.                     *)
AskedUnderConsent ==
  initialized /\ consent \in Given /\ ~notify =>
    \A m \in configured : seen[m] \in {consent, "passed"}

(* What may never come: the consent, the end of an auction, an answer of a  *)
(* submodule that has not been replaced.                                   *)
Blocked ==
  \/ stage[0] \in {"new", "consent"}
  \/ startCallbacks = "listening"
  \/ \E chain \in Current : left[chain] # {}

(* Who waits for the ids waits for a done that has not settled, and that    *)
(* itself waits for something: for what may never come, or the syncDelay.   *)
(* A done that waits for what is over, or has been replaced, would keep its *)
(* callers and auctions for good.                                           *)
WaitsForSomething ==
  (\E w \in Waiters : waiter[w] = "waiting") =>
    Outcome = "waiting" /\ (Blocked \/ startCallbacks = "timed")

(* Nobody waits for ever, not even on a submodule that never calls back,   *)
(* once a refresh of all has replaced it.                                  *)
EachAnswered ==
  \A w \in Waiters :
    []<>Blocked \/ (waiter[w] \in {"waiting", "retry"} ~> GoneOn(w))

(* The comment of refreshUserIds: "Force (re)initialization of ID           *)
(* submodules."                                                            *)
RefreshInitializes ==
  [][\A w \in Callers :
       refreshUserIds(w, configured, TRUE) /\ consent \in Given /\ configured # {} => initialized']_vars
=============================================================================
