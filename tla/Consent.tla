------------------------------ MODULE Consent ------------------------------
(***************************************************************************)
(* TCF consent: the data handler (src/consentHandler.ts), the lookup with   *)
(* its timeouts and the loader that auctions wait on                        *)
(* (libraries/consentManagement/cmUtils.ts), and the listener that the CMP  *)
(* calls (modules/consentManagementTcf.ts).                                 *)
(*                                                                         *)
(* Consent data is "null" (JavaScript's), "nothing" (getNullConsent: no     *)
(* answer), what the CMP shows before the user acts, or what the user gave. *)
(***************************************************************************)
EXTENDS Integers

CONSTANTS
  Auctions, Readers, \* Readers: code that reads the handler's promise
  Shown, Given,      \* consent before the user acts, and after
  Configs,           \* what the page configures: the CMP's API ("iab", or "late"
                     \* with waitForCmp), "static" data, "none", or "off"
  MaxLookups,        \* bound on lookups
  ActionTimeout      \* actionTimeout is set

ASSUME ConsentAssumption ==
  /\ Configs \subseteq {"iab", "late", "static", "none", "off"}
  /\ MaxLookups \in Nat
  /\ ActionTimeout \in BOOLEAN
  /\ {"null", "nothing", "unset"} \cap (Shown \cup Given) = {}
  /\ Shown \cap Given = {}

Lookups == 1..MaxLookups
ConsentData == Shown \cup Given \cup {"null", "nothing"}

VARIABLES
  enabled, ready, data, dirty, \* of gdprDataHandler; when it is ready its df is settled
  hash,        \* the data its hash was computed from, or "unset"
  registered,  \* it has the listeners of allConsent, which reset() drops
  told,        \* what they were last told
  cmp,         \* the CMP's API is there
  stage,       \* of each lookup: "none", "polling", "asked", "resolved", "rejected"
  timer,       \* of each lookup: "off", "cmp", "action"
  cmpLoaded, provisional, \* of each lookup
  listening,   \* lookups whose listener the CMP will call
  managed,     \* tcfCmpEventManager exists
  removable,   \* the listener whose id it knows, or 0
  hook,        \* requestBidsHook is in place
  mode,        \* the configuration that the current loader runs
  cd,          \* the lookup the current loader holds, or 0
  phase,       \* of each auction: "new", "waiting", "continued", "cancelled"
  on,          \* the lookup it waits for
  reader       \* of each reader: "idle", "waiting", "got", "stranded"

handler == <<enabled, ready, data, dirty, hash, registered, told>>
lookup == <<stage, timer, cmpLoaded, provisional, listening, managed, removable>>
loader == <<hook, mode, cd>>
auctions == <<phase, on>>
vars == <<handler, cmp, lookup, loader, auctions, reader>>

-----------------------------------------------------------------------------
Pending(l) == stage[l] \in {"polling", "asked"}
WaitsFor(l) == {a \in Auctions : phase[a] = "waiting" /\ on[a] = l}

(* A reader that reads the hash as the promise settles clears dirty first,  *)
(* and they are not told then: UserId.                                     *)
notifyListeners(v) == told' = IF registered /\ v # data THEN v ELSE told

(* resolve and reject of the handler. *)
Store(v) ==
  /\ dirty' = (v # data)
  /\ data' = v
  /\ ready' = TRUE
  /\ notifyListeners(v)

\* Faulty: auctions do not notice that the lookup is rejected.
SettleUnnoticed(l, how, auction) ==
  /\ stage' = [stage EXCEPT ![l] = how]
  /\ phase' = [a \in Auctions |->
                 IF a \in WaitsFor(l) /\ how = "resolved" THEN auction ELSE phase[a]]

(* The promise of a lookup settles; the loader forgets one that is rejected. *)
Settle(l, how, auction) ==
  /\ stage' = [stage EXCEPT ![l] = how]
  /\ phase' = [a \in Auctions |-> IF a \in WaitsFor(l) THEN auction ELSE phase[a]]

\* Faulty: the loader keeps a lookup that is rejected.
keepRejected(l) == UNCHANGED cd
forget(l) == cd' = IF cd = l THEN 0 ELSE cd

Resolve(l) ==
  IF Pending(l) THEN Settle(l, "resolved", "continued") ELSE UNCHANGED <<stage, phase>>

Reject(l) ==
  /\ Pending(l)
  /\ Settle(l, "rejected", "cancelled")
  /\ timer' = [timer EXCEPT ![l] = "off"]
  /\ forget(l)
  /\ Store("null")

\* Faulty: the timer starts with the CMP.
startTimerOnceFound(l) == timer' = IF cmp THEN [timer EXCEPT ![l] = "cmp"] ELSE timer
startTimer(l) == timer' = [timer EXCEPT ![l] = "cmp"]

(* resetTimeout, as setProvisionalConsent calls it. *)
resetTimeout(l) == IF ~cmpLoaded[l] /\ ActionTimeout THEN "action" ELSE timer[l]

setProvisionalConsent(l, v) ==
  /\ provisional' = [provisional EXCEPT ![l] = v]
  /\ cmpLoaded' = [cmpLoaded EXCEPT ![l] = TRUE]

-----------------------------------------------------------------------------
Init ==
  /\ enabled = FALSE /\ ready = FALSE /\ data = "null" /\ dirty = TRUE /\ hash = "unset"
  /\ registered = TRUE /\ told = "null"
  /\ cmp \in BOOLEAN
  /\ stage = [l \in Lookups |-> "none"] /\ timer = [l \in Lookups |-> "off"]
  /\ cmpLoaded = [l \in Lookups |-> FALSE] /\ provisional = [l \in Lookups |-> "null"]
  /\ listening = {} /\ managed = FALSE /\ removable = 0
  /\ hook = FALSE /\ mode = "iab" /\ cd = 0
  /\ phase = [a \in Auctions |-> "new"] /\ on = [a \in Auctions |-> 0]
  /\ reader = [c \in Readers |-> "idle"]

(* lookupConsentData: the auctions in who wait for it.  The CMP may show    *)
(* its prompt, and say so, within the call: the timer that is started then  *)
(* is replaced by the one for the CMP.                                      *)
Found(l, who) ==
  /\ mode' # "static" /\ cmp
  /\ \E v \in Shown \cup {"null"} :
       /\ provisional' = [provisional EXCEPT ![l] = v]
       /\ cmpLoaded' = [cmpLoaded EXCEPT ![l] = v # "null"]
  /\ stage' = [stage EXCEPT ![l] = "asked"]
  /\ startTimer(l)
  /\ listening' = listening \cup {l} /\ managed' = TRUE
  /\ phase' = [a \in Auctions |-> IF a \in who THEN "waiting" ELSE phase[a]]
  /\ cd' = l
  /\ UNCHANGED <<ready, data, dirty, told, removable>>

Polls(l, who) ==
  /\ mode' = "late" /\ ~cmp
  /\ stage' = [stage EXCEPT ![l] = "polling"]
  /\ startTimer(l)
  /\ phase' = [a \in Auctions |-> IF a \in who THEN "waiting" ELSE phase[a]]
  /\ cd' = l
  /\ UNCHANGED <<ready, data, dirty, told, cmpLoaded, provisional, listening, managed,
                 removable>>

(* There is no CMP, or the static data cannot be parsed. *)
Fails(l, who) ==
  /\ mode' = "static" \/ (mode' = "iab" /\ ~cmp)
  /\ stage' = [stage EXCEPT ![l] = "rejected"]
  /\ Store("null")
  /\ phase' = [a \in Auctions |-> IF a \in who THEN "cancelled" ELSE phase[a]]
  /\ cd' = 0
  /\ UNCHANGED <<timer, cmpLoaded, provisional, listening, managed, removable>>

(* The consent is in the page's configuration. *)
Static(l, who) ==
  /\ mode' = "static"
  /\ stage' = [stage EXCEPT ![l] = "resolved"]
  /\ \E v \in Given : Store(v)
  /\ phase' = [a \in Auctions |-> IF a \in who THEN "continued" ELSE phase[a]]
  /\ cd' = l
  /\ UNCHANGED <<timer, cmpLoaded, provisional, listening, managed, removable>>

Lookup(l, who) ==
  /\ stage[l] = "none" /\ \A k \in 1..(l - 1) : stage[k] # "none"
  /\ enabled' = TRUE
  /\ Found(l, who) \/ Polls(l, who) \/ Fails(l, who) \/ Static(l, who)
  /\ on' = [a \in Auctions |-> IF a \in who THEN l ELSE on[a]]
  /\ UNCHANGED <<hash, registered, cmp, reader>>

-----------------------------------------------------------------------------
(* setConsentConfig: a new loader, which looks up at once. *)
Configure(l) ==
  /\ mode' \in Configs \ {"none", "off"}
  /\ hook' = TRUE
  /\ Lookup(l, {})

(* No configuration: the hook is removed, the handler stays. *)
Deconfigure ==
  /\ "none" \in Configs /\ hook
  /\ hook' = FALSE
  /\ UNCHANGED <<handler, cmp, lookup, mode, cd, auctions, reader>>

(* enabled: false.  Only the listener whose id is known is removed; the df  *)
(* is replaced, and whoever waits for it is stranded.                       *)
Disable ==
  /\ "off" \in Configs
  /\ hook' = FALSE
  /\ enabled' = FALSE /\ ready' = FALSE /\ data' = "null" /\ dirty' = TRUE /\ hash' = "unset"
  /\ registered' = FALSE /\ told' = "null"
  /\ reader' = [c \in Readers |-> IF reader[c] # "waiting" THEN reader[c]
                                 ELSE IF ready THEN "got" ELSE "stranded"]
  /\ listening' = listening \ {removable} /\ managed' = FALSE /\ removable' = 0
  /\ UNCHANGED <<cmp, stage, timer, cmpLoaded, provisional, mode, cd, auctions>>

(* consentManagementHook: an auction goes on, or waits for the lookup that  *)
(* the loader holds, or for a new one.                                      *)
GoesOn(a) ==
  /\ phase[a] = "new"
  /\ hook => cd # 0 /\ stage[cd] = "resolved"
  /\ phase' = [phase EXCEPT ![a] = "continued"]
  /\ UNCHANGED <<handler, cmp, lookup, loader, on, reader>>

Waits(a) ==
  /\ phase[a] = "new" /\ hook
  /\ cd # 0 /\ Pending(cd)
  /\ phase' = [phase EXCEPT ![a] = "waiting"]
  /\ on' = [on EXCEPT ![a] = cd]
  /\ UNCHANGED <<handler, cmp, lookup, loader, reader>>

LooksUp(a, l) ==
  /\ phase[a] = "new" /\ hook
  /\ cd = 0
  /\ UNCHANGED <<hook, mode>>
  /\ Lookup(l, {a})

-----------------------------------------------------------------------------
CmpAppears ==
  /\ ~cmp
  /\ cmp' = TRUE
  /\ UNCHANGED <<handler, lookup, loader, auctions, reader>>

(* pollForCmp finds it. *)
PollFinds(l) ==
  /\ stage[l] = "polling" /\ cmp
  /\ stage' = [stage EXCEPT ![l] = "asked"]
  /\ listening' = listening \cup {l} /\ managed' = TRUE
  /\ UNCHANGED <<handler, cmp, timer, cmpLoaded, provisional, removable, loader, auctions,
                 reader>>

(* The CMP calls the listener: the user has yet to act ... *)
CmpShows(l) ==
  /\ l \in listening
  /\ \E v \in Shown : setProvisionalConsent(l, v)
  /\ timer' = [timer EXCEPT ![l] = resetTimeout(l)]
  /\ UNCHANGED <<handler, cmp, stage, listening, managed, removable, loader, auctions, reader>>

(* ... has acted ... *)
CmpAnswers(l) ==
  /\ l \in listening
  /\ \E v \in Given : setProvisionalConsent(l, v) /\ Store(v)
  /\ timer' = [timer EXCEPT ![l] = IF Pending(l) THEN "off" ELSE resetTimeout(l)]
  /\ removable' = IF managed THEN l ELSE removable
  /\ Resolve(l)
  /\ UNCHANGED <<enabled, hash, registered, cmp, listening, managed, loader, on, reader>>

(* ... or the CMP fails, or says something that cannot be parsed.           *)
CmpFails(l) ==
  /\ l \in listening
  /\ Reject(l)
  /\ removable' \in {removable, IF managed THEN l ELSE removable}
  /\ UNCHANGED <<enabled, hash, registered, cmp, cmpLoaded, provisional, listening, managed, hook,
                 mode, on, reader>>

\* Faulty: the timeout does not look at the consent there is.
forgetful(l) == IF cmpLoaded[l] THEN provisional[l] ELSE "nothing"
\* Faulty: it falls back to nothing at all.
provisionalAtMost(l) ==
  IF enabled /\ data # "null" THEN data
  ELSE IF cmpLoaded[l] THEN provisional[l] ELSE "null"
consentOnTimeout(l) ==
  IF enabled /\ data # "null" THEN data
  ELSE IF cmpLoaded[l] THEN provisional[l] ELSE "nothing"

TimerFires(l) ==
  /\ timer[l] # "off"
  /\ UNCHANGED <<enabled, hash, registered, cmp, cmpLoaded, provisional, listening, managed,
                 removable, hook, mode, on, reader>>
  /\ IF stage[l] = "polling"
       THEN Reject(l)
       ELSE /\ timer' = [timer EXCEPT ![l] = "off"]
            /\ Store(consentOnTimeout(l))
            /\ Resolve(l)
            /\ UNCHANGED cd

-----------------------------------------------------------------------------
(* The handler's promise: for one that is not enabled it is null at once.   *)
ReadPromise(c) ==
  /\ reader[c] = "idle"
  /\ \/ /\ ready
        /\ reader' = [reader EXCEPT ![c] = "got"]
        /\ UNCHANGED <<ready, data, dirty, told>>
     \/ /\ ~ready /\ ~enabled
        /\ Store("null")
        /\ reader' = [reader EXCEPT ![c] = "got"]
     \/ /\ ~ready /\ enabled
        /\ reader' = [reader EXCEPT ![c] = "waiting"]
        /\ UNCHANGED <<ready, data, dirty, told>>
  /\ UNCHANGED <<enabled, hash, registered, cmp, lookup, loader, auctions>>

PromiseSettles(c) ==
  /\ reader[c] = "waiting" /\ ready
  /\ reader' = [reader EXCEPT ![c] = "got"]
  /\ UNCHANGED <<handler, cmp, lookup, loader, auctions>>

(* The getter of the hash, which user ids read once they have the consent.  *)
ReadHash(c) ==
  /\ reader[c] = "got" /\ dirty
  /\ hash' = data
  /\ dirty' = FALSE
  /\ UNCHANGED <<enabled, ready, data, registered, told, cmp, lookup, loader, auctions,
                 reader>>

-----------------------------------------------------------------------------
Page(l) == Configure(l) \/ \E a \in Auctions : LooksUp(a, l)

LookupStep(l) ==
  PollFinds(l) \/ CmpShows(l) \/ CmpAnswers(l) \/ CmpFails(l) \/ TimerFires(l)

Next ==
  \/ Deconfigure \/ Disable \/ CmpAppears
  \/ \E l \in Lookups : Page(l) \/ LookupStep(l)
  \/ \E a \in Auctions : GoesOn(a) \/ Waits(a)
  \/ \E c \in Readers : ReadPromise(c) \/ PromiseSettles(c) \/ ReadHash(c)

(* Timers fire and promise reactions run; nothing is assumed of the CMP.    *)
Fairness ==
  /\ \A l \in Lookups : WF_vars(TimerFires(l))
  /\ \A c \in Readers : WF_vars(PromiseSettles(c))

Spec == Init /\ [][Next]_vars
FairSpec == Spec /\ Fairness

-----------------------------------------------------------------------------
TypeOK ==
  /\ enabled \in BOOLEAN /\ ready \in BOOLEAN /\ dirty \in BOOLEAN
  /\ data \in ConsentData /\ told \in ConsentData /\ hash \in ConsentData \cup {"unset"}
  /\ registered \in BOOLEAN
  /\ cmp \in BOOLEAN
  /\ stage \in [Lookups -> {"none", "polling", "asked", "resolved", "rejected"}]
  /\ timer \in [Lookups -> {"off", "cmp", "action"}]
  /\ cmpLoaded \in [Lookups -> BOOLEAN]
  /\ provisional \in [Lookups -> Shown \cup Given \cup {"null"}]
  /\ listening \subseteq Lookups /\ managed \in BOOLEAN
  /\ removable \in Lookups \cup {0}
  /\ hook \in BOOLEAN /\ mode \in {"iab", "late", "static"} /\ cd \in Lookups \cup {0}
  /\ phase \in [Auctions -> {"new", "waiting", "continued", "cancelled"}]
  /\ on \in [Auctions -> Lookups \cup {0}]
  /\ reader \in [Readers -> {"idle", "waiting", "got", "stranded"}]

(* An auction that waits for consent has a timer to end its wait, whatever  *)
(* becomes of the CMP and of the configuration that started the lookup.     *)
NobodyWaitsUntimed ==
  \A a \in Auctions : phase[a] = "waiting" => Pending(on[a]) /\ timer[on[a]] # "off"

(* So has whoever waits for the handler's promise, unless they are stranded *)
(* by the module being disabled.                                            *)
PromiseCovered ==
  \A c \in Readers :
    reader[c] = "waiting" /\ ~ready => \E l \in Lookups : Pending(l) /\ timer[l] # "off"

(* The loader never hands the next auction a lookup that failed: it tries   *)
(* again.                                                                   *)
FailuresForgotten == cd # 0 => stage[cd] # "rejected"

(* Listeners of allConsent know the current consent, until the module is    *)
(* disabled, which unregisters them.                                        *)
ListenersKnow == registered => told = data

(* A timeout, with what it falls back to, never replaces what the user gave *)
(* through another lookup or before: only other consent, or the failure of  *)
(* a lookup, does.                                                          *)
GivenConsentKept ==
  [][enabled /\ enabled' /\ data \in Given => data' \in Given \cup {"null"}]_vars

(* An auction that waited goes on with consent data, be it "no answer".     *)
ContinuesInformed ==
  [][\A a \in Auctions : phase[a] = "waiting" /\ phase'[a] = "continued" => data' # "null"]_vars

(* Waiting for consent ends, with the auction continued or cancelled and    *)
(* the readers of the promise told, unless the module is disabled.         *)
WaitsEnd ==
  /\ \A a \in Auctions : phase[a] = "waiting" ~> phase[a] # "waiting"
  /\ \A c \in Readers : reader[c] = "waiting" ~> reader[c] # "waiting"
=============================================================================
