--------------------------- MODULE Consent_proofs ---------------------------
(***************************************************************************)
(* Theorems about Consent, for any number of auctions, readers and lookups. *)
(***************************************************************************)
EXTENDS Consent, TLAPS

Stages == {"none", "polling", "asked", "resolved", "rejected"}
Phases == {"new", "waiting", "continued", "cancelled"}
Provisional == Shown \cup Given \cup {"null"}

(* A lookup has a timer as long as it is pending. *)
Timed == \A l \in Lookups : Pending(l) => timer[l] # "off"

(* Auctions wait for lookups that are pending. *)
WaitsRight == \A a \in Auctions : phase[a] = "waiting" => on[a] \in Lookups /\ Pending(on[a])

(* A handler that is enabled and not ready has a lookup that will make it   *)
(* ready, and only such a handler keeps readers waiting.                    *)
WillBeReady ==
  /\ enabled /\ ~ready => \E l \in Lookups : Pending(l)
  /\ \A c \in Readers : reader[c] = "waiting" /\ ~ready => enabled

(* The CMP that is loaded has shown something. *)
LoadedShows == \A l \in Lookups : cmpLoaded[l] => provisional[l] # "null"

Bounds == Timed /\ WaitsRight /\ WillBeReady

IInv ==
  TypeOK /\ Bounds /\ FailuresForgotten /\ ListenersKnow /\ LoadedShows

-----------------------------------------------------------------------------
(* What resolve and reject of the handler do to it. *)
LEMMA StoreFacts ==
  ASSUME TypeOK, NEW v \in ConsentData, Store(v), UNCHANGED registered
  PROVE  /\ ready' = TRUE /\ data' = v /\ dirty' \in BOOLEAN /\ told' \in ConsentData
         /\ ListenersKnow => ListenersKnow'
<1>1. told' = IF registered /\ v # data THEN v ELSE told
  BY DEF Store, notifyListeners
<1>. QED  BY <1>1 DEF Store, TypeOK, ListenersKnow

(* What the listener, or the lookup's end, does to the stages and auctions. *)
LEMMA SettleFacts ==
  ASSUME TypeOK, Bounds, NEW l \in Lookups, NEW how \in {"resolved", "rejected"},
         NEW auction \in {"continued", "cancelled"}, Settle(l, how, auction), UNCHANGED on
  PROVE  /\ stage' \in [Lookups -> Stages] /\ phase' \in [Auctions -> Phases]
         /\ \A k \in Lookups : Pending(k)' <=> Pending(k) /\ k # l
         /\ \A k \in Lookups : stage'[k] = "rejected" => stage[k] = "rejected" \/ (k = l /\ how = "rejected")
         /\ WaitsRight'
<1>1. \A k \in Lookups : Pending(k)' <=> Pending(k) /\ k # l
  BY DEF Settle, Pending, TypeOK
<1>2. stage' \in [Lookups -> Stages] /\ phase' \in [Auctions -> Phases]
  <2>1. stage' \in [Lookups -> Stages]
    BY DEF Settle, TypeOK, Stages
  <2>2. \A a \in Auctions : phase[a] \in Phases /\ auction \in Phases
    BY DEF TypeOK, Phases
  <2>3. phase' \in [Auctions -> Phases]
    BY <2>2, phase' = [a \in Auctions |-> IF a \in WaitsFor(l) THEN auction ELSE phase[a]] DEF Settle
  <2>. QED  BY <2>1, <2>3
<1>3. WaitsRight'
  <2> SUFFICES ASSUME NEW a \in Auctions, phase'[a] = "waiting"
               PROVE  on'[a] \in Lookups /\ stage'[on'[a]] \in {"polling", "asked"}
    BY DEF WaitsRight, Pending
  <2>1. phase'[a] = IF a \in WaitsFor(l) THEN auction ELSE phase[a]
    BY DEF Settle
  <2>2. a \notin WaitsFor(l) /\ phase[a] = "waiting"
    BY <2>1
  <2>3. on[a] # l /\ on[a] \in Lookups /\ Pending(on[a])
    BY <2>2 DEF WaitsFor, Bounds, WaitsRight
  <2>4. on'[a] = on[a]
    OBVIOUS
  <2>. QED  BY <1>1, <2>3, <2>4 DEF Pending
<1>. QED  BY <1>1, <1>2, <1>3 DEF Settle, TypeOK

LEMMA ConsentOnTimeoutFacts ==
  ASSUME TypeOK, LoadedShows, NEW l \in Lookups
  PROVE  consentOnTimeout(l) \in ConsentData \ {"null"}
<1>1. "nothing" \in ConsentData \ {"null"}
  BY DEF ConsentData
<1>2. cmpLoaded[l] => provisional[l] \in Provisional \ {"null"}
  BY DEF LoadedShows, TypeOK, Provisional
<1>3. data # "null" => data \in ConsentData \ {"null"}
  BY DEF TypeOK
<1>. QED  BY <1>1, <1>2, <1>3 DEF consentOnTimeout, ConsentData, Provisional

LEMMA InitInv == Init => IInv
<1> SUFFICES ASSUME Init PROVE IInv
  OBVIOUS
<1>1. TypeOK
  BY DEF Init, TypeOK, ConsentData, Lookups
<1>2. Bounds
  BY DEF Init, Bounds, Timed, WaitsRight, WillBeReady, Pending
<1>. QED  BY <1>1, <1>2 DEF Init, IInv, FailuresForgotten, ListenersKnow, LoadedShows

-----------------------------------------------------------------------------
(* A lookup that begins, for auctions that have just come. *)
LEMMA LookupInv ==
  ASSUME IInv, NEW l \in Lookups, NEW who \in SUBSET Auctions, Lookup(l, who),
         \A a \in who : phase[a] = "new", hook' \in BOOLEAN, mode' \in {"iab", "late", "static"}
  PROVE  IInv'
<1>0. /\ stage[l] = "none" /\ enabled' = TRUE /\ UNCHANGED <<hash, registered, cmp, reader>>
      /\ on' = [a \in Auctions |-> IF a \in who THEN l ELSE on[a]]
      /\ on' \in [Auctions -> Lookups \cup {0}]
      /\ TypeOK
  BY DEF Lookup, TypeOK, IInv
<1>1. CASE Found(l, who) \/ Polls(l, who)
  <2>0. PICK st \in {"asked", "polling"} : stage' = [stage EXCEPT ![l] = st]
    BY <1>1 DEF Found, Polls
  <2>1. /\ timer' = [timer EXCEPT ![l] = "cmp"] /\ cd' = l
        /\ phase' = [a \in Auctions |-> IF a \in who THEN "waiting" ELSE phase[a]]
        /\ UNCHANGED <<ready, data, dirty, told, removable>>
    BY <1>1 DEF Found, Polls, startTimer
  <2>2. /\ cmpLoaded' \in [Lookups -> BOOLEAN]
        /\ provisional' \in [Lookups -> Provisional]
        /\ listening' \subseteq Lookups /\ managed' \in BOOLEAN
        /\ LoadedShows'
    <3>1. CASE Found(l, who)
      <4>1. PICK v \in Shown \cup {"null"} :
              /\ provisional' = [provisional EXCEPT ![l] = v]
              /\ cmpLoaded' = [cmpLoaded EXCEPT ![l] = v # "null"]
        BY <3>1 DEF Found
      <4>2. provisional' \in [Lookups -> Provisional]
        BY <1>0, <4>1 DEF TypeOK, Provisional
      <4>3. LoadedShows'
        BY <1>0, <4>1 DEF LoadedShows, IInv, TypeOK
      <4>. QED  BY <1>0, <3>1, <4>1, <4>2, <4>3 DEF Found, TypeOK
    <3>2. CASE Polls(l, who)
      BY <1>0, <3>2 DEF Polls, TypeOK, LoadedShows, IInv, Provisional
    <3>. QED  BY <1>1, <3>1, <3>2
  <2>3. stage' \in [Lookups -> Stages] /\ timer' \in [Lookups -> {"off", "cmp", "action"}]
    BY <1>0, <2>0, <2>1 DEF TypeOK, Stages
  <2>4. phase' \in [Auctions -> Phases]
    BY <1>0, <2>1 DEF TypeOK, Phases
  <2>5. TypeOK'
    BY <1>0, <2>1, <2>2, <2>3, <2>4 DEF TypeOK, Stages, Phases, Provisional
  <2>6. Timed' /\ Pending(l)' /\ \A k \in Lookups : Pending(k) => Pending(k)'
    BY <1>0, <2>0, <2>1 DEF IInv, Bounds, Timed, Pending, TypeOK
  <2>7. WaitsRight'
    <3> SUFFICES ASSUME NEW a \in Auctions, phase'[a] = "waiting"
                 PROVE  on'[a] \in Lookups /\ stage'[on'[a]] \in {"polling", "asked"}
      BY DEF WaitsRight, Pending
    <3>1. CASE a \in who
      BY <1>0, <2>6, <3>1 DEF Pending
    <3>2. CASE a \notin who
      <4>1. phase[a] = "waiting" /\ on'[a] = on[a]
        BY <1>0, <2>1, <3>2
      <4>. QED  BY <2>6, <4>1 DEF IInv, Bounds, WaitsRight, Pending
    <3>. QED  BY <3>1, <3>2
  <2>8. WillBeReady'
    BY <1>0, <2>1, <2>6 DEF IInv, Bounds, WillBeReady
  <2>9. FailuresForgotten' /\ ListenersKnow'
    BY <1>0, <2>0, <2>1 DEF IInv, FailuresForgotten, ListenersKnow, TypeOK
  <2>. QED  BY <2>2, <2>5, <2>6, <2>7, <2>8, <2>9 DEF IInv, Bounds
<1>2. CASE Fails(l, who) \/ Static(l, who)
  <2>0. PICK st \in {"resolved", "rejected"} :
          stage' = [stage EXCEPT ![l] = st] /\ (cd' = 0 \/ (cd' = l /\ st = "resolved"))
    BY <1>2 DEF Fails, Static
  <2>1. PICK v \in ConsentData : Store(v)
    BY <1>2 DEF Fails, Static, ConsentData
  <2>2. /\ UNCHANGED <<timer, cmpLoaded, provisional, listening, managed, removable>>
        /\ \E how \in {"continued", "cancelled"} :
             phase' = [a \in Auctions |-> IF a \in who THEN how ELSE phase[a]]
    BY <1>2 DEF Fails, Static
  <2>3. /\ ready' = TRUE /\ data' = v /\ dirty' \in BOOLEAN /\ told' \in ConsentData
        /\ ListenersKnow'
    BY <1>0, <2>1, StoreFacts DEF IInv
  <2>4. stage' \in [Lookups -> Stages] /\ phase' \in [Auctions -> Phases]
    BY <1>0, <2>0, <2>2 DEF TypeOK, Stages, Phases
  <2>5. TypeOK'
    BY <1>0, <2>0, <2>2, <2>3, <2>4 DEF TypeOK, Stages, Phases
  <2>6. \A k \in Lookups : Pending(k)' <=> Pending(k)
    BY <1>0, <2>0 DEF Pending, TypeOK
  <2>7. WaitsRight'
    <3> SUFFICES ASSUME NEW a \in Auctions, phase'[a] = "waiting"
                 PROVE  on'[a] \in Lookups /\ stage'[on'[a]] \in {"polling", "asked"}
      BY DEF WaitsRight, Pending
    <3>1. a \notin who /\ phase[a] = "waiting" /\ on'[a] = on[a]
      BY <1>0, <2>2
    <3>. QED  BY <2>6, <3>1 DEF IInv, Bounds, WaitsRight, Pending
  <2>8. Timed' /\ WillBeReady' /\ LoadedShows'
    BY <2>2, <2>3, <2>6 DEF IInv, Bounds, Timed, WillBeReady, LoadedShows
  <2>9. FailuresForgotten'
    BY <1>0, <2>0 DEF FailuresForgotten, TypeOK
  <2>. QED  BY <2>3, <2>5, <2>7, <2>8, <2>9 DEF IInv, Bounds
<1>. QED  BY <1>1, <1>2 DEF Lookup

-----------------------------------------------------------------------------
(* A lookup that ends, or is over already, with data for the handler. *)
LEMMA EndInv ==
  ASSUME IInv, NEW l \in Lookups, NEW v \in ConsentData, Store(v),
         UNCHANGED <<enabled, hash, registered, cmp, listening, managed, hook, mode, on, reader>>,
         removable' \in Lookups \cup {0},
         cmpLoaded' \in [Lookups -> BOOLEAN], provisional' \in [Lookups -> Provisional],
         timer' \in [Lookups -> {"off", "cmp", "action"}],
         \A k \in Lookups : k # l => timer'[k] = timer[k],
         (Resolve(l) /\ UNCHANGED cd) \/ Reject(l),
         LoadedShows'
  PROVE  IInv'
<1>0. /\ TypeOK /\ Bounds /\ FailuresForgotten
      /\ ready' = TRUE /\ data' = v /\ dirty' \in BOOLEAN /\ told' \in ConsentData
      /\ ListenersKnow'
  BY StoreFacts DEF IInv
<1>1. /\ stage' \in [Lookups -> Stages] /\ phase' \in [Auctions -> Phases]
      /\ \A k \in Lookups : Pending(k)' <=> Pending(k) /\ k # l
      /\ WaitsRight' /\ FailuresForgotten'
      /\ cd' \in Lookups \cup {0}
  <2>1. CASE ~Pending(l)
    <3>1. UNCHANGED <<stage, phase, cd>>
      BY <2>1 DEF Resolve, Reject
    <3>2. \A k \in Lookups : Pending(k)' <=> Pending(k) /\ k # l
      BY <2>1, <3>1 DEF Pending
    <3>3. FailuresForgotten' /\ WaitsRight'
      BY <1>0, <3>1 DEF FailuresForgotten, WaitsRight, Bounds, Pending
    <3>. QED  BY <1>0, <3>1, <3>2, <3>3 DEF TypeOK, Stages, Phases
  <2>2. CASE Pending(l) /\ Resolve(l) /\ UNCHANGED cd
    <3>1. Settle(l, "resolved", "continued")
      BY <2>2 DEF Resolve
    <3>2. FailuresForgotten'
      BY <1>0, <2>2, <3>1, SettleFacts DEF FailuresForgotten, TypeOK
    <3>. QED  BY <1>0, <2>2, <3>1, <3>2, SettleFacts DEF TypeOK
  <2>3. CASE Reject(l)
    <3>1. Settle(l, "rejected", "cancelled") /\ forget(l)
      BY <2>3 DEF Reject
    <3>2. cd' \in {0, cd} /\ cd' # l
      BY <1>0, <3>1 DEF forget, TypeOK, Lookups
    <3>3. FailuresForgotten'
      BY <1>0, <3>1, <3>2, SettleFacts DEF FailuresForgotten, TypeOK
    <3>. QED  BY <1>0, <3>1, <3>2, <3>3, SettleFacts DEF TypeOK
  <2>. QED  BY <2>1, <2>2, <2>3
<1>2. TypeOK'
  BY <1>0, <1>1 DEF TypeOK, Stages, Phases, Provisional
<1>3. Timed' /\ WillBeReady'
  BY <1>0, <1>1 DEF Bounds, Timed, WillBeReady
<1>. QED  BY <1>0, <1>1, <1>2, <1>3 DEF IInv, Bounds

LEMMA CmpAnswersInv == ASSUME IInv, NEW l \in Lookups, CmpAnswers(l) PROVE IInv'
<1>1. PICK v \in Given : setProvisionalConsent(l, v) /\ Store(v)
  BY DEF CmpAnswers
<1>2. TypeOK /\ LoadedShows
  BY DEF IInv
<1>3. /\ cmpLoaded' \in [Lookups -> BOOLEAN] /\ provisional' \in [Lookups -> Provisional]
      /\ LoadedShows'
  BY <1>1, <1>2, ConsentAssumption DEF setProvisionalConsent, TypeOK, Provisional, LoadedShows
<1>4. resetTimeout(l) \in {"off", "cmp", "action"}
  BY <1>2 DEF resetTimeout, TypeOK
<1>5. /\ timer' \in [Lookups -> {"off", "cmp", "action"}]
      /\ \A k \in Lookups : k # l => timer'[k] = timer[k]
  BY <1>2, <1>4 DEF CmpAnswers, TypeOK
<1>6. removable' \in Lookups \cup {0}
  BY <1>2 DEF CmpAnswers, TypeOK
<1>7. v \in ConsentData
  BY DEF ConsentData
<1>8. /\ UNCHANGED <<enabled, hash, registered, cmp, listening, managed, hook, mode, on, reader>>
      /\ Resolve(l) /\ UNCHANGED cd
  BY DEF CmpAnswers, loader
<1>. QED  BY <1>1, <1>3, <1>5, <1>6, <1>7, <1>8, EndInv

LEMMA CmpFailsInv == ASSUME IInv, NEW l \in Lookups, CmpFails(l) PROVE IInv'
<1>1. /\ TypeOK /\ LoadedShows /\ Store("null") /\ Reject(l) /\ "null" \in ConsentData
      /\ timer' = [timer EXCEPT ![l] = "off"]
  BY DEF IInv, CmpFails, Reject, ConsentData
<1>2. /\ UNCHANGED <<cmpLoaded, provisional>>
      /\ UNCHANGED <<enabled, hash, registered, cmp, listening, managed, hook, mode, on, reader>>
      /\ removable' \in Lookups \cup {0}
  BY <1>1 DEF CmpFails, TypeOK
<1>3. /\ cmpLoaded' \in [Lookups -> BOOLEAN] /\ provisional' \in [Lookups -> Provisional]
      /\ LoadedShows'
      /\ timer' \in [Lookups -> {"off", "cmp", "action"}]
      /\ \A k \in Lookups : k # l => timer'[k] = timer[k]
  BY <1>1, <1>2 DEF TypeOK, Provisional, LoadedShows
<1>. QED  BY <1>1, <1>2, <1>3, EndInv

LEMMA TimerFiresInv == ASSUME IInv, NEW l \in Lookups, TimerFires(l) PROVE IInv'
<1>1. /\ TypeOK /\ LoadedShows
      /\ UNCHANGED <<cmpLoaded, provisional, removable>>
      /\ UNCHANGED <<enabled, hash, registered, cmp, listening, managed, hook, mode, on, reader>>
      /\ timer' = [timer EXCEPT ![l] = "off"]
  BY DEF IInv, TimerFires, Reject
<1>2. /\ cmpLoaded' \in [Lookups -> BOOLEAN] /\ provisional' \in [Lookups -> Provisional]
      /\ LoadedShows' /\ removable' \in Lookups \cup {0}
      /\ timer' \in [Lookups -> {"off", "cmp", "action"}]
      /\ \A k \in Lookups : k # l => timer'[k] = timer[k]
  BY <1>1 DEF TypeOK, Provisional, LoadedShows
<1>3. PICK v \in ConsentData : Store(v)
  BY <1>1, ConsentOnTimeoutFacts DEF TimerFires, Reject, ConsentData
<1>4. (Resolve(l) /\ UNCHANGED cd) \/ Reject(l)
  BY DEF TimerFires
<1>. QED  BY <1>1, <1>2, <1>3, <1>4, EndInv

LEMMA ShowsInv == ASSUME IInv, NEW l \in Lookups, PollFinds(l) \/ CmpShows(l) PROVE IInv'
<1>0. /\ TypeOK /\ UNCHANGED <<handler, cmp, removable, loader, auctions, reader>>
      /\ UNCHANGED <<enabled, ready, data, dirty, hash, registered, told, hook, mode, cd, phase, on>>
  BY DEF PollFinds, CmpShows, IInv, handler, loader, auctions
<1>1. CASE PollFinds(l)
  <2>1. /\ stage' \in [Lookups -> Stages]
        /\ \A k \in Lookups : Pending(k)' <=> Pending(k)
        /\ \A k \in Lookups : stage'[k] = "rejected" => stage[k] = "rejected"
    BY <1>0, <1>1 DEF PollFinds, Pending, TypeOK, Stages
  <2>2. TypeOK'
    BY <1>0, <1>1, <2>1 DEF PollFinds, TypeOK, Stages
  <2>3. WaitsRight'
    BY <1>0, <2>1 DEF IInv, Bounds, WaitsRight, Pending
  <2>4. Timed' /\ WillBeReady' /\ LoadedShows'
    BY <1>0, <1>1, <2>1 DEF PollFinds, IInv, Bounds, Timed, WillBeReady, LoadedShows
  <2>5. FailuresForgotten' /\ ListenersKnow'
    BY <1>0, <2>1 DEF IInv, FailuresForgotten, ListenersKnow, TypeOK
  <2>. QED  BY <2>2, <2>3, <2>4, <2>5 DEF IInv, Bounds
<1>2. CASE CmpShows(l)
  <2>1. PICK v \in Shown : setProvisionalConsent(l, v)
    BY <1>2 DEF CmpShows
  <2>2. /\ resetTimeout(l) \in {"off", "cmp", "action"}
        /\ timer[l] # "off" => resetTimeout(l) # "off"
    BY <1>0 DEF resetTimeout, TypeOK
  <2>3. /\ timer' \in [Lookups -> {"off", "cmp", "action"}]
        /\ \A k \in Lookups : timer[k] # "off" => timer'[k] # "off"
    BY <1>0, <1>2, <2>2 DEF CmpShows, TypeOK
  <2>4. /\ cmpLoaded' \in [Lookups -> BOOLEAN] /\ provisional' \in [Lookups -> Provisional]
        /\ LoadedShows'
    BY <1>0, <2>1, ConsentAssumption DEF setProvisionalConsent, TypeOK, Provisional, LoadedShows,
      IInv
  <2>5. TypeOK' /\ UNCHANGED stage
    BY <1>0, <1>2, <2>3, <2>4 DEF CmpShows, TypeOK, Provisional
  <2>6. Bounds'
    BY <1>0, <2>3, <2>5 DEF IInv, Bounds, Timed, WaitsRight, WillBeReady, Pending
  <2>7. FailuresForgotten' /\ ListenersKnow'
    BY <1>0, <2>5 DEF IInv, FailuresForgotten, ListenersKnow
  <2>. QED  BY <2>4, <2>5, <2>6, <2>7 DEF IInv
<1>. QED  BY <1>1, <1>2

(* Steps that leave the lookups alone. *)
LEMMA AuctionStepInv == ASSUME IInv, NEW a \in Auctions, GoesOn(a) \/ Waits(a) PROVE IInv'
<1>0. /\ TypeOK /\ UNCHANGED <<handler, cmp, lookup, loader, reader>>
      /\ UNCHANGED <<enabled, ready, data, dirty, hash, registered, told, hook, mode, cd,
                     stage, timer, cmpLoaded, provisional, listening, managed, removable>>
  BY DEF GoesOn, Waits, IInv, handler, lookup, loader
<1>1. phase' \in [Auctions -> Phases] /\ on' \in [Auctions -> Lookups \cup {0}]
  BY <1>0 DEF GoesOn, Waits, TypeOK, Phases
<1>2. TypeOK'
  BY <1>0, <1>1 DEF TypeOK, Phases
<1>3. WaitsRight'
  <2> SUFFICES ASSUME NEW b \in Auctions, phase'[b] = "waiting"
               PROVE  on'[b] \in Lookups /\ stage[on'[b]] \in {"polling", "asked"}
    BY <1>0 DEF WaitsRight, Pending
  <2>1. CASE b = a /\ Waits(a)
    BY <1>0, <2>1 DEF Waits, Pending, TypeOK
  <2>2. CASE b # a \/ GoesOn(a)
    <3>1. phase[b] = "waiting" /\ on'[b] = on[b]
      BY <1>0, <2>2 DEF GoesOn, Waits, TypeOK
    <3>. QED  BY <3>1 DEF IInv, Bounds, WaitsRight, Pending
  <2>. QED  BY <2>1, <2>2
<1>4. Timed' /\ WillBeReady' /\ LoadedShows' /\ FailuresForgotten' /\ ListenersKnow'
  BY <1>0 DEF IInv, Bounds, Timed, WillBeReady, LoadedShows, FailuresForgotten, ListenersKnow,
    Pending
<1>. QED  BY <1>2, <1>3, <1>4 DEF IInv, Bounds

LEMMA ReaderStepInv ==
  ASSUME IInv, NEW c \in Readers, ReadPromise(c) \/ PromiseSettles(c) \/ ReadHash(c)
  PROVE  IInv'
<1>0. /\ TypeOK
      /\ UNCHANGED <<enabled, registered, cmp, stage, timer, cmpLoaded, provisional, listening,
                     managed, removable, hook, mode, cd, phase, on>>
  BY DEF ReadPromise, PromiseSettles, ReadHash, IInv, handler, lookup, loader, auctions
<1>1. /\ ready' \in BOOLEAN /\ data' \in ConsentData /\ dirty' \in BOOLEAN
      /\ told' \in ConsentData /\ hash' \in ConsentData \cup {"unset"}
      /\ ListenersKnow'
  <2>1. CASE UNCHANGED <<ready, data, told>> /\ dirty' \in BOOLEAN /\ hash' \in {hash, data}
    BY <1>0, <2>1 DEF IInv, ListenersKnow, TypeOK
  <2>2. CASE Store("null") /\ hash' = hash
    BY <1>0, <2>2, StoreFacts DEF IInv, TypeOK, ConsentData
  <2>. QED  BY <1>0, <2>1, <2>2 DEF ReadPromise, PromiseSettles, ReadHash, handler, TypeOK
<1>2. reader' \in [Readers -> {"idle", "waiting", "got", "stranded"}]
  BY <1>0 DEF ReadPromise, PromiseSettles, ReadHash, TypeOK
<1>3. TypeOK'
  BY <1>0, <1>1, <1>2 DEF TypeOK
<1>4. WillBeReady'
  <2>1. ready => ready'
    BY DEF ReadPromise, PromiseSettles, ReadHash, Store, handler
  <2>2. \A d \in Readers : reader'[d] = "waiting" => reader[d] = "waiting" \/ ready \/ enabled
    BY <1>0 DEF ReadPromise, PromiseSettles, ReadHash, TypeOK
  <2>. QED  BY <1>0, <2>1, <2>2 DEF IInv, Bounds, WillBeReady, Pending
<1>5. Timed' /\ WaitsRight' /\ LoadedShows' /\ FailuresForgotten'
  BY <1>0 DEF IInv, Bounds, Timed, WaitsRight, LoadedShows, FailuresForgotten, Pending
<1>. QED  BY <1>1, <1>3, <1>4, <1>5 DEF IInv, Bounds

LEMMA PageStepInv == ASSUME IInv, Deconfigure \/ Disable \/ CmpAppears PROVE IInv'
<1>0. /\ TypeOK
      /\ UNCHANGED <<stage, timer, cmpLoaded, provisional, mode, cd, phase, on>>
  BY DEF Deconfigure, Disable, CmpAppears, IInv, lookup, loader, auctions
<1>1. /\ hook' \in BOOLEAN /\ enabled' \in BOOLEAN /\ ready' \in BOOLEAN /\ dirty' \in BOOLEAN
      /\ data' \in ConsentData /\ told' \in ConsentData /\ hash' \in ConsentData \cup {"unset"}
      /\ registered' \in BOOLEAN /\ cmp' \in BOOLEAN
      /\ listening' \subseteq Lookups /\ managed' \in BOOLEAN /\ removable' \in Lookups \cup {0}
      /\ ListenersKnow'
  <2>1. CASE Disable
    <3>1. "null" \in ConsentData
      BY DEF ConsentData
    <3>. QED  BY <1>0, <2>1, <3>1 DEF Disable, TypeOK, ListenersKnow
  <2>2. CASE Deconfigure
    BY <1>0, <2>2 DEF Deconfigure, TypeOK, handler, lookup, IInv, ListenersKnow
  <2>3. CASE CmpAppears
    BY <1>0, <2>3 DEF CmpAppears, TypeOK, handler, lookup, loader, IInv, ListenersKnow
  <2>. QED  BY <2>1, <2>2, <2>3
<1>2. /\ reader' \in [Readers -> {"idle", "waiting", "got", "stranded"}]
      /\ \/ UNCHANGED <<reader, enabled, ready>>
         \/ ~enabled' /\ \A c \in Readers : reader'[c] # "waiting"
  <2>1. CASE Disable
    <3>1. reader' = [c \in Readers |-> IF reader[c] # "waiting" THEN reader[c]
                                      ELSE IF ready THEN "got" ELSE "stranded"]
      BY <2>1 DEF Disable
    <3>. QED  BY <1>0, <2>1, <3>1 DEF Disable, TypeOK
  <2>2. CASE Deconfigure \/ CmpAppears
    BY <1>0, <2>2 DEF Deconfigure, CmpAppears, handler, TypeOK
  <2>. QED  BY <2>1, <2>2
<1>3. TypeOK'
  BY <1>0, <1>1, <1>2 DEF TypeOK
<1>4. Bounds' /\ LoadedShows' /\ FailuresForgotten'
  BY <1>0, <1>2 DEF IInv, Bounds, Timed, WaitsRight, WillBeReady, LoadedShows, FailuresForgotten,
    Pending
<1>. QED  BY <1>1, <1>3, <1>4 DEF IInv

LEMMA PageInv == ASSUME IInv, NEW l \in Lookups, Page(l) PROVE IInv'
<1>1. CASE Configure(l)
  <2>1. mode' \in {"iab", "late", "static"}
    BY <1>1, ConsentAssumption DEF Configure
  <2>. QED  BY <1>1, <2>1, LookupInv DEF Configure
<1>2. CASE \E a \in Auctions : LooksUp(a, l)
  <2>1. PICK a \in Auctions : LooksUp(a, l)
    BY <1>2
  <2>2. phase[a] = "new" /\ Lookup(l, {a}) /\ UNCHANGED <<hook, mode>>
    BY <2>1 DEF LooksUp
  <2>3. hook' \in BOOLEAN /\ mode' \in {"iab", "late", "static"}
    BY <2>2 DEF IInv, TypeOK
  <2>. QED  BY <2>2, <2>3, LookupInv
<1>. QED  BY <1>1, <1>2 DEF Page

LEMMA NextInv == IInv /\ [Next]_vars => IInv'
<1> SUFFICES ASSUME IInv, [Next]_vars PROVE IInv'
  OBVIOUS
<1>1. CASE Deconfigure \/ Disable \/ CmpAppears
  BY <1>1, PageStepInv
<1>2. ASSUME NEW l \in Lookups, Page(l) \/ LookupStep(l) PROVE IInv'
  BY <1>2, PageInv, ShowsInv, CmpAnswersInv, CmpFailsInv, TimerFiresInv DEF LookupStep
<1>3. ASSUME NEW a \in Auctions, GoesOn(a) \/ Waits(a) PROVE IInv'
  BY <1>3, AuctionStepInv
<1>4. ASSUME NEW c \in Readers, ReadPromise(c) \/ PromiseSettles(c) \/ ReadHash(c) PROVE IInv'
  BY <1>4, ReaderStepInv
<1>5. CASE UNCHANGED vars
  BY <1>5 DEF vars, handler, lookup, loader, auctions, IInv, TypeOK, Bounds, Timed, WaitsRight,
    WillBeReady, FailuresForgotten, ListenersKnow, LoadedShows, Pending
<1>. QED  BY <1>1, <1>2, <1>3, <1>4, <1>5 DEF Next

LEMMA Invariance == Spec => []IInv
  BY InitInv, NextInv, PTL DEF Spec

-----------------------------------------------------------------------------
(* The module is well typed, whatever the CMP and the page do. *)
THEOREM TypeCorrect == Spec => []TypeOK
<1>1. IInv => TypeOK
  BY DEF IInv
<1>. QED  BY <1>1, Invariance, PTL

(* requestBidsHook: every auction that waits for consent has a timer that   *)
(* will end its wait.                                                       *)
THEOREM NeverUntimed == Spec => []NobodyWaitsUntimed
<1>1. IInv => NobodyWaitsUntimed
  BY DEF IInv, Bounds, Timed, WaitsRight, NobodyWaitsUntimed
<1>. QED  BY <1>1, Invariance, PTL

(* The promise of the handler: whoever waits for it and is not stranded has *)
(* a lookup with a timer that will settle it.                               *)
THEOREM PromisesCovered == Spec => []PromiseCovered
<1>1. IInv => PromiseCovered
  BY DEF IInv, Bounds, Timed, WillBeReady, PromiseCovered
<1>. QED  BY <1>1, Invariance, PTL

(* cdLoader: an auction is never handed a lookup that failed. *)
THEOREM FailuresAreForgotten == Spec => []FailuresForgotten
<1>1. IInv => FailuresForgotten
  BY DEF IInv
<1>. QED  BY <1>1, Invariance, PTL

(* notifyListeners: registered listeners know the consent data there is. *)
THEOREM ListenersAlwaysKnow == Spec => []ListenersKnow
<1>1. IInv => ListenersKnow
  BY DEF IInv
<1>. QED  BY <1>1, Invariance, PTL

-----------------------------------------------------------------------------
KeepsGiven == enabled /\ enabled' /\ data \in Given => data' \in Given \cup {"null"}

(* The callback of resetTimeout, like every other step, keeps the consent   *)
(* that was given, unless a lookup fails.                                   *)
LEMMA StepKeepsGiven == IInv /\ [Next]_vars => KeepsGiven
<1> SUFFICES ASSUME IInv, [Next]_vars, data \in Given, enabled PROVE data' \in {data, "null"} \cup Given
  BY DEF KeepsGiven
<1>0. data # "null"
  BY ConsentAssumption
<1>1. ASSUME NEW l \in Lookups, NEW who, Lookup(l, who) PROVE data' \in {data, "null"} \cup Given
  BY <1>1 DEF Lookup, Found, Polls, Fails, Static, Store
<1>2. ASSUME NEW l \in Lookups, Page(l) PROVE data' \in {data, "null"} \cup Given
  BY <1>1, <1>2 DEF Page, Configure, LooksUp
<1>3. ASSUME NEW l \in Lookups, LookupStep(l) PROVE data' \in {data, "null"} \cup Given
  <2>1. CASE PollFinds(l) \/ CmpShows(l)
    BY <2>1 DEF PollFinds, CmpShows, handler
  <2>2. CASE CmpAnswers(l)
    BY <2>2 DEF CmpAnswers, Store
  <2>3. CASE CmpFails(l)
    BY <2>3 DEF CmpFails, Reject, Store
  <2>4. CASE TimerFires(l)
    BY <1>0, <2>4 DEF TimerFires, Reject, Store, consentOnTimeout
  <2>. QED  BY <1>3, <2>1, <2>2, <2>3, <2>4 DEF LookupStep
<1>4. ASSUME NEW c \in Readers, ReadPromise(c) \/ PromiseSettles(c) \/ ReadHash(c)
      PROVE  data' \in {data, "null"} \cup Given
  BY <1>4 DEF ReadPromise, PromiseSettles, ReadHash, Store, handler
<1>5. CASE Deconfigure \/ Disable \/ CmpAppears
  BY <1>5 DEF Deconfigure, Disable, CmpAppears, handler
<1>6. ASSUME NEW a \in Auctions, GoesOn(a) \/ Waits(a) PROVE data' = data
  BY <1>6 DEF GoesOn, Waits, handler
<1>7. CASE UNCHANGED vars
  BY <1>7 DEF vars, handler
<1>. QED  BY <1>2, <1>3, <1>4, <1>5, <1>6, <1>7 DEF Next

(* A timeout never replaces consent that the user gave. *)
THEOREM GivenConsentIsKept == Spec => GivenConsentKept
<1>1. IInv /\ [Next]_vars => KeepsGiven
  BY StepKeepsGiven
<1>. QED  BY <1>1, Invariance, PTL DEF Spec, GivenConsentKept, KeepsGiven

-----------------------------------------------------------------------------
Informed == \A a \in Auctions : phase[a] = "waiting" /\ phase'[a] = "continued" => data' # "null"

LEMMA StepInforms == IInv /\ [Next]_vars => Informed
<1> SUFFICES ASSUME IInv, [Next]_vars, NEW a \in Auctions,
                    phase[a] = "waiting", phase'[a] = "continued"
             PROVE  data' # "null"
  BY DEF Informed
<1>0. TypeOK /\ LoadedShows
  BY DEF IInv
<1>1. ASSUME NEW l \in Lookups, NEW who \in SUBSET Auctions, Lookup(l, who), a \notin who PROVE FALSE
  BY <1>1 DEF Lookup, Found, Polls, Fails, Static
<1>2. ASSUME NEW l \in Lookups, Page(l) PROVE FALSE
  <2>1. CASE Configure(l)
    BY <1>1, <2>1 DEF Configure
  <2>2. ASSUME NEW b \in Auctions, LooksUp(b, l) PROVE FALSE
    <3>1. Lookup(l, {b}) /\ a \notin {b}
      BY <2>2 DEF LooksUp
    <3>. QED  BY <1>1, <3>1
  <2>. QED  BY <1>2, <2>1, <2>2 DEF Page
<1>3. ASSUME NEW l \in Lookups, LookupStep(l) PROVE data' # "null"
  <2>1. CASE PollFinds(l) \/ CmpShows(l)
    BY <2>1 DEF PollFinds, CmpShows, auctions
  <2>2. CASE CmpAnswers(l)
    BY <2>2, ConsentAssumption DEF CmpAnswers, Store
  <2>3. CASE Reject(l)
    BY <2>3 DEF Reject, Settle
  <2>4. CASE Store(consentOnTimeout(l))
    BY <1>0, <2>4, ConsentOnTimeoutFacts DEF Store
  <2>. QED  BY <1>3, <2>1, <2>2, <2>3, <2>4 DEF LookupStep, CmpFails, TimerFires
<1>4. ASSUME NEW c \in Readers, ReadPromise(c) \/ PromiseSettles(c) \/ ReadHash(c) PROVE FALSE
  BY <1>4 DEF ReadPromise, PromiseSettles, ReadHash, auctions
<1>5. CASE Deconfigure \/ Disable \/ CmpAppears
  BY <1>5 DEF Deconfigure, Disable, CmpAppears, auctions
<1>6. ASSUME NEW b \in Auctions, GoesOn(b) \/ Waits(b) PROVE FALSE
  BY <1>0, <1>6 DEF GoesOn, Waits, TypeOK
<1>7. CASE UNCHANGED vars
  BY <1>7 DEF vars, auctions
<1>. QED  BY <1>2, <1>3, <1>4, <1>5, <1>6, <1>7 DEF Next

(* An auction that waited goes on with consent data, be it "no answer". *)
THEOREM AlwaysInformed == Spec => ContinuesInformed
<1>1. IInv /\ [Next]_vars => Informed
  BY StepInforms
<1>. QED  BY <1>1, Invariance, PTL DEF Spec, ContinuesInformed, Informed

=============================================================================
