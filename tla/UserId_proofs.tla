--------------------------- MODULE UserId_proofs ---------------------------
(***************************************************************************)
(* Theorems about UserId.                                                  *)
(***************************************************************************)
EXTENDS UserId, TLAPS

Stages == {"new", "consent", "held", "callbacks", "done", "failed"}
States == {"idle", "waiting", "retry", "answered", "rejected", "timedout"}

\* What is outstanding has a batch in flight, and the last chain waits for
\* every batch in flight.
ChainInv ==
  /\ \A c \in Chains : left[c] # {} => stage[c] = "callbacks"
  /\ \A c \in Chains : c > issued => stage[c] = "new"
  /\ \A c \in inFlight : stage[c] \in {"held", "callbacks"}
  /\ \A c \in Current : left[c] # {} \/ Held(c) => c \in inFlight
  /\ inFlight \subseteq prior \cup {issued}

\* Nothing is refreshed before it is initialised, and nothing is initialised
\* before there is consent.
SystemInv ==
  /\ ~initialized => issued = 0 /\ stage[0] \in {"new", "consent", "failed"}
  /\ initialized => consent # "pending" /\ stage[0] \in {"held", "callbacks", "done"}
  /\ stage[0] = "new" => configured = {}

IInv == TypeOK /\ AskedUnderConsent /\ ChainInv /\ SystemInv

ChainTypeOK ==
  /\ issued \in Chains /\ lastFull \in 0 .. issued /\ prior \subseteq 0 .. issued
  /\ stage \in [Chains -> Stages]
  /\ left \in [Chains -> SUBSET Modules]
  /\ inFlight \subseteq lastFull .. issued

SubmoduleTypeOK ==
  /\ configured \subseteq Modules /\ inited \subseteq configured /\ callback \subseteq configured
  /\ seen \in [Modules -> Given \cup {"none", "passed"}]

-----------------------------------------------------------------------------
(* The parts of the type.                                                  *)
LEMMA TypeParts ==
  TypeOK <=> /\ consent \in Given \cup {"pending", "failed"}
             /\ {notify, auctionDelay, initialized} \subseteq BOOLEAN
             /\ startCallbacks \in {"off", "listening", "timed", "resolved"}
             /\ waiter \in [Waiters -> States]
             /\ SubmoduleTypeOK /\ ChainTypeOK
BY DEF TypeOK, SubmoduleTypeOK, ChainTypeOK, Stages, States

LEMMA OutcomeStates ==
  /\ Outcome \in {"answered", "rejected", "waiting"}
  /\ Outcome = "answered" => Fulfilled
BY DEF Outcome

(* Chains are numbers.                                                     *)
LEMMA ChainNumbers ==
  /\ 0 \in Chains
  /\ \A c \in Chains : c \in Nat /\ c <= MaxRefreshes
  /\ \A c \in Nat : c <= MaxRefreshes => c \in Chains
  /\ \A i \in Nat, j \in Chains : i .. j \subseteq Chains
BY UserIdAssumption DEF UserIdAssumption, Chains

(* Who waits for done, when it settles ...                                 *)
LEMMA SettleWaiters ==
  ASSUME waiter \in [Waiters -> States], SettleDone
  PROVE  /\ waiter' \in [Waiters -> States]
         /\ \A w \in Waiters : waiter[w] # "answered" /\ waiter'[w] = "answered" => Fulfilled'
<1>1. Outcome' \in {"answered", "rejected", "waiting"} /\ (Outcome' = "answered" => Fulfilled')
  BY OutcomeStates DEF Outcome
<1>. QED  BY <1>1 DEF SettleDone, States

(* ... and when it is cancelled.                                           *)
LEMMA CancelWaiters ==
  ASSUME waiter \in [Waiters -> States], NEW asking, CancelDone(asking)
  PROVE  /\ waiter' \in [Waiters -> States]
         /\ \A w \in Waiters : waiter[w] # "answered" /\ waiter'[w] = "answered" => Fulfilled'
<1>1. Outcome' \in {"answered", "rejected", "waiting"} /\ (Outcome' = "answered" => Fulfilled')
  BY DEF Outcome
<1>. QED  BY <1>1 DEF CancelDone, States

(* When done is fulfilled nothing is outstanding.                          *)
LEMMA FulfilledComplete ==
  ASSUME TypeOK, ChainInv, Fulfilled
  PROVE  \A chain \in Current : left[chain] = {} /\ ~Held(chain)
<1>. ChainTypeOK
  BY TypeParts
<1>1. issued \notin inFlight
  BY DEF ChainInv, Fulfilled
<1>2. inFlight = {}
  BY <1>1 DEF ChainInv, Fulfilled
<1>. QED  BY <1>2 DEF ChainInv

-----------------------------------------------------------------------------
(* initSubmodules for submodules that are configured.                      *)
LEMMA InitSubmodulesType ==
  ASSUME SubmoduleTypeOK, NEW c \in Given, NEW ms \in SUBSET Modules,
         configured \subseteq configured', ms \subseteq configured', configured' \subseteq Modules,
         NEW ok \in SUBSET ms, NEW cbs \in SUBSET ok, initSubmodules(ms, c, ok, cbs)
  PROVE  /\ inited' \subseteq configured' /\ inited' \subseteq inited \cup ok
         /\ seen' \in [Modules -> Given \cup {"none", "passed"}]
         /\ \A m \in Modules : seen'[m] \in (IF m \in ms THEN {c, "passed"} ELSE {seen[m]})
         /\ callback \cup cbs \subseteq configured'
BY DEF initSubmodules, SubmoduleTypeOK

(* A refresh.                                                              *)
LEMMA RefreshKeeps ==
  ASSUME IInv, initialized, NEW ms \in SUBSET Modules, NEW full \in BOOLEAN, NEW asking,
         configured \subseteq configured', ms \subseteq configured', configured' \subseteq Modules,
         UNCHANGED <<consent, initialized>>, Refresh(ms, full, asking)
  PROVE  /\ SubmoduleTypeOK' /\ ChainTypeOK' /\ ChainInv' /\ SystemInv'
         /\ consent \in Given => \A m \in Modules : seen'[m] \in (IF m \in ms THEN {consent, "passed"} ELSE {seen[m]})
         /\ waiter' \in [Waiters -> States]
         /\ \A w \in Waiters : waiter[w] # "answered" /\ waiter'[w] = "answered" => Fulfilled'
<1>. SubmoduleTypeOK /\ ChainTypeOK /\ waiter \in [Waiters -> States]
     /\ consent \in Given \cup {"failed"}
  BY TypeParts DEF IInv, SystemInv
<1>. DEFINE chain == issued + 1
            batches == supersedeAll(full)
<1>1. /\ issued < MaxRefreshes /\ issued' = chain
      /\ lastFull' = (IF full THEN chain ELSE lastFull)
      /\ prior' = waitsFor(full)
      /\ CancelDone(asking)
  BY DEF Refresh
<1>2. /\ chain \in Chains /\ chain \in Nat /\ issued \in Nat /\ chain # 0 /\ 0 \in Chains
      /\ lastFull \in Nat /\ lastFull <= issued /\ chain = issued + 1
  BY <1>1, ChainNumbers, UserIdAssumption DEF ChainTypeOK, UserIdAssumption
<1>3. /\ batches \subseteq inFlight
      /\ full => batches = {} /\ prior' = {}
      /\ ~full => batches = inFlight /\ prior' = inFlight
  BY <1>1 DEF supersedeAll, waitsFor
<1>4. stage[chain] = "new" /\ left[chain] = {} /\ chain \notin inFlight
  BY <1>2 DEF IInv, ChainInv
<1>5. \/ /\ consent = "failed"
         /\ stage' = [stage EXCEPT ![chain] = "failed"]
         /\ inFlight' = batches
         /\ UNCHANGED <<inited, callback, seen, left>>
      \/ \E ok \in SUBSET ms : \E cbs \in SUBSET ok :
              /\ consent # "failed"
              /\ initSubmodules(ms, consent, ok, cbs)
              /\ RunCallbacks(chain, ok, callback \cup cbs, batches \cup {chain})
  BY DEF Refresh
<1>. HIDE DEF chain, batches
<1>. DEFINE Shape == /\ SubmoduleTypeOK'
                     /\ consent \in Given => \A m \in Modules : seen'[m] \in (IF m \in ms THEN {consent, "passed"} ELSE {seen[m]})
                     /\ inited' \cap callback' \subseteq inited \cap callback
                     /\ \E run \in SUBSET Modules, st \in Stages :
                          /\ left' = [left EXCEPT ![chain] = run]
                          /\ stage' = [stage EXCEPT ![chain] = st]
                          /\ run # {} => st = "callbacks" /\ inFlight' = batches \cup {chain}
                          /\ run = {} => inFlight' = batches
<1>6. Shape
  <2>1. CASE /\ consent = "failed"
             /\ stage' = [stage EXCEPT ![chain] = "failed"]
             /\ inFlight' = batches
             /\ UNCHANGED <<inited, callback, seen, left>>
    <3>1. SubmoduleTypeOK'
      BY <2>1 DEF SubmoduleTypeOK
    <3>2. consent \notin Given
      BY <2>1, UserIdAssumption DEF UserIdAssumption
    <3>3. left' = [left EXCEPT ![chain] = {}] /\ "failed" \in Stages
      BY <1>2, <1>4, <2>1 DEF ChainTypeOK, Stages
    <3>. QED  BY <2>1, <3>1, <3>2, <3>3
  <2>2. ASSUME NEW ok \in SUBSET ms, NEW cbs \in SUBSET ok, consent # "failed",
               initSubmodules(ms, consent, ok, cbs),
               RunCallbacks(chain, ok, callback \cup cbs, batches \cup {chain})
        PROVE  Shape
    <3>. DEFINE run == ok \cap (callback \cup cbs)
    <3>1. /\ callback' = (callback \cup cbs) \ run
          /\ left' = [left EXCEPT ![chain] = run]
          /\ stage' = [stage EXCEPT ![chain] = IF run = {} THEN "done" ELSE "callbacks"]
          /\ inFlight' = (IF run = {} THEN (batches \cup {chain}) \ {chain} ELSE batches \cup {chain})
      BY <2>2 DEF RunCallbacks, settled
    <3>2. chain \notin batches
      BY <1>3, <1>4
    <3>3. /\ inited' \subseteq configured' /\ inited' \subseteq inited \cup ok
          /\ seen' \in [Modules -> Given \cup {"none", "passed"}]
          /\ \A m \in Modules : seen'[m] \in (IF m \in ms THEN {consent, "passed"} ELSE {seen[m]})
          /\ callback \cup cbs \subseteq configured'
      BY <2>2, InitSubmodulesType
    <3>4. SubmoduleTypeOK'
      BY <3>1, <3>3 DEF SubmoduleTypeOK
    <3>5. inited' \cap callback' \subseteq inited \cap callback
      BY <3>1, <3>3
    <3>6. run \in SUBSET Modules /\ (IF run = {} THEN "done" ELSE "callbacks") \in Stages
      BY DEF Stages
    <3>7. \E st \in Stages :
            /\ stage' = [stage EXCEPT ![chain] = st]
            /\ run # {} => st = "callbacks" /\ inFlight' = batches \cup {chain}
            /\ run = {} => inFlight' = batches
      <4>1. CASE run = {}
        <5>1. stage' = [stage EXCEPT ![chain] = "done"] /\ inFlight' = batches
          BY <3>1, <3>2, <4>1
        <5>. QED  BY <4>1, <5>1 DEF Stages
      <4>2. CASE run # {}
        <5>1. stage' = [stage EXCEPT ![chain] = "callbacks"] /\ inFlight' = batches \cup {chain}
          BY <3>1, <4>2
        <5>. QED  BY <4>2, <5>1 DEF Stages
      <4>. QED  BY <4>1, <4>2
    <3>. HIDE DEF run
    <3>. QED  BY <3>1, <3>3, <3>4, <3>5, <3>6, <3>7
  <2>. QED  BY <1>5, <2>1, <2>2
<1>7. PICK run \in SUBSET Modules, st \in Stages :
           /\ left' = [left EXCEPT ![chain] = run]
           /\ stage' = [stage EXCEPT ![chain] = st]
           /\ run # {} => st = "callbacks" /\ inFlight' = batches \cup {chain}
           /\ run = {} => inFlight' = batches
  BY <1>6
<1>8. ChainTypeOK'
  <2>. SUFFICES /\ lastFull' \in 0 .. issued' /\ prior' \subseteq 0 .. issued'
                /\ inFlight' \subseteq lastFull' .. issued'
    BY <1>1, <1>2, <1>7 DEF ChainTypeOK
  <2>0. /\ inFlight \subseteq 0 .. chain /\ inFlight \subseteq lastFull .. chain
        /\ chain \in lastFull .. chain /\ chain \in chain .. chain
        /\ lastFull \in 0 .. chain /\ chain \in 0 .. chain
    BY <1>2 DEF ChainTypeOK
  <2>1. CASE full
    <3>1. lastFull' = chain /\ issued' = chain /\ batches = {} /\ prior' = {}
      BY <1>1, <1>3, <2>1
    <3>2. inFlight' \subseteq {chain}
      BY <1>7, <3>1
    <3>. QED  BY <2>0, <3>1, <3>2
  <2>2. CASE ~full
    <3>1. lastFull' = lastFull /\ issued' = chain /\ batches = inFlight /\ prior' = inFlight
      BY <1>1, <1>3, <2>2
    <3>2. inFlight' \subseteq inFlight \cup {chain}
      BY <1>7, <3>1
    <3>. QED  BY <2>0, <3>1, <3>2
  <2>. QED  BY <2>1, <2>2
<1>9. ChainInv'
  <2>1. \A c \in Chains : left'[c] # {} => stage'[c] = "callbacks"
    BY <1>7 DEF IInv, ChainInv, ChainTypeOK
  <2>2. \A c \in Chains : c > issued' => stage'[c] = "new"
    <3>1. \A c \in Chains : c > chain => c > issued /\ c # chain
      BY <1>2, ChainNumbers
    <3>. QED  BY <1>1, <1>7, <3>1 DEF IInv, ChainInv, ChainTypeOK
  <2>3. \A c \in inFlight' : stage'[c] \in {"held", "callbacks"}
    <3>0. inFlight \subseteq Chains
      BY <1>2, ChainNumbers DEF ChainTypeOK
    <3>1. \A c \in batches : c # chain /\ stage[c] \in {"held", "callbacks"} /\ c \in Chains
      BY <1>3, <1>4, <3>0 DEF IInv, ChainInv
    <3>. QED  BY <1>2, <1>7, <3>1 DEF ChainTypeOK
  <2>4. \A c \in Current' : left'[c] # {} \/ Held(c)' => c \in inFlight'
    <3>. SUFFICES ASSUME NEW c \in lastFull' .. issued', left'[c] # {} \/ Held(c)'
                  PROVE  c \in inFlight'
      BY DEF Current
    <3>1. c \in Chains /\ c \in Nat
      <4>1. lastFull' \in Nat
        BY <1>1, <1>2
      <4>. QED  BY <1>1, <1>2, <4>1, ChainNumbers
    <3>2. CASE c = chain
      BY <1>2, <1>7, <3>1, <3>2 DEF Held, ChainTypeOK
    <3>3. CASE c # chain
      <4>0. \A i, j \in Nat : j \in i .. (issued + 1) /\ j # issued + 1 => i # issued + 1 /\ j \in i .. issued
        BY <1>2
      <4>1. ~full /\ c \in Current
        BY <1>1, <1>2, <3>1, <3>3, <4>0 DEF Current
      <4>2. left[c] # {} \/ Held(c)
        BY <1>2, <1>6, <1>7, <3>1, <3>3 DEF Held, ChainTypeOK
      <4>. QED  BY <1>3, <1>7, <4>1, <4>2 DEF IInv, ChainInv
    <3>. QED  BY <3>2, <3>3
  <2>5. inFlight' \subseteq prior' \cup {issued'}
    BY <1>1, <1>3, <1>7
  <2>. QED  BY <2>1, <2>2, <2>3, <2>4, <2>5 DEF ChainInv
<1>10. SystemInv'
  BY <1>2, <1>7 DEF IInv, SystemInv, ChainTypeOK
<1>. QED  BY <1>1, <1>6, <1>8, <1>9, <1>10, CancelWaiters

(* Before the initialization nothing is in flight.                         *)
LEMMA NothingInFlight ==
  ASSUME IInv, ~initialized
  PROVE  /\ issued = 0 /\ lastFull = 0 /\ prior \subseteq {0} /\ inFlight = {}
         /\ \A c \in Chains : left[c] = {}
<1>. ChainTypeOK
  BY TypeParts DEF IInv
<1>1. issued = 0 /\ stage[0] \in {"new", "consent", "failed"}
  BY DEF IInv, SystemInv
<1>2. lastFull = 0 /\ prior \subseteq {0} /\ inFlight \subseteq {0}
  BY <1>1 DEF ChainTypeOK
<1>3. inFlight = {}
  BY <1>1, <1>2 DEF IInv, ChainInv
<1>4. \A c \in Chains : c = 0 \/ c > issued
  BY <1>1, ChainNumbers
<1>. QED  BY <1>1, <1>2, <1>3, <1>4 DEF IInv, ChainInv

(* The initialization, once there is consent.                              *)
LEMMA RunInitKeeps ==
  ASSUME IInv, ~initialized, NEW c \in Given, NEW ms \in SUBSET Modules, NEW start \in BOOLEAN,
         configured \subseteq configured', ms \subseteq configured', configured' \subseteq Modules,
         UNCHANGED <<issued, prior, lastFull>>, consent' = c, RunInit(c, ms, start)
  PROVE  /\ SubmoduleTypeOK' /\ ChainTypeOK' /\ ChainInv' /\ SystemInv' /\ initialized' = TRUE
         /\ \A m \in Modules : seen'[m] \in (IF m \in ms THEN {c, "passed"} ELSE {seen[m]})
<1>. SubmoduleTypeOK /\ ChainTypeOK
  BY TypeParts DEF IInv
<1>0. /\ issued = 0 /\ lastFull = 0 /\ prior \subseteq {0} /\ inFlight = {} /\ 0 \in Chains
      /\ \A d \in Chains : left[d] = {}
  BY NothingInFlight, ChainNumbers
<1>a. PICK ok \in SUBSET ms : \E cbs \in SUBSET ok :
        /\ initSubmodules(ms, c, ok, cbs)
        /\ initialized' = TRUE
        /\ IF start
             THEN RunCallbacks(0, inited', callback \cup cbs, inFlight \cup {0})
             ELSE /\ callback' = callback \cup cbs
                  /\ stage' = [stage EXCEPT ![0] = "held"]
                  /\ inFlight' = inFlight \cup (IF inited' \cap callback' = {} THEN {} ELSE {0})
                  /\ UNCHANGED left
  BY DEF RunInit
<1>1. PICK cbs \in SUBSET ok :
        /\ initSubmodules(ms, c, ok, cbs)
        /\ initialized' = TRUE
        /\ IF start
             THEN RunCallbacks(0, inited', callback \cup cbs, inFlight \cup {0})
             ELSE /\ callback' = callback \cup cbs
                  /\ stage' = [stage EXCEPT ![0] = "held"]
                  /\ inFlight' = inFlight \cup (IF inited' \cap callback' = {} THEN {} ELSE {0})
                  /\ UNCHANGED left
  BY <1>a
<1>2. /\ inited' \subseteq configured' /\ inited' \subseteq inited \cup ok
      /\ seen' \in [Modules -> Given \cup {"none", "passed"}]
      /\ \A m \in Modules : seen'[m] \in (IF m \in ms THEN {c, "passed"} ELSE {seen[m]})
      /\ callback \cup cbs \subseteq configured'
  BY <1>1, InitSubmodulesType
<1>3. /\ callback' \subseteq callback \cup cbs
      /\ \E run \in SUBSET Modules, st \in {"held", "callbacks", "done"} :
           /\ left' = [left EXCEPT ![0] = run]
           /\ stage' = [stage EXCEPT ![0] = st]
           /\ inFlight' \subseteq {0}
           /\ run # {} => st = "callbacks" /\ 0 \in inFlight'
           /\ st = "held" /\ inited' \cap callback' # {} => 0 \in inFlight'
           /\ st = "done" => inFlight' = {}
  <2>1. CASE start
    <3>. DEFINE run == inited' \cap (callback \cup cbs)
    <3>1. /\ callback' = (callback \cup cbs) \ run
          /\ left' = [left EXCEPT ![0] = run]
          /\ stage' = [stage EXCEPT ![0] = IF run = {} THEN "done" ELSE "callbacks"]
          /\ inFlight' = (IF run = {} THEN {} ELSE {0})
      BY <1>0, <1>1, <2>1 DEF RunCallbacks, settled
    <3>2. run \in SUBSET Modules
      BY <1>2
    <3>. HIDE DEF run
    <3>3. CASE run = {}
      <4>1. stage' = [stage EXCEPT ![0] = "done"] /\ inFlight' = {} /\ left' = [left EXCEPT ![0] = run]
        BY <3>1, <3>3
      <4>. QED  BY <3>1, <3>2, <3>3, <4>1
    <3>4. CASE run # {}
      <4>1. stage' = [stage EXCEPT ![0] = "callbacks"] /\ inFlight' = {0} /\ left' = [left EXCEPT ![0] = run]
        BY <3>1, <3>4
      <4>. QED  BY <3>1, <3>2, <4>1
    <3>. QED  BY <3>3, <3>4
  <2>2. CASE ~start
    <3>1. left' = [left EXCEPT ![0] = {}]
      BY <1>0, <1>1, <2>2 DEF ChainTypeOK
    <3>2. /\ callback' = callback \cup cbs
          /\ stage' = [stage EXCEPT ![0] = "held"]
          /\ inFlight' = (IF inited' \cap callback' = {} THEN {} ELSE {0})
      BY <1>0, <1>1, <2>2
    <3>3. inFlight' \subseteq {0} /\ (inited' \cap callback' # {} => 0 \in inFlight')
      BY <3>2
    <3>. QED  BY <3>1, <3>2, <3>3
  <2>. QED  BY <2>1, <2>2
<1>4. PICK run \in SUBSET Modules, st \in {"held", "callbacks", "done"} :
           /\ left' = [left EXCEPT ![0] = run]
           /\ stage' = [stage EXCEPT ![0] = st]
           /\ inFlight' \subseteq {0}
           /\ run # {} => st = "callbacks" /\ 0 \in inFlight'
           /\ st = "held" /\ inited' \cap callback' # {} => 0 \in inFlight'
           /\ st = "done" => inFlight' = {}
  BY <1>3
<1>5. SubmoduleTypeOK'
  BY <1>2, <1>3 DEF SubmoduleTypeOK
<1>6. ChainTypeOK'
  BY <1>0, <1>4 DEF ChainTypeOK, Stages
<1>7. ChainInv'
  <2>1. \A d \in Chains : left'[d] # {} => stage'[d] = "callbacks"
    BY <1>0, <1>4 DEF ChainTypeOK
  <2>2. \A d \in Chains : d > issued' => stage'[d] = "new"
    <3>1. \A d \in Chains : d > issued' => d # 0 /\ d > issued
      BY <1>0
    <3>. QED  BY <1>4, <3>1 DEF IInv, ChainInv, ChainTypeOK
  <2>3. \A d \in inFlight' : stage'[d] \in {"held", "callbacks"}
    BY <1>0, <1>4 DEF ChainTypeOK
  <2>4. \A d \in Current' : left'[d] # {} \/ Held(d)' => d \in inFlight'
    <3>1. \A d \in Current' : d = 0
      BY <1>0 DEF Current
    <3>2. stage'[0] = st /\ left'[0] = run
      BY <1>0, <1>4 DEF ChainTypeOK
    <3>. QED  BY <1>4, <3>1, <3>2 DEF Held
  <2>5. inFlight' \subseteq prior' \cup {issued'}
    BY <1>0, <1>4
  <2>. QED  BY <2>1, <2>2, <2>3, <2>4, <2>5 DEF ChainInv
<1>8. SystemInv'
  <2>1. stage'[0] = st /\ c # "pending"
    BY <1>0, <1>4, UserIdAssumption DEF ChainTypeOK, UserIdAssumption
  <2>. QED  BY <1>1, <1>4, <2>1 DEF SystemInv
<1>. QED  BY <1>1, <1>2, <1>5, <1>6, <1>7, <1>8

(* The initialization that is let down, or waits: nothing is in flight.    *)
LEMMA UninitializedKeeps ==
  ASSUME IInv, ~initialized, ~initialized', configured \subseteq configured', configured' \subseteq Modules,
         UNCHANGED <<issued, prior, lastFull, inited, callback, seen, left, inFlight>>,
         NEW st \in {"new", "consent", "failed"}, stage' = [stage EXCEPT ![0] = st],
         st = "new" => configured' = {}
  PROVE  SubmoduleTypeOK' /\ ChainTypeOK' /\ ChainInv' /\ SystemInv'
<1>. SubmoduleTypeOK /\ ChainTypeOK
  BY TypeParts DEF IInv
<1>0. /\ issued = 0 /\ lastFull = 0 /\ prior \subseteq {0} /\ inFlight = {} /\ 0 \in Chains
      /\ \A d \in Chains : left[d] = {}
  BY NothingInFlight, ChainNumbers
<1>1. stage'[0] = st
  BY <1>0 DEF ChainTypeOK
<1>2. SubmoduleTypeOK'
  BY DEF SubmoduleTypeOK
<1>3. ChainTypeOK'
  BY <1>0 DEF ChainTypeOK, Stages
<1>4. ChainInv'
  <2>1. \A d \in Chains : d > issued => d # 0
    BY <1>0
  <2>2. \A d \in Current' : d = 0
    BY <1>0 DEF Current
  <2>. QED  BY <1>0, <1>1, <2>1, <2>2 DEF IInv, ChainInv, Held, ChainTypeOK
<1>5. SystemInv'
  BY <1>0, <1>1 DEF SystemInv
<1>. QED  BY <1>2, <1>3, <1>4, <1>5

-----------------------------------------------------------------------------
\* Whoever is given the ids in this step is so by a fulfilled done.
GivenByDone == \A w \in Waiters : waiter[w] # "answered" /\ waiter'[w] = "answered" => Fulfilled'

(* The invariant from its parts.                                           *)
LEMMA FromParts ==
  ASSUME consent' \in Given \cup {"pending", "failed"}, {notify', auctionDelay', initialized'} \subseteq BOOLEAN,
         startCallbacks' \in {"off", "listening", "timed", "resolved"}, waiter' \in [Waiters -> States],
         SubmoduleTypeOK', ChainTypeOK', ChainInv', SystemInv', AskedUnderConsent'
  PROVE  IInv'
BY DEF IInv, TypeOK, SubmoduleTypeOK, ChainTypeOK, Stages, States

(* A step that leaves chains and submodules alone.                         *)
LEMMA OthersKeep ==
  ASSUME IInv, UNCHANGED <<consent, notify, auctionDelay, submoduleVars, initialized, chainVars>>,
         startCallbacks' \in {"off", "listening", "timed", "resolved"}, waiter' \in [Waiters -> States]
  PROVE  IInv'
<1>1. TypeOK'
  BY DEF IInv, TypeOK, States, submoduleVars, chainVars
<1>2. AskedUnderConsent'
  BY DEF IInv, AskedUnderConsent, submoduleVars
<1>3. ChainInv' /\ SystemInv'
  BY DEF IInv, ChainInv, SystemInv, Current, Held, submoduleVars, chainVars
<1>. QED  BY <1>1, <1>2, <1>3 DEF IInv

(* Who asks for the ids while nothing else changes gets them from a        *)
(* fulfilled done.                                                         *)
LEMMA AskingKeeps ==
  ASSUME IInv, UNCHANGED <<consent, notify, auctionDelay, submoduleVars, initialized, startCallbacks, chainVars>>,
         NEW w \in Waiters, NEW out, waiter' = [waiter EXCEPT ![w] = out], out \in {Outcome, "timedout"}
  PROVE  IInv' /\ GivenByDone
<1>. waiter \in [Waiters -> States] /\ startCallbacks \in {"off", "listening", "timed", "resolved"}
  BY TypeParts DEF IInv
<1>1. out \in States /\ (out = "answered" => Fulfilled)
  BY OutcomeStates DEF States
<1>2. waiter' \in [Waiters -> States]
  BY <1>1
<1>3. Fulfilled' = Fulfilled
  BY DEF Fulfilled, chainVars
<1>. QED  BY <1>1, <1>2, <1>3, OthersKeep DEF GivenByDone

(* Submodules get a configuration.                                         *)
LEMMA ConfigureKeeps ==
  ASSUME IInv, NEW ms \in SUBSET Modules, Configure(ms)
  PROVE  IInv' /\ GivenByDone
<1>. /\ consent \in Given \cup {"pending", "failed"} /\ {notify, auctionDelay, initialized} \subseteq BOOLEAN
     /\ startCallbacks \in {"off", "listening", "timed", "resolved"} /\ waiter \in [Waiters -> States]
     /\ SubmoduleTypeOK /\ ChainTypeOK
  BY TypeParts DEF IInv
<1>1. /\ ~notify /\ ms # {} /\ ms \cap configured = {} /\ configured' = configured \cup ms
      /\ configured \subseteq configured' /\ ms \subseteq configured' /\ configured' \subseteq Modules
      /\ UNCHANGED <<consent, notify, auctionDelay>>
  BY DEF Configure, TaskOver, SubmoduleTypeOK
<1>2. CASE initialized
  <2>1. Refresh(ms, FALSE, {}) /\ UNCHANGED <<initialized, startCallbacks>>
    BY <1>2 DEF Configure
  <2>2. /\ SubmoduleTypeOK' /\ ChainTypeOK' /\ ChainInv' /\ SystemInv'
        /\ consent \in Given => \A m \in Modules : seen'[m] \in (IF m \in ms THEN {consent, "passed"} ELSE {seen[m]})
        /\ waiter' \in [Waiters -> States]
        /\ \A w \in Waiters : waiter[w] # "answered" /\ waiter'[w] = "answered" => Fulfilled'
    BY <1>1, <1>2, <2>1, RefreshKeeps
  <2>3. AskedUnderConsent'
    BY <1>1, <1>2, <2>2 DEF IInv, AskedUnderConsent
  <2>. QED  BY <1>1, <2>1, <2>2, <2>3, FromParts DEF GivenByDone
<1>3. CASE ~initialized /\ stage[0] = "new"
  <2>a. /\ startCallbacks' = (IF auctionDelay THEN "resolved" ELSE "listening")
        /\ IF consent = "pending"
             THEN /\ stage' = [stage EXCEPT ![0] = "consent"]
                  /\ UNCHANGED <<inited, callback, seen, initialized, left, inFlight>>
             ELSE IF consent = "failed" THEN FailInit
                  ELSE RunInit(consent, ms, auctionDelay)
        /\ UNCHANGED <<issued, prior, lastFull>>
        /\ SettleDone
    BY <1>3 DEF Configure
  <2>0. configured = {} /\ configured' = ms
    BY <1>1, <1>3 DEF IInv, SystemInv
  <2>1. startCallbacks' \in {"off", "listening", "timed", "resolved"}
    BY <2>a
  <2>2. waiter' \in [Waiters -> States] /\ GivenByDone
    BY <2>a, SettleWaiters DEF GivenByDone
  <2>3. SubmoduleTypeOK' /\ ChainTypeOK' /\ ChainInv' /\ SystemInv' /\ initialized' \in BOOLEAN /\ AskedUnderConsent'
    <3>1. CASE consent = "pending"
      BY <1>1, <1>3, <2>a, <3>1, UninitializedKeeps DEF AskedUnderConsent
    <3>2. CASE consent = "failed"
      <4>1. FailInit /\ UNCHANGED <<issued, prior, lastFull>>
        BY <2>a, <3>2, UserIdAssumption DEF UserIdAssumption
      <4>. QED  BY <1>1, <1>3, <4>1, UninitializedKeeps DEF FailInit, AskedUnderConsent
    <3>3. CASE consent \notin {"pending", "failed"}
      <4>1. /\ RunInit(consent, ms, auctionDelay) /\ consent \in Given /\ auctionDelay \in BOOLEAN
            /\ consent' = consent /\ UNCHANGED <<issued, prior, lastFull>> /\ ~initialized
            /\ configured \subseteq configured' /\ ms \subseteq configured' /\ configured' \subseteq Modules
        BY <1>1, <1>3, <2>a, <3>3
      <4>2. /\ SubmoduleTypeOK' /\ ChainTypeOK' /\ ChainInv' /\ SystemInv' /\ initialized' = TRUE
            /\ \A m \in Modules : seen'[m] \in (IF m \in ms THEN {consent, "passed"} ELSE {seen[m]})
        <5>1. PICK c \in Given : c = consent
          BY <4>1
        <5>2. PICK start \in BOOLEAN : start = auctionDelay
          BY <4>1
        <5>3. RunInit(c, ms, start) /\ consent' = c
          BY <4>1, <5>1, <5>2
        <5>4. /\ SubmoduleTypeOK' /\ ChainTypeOK' /\ ChainInv' /\ SystemInv' /\ initialized' = TRUE
              /\ \A m \in Modules : seen'[m] \in (IF m \in ms THEN {c, "passed"} ELSE {seen[m]})
          <6>1. CASE start = TRUE
            <7>1. RunInit(c, ms, TRUE)
              BY <5>3, <6>1
            <7>. QED  BY <4>1, <5>3, <7>1, RunInitKeeps
          <6>2. CASE start = FALSE
            <7>1. RunInit(c, ms, FALSE)
              BY <5>3, <6>2
            <7>. QED  BY <4>1, <5>3, <7>1, RunInitKeeps
          <6>. QED  BY <6>1, <6>2
        <5>. QED  BY <5>1, <5>4
      <4>3. AskedUnderConsent'
        BY <1>1, <2>0, <4>2 DEF AskedUnderConsent
      <4>. QED  BY <4>2, <4>3
    <3>. QED  BY <3>1, <3>2, <3>3
  <2>. QED  BY <1>1, <2>1, <2>2, <2>3, FromParts
<1>4. CASE ~initialized /\ stage[0] # "new"
  <2>1. UNCHANGED <<inited, callback, seen, initialized, startCallbacks, chainVars, waiter>>
    BY <1>4 DEF Configure
  <2>2. stage[0] \in {"consent", "failed"} /\ stage' = [stage EXCEPT ![0] = stage[0]]
    BY <1>4, <2>1, ChainNumbers DEF IInv, SystemInv, chainVars, ChainTypeOK
  <2>3. SubmoduleTypeOK' /\ ChainTypeOK' /\ ChainInv' /\ SystemInv' /\ AskedUnderConsent'
    BY <1>1, <1>4, <2>1, <2>2, UninitializedKeeps DEF chainVars, AskedUnderConsent
  <2>. QED  BY <1>1, <2>1, <2>3, FromParts DEF GivenByDone
<1>. QED  BY <1>2, <1>3, <1>4

(* Consent comes, changes or fails.                                        *)
LEMMA ConsentKeeps ==
  ASSUME IInv, NEW c \in Given \cup {"failed"}, Consent(c)
  PROVE  IInv' /\ GivenByDone
<1>. /\ consent \in Given \cup {"pending", "failed"} /\ {notify, auctionDelay, initialized} \subseteq BOOLEAN
     /\ startCallbacks \in {"off", "listening", "timed", "resolved"} /\ waiter \in [Waiters -> States]
     /\ SubmoduleTypeOK /\ ChainTypeOK
  BY TypeParts DEF IInv
<1>1. /\ consent' = c /\ c # consent /\ SettleDone
      /\ UNCHANGED <<auctionDelay, configured, startCallbacks, issued, prior, lastFull>>
      /\ configured \subseteq Modules
  BY DEF Consent, SubmoduleTypeOK
<1>2. waiter' \in [Waiters -> States] /\ GivenByDone
  BY <1>1, SettleWaiters DEF GivenByDone
<1>3. SubmoduleTypeOK' /\ ChainTypeOK' /\ ChainInv' /\ SystemInv' /\ initialized' \in BOOLEAN /\ notify' \in BOOLEAN
      /\ AskedUnderConsent'
  <2>1. CASE stage[0] = "consent" /\ c = "failed"
    <3>1. ~initialized /\ FailInit /\ notify' = consentChanged(c)
      BY <2>1 DEF Consent, IInv, SystemInv
    <3>. QED  BY <1>1, <3>1, UninitializedKeeps DEF FailInit, AskedUnderConsent, consentChanged
  <2>2. CASE stage[0] = "consent" /\ c # "failed"
    <3>1. /\ ~initialized /\ c \in Given /\ notify' \in BOOLEAN
          /\ RunInit(c, configured, startCallbacks = "resolved") /\ (startCallbacks = "resolved") \in BOOLEAN
      BY <2>2 DEF Consent, IInv, SystemInv
    <3>2. /\ SubmoduleTypeOK' /\ ChainTypeOK' /\ ChainInv' /\ SystemInv' /\ initialized' = TRUE
          /\ \A m \in Modules : seen'[m] \in (IF m \in configured THEN {c, "passed"} ELSE {seen[m]})
      BY <1>1, <3>1, RunInitKeeps
    <3>3. AskedUnderConsent'
      BY <1>1, <3>2 DEF AskedUnderConsent
    <3>. QED  BY <3>1, <3>2, <3>3
  <2>3. CASE stage[0] # "consent"
    <3>1. /\ notify' = consentChanged(c)
          /\ UNCHANGED <<inited, callback, seen, initialized, stage, left, inFlight>>
      BY <2>3 DEF Consent
    <3>2. SubmoduleTypeOK' /\ ChainTypeOK' /\ ChainInv'
      BY <1>1, <3>1 DEF SubmoduleTypeOK, ChainTypeOK, IInv, ChainInv, Current, Held
    <3>3. SystemInv'
      BY <1>1, <3>1, UserIdAssumption DEF IInv, SystemInv, UserIdAssumption
    <3>4. c \in Given => consentChanged(c)
      BY <1>1, UserIdAssumption DEF consentChanged, Data, UserIdAssumption
    <3>5. AskedUnderConsent' /\ notify' \in BOOLEAN
      BY <1>1, <3>1, <3>4 DEF AskedUnderConsent, consentChanged
    <3>. QED  BY <3>1, <3>2, <3>3, <3>5
  <2>. QED  BY <2>1, <2>2, <2>3
<1>. QED  BY <1>1, <1>2, <1>3, FromParts

(* A listener is told of it.                                               *)
LEMMA NotifyKeeps ==
  ASSUME IInv, Notify
  PROVE  IInv' /\ GivenByDone
<1>. /\ consent \in Given \cup {"pending", "failed"} /\ {notify, auctionDelay, initialized} \subseteq BOOLEAN
     /\ startCallbacks \in {"off", "listening", "timed", "resolved"} /\ waiter \in [Waiters -> States]
     /\ SubmoduleTypeOK /\ ChainTypeOK
  BY TypeParts DEF IInv
<1>1. notify' = FALSE /\ UNCHANGED <<consent, auctionDelay, configured, initialized, startCallbacks>>
      /\ configured \subseteq Modules
  BY DEF Notify, SubmoduleTypeOK
<1>2. CASE initialized
  <2>1. Refresh(configured, TRUE, {})
    BY <1>2 DEF Notify
  <2>2. /\ SubmoduleTypeOK' /\ ChainTypeOK' /\ ChainInv' /\ SystemInv'
        /\ consent \in Given => \A m \in Modules : seen'[m] \in (IF m \in configured THEN {consent, "passed"} ELSE {seen[m]})
        /\ waiter' \in [Waiters -> States]
        /\ \A w \in Waiters : waiter[w] # "answered" /\ waiter'[w] = "answered" => Fulfilled'
    BY <1>1, <1>2, <2>1, RefreshKeeps
  <2>3. AskedUnderConsent'
    BY <1>1, <2>2 DEF AskedUnderConsent
  <2>. QED  BY <1>1, <2>2, <2>3, FromParts DEF GivenByDone
<1>3. CASE ~initialized
  <2>1. UNCHANGED <<inited, callback, seen, chainVars, waiter>>
    BY <1>3 DEF Notify
  <2>2. SubmoduleTypeOK' /\ ChainTypeOK' /\ ChainInv' /\ SystemInv'
    BY <1>1, <2>1 DEF SubmoduleTypeOK, ChainTypeOK, IInv, ChainInv, SystemInv, Current, Held, chainVars
  <2>3. AskedUnderConsent'
    BY <1>1, <1>3 DEF AskedUnderConsent
  <2>. QED  BY <1>1, <2>1, <2>2, <2>3, FromParts DEF GivenByDone
<1>. QED  BY <1>2, <1>3

(* refreshUserIds.                                                         *)
LEMMA RefreshUserIdsKeeps ==
  ASSUME IInv, NEW w \in Waiters, NEW ms \in SUBSET configured, NEW full \in BOOLEAN, refreshUserIds(w, ms, full)
  PROVE  IInv' /\ GivenByDone
<1>. /\ consent \in Given \cup {"pending", "failed"} /\ {notify, auctionDelay, initialized} \subseteq BOOLEAN
     /\ startCallbacks \in {"off", "listening", "timed", "resolved"} /\ waiter \in [Waiters -> States]
     /\ SubmoduleTypeOK /\ ChainTypeOK
  BY TypeParts DEF IInv
<1>1. UNCHANGED <<consent, notify, auctionDelay, configured, initialized, startCallbacks>>
      /\ ~notify /\ configured \subseteq Modules /\ ms \in SUBSET Modules
  BY DEF refreshUserIds, SubmoduleTypeOK
<1>2. CASE initialized
  <2>1. Refresh(ms, full, {w})
    BY <1>2 DEF refreshUserIds
  <2>2. /\ SubmoduleTypeOK' /\ ChainTypeOK' /\ ChainInv' /\ SystemInv'
        /\ consent \in Given => \A m \in Modules : seen'[m] \in (IF m \in ms THEN {consent, "passed"} ELSE {seen[m]})
        /\ waiter' \in [Waiters -> States]
        /\ \A v \in Waiters : waiter[v] # "answered" /\ waiter'[v] = "answered" => Fulfilled'
    BY <1>1, <1>2, <2>1, RefreshKeeps
  <2>3. AskedUnderConsent'
    BY <1>1, <1>2, <2>2 DEF IInv, AskedUnderConsent
  <2>. QED  BY <1>1, <2>2, <2>3, FromParts DEF GivenByDone
<1>3. CASE ~initialized
  <2>1. waiter' = [waiter EXCEPT ![w] = Outcome] /\ UNCHANGED <<inited, callback, seen, chainVars>>
    BY <1>3 DEF refreshUserIds
  <2>2. UNCHANGED <<consent, notify, auctionDelay, submoduleVars, initialized, startCallbacks, chainVars>>
    BY <1>1, <2>1 DEF submoduleVars
  <2>. QED  BY <2>1, <2>2, AskingKeeps
<1>. QED  BY <1>2, <1>3

(* The delay after the auction is over.                                    *)
LEMMA SyncDelayKeeps ==
  ASSUME IInv, SyncDelayOver
  PROVE  IInv' /\ GivenByDone
<1>. /\ consent \in Given \cup {"pending", "failed"} /\ {notify, auctionDelay, initialized} \subseteq BOOLEAN
     /\ startCallbacks \in {"off", "listening", "timed", "resolved"} /\ waiter \in [Waiters -> States]
     /\ SubmoduleTypeOK /\ ChainTypeOK
  BY TypeParts DEF IInv
<1>1. /\ startCallbacks' = "resolved"
      /\ UNCHANGED <<consent, notify, auctionDelay, configured, inited, seen, initialized, issued, prior, lastFull>>
  BY DEF SyncDelayOver
<1>2. AskedUnderConsent'
  BY <1>1 DEF IInv, AskedUnderConsent
<1>3. CASE stage[0] # "held"
  <2>1. UNCHANGED <<callback, left, stage, inFlight, waiter>>
    BY <1>3 DEF SyncDelayOver
  <2>2. UNCHANGED <<consent, notify, auctionDelay, submoduleVars, initialized, chainVars>>
    BY <1>1, <2>1 DEF submoduleVars, chainVars
  <2>. QED  BY <1>1, <2>1, <2>2, OthersKeep DEF GivenByDone
<1>4. CASE stage[0] = "held"
  <2>. DEFINE run == inited \cap callback
  <2>1. /\ callback' = callback \ run
        /\ left' = [left EXCEPT ![0] = run]
        /\ stage' = [stage EXCEPT ![0] = IF run = {} THEN "done" ELSE "callbacks"]
        /\ inFlight' = (IF run = {} THEN inFlight \ {0} ELSE inFlight)
        /\ SettleDone
    BY <1>4 DEF SyncDelayOver, RunCallbacks, settled
  <2>2. waiter' \in [Waiters -> States] /\ GivenByDone
    BY <2>1, SettleWaiters DEF GivenByDone
  <2>3. SubmoduleTypeOK'
    BY <1>1, <2>1 DEF SubmoduleTypeOK
  <2>4. run \in SUBSET Modules /\ (Held(0) <=> run # {}) /\ 0 \in Chains
    BY <1>4, ChainNumbers DEF SubmoduleTypeOK, Held
  <2>. HIDE DEF run
  <2>5. \E st \in {"done", "callbacks"} :
          /\ stage' = [stage EXCEPT ![0] = st]
          /\ run # {} => st = "callbacks" /\ inFlight' = inFlight
          /\ run = {} => st = "done" /\ inFlight' = inFlight \ {0}
    <3>1. CASE run = {}
      <4>1. stage' = [stage EXCEPT ![0] = "done"]
        BY <2>1, <3>1
      <4>. QED  BY <2>1, <3>1, <4>1
    <3>2. CASE run # {}
      <4>1. stage' = [stage EXCEPT ![0] = "callbacks"]
        BY <2>1, <3>2
      <4>. QED  BY <2>1, <3>2, <4>1
    <3>. QED  BY <3>1, <3>2
  <2>6. PICK st \in {"done", "callbacks"} :
          /\ stage' = [stage EXCEPT ![0] = st]
          /\ run # {} => st = "callbacks" /\ inFlight' = inFlight
          /\ run = {} => st = "done" /\ inFlight' = inFlight \ {0}
    BY <2>5
  <2>7. ChainTypeOK'
    BY <1>1, <2>1, <2>4, <2>6 DEF ChainTypeOK, Stages
  <2>8. ChainInv'
    <3>1. \A d \in Chains : left'[d] # {} => stage'[d] = "callbacks"
      BY <2>1, <2>4, <2>6 DEF IInv, ChainInv, ChainTypeOK
    <3>2. \A d \in Chains : d > issued' => stage'[d] = "new"
      BY <1>1, <1>4, <2>4, <2>6 DEF IInv, ChainInv, ChainTypeOK
    <3>3. \A d \in inFlight' : stage'[d] \in {"held", "callbacks"}
      <4>1. \A d \in inFlight : d \in Chains /\ stage[d] \in {"held", "callbacks"}
        BY ChainNumbers DEF IInv, ChainInv, ChainTypeOK
      <4>2. \A d \in inFlight' : d \in inFlight /\ (d = 0 => st = "callbacks")
        BY <2>6
      <4>. QED  BY <2>4, <2>6, <4>1, <4>2 DEF ChainTypeOK
    <3>4. \A d \in Current' : left'[d] # {} \/ Held(d)' => d \in inFlight'
      <4>1. Current' = Current
        BY <1>1 DEF Current
      <4>2. \A d \in Current : d \in Chains
        BY ChainNumbers DEF Current, ChainTypeOK
      <4>3. \A d \in Current : ~Held(d)'
        BY <2>4, <2>6 DEF Held, ChainTypeOK
      <4>4. 0 \in Current /\ run # {} => 0 \in inFlight'
        BY <2>4, <2>6 DEF IInv, ChainInv
      <4>5. \A d \in Current : d # 0 /\ left'[d] # {} => d \in inFlight'
        BY <2>1, <2>6, <4>2 DEF IInv, ChainInv, ChainTypeOK
      <4>. QED  BY <2>1, <2>4, <4>1, <4>3, <4>4, <4>5 DEF ChainTypeOK
    <3>5. inFlight' \subseteq prior' \cup {issued'}
      BY <1>1, <2>6 DEF IInv, ChainInv
    <3>. QED  BY <3>1, <3>2, <3>3, <3>4, <3>5 DEF ChainInv
  <2>9. SystemInv'
    BY <1>1, <1>4, <2>4, <2>6 DEF IInv, SystemInv, ChainTypeOK
  <2>. QED  BY <1>1, <1>2, <2>2, <2>3, <2>7, <2>8, <2>9, FromParts
<1>. QED  BY <1>3, <1>4

(* A submodule calls back.                                                 *)
LEMMA CallBackKeeps ==
  ASSUME IInv, NEW chain \in Chains, NEW m \in Modules, CallBack(chain, m)
  PROVE  IInv' /\ GivenByDone
<1>. /\ consent \in Given \cup {"pending", "failed"} /\ {notify, auctionDelay, initialized} \subseteq BOOLEAN
     /\ startCallbacks \in {"off", "listening", "timed", "resolved"} /\ waiter \in [Waiters -> States]
     /\ SubmoduleTypeOK /\ ChainTypeOK
  BY TypeParts DEF IInv
<1>1. /\ m \in left[chain] /\ left' = [left EXCEPT ![chain] = left[chain] \ {m}]
      /\ UNCHANGED <<consent, notify, auctionDelay, configured, inited, callback, seen, initialized,
                     startCallbacks, issued, prior, lastFull>>
      /\ SettleDone
  BY DEF CallBack, submoduleVars
<1>2. stage[chain] = "callbacks" /\ initialized
  BY <1>1, NothingInFlight DEF IInv, ChainInv
<1>3. \/ left[chain] = {m} /\ stage' = [stage EXCEPT ![chain] = "done"] /\ inFlight' = inFlight \ {chain}
      \/ left[chain] # {m} /\ UNCHANGED <<stage, inFlight>>
  BY DEF CallBack, settled
<1>4. waiter' \in [Waiters -> States] /\ GivenByDone
  BY <1>1, SettleWaiters DEF GivenByDone
<1>5. SubmoduleTypeOK' /\ AskedUnderConsent'
  BY <1>1 DEF SubmoduleTypeOK, IInv, AskedUnderConsent
<1>6. ChainTypeOK'
  BY <1>1, <1>3 DEF ChainTypeOK, Stages
<1>7. ChainInv'
  <2>1. \A d \in Chains : left'[d] # {} => stage'[d] = "callbacks"
    BY <1>1, <1>3 DEF IInv, ChainInv, ChainTypeOK
  <2>2. \A d \in Chains : d > issued' => stage'[d] = "new"
    BY <1>1, <1>2, <1>3 DEF IInv, ChainInv, ChainTypeOK
  <2>3. \A d \in inFlight' : stage'[d] \in {"held", "callbacks"}
    <3>1. \A d \in inFlight : d \in Chains /\ stage[d] \in {"held", "callbacks"}
      BY ChainNumbers DEF IInv, ChainInv, ChainTypeOK
    <3>. QED  BY <1>3, <3>1 DEF ChainTypeOK
  <2>4. \A d \in Current' : left'[d] # {} \/ Held(d)' => d \in inFlight'
    <3>1. Current' = Current /\ \A d \in Current : d \in Chains
      BY <1>1, ChainNumbers DEF Current, ChainTypeOK
    <3>2. \A d \in Chains : Held(d)' => Held(d) /\ d # chain
      BY <1>1, <1>2, <1>3 DEF Held, ChainTypeOK
    <3>3. \A d \in Chains : left'[d] # {} => left[d] # {} /\ (d = chain => left[chain] # {m})
      BY <1>1 DEF ChainTypeOK
    <3>. QED  BY <1>3, <3>1, <3>2, <3>3 DEF IInv, ChainInv
  <2>5. inFlight' \subseteq prior' \cup {issued'}
    BY <1>1, <1>3 DEF IInv, ChainInv
  <2>. QED  BY <2>1, <2>2, <2>3, <2>4, <2>5 DEF ChainInv
<1>8. SystemInv'
  BY <1>1, <1>2, <1>3, ChainNumbers DEF IInv, SystemInv, ChainTypeOK
<1>. QED  BY <1>1, <1>4, <1>5, <1>6, <1>7, <1>8, FromParts

-----------------------------------------------------------------------------
(* Every step keeps the invariant, and gives the ids only by a fulfilled   *)
(* done.                                                                   *)
LEMMA NextKeeps ==
  ASSUME IInv, Next
  PROVE  IInv' /\ GivenByDone
<1>. configured \subseteq Modules /\ waiter \in [Waiters -> States]
     /\ Callers \subseteq Waiters /\ Auctions \subseteq Waiters
     /\ startCallbacks \in {"off", "listening", "timed", "resolved"}
  BY TypeParts DEF IInv, SubmoduleTypeOK, Waiters
<1>1. CASE \E ms \in SUBSET Modules : Configure(ms)
  BY <1>1, ConfigureKeeps
<1>2. CASE \E c \in Given \cup {"failed"} : Consent(c)
  BY <1>2, ConsentKeeps
<1>3. CASE Notify
  BY <1>3, NotifyKeeps
<1>4. ASSUME NEW w \in Waiters, getUserIdsAsync(w) \/ Retry(w)
      PROVE  IInv' /\ GivenByDone
  BY <1>4, AskingKeeps DEF getUserIdsAsync, Retry
<1>5. ASSUME NEW w \in Waiters, NEW ms \in SUBSET configured, NEW full \in BOOLEAN, refreshUserIds(w, ms, full)
      PROVE  IInv' /\ GivenByDone
  BY <1>5, RefreshUserIdsKeeps
<1>6. ASSUME NEW w \in Auctions, Auction(w) \/ DelayOver(w)
      PROVE  IInv' /\ GivenByDone
  BY <1>6, AskingKeeps DEF Auction, DelayOver
<1>7. CASE AuctionEnd
  <2>1. /\ startCallbacks' \in {"off", "listening", "timed", "resolved"} /\ waiter' = waiter
        /\ UNCHANGED <<consent, notify, auctionDelay, submoduleVars, initialized, chainVars>>
    BY <1>7 DEF AuctionEnd
  <2>. QED  BY <2>1, OthersKeep DEF GivenByDone
<1>8. CASE SyncDelayOver
  BY <1>8, SyncDelayKeeps
<1>9. CASE \E chain \in Chains, m \in Modules : CallBack(chain, m)
  BY <1>9, CallBackKeeps
<1>. QED  BY <1>1, <1>2, <1>3, <1>4, <1>5, <1>6, <1>7, <1>8, <1>9 DEF Next

(* So does a step in which nothing happens.                                *)
LEMMA StutterKeeps ==
  ASSUME IInv, UNCHANGED vars
  PROVE  IInv' /\ GivenByDone
<1>1. startCallbacks' \in {"off", "listening", "timed", "resolved"} /\ waiter' \in [Waiters -> States]
  BY TypeParts DEF IInv, vars
<1>. QED  BY <1>1, OthersKeep DEF vars, GivenByDone

LEMMA InitKeeps ==
  ASSUME Init
  PROVE  IInv
<1>1. 0 \in Chains
  BY ChainNumbers
<1>2. TypeOK
  <2>1. consent \in Given \cup {"pending", "failed"} /\ {notify, auctionDelay, initialized} \subseteq BOOLEAN
    BY DEF Init
  <2>2. startCallbacks \in {"off", "listening", "timed", "resolved"} /\ waiter \in [Waiters -> States]
    BY DEF Init, States
  <2>3. SubmoduleTypeOK
    BY DEF Init, SubmoduleTypeOK
  <2>4. ChainTypeOK
    <3>1. stage \in [Chains -> Stages] /\ left \in [Chains -> SUBSET Modules]
      BY DEF Init, Stages
    <3>. QED  BY <1>1, <3>1 DEF Init, ChainTypeOK
  <2>. QED  BY <2>1, <2>2, <2>3, <2>4, TypeParts
<1>3. AskedUnderConsent
  BY DEF Init, AskedUnderConsent
<1>4. ChainInv
  <2>1. \A c \in Current : c = 0
    BY DEF Init, Current
  <2>2. \A c \in Chains : left[c] = {} /\ stage[c] = "new"
    BY DEF Init
  <2>. QED  BY <1>1, <2>1, <2>2 DEF Init, ChainInv, Held
<1>5. SystemInv
  BY <1>1 DEF Init, SystemInv
<1>. QED  BY <1>2, <1>3, <1>4, <1>5 DEF IInv

(* The invariant: what is outstanding is in flight, what is in flight is   *)
(* waited for by the last chain, and nothing is asked for before consent.  *)
THEOREM Invariance == Spec => []IInv
<1>1. IInv /\ [Next]_vars => IInv'
  BY NextKeeps, StutterKeeps
<1>. QED  BY <1>1, InitKeeps, PTL DEF Spec

(* The state of the ID system keeps its type, however refreshes, consent   *)
(* and answers interleave.                                                 *)
THEOREM TypeCorrect == Spec => []TypeOK
BY Invariance, PTL DEF IInv

(* Submodules that were let in when they were last to be initialised were  *)
(* asked under the consent that holds: a change of consent refreshes all   *)
(* that are configured, those added later are asked under that of their    *)
(* time, and those passed over are not taken for asked.                    *)
THEOREM AlwaysAskedUnderConsent == Spec => []AskedUnderConsent
BY Invariance, PTL DEF IInv

(* Callers and auctions are given the ids when every submodule asked has   *)
(* answered, whatever refreshes came between: a partial refresh waits for  *)
(* the batches in flight.                                                  *)
THEOREM CompleteWhenGivenAlways == Spec => CompleteWhenGiven
<1>. DEFINE Complete == \A chain \in Current : left[chain] = {} /\ ~Held(chain)
            Given1 == \A w \in Waiters : waiter[w] # "answered" /\ waiter'[w] = "answered" => Complete'
<1>1. IInv /\ Fulfilled => Complete
  BY FulfilledComplete DEF IInv
<1>2. IInv' /\ Fulfilled' => Complete'
  BY <1>1, PTL
<1>3. IInv /\ [Next]_vars => Given1
  BY <1>2, NextKeeps, StutterKeeps DEF GivenByDone
<1>4. [Given1]_vars => [\A w \in Waiters : waiter[w] # "answered" /\ waiter'[w] = "answered" =>
                          (\A chain \in Current : left[chain] = {} /\ ~Held(chain))']_vars
  OBVIOUS
<1>. QED  BY <1>3, <1>4, Invariance, PTL DEF Spec, CompleteWhenGiven
-----------------------------------------------------------------------------
\* A chain that runs callbacks has some left; only the initialization waits
\* for consent or is held, and it is held until the syncDelay is over.
StageInv ==
  /\ \A c \in Chains : stage[c] = "callbacks" => left[c] # {}
  /\ \A c \in Chains : stage[c] \in {"consent", "held"} \/ (stage[c] = "new" /\ c <= issued) => c = 0
  /\ startCallbacks = "off" => stage[0] = "new"
  /\ stage[0] = "held" => startCallbacks # "resolved"

\* Nobody waits for a done that has settled.
WaitersTold == \A w \in Waiters : waiter[w] = "waiting" => Outcome = "waiting"

WaitInv == StageInv /\ WaitersTold

(* A done that has not settled waits for something.                         *)
LEMMA SomethingToWaitFor ==
  ASSUME IInv, StageInv, Outcome = "waiting"
  PROVE  Blocked \/ startCallbacks = "timed"
<1>. ChainTypeOK /\ startCallbacks \in {"off", "listening", "timed", "resolved"}
  BY TypeParts DEF IInv
<1>1. ~Fulfilled /\ stage[issued] # "failed"
  BY DEF Outcome, Failed
<1>2. issued \in Chains /\ issued \in Current /\ 0 \in Chains
  <2>1. \A i \in Nat : \A j \in 0 .. i : i \in j .. i
    OBVIOUS
  <2>2. issued \in Nat
    BY ChainNumbers DEF ChainTypeOK
  <2>. QED  BY <2>1, <2>2, ChainNumbers DEF ChainTypeOK, Current
<1>3. \A c \in Chains : stage[c] = "held" => startCallbacks \in {"listening", "timed"}
  BY DEF StageInv
<1>4. \A c \in Current : c \in Chains /\ stage[c] \in {"held", "callbacks"} => Blocked \/ startCallbacks = "timed"
  BY <1>3 DEF StageInv, Blocked
<1>5. CASE stage[issued] \in {"held", "callbacks"}
  BY <1>2, <1>4, <1>5
<1>6. CASE stage[issued] \in {"new", "consent"}
  <2>1. issued = 0
    BY <1>2, <1>6, ChainNumbers DEF StageInv
  <2>. QED  BY <1>6, <2>1 DEF Blocked
<1>7. CASE stage[issued] = "done"
  <2>1. PICK c \in prior : c \in inFlight
    BY <1>1, <1>7 DEF Fulfilled
  <2>2. c \in Current /\ c \in Chains /\ stage[c] \in {"held", "callbacks"}
    BY <2>1, ChainNumbers DEF ChainTypeOK, Current, IInv, ChainInv
  <2>. QED  BY <1>4, <2>2
<1>. QED  BY <1>1, <1>2, <1>5, <1>6, <1>7 DEF ChainTypeOK, Stages

(* A step that takes one chain on.                                          *)
LEMMA OneChain ==
  ASSUME ChainTypeOK, StageInv, NEW chain \in Chains, NEW run \in SUBSET Modules, NEW st \in Stages,
         left' = [left EXCEPT ![chain] = run], stage' = [stage EXCEPT ![chain] = st],
         st = "callbacks" => run # {}, st \in {"new", "consent", "held"} => chain = 0,
         \A c \in Chains : c <= issued' => c <= issued \/ c = chain,
         startCallbacks' = "off" => stage'[0] = "new",
         stage'[0] = "held" => startCallbacks' # "resolved"
  PROVE  StageInv'
<1>1. \A c \in Chains : c # chain => stage'[c] = stage[c] /\ left'[c] = left[c]
  BY DEF ChainTypeOK
<1>2. stage'[chain] = st /\ left'[chain] = run
  BY DEF ChainTypeOK
<1>. QED  BY <1>1, <1>2 DEF StageInv

(* Its callbacks are run, or there are none.                                *)
LEMMA RunCallbacksChain ==
  ASSUME NEW chain \in Chains, NEW ms \in SUBSET Modules, NEW callbacks, NEW batches,
         RunCallbacks(chain, ms, callbacks, batches)
  PROVE  \E run \in SUBSET Modules, st \in {"callbacks", "done"} :
           /\ left' = [left EXCEPT ![chain] = run] /\ stage' = [stage EXCEPT ![chain] = st]
           /\ st = "callbacks" => run # {}
<1>. DEFINE run == ms \cap callbacks
            st == IF run = {} THEN "done" ELSE "callbacks"
<1>1. left' = [left EXCEPT ![chain] = run] /\ stage' = [stage EXCEPT ![chain] = st]
  BY DEF RunCallbacks
<1>2. run \in SUBSET Modules /\ st \in {"callbacks", "done"} /\ (st = "callbacks" => run # {})
  OBVIOUS
<1>. HIDE DEF run, st
<1>. QED  BY <1>1, <1>2

(* A refresh.                                                               *)
LEMMA RefreshWaits ==
  ASSUME IInv, StageInv, initialized, startCallbacks' = startCallbacks,
         NEW ms \in SUBSET Modules, NEW full, NEW asking, Refresh(ms, full, asking)
  PROVE  StageInv' /\ WaitersTold'
<1>. ChainTypeOK
  BY TypeParts DEF IInv
<1>. DEFINE chain == issued + 1
<1>1. issued' = chain /\ CancelDone(asking) /\ issued < MaxRefreshes
  BY DEF Refresh
<1>2. chain \in Chains /\ chain # 0 /\ chain > issued /\ issued \in Nat
      /\ \A c \in Chains : c <= chain => c <= issued \/ c = chain
  BY <1>1, ChainNumbers, UserIdAssumption DEF ChainTypeOK, UserIdAssumption
<1>3. left[chain] = {}
  BY <1>2 DEF IInv, ChainInv
<1>4. \E run \in SUBSET Modules, st \in {"failed", "callbacks", "done"} :
        /\ left' = [left EXCEPT ![chain] = run] /\ stage' = [stage EXCEPT ![chain] = st]
        /\ st = "callbacks" => run # {}
  <2>1. CASE /\ stage' = [stage EXCEPT ![chain] = "failed"] /\ UNCHANGED left
    <3>1. left' = [left EXCEPT ![chain] = {}]
      BY <1>2, <1>3, <2>1 DEF ChainTypeOK
    <3>. QED  BY <2>1, <3>1
  <2>2. ASSUME NEW ok \in SUBSET ms, NEW cbs, NEW batches, RunCallbacks(chain, ok, cbs, batches)
        PROVE  \E run \in SUBSET Modules, st \in {"callbacks", "done"} :
                 /\ left' = [left EXCEPT ![chain] = run] /\ stage' = [stage EXCEPT ![chain] = st]
                 /\ st = "callbacks" => run # {}
    <3>1. ok \in SUBSET Modules
      OBVIOUS
    <3>. HIDE DEF chain
    <3>. QED  BY <1>2, <2>2, <3>1, RunCallbacksChain
  <2>3. \/ stage' = [stage EXCEPT ![chain] = "failed"] /\ UNCHANGED left
        \/ \E ok \in SUBSET ms : \E cbs \in SUBSET ok :
             RunCallbacks(chain, ok, callback \cup cbs, supersedeAll(full) \cup {chain})
    BY DEF Refresh
  <2>. HIDE DEF chain
  <2>4. CASE stage' = [stage EXCEPT ![chain] = "failed"] /\ UNCHANGED left
    BY <2>1, <2>4
  <2>5. CASE \E ok \in SUBSET ms : \E cbs \in SUBSET ok :
               RunCallbacks(chain, ok, callback \cup cbs, supersedeAll(full) \cup {chain})
    BY <2>2, <2>5
  <2>. QED  BY <2>3, <2>4, <2>5
<1>5. WaitersTold'
  BY <1>1 DEF CancelDone, WaitersTold
<1>. HIDE DEF chain
<1>6. PICK run \in SUBSET Modules, st \in {"failed", "callbacks", "done"} :
        /\ left' = [left EXCEPT ![chain] = run] /\ stage' = [stage EXCEPT ![chain] = st]
        /\ st = "callbacks" => run # {}
  BY <1>4
<1>7. stage'[0] = stage[0] /\ st \in Stages /\ st \notin {"new", "consent", "held"}
  BY <1>2, <1>6, ChainNumbers DEF ChainTypeOK, Stages
<1>8. /\ startCallbacks' = "off" => stage'[0] = "new"
      /\ stage'[0] = "held" => startCallbacks' # "resolved"
      /\ \A c \in Chains : c <= issued' => c <= issued \/ c = chain
  BY <1>1, <1>2, <1>7 DEF StageInv
<1>9. StageInv'
  BY <1>2, <1>6, <1>7, <1>8, OneChain
<1>. QED  BY <1>5, <1>9

(* The initialization.                                                      *)
LEMMA RunInitWaits ==
  ASSUME IInv, StageInv, NEW c, NEW ms \in SUBSET Modules, NEW start \in BOOLEAN, RunInit(c, ms, start),
         inited \cup ms \subseteq Modules, issued' = issued, ~initialized,
         startCallbacks' # "off", start <=> startCallbacks' = "resolved"
  PROVE  StageInv'
<1>. ChainTypeOK
  BY TypeParts DEF IInv
<1>0. 0 \in Chains /\ left[0] = {}
  BY NothingInFlight, ChainNumbers
<1>1. PICK ok \in SUBSET ms : \E cbs \in SUBSET ok :
        /\ initSubmodules(ms, c, ok, cbs)
        /\ IF start
             THEN RunCallbacks(0, inited', callback \cup cbs, inFlight \cup {0})
             ELSE stage' = [stage EXCEPT ![0] = "held"] /\ UNCHANGED left
  BY DEF RunInit
<1>2. PICK cbs \in SUBSET ok :
        /\ initSubmodules(ms, c, ok, cbs)
        /\ IF start
             THEN RunCallbacks(0, inited', callback \cup cbs, inFlight \cup {0})
             ELSE stage' = [stage EXCEPT ![0] = "held"] /\ UNCHANGED left
  BY <1>1
<1>3. inited' \in SUBSET Modules
  BY <1>2 DEF initSubmodules
<1>4. \E run \in SUBSET Modules, st \in {"held", "callbacks", "done"} :
        /\ left' = [left EXCEPT ![0] = run] /\ stage' = [stage EXCEPT ![0] = st]
        /\ st = "callbacks" => run # {}
        /\ st = "held" => ~start
  <2>1. CASE start
    <3>1. RunCallbacks(0, inited', callback \cup cbs, inFlight \cup {0})
      BY <1>2, <2>1
    <3>2. \E run \in SUBSET Modules, st \in {"callbacks", "done"} :
            /\ left' = [left EXCEPT ![0] = run] /\ stage' = [stage EXCEPT ![0] = st]
            /\ st = "callbacks" => run # {}
      BY <1>0, <1>3, <3>1, RunCallbacksChain
    <3>. QED  BY <3>2
  <2>2. CASE ~start
    <3>1. left' = [left EXCEPT ![0] = {}] /\ stage' = [stage EXCEPT ![0] = "held"]
      BY <1>0, <1>2, <2>2 DEF ChainTypeOK
    <3>. QED  BY <2>2, <3>1
  <2>. QED  BY <2>1, <2>2
<1>5. PICK run \in SUBSET Modules, st \in {"held", "callbacks", "done"} :
        /\ left' = [left EXCEPT ![0] = run] /\ stage' = [stage EXCEPT ![0] = st]
        /\ st = "callbacks" => run # {}
        /\ st = "held" => ~start
  BY <1>4
<1>6. stage'[0] = st /\ st \in Stages
  BY <1>0, <1>5 DEF ChainTypeOK, Stages
<1>. QED  BY <1>0, <1>5, <1>6, OneChain

(* The initialization that is let down, or waits for consent.               *)
LEMMA UnstartedWaits ==
  ASSUME IInv, StageInv, ~initialized, issued' = issued, UNCHANGED left,
         NEW st \in {"consent", "failed"}, stage' = [stage EXCEPT ![0] = st], startCallbacks' # "off"
  PROVE  StageInv'
<1>. ChainTypeOK
  BY TypeParts DEF IInv
<1>0. 0 \in Chains /\ left[0] = {}
  BY NothingInFlight, ChainNumbers
<1>1. left' = [left EXCEPT ![0] = {}] /\ stage'[0] = st /\ st \in Stages
  BY <1>0 DEF ChainTypeOK, Stages
<1>. QED  BY <1>0, <1>1, OneChain

(* Nothing settles done, and who asks for the ids is told whether it has    *)
(* settled.                                                                 *)
LEMMA AskingWaits ==
  ASSUME IInv, WaitInv, UNCHANGED chainVars, startCallbacks' = startCallbacks,
         NEW w \in Waiters, NEW out, waiter' = [waiter EXCEPT ![w] = out], out \in {Outcome, "timedout"}
  PROVE  WaitInv'
<1>. waiter \in [Waiters -> States]
  BY TypeParts DEF IInv
<1>1. Outcome' = Outcome
  BY DEF Outcome, Fulfilled, Failed, chainVars
<1>2. WaitersTold'
  BY <1>1 DEF WaitInv, WaitersTold
<1>3. StageInv'
  BY DEF WaitInv, StageInv, chainVars
<1>. QED  BY <1>2, <1>3 DEF WaitInv

LEMMA ConfigureWaits ==
  ASSUME IInv, WaitInv, NEW ms \in SUBSET Modules, Configure(ms)
  PROVE  WaitInv'
<1>. SubmoduleTypeOK /\ ChainTypeOK /\ auctionDelay \in BOOLEAN /\ StageInv
     /\ consent \in Given \cup {"pending", "failed"}
  BY TypeParts DEF IInv, WaitInv
<1>1. CASE initialized
  <2>1. Refresh(ms, FALSE, {}) /\ startCallbacks' = startCallbacks
    BY <1>1 DEF Configure
  <2>. QED  BY <1>1, <2>1, RefreshWaits DEF WaitInv
<1>2. CASE ~initialized /\ stage[0] = "new"
  <2>1. /\ startCallbacks' = IF auctionDelay THEN "resolved" ELSE "listening"
        /\ issued' = issued /\ SettleDone
    BY <1>2 DEF Configure
  <2>2. WaitersTold'
    BY <2>1 DEF SettleDone, WaitersTold
  <2>3. startCallbacks' # "off" /\ (auctionDelay <=> startCallbacks' = "resolved")
    BY <2>1
  <2>4. CASE consent = "pending"
    <3>1. stage' = [stage EXCEPT ![0] = "consent"] /\ UNCHANGED left
      BY <1>2, <2>4 DEF Configure
    <3>. QED  BY <1>2, <2>1, <2>2, <2>3, <3>1, UnstartedWaits DEF WaitInv
  <2>5. CASE consent = "failed"
    <3>1. stage' = [stage EXCEPT ![0] = "failed"] /\ UNCHANGED left
      BY <1>2, <2>5 DEF Configure, FailInit
    <3>. QED  BY <1>2, <2>1, <2>2, <2>3, <3>1, UnstartedWaits DEF WaitInv
  <2>6. CASE consent \in Given
    <3>1. RunInit(consent, ms, auctionDelay)
      BY <1>2, <2>6, UserIdAssumption DEF Configure, UserIdAssumption
    <3>2. inited \cup ms \subseteq Modules
      BY DEF SubmoduleTypeOK
    <3>. QED  BY <1>2, <2>1, <2>2, <2>3, <3>1, <3>2, RunInitWaits DEF WaitInv
  <2>. QED  BY <2>4, <2>5, <2>6
<1>3. CASE ~initialized /\ stage[0] # "new"
  <2>1. UNCHANGED <<startCallbacks, chainVars, waiter>>
    BY <1>3 DEF Configure
  <2>. QED  BY <2>1 DEF WaitInv, StageInv, WaitersTold, Outcome, Fulfilled, Failed, chainVars
<1>. QED  BY <1>1, <1>2, <1>3

LEMMA ConsentWaits ==
  ASSUME IInv, WaitInv, NEW c \in Given \cup {"failed"}, Consent(c)
  PROVE  WaitInv'
<1>. SubmoduleTypeOK /\ ChainTypeOK /\ StageInv
     /\ startCallbacks \in {"off", "listening", "timed", "resolved"}
  BY TypeParts DEF IInv, WaitInv
<1>1. SettleDone /\ issued' = issued /\ startCallbacks' = startCallbacks
  BY DEF Consent
<1>2. WaitersTold'
  BY <1>1 DEF SettleDone, WaitersTold
<1>3. CASE stage[0] = "consent"
  <2>1. ~initialized /\ startCallbacks' # "off"
    BY <1>1, <1>3 DEF IInv, SystemInv, StageInv
  <2>2. CASE c = "failed"
    <3>1. stage' = [stage EXCEPT ![0] = "failed"] /\ UNCHANGED left
      BY <1>3, <2>2 DEF Consent, FailInit
    <3>. QED  BY <1>1, <1>2, <2>1, <3>1, UnstartedWaits DEF WaitInv
  <2>3. CASE c # "failed"
    <3>1. RunInit(c, configured, startCallbacks = "resolved")
      BY <1>3, <2>3 DEF Consent
    <3>2. inited \cup configured \subseteq Modules
      BY DEF SubmoduleTypeOK
    <3>3. (startCallbacks = "resolved") \in BOOLEAN
      OBVIOUS
    <3>. QED  BY <1>1, <1>2, <2>1, <3>1, <3>2, <3>3, RunInitWaits DEF WaitInv
  <2>. QED  BY <2>2, <2>3
<1>4. CASE stage[0] # "consent"
  <2>1. UNCHANGED <<stage, left>>
    BY <1>4 DEF Consent
  <2>. QED  BY <1>1, <1>2, <2>1 DEF WaitInv, StageInv
<1>. QED  BY <1>3, <1>4

LEMMA SyncDelayWaits ==
  ASSUME IInv, WaitInv, SyncDelayOver
  PROVE  WaitInv'
<1>. SubmoduleTypeOK /\ ChainTypeOK /\ StageInv
  BY TypeParts DEF IInv, WaitInv
<1>1. startCallbacks' = "resolved" /\ issued' = issued
  BY DEF SyncDelayOver
<1>2. CASE stage[0] = "held"
  <2>1. RunCallbacks(0, inited, callback, inFlight) /\ SettleDone
    BY <1>2 DEF SyncDelayOver
  <2>2. 0 \in Chains /\ inited \in SUBSET Modules
    BY ChainNumbers DEF SubmoduleTypeOK
  <2>3. PICK run \in SUBSET Modules, st \in {"callbacks", "done"} :
          /\ left' = [left EXCEPT ![0] = run] /\ stage' = [stage EXCEPT ![0] = st]
          /\ st = "callbacks" => run # {}
    BY <2>1, <2>2, RunCallbacksChain
  <2>4. stage'[0] = st /\ st \in Stages
    BY <2>2, <2>3 DEF ChainTypeOK, Stages
  <2>5. StageInv'
    BY <1>1, <2>2, <2>3, <2>4, OneChain
  <2>6. WaitersTold'
    BY <2>1 DEF SettleDone, WaitersTold
  <2>. QED  BY <2>5, <2>6 DEF WaitInv
<1>3. CASE stage[0] # "held"
  <2>1. UNCHANGED <<callback, left, stage, inFlight, waiter, issued, prior>>
    BY <1>3 DEF SyncDelayOver
  <2>2. Outcome' = Outcome
    BY <2>1 DEF Outcome, Fulfilled, Failed
  <2>. QED  BY <1>1, <1>3, <2>1, <2>2 DEF WaitInv, StageInv, WaitersTold
<1>. QED  BY <1>2, <1>3

LEMMA CallBackWaits ==
  ASSUME IInv, WaitInv, NEW chain \in Chains, NEW m \in Modules, CallBack(chain, m)
  PROVE  WaitInv'
<1>. ChainTypeOK /\ StageInv
  BY TypeParts DEF IInv, WaitInv
<1>1. /\ m \in left[chain] /\ left' = [left EXCEPT ![chain] = left[chain] \ {m}]
      /\ UNCHANGED <<startCallbacks, issued>> /\ SettleDone
  BY DEF CallBack
<1>2. stage[chain] = "callbacks"
  BY <1>1 DEF IInv, ChainInv
<1>3. \/ left[chain] = {m} /\ stage' = [stage EXCEPT ![chain] = "done"]
      \/ left[chain] # {m} /\ stage' = [stage EXCEPT ![chain] = "callbacks"]
  BY <1>2 DEF CallBack, ChainTypeOK
<1>4. PICK st \in {"callbacks", "done"} :
        stage' = [stage EXCEPT ![chain] = st] /\ (st = "callbacks" => left[chain] \ {m} # {})
  BY <1>1, <1>3
<1>5. stage'[0] \in {stage[0], st} /\ (stage'[0] = "new" <=> stage[0] = "new")
      /\ (stage'[0] = "held" => stage[0] = "held")
  BY <1>2, <1>4, ChainNumbers DEF ChainTypeOK
<1>6. left[chain] \ {m} \in SUBSET Modules /\ st \in Stages
  BY DEF ChainTypeOK, Stages
<1>7. /\ startCallbacks' = "off" => stage'[0] = "new"
      /\ stage'[0] = "held" => startCallbacks' # "resolved"
  BY <1>1, <1>5 DEF StageInv
<1>8. StageInv'
  BY <1>1, <1>4, <1>6, <1>7, OneChain
<1>9. WaitersTold'
  BY <1>1 DEF SettleDone, WaitersTold
<1>. QED  BY <1>8, <1>9 DEF WaitInv

LEMMA NextWaits ==
  ASSUME IInv, WaitInv, [Next]_vars
  PROVE  WaitInv'
<1>. configured \subseteq Modules /\ StageInv /\ Callers \subseteq Waiters /\ Auctions \subseteq Waiters
  BY TypeParts DEF IInv, SubmoduleTypeOK, WaitInv, Waiters
<1>1. CASE \E ms \in SUBSET Modules : Configure(ms)
  BY <1>1, ConfigureWaits
<1>2. CASE \E c \in Given \cup {"failed"} : Consent(c)
  BY <1>2, ConsentWaits
<1>3. ASSUME UNCHANGED <<startCallbacks, chainVars, waiter>>
      PROVE  WaitInv'
  BY <1>3 DEF WaitInv, StageInv, WaitersTold, Outcome, Fulfilled, Failed, chainVars
<1>4. CASE Notify
  <2>1. startCallbacks' = startCallbacks /\ configured \in SUBSET Modules
    BY <1>4 DEF Notify
  <2>2. CASE initialized
    <3>1. Refresh(configured, TRUE, {})
      BY <1>4, <2>2 DEF Notify
    <3>. QED  BY <2>1, <2>2, <3>1, RefreshWaits DEF WaitInv
  <2>3. CASE ~initialized
    <3>1. UNCHANGED <<startCallbacks, chainVars, waiter>>
      BY <1>4, <2>3 DEF Notify
    <3>. QED  BY <1>3, <3>1
  <2>. QED  BY <2>2, <2>3
<1>5. ASSUME NEW w \in Waiters, getUserIdsAsync(w) \/ Retry(w)
      PROVE  WaitInv'
  BY <1>5, AskingWaits DEF getUserIdsAsync, Retry
<1>6. ASSUME NEW w \in Waiters, NEW ms \in SUBSET configured, NEW full \in BOOLEAN, refreshUserIds(w, ms, full)
      PROVE  WaitInv'
  <2>1. CASE initialized
    <3>1. Refresh(ms, full, {w}) /\ startCallbacks' = startCallbacks /\ ms \in SUBSET Modules
      BY <1>6, <2>1 DEF refreshUserIds
    <3>. QED  BY <2>1, <3>1, RefreshWaits DEF WaitInv
  <2>2. CASE ~initialized
    <3>1. waiter' = [waiter EXCEPT ![w] = Outcome] /\ UNCHANGED <<startCallbacks, chainVars>>
      BY <1>6, <2>2 DEF refreshUserIds
    <3>. QED  BY <3>1, AskingWaits
  <2>. QED  BY <2>1, <2>2
<1>7. ASSUME NEW w \in Auctions, Auction(w) \/ DelayOver(w)
      PROVE  WaitInv'
  BY <1>7, AskingWaits DEF Auction, DelayOver
<1>8. CASE AuctionEnd
  <2>1. startCallbacks = "listening" /\ startCallbacks' = "timed" /\ UNCHANGED <<chainVars, waiter>>
    BY <1>8 DEF AuctionEnd
  <2>2. Outcome' = Outcome
    BY <2>1 DEF Outcome, Fulfilled, Failed, chainVars
  <2>. QED  BY <2>1, <2>2 DEF WaitInv, StageInv, WaitersTold, chainVars
<1>9. CASE SyncDelayOver
  BY <1>9, SyncDelayWaits
<1>10. CASE \E chain \in Chains, m \in Modules : CallBack(chain, m)
  BY <1>10, CallBackWaits
<1>11. CASE UNCHANGED vars
  BY <1>3, <1>11 DEF vars
<1>. QED
  BY <1>1, <1>2, <1>4, <1>5, <1>6, <1>7, <1>8, <1>9, <1>10, <1>11 DEF Next

(* Whoever waits for the ids waits for something that can still come: a     *)
(* done never outlives what it waits for, however refreshes replace one     *)
(* another and whenever submodules call back, consent is given or fails and *)
(* the auctions end.                                                        *)
THEOREM AlwaysWaitsForSomething == Spec => []WaitsForSomething
<1>1. Init => WaitInv
  BY ChainNumbers DEF Init, WaitInv, StageInv, WaitersTold
<1>2. IInv /\ WaitInv => WaitsForSomething
  BY SomethingToWaitFor DEF WaitInv, WaitersTold, WaitsForSomething
<1>. QED  BY <1>1, <1>2, NextWaits, Invariance, PTL DEF Spec
=============================================================================
