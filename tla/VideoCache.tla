----------------------------- MODULE VideoCache -----------------------------
(***************************************************************************)
(* How video bids get a cache key before they join their auction:          *)
(* src/videoCache.ts. Bids are collected in batches, for batchTimeout or   *)
(* not at all, and each batch is one request to the cache server, which    *)
(* answers with an id for each of its bids, in their order.                *)
(*                                                                         *)
(* Abstracted: the payload, the VAST wrapper and the urls; an id is the bid *)
(* it was issued for. The ajax timeout makes every request answered.       *)
(***************************************************************************)
EXTENDS Naturals, Sequences

CONSTANTS
  Bids,
  MaxBatch,   \* the largest batchSize that is configured
  None

ASSUME VideoCacheAssumption == MaxBatch \in Nat \ {0} /\ None \notin Bids

VARIABLES
  batchSize, batchTimeout,  \* the latter: whether there is one
  batches, debouncing,
  timer,                    \* of the batches
  requests,                 \* batches the server has not answered yet
  outcome,                  \* of each bid: "new", "waiting", "added", "discarded"
  answers,                  \* how often afterBidAdded was called for it
  videoCacheKey,
  threw                     \* a request could not be made

config == <<batchSize, batchTimeout>>
results == <<outcome, answers, videoCacheKey>>
vars == <<config, batches, debouncing, timer, requests, results, threw>>

TypeOK ==
  /\ batchSize \in 1 .. MaxBatch /\ batchTimeout \in BOOLEAN
  /\ batches \in Seq(Seq(Bids)) /\ batches # <<>> /\ requests \in Seq(Seq(Bids))
  /\ {debouncing, timer, threw} \subseteq BOOLEAN
  /\ outcome \in [Bids -> {"new", "waiting", "added", "discarded"}]
  /\ answers \in [Bids -> Nat]
  /\ videoCacheKey \in [Bids -> Bids \cup {None}]

Init ==
  /\ batchSize = 1 /\ batchTimeout = FALSE
  /\ batches = << <<>> >> /\ debouncing = FALSE /\ timer = FALSE /\ requests = <<>>
  /\ outcome = [b \in Bids |-> "new"]
  /\ answers = [b \in Bids |-> 0]
  /\ videoCacheKey = [b \in Bids |-> None]
  /\ threw = FALSE

BidsOf(batch) == {batch[i] : i \in DOMAIN batch}
Requested == UNION {BidsOf(requests[i]) : i \in DOMAIN requests}
Collected == UNION {BidsOf(batches[i]) : i \in DOMAIN batches}

-----------------------------------------------------------------------------
(* The page configures the cache, with bids in the batches or not. *)
Configure ==
  /\ batchSize' \in 1 .. MaxBatch /\ batchTimeout' \in BOOLEAN
  /\ UNCHANGED <<batches, debouncing, timer, requests, results, threw>>

(* handleVideoBidCaching of a bid that needs no cache or cannot use it, or *)
(* that is stored in the page.                                             *)
AddDirectly(b) ==
  /\ outcome[b] = "new"
  /\ \E how \in {"added", "discarded"} : outcome' = [outcome EXCEPT ![b] = how]
  /\ answers' = [answers EXCEPT ![b] = @ + 1]
  /\ UNCHANGED <<config, batches, debouncing, timer, requests, videoCacheKey, threw>>

\* Faulty: the batches are kept after they have been sent.
keepBatches(sent) == sent
emptyBatches(sent) == << <<>> >>

\* Faulty: the cache goes on waiting.
stillDebouncing == TRUE
notDebouncing == FALSE

(* The callback of the timer, with the batches there are: all of them are  *)
(* sent, or the request for one throws and it ends there.                  *)
Dispatch(all) ==
  /\ timer' = FALSE
  /\ \/ /\ requests' = requests \o all
        /\ batches' = emptyBatches(all)
        /\ debouncing' = notDebouncing
        /\ UNCHANGED threw
     \/ \E i \in 1 .. Len(all) :
          /\ requests' = requests \o SubSeq(all, 1, i - 1)
          /\ batches' = all
          /\ debouncing' = TRUE
          /\ threw' = TRUE

\* Faulty: the bids of a full batch are let go.
pushOver(b) ==
  LET last == Len(batches) IN
  [batches EXCEPT ![last] = IF Len(@) >= batchSize THEN <<b>> ELSE Append(@, b)]
Push(b) ==
  LET last == Len(batches) IN
  IF Len(batches[last]) >= batchSize
    THEN Append(batches, <<b>>)
    ELSE [batches EXCEPT ![last] = Append(@, b)]

(* The function that batchingCache returns. *)
BatchAndStore(b) ==
  /\ outcome[b] = "new"
  /\ outcome' = [outcome EXCEPT ![b] = "waiting"]
  /\ IF debouncing \/ batchTimeout
       THEN /\ batches' = Push(b)
            /\ debouncing' = TRUE
            /\ timer' = (timer \/ ~debouncing)
            /\ UNCHANGED <<requests, threw>>
       ELSE Dispatch(Push(b))
  /\ UNCHANGED <<config, answers, videoCacheKey>>

TimerFires ==
  /\ timer
  /\ Dispatch(batches)
  /\ UNCHANGED <<config, results>>

-----------------------------------------------------------------------------
(* The server answers for the bids at some places of the batch, in their   *)
(* order, and gives an id for those it has accepted.                       *)
Places(batch, n) ==
  {f \in [1 .. n -> DOMAIN batch] : \A i, j \in 1 .. n : i < j => f[i] < f[j]}
CacheIds(batch, places, accepted) ==
  [i \in DOMAIN places |-> IF batch[places[i]] \in accepted THEN batch[places[i]] ELSE None]

wrongNumber(batch, cacheIds) == Len(batch) # Len(cacheIds)

\* Faulty: bids without a key are forgotten.
answeredWithKey(done, ok) == ok
answered(done, ok) == done

(* The bids done are answered for; those that have a key join the auction. *)
Finish(done, keys) ==
  LET ok == DOMAIN keys
      told == answered(done, ok) IN
  /\ outcome' = [b \in Bids |-> IF b \in ok THEN "added"
                                ELSE IF b \in told THEN "discarded" ELSE outcome[b]]
  /\ answers' = [b \in Bids |-> IF b \in told THEN answers[b] + 1 ELSE answers[b]]
  /\ videoCacheKey' = [b \in Bids |-> IF b \in ok THEN keys[b] ELSE videoCacheKey[b]]

NoKeys == [b \in {} |-> None]

(* The callback that storeBatch gives to store. *)
Answer(r) ==
  LET batch == requests[r]
      position(b) == CHOOSE i \in DOMAIN batch : batch[i] = b
  IN
  /\ requests' = SubSeq(requests, 1, r - 1) \o SubSeq(requests, r + 1, Len(requests))
  /\ \/ Finish(BidsOf(batch), NoKeys)
     \/ \E n \in 0 .. Len(batch), accepted \in SUBSET BidsOf(batch) :
        \E places \in Places(batch, n) :
          LET cacheIds == CacheIds(batch, places, accepted)
              ok == {batch[i] : i \in {j \in DOMAIN cacheIds : cacheIds[j] # None}} IN
          IF wrongNumber(batch, cacheIds)
            THEN Finish(BidsOf(batch), NoKeys)
            ELSE Finish({batch[i] : i \in DOMAIN cacheIds}, [b \in ok |-> cacheIds[position(b)]])
  /\ UNCHANGED <<config, batches, debouncing, timer, threw>>

Next ==
  \/ Configure
  \/ \E b \in Bids : AddDirectly(b) \/ BatchAndStore(b)
  \/ TimerFires
  \/ \E r \in DOMAIN requests : Answer(r)

Spec == Init /\ [][Next]_vars

(* The timer fires and the server answers or the ajax call times out. *)
FairSpec ==
  Spec /\ WF_vars(TimerFires) /\ WF_vars(\E r \in DOMAIN requests : Answer(r))

-----------------------------------------------------------------------------
(* afterBidAdded is called once for each bid and never again: a bid is in  *)
(* one batch, the batch is sent once, and it gets one answer. Twice, and   *)
(* its auction would close on a bid it still waits for.                    *)
AnsweredOnce ==
  \A b \in Bids : answers[b] = IF outcome[b] \in {"added", "discarded"} THEN 1 ELSE 0

(* No bid joins the auction with the cache key of another. *)
OwnKey == \A b \in Bids : videoCacheKey[b] \in {None, b}

(* Bids in the batches have a timer, until a request throws: from then on  *)
(* none has, as the cache goes on debouncing for good.                     *)
BatchesTimed == Collected # {} => debouncing /\ (timer \/ threw)

(* Seen from a bid, all of this is CachePromise: it is stored as if by      *)
(* itself, however batches are filled, sent, answered and thrown off.       *)
stageOf(b) ==
  IF outcome[b] # "waiting" THEN outcome[b]
  ELSE IF b \in Requested THEN "sent"
  ELSE IF b \in Collected THEN "held" ELSE "lost"

Promise == INSTANCE CachePromise WITH
  stage <- [b \in Bids |-> stageOf(b)], key <- videoCacheKey
StoresEach == Promise!Spec

(* Every bid is answered for in the end, so that its auction need not time *)
(* out; the only ones that are not are those left behind by a throw.       *)
LeftBehind == threw /\ debouncing /\ ~timer
EachAnswered ==
  \A b \in Bids :
    outcome[b] = "waiting" ~> outcome[b] # "waiting" \/ (LeftBehind /\ b \in Collected)
=============================================================================
