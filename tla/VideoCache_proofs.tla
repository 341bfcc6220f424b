-------------------------- MODULE VideoCache_proofs --------------------------
(***************************************************************************)
(* Theorems about VideoCache: the bids whose VAST is stored on a server,   *)
(* and about BidCache: those that stay, with their blob, in the page.      *)
(***************************************************************************)
EXTENDS VideoCache, BidCache, SequenceTheorems, FiniteSetTheorems, WellFoundedInduction, TLAPS

Outcomes == {"new", "waiting", "added", "discarded"}
Batches == Seq(Seq(Bids))

\* A batch of s has the bid; no bid is in two of them.
In(b, s) == \E i \in DOMAIN s : b \in BidsOf(s[i])
Apart(s) == \A i, j \in DOMAIN s : i # j => BidsOf(s[i]) \cap BidsOf(s[j]) = {}

\* The cache will never send a batch again.
Stuck == debouncing /\ ~timer

Types ==
  /\ batches \in Batches /\ batches # <<>> /\ requests \in Batches
  /\ debouncing \in BOOLEAN /\ timer \in BOOLEAN /\ threw \in BOOLEAN
  /\ outcome \in [Bids -> Outcomes] /\ answers \in [Bids -> Nat]

\* A bid is in one batch, and its batch is still to be sent or has been sent,
\* once, and not been answered.
InOneBatch ==
  /\ Apart(batches) /\ Apart(requests)
  /\ \A b \in Bids : In(b, requests) => outcome[b] = "waiting"
  /\ \A b \in Bids : In(b, batches) => outcome[b] # "new"
  /\ ~Stuck => \A b \in Bids : In(b, batches) => outcome[b] = "waiting" /\ ~In(b, requests)

\* The timer belongs to the batches.
Timed ==
  /\ (\E b \in Bids : In(b, batches)) => debouncing
  /\ debouncing => timer \/ threw
  /\ timer => debouncing

IInv == Types /\ InOneBatch /\ Timed /\ AnsweredOnce

-----------------------------------------------------------------------------
(* Where the bids of a sequence of batches are when a batch is added, when *)
(* two sequences are joined, and when a part of one is taken.              *)
LEMMA SeqParts ==
  ASSUME NEW S, NEW s \in Seq(S)
  PROVE  Len(s) \in Nat /\ DOMAIN s = 1 .. Len(s) /\ \A i \in DOMAIN s : s[i] \in S
BY LenProperties, ElementOfSeq

LEMMA BatchBids ==
  ASSUME NEW batch \in Seq(Bids)
  PROVE  BidsOf(batch) \subseteq Bids
BY SeqParts DEF BidsOf

LEMMA AppendedBatch ==
  ASSUME NEW s \in Batches, NEW batch \in Seq(Bids)
  PROVE  /\ Append(s, batch) \in Batches /\ Append(s, batch) # <<>>
         /\ \A b \in Bids : In(b, Append(s, batch)) <=> In(b, s) \/ b \in BidsOf(batch)
         /\ Apart(s) /\ (\A b \in Bids : In(b, s) => b \notin BidsOf(batch)) => Apart(Append(s, batch))
<1>. DEFINE t == Append(s, batch)
            n == Len(s)
<1>1. n \in Nat /\ DOMAIN s = 1 .. n /\ \A i \in 1 .. n : s[i] \in Seq(Bids)
  BY SeqParts DEF Batches
<1>2. t \in Batches /\ Len(t) = n + 1 /\ (\A i \in 1 .. n : t[i] = s[i]) /\ t[n + 1] = batch
  BY AppendProperties DEF Batches
<1>3. DOMAIN t = 1 .. (n + 1) /\ t # <<>>
  BY <1>1, <1>2, SeqParts DEF Batches
<1>. HIDE DEF t, n
<1>4. \A i : i \in 1 .. (n + 1) <=> i \in 1 .. n \/ i = n + 1
  BY <1>1
<1>5. n + 1 \notin 1 .. n
  BY <1>1
<1>6. \A b \in Bids : In(b, t) <=> In(b, s) \/ b \in BidsOf(batch)
  BY <1>1, <1>2, <1>3, <1>4 DEF In
<1>7. ASSUME Apart(s), \A b \in Bids : In(b, s) => b \notin BidsOf(batch)
      PROVE  Apart(t)
  <2>. SUFFICES ASSUME NEW i \in 1 .. (n + 1), NEW j \in 1 .. (n + 1), i # j
                PROVE  BidsOf(t[i]) \cap BidsOf(t[j]) = {}
    BY <1>3 DEF Apart
  <2>1. \A k \in 1 .. n : BidsOf(s[k]) \subseteq Bids /\ BidsOf(s[k]) \cap BidsOf(batch) = {}
    BY <1>1, <1>7, BatchBids DEF In
  <2>2. \A k, l \in 1 .. n : k # l => BidsOf(s[k]) \cap BidsOf(s[l]) = {}
    BY <1>1, <1>7 DEF Apart
  <2>. QED  BY <1>2, <1>4, <2>1, <2>2
<1>. QED  BY <1>2, <1>3, <1>6, <1>7 DEF t

LEMMA JoinedBatches ==
  ASSUME NEW s \in Batches, NEW t \in Batches
  PROVE  /\ s \o t \in Batches
         /\ \A b : In(b, s \o t) <=> In(b, s) \/ In(b, t)
         /\ Apart(s) /\ Apart(t) /\ (\A b \in Bids : ~In(b, s) \/ ~In(b, t)) => Apart(s \o t)
<1>. DEFINE u == s \o t
            n == Len(s)
            m == Len(t)
<1>1. /\ n \in Nat /\ DOMAIN s = 1 .. n /\ \A i \in 1 .. n : s[i] \in Seq(Bids)
      /\ m \in Nat /\ DOMAIN t = 1 .. m /\ \A i \in 1 .. m : t[i] \in Seq(Bids)
  BY SeqParts DEF Batches
<1>2. /\ u \in Batches /\ Len(u) = n + m
      /\ \A i \in 1 .. (n + m) : u[i] = IF i <= n THEN s[i] ELSE t[i - n]
  BY ConcatProperties DEF Batches
<1>3. DOMAIN u = 1 .. (n + m)
  BY <1>2, SeqParts DEF Batches
<1>. HIDE DEF u, n, m
<1>4. /\ \A i \in 1 .. (n + m) : (i \in 1 .. n /\ u[i] = s[i]) \/ (i - n \in 1 .. m /\ u[i] = t[i - n])
      /\ \A i \in 1 .. n : i \in 1 .. (n + m) /\ u[i] = s[i]
      /\ \A i \in 1 .. m : i + n \in 1 .. (n + m) /\ u[i + n] = t[i]
  <2>1. /\ \A i \in 1 .. (n + m) : (i <= n => i \in 1 .. n) /\ (~(i <= n) => i - n \in 1 .. m)
        /\ \A i \in 1 .. n : i \in 1 .. (n + m) /\ i <= n
        /\ \A i \in 1 .. m : i + n \in 1 .. (n + m) /\ ~(i + n <= n) /\ (i + n) - n = i
    BY <1>1
  <2>2. \A i \in 1 .. (n + m) : (i \in 1 .. n /\ u[i] = s[i]) \/ (i - n \in 1 .. m /\ u[i] = t[i - n])
    <3>. SUFFICES ASSUME NEW i \in 1 .. (n + m)
                  PROVE  (i \in 1 .. n /\ u[i] = s[i]) \/ (i - n \in 1 .. m /\ u[i] = t[i - n])
      OBVIOUS
    <3>1. u[i] = IF i <= n THEN s[i] ELSE t[i - n]
      BY <1>2
    <3>2. CASE i <= n
      <4>1. u[i] = s[i]
        BY <3>1, <3>2
      <4>2. i \in 1 .. n
        BY <1>1, <3>2
      <4>. QED  BY <4>1, <4>2
    <3>3. CASE ~(i <= n)
      <4>1. u[i] = t[i - n] /\ i - n \in 1 .. m
        BY <2>1, <3>1, <3>3
      <4>. QED  BY <4>1
    <3>. QED  BY <3>2, <3>3
  <2>3. \A i \in 1 .. n : i \in 1 .. (n + m) /\ u[i] = s[i]
    BY <1>2, <2>1
  <2>4. \A i \in 1 .. m : i + n \in 1 .. (n + m) /\ u[i + n] = t[i]
    BY <1>2, <2>1
  <2>. QED  BY <2>2, <2>3, <2>4
<1>5. \A b : In(b, u) <=> In(b, s) \/ In(b, t)
  BY <1>1, <1>3, <1>4 DEF In
<1>6. ASSUME Apart(s), Apart(t), \A b \in Bids : ~In(b, s) \/ ~In(b, t)
      PROVE  Apart(u)
  <2>. SUFFICES ASSUME NEW i \in 1 .. (n + m), NEW j \in 1 .. (n + m), i # j
                PROVE  BidsOf(u[i]) \cap BidsOf(u[j]) = {}
    BY <1>3 DEF Apart
  <2>1. \A k \in 1 .. n, l \in 1 .. m : BidsOf(s[k]) \cap BidsOf(t[l]) = {}
    BY <1>1, <1>6, BatchBids DEF In
  <2>2. \A k, l \in 1 .. n : k # l => BidsOf(s[k]) \cap BidsOf(s[l]) = {}
    BY <1>1, <1>6 DEF Apart
  <2>3. \A k, l \in 1 .. m : k # l => BidsOf(t[k]) \cap BidsOf(t[l]) = {}
    BY <1>1, <1>6 DEF Apart
  <2>4. i - n # j - n
    BY <1>1
  <2>5. CASE i \in 1 .. n /\ u[i] = s[i]
    <3>1. CASE j \in 1 .. n /\ u[j] = s[j]
      BY <2>2, <2>5, <3>1
    <3>2. CASE j - n \in 1 .. m /\ u[j] = t[j - n]
      BY <2>1, <2>5, <3>2
    <3>. QED  BY <1>4, <3>1, <3>2
  <2>6. CASE i - n \in 1 .. m /\ u[i] = t[i - n]
    <3>1. CASE j \in 1 .. n /\ u[j] = s[j]
      BY <2>1, <2>6, <3>1
    <3>2. CASE j - n \in 1 .. m /\ u[j] = t[j - n]
      BY <2>3, <2>4, <2>6, <3>2
    <3>. QED  BY <1>4, <3>1, <3>2
  <2>. QED  BY <1>4, <2>5, <2>6
<1>. QED  BY <1>2, <1>5, <1>6 DEF u

LEMMA PartOfBatches ==
  ASSUME NEW s \in Batches, NEW k \in Nat, NEW l \in Nat, k >= 1, l <= Len(s)
  PROVE  /\ SubSeq(s, k, l) \in Batches
         /\ \A b : In(b, SubSeq(s, k, l)) <=> \E i \in k .. l : b \in BidsOf(s[i])
         /\ Apart(s) => Apart(SubSeq(s, k, l))
<1>. DEFINE t == SubSeq(s, k, l)
            n == Len(s)
<1>1. n \in Nat /\ DOMAIN s = 1 .. n /\ \A i \in 1 .. n : s[i] \in Seq(Bids)
  BY SeqParts DEF Batches
<1>2. \A i \in k .. l : i \in 1 .. n /\ s[i] \in Seq(Bids)
  <2>1. \A i \in k .. l : i \in 1 .. n
    BY <1>1
  <2>. QED  BY <1>1, <2>1
<1>3. /\ t \in Seq(Seq(Bids)) /\ Len(t) = (IF k <= l THEN l - k + 1 ELSE 0)
      /\ \A i \in 1 .. (l - k + 1) : t[i] = s[k + i - 1]
  BY <1>2, SubSeqProperties
<1>4. DOMAIN t = 1 .. (l - k + 1)
  <2>1. DOMAIN t = 1 .. Len(t)
    BY <1>3, LenProperties
  <2>2. k <= l \/ 1 .. (l - k + 1) = 1 .. 0
    OBVIOUS
  <2>. QED  BY <1>3, <2>1, <2>2
<1>. HIDE DEF t, n
<1>5. /\ \A i \in 1 .. (l - k + 1) : k + i - 1 \in k .. l
      /\ \A i \in k .. l : i - k + 1 \in 1 .. (l - k + 1) /\ k + (i - k + 1) - 1 = i
      /\ \A i, j \in 1 .. (l - k + 1) : i # j => k + i - 1 # k + j - 1
  OBVIOUS
<1>6. \A b : In(b, t) <=> \E i \in k .. l : b \in BidsOf(s[i])
  BY <1>3, <1>4, <1>5 DEF In
<1>7. ASSUME Apart(s)
      PROVE  Apart(t)
  <2>. SUFFICES ASSUME NEW i \in 1 .. (l - k + 1), NEW j \in 1 .. (l - k + 1), i # j
                PROVE  BidsOf(t[i]) \cap BidsOf(t[j]) = {}
    BY <1>4 DEF Apart
  <2>1. PICK v \in 1 .. n : v = k + i - 1
    BY <1>2, <1>5
  <2>2. PICK w \in 1 .. n : w = k + j - 1
    BY <1>2, <1>5
  <2>3. v # w /\ t[i] = s[v] /\ t[j] = s[w]
    BY <1>3, <1>5, <2>1, <2>2
  <2>. QED  BY <1>1, <1>7, <2>3 DEF Apart
<1>. QED  BY <1>3, <1>6, <1>7 DEF t, Batches

(* A bid joins a batch.                                                    *)
LEMMA AppendedBid ==
  ASSUME NEW batch \in Seq(Bids), NEW b \in Bids
  PROVE  Append(batch, b) \in Seq(Bids) /\ BidsOf(Append(batch, b)) = BidsOf(batch) \cup {b}
<1>. DEFINE t == Append(batch, b)
            n == Len(batch)
<1>1. n \in Nat /\ DOMAIN batch = 1 .. n
  BY SeqParts
<1>2. t \in Seq(Bids) /\ Len(t) = n + 1 /\ (\A i \in 1 .. n : t[i] = batch[i]) /\ t[n + 1] = b
  BY AppendProperties
<1>3. DOMAIN t = 1 .. (n + 1)
  BY <1>2, SeqParts
<1>. HIDE DEF t, n
<1>4. \A i : i \in 1 .. (n + 1) <=> i \in 1 .. n \/ i = n + 1
  BY <1>1
<1>5. BidsOf(t) = BidsOf(batch) \cup {b}
  BY <1>1, <1>2, <1>3, <1>4 DEF BidsOf
<1>. QED  BY <1>2, <1>5 DEF t

LEMMA Pushed ==
  ASSUME batches \in Batches, batches # <<>>, Apart(batches), NEW b \in Bids, ~In(b, batches)
  PROVE  /\ Push(b) \in Batches /\ Push(b) # <<>> /\ Apart(Push(b))
         /\ \A d \in Bids : In(d, Push(b)) <=> In(d, batches) \/ d = b
<1>. DEFINE n == Len(batches)
            old == batches[n]
            more == Append(old, b)
            full == [batches EXCEPT ![n] = more]
<1>1. /\ n \in Nat /\ DOMAIN batches = 1 .. n /\ \A i \in 1 .. n : batches[i] \in Seq(Bids)
      /\ n \in 1 .. n
  <2>1. n \in Nat /\ DOMAIN batches = 1 .. n /\ \A i \in 1 .. n : batches[i] \in Seq(Bids)
    BY SeqParts DEF Batches
  <2>2. n # 0
    BY EmptySeq DEF Batches
  <2>. QED  BY <2>1, <2>2
<1>2. old \in Seq(Bids) /\ more \in Seq(Bids) /\ BidsOf(more) = BidsOf(old) \cup {b}
  BY <1>1, AppendedBid
<1>3. CASE Len(old) >= batchSize
  <2>1. Push(b) = Append(batches, <<b>>)
    BY <1>3 DEF Push
  <2>2. <<b>> \in Seq(Bids) /\ BidsOf(<<b>>) = {b}
    BY DEF BidsOf
  <2>. DEFINE single == <<b>>
  <2>. HIDE DEF single
  <2>3. /\ Append(batches, single) \in Batches /\ Append(batches, single) # <<>>
        /\ \A d \in Bids : In(d, Append(batches, single)) <=> In(d, batches) \/ d \in BidsOf(single)
        /\ Apart(batches) /\ (\A d \in Bids : In(d, batches) => d \notin BidsOf(single))
             => Apart(Append(batches, single))
    <3>1. single \in Seq(Bids)
      BY <2>2 DEF single
    <3>. QED  BY <3>1, AppendedBatch
  <2>4. BidsOf(single) = {b} /\ Push(b) = Append(batches, single)
    BY <2>1, <2>2 DEF single
  <2>. QED  BY <2>3, <2>4
<1>4. CASE ~(Len(old) >= batchSize)
  <2>1. Push(b) = full
    BY <1>4 DEF Push
  <2>2. /\ full \in Seq(Seq(Bids)) /\ Len(full) = n
        /\ \A i \in 1 .. n : full[i] = IF i = n THEN more ELSE batches[i]
    BY <1>1, <1>2, ExceptSeq DEF Batches
  <2>3. DOMAIN full = 1 .. n
    BY <2>2, LenProperties
  <2>4. full # <<>>
    BY <1>1, <2>2
  <2>. HIDE DEF full, more
  <2>5. \A i \in 1 .. n : BidsOf(full[i]) = IF i = n THEN BidsOf(batches[i]) \cup {b} ELSE BidsOf(batches[i])
    BY <1>2, <2>2
  <2>. HIDE DEF old, n
  <2>6. \A d \in Bids : In(d, full) <=> In(d, batches) \/ d = b
    BY <1>1, <2>3, <2>5 DEF In
  <2>7. Apart(full)
    <3>. SUFFICES ASSUME NEW i \in 1 .. n, NEW j \in 1 .. n, i # j
                  PROVE  BidsOf(full[i]) \cap BidsOf(full[j]) = {}
      BY <2>3 DEF Apart
    <3>1. BidsOf(batches[i]) \cap BidsOf(batches[j]) = {} /\ b \notin BidsOf(batches[i]) /\ b \notin BidsOf(batches[j])
      BY <1>1 DEF Apart, In
    <3>. QED  BY <2>5, <3>1
  <2>. QED  BY <2>1, <2>2, <2>4, <2>6, <2>7 DEF Batches
<1>. QED  BY <1>3, <1>4

(* Batches are sent, or the request for one of them throws.                *)
LEMMA Dispatched ==
  ASSUME requests \in Batches, Apart(requests), threw \in BOOLEAN,
         \A b \in Bids : In(b, requests) => outcome'[b] = "waiting",
         NEW all \in Batches, all # <<>>, Apart(all),
         \A b \in Bids : In(b, all) => outcome'[b] = "waiting" /\ ~In(b, requests),
         Dispatch(all)
  PROVE  /\ batches' \in Batches /\ batches' # <<>> /\ requests' \in Batches
         /\ debouncing' \in BOOLEAN /\ timer' \in BOOLEAN /\ threw' \in BOOLEAN
         /\ InOneBatch' /\ Timed'
<1>1. CASE /\ timer' = FALSE /\ requests' = requests \o all /\ batches' = << <<>> >>
           /\ debouncing' = FALSE /\ threw' = threw
  <2>1. << <<>> >> \in Batches /\ << <<>> >> # <<>> /\ Apart(<< <<>> >>) /\ \A b : ~In(b, << <<>> >>)
    BY DEF Batches, Apart, In, BidsOf
  <2>2. requests \o all \in Batches /\ Apart(requests \o all)
        /\ \A b \in Bids : In(b, requests \o all) => outcome'[b] = "waiting"
    BY JoinedBatches
  <2>. QED  BY <1>1, <2>1, <2>2 DEF InOneBatch, Timed, Stuck
<1>2. ASSUME NEW i \in 1 .. Len(all), timer' = FALSE, requests' = requests \o SubSeq(all, 1, i - 1),
             batches' = all, debouncing' = TRUE, threw' = TRUE
      PROVE  /\ batches' \in Batches /\ batches' # <<>> /\ requests' \in Batches
             /\ debouncing' \in BOOLEAN /\ timer' \in BOOLEAN /\ threw' \in BOOLEAN
             /\ InOneBatch' /\ Timed'
  <2>. DEFINE sent == SubSeq(all, 1, i - 1)
  <2>1. Len(all) \in Nat /\ DOMAIN all = 1 .. Len(all)
    BY SeqParts DEF Batches
  <2>2. 1 \in Nat /\ i - 1 \in Nat /\ i - 1 <= Len(all) /\ \A j \in 1 .. (i - 1) : j \in 1 .. Len(all)
    BY <2>1
  <2>3. sent \in Batches /\ Apart(sent) /\ \A b : In(b, sent) => In(b, all)
    <3>1. sent \in Batches /\ Apart(sent) /\ \A b : In(b, sent) <=> \E j \in 1 .. (i - 1) : b \in BidsOf(all[j])
      BY <2>2, PartOfBatches
    <3>. QED  BY <2>1, <2>2, <3>1 DEF In
  <2>4. requests \o sent \in Batches /\ Apart(requests \o sent)
        /\ \A b \in Bids : In(b, requests \o sent) => outcome'[b] = "waiting"
    BY <2>3, JoinedBatches
  <2>. HIDE DEF sent
  <2>5. Stuck'
    BY <1>2 DEF Stuck
  <2>6. requests' = requests \o sent
    BY <1>2 DEF sent
  <2>. QED  BY <1>2, <2>4, <2>5, <2>6 DEF InOneBatch, Timed
<1>. QED  BY <1>1, <1>2 DEF Dispatch, emptyBatches, notDebouncing

-----------------------------------------------------------------------------
(* Between the two ends of an interval, in the two forms EveryPlace needs.   *)
LEMMA Between ==
  ASSUME NEW a \in Int, NEW b \in Int, NEW c \in Int
  PROVE  /\ 1 <= a /\ (a = b \/ a < b) => a \in 1 .. b
         /\ a <= c /\ (a = b \/ b < a) => a \in b .. c
OBVIOUS

(* As many ids as the batch has bids, for some of them in their order, are  *)
(* for all of them, each at the place of its bid: an increasing sequence of *)
(* places in 1 .. n, with n members, leaves no room before or after any.    *)
LEMMA EveryPlace ==
  ASSUME NEW n \in Nat, NEW f \in [1 .. n -> 1 .. n],
         \A i, j \in 1 .. n : i < j => f[i] < f[j], NEW k \in 1 .. n
  PROVE  f[k] = k
<1>. DEFINE low == [i \in 1 .. k |-> f[i]]
            high == [i \in k .. n |-> f[i]]
<1>. HIDE DEF low, high
<1>0. n \in Int /\ k \in Int /\ f[k] \in Int /\ k >= 1 /\ k <= n /\ f[k] >= 1 /\ f[k] <= n
  OBVIOUS
<1>1. \A i, j \in 1 .. n : f[i] = f[j] => i = j
  <2>. SUFFICES ASSUME NEW i \in 1 .. n, NEW j \in 1 .. n, i # j PROVE f[i] # f[j]
    OBVIOUS
  <2>1. f[i] \in 1 .. n /\ f[j] \in 1 .. n
    OBVIOUS
  <2>. QED  BY <2>1
<1>2. k <= f[k]
  <2>1. low \in Injection(1 .. k, 1 .. f[k])
    <3>1. \A i \in 1 .. k : i \in 1 .. n /\ (i = k \/ i < k)
      OBVIOUS
    <3>2. ASSUME NEW i \in 1 .. k PROVE f[i] \in 1 .. f[k]
      <4>1. f[i] \in 1 .. n /\ (f[i] = f[k] \/ f[i] < f[k])
        BY <3>1
      <4>2. f[i] \in Int /\ 1 <= f[i]
        BY <4>1
      <4>. QED  BY <1>0, <4>1, <4>2, Between
    <3>3. \A i, j \in 1 .. k : low[i] = low[j] => i = j
      BY <1>1, <3>1 DEF low
    <3>. QED  BY <3>2, <3>3 DEF low, Injection, IsInjective
  <2>2. /\ IsFiniteSet(1 .. f[k]) /\ Cardinality(1 .. f[k]) = f[k]
        /\ Cardinality(1 .. k) = k
    BY <1>0, FS_Interval
  <2>3. Cardinality(1 .. k) <= Cardinality(1 .. f[k])
    BY <2>1, <2>2, FS_Injection
  <2>. QED  BY <2>2, <2>3
<1>3. f[k] <= k
  <2>1. high \in Injection(k .. n, f[k] .. n)
    <3>1. \A i \in k .. n : i \in 1 .. n /\ (i = k \/ k < i)
      OBVIOUS
    <3>2. ASSUME NEW i \in k .. n PROVE f[i] \in f[k] .. n
      <4>1. f[i] \in 1 .. n /\ (f[i] = f[k] \/ f[k] < f[i])
        BY <3>1
      <4>2. f[i] \in Int /\ f[i] <= n
        BY <4>1
      <4>. QED  BY <1>0, <4>1, <4>2, Between
    <3>3. \A i, j \in k .. n : high[i] = high[j] => i = j
      BY <1>1, <3>1 DEF high
    <3>. QED  BY <3>2, <3>3 DEF high, Injection, IsInjective
  <2>2. /\ IsFiniteSet(f[k] .. n) /\ Cardinality(f[k] .. n) = n - f[k] + 1
        /\ Cardinality(k .. n) = n - k + 1
    BY <1>0, FS_Interval
  <2>3. Cardinality(k .. n) <= Cardinality(f[k] .. n)
    BY <2>1, <2>2, FS_Injection
  <2>. QED  BY <1>0, <2>2, <2>3
<1>. QED  BY <1>0, <1>2, <1>3

(* An answer with an id for every bid has each bid's own at its place.      *)
LEMMA OwnIds ==
  ASSUME NEW batch \in Seq(Bids), NEW n \in 0 .. Len(batch), NEW accepted,
         NEW places \in Places(batch, n), ~wrongNumber(batch, CacheIds(batch, places, accepted))
  PROVE  /\ DOMAIN CacheIds(batch, places, accepted) = DOMAIN batch
         /\ \A i \in DOMAIN batch : CacheIds(batch, places, accepted)[i] =
                                     IF batch[i] \in accepted THEN batch[i] ELSE None
<1>. DEFINE ids == CacheIds(batch, places, accepted)
            m == Len(batch)
<1>1. m \in Nat /\ DOMAIN batch = 1 .. m /\ \A i \in 1 .. m : batch[i] \in Bids
  BY SeqParts
<1>2. /\ n \in Nat /\ places \in [1 .. n -> 1 .. m]
      /\ \A i, j \in 1 .. n : i < j => places[i] < places[j]
  BY <1>1 DEF Places
<1>3. ids = [i \in 1 .. n |-> IF batch[places[i]] \in accepted THEN batch[places[i]] ELSE None]
  BY <1>2 DEF CacheIds
<1>4. Len(ids) = n
  <2>1. ids \in [1 .. n -> Bids \cup {None}]
    BY <1>1, <1>2, <1>3
  <2>2. ids \in Seq(Bids \cup {None})
    BY <1>2, <2>1
  <2>3. DOMAIN ids = 1 .. Len(ids) /\ Len(ids) \in Nat
    BY <2>2, LenProperties
  <2>4. 1 .. Len(ids) = 1 .. n
    BY <2>1, <2>3
  <2>. DEFINE l == Len(ids)
  <2>5. l \in Nat /\ n \in Nat /\ \A i : i \in 1 .. l <=> i \in 1 .. n
    BY <1>2, <2>3, <2>4
  <2>. HIDE DEF l
  <2>6. ~(l < n)
    <3>. SUFFICES ASSUME l < n PROVE FALSE
      OBVIOUS
    <3>1. n \in 1 .. n /\ n \notin 1 .. l
      BY <2>5
    <3>. QED  BY <2>5, <3>1
  <2>7. ~(n < l)
    <3>. SUFFICES ASSUME n < l PROVE FALSE
      OBVIOUS
    <3>1. l \in 1 .. l /\ l \notin 1 .. n
      BY <2>5
    <3>. QED  BY <2>5, <3>1
  <2>8. l = n
    BY <2>5, <2>6, <2>7
  <2>. QED  BY <2>8 DEF l
<1>5. n = m
  BY <1>4 DEF wrongNumber
<1>6. \A i \in 1 .. n : places[i] = i
  BY <1>2, <1>5, EveryPlace
<1>. QED  BY <1>1, <1>3, <1>5, <1>6

(* What an answer tells: every bid of the batch is answered for, and those  *)
(* that join the auction get their own key.                                 *)
Answered(done, ok) ==
  /\ outcome' = [b \in Bids |-> IF b \in ok THEN "added"
                                ELSE IF b \in done THEN "discarded" ELSE outcome[b]]
  /\ answers' = [b \in Bids |-> IF b \in done THEN answers[b] + 1 ELSE answers[b]]
  /\ videoCacheKey' = [b \in Bids |-> IF b \in ok THEN b ELSE videoCacheKey[b]]

LEMMA AnswerTells ==
  ASSUME requests \in Batches, NEW r \in DOMAIN requests, Answer(r)
  PROVE  \E ok \in SUBSET BidsOf(requests[r]) : Answered(BidsOf(requests[r]), ok)
<1>. DEFINE batch == requests[r]
            position(b) == CHOOSE i \in DOMAIN batch : batch[i] = b
<1>1. batch \in Seq(Bids)
  BY SeqParts DEF Batches
<1>2. CASE Finish(BidsOf(batch), NoKeys)
  <2>1. Answered(BidsOf(batch), {})
    BY <1>2 DEF Finish, NoKeys, answered, Answered
  <2>. QED  BY <2>1
<1>3. ASSUME NEW n \in 0 .. Len(batch), NEW accepted \in SUBSET BidsOf(batch),
             NEW places \in Places(batch, n), NEW ok,
             ~wrongNumber(batch, CacheIds(batch, places, accepted)),
             ok = {batch[i] : i \in {j \in DOMAIN CacheIds(batch, places, accepted) :
                                       CacheIds(batch, places, accepted)[j] # None}},
             Finish({batch[i] : i \in DOMAIN CacheIds(batch, places, accepted)},
                    [b \in ok |-> CacheIds(batch, places, accepted)[position(b)]])
      PROVE  ok \in SUBSET BidsOf(batch) /\ Answered(BidsOf(batch), ok)
  <2>. DEFINE ids == CacheIds(batch, places, accepted)
              keys == [b \in ok |-> ids[position(b)]]
  <2>1. /\ DOMAIN ids = DOMAIN batch
        /\ \A i \in DOMAIN batch : ids[i] = IF batch[i] \in accepted THEN batch[i] ELSE None
    BY <1>1, <1>3, OwnIds
  <2>2. /\ ok = {batch[i] : i \in {j \in DOMAIN ids : ids[j] # None}}
        /\ Finish({batch[i] : i \in DOMAIN ids}, keys)
    BY <1>3
  <2>. HIDE DEF ids
  <2>3. ok \in SUBSET BidsOf(batch) /\ {batch[i] : i \in DOMAIN ids} = BidsOf(batch)
    BY <2>1, <2>2 DEF BidsOf
  <2>4. \A b \in ok : b \in accepted /\ \E i \in DOMAIN batch : batch[i] = b
    BY <2>1, <2>2
  <2>5. \A b \in ok : position(b) \in DOMAIN batch /\ batch[position(b)] = b
    BY <2>4
  <2>. HIDE DEF position, batch
  <2>6. \A b \in ok : ids[position(b)] = b
    BY <2>1, <2>4, <2>5
  <2>7. DOMAIN keys = ok /\ \A b \in ok : keys[b] = b
    BY <2>6
  <2>. HIDE DEF keys
  <2>. QED  BY <2>2, <2>3, <2>7 DEF Finish, answered, Answered
<1>. QED  BY <1>2, <1>3 DEF Answer

-----------------------------------------------------------------------------
(* Each step keeps the invariant.                                          *)
LEMMA AddDirectlyKeeps ==
  ASSUME IInv, NEW b \in Bids, AddDirectly(b)
  PROVE  IInv'
<1>. Types /\ InOneBatch /\ Timed /\ AnsweredOnce
  BY DEF IInv
<1>1. PICK how \in {"added", "discarded"} : outcome' = [outcome EXCEPT ![b] = how]
  BY DEF AddDirectly
<1>2. /\ outcome[b] = "new" /\ answers' = [answers EXCEPT ![b] = answers[b] + 1]
      /\ UNCHANGED <<batches, debouncing, timer, requests, threw>>
  BY DEF AddDirectly
<1>3. ~In(b, batches) /\ ~In(b, requests)
  BY <1>2 DEF InOneBatch
<1>4. Types'
  BY <1>1, <1>2 DEF Types, Outcomes
<1>5. InOneBatch'
  <2>1. \A d \in Bids : d # b => outcome'[d] = outcome[d]
    BY <1>1 DEF Types
  <2>2. Stuck' = Stuck
    BY <1>2 DEF Stuck
  <2>. QED  BY <1>2, <1>3, <2>1, <2>2 DEF InOneBatch
<1>6. Timed'
  BY <1>2 DEF Timed
<1>7. AnsweredOnce'
  <2>1. \A d \in Bids : d # b => outcome'[d] = outcome[d] /\ answers'[d] = answers[d]
    BY <1>1, <1>2 DEF Types
  <2>2. outcome'[b] \in {"added", "discarded"} /\ answers'[b] = 1
    BY <1>1, <1>2 DEF Types, AnsweredOnce
  <2>. QED  BY <2>1, <2>2 DEF AnsweredOnce
<1>. QED  BY <1>4, <1>5, <1>6, <1>7 DEF IInv

LEMMA BatchAndStoreKeeps ==
  ASSUME IInv, NEW b \in Bids, BatchAndStore(b)
  PROVE  IInv'
<1>. Types /\ InOneBatch /\ Timed /\ AnsweredOnce
  BY DEF IInv
<1>1. /\ outcome[b] = "new" /\ outcome' = [outcome EXCEPT ![b] = "waiting"] /\ answers' = answers
      /\ IF debouncing \/ batchTimeout
           THEN /\ batches' = Push(b)
                /\ debouncing' = TRUE
                /\ timer' = (timer \/ ~debouncing)
                /\ UNCHANGED <<requests, threw>>
           ELSE Dispatch(Push(b))
  BY DEF BatchAndStore
<1>2. ~In(b, batches) /\ ~In(b, requests)
  BY <1>1 DEF InOneBatch
<1>3. /\ Push(b) \in Batches /\ Push(b) # <<>> /\ Apart(Push(b))
      /\ \A d \in Bids : In(d, Push(b)) <=> In(d, batches) \/ d = b
  BY <1>2, Pushed DEF Types, InOneBatch
<1>4. /\ outcome' \in [Bids -> Outcomes] /\ outcome'[b] = "waiting"
      /\ \A d \in Bids : d # b => outcome'[d] = outcome[d]
  BY <1>1 DEF Types, Outcomes
<1>5. \A d \in Bids : In(d, requests) => outcome'[d] = "waiting"
  BY <1>2, <1>4 DEF InOneBatch
<1>6. AnsweredOnce'
  BY <1>1, <1>4 DEF AnsweredOnce
<1>7. CASE debouncing \/ batchTimeout
  <2>1. /\ batches' = Push(b) /\ debouncing' = TRUE /\ timer' = (timer \/ ~debouncing)
        /\ UNCHANGED <<requests, threw>>
    BY <1>1, <1>7
  <2>2. Types'
    BY <1>1, <1>3, <1>4, <2>1 DEF Types
  <2>3. Stuck' = Stuck
    BY <2>1 DEF Stuck
  <2>4. InOneBatch'
    BY <1>2, <1>3, <1>4, <1>5, <2>1, <2>3 DEF InOneBatch
  <2>5. Timed'
    BY <2>1 DEF Timed
  <2>. QED  BY <1>6, <2>2, <2>4, <2>5 DEF IInv
<1>8. CASE ~(debouncing \/ batchTimeout)
  <2>1. Dispatch(Push(b)) /\ ~Stuck
    BY <1>1, <1>8 DEF Stuck
  <2>2. \A d \in Bids : In(d, Push(b)) => outcome'[d] = "waiting" /\ ~In(d, requests)
    BY <1>2, <1>3, <1>4, <2>1 DEF InOneBatch
  <2>3. /\ batches' \in Batches /\ batches' # <<>> /\ requests' \in Batches
        /\ debouncing' \in BOOLEAN /\ timer' \in BOOLEAN /\ threw' \in BOOLEAN
        /\ InOneBatch' /\ Timed'
    BY <1>3, <1>5, <2>1, <2>2, Dispatched DEF Types, InOneBatch
  <2>4. Types'
    BY <1>1, <1>4, <2>3 DEF Types
  <2>. QED  BY <1>6, <2>3, <2>4 DEF IInv
<1>. QED  BY <1>7, <1>8

LEMMA TimerFiresKeeps ==
  ASSUME IInv, TimerFires
  PROVE  IInv'
<1>. Types /\ InOneBatch /\ Timed /\ AnsweredOnce
  BY DEF IInv
<1>1. timer /\ Dispatch(batches) /\ outcome' = outcome /\ answers' = answers
  BY DEF TimerFires, results
<1>2. ~Stuck
  BY <1>1 DEF Stuck
<1>3. /\ \A b \in Bids : In(b, requests) => outcome'[b] = "waiting"
      /\ \A b \in Bids : In(b, batches) => outcome'[b] = "waiting" /\ ~In(b, requests)
  BY <1>1, <1>2 DEF InOneBatch
<1>4. /\ batches' \in Batches /\ batches' # <<>> /\ requests' \in Batches
      /\ debouncing' \in BOOLEAN /\ timer' \in BOOLEAN /\ threw' \in BOOLEAN
      /\ InOneBatch' /\ Timed'
  BY <1>1, <1>3, Dispatched DEF Types, InOneBatch
<1>5. Types'
  BY <1>1, <1>4 DEF Types
<1>6. AnsweredOnce'
  BY <1>1 DEF AnsweredOnce
<1>. QED  BY <1>4, <1>5, <1>6 DEF IInv

(* A request that has been answered is taken out.                          *)
LEMMA Removed ==
  ASSUME requests \in Batches, Apart(requests), NEW r \in DOMAIN requests,
         requests' = SubSeq(requests, 1, r - 1) \o SubSeq(requests, r + 1, Len(requests))
  PROVE  /\ requests' \in Batches /\ Apart(requests')
         /\ \A b \in Bids : In(b, requests') <=> In(b, requests) /\ b \notin BidsOf(requests[r])
<1>. DEFINE n == Len(requests)
            s == SubSeq(requests, 1, r - 1)
            t == SubSeq(requests, r + 1, n)
<1>1. n \in Nat /\ DOMAIN requests = 1 .. n /\ r \in 1 .. n
  BY SeqParts DEF Batches
<1>2. /\ 1 \in Nat /\ r - 1 \in Nat /\ r - 1 <= n /\ r + 1 \in Nat /\ r + 1 >= 1 /\ n <= n
      /\ \A i \in 1 .. (r - 1) : i \in 1 .. n /\ i # r
      /\ \A i \in (r + 1) .. n : i \in 1 .. n /\ i # r
      /\ \A i \in 1 .. (r - 1), j \in (r + 1) .. n : i # j
  BY <1>1
<1>3. s \in Batches /\ Apart(s) /\ \A b : In(b, s) <=> \E i \in 1 .. (r - 1) : b \in BidsOf(requests[i])
  BY <1>2, PartOfBatches
<1>4. t \in Batches /\ Apart(t) /\ \A b : In(b, t) <=> \E i \in (r + 1) .. n : b \in BidsOf(requests[i])
  BY <1>1, <1>2, PartOfBatches
<1>5. requests' = s \o t
  OBVIOUS
<1>. HIDE DEF n, s, t
<1>6. \A b : ~In(b, s) \/ ~In(b, t)
  BY <1>1, <1>2, <1>3, <1>4 DEF Apart
<1>7. \A b : In(b, s) \/ In(b, t) <=> In(b, requests) /\ b \notin BidsOf(requests[r])
  <2>1. \A i \in 1 .. n : i = r \/ i \in 1 .. (r - 1) \/ i \in (r + 1) .. n
    BY <1>1
  <2>2. \A b : In(b, requests) /\ b \notin BidsOf(requests[r]) => In(b, s) \/ In(b, t)
    BY <1>1, <1>3, <1>4, <2>1 DEF In
  <2>3. \A b : In(b, s) \/ In(b, t) => In(b, requests) /\ b \notin BidsOf(requests[r])
    BY <1>1, <1>2, <1>3, <1>4 DEF Apart, In
  <2>. QED  BY <2>2, <2>3
<1>8. s \o t \in Batches /\ Apart(s \o t) /\ \A b : In(b, s \o t) <=> In(b, s) \/ In(b, t)
  BY <1>3, <1>4, <1>6, JoinedBatches
<1>. QED  BY <1>5, <1>7, <1>8

LEMMA AnswerKeeps ==
  ASSUME IInv, NEW r \in DOMAIN requests, Answer(r)
  PROVE  IInv'
<1>. Types /\ InOneBatch /\ Timed /\ AnsweredOnce
  BY DEF IInv
<1>. DEFINE batch == requests[r]
<1>1. /\ requests' = SubSeq(requests, 1, r - 1) \o SubSeq(requests, r + 1, Len(requests))
      /\ UNCHANGED <<batches, debouncing, timer, threw>>
  BY DEF Answer
<1>2. /\ requests' \in Batches /\ Apart(requests')
      /\ \A b \in Bids : In(b, requests') <=> In(b, requests) /\ b \notin BidsOf(batch)
  BY <1>1, Removed DEF Types, InOneBatch
<1>3. /\ batch \in Seq(Bids) /\ DOMAIN batch = 1 .. Len(batch) /\ Len(batch) \in Nat
      /\ BidsOf(batch) \subseteq Bids /\ \A b \in BidsOf(batch) : In(b, requests)
  BY SeqParts, BatchBids DEF Types, Batches, In
<1>4. PICK ok \in SUBSET BidsOf(batch) : Answered(BidsOf(batch), ok)
  BY AnswerTells DEF Types
<1>. DEFINE done == BidsOf(batch)
<1>5. /\ ok \in SUBSET done
      /\ outcome' = [b \in Bids |-> IF b \in ok THEN "added"
                                    ELSE IF b \in done THEN "discarded" ELSE outcome[b]]
      /\ answers' = [b \in Bids |-> IF b \in done THEN answers[b] + 1 ELSE answers[b]]
  BY <1>4 DEF Answered
<1>. HIDE DEF done
<1>6. done = BidsOf(batch)
  BY DEF done
<1>. HIDE DEF batch
<1>7. /\ \A b \in done : outcome[b] = "waiting" /\ answers[b] = 0
      /\ \A b \in done : outcome'[b] \in {"added", "discarded"} /\ answers'[b] = answers[b] + 1
      /\ \A b \in Bids \ done : outcome'[b] = outcome[b] /\ answers'[b] = answers[b]
  <2>1. \A b \in done : outcome[b] = "waiting" /\ answers[b] = 0
    BY <1>3, <1>6 DEF InOneBatch, AnsweredOnce
  <2>2. \A b \in done : outcome'[b] \in {"added", "discarded"} /\ answers'[b] = answers[b] + 1
    BY <1>3, <1>5, <1>6
  <2>3. \A b \in Bids \ done : outcome'[b] = outcome[b] /\ answers'[b] = answers[b]
    BY <1>5
  <2>. QED  BY <2>1, <2>2, <2>3
<1>8. Types'
  BY <1>1, <1>2, <1>5 DEF Types, Outcomes
<1>9. InOneBatch'
  <2>1. \A b \in Bids : In(b, requests') => In(b, requests) /\ b \notin done
    BY <1>2, <1>6
  <2>2. \A b \in done : In(b, requests) /\ b \in Bids
    BY <1>3, <1>6
  <2>3. Stuck' = Stuck
    BY <1>1 DEF Stuck
  <2>4. \A b \in Bids : In(b, requests') => outcome'[b] = "waiting"
    BY <1>7, <2>1 DEF InOneBatch
  <2>5. \A b \in Bids : In(b, batches') => outcome'[b] # "new"
    BY <1>1, <1>7 DEF InOneBatch
  <2>6. ~Stuck' => \A b \in Bids : In(b, batches') => outcome'[b] = "waiting" /\ ~In(b, requests')
    BY <1>1, <1>7, <2>1, <2>2, <2>3 DEF InOneBatch
  <2>. QED  BY <1>1, <1>2, <2>4, <2>5, <2>6 DEF InOneBatch
<1>10. Timed'
  BY <1>1 DEF Timed
<1>11. AnsweredOnce'
  BY <1>7 DEF AnsweredOnce
<1>. QED  BY <1>8, <1>9, <1>10, <1>11 DEF IInv

-----------------------------------------------------------------------------
(* The invariant: a bid is in one batch, each batch is sent once and       *)
(* answered once, and as long as there is a timer batches will be sent.    *)
THEOREM Invariance == Spec => []IInv
<1>1. Init => IInv
  <2>1. << <<>> >> \in Batches /\ << <<>> >> # <<>> /\ Apart(<< <<>> >>) /\ \A b : ~In(b, << <<>> >>)
    BY DEF Batches, Apart, In, BidsOf
  <2>2. <<>> \in Batches /\ Apart(<<>>) /\ \A b : ~In(b, <<>>)
    BY DEF Batches, Apart, In
  <2>. SUFFICES ASSUME Init PROVE IInv
    OBVIOUS
  <2>3. Types
    BY <2>1, <2>2 DEF Init, Types, Outcomes
  <2>4. InOneBatch
    BY <2>1, <2>2 DEF Init, InOneBatch
  <2>5. Timed
    BY <2>1 DEF Init, Timed
  <2>6. AnsweredOnce
    BY DEF Init, AnsweredOnce
  <2>. QED  BY <2>3, <2>4, <2>5, <2>6 DEF IInv
<1>2. IInv /\ [Next]_vars => IInv'
  <2>. SUFFICES ASSUME IInv, [Next]_vars PROVE IInv'
    OBVIOUS
  <2>1. ASSUME UNCHANGED <<batches, debouncing, timer, requests, results, threw>>
        PROVE  IInv'
    BY <2>1 DEF IInv, Types, InOneBatch, Timed, AnsweredOnce, Stuck, results
  <2>2. CASE Configure
    BY <2>1, <2>2 DEF Configure
  <2>3. CASE \E b \in Bids : AddDirectly(b) \/ BatchAndStore(b)
    BY <2>3, AddDirectlyKeeps, BatchAndStoreKeeps
  <2>4. CASE TimerFires
    BY <2>4, TimerFiresKeeps
  <2>5. CASE \E r \in DOMAIN requests : Answer(r)
    BY <2>5, AnswerKeeps
  <2>6. CASE UNCHANGED vars
    BY <2>1, <2>6 DEF vars
  <2>. QED  BY <2>2, <2>3, <2>4, <2>5, <2>6 DEF Next
<1>. QED  BY <1>1, <1>2, PTL DEF Spec

(* afterBidAdded is called once for each bid, whatever the sizes of        *)
(* batches, the order and the number of the answers, and when requests     *)
(* throw.                                                                  *)
THEOREM BidsAreAnsweredOnce == Spec => []AnsweredOnce
BY Invariance, PTL DEF IInv

(* Collected bids have a timer until a request throws.                     *)
THEOREM BatchesAreTimed == Spec => []BatchesTimed
<1>1. IInv => BatchesTimed
  <2>. SUFFICES ASSUME IInv, NEW b \in Collected PROVE debouncing /\ (timer \/ threw)
    BY DEF BatchesTimed
  <2>1. Types /\ Timed
    BY DEF IInv
  <2>2. PICK i \in DOMAIN batches : b \in BidsOf(batches[i])
    BY DEF Collected
  <2>3. b \in Bids
    BY <2>1, <2>2, SeqParts, BatchBids DEF Types, Batches
  <2>. QED  BY <2>1, <2>2, <2>3 DEF Timed, In
<1>. QED  BY <1>1, Invariance, PTL

-----------------------------------------------------------------------------
(* Every bid has no key or its own, and stays so.                           *)
LEMMA NextOwnKey ==
  ASSUME IInv, OwnKey, [Next]_vars
  PROVE  OwnKey'
<1>1. ASSUME UNCHANGED videoCacheKey PROVE OwnKey'
  BY <1>1 DEF OwnKey
<1>2. CASE Configure \/ TimerFires \/ UNCHANGED vars
  BY <1>1, <1>2 DEF Configure, TimerFires, vars, results
<1>3. CASE \E b \in Bids : AddDirectly(b) \/ BatchAndStore(b)
  BY <1>1, <1>3 DEF AddDirectly, BatchAndStore
<1>4. ASSUME NEW r \in DOMAIN requests, Answer(r) PROVE OwnKey'
  <2>1. PICK ok \in SUBSET BidsOf(requests[r]) : Answered(BidsOf(requests[r]), ok)
    BY <1>4, AnswerTells DEF IInv, Types
  <2>. QED  BY <2>1 DEF Answered, OwnKey
<1>. QED  BY <1>2, <1>3, <1>4 DEF Next

(* No bid ever has the cache key of another, whichever bids the server      *)
(* accepts and whichever it leaves out of its answer.                       *)
THEOREM KeysAreOwn == Spec => []OwnKey
<1>1. Init => OwnKey
  BY DEF Init, OwnKey
<1>2. IInv /\ OwnKey /\ [Next]_vars => OwnKey'
  BY NextOwnKey
<1>. QED  BY <1>1, <1>2, Invariance, PTL DEF Spec

-----------------------------------------------------------------------------
(* A bid that waits is in the batches or has been sent, also when the       *)
(* request for another batch has thrown.                                    *)
NoneLost == \A b \in Bids : outcome[b] = "waiting" => In(b, batches) \/ In(b, requests)

\* Where a bid is, as CachePromise has it.
Whereabouts ==
  \A b \in Bids : stageOf(b) = IF outcome[b] # "waiting" THEN outcome[b]
                               ELSE IF In(b, requests) THEN "sent" ELSE "held"

LEMMA WhereaboutsKnown ==
  /\ NoneLost => Whereabouts
  /\ NoneLost' => Whereabouts'
<1>1. NoneLost => Whereabouts
  BY DEF NoneLost, Whereabouts, stageOf, Requested, Collected, In
<1>2. NoneLost' => Whereabouts'
  BY DEF NoneLost, Whereabouts, stageOf, Requested, Collected, In
<1>. QED  BY <1>1, <1>2

(* A bid that was sent is not taken back, and one of the batches to be sent *)
(* is sent or stays in the batches.                                         *)
LEMMA SentOrKept ==
  ASSUME requests \in Batches, NEW all \in Batches, Dispatch(all)
  PROVE  /\ \A b \in Bids : In(b, requests) => In(b, requests')
         /\ \A b \in Bids : In(b, all) => In(b, batches') \/ In(b, requests')
<1>1. CASE requests' = requests \o all
  BY <1>1, JoinedBatches
<1>2. ASSUME NEW i \in 1 .. Len(all), requests' = requests \o SubSeq(all, 1, i - 1), batches' = all
      PROVE  /\ \A b \in Bids : In(b, requests) => In(b, requests')
             /\ \A b \in Bids : In(b, all) => In(b, batches') \/ In(b, requests')
  <2>. DEFINE sent == SubSeq(all, 1, i - 1)
  <2>1. Len(all) \in Nat
    BY SeqParts DEF Batches
  <2>2. 1 \in Nat /\ i - 1 \in Nat /\ i - 1 <= Len(all)
    BY <2>1
  <2>3. sent \in Batches
    BY <2>2, PartOfBatches
  <2>. HIDE DEF sent
  <2>4. \A b : In(b, requests \o sent) <=> In(b, requests) \/ In(b, sent)
    BY <2>3, JoinedBatches
  <2>. QED  BY <1>2, <2>4 DEF sent
<1>. QED  BY <1>1, <1>2 DEF Dispatch

(* Bids are collected and batches are sent: the batches may grow by those   *)
(* taken, and from them bids go to the requests.                            *)
LEMMA SendSeen ==
  ASSUME Types, NoneLost, NEW taken \in SUBSET Bids, \A b \in taken : outcome[b] = "new",
         outcome' = [b \in Bids |-> IF b \in taken THEN "waiting" ELSE outcome[b]],
         videoCacheKey' = videoCacheKey,
         \A b \in Bids : In(b, requests) => In(b, requests'),
         \A b \in Bids : In(b, batches) \/ b \in taken => In(b, batches') \/ In(b, requests')
  PROVE  Promise!Send(taken) /\ NoneLost'
<1>1. NoneLost'
  BY DEF NoneLost
<1>2. Whereabouts /\ Whereabouts'
  BY <1>1, WhereaboutsKnown
<1>. DEFINE held == {b \in Bids : stageOf(b) = "held"}
            sent == {b \in taken \cup held : In(b, requests')}
<1>3. \A b \in Bids : b \in held <=> outcome[b] = "waiting" /\ ~In(b, requests)
  BY <1>2 DEF Whereabouts, Types, Outcomes
<1>4. \A b \in Bids : stageOf(b)' = IF b \in sent THEN "sent"
                                    ELSE IF b \in taken THEN "held" ELSE stageOf(b)
  <2>. SUFFICES ASSUME NEW b \in Bids
                PROVE  stageOf(b)' = IF b \in sent THEN "sent"
                                     ELSE IF b \in taken THEN "held" ELSE stageOf(b)
    OBVIOUS
  <2>1. /\ stageOf(b) = IF outcome[b] # "waiting" THEN outcome[b]
                        ELSE IF In(b, requests) THEN "sent" ELSE "held"
        /\ stageOf(b)' = IF outcome'[b] # "waiting" THEN outcome'[b]
                         ELSE IF In(b, requests') THEN "sent" ELSE "held"
    BY <1>2 DEF Whereabouts
  <2>2. b \in sent <=> (b \in taken \/ (outcome[b] = "waiting" /\ ~In(b, requests))) /\ In(b, requests')
    BY <1>3
  <2>. HIDE DEF sent
  <2>3. outcome'[b] = IF b \in taken THEN "waiting" ELSE outcome[b]
    OBVIOUS
  <2>. QED  BY <2>1, <2>2, <2>3
<1>5. \A b \in taken : stageOf(b) = "new"
  BY <1>2 DEF Whereabouts
<1>6. sent \in SUBSET (taken \cup held)
  OBVIOUS
<1>. HIDE DEF sent
<1>7. [b \in Bids |-> stageOf(b)]' =
        [b \in Bids |-> IF b \in sent THEN "sent"
                        ELSE IF b \in taken THEN "held" ELSE [c \in Bids |-> stageOf(c)][b]]
  BY <1>4
<1>8. Promise!At("held") = held /\ taken \subseteq Promise!At("new")
  BY <1>5 DEF Promise!At
<1>. QED  BY <1>1, <1>6, <1>7, <1>8 DEF Promise!Send

LEMMA AddDirectlySeen ==
  ASSUME IInv, NoneLost, NEW b \in Bids, AddDirectly(b)
  PROVE  Promise!Skip(b) /\ NoneLost'
<1>. Types
  BY DEF IInv
<1>1. PICK how \in {"added", "discarded"} : outcome' = [outcome EXCEPT ![b] = how]
  BY DEF AddDirectly
<1>2. outcome[b] = "new" /\ UNCHANGED <<batches, requests, videoCacheKey>>
  BY DEF AddDirectly
<1>3. /\ outcome'[b] = how
      /\ \A d \in Bids : d # b => outcome'[d] = outcome[d]
  BY <1>1 DEF Types
<1>4. NoneLost'
  BY <1>2, <1>3 DEF NoneLost
<1>5. Whereabouts /\ Whereabouts'
  BY <1>4, WhereaboutsKnown
<1>6. stageOf(b) = "new" /\ \A d \in Bids : stageOf(d)' = IF d = b THEN how ELSE stageOf(d)
  BY <1>2, <1>3, <1>5 DEF Whereabouts
<1>7. [d \in Bids |-> stageOf(d)]' = [[d \in Bids |-> stageOf(d)] EXCEPT ![b] = how]
  BY <1>6
<1>. QED  BY <1>2, <1>4, <1>6, <1>7 DEF Promise!Skip

LEMMA BatchAndStoreSeen ==
  ASSUME IInv, NoneLost, NEW b \in Bids, BatchAndStore(b)
  PROVE  Promise!Send({b}) /\ NoneLost'
<1>. Types /\ InOneBatch
  BY DEF IInv
<1>1. /\ outcome[b] = "new" /\ outcome' = [outcome EXCEPT ![b] = "waiting"]
      /\ videoCacheKey' = videoCacheKey
      /\ \/ batches' = Push(b) /\ requests' = requests
         \/ Dispatch(Push(b))
  BY DEF BatchAndStore
<1>2. ~In(b, batches)
  BY <1>1 DEF InOneBatch
<1>3. Push(b) \in Batches /\ \A d \in Bids : In(d, Push(b)) <=> In(d, batches) \/ d = b
  BY <1>2, Pushed DEF Types, InOneBatch
<1>4. /\ \A d \in Bids : In(d, requests) => In(d, requests')
      /\ \A d \in Bids : In(d, Push(b)) => In(d, batches') \/ In(d, requests')
  BY <1>1, <1>3, SentOrKept DEF Types
<1>5. outcome' = [d \in Bids |-> IF d \in {b} THEN "waiting" ELSE outcome[d]]
  BY <1>1 DEF Types
<1>. QED  BY <1>1, <1>3, <1>4, <1>5, SendSeen

LEMMA TimerFiresSeen ==
  ASSUME IInv, NoneLost, TimerFires
  PROVE  Promise!Send({}) /\ NoneLost'
<1>. Types
  BY DEF IInv
<1>1. Dispatch(batches) /\ outcome' = outcome /\ videoCacheKey' = videoCacheKey
  BY DEF TimerFires, results
<1>2. /\ \A d \in Bids : In(d, requests) => In(d, requests')
      /\ \A d \in Bids : In(d, batches) => In(d, batches') \/ In(d, requests')
  BY <1>1, SentOrKept DEF Types
<1>3. outcome' = [d \in Bids |-> IF d \in {} THEN "waiting" ELSE outcome[d]]
  BY <1>1 DEF Types
<1>. QED  BY <1>1, <1>2, <1>3, SendSeen

LEMMA AnswerSeen ==
  ASSUME IInv, NoneLost, NEW r \in DOMAIN requests, Answer(r)
  PROVE  Promise!Answer /\ NoneLost'
<1>. Types /\ InOneBatch
  BY DEF IInv
<1>. DEFINE done == BidsOf(requests[r])
<1>1. PICK ok \in SUBSET done : Answered(done, ok)
  BY AnswerTells DEF Types
<1>2. /\ requests' = SubSeq(requests, 1, r - 1) \o SubSeq(requests, r + 1, Len(requests))
      /\ batches' = batches
  BY DEF Answer
<1>3. \A b \in Bids : In(b, requests') <=> In(b, requests) /\ b \notin done
  BY <1>2, Removed DEF Types, InOneBatch
<1>4. done \subseteq Bids /\ \A b \in done : In(b, requests)
  BY SeqParts, BatchBids DEF Types, Batches, In
<1>. HIDE DEF done
<1>5. \A b \in Bids : outcome'[b] = IF b \in ok THEN "added"
                                    ELSE IF b \in done THEN "discarded" ELSE outcome[b]
  BY <1>1 DEF Answered
<1>6. NoneLost'
  BY <1>2, <1>3, <1>5 DEF NoneLost
<1>7. Whereabouts /\ Whereabouts'
  BY <1>6, WhereaboutsKnown
<1>8. \A b \in done : outcome[b] = "waiting" /\ stageOf(b) = "sent"
  BY <1>4, <1>7 DEF Whereabouts, InOneBatch
<1>9. \A b \in Bids : stageOf(b)' = IF b \in ok THEN "added"
                                    ELSE IF b \in done THEN "discarded" ELSE stageOf(b)
  <2>. SUFFICES ASSUME NEW b \in Bids
                PROVE  stageOf(b)' = IF b \in ok THEN "added"
                                     ELSE IF b \in done THEN "discarded" ELSE stageOf(b)
    OBVIOUS
  <2>1. /\ stageOf(b) = IF outcome[b] # "waiting" THEN outcome[b]
                        ELSE IF In(b, requests) THEN "sent" ELSE "held"
        /\ stageOf(b)' = IF outcome'[b] # "waiting" THEN outcome'[b]
                         ELSE IF In(b, requests') THEN "sent" ELSE "held"
    BY <1>7 DEF Whereabouts
  <2>. QED  BY <1>3, <1>5, <2>1
<1>10. [b \in Bids |-> stageOf(b)]' =
         [b \in Bids |-> IF b \in ok THEN "added"
                         ELSE IF b \in done THEN "discarded" ELSE [c \in Bids |-> stageOf(c)][b]]
  BY <1>9
<1>11. done \in SUBSET Promise!At("sent")
  BY <1>4, <1>8 DEF Promise!At
<1>12. videoCacheKey' = [b \in Bids |-> IF b \in ok THEN b ELSE videoCacheKey[b]]
  BY <1>1 DEF Answered
<1>. QED  BY <1>6, <1>10, <1>11, <1>12 DEF Promise!Answer

LEMMA StepSeen ==
  IInv /\ NoneLost /\ [Next]_vars => NoneLost' /\ [Promise!Next]_(Promise!vars)
<1>. SUFFICES ASSUME IInv, NoneLost, [Next]_vars
              PROVE  NoneLost' /\ [Promise!Next]_(Promise!vars)
  OBVIOUS
<1>1. ASSUME UNCHANGED <<outcome, batches, requests, videoCacheKey>>
      PROVE  NoneLost' /\ UNCHANGED Promise!vars
  <2>1. \A b \in Bids : stageOf(b)' = stageOf(b)
    BY <1>1 DEF stageOf, Requested, Collected
  <2>. QED  BY <1>1, <2>1 DEF NoneLost, Promise!vars
<1>2. CASE Configure \/ UNCHANGED vars
  BY <1>1, <1>2 DEF Configure, vars, results
<1>3. ASSUME NEW b \in Bids, AddDirectly(b) PROVE NoneLost' /\ Promise!Next
  BY <1>3, AddDirectlySeen DEF Promise!Next
<1>4. ASSUME NEW b \in Bids, BatchAndStore(b) PROVE NoneLost' /\ Promise!Next
  BY <1>4, BatchAndStoreSeen DEF Promise!Next
<1>5. CASE TimerFires
  BY <1>5, TimerFiresSeen DEF Promise!Next
<1>6. ASSUME NEW r \in DOMAIN requests, Answer(r) PROVE NoneLost' /\ Promise!Next
  BY <1>6, AnswerSeen DEF Promise!Next
<1>. QED  BY <1>2, <1>3, <1>4, <1>5, <1>6 DEF Next

(* The cache keeps CachePromise: seen from a bid, it is held back or sent,  *)
(* sent once, answered once after that and added with its own key only,     *)
(* whatever batches it travels in; and a bid is never lost, also when the   *)
(* request for a batch throws.                                              *)
THEOREM ImplementsPromise == Spec => StoresEach
<1>1. Init => NoneLost /\ Promise!Init
  <2>. SUFFICES ASSUME Init PROVE NoneLost /\ Promise!Init
    OBVIOUS
  <2>1. NoneLost
    BY DEF Init, NoneLost
  <2>2. \A b \in Bids : stageOf(b) = "new"
    BY DEF Init, stageOf
  <2>. QED  BY <2>1, <2>2 DEF Init, Promise!Init
<1>. QED  BY <1>1, StepSeen, Invariance, PTL DEF Spec, StoresEach, Promise!Spec

-----------------------------------------------------------------------------
(* Some element of a finite set has the largest value of all. *)
LEMMA LargestExists ==
  ASSUME NEW U, NEW f \in [U -> Nat], NEW S \in SUBSET U, IsFiniteSet(S), S # {}
  PROVE  \E x \in S : \A y \in S : f[y] <= f[x]
<1>. DEFINE Has(V) == \E x \in V : \A y \in V : f[y] <= f[x]
            Bad == {n \in Nat : \E V \in SUBSET U :
                      IsFiniteSet(V) /\ V # {} /\ Cardinality(V) = n /\ ~Has(V)}
<1>1. Bad = {}
  <2>. SUFFICES ASSUME Bad # {} PROVE FALSE
    OBVIOUS
  <2>1. \E n \in Bad : \A m \in Bad : ~(<<m, n>> \in OpToRel(<, Nat))
    BY NatLessThanWellFounded, WFMin, Zenon
  <2>2. PICK n \in Bad : \A m \in Bad : ~(m < n)
    BY <2>1 DEF OpToRel
  <2>3. PICK V \in SUBSET U : IsFiniteSet(V) /\ V # {} /\ Cardinality(V) = n /\ ~Has(V)
    OBVIOUS
  <2>4. PICK x \in V : TRUE
    BY <2>3
  <2>. DEFINE W == V \ {x}
  <2>5. IsFiniteSet(W) /\ Cardinality(W) = n - 1 /\ W \in SUBSET U
    BY <2>3, <2>4, FS_RemoveElement
  <2>6. Cardinality(W) \in Nat
    BY <2>5, FS_CardinalityType
  <2>7. n - 1 \notin Bad
    BY <2>2
  <2>8. W # {} => Has(W)
    BY <2>5, <2>6, <2>7
  <2>9. Has(V)
    <3>1. CASE W = {}
      BY <2>4, <3>1
    <3>2. CASE W # {}
      <4>1. PICK w \in W : \A y \in W : f[y] <= f[w]
        BY <2>8, <3>2
      <4>2. f[w] \in Nat /\ f[x] \in Nat /\ \A y \in V : f[y] \in Nat
        OBVIOUS
      <4>3. CASE f[x] <= f[w]
        BY <4>1, <4>3
      <4>4. CASE f[w] <= f[x]
        BY <4>1, <4>2, <4>4
      <4>. QED  BY <4>2, <4>3, <4>4
    <3>. QED  BY <3>1, <3>2
  <2>. QED  BY <2>3, <2>9
<1>2. Cardinality(S) \in Nat
  BY FS_CardinalityType
<1>. QED  BY <1>1, <1>2

-----------------------------------------------------------------------------
LEMMA MaxIs ==
  ASSUME NEW S \in SUBSET Nat, NEW m \in S, \A x \in S : x <= m
  PROVE  Max(S) \in S /\ \A x \in S : x <= Max(S)
BY DEF Max

(* What lifetimes are computed from. *)
LifetimeTypes ==
  /\ minCacheTTL \in Nat \cup {Null} /\ minTargetedBidCacheTTL \in Nat \cup {Null}
  /\ received \in SUBSET CachedBids /\ IsFiniteSet(received)

(* No bid's lifetime is shorter than its ttl, and no auction's is shorter   *)
(* than that of a bid it has.                                               *)
LifetimesCover ==
  /\ \A b \in CachedBids :
       /\ Lifetime(b) \in Nat \cup {Null}
       /\ Lifetime(b) # Null => ttl[b] <= Lifetime(b)
  /\ \A a \in Auctions :
       /\ AuctionLifetime(a) \in Nat \cup {Null}
       /\ AuctionLifetime(a) # Null =>
            \A b \in getBidsReceived(a) :
              Lifetime(b) # Null /\ Lifetime(b) <= AuctionLifetime(a)

LEMMA Lifetimes == LifetimeTypes => LifetimesCover
<1>. SUFFICES ASSUME LifetimeTypes PROVE LifetimesCover
  OBVIOUS
<1>1. ASSUME NEW b \in CachedBids
      PROVE  /\ Lifetime(b) \in Nat \cup {Null}
             /\ Lifetime(b) # Null => ttl[b] <= Lifetime(b)
  <2>. DEFINE min == getEffectiveMinBidCacheTTL(b)
  <2>1. min \in Nat \cup {Null} /\ ttl[b] \in Nat /\ Null \notin Nat
    BY BidCacheAssumption DEF getEffectiveMinBidCacheTTL, LifetimeTypes, BidCacheAssumption
  <2>2. Lifetime(b) = IF min = Null THEN Null ELSE Max({min, ttl[b]})
    BY DEF Lifetime
  <2>. HIDE DEF min
  <2>3. CASE min = Null
    BY <2>1, <2>2, <2>3
  <2>4. CASE min # Null /\ min <= ttl[b]
    <3>1. /\ Max({min, ttl[b]}) \in {min, ttl[b]}
          /\ \A x \in {min, ttl[b]} : x <= Max({min, ttl[b]})
      BY <2>1, <2>4, MaxIs
    <3>. QED  BY <2>1, <2>2, <2>4, <3>1
  <2>5. CASE min # Null /\ ttl[b] <= min
    <3>1. /\ Max({min, ttl[b]}) \in {min, ttl[b]}
          /\ \A x \in {min, ttl[b]} : x <= Max({min, ttl[b]})
      BY <2>1, <2>5, MaxIs
    <3>. QED  BY <2>1, <2>2, <2>5, <3>1
  <2>. QED  BY <2>1, <2>3, <2>4, <2>5
<1>2. ASSUME NEW a \in Auctions
      PROVE  /\ AuctionLifetime(a) \in Nat \cup {Null}
             /\ AuctionLifetime(a) # Null =>
                  \A b \in getBidsReceived(a) :
                    Lifetime(b) # Null /\ Lifetime(b) <= AuctionLifetime(a)
  <2>1. CASE getBidsReceived(a) = {} \/ \E b \in getBidsReceived(a) : Lifetime(b) = Null
    BY <2>1 DEF AuctionLifetime, LifetimeTypes
  <2>2. CASE getBidsReceived(a) # {} /\ \A b \in getBidsReceived(a) : Lifetime(b) # Null
    <3>. DEFINE I == getBidsReceived(a)
                f == [b \in I |-> Lifetime(b)]
                S == {Lifetime(b) : b \in I}
    <3>1. I \subseteq CachedBids /\ IsFiniteSet(I)
      BY FS_Subset DEF getBidsReceived, LifetimeTypes
    <3>2. f \in [I -> Nat]
      BY <1>1, <2>2, <3>1
    <3>3. PICK x \in I : \A y \in I : f[y] <= f[x]
      BY <2>2, <3>1, <3>2, LargestExists
    <3>4. S \in SUBSET Nat /\ f[x] \in S /\ \A y \in S : y <= f[x]
      BY <3>2, <3>3
    <3>5. Max(S) \in S /\ \A y \in S : y <= Max(S)
      BY <3>4, MaxIs
    <3>6. AuctionLifetime(a) = Max(S)
      BY <2>2 DEF AuctionLifetime
    <3>. QED  BY <2>2, <3>4, <3>5, <3>6
  <2>. QED  BY <2>1, <2>2
<1>. QED  BY <1>1, <1>2 DEF LifetimesCover

LEMMA LifetimesNext == LifetimeTypes' => LifetimesCover'
BY Lifetimes, PTL

-----------------------------------------------------------------------------
(* A bid in a collection goes no sooner than its ttl and, until it is       *)
(* rendered, exactly when its lifetime says.                                *)
BidKept(b) ==
  /\ responseTimestamp[b] # Null /\ responseTimestamp[b] <= now
  /\ bidExpiry[b] # Null => responseTimestamp[b] + ttl[b] <= bidExpiry[b]
  /\ status[b] # "rendered" =>
       bidExpiry[b] = After(responseTimestamp[b], Lifetime(b))

(* An auction goes no sooner than the bids that came before its end may.    *)
AuctionKept(a) ==
  /\ auctionEnd[a] = Null => auctionExpiry[a] = Null
  /\ a \in auctions =>
       \A b \in getBidsReceived(a) \ late :
         /\ auctionEnd[a] # Null => responseTimestamp[b] <= auctionEnd[a]
         /\ auctionExpiry[a] # Null =>
              /\ responseTimestamp[b] + ttl[b] <= auctionExpiry[a]
              /\ status[b] # "rendered" =>
                   /\ Lifetime(b) # Null
                   /\ responseTimestamp[b] + Lifetime(b) <= auctionExpiry[a]

KInv ==
  /\ CacheTypeOK /\ IsFiniteSet(received)
  /\ \A b \in received : BidKept(b)
  /\ \A a \in Auctions : AuctionKept(a)

LEMMA InitKInv == CacheInit => KInv
<1>. SUFFICES ASSUME CacheInit PROVE KInv
  OBVIOUS
<1>1. CacheTypeOK
  BY BidCacheAssumption DEF CacheInit, CacheTypeOK, Time, Expiry, BidCacheAssumption
<1>2. received = {} /\ IsFiniteSet(received)
  BY FS_EmptySet DEF CacheInit
<1>. QED
  BY <1>1, <1>2 DEF KInv, BidKept, AuctionKept, getBidsReceived, CacheInit

LEMMA KInvTypes ==
  CacheTypeOK /\ IsFiniteSet(received) => LifetimeTypes /\ LifetimesCover
<1>1. CacheTypeOK /\ IsFiniteSet(received) => LifetimeTypes
  BY BidCacheAssumption DEF CacheTypeOK, BidCacheAssumption, LifetimeTypes
<1>. QED  BY <1>1, Lifetimes

LEMMA SameLifetime ==
  ASSUME NEW b \in CachedBids, UNCHANGED settings, status'[b] = status[b]
  PROVE  Lifetime(b)' = Lifetime(b)
BY DEF Lifetime, getEffectiveMinBidCacheTTL, settings

(* Time passes; bids, or whole auctions with their bids, are removed.       *)
LEMMA RemovalKInv ==
  ASSUME KInv,
         now' \in 0 .. MaxTime, now <= now', auctions' \subseteq auctions,
         received' \subseteq {b \in received : AuctionOf[b] \in auctions'},
         vastLocalCache' \subseteq vastLocalCache,
         UNCHANGED <<settings, auctionEnd, auctionExpiry, responseTimestamp, status,
                     bidExpiry, late>>
  PROVE  KInv'
<1>1. CacheTypeOK'
  BY DEF KInv, CacheTypeOK, Time, settings
<1>2. IsFiniteSet(received')
  BY FS_Subset DEF KInv
<1>3. \A b \in CachedBids : Lifetime(b)' = Lifetime(b)
  BY SameLifetime
<1>4. ASSUME NEW b \in received' PROVE BidKept(b)'
  <2>1. BidKept(b) /\ b \in CachedBids
    BY DEF KInv, CacheTypeOK
  <2>2. responseTimestamp[b] \in Nat /\ now \in Nat
    BY <2>1 DEF KInv, CacheTypeOK, Time, BidKept
  <2>. QED  BY <1>3, <2>1, <2>2 DEF BidKept, After
<1>5. ASSUME NEW a \in Auctions PROVE AuctionKept(a)'
  <2>1. AuctionKept(a) /\ getBidsReceived(a)' \subseteq getBidsReceived(a) /\ getBidsReceived(a) \subseteq CachedBids
    BY DEF KInv, getBidsReceived, CacheTypeOK
  <2>. QED  BY <1>3, <2>1 DEF AuctionKept
<1>. QED  BY <1>1, <1>2, <1>4, <1>5 DEF KInv

LEMMA BidReceivedKInv ==
  ASSUME KInv, NEW b \in CachedBids, BidReceived(b)
  PROVE  KInv'
<1>. USE BidCacheAssumption DEF BidCacheAssumption
<1>0. LifetimesCover
  BY KInvTypes DEF KInv
<1>1. /\ UNCHANGED <<now, settings, auctions, auctionEnd, auctionExpiry, status>>
      /\ responseTimestamp[b] = Null
      /\ responseTimestamp' = [responseTimestamp EXCEPT ![b] = now]
      /\ bidExpiry' = [bidExpiry EXCEPT ![b] = After(now, Lifetime(b))]
      /\ late' = IF auctionEnd[AuctionOf[b]] = Null THEN late ELSE late \cup {b}
      /\ vastLocalCache' = vastLocalCache \cup {b}
  BY DEF BidReceived
<1>2. received' = IF AuctionOf[b] \in auctions THEN received \cup {b} ELSE received
  BY DEF BidReceived
<1>3. /\ now \in Nat /\ now # Null /\ ttl[b] \in Nat /\ AuctionOf[b] \in Auctions
      /\ Lifetime(b) # Null => Lifetime(b) \in Nat /\ ttl[b] <= Lifetime(b)
  BY <1>0 DEF LifetimesCover, KInv, CacheTypeOK, Time
<1>4. After(now, Lifetime(b)) \in Nat \cup {Null}
  BY <1>3 DEF After
<1>5. CacheTypeOK'
  <2>. USE DEF KInv, CacheTypeOK
  <2>1. responseTimestamp' \in [CachedBids -> Time \cup {Null}]
        /\ bidExpiry' \in [CachedBids -> Expiry]
    BY <1>1, <1>4 DEF Expiry
  <2>2. received' \subseteq {c \in CachedBids : AuctionOf[c] \in auctions'}
    BY <1>1, <1>2
  <2>3. late' \subseteq CachedBids /\ vastLocalCache' \subseteq CachedBids
    BY <1>1
  <2>. QED  BY <1>1, <2>1, <2>2, <2>3 DEF settings
<1>6. IsFiniteSet(received')
  BY <1>2, FS_AddElement DEF KInv
<1>7. \A c \in CachedBids : Lifetime(c)' = Lifetime(c)
  BY <1>1, SameLifetime
<1>8. received \subseteq CachedBids /\ b \notin received
  BY <1>1 DEF KInv, CacheTypeOK, BidKept
<1>9. ASSUME NEW c \in received' PROVE BidKept(c)'
  <2>1. CASE c = b
    <3>1. responseTimestamp'[b] = now /\ bidExpiry'[b] = After(now, Lifetime(b))
      BY <1>1 DEF KInv, CacheTypeOK
    <3>2. BidKept(b)'
      BY <1>1, <1>3, <1>7, <3>1 DEF BidKept, After
    <3>. QED  BY <2>1, <3>2
  <2>2. CASE c # b
    <3>1. BidKept(c) /\ c \in CachedBids
      BY <1>2, <1>8, <2>2 DEF KInv
    <3>2. responseTimestamp'[c] = responseTimestamp[c] /\ bidExpiry'[c] = bidExpiry[c]
      BY <1>1, <2>2, <3>1 DEF KInv, CacheTypeOK
    <3>. QED  BY <1>1, <1>7, <3>1, <3>2 DEF BidKept, After
  <2>. QED  BY <2>1, <2>2
<1>10. ASSUME NEW a \in Auctions PROVE AuctionKept(a)'
  <2>0. AuctionKept(a)
    BY DEF KInv
  <2>1. ASSUME a \in auctions, NEW c \in getBidsReceived(a)' \ late'
        PROVE  /\ auctionEnd[a] # Null => responseTimestamp'[c] <= auctionEnd[a]
               /\ auctionExpiry[a] # Null =>
                    /\ responseTimestamp'[c] + ttl[c] <= auctionExpiry[a]
                    /\ status[c] # "rendered" =>
                         /\ Lifetime(c) # Null
                         /\ responseTimestamp'[c] + Lifetime(c) <= auctionExpiry[a]
    <3>1. CASE c = b
      <4>1. auctionEnd[a] = Null
        BY <1>1, <2>1, <3>1 DEF getBidsReceived
      <4>. QED  BY <2>0, <4>1 DEF AuctionKept
    <3>2. CASE c # b
      <4>1. c \in getBidsReceived(a) \ late /\ c \in CachedBids
        BY <1>1, <1>2, <1>8, <2>1, <3>2 DEF getBidsReceived
      <4>2. responseTimestamp'[c] = responseTimestamp[c]
        BY <1>1, <3>2, <4>1 DEF KInv, CacheTypeOK
      <4>. QED  BY <2>0, <2>1, <4>1, <4>2 DEF AuctionKept
    <3>. QED  BY <3>1, <3>2
  <2>2. \A c \in getBidsReceived(a)' : c \in CachedBids
    BY <1>2, <1>8 DEF getBidsReceived
  <2>. QED  BY <1>1, <1>7, <2>0, <2>1, <2>2 DEF AuctionKept
<1>. QED  BY <1>5, <1>6, <1>9, <1>10 DEF KInv

(* Expiries are taken anew, those of the bids of as and of every auction.   *)
LEMMA RefreshKInv ==
  ASSUME KInv, NEW as \in SUBSET Auctions,
         minCacheTTL' \in MinTTLs, minTargetedBidCacheTTL' \in MinTargeted,
         status' \in [CachedBids -> {"none", "targetingSet", "rendered"}],
         \A b \in CachedBids : status[b] = "rendered" => status'[b] = "rendered",
         \A b \in received : AuctionOf[b] \notin as =>
           Lifetime(b)' = Lifetime(b) /\ status'[b] = status[b],
         UNCHANGED <<now, auctions, auctionEnd, received, responseTimestamp, late,
                     vastLocalCache>>,
         RefreshBids(as), RefreshAuctions
  PROVE  KInv'
<1>. USE BidCacheAssumption DEF BidCacheAssumption
<1>0. /\ responseTimestamp \in [CachedBids -> Time \cup {Null}]
      /\ auctionEnd \in [Auctions -> Time \cup {Null}]
      /\ bidExpiry \in [CachedBids -> Expiry] /\ auctionExpiry \in [Auctions -> Expiry]
      /\ received \subseteq CachedBids /\ \A b \in received : AuctionOf[b] \in auctions
      /\ Time \subseteq Nat
  BY DEF KInv, CacheTypeOK, Time
<1>1. LifetimeTypes'
  BY DEF KInv, CacheTypeOK, LifetimeTypes
<1>2. LifetimesCover'
  BY <1>1, LifetimesNext
<1>3. /\ \A b \in CachedBids :
           /\ Lifetime(b)' \in Nat \cup {Null}
           /\ Lifetime(b)' # Null => ttl[b] <= Lifetime(b)'
      /\ \A a \in Auctions :
           /\ AuctionLifetime(a)' \in Nat \cup {Null}
           /\ AuctionLifetime(a)' # Null =>
                \A b \in getBidsReceived(a)' :
                  Lifetime(b)' # Null /\ Lifetime(b)' <= AuctionLifetime(a)'
  BY <1>2 DEF LifetimesCover
<1>4. \A start \in Time \cup {Null}, lifetime \in Nat \cup {Null} :
        After(start, lifetime) \in Expiry
  BY <1>0 DEF After, Expiry
<1>5. /\ bidExpiry' = [b \in CachedBids |->
             IF b \in received' /\ AuctionOf[b] \in as
               THEN After(responseTimestamp'[b], Lifetime(b)') ELSE bidExpiry[b]]
      /\ auctionExpiry' = [a \in Auctions |->
             IF a \in auctions' THEN After(auctionEnd'[a], AuctionLifetime(a)')
                                ELSE auctionExpiry[a]]
  BY DEF RefreshBids, RefreshAuctions
<1>6. bidExpiry' \in [CachedBids -> Expiry] /\ auctionExpiry' \in [Auctions -> Expiry]
  BY <1>0, <1>3, <1>4, <1>5
<1>7. CacheTypeOK'
  BY <1>6 DEF KInv, CacheTypeOK
<1>8. ASSUME NEW b \in received' PROVE BidKept(b)'
  <2>1. BidKept(b) /\ b \in CachedBids /\ b \in received
    BY <1>0, <1>8 DEF KInv
  <2>2. responseTimestamp[b] \in Nat /\ ttl[b] \in Nat
    BY <1>0, <2>1 DEF BidKept
  <2>3. CASE AuctionOf[b] \in as
    <3>1. bidExpiry'[b] = After(responseTimestamp[b], Lifetime(b)')
      BY <1>5, <2>1, <2>3
    <3>2. bidExpiry'[b] # Null => responseTimestamp[b] + ttl[b] <= bidExpiry'[b]
      BY <1>3, <2>1, <2>2, <3>1 DEF After
    <3>. QED  BY <2>1, <3>1, <3>2 DEF BidKept
  <2>4. CASE AuctionOf[b] \notin as
    <3>1. bidExpiry'[b] = bidExpiry[b]
      BY <1>5, <2>1, <2>4
    <3>. QED  BY <2>1, <2>4, <3>1 DEF BidKept
  <2>. QED  BY <2>3, <2>4
<1>9. ASSUME NEW a \in Auctions PROVE AuctionKept(a)'
  <2>1. AuctionKept(a)
    BY DEF KInv
  <2>2. CASE a \in auctions
    <3>1. auctionExpiry'[a] = After(auctionEnd[a], AuctionLifetime(a)')
      BY <1>5, <2>2
    <3>2. ASSUME NEW b \in getBidsReceived(a)' \ late'
          PROVE  /\ auctionEnd[a] # Null => responseTimestamp[b] <= auctionEnd[a]
                 /\ auctionExpiry'[a] # Null =>
                      /\ responseTimestamp[b] + ttl[b] <= auctionExpiry'[a]
                      /\ Lifetime(b)' # Null
                      /\ responseTimestamp[b] + Lifetime(b)' <= auctionExpiry'[a]
      <4>1. b \in getBidsReceived(a) \ late /\ b \in received /\ b \in CachedBids
        BY <1>0, <3>2 DEF getBidsReceived
      <4>2. auctionEnd[a] # Null => responseTimestamp[b] <= auctionEnd[a]
        BY <2>1, <2>2, <4>1 DEF AuctionKept
      <4>3. ASSUME auctionExpiry'[a] # Null
            PROVE  /\ responseTimestamp[b] + ttl[b] <= auctionExpiry'[a]
                   /\ Lifetime(b)' # Null
                   /\ responseTimestamp[b] + Lifetime(b)' <= auctionExpiry'[a]
        <5>1. /\ auctionEnd[a] # Null /\ AuctionLifetime(a)' # Null
              /\ auctionExpiry'[a] = auctionEnd[a] + AuctionLifetime(a)'
          BY <3>1, <4>3 DEF After
        <5>2. /\ Lifetime(b)' # Null
              /\ Lifetime(b)' <= AuctionLifetime(a)' /\ ttl[b] <= Lifetime(b)'
          BY <1>3, <3>2, <4>1, <5>1
        <5>3. /\ responseTimestamp[b] \in Nat /\ ttl[b] \in Nat /\ auctionEnd[a] \in Nat
              /\ Lifetime(b)' \in Nat /\ AuctionLifetime(a)' \in Nat
          <6>1. responseTimestamp[b] # Null
            BY <4>1 DEF KInv, BidKept
          <6>. QED  BY <1>0, <1>3, <4>1, <5>1, <5>2, <6>1
        <5>. QED  BY <4>2, <5>1, <5>2, <5>3
      <4>. QED  BY <4>2, <4>3
    <3>3. auctionEnd[a] = Null => auctionExpiry'[a] = Null
      BY <3>1 DEF After
    <3>. QED  BY <3>2, <3>3 DEF AuctionKept
  <2>3. CASE a \notin auctions
    <3>1. auctionExpiry'[a] = auctionExpiry[a]
      BY <1>5, <2>3
    <3>. QED  BY <2>1, <2>3, <3>1 DEF AuctionKept
  <2>. QED  BY <2>2, <2>3
<1>. QED  BY <1>7, <1>8, <1>9 DEF KInv

LEMMA SetTargetingKInv ==
  ASSUME KInv, NEW b \in CachedBids, SetTargeting(b)
  PROVE  KInv'
<1>. USE BidCacheAssumption DEF BidCacheAssumption
<1>1. /\ b \in received /\ status[b] # "rendered"
      /\ status' = [status EXCEPT ![b] = "targetingSet"]
      /\ UNCHANGED <<now, settings, auctions, auctionEnd, received, responseTimestamp,
                     late, vastLocalCache>>
      /\ RefreshBids({AuctionOf[b]}) /\ RefreshAuctions
  BY DEF SetTargeting
<1>2. /\ status \in [CachedBids -> {"none", "targetingSet", "rendered"}]
      /\ received \subseteq CachedBids /\ minCacheTTL \in MinTTLs
      /\ minTargetedBidCacheTTL \in MinTargeted
  BY DEF KInv, CacheTypeOK
<1>3. minCacheTTL' \in MinTTLs /\ minTargetedBidCacheTTL' \in MinTargeted
  BY <1>1, <1>2 DEF settings
<1>4. \A c \in received : AuctionOf[c] \notin {AuctionOf[b]} =>
        Lifetime(c)' = Lifetime(c) /\ status'[c] = status[c]
  BY <1>1, <1>2, SameLifetime
<1>5. /\ status' \in [CachedBids -> {"none", "targetingSet", "rendered"}]
      /\ \A c \in CachedBids : status[c] = "rendered" => status'[c] = "rendered"
  BY <1>1, <1>2
<1>6. {AuctionOf[b]} \in SUBSET Auctions
  OBVIOUS
<1>. QED  BY <1>1, <1>3, <1>4, <1>5, <1>6, RefreshKInv

LEMMA ConfigureKInv ==
  ASSUME KInv, SetTTLs
  PROVE  KInv'
<1>1. /\ minCacheTTL' \in MinTTLs /\ minTargetedBidCacheTTL' \in MinTargeted
      /\ UNCHANGED <<now, auctions, auctionEnd, received, responseTimestamp, status,
                     late, vastLocalCache>>
      /\ RefreshBids(auctions) /\ RefreshAuctions
  BY DEF SetTTLs
<1>2. /\ status \in [CachedBids -> {"none", "targetingSet", "rendered"}]
      /\ auctions \in SUBSET Auctions /\ \A b \in received : AuctionOf[b] \in auctions
  BY DEF KInv, CacheTypeOK
<1>. QED  BY <1>1, <1>2, RefreshKInv

LEMMA AuctionEndKInv ==
  ASSUME KInv, NEW a \in Auctions, AuctionEnd(a)
  PROVE  KInv'
<1>. USE BidCacheAssumption DEF BidCacheAssumption
<1>0. LifetimesCover
  BY KInvTypes DEF KInv
<1>1. /\ auctionEnd[a] = Null
      /\ auctionEnd' = [auctionEnd EXCEPT ![a] = now]
      /\ auctionExpiry' =
           [auctionExpiry EXCEPT ![a] = After(now, AuctionLifetime(a))]
      /\ UNCHANGED <<now, settings, auctions, received, responseTimestamp, status,
                     bidExpiry, late, vastLocalCache>>
  BY DEF AuctionEnd
<1>2. /\ now \in Time /\ now \in Nat /\ received \subseteq CachedBids
      /\ auctionEnd \in [Auctions -> Time \cup {Null}]
      /\ auctionExpiry \in [Auctions -> Expiry]
      /\ responseTimestamp \in [CachedBids -> Time \cup {Null}] /\ Time \subseteq Nat
  BY DEF KInv, CacheTypeOK, Time
<1>3. After(now, AuctionLifetime(a)) \in Expiry
  BY <1>0, <1>2 DEF LifetimesCover, After, Expiry
<1>4. CacheTypeOK' /\ IsFiniteSet(received')
  BY <1>1, <1>2, <1>3 DEF KInv, CacheTypeOK, settings
<1>5. \A b \in CachedBids : Lifetime(b)' = Lifetime(b)
  BY <1>1, SameLifetime
<1>6. ASSUME NEW b \in received' PROVE BidKept(b)'
  BY <1>1, <1>2, <1>5 DEF KInv, BidKept, After
<1>7. ASSUME NEW c \in Auctions PROVE AuctionKept(c)'
  <2>1. AuctionKept(c) /\ getBidsReceived(c)' = getBidsReceived(c) /\ getBidsReceived(c) \subseteq received
    BY <1>1 DEF KInv, getBidsReceived
  <2>2. CASE c # a
    <3>1. auctionEnd'[c] = auctionEnd[c] /\ auctionExpiry'[c] = auctionExpiry[c]
      BY <1>1, <1>2, <2>2
    <3>2. \A b \in getBidsReceived(c) : Lifetime(b)' = Lifetime(b)
      BY <1>2, <1>5, <2>1
    <3>. QED  BY <1>1, <2>1, <3>1, <3>2 DEF AuctionKept
  <2>3. CASE c = a
    <3>1. auctionEnd'[a] = now /\ auctionExpiry'[a] = After(now, AuctionLifetime(a))
      BY <1>1, <1>2
    <3>2. ASSUME NEW b \in getBidsReceived(a)
          PROVE  /\ responseTimestamp[b] <= now
                 /\ auctionExpiry'[a] # Null =>
                      /\ responseTimestamp[b] + ttl[b] <= auctionExpiry'[a]
                      /\ Lifetime(b)' # Null
                      /\ responseTimestamp[b] + Lifetime(b)' <= auctionExpiry'[a]
      <4>1. b \in CachedBids /\ BidKept(b)
        BY <1>2, <2>1, <2>3, <3>2 DEF KInv
      <4>2. responseTimestamp[b] \in Nat /\ responseTimestamp[b] <= now /\ ttl[b] \in Nat
        BY <1>2, <4>1 DEF BidKept
      <4>3. ASSUME auctionExpiry'[a] # Null
            PROVE  /\ responseTimestamp[b] + ttl[b] <= auctionExpiry'[a]
                   /\ Lifetime(b)' # Null
                   /\ responseTimestamp[b] + Lifetime(b)' <= auctionExpiry'[a]
        <5>1. /\ AuctionLifetime(a) # Null
              /\ auctionExpiry'[a] = now + AuctionLifetime(a)
          BY <3>1, <4>3 DEF After
        <5>2. /\ Lifetime(b) \in Nat /\ AuctionLifetime(a) \in Nat
              /\ ttl[b] <= Lifetime(b) /\ Lifetime(b) <= AuctionLifetime(a)
          BY <1>0, <3>2, <4>1, <5>1 DEF LifetimesCover
        <5>3. Lifetime(b)' = Lifetime(b) /\ Lifetime(b) # Null
          BY <1>5, <4>1, <5>2
        <5>. QED  BY <1>2, <4>2, <5>1, <5>2, <5>3
      <4>. QED  BY <4>2, <4>3
    <3>3. auctionEnd'[a] # Null
      BY <1>2, <3>1
    <3>. QED  BY <1>1, <2>1, <2>3, <3>2, <3>3 DEF AuctionKept
  <2>. QED  BY <2>2, <2>3
<1>. QED  BY <1>4, <1>6, <1>7 DEF KInv

LEMMA MarkAsRenderedKInv ==
  ASSUME KInv, NEW b \in CachedBids, MarkAsRendered(b)
  PROVE  KInv'
<1>1. /\ status' = [status EXCEPT ![b] = "rendered"]
      /\ UNCHANGED <<now, settings, auctions, auctionEnd, auctionExpiry, received,
                     responseTimestamp, bidExpiry, late, vastLocalCache>>
  BY DEF MarkAsRendered
<1>2. /\ status \in [CachedBids -> {"none", "targetingSet", "rendered"}] /\ received \subseteq CachedBids
  BY DEF KInv, CacheTypeOK
<1>3. CacheTypeOK' /\ IsFiniteSet(received')
  BY <1>1 DEF KInv, CacheTypeOK, settings
<1>4. \A c \in CachedBids : \/ status'[c] = "rendered"
                            \/ status'[c] = status[c] /\ Lifetime(c)' = Lifetime(c)
  BY <1>1, <1>2, SameLifetime
<1>5. ASSUME NEW c \in received' PROVE BidKept(c)'
  BY <1>1, <1>2, <1>4 DEF KInv, BidKept, After
<1>6. ASSUME NEW a \in Auctions PROVE AuctionKept(a)'
  <2>1. AuctionKept(a) /\ getBidsReceived(a)' = getBidsReceived(a) /\ getBidsReceived(a) \subseteq CachedBids
    BY <1>1, <1>2 DEF KInv, getBidsReceived
  <2>. QED  BY <1>1, <1>4, <2>1 DEF AuctionKept
<1>. QED  BY <1>3, <1>5, <1>6 DEF KInv

LEMMA NextKInv ==
  KInv /\ [CacheNext]_cacheVars => KInv'
<1>. SUFFICES ASSUME KInv, [CacheNext]_cacheVars PROVE KInv'
  OBVIOUS
<1>0. now \in 0 .. MaxTime /\ now \in Nat
      /\ received \subseteq {b \in received : AuctionOf[b] \in auctions}
  BY BidCacheAssumption DEF KInv, CacheTypeOK, Time, BidCacheAssumption
<1>1. ASSUME NEW a \in Auctions, AuctionEnd(a) PROVE KInv'
  BY <1>1, AuctionEndKInv
<1>2. ASSUME NEW a \in Auctions, PurgeBids(a) PROVE KInv'
  <2>1. /\ UNCHANGED <<now, settings, auctions, auctionEnd, auctionExpiry,
                       responseTimestamp, status, bidExpiry, late, vastLocalCache>>
        /\ received' \subseteq received
    BY <1>2 DEF PurgeBids
  <2>. QED  BY <1>0, <2>1, RemovalKInv
<1>3. ASSUME NEW b \in CachedBids, BidReceived(b) PROVE KInv'
  BY <1>3, BidReceivedKInv
<1>4. ASSUME NEW b \in CachedBids, SetTargeting(b) PROVE KInv'
  BY <1>4, SetTargetingKInv
<1>5. ASSUME NEW b \in CachedBids, MarkAsRendered(b) PROVE KInv'
  BY <1>5, MarkAsRenderedKInv
<1>6. CASE SetTTLs
  BY <1>6, ConfigureKInv
<1>7. CASE PurgeAuctions
  <2>1. \E expired \in SUBSET auctions :
          /\ auctions' = auctions \ expired
          /\ received' = {b \in received : AuctionOf[b] \notin expired}
    BY <1>7 DEF PurgeAuctions
  <2>2. /\ UNCHANGED <<now, settings, auctionEnd, auctionExpiry, responseTimestamp,
                       status, bidExpiry, late>>
        /\ vastLocalCache' \subseteq vastLocalCache
    BY <1>7 DEF PurgeAuctions
  <2>3. auctions' \subseteq auctions /\ received' \subseteq {b \in received : AuctionOf[b] \in auctions'}
    BY <1>0, <2>1
  <2>. QED  BY <1>0, <2>2, <2>3, RemovalKInv
<1>8. CASE ClearAllAuctions
  BY <1>0, <1>8, RemovalKInv DEF ClearAllAuctions
<1>9. CASE Tick
  <2>1. now' \in 0 .. MaxTime /\ now <= now'
    BY <1>0, <1>9, BidCacheAssumption DEF Tick, BidCacheAssumption
  <2>. QED  BY <1>0, <1>9, <2>1, RemovalKInv DEF Tick
<1>10. CASE UNCHANGED cacheVars
  BY <1>0, <1>10, RemovalKInv DEF cacheVars
<1>. QED
  BY <1>1, <1>2, <1>3, <1>4, <1>5, <1>6, <1>7, <1>8, <1>9, <1>10 DEF CacheNext

LEMMA KInvariance == CacheSpec => []KInv
BY InitKInv, NextKInv, PTL DEF CacheSpec

(* Every bid that can be found has its blob: only the bids of auctions that *)
(* are removed lose theirs.                                                 *)
THEOREM BidsHaveTheirBlob ==
  CacheSpec => []FoundHasBlob
<1>1. CacheInit => FoundHasBlob
  BY DEF CacheInit, FoundHasBlob
<1>2. FoundHasBlob /\ [CacheNext]_cacheVars => FoundHasBlob'
  BY DEF FoundHasBlob, CacheNext, cacheVars, BidReceived, PurgeBids,
     AuctionEnd, SetTargeting, MarkAsRendered, SetTTLs,
     PurgeAuctions, ClearAllAuctions, Tick, cleanedUp
<1>. QED  BY <1>1, <1>2, PTL DEF CacheSpec

KeptStep ==
  PurgeAuctions \/ (\E a \in Auctions : PurgeBids(a)) =>
    \A b \in received \ (received' \cup late) :
      /\ now >= responseTimestamp[b] + ttl[b]
      /\ status[b] # "rendered" =>
           Lifetime(b) # Null /\ now >= responseTimestamp[b] + Lifetime(b)

LEMMA StepKept == KInv => KeptStep
<1>. SUFFICES ASSUME KInv, PurgeAuctions \/ (\E a \in Auctions : PurgeBids(a)),
                     NEW b \in received \ (received' \cup late)
              PROVE  /\ now >= responseTimestamp[b] + ttl[b]
                     /\ status[b] # "rendered" =>
                          Lifetime(b) # Null /\ now >= responseTimestamp[b] + Lifetime(b)
  BY DEF KeptStep
<1>. USE BidCacheAssumption DEF BidCacheAssumption
<1>1. /\ b \in CachedBids /\ AuctionOf[b] \in auctions /\ AuctionOf[b] \in Auctions
      /\ BidKept(b) /\ AuctionKept(AuctionOf[b])
  BY DEF KInv, CacheTypeOK
<1>2. /\ now \in Nat /\ responseTimestamp[b] \in Nat /\ ttl[b] \in Nat
      /\ bidExpiry[b] \in Nat \cup {Null} /\ auctionExpiry[AuctionOf[b]] \in Nat \cup {Null}
      /\ Lifetime(b) \in Nat \cup {Null}
  <2>1. LifetimesCover
    BY KInvTypes DEF KInv
  <2>2. responseTimestamp[b] # Null
    BY <1>1 DEF BidKept
  <2>. QED  BY <1>1, <2>1, <2>2 DEF LifetimesCover, KInv, CacheTypeOK, Time, Expiry
<1>3. CASE PurgeAuctions
  <2>1. auctionExpiry[AuctionOf[b]] # Null /\ auctionExpiry[AuctionOf[b]] <= now
    BY <1>3 DEF PurgeAuctions, Expired
  <2>2. b \in getBidsReceived(AuctionOf[b]) \ late
    BY DEF getBidsReceived
  <2>. QED  BY <1>1, <1>2, <2>1, <2>2 DEF AuctionKept
<1>4. ASSUME NEW a \in Auctions, PurgeBids(a)
      PROVE  /\ now >= responseTimestamp[b] + ttl[b]
             /\ status[b] # "rendered" =>
                  Lifetime(b) # Null /\ now >= responseTimestamp[b] + Lifetime(b)
  <2>1. bidExpiry[b] # Null /\ bidExpiry[b] <= now
    BY <1>4 DEF PurgeBids, Expired
  <2>. QED  BY <1>1, <1>2, <2>1 DEF BidKept, After
<1>. QED  BY <1>3, <1>4

(* Time never takes away a bid that came in time before its ttl and, while  *)
(* it is not rendered, before the minimum that the page has set last.       *)
THEOREM BidsAreKept ==
  CacheSpec => KeptLongEnough
<1>1. KInv /\ [CacheNext]_cacheVars =>
        [PurgeAuctions \/ (\E a \in Auctions : PurgeBids(a)) =>
           \A b \in received \ (received' \cup late) :
             /\ now >= responseTimestamp[b] + ttl[b]
             /\ status[b] # "rendered" =>
                  Lifetime(b) # Null /\ now >= responseTimestamp[b] + Lifetime(b)]_cacheVars
  BY StepKept DEF KeptStep
<1>. QED  BY <1>1, KInvariance, PTL DEF CacheSpec, KeptLongEnough
=============================================================================
