------------------------ MODULE RequestQueue_proofs ------------------------
(***************************************************************************)
(* Theorems about RequestQueue.                                            *)
(***************************************************************************)
EXTENDS RequestQueue, FiniteSetTheorems, TLAPS

\* An auction that has not run has sent nothing.
Fresh ==
  \A h \in Https : phase[AuctionOf[h]] \in {"new", "queued"} => http[h] = "unsent"

IInv == TypeOK /\ CountExact /\ Fresh /\ QueuedOnce

-----------------------------------------------------------------------------
(* The requests in flight to an origin are finitely many. *)
LEMMA InFlightFinite ==
  ASSUME NEW o
  PROVE  IsFiniteSet(InFlight(o)) /\ Cardinality(InFlight(o)) \in Nat
<1>1. InFlight(o) \subseteq Https
  BY DEF InFlight
<1>2. IsFiniteSet(InFlight(o))
  BY <1>1, QueueAssumption, FS_Subset DEF QueueAssumption
<1>. QED  BY <1>2, FS_CardinalityType

(* A source is expected to make at least one request, and never more than   *)
(* the limit: an origin without requests in flight always has capacity.     *)
LEMMA ExpectedFits ==
  ASSUME TypeOK, NEW a \in Auctions, NEW s \in Sources
  PROVE  expected(a, s) \in 0..MaxRequests
BY QueueAssumption DEF QueueAssumption, TypeOK, expected

(* Init establishes the invariant. *)
LEMMA InitInv == Init => IInv
<1>. SUFFICES ASSUME Init PROVE IInv
  OBVIOUS
<1>. USE QueueAssumption DEF QueueAssumption, Init
<1>1. TypeOK
  BY DEF TypeOK
<1>2. CountExact
  <2>. SUFFICES ASSUME NEW o \in Origins PROVE outstanding[o] = Cardinality(InFlight(o))
    BY DEF CountExact
  <2>1. InFlight(o) = {}
    BY DEF InFlight
  <2>. QED  BY <2>1, FS_EmptySet
<1>3. Fresh /\ QueuedOnce
  BY DEF Fresh, QueuedOnce
<1>. QED  BY <1>1, <1>2, <1>3 DEF IInv

(* Sending a request adds it to those in flight to its origin only. *)
LEMMA RequestCounts ==
  ASSUME TypeOK, CountExact, NEW h \in Https, Request(h)
  PROVE  CountExact'
<1>. USE QueueAssumption DEF QueueAssumption, TypeOK
<1>. SUFFICES ASSUME NEW o \in Origins PROVE outstanding'[o] = Cardinality(InFlight(o)')
  BY DEF CountExact
<1>0. outstanding[o] = Cardinality(InFlight(o))
  BY DEF CountExact
<1>1. CASE o = OriginOf[h]
  <2>1. InFlight(o)' = InFlight(o) \cup {h} /\ h \notin InFlight(o)
    BY <1>1 DEF Request, InFlight
  <2>2. Cardinality(InFlight(o)') = Cardinality(InFlight(o)) + 1
    <3>1. IsFiniteSet(InFlight(o))
      BY InFlightFinite
    <3>2. Cardinality(InFlight(o) \cup {h}) = Cardinality(InFlight(o)) + 1
      BY <2>1, <3>1, FS_AddElement
    <3>. QED  BY <2>1, <3>2
  <2>3. outstanding'[o] = outstanding[o] + 1
    BY <1>1 DEF Request
  <2>. QED  BY <1>0, <2>2, <2>3
<1>2. CASE o # OriginOf[h]
  <2>1. InFlight(o)' = InFlight(o)
    BY <1>2 DEF Request, InFlight
  <2>. QED  BY <1>0, <1>2, <2>1 DEF Request
<1>. QED  BY <1>1, <1>2

(* The end of a request takes it out, and the count of its origin, which    *)
(* included it, down by one.                                                *)
LEMMA DoneCounts ==
  ASSUME TypeOK, CountExact, NEW h \in Https, Done(h)
  PROVE  CountExact' /\ outstanding' \in [Origins -> Nat]
<1>. USE QueueAssumption DEF QueueAssumption, TypeOK
<1>1. ASSUME NEW o \in Origins
      PROVE  outstanding'[o] = Cardinality(InFlight(o)') /\ outstanding'[o] \in Nat
  <2>0. outstanding[o] = Cardinality(InFlight(o))
    BY DEF CountExact
  <2>1. CASE o = OriginOf[h]
    <3>1. InFlight(o)' = InFlight(o) \ {h} /\ h \in InFlight(o)
      BY <2>1 DEF Done, InFlight
    <3>2. Cardinality(InFlight(o)') = Cardinality(InFlight(o)) - 1
      BY <3>1, InFlightFinite, FS_RemoveElement
    <3>3. Cardinality(InFlight(o)') \in Nat
      BY <3>1, InFlightFinite, FS_RemoveElement, FS_CardinalityType
    <3>. QED  BY <2>0, <2>1, <3>2, <3>3 DEF Done, countOff
  <2>2. CASE o # OriginOf[h]
    <3>1. InFlight(o)' = InFlight(o)
      BY <2>2 DEF Done, InFlight
    <3>. QED  BY <2>0, <2>2, <3>1 DEF Done, countOff
  <2>. QED  BY <2>1, <2>2
<1>2. outstanding' = [o \in Origins |-> outstanding'[o]]
  BY DEF Done, countOff
<1>3. \A o \in Origins : outstanding'[o] \in Nat
  BY <1>1
<1>4. [o \in Origins |-> outstanding'[o]] \in [Origins -> Nat]
  BY ONLY <1>3
<1>5. outstanding' \in [Origins -> Nat]
  BY ONLY <1>2, <1>4
<1>. QED  BY <1>1, <1>5 DEF CountExact

(* One try at the queue takes out its first auction, which then runs, or    *)
(* leaves everything as it is.                                              *)
LEMMA RunQueuedInv ==
  ASSUME TypeOK, QueuedOnce, runQueued
  PROVE  /\ phase' \in [Auctions -> {"new", "queued", "sending", "sent"}]
         /\ queuedCalls' \in Seq(Auctions)
         /\ QueuedOnce'
         /\ \A a \in Auctions : phase'[a] \in {"new", "queued"} => phase'[a] = phase[a]
<1>. USE DEF TypeOK
<1>1. CASE UNCHANGED <<phase, queuedCalls>>
  BY <1>1 DEF QueuedOnce
<1>2. CASE ~UNCHANGED <<phase, queuedCalls>>
  <2>. DEFINE b == Head(queuedCalls)
  <2>1. /\ queuedCalls # <<>>
        /\ phase' = [phase EXCEPT ![b] = "sending"]
        /\ queuedCalls' = Tail(queuedCalls)
    BY <1>2 DEF runQueued
  <2>2. /\ b \in Auctions /\ b = queuedCalls[1] /\ 1 \in DOMAIN queuedCalls
        /\ queuedCalls' \in Seq(Auctions)
        /\ Len(queuedCalls') = Len(queuedCalls) - 1
        /\ DOMAIN queuedCalls' = 1..Len(queuedCalls')
        /\ DOMAIN queuedCalls = 1..Len(queuedCalls)
        /\ \A n \in DOMAIN queuedCalls' :
             queuedCalls'[n] = queuedCalls[n + 1] /\ n + 1 \in DOMAIN queuedCalls
    BY <2>1
  <2>3. \A a \in Auctions : phase'[a] = IF a = b THEN "sending" ELSE phase[a]
    BY <2>1, <2>2
  <2>. HIDE DEF b
  <2>4. ASSUME NEW a \in Auctions
        PROVE  phase'[a] = "queued" <=> \E n \in DOMAIN queuedCalls' : queuedCalls'[n] = a
    <3>1. CASE a = b
      BY <3>1, <2>2, <2>3 DEF QueuedOnce
    <3>2. CASE a # b
      <4>1. phase'[a] = "queued" <=> \E n \in DOMAIN queuedCalls : queuedCalls[n] = a
        BY <3>2, <2>3 DEF QueuedOnce
      <4>2. ASSUME NEW n \in DOMAIN queuedCalls, queuedCalls[n] = a
            PROVE  n - 1 \in DOMAIN queuedCalls' /\ queuedCalls'[n - 1] = a
        BY <3>2, <2>2, <4>2
      <4>3. ASSUME NEW n \in DOMAIN queuedCalls', queuedCalls'[n] = a
            PROVE  n + 1 \in DOMAIN queuedCalls /\ queuedCalls[n + 1] = a
        BY <2>2, <4>3
      <4>. QED  BY <4>1, <4>2, <4>3
    <3>. QED  BY <3>1, <3>2
  <2>5. \A m, n \in DOMAIN queuedCalls' : queuedCalls'[m] = queuedCalls'[n] => m = n
    BY <2>2 DEF QueuedOnce
  <2>. QED  BY <2>1, <2>2, <2>3, <2>4, <2>5 DEF QueuedOnce
<1>. QED  BY <1>1, <1>2

(* An auction that joins the queue joins it at the end, once. *)
LEMMA AddBidderRequestsInv ==
  ASSUME TypeOK, QueuedOnce, NEW a \in Auctions, AddBidderRequests(a)
  PROVE  /\ phase' \in [Auctions -> {"new", "queued", "sending", "sent"}]
         /\ queuedCalls' \in Seq(Auctions)
         /\ QueuedOnce'
<1>. USE DEF TypeOK
<1>0. \A n \in DOMAIN queuedCalls : queuedCalls[n] # a
  BY DEF AddBidderRequests, QueuedOnce
<1>1. CASE hasCapacity(a, outstanding)
  <2>1. /\ phase' = [phase EXCEPT ![a] = "sending"]
        /\ queuedCalls' = queuedCalls
    BY <1>1 DEF AddBidderRequests
  <2>. QED  BY <1>0, <2>1 DEF QueuedOnce
<1>2. CASE ~hasCapacity(a, outstanding)
  <2>1. /\ phase' = [phase EXCEPT ![a] = "queued"]
        /\ queuedCalls' = Append(queuedCalls, a)
    BY <1>2 DEF AddBidderRequests
  <2>2. /\ queuedCalls' \in Seq(Auctions)
        /\ Len(queuedCalls') = Len(queuedCalls) + 1
        /\ DOMAIN queuedCalls = 1..Len(queuedCalls)
        /\ DOMAIN queuedCalls' = 1..Len(queuedCalls) + 1
        /\ queuedCalls'[Len(queuedCalls) + 1] = a
        /\ \A n \in DOMAIN queuedCalls : queuedCalls'[n] = queuedCalls[n]
    BY <2>1
  <2>3. ASSUME NEW c \in Auctions
        PROVE  phase'[c] = "queued" <=> \E n \in DOMAIN queuedCalls' : queuedCalls'[n] = c
    <3>1. CASE c = a
      <4>1. phase'[c] = "queued"
        BY <3>1, <2>1
      <4>2. Len(queuedCalls) + 1 \in DOMAIN queuedCalls'
        BY <2>2
      <4>. QED  BY <3>1, <4>1, <4>2, <2>2
    <3>2. CASE c # a
      <4>1. phase'[c] = "queued" <=> \E n \in DOMAIN queuedCalls : queuedCalls[n] = c
        BY <3>2, <2>1 DEF QueuedOnce
      <4>. QED  BY <3>2, <4>1, <2>2
    <3>. QED  BY <3>1, <3>2
  <2>4. \A m, n \in DOMAIN queuedCalls' : queuedCalls'[m] = queuedCalls'[n] => m = n
    BY <1>0, <2>2 DEF QueuedOnce
  <2>. QED  BY <2>1, <2>2, <2>3, <2>4 DEF QueuedOnce
<1>. QED  BY <1>1, <1>2

(* Every step preserves the invariant. *)
LEMMA NextInv == IInv /\ [Next]_vars => IInv'
<1>. SUFFICES ASSUME IInv, [Next]_vars PROVE IInv'
  OBVIOUS
<1>. USE QueueAssumption DEF QueueAssumption, IInv
<1>1. ASSUME NEW a \in Auctions, AddBidderRequests(a) PROVE IInv'
  <2>1. CountExact'
    BY <1>1 DEF AddBidderRequests, CountExact, InFlight
  <2>2. Fresh'
    BY <1>1 DEF AddBidderRequests, Fresh, TypeOK
  <2>3. TypeOK' /\ QueuedOnce'
    BY <1>1, AddBidderRequestsInv DEF AddBidderRequests, TypeOK
  <2>. QED  BY <2>1, <2>2, <2>3
<1>2. ASSUME NEW a \in Auctions, SendingOver(a) PROVE IInv'
  BY <1>2 DEF SendingOver, TypeOK, CountExact, InFlight, Fresh, QueuedOnce
<1>3. ASSUME NEW h \in Https, Request(h) PROVE IInv'
  <2>1. CountExact'
    BY <1>3, RequestCounts
  <2>2. TypeOK'
    BY <1>3 DEF Request, TypeOK
  <2>3. Fresh' /\ QueuedOnce'
    BY <1>3 DEF Request, Fresh, QueuedOnce, TypeOK
  <2>. QED  BY <2>1, <2>2, <2>3
<1>4. ASSUME NEW h \in Https, Done(h) PROVE IInv'
  <2>1. CountExact' /\ outstanding' \in [Origins -> Nat]
    BY <1>4, DoneCounts
  <2>2. /\ phase' \in [Auctions -> {"new", "queued", "sending", "sent"}]
        /\ queuedCalls' \in Seq(Auctions)
        /\ QueuedOnce'
        /\ \A a \in Auctions : phase'[a] \in {"new", "queued"} => phase'[a] = phase[a]
    BY <1>4, RunQueuedInv DEF Done
  <2>3. TypeOK'
    BY <1>4, <2>1, <2>2 DEF Done, TypeOK
  <2>4. Fresh'
    BY <1>4, <2>2 DEF Done, Fresh, TypeOK
  <2>. QED  BY <2>1, <2>2, <2>3, <2>4
<1>5. ASSUME UNCHANGED vars PROVE IInv'
  BY <1>5 DEF vars, TypeOK, CountExact, InFlight, Fresh, QueuedOnce
<1>. QED  BY <1>1, <1>2, <1>3, <1>4, <1>5 DEF Next

(* The invariant holds throughout. *)
THEOREM Invariance == Spec => []IInv
<1>. QED  BY InitInv, NextInv, PTL DEF Spec

(* The queue's bookkeeping is well typed; in particular no origin's count   *)
(* ever goes below zero.                                                    *)
THEOREM TypeCorrect == Spec => []TypeOK
<1>1. IInv => TypeOK
  BY DEF IInv
<1>. QED  BY <1>1, Invariance, PTL

(* outstandingRequests counts exactly the requests in flight. *)
THEOREM CountIsExact == Spec => []CountExact
<1>1. IInv => CountExact
  BY DEF IInv
<1>. QED  BY <1>1, Invariance, PTL

(* The queue holds the waiting auctions and no other, each once. *)
THEOREM QueuedExactlyOnce == Spec => []QueuedOnce
<1>1. IInv => QueuedOnce
  BY DEF IInv
<1>. QED  BY <1>1, Invariance, PTL

-----------------------------------------------------------------------------
(* Every auction has a request, and leaves none out. *)
AlwaysSends == ~Elective /\ \A a \in Auctions : RequestsOf(a) # {}

(* An auction without capacity waits for a request in flight. *)
LEMMA NoCapacityMeansFlight ==
  ASSUME TypeOK, NEW out \in [Origins -> Nat], NEW a \in Auctions, ~hasCapacity(a, out)
  PROVE  \E o \in Origins : out[o] > 0
<1>. USE QueueAssumption DEF QueueAssumption
<1>1. PICK s \in Asked[a] : origin[s] # NoOrigin /\ ~hasRoom(a, s, out)
  BY DEF hasCapacity
<1>2. s \in Sources /\ origin[s] \in Origins
  BY <1>1 DEF TypeOK
<1>3. expected(a, s) \in 0..MaxRequests
  BY <1>2, ExpectedFits
<1>4. out[origin[s]] + expected(a, s) > MaxRequests
  BY <1>1, <1>2, <1>3 DEF hasRoom
<1>. QED  BY <1>2, <1>3, <1>4

(* What is counted for an origin is a request in flight. *)
LEMMA CountedMeansFlight ==
  ASSUME CountExact, NEW o \in Origins, outstanding[o] > 0
  PROVE  \E h \in Https : http[h] = "flight"
<1>1. Cardinality(InFlight(o)) # 0
  BY DEF CountExact
<1>2. InFlight(o) # {}
  BY <1>1, FS_EmptySet
<1>. QED  BY <1>2 DEF InFlight

(* A step never strands the queue, when every auction sends a request. *)
LEMMA NextNotStranded ==
  ASSUME AlwaysSends, IInv, IInv', NotStranded, [Next]_vars
  PROVE  NotStranded'
<1>. USE QueueAssumption DEF QueueAssumption, IInv, NotStranded
<1>1. ASSUME NEW a \in Auctions, AddBidderRequests(a) PROVE NotStranded'
  <2>1. CASE hasCapacity(a, outstanding)
    BY <1>1, <2>1 DEF AddBidderRequests, TypeOK
  <2>2. CASE ~hasCapacity(a, outstanding)
    <3>1. \E h \in Https : http[h] = "flight"
      BY <2>2, NoCapacityMeansFlight, CountedMeansFlight DEF TypeOK
    <3>. QED  BY <1>1, <3>1 DEF AddBidderRequests
  <2>. QED  BY <2>1, <2>2
<1>2. ASSUME NEW a \in Auctions, SendingOver(a) PROVE NotStranded'
  <2>1. \A h \in Https : AuctionOf[h] = a => http[h] # "unsent"
    BY <1>2 DEF SendingOver, AlwaysSends, Unsent, RequestsOf
  <2>. QED  BY <1>2, <2>1 DEF SendingOver, TypeOK
<1>3. ASSUME NEW h \in Https, Request(h) PROVE NotStranded'
  BY <1>3 DEF Request, TypeOK
<1>4. ASSUME NEW h \in Https, Done(h) PROVE NotStranded'
  <2>. SUFFICES ASSUME queuedCalls' # <<>>
       PROVE  \E g \in Https :
                \/ http'[g] = "flight"
                \/ http'[g] = "unsent" /\ phase'[AuctionOf[g]] = "sending"
    OBVIOUS
  <2>1. queuedCalls # <<>>
    BY <1>4 DEF Done, runQueued
  <2>. DEFINE b == Head(queuedCalls)
  <2>2. b \in Auctions /\ b = queuedCalls[1] /\ 1 \in DOMAIN queuedCalls
    BY <2>1 DEF TypeOK
  <2>3. CASE hasCapacity(b, outstanding')
    <3>1. phase' = [phase EXCEPT ![b] = "sending"]
      BY <1>4, <2>1, <2>3 DEF Done, runQueued
    <3>2. phase[b] = "queued"
      BY <2>2 DEF QueuedOnce
    <3>3. PICK g \in Https : AuctionOf[g] = b
      BY <2>2 DEF AlwaysSends, RequestsOf
    <3>4. http[g] = "unsent" /\ phase'[AuctionOf[g]] = "sending"
      BY <2>2, <3>1, <3>2, <3>3 DEF Fresh, TypeOK
    <3>5. http'[g] = "unsent"
      BY <1>4, <3>4 DEF Done, TypeOK
    <3>. QED  BY <3>4, <3>5
  <2>4. CASE ~hasCapacity(b, outstanding')
    <3>1. \E o \in Origins : outstanding'[o] > 0
      <4>1. outstanding' \in [Origins -> Nat]
        BY DEF TypeOK
      <4>. QED  BY <2>2, <2>4, <4>1, NoCapacityMeansFlight
    <3>2. PICK o \in Origins : Cardinality(InFlight(o)') # 0
      BY <3>1 DEF CountExact
    <3>3. InFlight(o)' # {}
      BY <3>2, FS_EmptySet
    <3>4. PICK g \in Https : http'[g] = "flight"
      BY ONLY <3>3 DEF InFlight
    <3>. QED  BY <3>4
  <2>. QED  BY <2>3, <2>4
<1>5. ASSUME UNCHANGED vars PROVE NotStranded'
  BY <1>5 DEF vars
<1>. QED  BY <1>1, <1>2, <1>3, <1>4, <1>5 DEF Next

(* While auctions are queued there is a request whose end looks at the      *)
(* queue, whatever the limit, the sources' origins and the order of events, *)
(* provided that every auction sends at least one request.                  *)
THEOREM NeverStranded == ASSUME AlwaysSends PROVE Spec => []NotStranded
<1>1. Init => NotStranded
  BY DEF Init, NotStranded
<1>2. AlwaysSends /\ IInv /\ IInv' /\ NotStranded /\ [Next]_vars => NotStranded'
  BY NextNotStranded
<1>3. AlwaysSends
  OBVIOUS
<1>. QED  BY <1>1, <1>2, <1>3, Invariance, PTL DEF Spec

-----------------------------------------------------------------------------
\* sourceInfo: the origin of a source that has sent a request, and whether no
\* two of its requests were sent in one auction.
OriginLearned ==
  \A h \in Https :
    /\ origin[SourceOf[h]] \in {NoOrigin, OriginOf[h]}
    /\ http[h] # "unsent" => origin[SourceOf[h]] # NoOrigin

Twice(s) ==
  \E g, h \in Https :
    /\ g # h /\ AuctionOf[g] = AuctionOf[h] /\ SourceOf[g] = s /\ SourceOf[h] = s
    /\ http[g] # "unsent" /\ http[h] # "unsent"

SRALearned == \A s \in Sources : SRA[s] <=> ~Twice(s)

\* No request is left out.
SentAll ==
  ~Elective => \A h \in Https : phase[AuctionOf[h]] = "sent" => http[h] # "unsent"

\* The requests the limit is for: in flight, or about to be sent by the
\* auction whose turn it is.
Limited(o) == {h \in Https : OriginOf[h] = o /\ SourceOf[h] \notin Always /\ AuctionOf[h] \notin Yield}
Planned(o) ==
  {h \in Limited(o) :
     \/ http[h] = "flight"
     \/ http[h] = "unsent" /\ phase[AuctionOf[h]] = "sending"}

Within ==
  \A o \in Origins :
    \/ Cardinality(Planned(o)) <= MaxRequests
    \/ \E a \in Auctions : Planned(o) \subseteq RequestsOf(a)

LInv == OriginLearned /\ SRALearned /\ SentAll /\ Within

-----------------------------------------------------------------------------
(* Any set of requests is finite; with one element and not exactly one it   *)
(* has another, and with two it has at least two.                           *)
LEMMA SomeRequests ==
  ASSUME NEW S \in SUBSET Https
  PROVE  /\ IsFiniteSet(S) /\ Cardinality(S) \in Nat
         /\ S # {} => Cardinality(S) >= 1
         /\ \A g \in S : Cardinality(S) # 1 => \E h \in S : h # g
         /\ \A g, h \in S : g # h => Cardinality(S) >= 2
<1>1. IsFiniteSet(S) /\ Cardinality(S) \in Nat
  BY QueueAssumption, FS_Subset, FS_CardinalityType DEF QueueAssumption
<1>2. Cardinality(S) = 0 <=> S = {}
  BY <1>1, FS_EmptySet
<1>3. Cardinality(S) = 1 <=> \E x : S = {x}
  BY <1>1, FS_Singleton
<1>4. ASSUME NEW g \in S, Cardinality(S) # 1 PROVE \E h \in S : h # g
  BY <1>3, <1>4
<1>5. ASSUME NEW g \in S, NEW h \in S, g # h PROVE Cardinality(S) >= 2
  BY <1>1, <1>2, <1>3, <1>5
<1>. QED  BY <1>1, <1>2, <1>4, <1>5

(* A smaller set of planned requests is within the limit with the larger.   *)
LEMMA FewerPlanned ==
  ASSUME Within, NEW o \in Origins, Planned(o)' \subseteq Planned(o)
  PROVE  \/ Cardinality(Planned(o)') <= MaxRequests
         \/ \E a \in Auctions : Planned(o)' \subseteq RequestsOf(a)
<1>1. Planned(o) \subseteq Https /\ MaxRequests \in Nat
  BY QueueAssumption DEF QueueAssumption, Planned, Limited
<1>2. Cardinality(Planned(o)') <= Cardinality(Planned(o))
  BY <1>1, SomeRequests, FS_Subset
<1>3. Cardinality(Planned(o)) \in Nat /\ Cardinality(Planned(o)') \in Nat
  BY <1>1, SomeRequests
<1>. QED  BY <1>1, <1>2, <1>3 DEF Within

(* The limit is not exceeded when an auction is let through: with F in      *)
(* flight to an origin, the auction has none for it, or is alone, or fits.  *)
LEMMA LetThrough ==
  ASSUME Steady, TypeOK, OriginLearned, SRALearned, SentAll,
         NEW b \in Auctions, NEW o \in Origins,
         NEW out \in [Origins -> Nat], hasCapacity(b, out),
         NEW F \in SUBSET Limited(o), Cardinality(F) <= out[o],
         \A h \in F : http[h] # "unsent" /\ phase[AuctionOf[h]] = "sent",
         NEW M, M = Limited(o) \cap RequestsOf(b)
  PROVE  M = {} \/ F = {} \/ Cardinality(F \cup M) <= MaxRequests
<1>. SUFFICES ASSUME M # {}, F # {}
              PROVE  Cardinality(F \cup M) <= MaxRequests
  OBVIOUS
<1>. USE QueueAssumption DEF QueueAssumption
<1>1. PICK m \in Https : m \in M /\ AuctionOf[m] = b /\ OriginOf[m] = o /\ SourceOf[m] \notin Always
  BY DEF Limited, RequestsOf
<1>. DEFINE s == SourceOf[m]
<1>2. s \in Sources /\ s \in Asked[b] \ Always
  BY <1>1
<1>3. PICK f \in Https : /\ f \in F /\ SourceOf[f] = s /\ http[f] # "unsent"
                         /\ phase[AuctionOf[f]] = "sent"
  BY <1>1 DEF Limited, Steady
<1>4. origin[s] = o
  BY <1>1, <1>3 DEF OriginLearned
<1>5. out[o] + expected(b, s) <= MaxRequests
  <2>1. origin[s] # NoOrigin
    BY <1>4
  <2>. HIDE DEF s
  <2>2. hasRoom(b, s, out)
    BY <1>2, <2>1 DEF hasCapacity
  <2>. QED  BY <1>4, <2>2 DEF hasRoom
<1>6. M \subseteq Mine(b, s)
  BY <1>1 DEF Limited, Mine, RequestsOf, Steady
<1>7. /\ \A a \in Auctions : Mine(a, s) \in SUBSET Https
      /\ F \in SUBSET Https /\ M \in SUBSET Https
  BY DEF Mine, RequestsOf, Limited
<1>8. /\ IsFiniteSet(F) /\ Cardinality(F) \in Nat /\ Cardinality(F) >= 1
      /\ IsFiniteSet(M) /\ Cardinality(M) \in Nat
      /\ Cardinality(M) <= Cardinality(Mine(b, s)) /\ Cardinality(Mine(b, s)) \in Nat
  BY <1>6, <1>7, SomeRequests, FS_Subset
<1>. HIDE DEF s
<1>9. expected(b, s) \in Nat /\ out[o] \in Nat
  BY <1>2, ExpectedFits
<1>10. Cardinality(M) <= expected(b, s)
  <2>1. CASE \A a \in Auctions : Cardinality(Mine(a, s)) <= 1
    <3>1. ~Twice(s)
      <4>. SUFFICES ASSUME NEW g \in Https, NEW h \in Https, g # h, AuctionOf[g] = AuctionOf[h],
                           SourceOf[g] = s, SourceOf[h] = s
                    PROVE  FALSE
        BY DEF Twice
      <4>1. g \in Mine(AuctionOf[g], s) /\ h \in Mine(AuctionOf[g], s) /\ AuctionOf[g] \in Auctions
        BY DEF Mine, RequestsOf
      <4>2. Cardinality(Mine(AuctionOf[g], s)) >= 2
        BY <1>7, <4>1, SomeRequests
      <4>3. Cardinality(Mine(AuctionOf[g], s)) <= 1 /\ Cardinality(Mine(AuctionOf[g], s)) \in Nat
        BY <1>7, <2>1, <4>1, SomeRequests
      <4>. QED  BY <4>2, <4>3
    <3>2. expected(b, s) = 1
      BY <1>2, <3>1 DEF SRALearned, expected
    <3>. QED  BY <1>8, <2>1, <3>2
  <2>2. CASE /\ ~Elective
             /\ \A a \in Auctions :
                  Cardinality(Mine(a, s)) # 1 /\ Cardinality(Mine(a, s)) <= Bids[a][s]
    <3>1. f \in Mine(AuctionOf[f], s) /\ AuctionOf[f] \in Auctions
      BY <1>3 DEF Mine, RequestsOf
    <3>. DEFINE S == Mine(AuctionOf[f], s)
    <3>2. PICK g \in S : g # f
      <4>1. S \in SUBSET Https /\ f \in S /\ Cardinality(S) # 1
        BY <1>7, <2>2, <3>1
      <4>. HIDE DEF S
      <4>. QED  BY <4>1, SomeRequests
    <3>3. g \in Https /\ AuctionOf[g] = AuctionOf[f] /\ SourceOf[g] = s
      BY <3>2 DEF Mine, RequestsOf
    <3>4. http[g] # "unsent"
      BY <1>3, <2>2, <3>3 DEF SentAll
    <3>5. ~SRA[s]
      BY <1>2, <1>3, <3>2, <3>3, <3>4 DEF SRALearned, Twice
    <3>6. Bids[b][s] \in Nat /\ Cardinality(Mine(b, s)) <= Bids[b][s]
      BY <1>2, <2>2
    <3>7. CASE Bids[b][s] < MaxRequests
      BY <1>8, <3>5, <3>6, <3>7 DEF expected
    <3>8. CASE ~(Bids[b][s] < MaxRequests)
      BY <1>5, <1>8, <1>9, <3>5, <3>8 DEF expected
    <3>. QED  BY <3>7, <3>8
  <2>. QED  BY <1>2, <2>1, <2>2 DEF Steady
<1>11. Cardinality(F \cup M) <= Cardinality(F) + Cardinality(M)
  <2>1. Cardinality(F \cap M) \in Nat
    BY <1>7, SomeRequests
  <2>2. Cardinality(F \cup M) = Cardinality(F) + Cardinality(M) - Cardinality(F \cap M)
    BY <1>8, FS_Union
  <2>. QED  BY <1>8, <2>1, <2>2
<1>12. Cardinality(F \cup M) \in Nat
  BY <1>7, SomeRequests
<1>. QED  BY <1>5, <1>8, <1>9, <1>10, <1>11, <1>12

(* Nothing is learned, and nothing left out, when no request is sent. *)
LEMMA LearnedKept ==
  ASSUME OriginLearned, SRALearned, UNCHANGED <<origin, SRA>>,
         \A h \in Https : http'[h] = "unsent" <=> http[h] = "unsent"
  PROVE  OriginLearned' /\ SRALearned'
BY DEF OriginLearned, SRALearned, Twice

(* Sending a request teaches its source's origin and whether it sends more  *)
(* than one.                                                                *)
LEMMA RequestTeaches ==
  ASSUME Steady, TypeOK, OriginLearned, SRALearned, NEW h \in Https, Request(h)
  PROVE  OriginLearned' /\ SRALearned'
<1>. USE QueueAssumption DEF QueueAssumption, TypeOK
<1>. DEFINE s == SourceOf[h]
<1>1. /\ s \in Sources /\ http[h] = "unsent"
      /\ \A g \in Https : http'[g] = IF g = h THEN "flight" ELSE http[g]
      /\ \A r \in Sources : origin'[r] = IF r = s /\ origin[s] = NoOrigin THEN OriginOf[h] ELSE origin[r]
      /\ \A r \in Sources : r # s => SRA'[r] = SRA[r]
      /\ SRA'[s] <=> SRA[s] /\ \A g \in Https : AuctionOf[g] = AuctionOf[h] /\ SourceOf[g] = s
                                                 => http[g] = "unsent"
  BY DEF Request, RequestsOf
<1>2. OriginLearned'
  <2>. SUFFICES ASSUME NEW g \in Https
       PROVE  /\ origin'[SourceOf[g]] \in {NoOrigin, OriginOf[g]}
              /\ http'[g] # "unsent" => origin'[SourceOf[g]] # NoOrigin
    BY DEF OriginLearned
  <2>1. CASE SourceOf[g] = s
    BY <1>1, <2>1 DEF OriginLearned, Steady
  <2>2. CASE SourceOf[g] # s
    BY <1>1, <2>2 DEF OriginLearned
  <2>. QED  BY <2>1, <2>2
<1>3. ASSUME NEW r \in Sources PROVE SRA'[r] <=> ~Twice(r)'
  <2>1. CASE r # s
    <3>1. \A g \in Https : SourceOf[g] = r => http'[g] = http[g]
      BY <1>1, <2>1
    <3>2. Twice(r)' <=> Twice(r)
      BY <3>1 DEF Twice
    <3>. QED  BY <1>1, <2>1, <3>2 DEF SRALearned
  <2>2. CASE r = s
    <3>. DEFINE Before == \E g \in Https : /\ AuctionOf[g] = AuctionOf[h] /\ SourceOf[g] = s
                                           /\ http[g] # "unsent"
    <3>1. \A g \in Https : http'[g] # "unsent" <=> g = h \/ http[g] # "unsent"
      BY <1>1
    <3>2. ASSUME Twice(s)' PROVE Twice(s) \/ Before
      BY <3>1, <3>2 DEF Twice
    <3>3. ASSUME Twice(s) PROVE Twice(s)'
      BY <3>1, <3>3 DEF Twice
    <3>4. ASSUME Before PROVE Twice(s)'
      BY <1>1, <3>1, <3>4 DEF Twice
    <3>5. SRA[s] <=> ~Twice(s)
      BY <1>1 DEF SRALearned
    <3>. QED  BY <1>1, <2>2, <3>2, <3>3, <3>4, <3>5
  <2>. QED  BY <2>1, <2>2
<1>. QED  BY <1>2, <1>3 DEF SRALearned

(* The auction b is let through, between two tasks, with the requests in    *)
(* flight after the step counted in out.                                    *)
LEMMA LetThroughWithin ==
  ASSUME Steady, TypeOK, Fresh, OriginLearned, SRALearned, SentAll, Within, Idle,
         NEW b \in Auctions, phase[b] \in {"new", "queued"},
         NEW out \in [Origins -> Nat], hasCapacity(b, out),
         \A o \in Origins : out[o] = Cardinality(InFlight(o)'),
         phase' = [phase EXCEPT ![b] = "sending"],
         \A h \in Https : http'[h] = http[h] \/ (http[h] = "flight" /\ http'[h] = "over")
  PROVE  Within'
<1>. USE QueueAssumption DEF QueueAssumption, TypeOK
<1>. SUFFICES ASSUME NEW o \in Origins
     PROVE  \/ Cardinality(Planned(o)') <= MaxRequests
            \/ \E a \in Auctions : Planned(o)' \subseteq RequestsOf(a)
  BY DEF Within, RequestsOf
<1>. DEFINE F == {h \in Limited(o) : http'[h] = "flight"}
            M == Limited(o) \cap RequestsOf(b)
<1>1. Limited(o)' = Limited(o) /\ Limited(o) \subseteq Https
  BY DEF Limited
<1>2. ASSUME NEW h \in F PROVE http[h] = "flight" /\ phase[AuctionOf[h]] = "sent"
  <2>1. h \in Https /\ AuctionOf[h] \in Auctions \ Yield /\ http'[h] = "flight"
    BY DEF Limited
  <2>2. http[h] = "flight"
    BY <2>1
  <2>. QED  BY <2>1, <2>2 DEF Fresh, Idle
<1>3. \A h \in M : http[h] = "unsent" /\ http'[h] = "unsent"
  BY DEF Limited, RequestsOf, Fresh
<1>4. Planned(o)' \subseteq F \cup M
  BY <1>1 DEF Planned, Limited, RequestsOf, Idle
<1>5. F \subseteq Planned(o)
  BY <1>1, <1>2 DEF Planned
<1>6. F \in SUBSET Https /\ F \cup M \in SUBSET Https /\ InFlight(o)' \in SUBSET Https
  BY <1>1 DEF InFlight
<1>7. Cardinality(F) <= out[o]
  <2>1. F \subseteq InFlight(o)'
    BY <1>1 DEF InFlight, Limited
  <2>2. Cardinality(F) <= Cardinality(InFlight(o)')
    BY <1>6, <2>1, SomeRequests, FS_Subset
  <2>. QED  BY <2>2
<1>8. M = {} \/ F = {} \/ Cardinality(F \cup M) <= MaxRequests
  <2>1. F \in SUBSET Limited(o) /\ \A h \in F : http[h] # "unsent" /\ phase[AuctionOf[h]] = "sent"
    BY <1>2
  <2>2. M = Limited(o) \cap RequestsOf(b)
    OBVIOUS
  <2>. HIDE DEF F, M
  <2>. QED  BY <1>7, <2>1, <2>2, LetThrough
<1>9. CASE M = {}
  BY <1>4, <1>5, <1>9, FewerPlanned
<1>10. CASE F = {}
  BY <1>4, <1>10
<1>11. CASE Cardinality(F \cup M) <= MaxRequests
  <2>. HIDE DEF F, M
  <2>1. Cardinality(Planned(o)') <= Cardinality(F \cup M)
    BY <1>4, <1>6, SomeRequests, FS_Subset
  <2>2. Cardinality(Planned(o)') \in Nat /\ Cardinality(F \cup M) \in Nat
    BY <1>4, <1>6, SomeRequests
  <2>. QED  BY <1>11, <2>1, <2>2
<1>. QED  BY <1>8, <1>9, <1>10, <1>11

(* Every step keeps what the limit rests on. *)
LEMMA NextLInv ==
  ASSUME Steady, IInv, IInv', LInv, [Next]_vars
  PROVE  LInv'
<1>. USE QueueAssumption DEF QueueAssumption, LInv
<1>0. ASSUME \A o \in Origins : Planned(o)' \subseteq Planned(o) PROVE Within'
  BY <1>0, FewerPlanned DEF Within, RequestsOf
<1>1. ASSUME NEW a \in Auctions, AddBidderRequests(a) PROVE LInv'
  <2>1. OriginLearned' /\ SRALearned'
    BY <1>1, LearnedKept DEF AddBidderRequests
  <2>2. SentAll'
    BY <1>1 DEF AddBidderRequests, SentAll, IInv, TypeOK
  <2>3. CASE hasCapacity(a, outstanding)
    <3>1. phase' = [phase EXCEPT ![a] = "sending"] /\ phase[a] = "new" /\ Idle /\ UNCHANGED http
      BY <1>1, <2>3 DEF AddBidderRequests
    <3>2. \A o \in Origins : outstanding[o] = Cardinality(InFlight(o)')
      <4>1. \A o \in Origins : InFlight(o)' = InFlight(o)
        BY <3>1 DEF InFlight
      <4>2. \A o \in Origins : outstanding[o] = Cardinality(InFlight(o))
        BY DEF IInv, CountExact
      <4>. QED  BY <4>1, <4>2
    <3>3. outstanding \in [Origins -> Nat]
      BY DEF IInv, TypeOK
    <3>4. /\ phase[a] \in {"new", "queued"}
          /\ \A h \in Https : http'[h] = http[h] \/ (http[h] = "flight" /\ http'[h] = "over")
      BY <3>1
    <3>5. Within'
      BY <2>3, <3>1, <3>2, <3>3, <3>4, LetThroughWithin DEF IInv
    <3>. QED  BY <2>1, <2>2, <3>5
  <2>4. CASE ~hasCapacity(a, outstanding)
    <3>1. phase' = [phase EXCEPT ![a] = "queued"] /\ UNCHANGED http
      BY <1>1, <2>4 DEF AddBidderRequests
    <3>2. Within'
      BY <1>0, <3>1 DEF Planned, Limited, IInv, TypeOK
    <3>. QED  BY <2>1, <2>2, <3>2
  <2>. QED  BY <2>3, <2>4
<1>2. ASSUME NEW a \in Auctions, SendingOver(a) PROVE LInv'
  <2>1. OriginLearned' /\ SRALearned'
    BY <1>2, LearnedKept DEF SendingOver
  <2>2. SentAll'
    BY <1>2 DEF SendingOver, SentAll, Unsent, RequestsOf, IInv, TypeOK
  <2>3. Within'
    BY <1>0, <1>2 DEF SendingOver, Planned, Limited, IInv, TypeOK
  <2>. QED  BY <2>1, <2>2, <2>3
<1>3. ASSUME NEW h \in Https, Request(h) PROVE LInv'
  <2>1. OriginLearned' /\ SRALearned'
    BY <1>3, RequestTeaches DEF IInv
  <2>2. SentAll'
    BY <1>3 DEF Request, SentAll, IInv, TypeOK
  <2>3. Within'
    BY <1>0, <1>3 DEF Request, Planned, Limited, IInv, TypeOK
  <2>. QED  BY <2>1, <2>2, <2>3
<1>4. ASSUME NEW h \in Https, Done(h) PROVE LInv'
  <2>1. /\ http[h] = "flight" /\ http' = [http EXCEPT ![h] = "over"] /\ Idle /\ runQueued
        /\ UNCHANGED <<origin, SRA>>
    BY <1>4 DEF Done
  <2>2. \A g \in Https : http'[g] = http[g] \/ (http[g] = "flight" /\ http'[g] = "over")
    <3>1. DOMAIN http = Https
      BY DEF IInv, TypeOK
    <3>. QED  BY <2>1, <3>1
  <2>3. OriginLearned' /\ SRALearned'
    BY <2>1, <2>2, LearnedKept
  <2>4. CASE UNCHANGED phase
    <3>1. SentAll'
      BY <2>2, <2>4 DEF SentAll
    <3>2. Within'
      BY <1>0, <2>2, <2>4 DEF Planned, Limited
    <3>. QED  BY <2>3, <3>1, <3>2
  <2>5. CASE ~UNCHANGED phase
    <3>. DEFINE b == Head(queuedCalls)
    <3>1. /\ queuedCalls # <<>> /\ hasCapacity(b, outstanding')
          /\ phase' = [phase EXCEPT ![b] = "sending"]
      BY <2>1, <2>5 DEF runQueued
    <3>2. b \in Auctions /\ phase[b] = "queued"
      BY <3>1 DEF IInv, TypeOK, QueuedOnce
    <3>3. /\ outstanding' \in [Origins -> Nat]
          /\ \A o \in Origins : outstanding'[o] = Cardinality(InFlight(o)')
      BY DEF IInv, TypeOK, CountExact
    <3>. HIDE DEF b
    <3>4. Within'
      BY <2>1, <2>2, <3>1, <3>2, <3>3, LetThroughWithin DEF IInv
    <3>5. SentAll'
      BY <2>2, <3>1, <3>2 DEF SentAll, IInv, TypeOK
    <3>. QED  BY <2>3, <3>4, <3>5
  <2>. QED  BY <2>4, <2>5
<1>5. ASSUME UNCHANGED vars PROVE LInv'
  <2>1. OriginLearned' /\ SRALearned'
    BY <1>5, LearnedKept DEF vars
  <2>2. SentAll' /\ Within'
    BY <1>0, <1>5 DEF vars, SentAll, Planned, Limited
  <2>. QED  BY <2>1, <2>2
<1>. QED  BY <1>1, <1>2, <1>3, <1>4, <1>5 DEF Next

(* Initially nobody has sent anything. *)
LEMMA InitLInv == Init => LInv
<1>. SUFFICES ASSUME Init PROVE LInv
  OBVIOUS
<1>. USE QueueAssumption DEF QueueAssumption, Init
<1>1. OriginLearned /\ SRALearned /\ SentAll
  BY DEF OriginLearned, SRALearned, Twice, SentAll
<1>2. \A o \in Origins : Cardinality(Planned(o)) = 0
  <2>1. \A o \in Origins : Planned(o) = {}
    BY DEF Planned, Limited
  <2>. QED  BY <2>1, FS_EmptySet
<1>. QED  BY <1>1, <1>2 DEF LInv, Within

(* With no adapter being called, what is planned for an origin is what is   *)
(* in flight to it, but for the sources and auctions the limit is not for.  *)
LEMMA WithinImpliesLimit ==
  ASSUME IInv, LInv
  PROVE  LimitHolds
<1>. USE QueueAssumption DEF QueueAssumption
<1>. SUFFICES ASSUME Idle, NEW o \in Origins, ~(outstanding[o] <= MaxRequests),
                     ~\E h \in InFlight(o) : SourceOf[h] \in Always \/ AuctionOf[h] \in Yield
              PROVE  \E a \in Auctions : InFlight(o) \subseteq RequestsOf(a)
  BY DEF LimitHolds
<1>1. Planned(o) = InFlight(o)
  BY DEF Planned, Limited, InFlight, Idle
<1>2. outstanding[o] = Cardinality(Planned(o))
  BY <1>1 DEF IInv, CountExact
<1>3. outstanding[o] \in Nat
  BY DEF IInv, TypeOK
<1>. QED  BY <1>1, <1>2, <1>3 DEF LInv, Within

(* Whatever the auctions, the order of events and the requests that others  *)
(* make, the limit on concurrent requests holds for sources that are steady *)
(* in the sense the code counts on: only an auction that runs alone, one    *)
(* that yields or a source that is exempt goes beyond it.                   *)
THEOREM LimitAlwaysHolds == ASSUME Steady PROVE Spec => []LimitHolds
<1>1. Steady /\ IInv /\ IInv' /\ LInv /\ [Next]_vars => LInv'
  BY NextLInv
<1>2. IInv /\ LInv => LimitHolds
  BY WithinImpliesLimit
<1>3. Steady
  OBVIOUS
<1>. QED  BY <1>1, <1>2, <1>3, InitLInv, Invariance, PTL DEF Spec
=============================================================================
