---------------------------- MODULE RequestQueue ----------------------------
(***************************************************************************)
(* The limit on concurrent requests to an origin: runIfOriginHasCapacity,  *)
(* queuedCalls, outstandingRequests and sourceInfo of src/auction.ts, which *)
(* all auctions of a page share.                                           *)
(*                                                                         *)
(* A source is a client bidder, or the server adapter with all its bidders. *)
(***************************************************************************)
EXTENDS Integers, FiniteSets, Sequences

CONSTANTS
  Auctions, Sources, Origins,
  Asked,        \* [Auctions -> SUBSET Sources]: who takes part
  Bids,         \* [Auctions -> [Sources -> Nat]]: bids of a bidder request
  Always,       \* sources with alwaysHasCapacity (not overridden)
  Https,        \* the HTTP requests adapters may send
  AuctionOf,    \* [Https -> Auctions]
  SourceOf,     \* [Https -> Sources]
  OriginOf,     \* [Https -> Origins]
  MaxRequests,  \* maxRequestsPerOrigin
  Yield,        \* auctions whose adapters are called in tasks of their own
  Elective,     \* adapters may leave some of their requests out
  NoOrigin

ASSUME QueueAssumption ==
  /\ IsFiniteSet(Https)
  /\ Asked \in [Auctions -> SUBSET Sources]
  /\ Bids \in [Auctions -> [Sources -> Nat]]
  /\ AuctionOf \in [Https -> Auctions]
  /\ SourceOf \in [Https -> Sources]
  /\ OriginOf \in [Https -> Origins]
  /\ \A h \in Https : SourceOf[h] \in Asked[AuctionOf[h]]
  /\ MaxRequests \in Nat \ {0}
  /\ Yield \subseteq Auctions /\ Elective \in BOOLEAN
  /\ NoOrigin \notin Origins

VARIABLES
  phase,        \* of each auction: "new", "queued", "sending", "sent"
  queuedCalls,  \* the auctions waiting for capacity
  http,         \* of each HTTP request: "unsent", "flight", "over"
  outstanding,  \* outstandingRequests
  origin,       \* sourceInfo[source].origin
  SRA           \* sourceInfo[source].SRA

vars == <<phase, queuedCalls, http, outstanding, origin, SRA>>

-----------------------------------------------------------------------------
RequestsOf(a) == {h \in Https : AuctionOf[h] = a}
Unsent(a) == {h \in RequestsOf(a) : http[h] = "unsent"}
InFlight(o) == {h \in Https : http[h] = "flight" /\ OriginOf[h] = o}

\* An auction that does not yield sends all its requests in one task.
Idle == \A a \in Auctions \ Yield : phase[a] # "sending"

\* Faulty: a bidder that needs more than the limit is not cut down to it.
expectedUncapped(a, s) == IF SRA[s] THEN 1 ELSE Bids[a][s]

(* How many requests the source is expected to make in this auction. *)
expected(a, s) ==
  IF SRA[s] THEN 1 ELSE IF Bids[a][s] < MaxRequests THEN Bids[a][s] ELSE MaxRequests

\* Faulty: room for one more is taken for room for all.
hasRoomForOne(a, s, out) == out[origin[s]] < MaxRequests
hasRoom(a, s, out) == out[origin[s]] + expected(a, s) <= MaxRequests

(* Whether runIfOriginHasCapacity lets the auction run. *)
hasCapacity(a, out) ==
  \A s \in Asked[a] \ Always : origin[s] # NoOrigin => hasRoom(a, s, out)

-----------------------------------------------------------------------------
Init ==
  /\ phase = [a \in Auctions |-> "new"]
  /\ queuedCalls = <<>>
  /\ http = [h \in Https |-> "unsent"]
  /\ outstanding = [o \in Origins |-> 0]
  /\ origin = [s \in Sources |-> NoOrigin]
  /\ SRA = [s \in Sources |-> TRUE]

(* addBidderRequestsCallback: the auction runs at once, even when others    *)
(* are queued, or is queued.                                                *)
AddBidderRequests(a) ==
  /\ Idle
  /\ phase[a] = "new"
  /\ IF hasCapacity(a, outstanding)
       THEN /\ phase' = [phase EXCEPT ![a] = "sending"]
            /\ UNCHANGED queuedCalls
       ELSE /\ phase' = [phase EXCEPT ![a] = "queued"]
            /\ queuedCalls' = Append(queuedCalls, a)
  /\ UNCHANGED <<http, outstanding, origin, SRA>>

(* An adapter of a running auction sends a request; requestCallbacks.request *)
(* counts it, and learns what the source does.                              *)
Request(h) ==
  LET s == SourceOf[h]
      mine == {g \in RequestsOf(AuctionOf[h]) : SourceOf[g] = s}
  IN
  /\ phase[AuctionOf[h]] = "sending"
  /\ http[h] = "unsent"
  /\ http' = [http EXCEPT ![h] = "flight"]
  /\ outstanding' = [outstanding EXCEPT ![OriginOf[h]] = @ + 1]
  /\ origin' = [origin EXCEPT ![s] = IF @ = NoOrigin THEN OriginOf[h] ELSE @]
  /\ SRA' = [SRA EXCEPT ![s] = @ /\ \A g \in mine : http[g] = "unsent"]
  /\ UNCHANGED <<phase, queuedCalls>>

(* Every adapter of the auction has been called. *)
SendingOver(a) ==
  /\ phase[a] = "sending"
  /\ Elective \/ Unsent(a) = {}
  /\ phase' = [phase EXCEPT ![a] = "sent"]
  /\ UNCHANGED <<queuedCalls, http, outstanding, origin, SRA>>

(* One try at the first of the queue. *)
runQueued ==
  IF queuedCalls # <<>> /\ hasCapacity(Head(queuedCalls), outstanding')
    THEN /\ phase' = [phase EXCEPT ![Head(queuedCalls)] = "sending"]
         /\ queuedCalls' = Tail(queuedCalls)
    ELSE UNCHANGED <<phase, queuedCalls>>

countOff(h) == outstanding' = [outstanding EXCEPT ![OriginOf[h]] = @ - 1]

(* The fetch settles, whichever way: requestCallbacks.done. *)
Done(h) ==
  /\ Idle
  /\ http[h] = "flight"
  /\ http' = [http EXCEPT ![h] = "over"]
  /\ countOff(h)
  /\ runQueued
  /\ UNCHANGED <<origin, SRA>>

Next ==
  \/ \E a \in Auctions : AddBidderRequests(a) \/ SendingOver(a)
  \/ \E h \in Https : Request(h) \/ Done(h)

Spec == Init /\ [][Next]_vars

(* Fetches settle (they have a timeout), and adapters get their turn. *)
Fairness ==
  /\ \A h \in Https : WF_vars(Done(h)) /\ (~Elective => WF_vars(Request(h)))
  /\ \A a \in Auctions : WF_vars(SendingOver(a))

FairSpec == Spec /\ Fairness

-----------------------------------------------------------------------------
TypeOK ==
  /\ phase \in [Auctions -> {"new", "queued", "sending", "sent"}]
  /\ queuedCalls \in Seq(Auctions)
  /\ http \in [Https -> {"unsent", "flight", "over"}]
  /\ outstanding \in [Origins -> Nat]
  /\ origin \in [Sources -> Origins \cup {NoOrigin}]
  /\ SRA \in [Sources -> BOOLEAN]

(* outstandingRequests[o] is the number of requests in flight to o: what is *)
(* counted twice would lower the limit for good, what is missed would raise *)
(* it.                                                                      *)
CountExact == \A o \in Origins : outstanding[o] = Cardinality(InFlight(o))

(* The requests of a source in an auction. *)
Mine(a, s) == {h \in RequestsOf(a) : SourceOf[h] = s}

(* What the code estimates requests with: a source has an origin of its own *)
(* and sends in every auction either at most one request or, always, more   *)
(* than one and at most one for each bid, with none left out.               *)
Steady ==
  /\ \A g, h \in Https : SourceOf[g] = SourceOf[h] <=> OriginOf[g] = OriginOf[h]
  /\ \A s \in Sources :
       \/ \A a \in Auctions : Cardinality(Mine(a, s)) <= 1
       \/ /\ ~Elective
          /\ \A a \in Auctions :
               Cardinality(Mine(a, s)) # 1 /\ Cardinality(Mine(a, s)) <= Bids[a][s]

(* "will queue auctions that would cause requests to a specific origin to   *)
(* exceed that limit": only one auction alone may go beyond it, unless it   *)
(* yields.                                                                  *)
LimitHolds ==
  Idle => \A o \in Origins :
    \/ outstanding[o] <= MaxRequests
    \/ \E h \in InFlight(o) : SourceOf[h] \in Always \/ AuctionOf[h] \in Yield
    \/ \E a \in Auctions : InFlight(o) \subseteq RequestsOf(a)

(* "so the auction isn't permanently queued waiting for capacity": whenever *)
(* auctions are queued there is a request whose end will look at the queue. *)
NotStranded ==
  queuedCalls # <<>> =>
    \E h \in Https :
      \/ http[h] = "flight"
      \/ http[h] = "unsent" /\ phase[AuctionOf[h]] = "sending"

(* An auction is in the queue, once, exactly while it waits.                *)
QueuedOnce ==
  /\ \A a \in Auctions : phase[a] = "queued" <=> \E n \in DOMAIN queuedCalls : queuedCalls[n] = a
  /\ \A m, n \in DOMAIN queuedCalls : queuedCalls[m] = queuedCalls[n] => m = n

(* "so the auction isn't permanently queued": every queued auction runs.    *)
QueueDrains == \A a \in Auctions : phase[a] = "queued" ~> phase[a] # "queued"
=============================================================================
