---------------------------- MODULE TTLCollection ----------------------------
(***************************************************************************)
(* A collection that forgets its items when their time is up               *)
(* (src/utils/ttlCollection.ts), on timers that count only the time the     *)
(* page is visible (src/utils/focusTimeout.js).  The auction manager keeps  *)
(* its auctions in one, each auction its bids, and the targeting lock the   *)
(* values it locks.                                                         *)
(*                                                                         *)
(* Time is in units; a timer's task runs as soon as it is due.  Items have  *)
(* no order of their own here: a "monotonic" collection, whose users see to *)
(* it that items are known in the order they expire, is the special case    *)
(* where a new item goes to the end of the list.                            *)
(***************************************************************************)
EXTENDS Integers, Sequences, SequencesExt

CONSTANTS
  Items,
  Ttls,       \* what ttl(item) may be; None is JavaScript's null
  None,
  Infinity,   \* a number that stands for JavaScript's
  Slack,      \* slack
  MaxDelay,   \* the longest delay of setTimeout (2^31 - 1)
  Loads,      \* whether it may load hidden: the values hidden may have at first
  LoadTime,   \* Date.now() when the page loads ...
  MaxTime,    \* ... and a bound on it
  MaxTimers   \* bound on timers

(* The timer that a setFocusTimeout has at the moment: "left" is the visible *)
(* time its callback has yet to wait; "hops" counts how often it was set    *)
(* again, as the getter of its id follows it only once.                     *)
Timer == [start : Nat, due : Nat, hops : 0..2, suspended : BOOLEAN, left : Nat]

ASSUME TTLAssumption ==
  /\ None \notin Nat /\ None \notin Timer
  /\ Ttls \subseteq Nat \cup {None}
  /\ Loads \subseteq BOOLEAN
  /\ Slack \in Nat /\ MaxDelay \in Nat \ {0}
  /\ LoadTime \in Nat \ {0} /\ MaxTime \in Nat /\ MaxTimers \in Nat
  /\ LoadTime <= MaxTime
  /\ MaxTime - LoadTime <= MaxDelay \* the page is not hidden for longer than that
  /\ Infinity \in Nat /\ Infinity > MaxTime

VARIABLES
  now,             \* Date.now()
  hidden,          \* document.hidden
  past,            \* whether the page was ever hidden ("visible", "hidden"), or
                   \* loaded while hidden ("loadedHidden")
  outOfFocusStart, timeOutOfFocus,
  timers,          \* the chains of native timers of each setFocusTimeout
  items,           \* the items the collection has
  start, delta,    \* values of each item's entry
  asked,           \* items whose ttl is being asked for
  pendingPurge,    \* the items to be purged, in order
  nextPurge,       \* 0 when there is no task for it to tell the time of
  task             \* the chain that reschedulePurge holds, or 0

focus == <<hidden, past, outOfFocusStart, timeOutOfFocus>>
entries == <<items, start, delta, asked>>
purge == <<pendingPurge, nextPurge, task>>
vars == <<now, focus, timers, entries, purge>>

Slots == 1..MaxTimers

-----------------------------------------------------------------------------
Later(a, b) == IF a > b THEN a ELSE b
Plus(a, b) == IF a + b < Infinity THEN a + b ELSE Infinity
expiry(i) == Plus(start[i], delta[i])

(* setTimeout keeps 32 bits of its delay, and takes a negative one for 0;   *)
(* of Infinity nothing is left.                                             *)
Int32(ms) == LET bits == ms % (2 * (MaxDelay + 1)) IN IF bits > MaxDelay THEN 0 ELSE bits
DelayUntil(at) == IF at = Infinity THEN 0 ELSE Int32(at - now)

(* setFocusTimeout, for the first time and again. *)
NewTimer(delay) ==
  [start |-> timeOutOfFocus, due |-> now + delay, hops |-> 0, suspended |-> FALSE,
   left |-> delay]

SetAgain(t, outOfFocus) ==
  LET delay == Int32(outOfFocus - t.start) IN
  [t EXCEPT !.start = outOfFocus, !.due = now + delay, !.suspended = FALSE,
            !.hops = IF @ < 2 THEN @ + 1 ELSE 2]

\* Faulty: the page's being visible is enough.
mayRunIfVisible(t) == outOfFocusStart = None
mayRun(t) == t.start = timeOutOfFocus /\ outOfFocusStart = None

Live(k) == timers[k] # None /\ ~timers[k].suspended
Due(k) == Live(k) /\ timers[k].due <= now

(* clearTimeout(task()): the id is that of a timer which has fired when the *)
(* chain is suspended, or was set again more than once.                     *)
clearTask ==
  IF task # 0 /\ Live(task) /\ timers[task].hops < 2
    THEN [timers EXCEPT ![task] = None]
    ELSE timers

-----------------------------------------------------------------------------
(* The part of reschedulePurge that sets the timer for the list there is.   *)
Schedule(rest) ==
  IF pendingPurge' = <<>>
    THEN task' = 0 /\ timers' = rest /\ nextPurge' = 0
    ELSE \E k \in Slots :
      /\ rest[k] = None /\ \A j \in 1..(k - 1) : rest[j] # None
      /\ nextPurge' = Later(now, Plus(expiry(Head(pendingPurge))', Slack))
      /\ timers' = [rest EXCEPT ![k] = NewTimer(DelayUntil(nextPurge'))]
      /\ task' = k

reschedulePurge == Schedule(clearTask)

\* Faulty: the collection counts as monotonic.
markAtEnd(i, at) == pendingPurge' = Append(pendingPurge, i)

(* markForPurge: the item goes before the first that does not expire sooner *)
markForPurge(i, at) ==
  \E k \in 0..Len(pendingPurge) :
    /\ \A n \in 1..k : expiry(pendingPurge[n]) < at
    /\ \A n \in (k + 1)..Len(pendingPurge) : expiry(pendingPurge[n]) >= at
    /\ pendingPurge' = InsertAt(pendingPurge, k + 1, i)

\* Faulty: a purge that is scheduled will do.
mustWaitForTask(at) == task = 0
mustReschedule(at) == task = 0 \/ nextPurge > Plus(at, Slack)

-----------------------------------------------------------------------------
Init ==
  /\ now = LoadTime
  /\ hidden \in Loads
  /\ past = IF hidden THEN "loadedHidden" ELSE "visible"
  /\ outOfFocusStart = None /\ timeOutOfFocus = 0
  /\ timers = [k \in Slots |-> None]
  /\ items = {} /\ asked = {}
  /\ start = [i \in Items |-> None] /\ delta = [i \in Items |-> None]
  /\ pendingPurge = <<>> /\ nextPurge = 0 /\ task = 0

\* The entries of these items are dropped.
Forget(gone) ==
  /\ items' = items \ gone
  /\ start' = [i \in Items |-> IF i \in gone THEN None ELSE start[i]]
  /\ delta' = [i \in Items |-> IF i \in gone THEN None ELSE delta[i]]

(* add: the item's start time and ttl are asked for. *)
Add(i) ==
  /\ i \notin items
  /\ items' = items \cup {i}
  /\ asked' = asked \cup {i}
  /\ UNCHANGED <<now, focus, timers, start, delta, purge>>

(* They are known, a start time no later than the ttl: an auction's are     *)
(* known when it ends, a bid's when it is added.                            *)
Known(i) ==
  /\ i \in asked
  /\ asked' = asked \ {i}
  /\ \E d \in Ttls :
       /\ start' = [start EXCEPT ![i] = IF @ = None THEN now ELSE @]
       /\ delta' = [delta EXCEPT ![i] = d]
       /\ IF d = None
            THEN UNCHANGED <<timers, purge>>
            ELSE /\ markForPurge(i, expiry(i)')
                 /\ IF mustReschedule(expiry(i)')
                      THEN reschedulePurge
                      ELSE UNCHANGED <<timers, nextPurge, task>>
  /\ UNCHANGED <<now, focus, items>>

(* refresh: ttls are asked for again, and the earlier ones no longer count. *)
Refresh ==
  /\ pendingPurge' = <<>>
  /\ asked' = items
  /\ delta' = [i \in Items |-> None]
  /\ UNCHANGED <<now, focus, items, start>>
  /\ reschedulePurge

newCohort == asked' = {}

Clear ==
  /\ pendingPurge' = <<>>
  /\ Forget(items)
  /\ newCohort
  /\ UNCHANGED <<now, focus>>
  /\ reschedulePurge

(* delete, of an item whose ttl is known: locked values have it at once.    *)
Delete(i) ==
  /\ i \in items \ asked
  /\ Forget({i})
  /\ IF \E n \in DOMAIN pendingPurge : pendingPurge[n] = i
       THEN \E n \in DOMAIN pendingPurge :
              pendingPurge[n] = i /\ pendingPurge' = RemoveAt(pendingPurge, n)
       ELSE UNCHANGED pendingPurge
  /\ UNCHANGED <<now, focus, timers, asked, nextPurge, task>>

-----------------------------------------------------------------------------
(* The callback of the purge: task is dropped, be it this one or not.       *)
Sweep(k) ==
  \E cnt \in 0..Len(pendingPurge) :
    LET gone == {pendingPurge[n] : n \in 1..cnt} IN
    /\ \A n \in 1..cnt : expiry(pendingPurge[n]) <= now
    /\ cnt < Len(pendingPurge) => expiry(pendingPurge[cnt + 1]) > now
    /\ pendingPurge' = SubSeq(pendingPurge, cnt + 1, Len(pendingPurge))
    /\ Forget(gone)
    /\ UNCHANGED <<now, focus, asked>>
    /\ Schedule([timers EXCEPT ![k] = None])

(* A native timer fires: its callback runs, or waits until the page is      *)
(* visible, or waits as long as the page was hidden since it was set.       *)
TimerFires(k) ==
  /\ Due(k)
  /\ IF mayRun(timers[k])
       THEN Sweep(k)
       ELSE /\ timers' = [timers EXCEPT ![k] =
                 IF outOfFocusStart # None THEN [@ EXCEPT !.suspended = TRUE]
                 ELSE SetAgain(@, timeOutOfFocus)]
            /\ UNCHANGED <<now, focus, entries, purge>>

(* visibilitychange. *)
Hide ==
  /\ ~hidden
  /\ hidden' = TRUE
  /\ past' = IF past = "visible" THEN "hidden" ELSE past
  /\ outOfFocusStart' = now
  /\ UNCHANGED <<now, timeOutOfFocus, timers, entries, purge>>

Show ==
  /\ hidden
  /\ hidden' = FALSE
  /\ timeOutOfFocus' = timeOutOfFocus + now
                         - (IF outOfFocusStart = None THEN 0 ELSE outOfFocusStart)
  /\ outOfFocusStart' = None
  /\ timers' = [k \in Slots |-> IF timers[k] # None /\ timers[k].suspended
                                THEN SetAgain(timers[k], timeOutOfFocus') ELSE timers[k]]
  /\ UNCHANGED <<now, past, entries, purge>>

Tick ==
  /\ now < MaxTime
  /\ \A k \in Slots : ~Due(k)
  /\ now' = now + 1
  /\ timers' = IF hidden THEN timers
               ELSE [k \in Slots |-> IF timers[k] = None \/ timers[k].left = 0 THEN timers[k]
                                     ELSE [timers[k] EXCEPT !.left = @ - 1]]
  /\ UNCHANGED <<focus, entries, purge>>

-----------------------------------------------------------------------------
Next ==
  \/ \E i \in Items : Add(i) \/ Known(i) \/ Delete(i)
  \/ Refresh \/ Clear
  \/ \E k \in Slots : TimerFires(k)
  \/ Hide \/ Show \/ Tick

Spec == Init /\ [][Next]_vars

-----------------------------------------------------------------------------
TypeOK ==
  /\ now \in LoadTime..MaxTime /\ hidden \in BOOLEAN
  /\ past \in {"visible", "hidden", "loadedHidden"}
  /\ outOfFocusStart \in Nat \cup {None} /\ timeOutOfFocus \in Nat
  /\ timers \in [Slots -> Timer \cup {None}]
  /\ items \subseteq Items /\ asked \subseteq items
  /\ start \in [Items -> Nat \cup {None}] /\ delta \in [Items -> Nat \cup {None}]
  /\ pendingPurge \in Seq(Items) /\ nextPurge \in Nat /\ task \in Slots \cup {0}

(* The list to purge has the items whose end is known, each once, the       *)
(* soonest to expire first: nobody is purged twice, nor by a ttl that is    *)
(* being asked for again, nor kept for ever behind an item that is not due. *)
PurgeListExact ==
  /\ ToSet(pendingPurge) = {i \in items \ asked : delta[i] # None}
  /\ \A m, n \in DOMAIN pendingPurge :
       m < n => /\ pendingPurge[m] # pendingPurge[n]
                /\ expiry(pendingPurge[m]) <= expiry(pendingPurge[n])

\* How long the page has been hidden, and when a timer will run its callback
\* if it stays visible from now on.
HiddenFor == timeOutOfFocus + IF outOfFocusStart = None THEN 0 ELSE now - outOfFocusStart
RunsAt(k) ==
  (IF timers[k].suspended THEN now ELSE timers[k].due) + HiddenFor - timers[k].start

(* "Maximum duration that an item is allowed to persist once past its TTL": *)
(* there is a purge no later than the slack after the next expiry, and its  *)
(* timer runs it in time; a page that was hidden delays it by no more than  *)
(* twice as long; one that never was has no other timer.                    *)
SweepInTime ==
  past # "loadedHidden" =>
    /\ pendingPurge # <<>> =>
         /\ task # 0 /\ timers[task] # None
         /\ nextPurge <= Later(now, Plus(expiry(Head(pendingPurge)), Slack))
         /\ RunsAt(task) <= nextPurge + 2 * HiddenFor
    /\ past = "visible" => \A k \in Slots : timers[k] # None => k = task

(* What the users of a collection rely on: a purge takes away exactly the   *)
(* items whose time is up, whatever was added, refreshed or deleted since   *)
(* it was scheduled; and in a page that is never hidden time does not pass   *)
(* with an item in the collection beyond the slack after its end.           *)
Ended == {i \in items : delta[i] # None /\ expiry(i) <= now}
ForgetsInTime ==
  [][/\ items' # items /\ (\E k \in Slots : TimerFires(k)) => items' = items \ Ended
     /\ now' > now /\ past = "visible" =>
          \A i \in items : delta[i] # None => now < Plus(expiry(i), Slack)]_vars

(* "count time only when page is focused", "Minimum duration": a timer runs *)
(* its callback only when the page has been visible for the whole delay.    *)
FocusedEnough ==
  past # "loadedHidden" =>
    \A k \in Slots : Due(k) /\ mayRun(timers[k]) => timers[k].left = 0
=============================================================================
