------------------------ MODULE TTLCollection_proofs ------------------------
(***************************************************************************)
(* Theorems about TTLCollection.                                           *)
(***************************************************************************)
EXTENDS TTLCollection, SequenceTheorems, TLAPS

\* What is known of an item, and when.
Entries ==
  \A i \in Items :
    /\ i \notin items => start[i] = None
    /\ start[i] = None \/ i \in asked => delta[i] = None

\* The hidden time that is counted is within the time since the page loaded.
HiddenSince == outOfFocusStart # None => outOfFocusStart <= now
FocusRight ==
  /\ hidden = (outOfFocusStart # None)
  /\ HiddenFor <= now - LoadTime
  /\ past = "visible" => ~hidden /\ timeOutOfFocus = 0

\* A timer that is set is not overdue, one that is suspended waits for the
\* page; what a callback has yet to wait fits in what its timer will wait.
TimersRight ==
  \A k \in Slots : timers[k] # None =>
    /\ timers[k].start <= timeOutOfFocus
    /\ timers[k].suspended => hidden
    /\ ~timers[k].suspended => timers[k].due >= now
    /\ timers[k].left + now <= RunsAt(k)
    /\ past = "visible" => k = task /\ timers[k].hops = 0

\* While there is something to purge a timer is set for it, which runs late by
\* twice the time the page was hidden at most.
TaskSet == task # 0 => timers[task] # None
PurgePlanned ==
  pendingPurge # <<>> =>
    task # 0 /\ nextPurge <= Later(now, Plus(expiry(Head(pendingPurge)), Slack))
TaskInTime ==
  past # "loadedHidden" /\ task # 0 => RunsAt(task) <= nextPurge + 2 * HiddenFor
TaskRight == TaskSet /\ PurgePlanned /\ TaskInTime

Timely == past # "loadedHidden" => FocusRight /\ TimersRight

IInv == TypeOK /\ HiddenSince /\ Entries /\ PurgeListExact /\ TaskRight /\ Timely

-----------------------------------------------------------------------------
(* What is left of a delay is no longer than the delay, and all of it when  *)
(* it is not too long for setTimeout.                                       *)
LEMMA Int32Facts ==
  ASSUME NEW ms \in Nat
  PROVE  /\ Int32(ms) \in Nat /\ Int32(ms) <= ms
         /\ ms <= MaxDelay => Int32(ms) = ms
<1>1. MaxDelay \in Nat \ {0}
  BY TTLAssumption DEF TTLAssumption
<1>. DEFINE w == 2 * (MaxDelay + 1)
<1>2. w \in Nat \ {0}
  BY <1>1
<1>3. ms % w \in 0..(w - 1) /\ ms = w * (ms \div w) + (ms % w) /\ ms \div w \in Nat
  BY <1>2
<1>4. ms % w <= ms
  BY <1>2, <1>3
<1>5. ms <= MaxDelay => ms % w = ms
  BY <1>1, <1>2, <1>3
<1>6. Int32(ms) = IF ms % w > MaxDelay THEN 0 ELSE ms % w
  BY DEF Int32
<1>. HIDE DEF w
<1>. QED  BY <1>1, <1>2, <1>3, <1>4, <1>5, <1>6

(* Inserting an item leaves the others where they are, or one place later.  *)
LEMMA InsertFacts ==
  ASSUME NEW s \in Seq(Items), NEW i \in Items, NEW k \in 0..Len(s)
  PROVE  LET t == InsertAt(s, k + 1, i) IN
         /\ t \in Seq(Items) /\ Len(t) = Len(s) + 1 /\ t[k + 1] = i
         /\ \A n \in 1..k : t[n] = s[n]
         /\ \A n \in (k + 2)..(Len(s) + 1) : t[n] = s[n - 1]
<1>. DEFINE front == SubSeq(s, 1, k)
            back == SubSeq(s, k + 1, Len(s))
<1>1. Len(s) \in Nat /\ \A n \in 1..Len(s) : s[n] \in Items
  OBVIOUS
<1>2. front \in Seq(Items) /\ Len(front) = k /\ \A n \in 1..k : front[n] = s[n]
  BY <1>1, SubSeqProperties
<1>3. /\ back \in Seq(Items) /\ Len(back) = Len(s) - k
      /\ \A n \in 1..(Len(s) - k) : back[n] = s[n + k]
  BY <1>1, SubSeqProperties
<1>4. InsertAt(s, k + 1, i) = (front \o <<i>>) \o back
  <2>1. InsertAt(s, k + 1, i) = SubSeq(s, 1, (k + 1) - 1) \o <<i>> \o SubSeq(s, k + 1, Len(s))
    BY DEF InsertAt
  <2>2. (k + 1) - 1 = k
    OBVIOUS
  <2>. QED  BY <2>1, <2>2
<1>. HIDE DEF front, back
<1>5. /\ front \o <<i>> \in Seq(Items) /\ Len(front \o <<i>>) = k + 1
      /\ \A n \in 1..(k + 1) : (front \o <<i>>)[n] = IF n <= k THEN s[n] ELSE i
  BY <1>2, ConcatProperties
<1>. DEFINE left == front \o <<i>>
            t == InsertAt(s, k + 1, i)
<1>7. /\ left \in Seq(Items) /\ Len(left) = k + 1
      /\ \A n \in 1..(k + 1) : left[n] = IF n <= k THEN s[n] ELSE i
  BY <1>5
<1>a. t = left \o back
  BY <1>4
<1>. HIDE DEF left, t
<1>6. /\ t \in Seq(Items) /\ Len(t) = Len(left) + Len(back)
      /\ \A n \in 1..(Len(left) + Len(back)) :
           t[n] = IF n <= Len(left) THEN left[n] ELSE back[n - Len(left)]
  BY <1>3, <1>7, <1>a, ConcatProperties
<1>8. k \in Nat /\ k <= Len(s) /\ Len(left) + Len(back) = Len(s) + 1
  BY <1>1, <1>3, <1>7
<1>9. \A n \in 1..(Len(s) + 1) : t[n] = IF n <= k + 1 THEN left[n] ELSE back[n - (k + 1)]
  BY <1>6, <1>7, <1>8
<1>10. ASSUME NEW n \in 1..(k + 1)  PROVE t[n] = IF n <= k THEN s[n] ELSE i
  <2>1. n \in 1..(Len(s) + 1) /\ n <= k + 1
    BY <1>1, <1>8
  <2>2. t[n] = left[n]
    BY <1>9, <2>1
  <2>. QED  BY <1>7, <2>2
<1>11. ASSUME NEW n \in (k + 2)..(Len(s) + 1)  PROVE t[n] = s[n - 1]
  <2>1. n - (k + 1) \in 1..(Len(s) - k) /\ (n - (k + 1)) + k = n - 1 /\ n \in 1..(Len(s) + 1)
    BY <1>1, <1>8
  <2>2. ~(n <= k + 1)
    BY <1>8
  <2>. QED  BY <1>3, <1>9, <2>1, <2>2
<1>. QED  BY <1>1, <1>6, <1>8, <1>10, <1>11 DEF t

(* And removing one likewise. *)
LEMMA RemoveFacts ==
  ASSUME NEW s \in Seq(Items), NEW k \in 1..Len(s)
  PROVE  LET t == RemoveAt(s, k) IN
         /\ t \in Seq(Items) /\ Len(t) = Len(s) - 1
         /\ \A n \in 1..(k - 1) : t[n] = s[n]
         /\ \A n \in k..(Len(s) - 1) : t[n] = s[n + 1]
<1>. DEFINE front == SubSeq(s, 1, k - 1)
            back == SubSeq(s, k + 1, Len(s))
<1>1. Len(s) \in Nat /\ \A n \in 1..Len(s) : s[n] \in Items
  OBVIOUS
<1>2. front \in Seq(Items) /\ Len(front) = k - 1 /\ \A n \in 1..(k - 1) : front[n] = s[n]
  BY <1>1, SubSeqProperties
<1>3. /\ back \in Seq(Items) /\ Len(back) = Len(s) - k
      /\ \A n \in 1..(Len(s) - k) : back[n] = s[n + k]
  BY <1>1, SubSeqProperties
<1>4. RemoveAt(s, k) = front \o back
  BY DEF RemoveAt
<1>. DEFINE t == RemoveAt(s, k)
<1>a. t = front \o back
  BY <1>4
<1>. HIDE DEF front, back, t
<1>5. /\ t \in Seq(Items) /\ Len(t) = Len(front) + Len(back)
      /\ \A n \in 1..(Len(front) + Len(back)) :
           t[n] = IF n <= Len(front) THEN front[n] ELSE back[n - Len(front)]
  BY <1>2, <1>3, <1>a, ConcatProperties
<1>6. k \in Nat \ {0} /\ k <= Len(s) /\ Len(front) + Len(back) = Len(s) - 1
  BY <1>1, <1>2, <1>3
<1>7. \A n \in 1..(Len(s) - 1) : t[n] = IF n <= k - 1 THEN front[n] ELSE back[n - (k - 1)]
  BY <1>2, <1>5, <1>6
<1>8. ASSUME NEW n \in 1..(k - 1)  PROVE t[n] = s[n]
  <2>1. n \in 1..(Len(s) - 1) /\ n <= k - 1
    BY <1>1, <1>6
  <2>2. t[n] = front[n]
    BY <1>7, <2>1
  <2>. QED  BY <1>2, <2>2
<1>9. ASSUME NEW n \in k..(Len(s) - 1)  PROVE t[n] = s[n + 1]
  <2>1. n - (k - 1) \in 1..(Len(s) - k) /\ (n - (k - 1)) + k = n + 1 /\ n \in 1..(Len(s) - 1)
    BY <1>1, <1>6
  <2>2. ~(n <= k - 1)
    BY <1>6
  <2>. QED  BY <1>3, <1>7, <2>1, <2>2
<1>. QED  BY <1>5, <1>6, <1>8, <1>9 DEF t

(* So does dropping the first of them. *)
LEMMA DropFacts ==
  ASSUME NEW s \in Seq(Items), NEW k \in 0..Len(s)
  PROVE  LET t == SubSeq(s, k + 1, Len(s)) IN
         /\ t \in Seq(Items) /\ Len(t) = Len(s) - k
         /\ \A n \in 1..(Len(s) - k) : t[n] = s[n + k]
OBVIOUS

(* A listed item has its end known. *)
LEMMA ListedIsKnown ==
  ASSUME TypeOK, Entries, PurgeListExact, NEW n \in 1..Len(pendingPurge)
  PROVE  /\ pendingPurge[n] \in items \ asked
         /\ start[pendingPurge[n]] \in Nat /\ delta[pendingPurge[n]] \in Nat
         /\ expiry(pendingPurge[n]) \in Nat
<1>1. pendingPurge[n] \in ToSet(pendingPurge) /\ pendingPurge[n] \in Items
  BY DEF TypeOK, ToSet
<1>2. pendingPurge[n] \in items \ asked /\ delta[pendingPurge[n]] # None
  BY <1>1 DEF PurgeListExact
<1>3. start[pendingPurge[n]] \in Nat /\ delta[pendingPurge[n]] \in Nat
  BY <1>1, <1>2 DEF TypeOK, Entries
<1>. QED  BY <1>2, <1>3, TTLAssumption DEF TTLAssumption, expiry, Plus

-----------------------------------------------------------------------------
(* Whatever the other timers, a timer is set when there is something to     *)
(* purge, in a slot that was free, to fire no later than nextPurge.         *)
LEMMA ScheduleFacts ==
  ASSUME TypeOK, NEW rest \in [Slots -> Timer \cup {None}],
         Schedule(rest),
         pendingPurge' # <<>> => expiry(Head(pendingPurge))' \in Nat
  PROVE  /\ nextPurge' \in Nat /\ task' \in Slots \cup {0}
         /\ timers' \in [Slots -> Timer \cup {None}]
         /\ task' = 0 => pendingPurge' = <<>> /\ timers' = rest
         /\ task' # 0 =>
              /\ pendingPurge' # <<>> /\ rest[task'] = None
              /\ nextPurge' = Later(now, Plus(expiry(Head(pendingPurge))', Slack))
              /\ \E d \in Nat :
                   /\ d <= nextPurge' - now
                   /\ timers' = [rest EXCEPT ![task'] = NewTimer(d)]
<1>1. CASE pendingPurge' = <<>>
  BY <1>1 DEF Schedule
<1>2. CASE pendingPurge' # <<>>
  <2>1. PICK k \in Slots :
          /\ rest[k] = None
          /\ nextPurge' = Later(now, Plus(expiry(Head(pendingPurge))', Slack))
          /\ timers' = [rest EXCEPT ![k] = NewTimer(DelayUntil(nextPurge'))]
          /\ task' = k
    BY <1>2 DEF Schedule
  <2>2. now \in Nat /\ Slack \in Nat /\ Infinity \in Nat /\ now < Infinity
    BY TTLAssumption DEF TTLAssumption, TypeOK
  <2>3. nextPurge' \in Nat /\ nextPurge' >= now
    BY <1>2, <2>1, <2>2 DEF Later, Plus
  <2>4. DelayUntil(nextPurge') \in Nat /\ DelayUntil(nextPurge') <= nextPurge' - now
    <3>1. nextPurge' - now \in Nat
      <4>1. \A a, b \in Nat : a >= b => a - b \in Nat
        OBVIOUS
      <4>. QED  BY <2>2, <2>3, <4>1
    <3>2. Int32(nextPurge' - now) \in Nat /\ Int32(nextPurge' - now) <= nextPurge' - now
      BY <3>1, Int32Facts
    <3>. QED  BY <3>1, <3>2 DEF DelayUntil
  <2>5. NewTimer(DelayUntil(nextPurge')) \in Timer
    <3>1. timeOutOfFocus \in Nat /\ now + DelayUntil(nextPurge') \in Nat
      BY <2>2, <2>4 DEF TypeOK
    <3>. QED  BY <2>4, <3>1 DEF NewTimer, Timer
  <2>6. timers' \in [Slots -> Timer \cup {None}]
    BY <2>1, <2>5
  <2>7. task' # 0
    BY <2>1 DEF Slots
  <2>. QED  BY <1>2, <2>1, <2>3, <2>4, <2>6, <2>7
<1>. QED  BY <1>1, <1>2

LEMMA ClearTaskFacts ==
  ASSUME TypeOK
  PROVE  /\ clearTask \in [Slots -> Timer \cup {None}]
         /\ \A k \in Slots : clearTask[k] \in {timers[k], None}
         /\ Timely /\ past = "visible" => \A k \in Slots : clearTask[k] = None
<1>1. clearTask \in [Slots -> Timer \cup {None}]
  BY DEF TypeOK, clearTask
<1>2. \A k \in Slots : clearTask[k] \in {timers[k], None}
  BY DEF TypeOK, clearTask
<1>3. ASSUME Timely, past = "visible", NEW k \in Slots  PROVE clearTask[k] = None
  <2>1. timers[k] = None \/ (k = task /\ timers[k].hops = 0 /\ ~timers[k].suspended)
    BY <1>3 DEF Timely, TimersRight, FocusRight
  <2>2. CASE timers[k] = None
    BY <1>2, <2>2
  <2>3. CASE timers[k] # None
    BY <2>1, <2>3 DEF TypeOK, clearTask, Live, Slots
  <2>. QED  BY <2>2, <2>3
<1>. QED  BY <1>1, <1>2, <1>3

LEMMA HiddenForNat ==
  ASSUME TypeOK, HiddenSince
  PROVE  HiddenFor \in Nat /\ HiddenFor >= timeOutOfFocus
BY TTLAssumption DEF TTLAssumption, TypeOK, HiddenSince, HiddenFor

(* When a purge is scheduled at this time, and nothing about the focus      *)
(* changes, the timers and the task are right again.                        *)
LEMMA ScheduleInv ==
  ASSUME IInv, UNCHANGED <<now, focus>>,
         NEW rest \in [Slots -> Timer \cup {None}],
         \A k \in Slots : rest[k] \in {timers[k], None},
         Timely /\ past = "visible" => \A k \in Slots : rest[k] = None,
         pendingPurge' # <<>> => expiry(Head(pendingPurge))' \in Nat,
         Schedule(rest)
  PROVE  TaskRight' /\ Timely' /\ HiddenSince'
<1>. USE DEF focus
<1>1. /\ nextPurge' \in Nat /\ task' \in Slots \cup {0}
      /\ timers' \in [Slots -> Timer \cup {None}]
      /\ task' = 0 => pendingPurge' = <<>> /\ timers' = rest
      /\ task' # 0 =>
           /\ pendingPurge' # <<>> /\ rest[task'] = None
           /\ nextPurge' = Later(now, Plus(expiry(Head(pendingPurge))', Slack))
           /\ \E d \in Nat : d <= nextPurge' - now
                             /\ timers' = [rest EXCEPT ![task'] = NewTimer(d)]
  BY ScheduleFacts DEF IInv
<1>2. now \in Nat /\ timeOutOfFocus \in Nat /\ None \notin Timer
  BY TTLAssumption DEF TTLAssumption, IInv, TypeOK
<1>3. ASSUME task' # 0
      PROVE  \E d \in Nat : d <= nextPurge' - now /\ timers'[task'] = NewTimer(d)
  BY <1>1, <1>3
<1>4. \A k \in Slots : k # task' => timers'[k] = rest[k]
  BY <1>1
<1>5. ASSUME NEW d \in Nat
      PROVE  /\ NewTimer(d) \in Timer /\ NewTimer(d) # None
             /\ NewTimer(d).start = timeOutOfFocus /\ NewTimer(d).due = now + d
             /\ NewTimer(d).hops = 0 /\ ~NewTimer(d).suspended /\ NewTimer(d).left = d
  <2>1. NewTimer(d) \in Timer
    BY <1>2 DEF NewTimer, Timer
  <2>. QED  BY <1>2, <2>1 DEF NewTimer
<1>6. HiddenFor' = HiddenFor
  BY DEF HiddenFor
<1>7. ASSUME past' # "loadedHidden"
      PROVE  HiddenFor \in Nat /\ FocusRight'
  BY <1>7, HiddenForNat DEF IInv, Timely, FocusRight, HiddenFor
<1>8. TaskRight'
  <2>1. TaskSet'
    BY <1>3, <1>5 DEF TaskSet
  <2>2. PurgePlanned'
    BY <1>1 DEF PurgePlanned, Later, Plus
  <2>3. ASSUME past' # "loadedHidden", task' # 0
        PROVE  RunsAt(task)' <= nextPurge' + 2 * HiddenFor'
    <3>1. PICK d \in Nat : d <= nextPurge' - now /\ timers'[task'] = NewTimer(d)
      BY <1>3, <2>3
    <3>2. RunsAt(task)' = (now + d) + HiddenFor - timeOutOfFocus
      BY <1>5, <1>6, <3>1 DEF RunsAt
    <3>3. HiddenFor \in Nat
      BY <1>7, <2>3
    <3>4. \A n, m, h, t, p \in Nat : m <= p - n => (n + m) + h - t <= p + 2 * h
      OBVIOUS
    <3>5. nextPurge' \in Nat
      BY <1>1
    <3>6. (now + d) + HiddenFor - timeOutOfFocus <= nextPurge' + 2 * HiddenFor
      BY <1>2, <3>1, <3>3, <3>4, <3>5
    <3>. QED  BY <1>6, <3>2, <3>6
  <2>. QED  BY <2>1, <2>2, <2>3 DEF TaskRight, TaskInTime
<1>9. ASSUME past' # "loadedHidden", NEW k \in Slots, timers'[k] # None
      PROVE  /\ timers'[k].start <= timeOutOfFocus'
             /\ timers'[k].suspended => hidden'
             /\ ~timers'[k].suspended => timers'[k].due >= now'
             /\ timers'[k].left + now' <= RunsAt(k)'
             /\ past' = "visible" => k = task' /\ timers'[k].hops = 0
  <2>1. CASE k = task'
    <3>1. task' # 0
      BY <2>1 DEF Slots
    <3>2. PICK d \in Nat : timers'[k] = NewTimer(d)
      BY <1>3, <2>1, <3>1
    <3>3. RunsAt(k)' = (now + d) + HiddenFor - timeOutOfFocus
      BY <1>5, <1>6, <3>2 DEF RunsAt
    <3>4. HiddenFor \in Nat /\ HiddenFor >= timeOutOfFocus
      BY HiddenForNat DEF IInv
    <3>5. \A n, m, h, t \in Nat : h >= t => m + n <= (n + m) + h - t
      OBVIOUS
    <3>6. now' = now /\ timeOutOfFocus' = timeOutOfFocus
      OBVIOUS
    <3>7. /\ timers'[k].start = timeOutOfFocus /\ timers'[k].due = now + d
          /\ timers'[k].hops = 0 /\ ~timers'[k].suspended /\ timers'[k].left = d
      BY <1>5, <3>2
    <3>8. d + now <= (now + d) + HiddenFor - timeOutOfFocus
      BY <1>2, <3>4, <3>5
    <3>9. timeOutOfFocus <= timeOutOfFocus /\ now + d >= now
      BY <1>2
    <3>. QED  BY <2>1, <3>3, <3>6, <3>7, <3>8, <3>9
  <2>2. CASE k # task'
    <3>1. timers'[k] = timers[k] /\ timers[k] # None
      BY <1>4, <1>9, <2>2
    <3>2. RunsAt(k)' = RunsAt(k)
      BY <1>6, <3>1 DEF RunsAt
    <3>3. past' # "visible"
      BY <1>4, <1>9, <2>2 DEF IInv
    <3>. QED  BY <1>9, <3>1, <3>2, <3>3 DEF IInv, Timely, TimersRight
  <2>. QED  BY <2>1, <2>2
<1>10. Timely'
  BY <1>7, <1>9 DEF Timely, TimersRight
<1>. QED  BY <1>8, <1>10 DEF IInv, HiddenSince

-----------------------------------------------------------------------------
(* Steps that leave the timers alone. *)
LEMMA TimersKept ==
  ASSUME IInv, UNCHANGED <<now, focus, timers, nextPurge, task>>, PurgePlanned'
  PROVE  TaskRight' /\ Timely' /\ HiddenSince'
<1>1. HiddenFor' = HiddenFor /\ \A k : RunsAt(k)' = RunsAt(k)
  BY DEF HiddenFor, RunsAt, focus
<1>2. TaskSet' /\ TaskInTime'
  BY <1>1 DEF IInv, TaskRight, TaskSet, TaskInTime, focus
<1>3. FocusRight' = FocusRight
  BY <1>1 DEF FocusRight, focus
<1>4. TimersRight' = TimersRight
  BY <1>1 DEF TimersRight, focus
<1>. QED  BY <1>2, <1>3, <1>4 DEF IInv, TaskRight, Timely, HiddenSince, focus

LEMMA EntriesKept ==
  ASSUME IInv, UNCHANGED entries, UNCHANGED pendingPurge
  PROVE  /\ Entries' /\ PurgeListExact'
         /\ \A i : expiry(i)' = expiry(i)
BY DEF IInv, Entries, PurgeListExact, entries, expiry

LEMMA AddInv ==
  ASSUME IInv, NEW i \in Items, Add(i)
  PROVE  IInv'
<1>. USE DEF Add
<1>1. TypeOK'
  BY DEF IInv, TypeOK, focus, purge
<1>2. Entries'
  BY DEF IInv, Entries
<1>3. PurgeListExact'
  BY DEF IInv, PurgeListExact, TypeOK, expiry, purge
<1>4. PurgePlanned'
  BY DEF IInv, TaskRight, PurgePlanned, expiry, purge
<1>. QED  BY <1>1, <1>2, <1>3, <1>4, TimersKept DEF IInv, purge

(* reschedulePurge. *)
LEMMA RescheduleInv ==
  ASSUME IInv, UNCHANGED <<now, focus>>, reschedulePurge,
         pendingPurge' # <<>> => expiry(Head(pendingPurge))' \in Nat
  PROVE  /\ TaskRight' /\ Timely' /\ HiddenSince'
         /\ nextPurge' \in Nat /\ task' \in Slots \cup {0}
         /\ timers' \in [Slots -> Timer \cup {None}]
<1>1. /\ clearTask \in [Slots -> Timer \cup {None}]
      /\ \A k \in Slots : clearTask[k] \in {timers[k], None}
      /\ Timely /\ past = "visible" => \A k \in Slots : clearTask[k] = None
  BY ClearTaskFacts DEF IInv
<1>2. Schedule(clearTask)
  BY DEF reschedulePurge
<1>3. TaskRight' /\ Timely' /\ HiddenSince'
  BY <1>1, <1>2, ScheduleInv
<1>. QED  BY <1>1, <1>2, <1>3, ScheduleFacts DEF IInv

LEMMA RefreshInv ==
  ASSUME IInv, Refresh
  PROVE  IInv'
<1>. USE DEF Refresh
<1>1. TaskRight' /\ Timely' /\ HiddenSince' /\ nextPurge' \in Nat /\ task' \in Slots \cup {0}
      /\ timers' \in [Slots -> Timer \cup {None}]
  BY RescheduleInv
<1>2. TypeOK'
  BY <1>1 DEF IInv, TypeOK, focus
<1>3. Entries'
  BY DEF IInv, Entries
<1>4. PurgeListExact'
  BY DEF IInv, TypeOK, PurgeListExact, ToSet
<1>. QED  BY <1>1, <1>2, <1>3, <1>4 DEF IInv

LEMMA ClearInv ==
  ASSUME IInv, Clear
  PROVE  IInv'
<1>. USE DEF Clear, Forget, newCohort
<1>1. TaskRight' /\ Timely' /\ HiddenSince' /\ nextPurge' \in Nat /\ task' \in Slots \cup {0}
      /\ timers' \in [Slots -> Timer \cup {None}]
  BY RescheduleInv
<1>2. TypeOK'
  BY <1>1 DEF IInv, TypeOK, focus
<1>3. Entries'
  BY DEF IInv, Entries
<1>4. PurgeListExact'
  BY DEF IInv, TypeOK, PurgeListExact, ToSet
<1>. QED  BY <1>1, <1>2, <1>3, <1>4 DEF IInv

-----------------------------------------------------------------------------
(* An item that is marked for purge joins the list at the right place. *)
LEMMA MarkedExact ==
  ASSUME IInv, NEW i \in asked, NEW d \in Nat,
         UNCHANGED items, asked' = asked \ {i},
         start' = [start EXCEPT ![i] = IF @ = None THEN now ELSE @],
         delta' = [delta EXCEPT ![i] = d],
         markForPurge(i, expiry(i)')
  PROVE  /\ pendingPurge' \in Seq(Items) /\ pendingPurge' # <<>>
         /\ PurgeListExact'
         /\ expiry(Head(pendingPurge))' \in Nat
         /\ \/ Head(pendingPurge)' = i
            \/ /\ pendingPurge # <<>>
               /\ expiry(Head(pendingPurge))' = expiry(Head(pendingPurge))
<1>. DEFINE s == pendingPurge
            t == pendingPurge'
            L == Len(s)
            ends(j) == Plus(start'[j], delta'[j])
<1>1. /\ s \in Seq(Items) /\ L \in Nat /\ DOMAIN s = 1..L /\ i \in Items /\ i \in items
      /\ None \notin Nat
  BY TTLAssumption DEF TTLAssumption, IInv, TypeOK
<1>2. ASSUME NEW n \in 1..L
      PROVE  /\ s[n] \in items \ asked /\ s[n] # i
             /\ expiry(s[n]) \in Nat /\ ends(s[n]) = expiry(s[n])
  <2>1. s[n] \in items \ asked /\ s[n] # i /\ s[n] \in Items /\ expiry(s[n]) \in Nat
    BY ListedIsKnown DEF IInv, TypeOK
  <2>. QED  BY <2>1 DEF expiry, IInv, TypeOK
<1>3. ends(i) \in Nat
  <2>1. start'[i] \in Nat /\ delta'[i] = d
    BY <1>1, TTLAssumption DEF TTLAssumption, IInv, TypeOK
  <2>. QED  BY <2>1, TTLAssumption DEF TTLAssumption, Plus
<1>4. PICK k \in 0..L :
        /\ \A n \in 1..k : expiry(s[n]) < ends(i)
        /\ \A n \in (k + 1)..L : expiry(s[n]) >= ends(i)
        /\ t = InsertAt(s, k + 1, i)
  BY DEF markForPurge, expiry
<1>5. /\ t \in Seq(Items) /\ Len(t) = L + 1 /\ t[k + 1] = i
      /\ \A n \in 1..k : t[n] = s[n]
      /\ \A n \in (k + 2)..(L + 1) : t[n] = s[n - 1]
  <2>. DEFINE u == InsertAt(s, k + 1, i)
  <2>. HIDE DEF s, t
  <2>1. /\ u \in Seq(Items) /\ Len(u) = Len(s) + 1 /\ u[k + 1] = i
        /\ \A n \in 1..k : u[n] = s[n]
        /\ \A n \in (k + 2)..(Len(s) + 1) : u[n] = s[n - 1]
    BY <1>1, InsertFacts
  <2>. QED  BY <1>4, <2>1
<1>. HIDE DEF s, t, ends
<1>6. DOMAIN t = 1..(L + 1) /\ Head(t) = t[1] /\ t # <<>> /\ k \in Nat /\ k <= L
  <2>1. k \in Nat /\ k <= L
    BY <1>1
  <2>2. DOMAIN t = 1..(L + 1)
    BY <1>5, LenProperties
  <2>3. t # <<>> /\ Head(t) = t[1]
    BY <1>1, <1>5
  <2>. QED  BY <2>1, <2>2, <2>3
<1>. HIDE DEF L
<1>7. ToSet(t) = ToSet(s) \cup {i}
  <2>1. ASSUME NEW n \in 1..(L + 1)  PROVE t[n] \in ToSet(s) \cup {i}
    <3>1. n \in 1..k \/ n = k + 1 \/ (n \in (k + 2)..(L + 1) /\ n - 1 \in 1..L)
      BY <1>1, <1>6
    <3>2. \A j \in 1..L : s[j] \in ToSet(s)
      BY <1>1 DEF ToSet
    <3>3. CASE n \in 1..k
      BY <1>1, <1>5, <1>6, <3>2, <3>3
    <3>4. CASE n \in (k + 2)..(L + 1) /\ n - 1 \in 1..L
      BY <1>5, <3>2, <3>4
    <3>. QED  BY <1>5, <3>1, <3>3, <3>4
  <2>2. ASSUME NEW n \in 1..L  PROVE s[n] \in ToSet(t)
    <3>1. CASE n \in 1..k
      <4>1. t[n] = s[n]
        BY <1>5, <3>1
      <4>2. n \in DOMAIN t
        BY <1>1, <1>6
      <4>. QED  BY <4>1, <4>2 DEF ToSet
    <3>2. CASE n \notin 1..k
      <4>1. n + 1 \in (k + 2)..(L + 1) /\ n + 1 \in 1..(L + 1) /\ (n + 1) - 1 = n
        BY <1>1, <1>6, <3>2
      <4>. QED  BY <1>5, <1>6, <4>1 DEF ToSet
    <3>. QED  BY <3>1, <3>2
  <2>3. i \in ToSet(t)
    <3>1. k + 1 \in DOMAIN t
      BY <1>1, <1>6
    <3>. QED  BY <1>5, <3>1 DEF ToSet
  <2>. QED  BY <1>1, <1>6, <2>1, <2>2, <2>3 DEF ToSet
<1>8. ToSet(t) = {j \in items' \ asked' : delta'[j] # None}
  <2>1. ToSet(s) = {j \in items \ asked : delta[j] # None}
    BY DEF IInv, PurgeListExact, s
  <2>. QED  BY <1>1, <1>7, <2>1 DEF IInv, TypeOK
<1>9. ASSUME NEW m \in 1..(L + 1), NEW n \in 1..(L + 1), m < n
      PROVE  t[m] # t[n] /\ ends(t[m]) <= ends(t[n])
  <2>1. \A a, b \in 1..L : a < b => s[a] # s[b] /\ expiry(s[a]) <= expiry(s[b])
    BY <1>1 DEF IInv, PurgeListExact, s
  <2>2. CASE n <= k
    <3>1. m \in 1..k /\ n \in 1..k /\ m \in 1..L /\ n \in 1..L
      BY <1>1, <1>6, <1>9, <2>2
    <3>2. t[m] = s[m] /\ t[n] = s[n]
      BY <1>5, <3>1
    <3>. QED  BY <1>2, <1>9, <2>1, <3>1, <3>2
  <2>3. CASE n = k + 1
    <3>1. m \in 1..k /\ m \in 1..L
      BY <1>1, <1>6, <1>9, <2>3
    <3>2. t[m] = s[m] /\ t[n] = i
      BY <1>5, <2>3, <3>1
    <3>. QED  BY <1>2, <1>3, <1>4, <3>1, <3>2
  <2>4. CASE n > k + 1 /\ m = k + 1
    <3>1. n \in (k + 2)..(L + 1) /\ n - 1 \in (k + 1)..L /\ n - 1 \in 1..L
      BY <1>1, <1>6, <2>4
    <3>2. t[m] = i /\ t[n] = s[n - 1]
      BY <1>5, <2>4, <3>1
    <3>. QED  BY <1>2, <1>3, <1>4, <3>1, <3>2
  <2>5. CASE n > k + 1 /\ m <= k
    <3>1. n \in (k + 2)..(L + 1) /\ n - 1 \in 1..L /\ m \in 1..k /\ m \in 1..L /\ m < n - 1
      BY <1>1, <1>6, <2>5
    <3>2. t[m] = s[m] /\ t[n] = s[n - 1]
      BY <1>5, <3>1
    <3>. QED  BY <1>2, <2>1, <3>1, <3>2
  <2>6. CASE n > k + 1 /\ m > k + 1
    <3>1. /\ n \in (k + 2)..(L + 1) /\ n - 1 \in 1..L
          /\ m \in (k + 2)..(L + 1) /\ m - 1 \in 1..L /\ m - 1 < n - 1
      BY <1>1, <1>6, <1>9, <2>6
    <3>2. t[m] = s[m - 1] /\ t[n] = s[n - 1]
      BY <1>5, <3>1
    <3>. QED  BY <1>2, <2>1, <3>1, <3>2
  <2>. QED  BY <1>1, <1>6, <2>2, <2>3, <2>4, <2>5, <2>6
<1>10. PurgeListExact'
  BY <1>6, <1>8, <1>9 DEF PurgeListExact, t, ends, expiry
<1>11. t[1] = i \/ (L > 0 /\ t[1] = s[1])
  <2>1. CASE k = 0
    BY <1>5, <2>1
  <2>2. CASE k # 0
    BY <1>1, <1>5, <1>6, <2>2
  <2>. QED  BY <2>1, <2>2
<1>12. CASE t[1] = i
  BY <1>3, <1>5, <1>6, <1>10, <1>12 DEF t, ends, expiry
<1>13. CASE L > 0 /\ t[1] = s[1]
  <2>1. 1 \in 1..L /\ s # <<>> /\ Head(s) = s[1]
    BY <1>1, <1>13 DEF L
  <2>. QED  BY <1>2, <1>5, <1>6, <1>10, <1>13, <2>1 DEF t, s, ends, expiry
<1>. QED  BY <1>11, <1>12, <1>13

LEMMA KnownInv ==
  ASSUME IInv, NEW i \in Items, Known(i)
  PROVE  IInv'
<1>1. PICK d \in Ttls :
        /\ start' = [start EXCEPT ![i] = IF @ = None THEN now ELSE @]
        /\ delta' = [delta EXCEPT ![i] = d]
        /\ IF d = None
             THEN UNCHANGED <<timers, purge>>
             ELSE /\ markForPurge(i, expiry(i)')
                  /\ IF mustReschedule(expiry(i)')
                       THEN reschedulePurge
                       ELSE UNCHANGED <<timers, nextPurge, task>>
  BY DEF Known
<1>2. i \in asked /\ i \in items /\ asked' = asked \ {i} /\ UNCHANGED <<now, focus, items>>
  BY DEF Known, IInv, TypeOK
<1>3. start' \in [Items -> Nat \cup {None}] /\ delta' \in [Items -> Nat \cup {None}]
  BY <1>1, TTLAssumption DEF TTLAssumption, IInv, TypeOK
<1>4. Entries'
  BY <1>1, <1>2, TTLAssumption DEF TTLAssumption, IInv, TypeOK, Entries
<1>5. CASE d = None
  <2>1. UNCHANGED <<timers, pendingPurge, nextPurge, task>>
    BY <1>1, <1>5 DEF purge
  <2>2. ASSUME NEW n \in 1..Len(pendingPurge)
        PROVE  /\ pendingPurge[n] # i
               /\ Plus(start'[pendingPurge[n]], delta'[pendingPurge[n]]) = expiry(pendingPurge[n])
    <3>1. pendingPurge[n] \in items \ asked /\ pendingPurge[n] \in Items
      BY ListedIsKnown DEF IInv, TypeOK
    <3>. QED  BY <1>1, <1>2, <3>1 DEF expiry, IInv, TypeOK
  <2>3. ToSet(pendingPurge) = {j \in items' \ asked' : delta'[j] # None}
    BY <1>1, <1>2, <1>5 DEF IInv, PurgeListExact, TypeOK
  <2>4. pendingPurge \in Seq(Items) /\ DOMAIN pendingPurge = 1..Len(pendingPurge)
    BY DEF IInv, TypeOK
  <2>5. PurgeListExact'
    BY <2>1, <2>2, <2>3, <2>4 DEF IInv, PurgeListExact, expiry
  <2>6. PurgePlanned'
    <3>1. CASE pendingPurge = <<>>
      BY <2>1, <3>1 DEF PurgePlanned
    <3>2. CASE pendingPurge # <<>>
      <4>1. Head(pendingPurge) = pendingPurge[1] /\ 1 \in 1..Len(pendingPurge)
        BY <2>4, <3>2
      <4>2. Plus(start'[Head(pendingPurge)], delta'[Head(pendingPurge)]) = expiry(Head(pendingPurge))
        BY <2>2, <4>1
      <4>. QED  BY <1>2, <2>1, <4>2 DEF IInv, TaskRight, PurgePlanned, expiry
    <3>. QED  BY <3>1, <3>2
  <2>7. TypeOK'
    BY <1>2, <1>3, <2>1 DEF IInv, TypeOK, focus
  <2>. QED  BY <1>2, <1>4, <2>1, <2>5, <2>6, <2>7, TimersKept DEF IInv
<1>6. CASE d # None
  <2>1. d \in Nat
    BY <1>6, TTLAssumption DEF TTLAssumption
  <2>2. /\ pendingPurge' \in Seq(Items) /\ pendingPurge' # <<>>
        /\ PurgeListExact'
        /\ expiry(Head(pendingPurge))' \in Nat
        /\ \/ Head(pendingPurge)' = i
           \/ /\ pendingPurge # <<>>
              /\ expiry(Head(pendingPurge))' = expiry(Head(pendingPurge))
    BY <1>1, <1>2, <1>6, <2>1, MarkedExact
  <2>3. CASE mustReschedule(expiry(i)')
    <3>1. /\ TaskRight' /\ Timely' /\ HiddenSince'
          /\ nextPurge' \in Nat /\ task' \in Slots \cup {0}
          /\ timers' \in [Slots -> Timer \cup {None}]
      BY <1>1, <1>2, <1>6, <2>2, <2>3, RescheduleInv
    <3>2. TypeOK'
      BY <1>2, <1>3, <2>2, <3>1 DEF IInv, TypeOK, focus
    <3>. QED  BY <1>4, <2>2, <3>1, <3>2 DEF IInv
  <2>4. CASE ~mustReschedule(expiry(i)')
    <3>1. UNCHANGED <<timers, nextPurge, task>>
      BY <1>1, <1>6, <2>4
    <3>2. task # 0 /\ ~(nextPurge > Plus(expiry(i)', Slack))
      BY <2>4 DEF mustReschedule
    <3>3. nextPurge \in Nat /\ now \in Nat /\ Slack \in Nat /\ Infinity \in Nat
      BY TTLAssumption DEF TTLAssumption, IInv, TypeOK
    <3>4. PurgePlanned'
      <4>1. CASE Head(pendingPurge)' = i
        <5>1. expiry(Head(pendingPurge))' = expiry(i)'
          BY <4>1 DEF expiry
        <5>. QED  BY <1>2, <2>2, <3>1, <3>2, <3>3, <5>1 DEF PurgePlanned, Later, Plus
      <4>2. CASE /\ pendingPurge # <<>>
                 /\ expiry(Head(pendingPurge))' = expiry(Head(pendingPurge))
        BY <1>2, <3>1, <4>2 DEF IInv, TaskRight, PurgePlanned, Later, Plus
      <4>. QED  BY <2>2, <4>1, <4>2
    <3>5. TypeOK'
      BY <1>2, <1>3, <2>2, <3>1 DEF IInv, TypeOK, focus
    <3>. QED  BY <1>2, <1>4, <2>2, <3>1, <3>4, <3>5, TimersKept DEF IInv
  <2>. QED  BY <2>3, <2>4
<1>. QED  BY <1>5, <1>6

-----------------------------------------------------------------------------
(* Dropping some of the items, and from the list just these, leaves the     *)
(* others as they are and the first of them no sooner than the first was.   *)
LEMMA KeptExact ==
  ASSUME IInv, NEW gone \in SUBSET (items \ asked), Forget(gone), UNCHANGED asked,
         pendingPurge' \in Seq(Items),
         NEW f \in [1..Len(pendingPurge') -> 1..Len(pendingPurge)],
         \A m, n \in 1..Len(pendingPurge') : m < n => f[m] < f[n],
         \A n \in 1..Len(pendingPurge') : pendingPurge'[n] = pendingPurge[f[n]],
         ToSet(pendingPurge') = ToSet(pendingPurge) \ gone
  PROVE  /\ start' \in [Items -> Nat \cup {None}] /\ delta' \in [Items -> Nat \cup {None}]
         /\ items' \subseteq Items /\ asked' \subseteq items'
         /\ Entries' /\ PurgeListExact'
         /\ pendingPurge' # <<>> =>
              /\ pendingPurge # <<>> /\ expiry(Head(pendingPurge))' \in Nat
              /\ expiry(Head(pendingPurge)) \in Nat
              /\ expiry(Head(pendingPurge)) <= expiry(Head(pendingPurge))'
<1>. DEFINE s == pendingPurge
            t == pendingPurge'
            ends(j) == Plus(start'[j], delta'[j])
<1>1. /\ start' \in [Items -> Nat \cup {None}] /\ delta' \in [Items -> Nat \cup {None}]
      /\ items' \subseteq Items /\ asked' \subseteq items'
  BY DEF Forget, IInv, TypeOK
<1>2. Entries'
  BY DEF Forget, IInv, Entries
<1>3. /\ s \in Seq(Items) /\ Len(s) \in Nat /\ DOMAIN s = 1..Len(s)
      /\ t \in Seq(Items) /\ Len(t) \in Nat /\ DOMAIN t = 1..Len(t)
  BY DEF IInv, TypeOK
<1>4. ASSUME NEW n \in 1..Len(t)
      PROVE  /\ f[n] \in 1..Len(s) /\ t[n] = s[f[n]]
             /\ t[n] \notin gone /\ t[n] \in Items
             /\ ends(t[n]) = expiry(t[n]) /\ ends(t[n]) \in Nat
  <2>1. f[n] \in 1..Len(s) /\ t[n] = s[f[n]] /\ t[n] \notin gone /\ t[n] \in Items
    BY <1>3 DEF ToSet
  <2>2. expiry(t[n]) \in Nat
    BY <2>1, ListedIsKnown DEF IInv
  <2>. QED  BY <2>1, <2>2 DEF Forget, expiry
<1>5. \A a, b \in 1..Len(s) : a < b => s[a] # s[b] /\ expiry(s[a]) <= expiry(s[b])
  BY <1>3 DEF IInv, PurgeListExact
<1>6. ToSet(t) = {j \in items' \ asked' : delta'[j] # None}
  <2>1. ToSet(s) = {j \in items \ asked : delta[j] # None}
    BY DEF IInv, PurgeListExact
  <2>. QED  BY <2>1 DEF Forget, IInv, TypeOK
<1>. HIDE DEF s, t, ends
<1>7. ASSUME NEW m \in 1..Len(t), NEW n \in 1..Len(t), m < n
      PROVE  t[m] # t[n] /\ ends(t[m]) <= ends(t[n])
  <2>1. f[m] < f[n]
    BY <1>7 DEF t
  <2>2. f[m] \in 1..Len(s) /\ t[m] = s[f[m]] /\ ends(t[m]) = expiry(s[f[m]])
    BY <1>4
  <2>3. f[n] \in 1..Len(s) /\ t[n] = s[f[n]] /\ ends(t[n]) = expiry(s[f[n]])
    BY <1>4
  <2>. QED  BY <1>5, <2>1, <2>2, <2>3
<1>8. PurgeListExact'
  BY <1>3, <1>6, <1>7 DEF PurgeListExact, t, ends, expiry
<1>9. ASSUME t # <<>>
      PROVE  /\ s # <<>> /\ ends(Head(t)) \in Nat
             /\ expiry(Head(s)) \in Nat /\ expiry(Head(s)) <= ends(Head(t))
  <2>1. 1 \in 1..Len(t) /\ Head(t) = t[1]
    BY <1>3, <1>9
  <2>2. f[1] \in 1..Len(s) /\ t[1] = s[f[1]] /\ ends(t[1]) = expiry(s[f[1]]) /\ ends(t[1]) \in Nat
    BY <1>4, <2>1
  <2>3. s # <<>> /\ Head(s) = s[1] /\ 1 \in 1..Len(s)
    BY <1>3, <2>2
  <2>4. expiry(s[1]) \in Nat
    BY <2>3, ListedIsKnown DEF IInv, s
  <2>5. expiry(s[1]) <= expiry(s[f[1]])
    BY <1>5, <2>2, <2>3, <2>4
  <2>. QED  BY <2>1, <2>2, <2>3, <2>4, <2>5
<1>10. t # <<>> => /\ s # <<>> /\ expiry(Head(pendingPurge))' \in Nat
                   /\ expiry(Head(s)) \in Nat
                   /\ expiry(Head(s)) <= expiry(Head(pendingPurge))'
  BY <1>9 DEF t, ends, expiry
<1>. QED  BY <1>1, <1>2, <1>8, <1>10 DEF s, t

LEMMA DeleteInv ==
  ASSUME IInv, NEW i \in Items, Delete(i)
  PROVE  IInv'
<1>. DEFINE s == pendingPurge
            t == pendingPurge'
<1>1. /\ i \in items \ asked /\ Forget({i})
      /\ UNCHANGED <<now, focus, timers, asked, nextPurge, task>>
  BY DEF Delete
<1>2. s \in Seq(Items) /\ Len(s) \in Nat /\ DOMAIN s = 1..Len(s)
  BY DEF IInv, TypeOK
<1>3. \A a, b \in 1..Len(s) : a < b => s[a] # s[b]
  BY <1>2 DEF IInv, PurgeListExact
<1>4. \E f \in [1..Len(t) -> 1..Len(s)] :
        /\ t \in Seq(Items)
        /\ \A m, n \in 1..Len(t) : m < n => f[m] < f[n]
        /\ \A n \in 1..Len(t) : t[n] = s[f[n]]
        /\ ToSet(t) = ToSet(s) \ {i}
  <2>1. CASE \E n \in DOMAIN pendingPurge : pendingPurge[n] = i
    <3>1. PICK k \in 1..Len(s) : s[k] = i /\ t = RemoveAt(s, k)
      BY <1>2, <2>1 DEF Delete
    <3>. DEFINE f == [n \in 1..Len(t) |-> IF n < k THEN n ELSE n + 1]
    <3>. HIDE DEF s, t
    <3>2. /\ t \in Seq(Items) /\ Len(t) = Len(s) - 1
          /\ \A n \in 1..(k - 1) : t[n] = s[n]
          /\ \A n \in k..(Len(s) - 1) : t[n] = s[n + 1]
      BY <1>2, <3>1, RemoveFacts
    <3>3. k \in Nat /\ k >= 1 /\ k <= Len(s) /\ DOMAIN t = 1..Len(t)
      BY <1>2, <3>2
    <3>4. ASSUME NEW n \in 1..Len(t)
          PROVE  f[n] \in 1..Len(s) /\ f[n] # k /\ t[n] = s[f[n]]
      BY <1>2, <3>2, <3>3
    <3>5. ASSUME NEW m \in 1..Len(t), NEW n \in 1..Len(t), m < n  PROVE f[m] < f[n]
      BY <1>2, <3>2, <3>3, <3>5
    <3>6. f \in [1..Len(t) -> 1..Len(s)]
      BY <3>4
    <3>7. ASSUME NEW j \in 1..Len(s), j # k  PROVE \E n \in 1..Len(t) : f[n] = j
      <4>1. CASE j < k
        BY <1>2, <3>2, <3>3, <4>1
      <4>2. CASE j > k
        <5>1. j - 1 \in 1..Len(t) /\ f[j - 1] = j
          BY <1>2, <3>2, <3>3, <4>2
        <5>. QED  BY <5>1
      <4>. QED  BY <1>2, <3>3, <3>7, <4>1, <4>2
    <3>. HIDE DEF f
    <3>8. \A j \in 1..Len(s) : j # k => s[j] # i
      BY <1>2, <1>3, <3>1, <3>3
    <3>9. ToSet(t) = ToSet(s) \ {i}
      <4>1. ToSet(s) = {s[j] : j \in 1..Len(s)} /\ ToSet(t) = {t[n] : n \in 1..Len(t)}
        BY <1>2, <3>3 DEF ToSet
      <4>2. ASSUME NEW n \in 1..Len(t)  PROVE t[n] \in ToSet(s) \ {i}
        BY <3>4, <3>8, <4>1
      <4>3. ASSUME NEW j \in 1..Len(s), s[j] # i  PROVE s[j] \in ToSet(t)
        <5>1. PICK n \in 1..Len(t) : f[n] = j
          BY <3>1, <3>7, <4>3
        <5>. QED  BY <3>4, <4>1, <5>1
      <4>. QED  BY <4>1, <4>2, <4>3
    <3>. QED  BY <3>2, <3>4, <3>5, <3>6, <3>9
  <2>2. CASE ~\E n \in DOMAIN pendingPurge : pendingPurge[n] = i
    <3>1. t = s /\ i \notin ToSet(s)
      BY <1>2, <2>2 DEF Delete, ToSet
    <3>. DEFINE f == [n \in 1..Len(t) |-> n]
    <3>2. f \in [1..Len(t) -> 1..Len(s)]
      BY <3>1
    <3>. QED  BY <1>2, <3>1, <3>2
  <2>. QED  BY <2>1, <2>2
<1>5. /\ start' \in [Items -> Nat \cup {None}] /\ delta' \in [Items -> Nat \cup {None}]
      /\ items' \subseteq Items /\ asked' \subseteq items'
      /\ Entries' /\ PurgeListExact' /\ pendingPurge' \in Seq(Items)
      /\ pendingPurge' # <<>> =>
           /\ pendingPurge # <<>> /\ expiry(Head(pendingPurge))' \in Nat
           /\ expiry(Head(pendingPurge)) \in Nat
           /\ expiry(Head(pendingPurge)) <= expiry(Head(pendingPurge))'
  BY <1>1, <1>4, KeptExact
<1>6. PurgePlanned'
  <2>1. now \in Nat /\ nextPurge \in Nat /\ Slack \in Nat /\ Infinity \in Nat
    BY TTLAssumption DEF TTLAssumption, IInv, TypeOK
  <2>2. ASSUME pendingPurge' # <<>>
        PROVE  task # 0 /\ nextPurge <= Later(now, Plus(expiry(Head(pendingPurge))', Slack))
    BY <1>5, <2>1, <2>2 DEF IInv, TaskRight, PurgePlanned, Later, Plus
  <2>. QED  BY <1>1, <2>2 DEF PurgePlanned, Later, Plus
<1>7. TypeOK'
  BY <1>1, <1>5 DEF IInv, TypeOK, focus
<1>. QED  BY <1>1, <1>5, <1>6, <1>7, TimersKept DEF IInv

LEMMA SweepInv ==
  ASSUME IInv, NEW k \in Slots, timers[k] # None, Sweep(k)
  PROVE  IInv'
<1>. DEFINE s == pendingPurge
            t == pendingPurge'
<1>1. s \in Seq(Items) /\ Len(s) \in Nat /\ DOMAIN s = 1..Len(s)
  BY DEF IInv, TypeOK
<1>2. PICK cnt \in 0..Len(s) :
        /\ t = SubSeq(s, cnt + 1, Len(s))
        /\ Forget({s[n] : n \in 1..cnt})
        /\ UNCHANGED <<now, focus, asked>>
        /\ Schedule([timers EXCEPT ![k] = None])
  BY DEF Sweep
<1>. DEFINE gone == {s[n] : n \in 1..cnt}
            rest == [timers EXCEPT ![k] = None]
            f == [n \in 1..Len(t) |-> n + cnt]
<1>3. /\ t \in Seq(Items) /\ Len(t) = Len(s) - cnt
      /\ \A n \in 1..(Len(s) - cnt) : t[n] = s[n + cnt]
  <2>. DEFINE u == SubSeq(s, cnt + 1, Len(s))
  <2>. HIDE DEF s, t
  <2>1. u \in Seq(Items) /\ Len(u) = Len(s) - cnt /\ \A n \in 1..(Len(s) - cnt) : u[n] = s[n + cnt]
    BY <1>1, DropFacts
  <2>. QED  BY <1>2, <2>1
<1>4. cnt \in Nat /\ cnt <= Len(s) /\ DOMAIN t = 1..Len(t)
  BY <1>1, <1>3
<1>5. \A a, b \in 1..Len(s) : a < b => s[a] # s[b]
  BY <1>1 DEF IInv, PurgeListExact
<1>6. gone \in SUBSET (items \ asked)
  <2>1. \A n \in 1..cnt : n \in 1..Len(s)
    BY <1>1, <1>4
  <2>. QED  BY <2>1, ListedIsKnown DEF IInv
<1>. HIDE DEF s, t
<1>7. ASSUME NEW n \in 1..Len(t)
      PROVE  f[n] \in 1..Len(s) /\ f[n] > cnt /\ t[n] = s[f[n]]
  BY <1>1, <1>3, <1>4
<1>8. f \in [1..Len(t) -> 1..Len(s)]
  BY <1>7
<1>9. ASSUME NEW m \in 1..Len(t), NEW n \in 1..Len(t), m < n  PROVE f[m] < f[n]
  BY <1>1, <1>3, <1>4, <1>9
<1>10. ToSet(t) = ToSet(s) \ gone
  <2>1. ToSet(s) = {s[j] : j \in 1..Len(s)} /\ ToSet(t) = {t[n] : n \in 1..Len(t)}
    BY <1>1, <1>4 DEF ToSet
  <2>2. ASSUME NEW n \in 1..Len(t)  PROVE t[n] \in ToSet(s) \ gone
    <3>1. ASSUME NEW j \in 1..cnt  PROVE s[j] # s[f[n]]
      <4>1. j \in 1..Len(s) /\ f[n] \in 1..Len(s) /\ j < f[n]
        BY <1>1, <1>4, <1>7
      <4>. QED  BY <1>5, <4>1
    <3>. QED  BY <1>7, <2>1, <3>1
  <2>3. ASSUME NEW j \in 1..Len(s), s[j] \notin gone  PROVE s[j] \in ToSet(t)
    <3>1. j > cnt
      BY <1>1, <1>4, <2>3
    <3>2. j - cnt \in 1..Len(t) /\ t[j - cnt] = s[j]
      <4>1. j - cnt \in 1..(Len(s) - cnt) /\ (j - cnt) + cnt = j
        BY <1>1, <1>4, <3>1
      <4>. QED  BY <1>3, <4>1
    <3>. QED  BY <2>1, <3>2
  <2>. HIDE DEF gone
  <2>. QED  BY <2>1, <2>2, <2>3
<1>11. /\ start' \in [Items -> Nat \cup {None}] /\ delta' \in [Items -> Nat \cup {None}]
       /\ items' \subseteq Items /\ asked' \subseteq items'
       /\ Entries' /\ PurgeListExact'
       /\ pendingPurge' # <<>> => expiry(Head(pendingPurge))' \in Nat
  <2>. HIDE DEF gone, f
  <2>1. Forget(gone) /\ UNCHANGED asked
    BY <1>2 DEF gone
  <2>. QED  BY <1>3, <1>6, <1>7, <1>8, <1>9, <1>10, <2>1, KeptExact DEF s, t
<1>12. /\ rest \in [Slots -> Timer \cup {None}]
       /\ \A j \in Slots : rest[j] \in {timers[j], None}
       /\ Timely /\ past = "visible" => \A j \in Slots : rest[j] = None
  <2>1. \A j \in Slots : rest[j] = IF j = k THEN None ELSE timers[j]
    BY DEF IInv, TypeOK
  <2>2. rest \in [Slots -> Timer \cup {None}]
    BY DEF IInv, TypeOK
  <2>3. ASSUME Timely, past = "visible", NEW j \in Slots, j # k  PROVE timers[j] = None
    BY <2>3 DEF Timely, TimersRight
  <2>. HIDE DEF rest
  <2>. QED  BY <2>1, <2>2, <2>3
<1>13. UNCHANGED <<now, focus>> /\ Schedule(rest)
  BY <1>2
<1>. HIDE DEF rest
<1>14. TaskRight' /\ Timely' /\ HiddenSince'
  BY <1>11, <1>12, <1>13, ScheduleInv
<1>15. nextPurge' \in Nat /\ task' \in Slots \cup {0} /\ timers' \in [Slots -> Timer \cup {None}]
  BY <1>11, <1>12, <1>13, ScheduleFacts DEF IInv
<1>16. TypeOK'
  BY <1>3, <1>11, <1>13, <1>15 DEF IInv, TypeOK, focus, t
<1>. QED  BY <1>11, <1>14, <1>16 DEF IInv

-----------------------------------------------------------------------------
(* Steps that take no time and do not touch the collection are right if     *)
(* they leave it as it was when each timer runs its callback.               *)
LEMMA TimersMoved ==
  ASSUME IInv, UNCHANGED <<now, entries, purge>>,
         hidden' \in BOOLEAN, past' \in {"visible", "hidden", "loadedHidden"},
         outOfFocusStart' \in Nat \cup {None}, timeOutOfFocus' \in Nat,
         timers' \in [Slots -> Timer \cup {None}],
         \A k \in Slots : timers[k] # None => timers'[k] # None,
         HiddenSince',
         past' # "loadedHidden" => past # "loadedHidden" /\ FocusRight' /\ HiddenFor' = HiddenFor,
         ASSUME past' # "loadedHidden", NEW k \in Slots, timers'[k] # None
         PROVE  /\ timers[k] # None
                /\ timers'[k].start <= timeOutOfFocus'
                /\ timers'[k].suspended => hidden'
                /\ ~timers'[k].suspended => timers'[k].due >= now
                /\ timers'[k].left = timers[k].left
                /\ RunsAt(k)' = RunsAt(k)
                /\ past' = "visible" => past = "visible" /\ timers'[k].hops = timers[k].hops
  PROVE  IInv'
<1>1. TypeOK'
  BY DEF IInv, TypeOK, entries, purge
<1>2. Entries' /\ PurgeListExact'
  BY EntriesKept DEF purge
<1>3. PurgePlanned'
  BY DEF IInv, TaskRight, PurgePlanned, entries, purge, expiry
<1>4. TaskSet'
  BY DEF IInv, TypeOK, TaskRight, TaskSet, purge
<1>5. TaskInTime'
  <2>1. ASSUME past' # "loadedHidden", task # 0
        PROVE  RunsAt(task)' <= nextPurge' + 2 * HiddenFor'
    <3>1. task \in Slots /\ timers[task] # None /\ timers'[task] # None
      BY <2>1 DEF IInv, TypeOK, TaskRight, TaskSet
    <3>2. RunsAt(task)' = (RunsAt(task))'
      OBVIOUS
    <3>3. task' = task /\ nextPurge' = nextPurge
      BY DEF purge
    <3>4. RunsAt(task) <= nextPurge + 2 * HiddenFor
      BY <2>1 DEF IInv, TaskRight, TaskInTime
    <3>5. \A k \in Slots : k = task => RunsAt(k)' = RunsAt(k)
      BY <2>1, <3>1
    <3>. QED  BY <2>1, <3>1, <3>3, <3>4, <3>5 DEF RunsAt
  <2>. QED  BY <2>1 DEF TaskInTime, purge
<1>6. ASSUME past' # "loadedHidden"  PROVE TimersRight'
  <2>1. task' = task /\ now' = now
    BY DEF purge
  <2>. QED  BY <1>6, <2>1 DEF IInv, Timely, TimersRight
<1>. QED  BY <1>1, <1>2, <1>3, <1>4, <1>5, <1>6 DEF IInv, TaskRight, Timely

LEMMA SetAgainFacts ==
  ASSUME TypeOK, NEW t \in Timer, NEW ms \in Nat
  PROVE  /\ SetAgain(t, ms) \in Timer
         /\ SetAgain(t, ms).start = ms /\ ~SetAgain(t, ms).suspended
         /\ SetAgain(t, ms).left = t.left
         /\ SetAgain(t, ms).due = now + Int32(ms - t.start)
         /\ SetAgain(t, ms).due \in Nat /\ SetAgain(t, ms).due >= now
<1>1. t.start \in Nat /\ t.hops \in 0..2 /\ t.left \in Nat
  BY DEF Timer
<1>2. Int32(ms - t.start) \in Nat
  <2>1. MaxDelay \in Nat /\ ms - t.start \in Int
    BY <1>1, TTLAssumption DEF TTLAssumption
  <2>2. \A a \in Int, b \in Nat : (a % (2 * (b + 1))) \in Nat
    <3>1. \A a \in Int, w \in Nat \ {0} : (a % w) \in Nat
      OBVIOUS
    <3>2. \A b \in Nat : 2 * (b + 1) \in Nat \ {0}
      OBVIOUS
    <3>. QED  BY <3>1, <3>2
  <2>. QED  BY <2>1, <2>2 DEF Int32
<1>3. now \in Nat
  BY TTLAssumption DEF TTLAssumption, TypeOK
<1>. DEFINE delay == Int32(ms - t.start)
            hops == IF t.hops < 2 THEN t.hops + 1 ELSE 2
<1>4. SetAgain(t, ms) = [t EXCEPT !.start = ms, !.due = now + delay, !.suspended = FALSE, !.hops = hops]
  BY DEF SetAgain
<1>5. delay \in Nat /\ hops \in 0..2 /\ now + delay \in Nat /\ now + delay >= now
  BY <1>1, <1>2, <1>3
<1>. HIDE DEF delay, hops
<1>6. [t EXCEPT !.start = ms, !.due = now + delay, !.suspended = FALSE, !.hops = hops] \in Timer
  BY <1>5 DEF Timer
<1>7. SetAgain(t, ms) \in Timer /\ SetAgain(t, ms).start = ms /\ ~SetAgain(t, ms).suspended
      /\ SetAgain(t, ms).left = t.left /\ SetAgain(t, ms).due = now + delay
  BY <1>4, <1>6 DEF Timer
<1>. QED  BY <1>5, <1>7 DEF delay

\* A timer fires whose callback may not run.
LEMMA WaitsInv ==
  ASSUME IInv, NEW k \in Slots, TimerFires(k), ~mayRun(timers[k])
  PROVE  IInv'
<1>1. /\ UNCHANGED <<now, focus, entries, purge>>
      /\ timers' = [timers EXCEPT ![k] =
           IF outOfFocusStart # None THEN [timers[k] EXCEPT !.suspended = TRUE]
           ELSE SetAgain(timers[k], timeOutOfFocus)]
  BY DEF TimerFires
<1>2. timers[k] # None /\ timers[k] \in Timer /\ ~timers[k].suspended /\ timers[k].due <= now
  BY DEF TimerFires, Due, Live, IInv, TypeOK
<1>3. timers' \in [Slots -> Timer \cup {None}] /\ timers'[k] \in Timer /\ timers'[k].left = timers[k].left
  <2>1. timeOutOfFocus \in Nat
    BY DEF IInv, TypeOK
  <2>2. SetAgain(timers[k], timeOutOfFocus) \in Timer /\ SetAgain(timers[k], timeOutOfFocus).left = timers[k].left
    BY <1>2, <2>1, SetAgainFacts DEF IInv
  <2>3. [timers[k] EXCEPT !.suspended = TRUE] \in Timer /\ [timers[k] EXCEPT !.suspended = TRUE].left = timers[k].left
    BY <1>2 DEF Timer
  <2>. QED  BY <1>1, <2>2, <2>3 DEF IInv, TypeOK
<1>4. None \notin Timer /\ now \in Nat /\ timeOutOfFocus \in Nat /\ LoadTime \in Nat /\ MaxTime \in Nat
  BY TTLAssumption DEF TTLAssumption, IInv, TypeOK
<1>5. HiddenSince' /\ FocusRight' = FocusRight /\ HiddenFor' = HiddenFor
  BY <1>1 DEF IInv, HiddenSince, FocusRight, HiddenFor, focus
<1>6. ASSUME past # "loadedHidden"
      PROVE  /\ timers'[k].start <= timeOutOfFocus
             /\ timers'[k].suspended => hidden
             /\ ~timers'[k].suspended => timers'[k].due >= now
             /\ RunsAt(k)' = RunsAt(k)
             /\ past # "visible"
  <2>1. /\ timers[k].start <= timeOutOfFocus /\ timers[k].due >= now
        /\ timers[k].start \in Nat /\ timers[k].due \in Nat
    BY <1>2, <1>6 DEF IInv, Timely, TimersRight, Timer
  <2>2. timers[k].due = now
    BY <1>2, <1>4, <2>1
  <2>3. HiddenFor \in Nat /\ HiddenFor >= timeOutOfFocus
    BY HiddenForNat DEF IInv
  <2>4. past # "visible"
    <3>1. SUFFICES ASSUME past = "visible"  PROVE FALSE
      OBVIOUS
    <3>2. outOfFocusStart = None /\ timeOutOfFocus = 0
      BY <1>6, <3>1 DEF IInv, Timely, FocusRight
    <3>. QED  BY <2>1, <3>2 DEF mayRun
  <2>5. CASE outOfFocusStart # None
    <3>1. timers'[k] = [timers[k] EXCEPT !.suspended = TRUE]
      BY <1>1, <1>3, <2>5 DEF IInv, TypeOK
    <3>2. timers'[k].suspended /\ timers'[k].start = timers[k].start
      BY <1>2, <3>1 DEF Timer
    <3>3. hidden
      BY <1>6, <2>5 DEF IInv, Timely, FocusRight
    <3>. QED  BY <1>1, <1>2, <1>5, <2>1, <2>2, <2>4, <3>2, <3>3 DEF RunsAt
  <2>6. CASE outOfFocusStart = None
    <3>1. timers'[k] = SetAgain(timers[k], timeOutOfFocus)
      BY <1>1, <1>3, <2>6 DEF IInv, TypeOK
    <3>2. HiddenFor = timeOutOfFocus
      BY <1>4, <2>6 DEF HiddenFor
    <3>3. timeOutOfFocus - timers[k].start \in Nat
      <4>1. \A a, b \in Nat : b <= a => a - b \in Nat
        OBVIOUS
      <4>. QED  BY <1>4, <2>1, <4>1
    <3>4. Int32(timeOutOfFocus - timers[k].start) = timeOutOfFocus - timers[k].start
      <4>1. timeOutOfFocus <= MaxDelay /\ MaxDelay \in Nat
        <5>1. HiddenFor <= now - LoadTime /\ now <= MaxTime
          BY <1>6 DEF IInv, Timely, FocusRight, TypeOK
        <5>2. MaxTime - LoadTime <= MaxDelay /\ MaxDelay \in Nat
          BY TTLAssumption DEF TTLAssumption
        <5>. QED  BY <1>4, <3>2, <5>1, <5>2
      <4>2. timeOutOfFocus - timers[k].start <= MaxDelay
        BY <1>4, <2>1, <4>1
      <4>. QED  BY <3>3, <4>2, Int32Facts
    <3>5. /\ timers'[k].start = timeOutOfFocus /\ ~timers'[k].suspended /\ timers'[k].due >= now
          /\ timers'[k].due = now + (timeOutOfFocus - timers[k].start)
      <4>. DEFINE u == SetAgain(timers[k], timeOutOfFocus)
      <4>1. /\ u.start = timeOutOfFocus /\ ~u.suspended /\ u.due >= now
            /\ u.due = now + Int32(timeOutOfFocus - timers[k].start)
        BY <1>2, <1>4, SetAgainFacts DEF IInv
      <4>. HIDE DEF u
      <4>. QED  BY <3>1, <3>4, <4>1 DEF u
    <3>6. RunsAt(k)' = (now + (timeOutOfFocus - timers[k].start)) + HiddenFor - timeOutOfFocus
      BY <1>5, <3>5 DEF RunsAt
    <3>7. RunsAt(k) = now + HiddenFor - timers[k].start
      BY <1>2, <2>2 DEF RunsAt
    <3>8. RunsAt(k)' = RunsAt(k)
      BY <1>4, <2>1, <2>3, <3>6, <3>7
    <3>. QED  BY <1>4, <2>4, <3>5, <3>8
  <2>. QED  BY <2>5, <2>6
<1>7. \A j \in Slots : j # k => timers'[j] = timers[j]
  BY <1>1 DEF IInv, TypeOK
<1>8. ASSUME past' # "loadedHidden", NEW j \in Slots, timers'[j] # None
      PROVE  /\ timers[j] # None
             /\ timers'[j].start <= timeOutOfFocus'
             /\ timers'[j].suspended => hidden'
             /\ ~timers'[j].suspended => timers'[j].due >= now
             /\ timers'[j].left = timers[j].left
             /\ RunsAt(j)' = RunsAt(j)
             /\ past' = "visible" => past = "visible" /\ timers'[j].hops = timers[j].hops
  <2>1. past # "loadedHidden" /\ UNCHANGED <<past, hidden, timeOutOfFocus, now>>
    BY <1>1, <1>8 DEF focus
  <2>2. CASE j = k
    <3>1. RunsAt(j)' = RunsAt(j)
      BY <1>6, <2>1, <2>2 DEF RunsAt
    <3>. QED  BY <1>2, <1>3, <1>6, <2>1, <2>2, <3>1
  <2>3. CASE j # k
    <3>1. timers'[j] = timers[j] /\ RunsAt(j)' = RunsAt(j)
      BY <1>5, <1>7, <2>1, <2>3 DEF RunsAt
    <3>. QED  BY <1>8, <2>1, <3>1 DEF IInv, Timely, TimersRight
  <2>. QED  BY <2>2, <2>3
<1>. QED
  <2>1. \A j \in Slots : timers[j] # None => timers'[j] # None
    BY <1>3, <1>4, <1>7
  <2>2. /\ hidden' \in BOOLEAN /\ past' \in {"visible", "hidden", "loadedHidden"}
        /\ outOfFocusStart' \in Nat \cup {None} /\ timeOutOfFocus' \in Nat
    BY <1>1 DEF IInv, TypeOK, focus
  <2>3. past' # "loadedHidden" => past # "loadedHidden" /\ FocusRight' /\ HiddenFor' = HiddenFor
    BY <1>1, <1>5 DEF IInv, Timely, focus
  <2>. QED  BY <1>1, <1>3, <1>5, <1>8, <2>1, <2>2, <2>3, TimersMoved DEF IInv

LEMMA FiresInv ==
  ASSUME IInv, NEW k \in Slots, TimerFires(k)
  PROVE  IInv'
<1>1. CASE mayRun(timers[k])
  BY <1>1, SweepInv DEF TimerFires, Due, Live
<1>. QED  BY <1>1, WaitsInv

LEMMA HideInv ==
  ASSUME IInv, Hide
  PROVE  IInv'
<1>. USE DEF Hide
<1>1. now \in Nat /\ timeOutOfFocus \in Nat /\ None \notin Nat /\ LoadTime \in Nat
  BY TTLAssumption DEF TTLAssumption, IInv, TypeOK
<1>2. HiddenSince'
  BY <1>1 DEF HiddenSince
<1>3. ASSUME past' # "loadedHidden"
      PROVE  past # "loadedHidden" /\ past' # "visible" /\ FocusRight' /\ HiddenFor' = HiddenFor
  <2>1. past # "loadedHidden" /\ past' = "hidden"
    BY <1>3 DEF IInv, TypeOK
  <2>2. outOfFocusStart = None
    BY <2>1 DEF IInv, Timely, FocusRight
  <2>3. HiddenFor' = HiddenFor
    BY <1>1, <2>2 DEF HiddenFor
  <2>. QED  BY <1>1, <2>1, <2>3 DEF IInv, Timely, FocusRight
<1>4. ASSUME past' # "loadedHidden", NEW k \in Slots, timers'[k] # None
      PROVE  /\ timers[k] # None
             /\ timers'[k].start <= timeOutOfFocus'
             /\ timers'[k].suspended => hidden'
             /\ ~timers'[k].suspended => timers'[k].due >= now
             /\ timers'[k].left = timers[k].left
             /\ RunsAt(k)' = RunsAt(k)
             /\ past' = "visible" => past = "visible" /\ timers'[k].hops = timers[k].hops
  <2>1. RunsAt(k)' = RunsAt(k)
    BY <1>3, <1>4 DEF RunsAt
  <2>. QED  BY <1>3, <1>4, <2>1 DEF IInv, Timely, TimersRight
<1>5. /\ hidden' \in BOOLEAN /\ past' \in {"visible", "hidden", "loadedHidden"}
      /\ outOfFocusStart' \in Nat \cup {None} /\ timeOutOfFocus' \in Nat
      /\ timers' \in [Slots -> Timer \cup {None}]
  BY <1>1 DEF IInv, TypeOK
<1>. QED  BY <1>2, <1>3, <1>4, <1>5, TimersMoved

LEMMA ShowInv ==
  ASSUME IInv, Show
  PROVE  IInv'
<1>. USE DEF Show
<1>1. /\ now \in Nat /\ timeOutOfFocus \in Nat /\ None \notin Nat /\ None \notin Timer
      /\ LoadTime \in Nat /\ MaxTime \in Nat /\ MaxDelay \in Nat
      /\ now <= MaxTime /\ MaxTime - LoadTime <= MaxDelay
  BY TTLAssumption DEF TTLAssumption, IInv, TypeOK
<1>2. timeOutOfFocus' \in Nat
  BY <1>1 DEF IInv, TypeOK, HiddenSince
<1>3. \A k \in Slots :
        timers'[k] = IF timers[k] # None /\ timers[k].suspended
                     THEN SetAgain(timers[k], timeOutOfFocus') ELSE timers[k]
  OBVIOUS
<1>4. ASSUME NEW k \in Slots, timers[k] # None
      PROVE  timers'[k] \in Timer /\ timers'[k].left = timers[k].left
  <2>1. timers[k] \in Timer
    BY <1>4 DEF IInv, TypeOK
  <2>. DEFINE u == SetAgain(timers[k], timeOutOfFocus')
  <2>2. u \in Timer /\ u.left = timers[k].left
    BY <1>2, <2>1, SetAgainFacts DEF IInv
  <2>3. timers'[k] = IF timers[k].suspended THEN u ELSE timers[k]
    BY <1>3, <1>4
  <2>. HIDE DEF u
  <2>. QED  BY <2>1, <2>2, <2>3
<1>5. timers' \in [Slots -> Timer \cup {None}]
  BY <1>3, <1>4
<1>6. HiddenSince'
  BY DEF HiddenSince
<1>7. ASSUME past' # "loadedHidden"
      PROVE  /\ past # "loadedHidden" /\ past # "visible" /\ outOfFocusStart # None
             /\ FocusRight' /\ HiddenFor' = HiddenFor /\ HiddenFor = timeOutOfFocus'
             /\ HiddenFor \in Nat /\ HiddenFor >= timeOutOfFocus /\ HiddenFor <= MaxDelay
  <2>1. past # "loadedHidden" /\ past # "visible" /\ outOfFocusStart # None
    BY <1>7 DEF IInv, Timely, FocusRight
  <2>2. outOfFocusStart \in Nat /\ outOfFocusStart <= now
    BY <2>1 DEF IInv, TypeOK, HiddenSince
  <2>3. HiddenFor = timeOutOfFocus + (now - outOfFocusStart) /\ timeOutOfFocus' = HiddenFor
    BY <1>1, <2>1, <2>2 DEF HiddenFor
  <2>4. HiddenFor' = HiddenFor
    BY <1>1, <1>2, <2>3 DEF HiddenFor
  <2>5. HiddenFor \in Nat /\ HiddenFor >= timeOutOfFocus /\ HiddenFor <= now - LoadTime
    BY <1>7, HiddenForNat DEF IInv, Timely, FocusRight
  <2>6. FocusRight'
    BY <2>1, <2>4, <2>5 DEF FocusRight
  <2>. QED  BY <1>1, <2>1, <2>3, <2>4, <2>5, <2>6
<1>8. ASSUME past' # "loadedHidden", NEW k \in Slots, timers'[k] # None
      PROVE  /\ timers[k] # None
             /\ timers'[k].start <= timeOutOfFocus'
             /\ timers'[k].suspended => hidden'
             /\ ~timers'[k].suspended => timers'[k].due >= now
             /\ timers'[k].left = timers[k].left
             /\ RunsAt(k)' = RunsAt(k)
             /\ past' = "visible" => past = "visible" /\ timers'[k].hops = timers[k].hops
  <2>1. timers[k] # None /\ timers[k] \in Timer /\ past' # "visible"
    BY <1>3, <1>7, <1>8 DEF IInv, TypeOK
  <2>2. /\ timers[k].start <= timeOutOfFocus /\ timers[k].start \in Nat /\ timers[k].due \in Nat
        /\ ~timers[k].suspended => timers[k].due >= now
    BY <1>7, <1>8, <2>1 DEF IInv, Timely, TimersRight, Timer
  <2>3. CASE ~timers[k].suspended
    <3>1. timers'[k] = timers[k]
      BY <1>3, <2>3
    <3>2. RunsAt(k)' = RunsAt(k)
      BY <1>7, <1>8, <3>1, <2>3 DEF RunsAt
    <3>. QED  BY <1>1, <1>2, <1>7, <1>8, <2>1, <2>2, <2>3, <3>1, <3>2
  <2>4. CASE timers[k].suspended
    <3>1. timers'[k] = SetAgain(timers[k], timeOutOfFocus')
      BY <1>3, <2>1, <2>4
    <3>2. HiddenFor - timers[k].start \in Nat /\ HiddenFor - timers[k].start <= MaxDelay
      BY <1>1, <1>7, <1>8, <2>2
    <3>3. Int32(timeOutOfFocus' - timers[k].start) = HiddenFor - timers[k].start
      BY <1>7, <1>8, <3>2, Int32Facts
    <3>4. /\ timers'[k].start = timeOutOfFocus' /\ ~timers'[k].suspended /\ timers'[k].due >= now
          /\ timers'[k].due = now + (HiddenFor - timers[k].start)
          /\ timers'[k].left = timers[k].left
      <4>. DEFINE u == SetAgain(timers[k], timeOutOfFocus')
      <4>1. /\ u.start = timeOutOfFocus' /\ ~u.suspended /\ u.due >= now
            /\ u.due = now + Int32(timeOutOfFocus' - timers[k].start)
            /\ u.left = timers[k].left
        BY <1>2, <2>1, SetAgainFacts DEF IInv
      <4>. HIDE DEF u
      <4>. QED  BY <3>1, <3>3, <4>1 DEF u
    <3>5. RunsAt(k)' = (now + (HiddenFor - timers[k].start)) + HiddenFor - HiddenFor
      BY <1>7, <1>8, <3>4 DEF RunsAt
    <3>6. RunsAt(k) = now + HiddenFor - timers[k].start
      BY <2>4 DEF RunsAt
    <3>7. RunsAt(k)' = RunsAt(k)
      <4>1. \A a, b, c \in Nat : (a + (b - c)) + b - b = a + b - c
        OBVIOUS
      <4>. QED  BY <1>1, <1>7, <1>8, <2>2, <3>5, <3>6, <4>1
    <3>. QED  BY <1>2, <2>1, <3>4, <3>7
  <2>. QED  BY <2>3, <2>4
<1>. QED
  <2>1. \A k \in Slots : timers[k] # None => timers'[k] # None
    BY <1>1, <1>4
  <2>2. hidden' \in BOOLEAN /\ past' \in {"visible", "hidden", "loadedHidden"} /\ outOfFocusStart' \in Nat \cup {None}
    BY DEF IInv, TypeOK
  <2>3. past' # "loadedHidden" => past # "loadedHidden" /\ FocusRight' /\ HiddenFor' = HiddenFor
    BY <1>7
  <2>. QED  BY <1>2, <1>5, <1>6, <1>8, <2>1, <2>2, <2>3, TimersMoved

LEMMA TickInv ==
  ASSUME IInv, Tick
  PROVE  IInv'
<1>. USE DEF Tick
<1>1. /\ now \in Nat /\ timeOutOfFocus \in Nat /\ None \notin Nat /\ None \notin Timer
      /\ LoadTime \in Nat /\ MaxTime \in Nat /\ Slack \in Nat /\ Infinity \in Nat
      /\ now' = now + 1 /\ now' \in LoadTime..MaxTime
  BY TTLAssumption DEF TTLAssumption, IInv, TypeOK
<1>2. ASSUME NEW k \in Slots, timers[k] # None
      PROVE  /\ timers'[k] \in Timer
             /\ timers'[k].start = timers[k].start /\ timers'[k].due = timers[k].due
             /\ timers'[k].suspended = timers[k].suspended /\ timers'[k].hops = timers[k].hops
             /\ timers'[k].left = IF hidden \/ timers[k].left = 0 THEN timers[k].left
                                  ELSE timers[k].left - 1
  <2>1. timers[k] \in Timer /\ timers[k].left \in Nat
    BY <1>2 DEF IInv, TypeOK, Timer
  <2>2. CASE hidden \/ timers[k].left = 0
    BY <1>2, <2>1, <2>2
  <2>3. CASE ~hidden /\ timers[k].left # 0
    <3>1. timers'[k] = [timers[k] EXCEPT !.left = timers[k].left - 1]
      BY <1>2, <2>3
    <3>2. timers[k].left - 1 \in Nat
      BY <2>1, <2>3
    <3>. QED  BY <2>1, <2>3, <3>1, <3>2 DEF Timer
  <2>. QED  BY <2>2, <2>3
<1>3. timers' \in [Slots -> Timer \cup {None}] /\ \A k \in Slots : timers[k] = None => timers'[k] = None
  <2>1. ASSUME NEW k \in Slots, timers[k] = None  PROVE timers'[k] = None
    BY <2>1
  <2>2. timers' = [k \in Slots |-> timers'[k]]
    BY DEF IInv, TypeOK
  <2>. QED  BY <1>2, <2>1, <2>2
<1>4. TypeOK'
  BY <1>1, <1>3 DEF IInv, TypeOK, focus, entries, purge
<1>5. HiddenSince'
  BY <1>1 DEF IInv, TypeOK, HiddenSince, focus
<1>6. Entries' /\ PurgeListExact'
  BY EntriesKept DEF purge
<1>7. PurgePlanned'
  <2>1. ASSUME pendingPurge # <<>>
        PROVE  task # 0 /\ nextPurge <= Later(now + 1, Plus(expiry(Head(pendingPurge)), Slack))
    <3>1. expiry(Head(pendingPurge)) \in Nat
      <4>1. Head(pendingPurge) = pendingPurge[1] /\ 1 \in 1..Len(pendingPurge)
        BY <2>1 DEF IInv, TypeOK
      <4>. QED  BY <4>1, ListedIsKnown DEF IInv
    <3>. QED  BY <1>1, <2>1, <3>1 DEF IInv, TypeOK, TaskRight, PurgePlanned, Later, Plus
  <2>2. UNCHANGED <<pendingPurge, nextPurge, task, start, delta>>
    BY DEF purge, entries
  <2>. QED  BY <1>1, <2>1, <2>2 DEF PurgePlanned, expiry
<1>8. HiddenFor' = HiddenFor + (IF outOfFocusStart = None THEN 0 ELSE 1) /\ HiddenFor \in Nat
  <2>1. HiddenFor \in Nat
    BY HiddenForNat DEF IInv
  <2>2. outOfFocusStart # None => outOfFocusStart \in Nat
    BY DEF IInv, TypeOK
  <2>. QED  BY <1>1, <2>1, <2>2 DEF HiddenFor, focus
<1>9. ASSUME past # "loadedHidden", NEW k \in Slots, timers[k] # None
      PROVE  /\ ~timers[k].suspended => timers[k].due >= now + 1
             /\ timers'[k].left + (now + 1) <= RunsAt(k)'
             /\ RunsAt(k) \in Int
             /\ RunsAt(k)' <= RunsAt(k) + (IF outOfFocusStart = None THEN 0 ELSE 2)
  <2>1. /\ timers[k].start \in Nat /\ timers[k].due \in Nat /\ timers[k].left \in Nat
        /\ timers[k].suspended \in BOOLEAN
    BY <1>9 DEF IInv, TypeOK, Timer
  <2>2. /\ hidden = (outOfFocusStart # None)
        /\ timers[k].start <= timeOutOfFocus
        /\ timers[k].suspended => hidden
        /\ timers[k].left + now <= RunsAt(k)
    BY <1>9 DEF IInv, Timely, FocusRight, TimersRight
  <2>3. ~timers[k].suspended => timers[k].due >= now + 1
    BY <1>1, <1>9, <2>1 DEF Due, Live
  <2>4. /\ RunsAt(k) = (IF timers[k].suspended THEN now ELSE timers[k].due) + HiddenFor - timers[k].start
        /\ RunsAt(k)' = (IF timers[k].suspended THEN now + 1 ELSE timers[k].due) + HiddenFor' - timers[k].start
    BY <1>1, <1>2, <1>9 DEF RunsAt
  <2>5. HiddenFor >= timeOutOfFocus
    BY HiddenForNat DEF IInv
  <2>6. timers'[k].left = IF hidden \/ timers[k].left = 0 THEN timers[k].left ELSE timers[k].left - 1
    BY <1>2, <1>9
  <2>7. CASE timers[k].suspended
    <3>1. outOfFocusStart # None /\ timers'[k].left = timers[k].left
      BY <2>2, <2>6, <2>7
    <3>2. RunsAt(k) = now + HiddenFor - timers[k].start
      BY <2>4, <2>7
    <3>3. RunsAt(k)' = now + 1 + (HiddenFor + 1) - timers[k].start
      BY <1>8, <2>4, <2>7, <3>1
    <3>4. RunsAt(k) \in Int /\ RunsAt(k)' = RunsAt(k) + 2
      BY <1>1, <1>8, <2>1, <3>2, <3>3
    <3>. QED  BY <1>1, <2>1, <2>2, <2>7, <3>1, <3>4
  <2>8. CASE ~timers[k].suspended /\ outOfFocusStart # None
    BY <1>1, <1>8, <2>1, <2>2, <2>3, <2>4, <2>6, <2>8
  <2>9. CASE ~timers[k].suspended /\ outOfFocusStart = None
    BY <1>1, <1>8, <2>1, <2>2, <2>3, <2>4, <2>5, <2>6, <2>9
  <2>. QED  BY <2>7, <2>8, <2>9
<1>10. TaskSet'
  BY <1>1, <1>2 DEF IInv, TypeOK, TaskRight, TaskSet, purge
<1>11. TaskInTime'
  <2>1. ASSUME past # "loadedHidden", task # 0
        PROVE  RunsAt(task)' <= nextPurge + 2 * HiddenFor'
    <3>1. task \in Slots /\ timers[task] # None /\ task' = task
      BY <2>1 DEF IInv, TypeOK, TaskRight, TaskSet, purge
    <3>2. RunsAt(task) <= nextPurge + 2 * HiddenFor /\ nextPurge \in Nat
      BY <2>1 DEF IInv, TypeOK, TaskRight, TaskInTime
    <3>3. \A k \in Slots : k = task =>
            /\ RunsAt(k) \in Int
            /\ RunsAt(k)' <= RunsAt(k) + (IF outOfFocusStart = None THEN 0 ELSE 2)
      BY <1>9, <2>1, <3>1
    <3>4. /\ RunsAt(task) \in Int
          /\ RunsAt(task)' <= RunsAt(task) + (IF outOfFocusStart = None THEN 0 ELSE 2)
      BY <3>1, <3>3 DEF RunsAt
    <3>5. RunsAt(task)' \in Int
      <4>1. timers'[task].start \in Nat /\ timers'[task].due \in Nat
        BY <1>2, <3>1 DEF Timer
      <4>. QED  BY <1>1, <1>8, <3>1, <4>1 DEF RunsAt
    <3>. QED  BY <1>8, <3>2, <3>4, <3>5
  <2>. QED  BY <2>1 DEF TaskInTime, purge, focus
<1>12. ASSUME past # "loadedHidden"  PROVE FocusRight' /\ TimersRight'
  <2>1. FocusRight'
    BY <1>1, <1>8, <1>12 DEF IInv, Timely, FocusRight, focus
  <2>2. ASSUME NEW k \in Slots, timers'[k] # None
        PROVE  /\ timers'[k].start <= timeOutOfFocus'
               /\ timers'[k].suspended => hidden'
               /\ ~timers'[k].suspended => timers'[k].due >= now'
               /\ timers'[k].left + now' <= RunsAt(k)'
               /\ past' = "visible" => k = task' /\ timers'[k].hops = 0
    <3>1. timers[k] # None
      BY <1>3, <2>2
    <3>2. UNCHANGED <<timeOutOfFocus, hidden, past, task>>
      BY DEF focus, purge
    <3>. QED  BY <1>1, <1>2, <1>9, <1>12, <3>1, <3>2 DEF IInv, Timely, TimersRight
  <2>. QED  BY <2>1, <2>2 DEF TimersRight
<1>. QED  BY <1>4, <1>5, <1>6, <1>7, <1>10, <1>11, <1>12 DEF IInv, TaskRight, Timely, focus

LEMMA InitInv == Init => IInv
<1>. SUFFICES ASSUME Init  PROVE IInv
  OBVIOUS
<1>. USE DEF Init
<1>1. TypeOK /\ HiddenSince /\ Entries
  BY TTLAssumption DEF TTLAssumption, TypeOK, HiddenSince, Entries
<1>2. PurgeListExact
  BY DEF PurgeListExact, ToSet
<1>3. TaskRight
  BY DEF TaskRight, TaskSet, PurgePlanned, TaskInTime
<1>4. Timely
  BY TTLAssumption DEF TTLAssumption, Timely, FocusRight, TimersRight, HiddenFor
<1>. QED  BY <1>1, <1>2, <1>3, <1>4 DEF IInv

LEMMA NextInv == IInv /\ [Next]_vars => IInv'
<1>. SUFFICES ASSUME IInv, [Next]_vars  PROVE IInv'
  OBVIOUS
<1>1. CASE Next
  <2>1. ASSUME NEW i \in Items, Add(i) \/ Known(i) \/ Delete(i)  PROVE IInv'
    BY <2>1, AddInv, KnownInv, DeleteInv
  <2>2. ASSUME NEW k \in Slots, TimerFires(k)  PROVE IInv'
    BY <2>2, FiresInv
  <2>. QED  BY <1>1, <2>1, <2>2, RefreshInv, ClearInv, HideInv, ShowInv, TickInv DEF Next
<1>2. CASE UNCHANGED vars
  <2>1. UNCHANGED <<now, focus, timers, nextPurge, task>> /\ UNCHANGED entries /\ UNCHANGED pendingPurge
    BY <1>2 DEF vars, purge
  <2>2. PurgePlanned'
    BY <2>1 DEF IInv, TaskRight, PurgePlanned, entries, expiry
  <2>3. TypeOK'
    BY <2>1 DEF IInv, TypeOK, focus, entries
  <2>. QED  BY <2>1, <2>2, <2>3, TimersKept, EntriesKept DEF IInv
<1>. QED  BY <1>1, <1>2

-----------------------------------------------------------------------------
LEMMA AlwaysIInv == Spec => []IInv
BY InitInv, NextInv, PTL DEF Spec

(* Every variable has its type. *)
THEOREM TypeCorrect == Spec => []TypeOK
<1>1. IInv => TypeOK
  BY DEF IInv
<1>. QED  BY <1>1, AlwaysIInv, PTL

(* The list to purge is exact and in order, in whatever order items are     *)
(* added, refreshed, deleted and swept and their ttls become known.         *)
THEOREM ListIsExact == Spec => []PurgeListExact
<1>1. IInv => PurgeListExact
  BY DEF IInv
<1>. QED  BY <1>1, AlwaysIInv, PTL

(* An expired item is purged within the slack and twice the time the page   *)
(* was hidden, whatever the ttls and however often the page is hidden.      *)
THEOREM SweepsAreInTime == Spec => []SweepInTime
<1>1. IInv => SweepInTime
  <2>. SUFFICES ASSUME IInv, past # "loadedHidden"
                PROVE  /\ pendingPurge # <<>> =>
                            /\ task # 0 /\ timers[task] # None
                            /\ nextPurge <= Later(now, Plus(expiry(Head(pendingPurge)), Slack))
                            /\ RunsAt(task) <= nextPurge + 2 * HiddenFor
                       /\ past = "visible" => \A k \in Slots : timers[k] # None => k = task
    BY DEF SweepInTime
  <2>. QED  BY DEF IInv, TaskRight, TaskSet, PurgePlanned, TaskInTime, Timely, TimersRight
<1>. QED  BY <1>1, AlwaysIInv, PTL

(* Whatever has ended is in the list to purge, and none before it ends      *)
(* later.                                                                   *)
LEMMA EndedIsListed ==
  ASSUME IInv, NEW i \in items, delta[i] # None
  PROVE  \E n \in 1..Len(pendingPurge) :
           /\ i = pendingPurge[n]
           /\ \A m \in 1..n : /\ m \in 1..Len(pendingPurge)
                              /\ expiry(pendingPurge[m]) <= expiry(i)
<1>1. pendingPurge \in Seq(Items) /\ DOMAIN pendingPurge = 1..Len(pendingPurge) /\ i \in Items
  BY DEF IInv, TypeOK
<1>2. i \in ToSet(pendingPurge)
  BY <1>1 DEF IInv, Entries, PurgeListExact
<1>3. PICK n \in 1..Len(pendingPurge) : i = pendingPurge[n]
  BY <1>1, <1>2 DEF ToSet
<1>4. ASSUME NEW m \in 1..n
      PROVE  m \in 1..Len(pendingPurge) /\ expiry(pendingPurge[m]) <= expiry(i)
  <2>1. m \in 1..Len(pendingPurge) /\ (m = n \/ m < n)
    BY <1>1
  <2>2. CASE m = n
    <3>1. expiry(i) \in Nat
      BY <1>3, ListedIsKnown DEF IInv
    <3>. QED  BY <1>3, <2>1, <2>2, <3>1
  <2>3. CASE m < n
    BY <1>1, <1>3, <2>1, <2>3 DEF IInv, PurgeListExact
  <2>. QED  BY <2>1, <2>2, <2>3
<1>. QED  BY <1>3, <1>4

(* A purge takes away what has ended, and nothing else. *)
LEMMA SweptExactly ==
  ASSUME IInv, NEW k \in Slots, Sweep(k)
  PROVE  items' = items \ Ended
<1>0. now \in Nat /\ Len(pendingPurge) \in Nat
  BY TTLAssumption DEF TTLAssumption, IInv, TypeOK
<1>1. PICK cnt \in 0..Len(pendingPurge) :
        /\ \A n \in 1..cnt : expiry(pendingPurge[n]) <= now
        /\ cnt < Len(pendingPurge) => expiry(pendingPurge[cnt + 1]) > now
        /\ items' = items \ {pendingPurge[n] : n \in 1..cnt}
  BY DEF Sweep, Forget
<1>2. ASSUME NEW n \in 1..cnt  PROVE pendingPurge[n] \in Ended
  <2>1. n \in 1..Len(pendingPurge)
    BY <1>0
  <2>2. pendingPurge[n] \in items /\ delta[pendingPurge[n]] # None
    BY <2>1, ListedIsKnown, TTLAssumption DEF IInv, TTLAssumption
  <2>. QED  BY <1>1, <2>2 DEF Ended
<1>3. ASSUME NEW i \in Ended  PROVE \E n \in 1..cnt : i = pendingPurge[n]
  <2>1. i \in items /\ delta[i] # None /\ expiry(i) <= now
    BY DEF Ended
  <2>2. PICK n \in 1..Len(pendingPurge) :
          /\ i = pendingPurge[n]
          /\ \A m \in 1..n : m \in 1..Len(pendingPurge) /\ expiry(pendingPurge[m]) <= expiry(i)
    BY <2>1, EndedIsListed
  <2>3. ASSUME ~(n \in 1..cnt)  PROVE FALSE
    <3>1. cnt < Len(pendingPurge) /\ cnt + 1 \in 1..n
      BY <1>0, <2>3
    <3>2. expiry(pendingPurge[cnt + 1]) <= expiry(i) /\ cnt + 1 \in 1..Len(pendingPurge)
      BY <2>2, <3>1
    <3>3. expiry(pendingPurge[cnt + 1]) \in Nat /\ expiry(i) \in Nat
      BY <2>2, <3>2, ListedIsKnown DEF IInv
    <3>. QED  BY <1>0, <1>1, <2>1, <3>1, <3>2, <3>3
  <2>. QED  BY <2>2, <2>3
<1>. QED  BY <1>1, <1>2, <1>3

(* In a page that was never hidden the clock does not pass the slack.       *)
LEMMA TicksInTime ==
  ASSUME IInv, Tick, past = "visible", NEW i \in items, delta[i] # None
  PROVE  now < Plus(expiry(i), Slack)
<1>1. /\ now \in Nat /\ Slack \in Nat /\ Infinity \in Nat /\ now < Infinity
      /\ nextPurge \in Nat
  BY TTLAssumption DEF TTLAssumption, IInv, TypeOK
<1>2. PICK n \in 1..Len(pendingPurge) :
        /\ i = pendingPurge[n]
        /\ \A m \in 1..n : m \in 1..Len(pendingPurge) /\ expiry(pendingPurge[m]) <= expiry(i)
  BY EndedIsListed
<1>3. /\ 1 \in 1..n /\ pendingPurge # <<>> /\ Head(pendingPurge) = pendingPurge[1]
  BY DEF IInv, TypeOK
<1>4. /\ expiry(Head(pendingPurge)) <= expiry(i) /\ expiry(i) \in Nat
      /\ expiry(Head(pendingPurge)) \in Nat
  BY <1>2, <1>3, ListedIsKnown DEF IInv
<1>5. /\ task \in Slots /\ timers[task] # None /\ timers[task] \in Timer
      /\ nextPurge <= Later(now, Plus(expiry(Head(pendingPurge)), Slack))
  BY <1>3 DEF IInv, TypeOK, TaskRight, TaskSet, PurgePlanned
<1>6. ~hidden /\ timeOutOfFocus = 0 /\ outOfFocusStart = None /\ HiddenFor = 0
  <2>1. ~hidden /\ timeOutOfFocus = 0 /\ hidden = (outOfFocusStart # None)
    BY DEF IInv, Timely, FocusRight
  <2>2. outOfFocusStart = None
    BY <2>1
  <2>. QED  BY <2>1, <2>2 DEF HiddenFor
<1>7. /\ ~timers[task].suspended /\ timers[task].start = 0 /\ timers[task].due \in Nat
      /\ timers[task].due > now
  <2>1. timers[task].start \in Nat /\ timers[task].due \in Nat
    BY <1>5 DEF Timer
  <2>2. timers[task].start <= timeOutOfFocus /\ ~timers[task].suspended
    BY <1>5, <1>6 DEF IInv, Timely, TimersRight
  <2>3. timers[task].due > now
    BY <1>1, <1>5, <2>1, <2>2 DEF Tick, Due, Live
  <2>. QED  BY <1>6, <2>1, <2>2, <2>3
<1>8. timers[task].due <= nextPurge
  <2>1. RunsAt(task) = timers[task].due
    BY <1>6, <1>7 DEF RunsAt
  <2>2. task # 0
    BY <1>5 DEF Slots
  <2>. QED  BY <1>1, <1>6, <1>7, <2>1, <2>2 DEF IInv, TaskRight, TaskInTime
<1>9. now < Plus(expiry(Head(pendingPurge)), Slack)
  <2>1. Plus(expiry(Head(pendingPurge)), Slack) \in Nat
    BY <1>1, <1>4 DEF Plus
  <2>. QED  BY <1>1, <1>5, <1>7, <1>8, <2>1 DEF Later
<1>. QED  BY <1>1, <1>4, <1>9 DEF Plus

ForgetStep ==
  /\ items' # items /\ (\E k \in Slots : TimerFires(k)) => items' = items \ Ended
  /\ now' > now /\ past = "visible" =>
       \A i \in items : delta[i] # None => now < Plus(expiry(i), Slack)

(* A purge takes away what has ended, all of it and nothing else; a page in *)
(* view never has an item beyond the slack after its end.                   *)
THEOREM ForgetsWhatEnded == Spec => ForgetsInTime
<1>1. IInv /\ [Next]_vars => [ForgetStep]_vars
  <2>. SUFFICES ASSUME IInv, Next  PROVE ForgetStep
    OBVIOUS
  <2>1. ASSUME NEW k \in Slots, TimerFires(k), items' # items  PROVE items' = items \ Ended
    BY <2>1, SweptExactly DEF TimerFires, entries
  <2>2. ASSUME now' > now  PROVE Tick
    <3>1. now \in Nat
      BY TTLAssumption DEF TTLAssumption, IInv, TypeOK
    <3>2. ~(UNCHANGED now)
      BY <2>2, <3>1
    <3>3. ~(UNCHANGED <<now, focus>>) /\ ~(UNCHANGED <<now, focus, entries, purge>>)
      BY <3>2
    <3>. QED  BY <3>2, <3>3 DEF Next, Add, Known, Delete, Refresh, Clear, TimerFires, Sweep, Hide, Show
  <2>. QED  BY <2>1, <2>2, TicksInTime DEF ForgetStep
<1>. QED  BY <1>1, AlwaysIInv, PTL DEF Spec, ForgetsInTime, ForgetStep

(* No timer runs its callback before the page was visible for as long as    *)
(* its delay, however often it is hidden and shown.                         *)
THEOREM TimersWaitFocused == Spec => []FocusedEnough
<1>1. IInv => FocusedEnough
  <2>. SUFFICES ASSUME IInv, past # "loadedHidden", NEW k \in Slots, Due(k), mayRun(timers[k])
                PROVE  timers[k].left = 0
    BY DEF FocusedEnough
  <2>1. timers[k] # None /\ timers[k] \in Timer /\ ~timers[k].suspended /\ timers[k].due <= now
    BY DEF Due, Live, IInv, TypeOK
  <2>2. timers[k].start = timeOutOfFocus /\ outOfFocusStart = None
    BY DEF mayRun
  <2>3. RunsAt(k) = timers[k].due + timeOutOfFocus - timeOutOfFocus
    BY <2>1, <2>2 DEF RunsAt, HiddenFor, IInv, TypeOK
  <2>4. timers[k].left + now <= RunsAt(k)
    BY <2>1 DEF IInv, Timely, TimersRight
  <2>5. now \in Nat /\ timeOutOfFocus \in Nat /\ timers[k].due \in Nat /\ timers[k].left \in Nat
    BY <2>1, TTLAssumption DEF TTLAssumption, IInv, TypeOK, Timer
  <2>. QED  BY <2>1, <2>3, <2>4, <2>5
<1>. QED  BY <1>1, AlwaysIInv, PTL
=============================================================================
