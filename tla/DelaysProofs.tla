---------------------------- MODULE DelaysProofs ----------------------------
(***************************************************************************)
(* Nobody who waits is woken early or late, and when the delayed lists     *)
(* change roles the one whose round is over is empty; and what the trace   *)
(* says of all this, asleep or awake, is a schedule: for every width of    *)
(* the count, number of tasks and length of sleep. It rests on the rings   *)
(* and the order of Lists and on the arithmetic of Ticks.                  *)
(***************************************************************************)
EXTENDS Tickless, OrderProofs

-----------------------------------------------------------------------------
(* The arithmetic of the count: the sums and differences, which wrap, come *)
(* to what exact arithmetic says.                                          *)

(* A count is as wide as a word, or at most half of one.                   *)
LEMMA Widths ==
  /\ TickMax \in Nat \ {0} /\ WordMax \in Nat /\ TickMax <= WordMax
  /\ TickMax = WordMax \/ 2 * (TickMax + 1) <= WordMax + 1
<1>1. PICK k \in 1 .. WordMax + 1 : WordMax + 1 = k * (TickMax + 1)
  BY WidthsFit
<1>2. TickMax \in Nat \ {0} /\ WordMax \in Nat /\ k \in Nat \ {0}
  BY WidthsFit, <1>1
<1>3. CASE k = 1 BY <1>1, <1>2, <1>3
<1>4. CASE k >= 2
  <2>1. k * (TickMax + 1) >= 2 * (TickMax + 1) BY <1>2, <1>4, SMTT(30)
  <2> QED BY <1>1, <1>2, <2>1
<1> QED BY <1>2, <1>3, <1>4

(* A sum of two counts is masked to itself or comes back by one round.     *)
LEMMA AddFacts ==
  ASSUME NEW t \in Counts, NEW n \in Counts
  PROVE  WrappingAdd(t, n) = IF t + n <= TickMax THEN t + n ELSE t + n - (TickMax + 1)
<1> DEFINE T == TickMax + 1
           W == WordMax + 1
           s == t + n
<1>1. /\ T \in Nat \ {0} /\ W \in Nat \ {0} /\ s \in Int
      /\ 0 <= s /\ s < 2 * T /\ (T = W \/ 2 * T <= W)
  BY Widths DEF Counts
<1>2. WrappingAdd(t, n) = (s % W) % T
  BY DEF WrappingAdd, New
<1>3. SUFFICES (s % W) % T = IF s < T THEN s ELSE s - T
  BY <1>2, Widths DEF Counts
<1> HIDE DEF T, W, s
<1>4. s % T = IF s < T THEN s ELSE s - T
  <2>1. CASE s < T BY <1>1, <2>1, OneRound
  <2>2. CASE ~(s < T)
    <3>1. T <= s BY <1>1, <2>2
    <3> QED BY <1>1, <2>2, <3>1, OneRound
  <2> QED BY <2>1, <2>2
<1>5. CASE s < W
  BY <1>1, <1>4, <1>5, OneRound
<1>6. CASE ~(s < W)
  <2>1. T = W /\ T <= s BY <1>1, <1>6
  <2>2. s % W = s - T BY <1>1, <2>1, OneRound
  <2>3. s - T \in Int /\ 0 <= s - T /\ s - T < T BY <1>1, <2>1
  <2>4. (s - T) % T = s - T BY <1>1, <2>3, OneRound
  <2> QED BY <1>6, <2>1, <2>2, <2>4
<1> QED BY <1>5, <1>6

(* A wake time goes to the overflow list exactly if the true sum is past   *)
(* the greatest count, and checked_add returns the true sum otherwise:     *)
(* what the wrapped sum shows is never wrong (tick.rs:102-112).            *)
THEOREM OverflowExact ==
  ASSUME NEW t \in Counts, NEW n \in Words
  PROVE  /\ OverflowsBy(t, n) <=> t + n > TickMax
         /\ CheckedAdd(t, n) = IF t + n > TickMax THEN {} ELSE {t + n}
<1>1. OverflowsBy(t, n) <=> t + n > TickMax
  <2>1. CASE n > TickMax BY <2>1, Widths DEF OverflowsBy, Counts, Words
  <2>2. CASE n <= TickMax
    <3>1. n \in Counts BY <2>2, Widths DEF Counts, Words
    <3> QED BY <2>2, <3>1, AddFacts, Widths DEF OverflowsBy, Counts
  <2> QED BY <2>1, <2>2, Widths DEF Words
<1>2. t + n <= TickMax => WrappingAdd(t, n) = t + n
  <2>1. t + n <= TickMax => n \in Counts BY Widths DEF Counts, Words
  <2> QED BY <2>1, AddFacts
<1> QED BY <1>1, <1>2, Widths DEF CheckedAdd, Counts, Words

(* The difference of two counts, whichever side of the wrap they are on.   *)
LEMMA SinceFacts ==
  ASSUME NEW t \in Counts, NEW earlier \in Counts
  PROVE  Since(t, earlier) =
           IF t >= earlier THEN t - earlier ELSE t - earlier + (TickMax + 1)
<1> DEFINE T == TickMax + 1
           W == WordMax + 1
           a == t - earlier
<1>1. /\ T \in Nat \ {0} /\ W \in Nat \ {0} /\ a \in Int
      /\ -T < a /\ a < T /\ T <= W
  BY Widths DEF Counts
<1>2. PICK k \in 1 .. W : W = k * T
  BY WidthsFit
<1>3. Since(t, earlier) = (a % W) % T
  BY DEF Since
<1> HIDE DEF T, W, a
<1>4. CASE 0 <= a
  <2>1. a % W = a /\ a % T = a BY <1>1, <1>4, OneRound
  <2> QED BY <1>3, <1>4, <2>1, Widths DEF a, Counts
<1>5. CASE a < 0
  <2>1. a % W = a + W BY <1>1, <1>5, OneRound
  <2>2. a + W = (k - 1) * T + (a + T)
    <3>1. k \in Int /\ T \in Int BY <1>1, <1>2
    <3>2. (k - 1) * T = k * T - T BY <3>1, SMTT(30)
    <3>3. k * T \in Int BY <1>1, <1>2
    <3> QED BY <1>1, <1>2, <3>2, <3>3
  <2>3. a + W \in Int /\ k - 1 \in Int /\ a + T \in Nat /\ a + T < T
    BY <1>1, <1>2, <1>5
  <2>4. (a + W) % T = a + T
    <3> DEFINE b == a + W
               j == k - 1
               r == a + T
    <3>1. b \in Int /\ j \in Int /\ r \in Nat /\ r < T /\ b = j * T + r
      BY <2>2, <2>3
    <3> HIDE DEF b, j, r
    <3>2. b % T = r BY <1>1, <3>1, DivUnique
    <3> QED BY <3>2 DEF b, r
  <2> QED BY <1>3, <1>5, <2>1, <2>4, Widths DEF a, T, Counts
<1> QED BY <1>1, <1>4, <1>5

(* Elapsed time survives the wrap: n ticks after a count, `since` says n   *)
(* (tick.rs:114-119).                                                      *)
THEOREM SinceUndoesAdd ==
  ASSUME NEW t \in Counts, NEW n \in Counts
  PROVE  Since(WrappingAdd(t, n), t) = n
<1>1. WrappingAdd(t, n) \in Counts /\ t \in Int /\ n \in Int
  BY AddFacts, Widths DEF Counts
<1>2. CASE t + n <= TickMax
  BY <1>1, <1>2, AddFacts, SinceFacts, Widths DEF Counts
<1>3. CASE t + n > TickMax
  <2>1. WrappingAdd(t, n) = t + n - (TickMax + 1) BY <1>1, <1>3, AddFacts, Widths DEF Counts
  <2>2. ~(WrappingAdd(t, n) >= t) BY <1>1, <2>1, Widths DEF Counts
  <2> QED BY <1>1, <2>1, <2>2, SinceFacts, Widths DEF Counts
<1> QED BY <1>1, <1>2, <1>3, Widths

-----------------------------------------------------------------------------
(* The invariant.                                                          *)

Both == {0, 1}

(* A wake time v on list l is n ticks away.                                *)
Away(l, v, n) ==
  /\ v \in Counts /\ n \in Counts
  /\ IF l = current THEN v = tick + n ELSE v + TickMax + 1 = tick + n

(* Every wait on l is as far away as it has left, and unless the tick is   *)
(* just waking some, it has some left.                                     *)
Awaited(l) ==
  \A i \in Members(l) : Away(l, value[i], left[i]) /\ (phase # "waking" => left[i] > 0)

(* A search is that of a task which sleeps on one of the two lists.        *)
SearchAwaits ==
  walk.on => /\ phase = "tasks" /\ walk.write
             /\ walk.item \in Items /\ container[walk.item] = NO_LIST
             /\ walk.list \in Both
             /\ Away(walk.list, walk.value, left[walk.item]) /\ left[walk.item] > 0

ClockTyped ==
  /\ tick \in Counts /\ current \in Both
  /\ phase \in {"tasks", "waking", "owed"}
  /\ left \in [Items -> Int]

AllAwaited == \A l \in Both : Awaited(l) /\ InOrder(l)

DelayInv == IInv /\ ClockTyped /\ AllAwaited /\ SearchAwaits

(* The two lists are lists, and each count is a value.                     *)
LEMMA BothFit ==
  /\ Both \subseteq ListSet /\ Both \subseteq 0 .. NO_LIST
  /\ \A l \in Both : 1 - l \in Both /\ 1 - l # l
  /\ Counts \subseteq 0 .. MaxValue /\ TickMax \in Nat \ {0} /\ TickMax <= MaxValue
  /\ Items \subseteq U16
<1>1. L \in Nat /\ L >= 2 /\ TickMax \in Nat \ {0} /\ TickMax <= MaxValue /\ MaxValue \in Nat
  BY DelaysFit, Geometry, Widths
<1>2. Both \subseteq ListSet /\ Both \subseteq 0 .. NO_LIST /\ Counts \subseteq 0 .. MaxValue
  BY <1>1 DEF Both, ListSet, NO_LIST, Counts
<1>3. Items \subseteq U16
  BY Geometry
<1>4. QED BY <1>1, <1>2, <1>3 DEF Both

(* The same in two formulas of one shape.                                  *)
LEMMA SplitLists ==
  ASSUME current \in Both
  PROVE  /\ current \in Both /\ Past \in Both /\ Past # current
         /\ \A l \in Both : l = current \/ l = Past
BY DEF Both, Past

(* A kernel that starts has nobody waiting.                                *)
LEMMA DelaysInitInv == DelaysInit => DelayInv
<1> SUFFICES ASSUME DelaysInit PROVE DelayInv
  OBVIOUS
<1>1. IInv /\ ~walk.on
  BY InitIInv DEF DelaysInit, Init, NoWalk
<1>2. ClockTyped
  BY DEF DelaysInit, ClockTyped, Both
<1>3. \A l \in Both : Members(l) = {}
  <2>1. container = [s \in Slots |-> NO_LIST]
    BY DEF DelaysInit, Init, EMPTY
  <2> QED BY <2>1, BothFit, Geometry DEF Members
<1>4. AllAwaited
  BY <1>3 DEF AllAwaited, Awaited, InOrder
<1>5. QED BY <1>1, <1>2, <1>4 DEF DelayInv, SearchAwaits

-----------------------------------------------------------------------------
(* What the calls of the lists do to the waits.                            *)

(* insert_sorted of a free item makes it a member at once or begins the    *)
(* search for its place.                                                   *)
LEMMA SortedOutcome ==
  ASSUME NEW list \in ListSet, NEW item \in Items, NEW v,
         container[item] = NO_LIST, InsertSorted(list, item, v)
  PROVE  \/ /\ container' = [container EXCEPT ![item] = list]
            /\ value' = [value EXCEPT ![item] = v]
            /\ UNCHANGED walk
         \/ /\ UNCHANGED nodes
            /\ walk'.on /\ walk'.write
            /\ walk'.list = list /\ walk'.item = item /\ walk'.value = v
<1>1. CASE /\ LinkBetween(list, item, prev[At(EndOf(list))], EndOf(list), TRUE, v)
           /\ UNCHANGED walk
  <2>1. /\ container' = [container EXCEPT ![item] = list]
        /\ value' = [value EXCEPT ![item] = v]
    BY <1>1 DEF LinkBetween
  <2>2. QED BY <1>1, <2>1
<1>2. CASE InsertInner(list, item, v, TRUE)
  <2>1. CASE /\ LinkBetween(list, item, prev[At(EndOf(list))], EndOf(list), TRUE, v)
             /\ UNCHANGED walk
    BY <1>1, <2>1
  <2>2. CASE /\ walk' = [on |-> TRUE, list |-> list, item |-> item, value |-> v,
                         write |-> TRUE, before |-> EndOf(list),
                         after |-> next[At(EndOf(list))], guard |-> 0]
             /\ UNCHANGED <<nodes, meta, ret>>
    BY <2>2
  <2>3. QED BY <1>2, <2>1, <2>2 DEF InsertInner
<1>3. QED BY <1>1, <1>2 DEF InsertSorted

(* A task that enters a list as far away as it has left keeps what is      *)
(* awaited.                                                                *)
LEMMA Enters ==
  ASSUME DelayInv, NEW list \in Both, NEW item \in Items, NEW v,
         container' = [container EXCEPT ![item] = list],
         value' = [value EXCEPT ![item] = v],
         UNCHANGED <<tick, current, phase>>,
         \A j \in Items : j # item => left'[j] = left[j],
         Away(list, v, left'[item]), left'[item] > 0
  PROVE  \A l \in Both : Awaited(l)'
<1> SUFFICES ASSUME NEW l \in Both, NEW j \in Members(l)'
             PROVE  Away(l, value'[j], left'[j]) /\ (phase # "waking" => left'[j] > 0)
  BY DEF Awaited, Away
<1>1. item \in Slots /\ j \in Items /\ j \in Slots /\ Members(l) \subseteq Items
  BY Geometry DEF Members
<1>2. CASE j = item
  <2>1. container'[item] = list /\ value'[item] = v
    BY <1>1 DEF DelayInv, IInv, ListInv, Typed
  <2>2. l = list
    BY <1>2, <2>1 DEF Members
  <2>3. QED BY <1>2, <2>1, <2>2
<1>3. CASE j # item
  <2>1. container'[j] = container[j] /\ value'[j] = value[j]
    BY <1>1, <1>3 DEF DelayInv, IInv, ListInv, Typed
  <2>2. j \in Members(l) /\ left'[j] = left[j]
    BY <1>1, <1>3, <2>1 DEF Members
  <2>3. QED BY <2>1, <2>2 DEF DelayInv, AllAwaited, Awaited
<1>4. QED BY <1>2, <1>3

(* A removal takes one member out, and writes no value.                    *)
LEMMA Leaves ==
  ASSUME ListInv, NEW item \in Items, container[item] # NO_LIST, Remove(item)
  PROVE  /\ \A l \in ListSet : Members(l)' = Members(l) \ {item}
         /\ value' = value /\ UNCHANGED walk
<1>1. container' = [container EXCEPT ![item] = NO_LIST] /\ value' = value /\ UNCHANGED walk
  BY DEF Remove
<1>2. QED BY <1>1, Geometry DEF Members, ListInv, Typed

(* A removal keeps the waits, whatever becomes of the removed one's.       *)
LEMMA RemoveWaits ==
  ASSUME DelayInv, ~walk.on, NEW item \in Items, container[item] # NO_LIST, Remove(item),
         UNCHANGED <<tick, current, phase>>, left' \in [Items -> Int],
         \A j \in Items : j # item => left'[j] = left[j]
  PROVE  DelayInv'
<1>1. item \in U16 /\ ListInv /\ walk \in Searches
  BY BothFit DEF DelayInv, IInv
<1>2. \A l \in Both : Members(l)' = Members(l) \ {item} /\ Members(l) \subseteq Items
  BY <1>1, Leaves, BothFit DEF Members
<1>3. value' = value /\ UNCHANGED walk
  BY <1>1, Leaves
<1>4. IInv'
  BY <1>1, <1>3, RemoveStep, NoSearchStep DEF IInv
<1>5. ClockTyped'
  BY DEF DelayInv, ClockTyped
<1>6. \A l \in Both : InOrder(l)'
  BY <1>1, RemoveKeeps, BothFit DEF KeepsOrder, DelayInv, AllAwaited
<1>7. \A l \in Both : Awaited(l)'
  <2> SUFFICES ASSUME NEW l \in Both, NEW j \in Members(l)'
               PROVE  Away(l, value'[j], left'[j]) /\ (phase # "waking" => left'[j] > 0)
    BY DEF Awaited, Away
  <2>1. j \in Members(l) /\ left'[j] = left[j] /\ value'[j] = value[j]
    BY <1>2, <1>3
  <2>2. QED BY <2>1 DEF DelayInv, AllAwaited, Awaited
<1>8. QED BY <1>3, <1>4, <1>5, <1>6, <1>7 DEF DelayInv, AllAwaited, SearchAwaits

-----------------------------------------------------------------------------
(* One step of the kernel after another.                                   *)

(* A wake time past the wrap goes to the overflow list, and on either list *)
(* it is as far away as was asked.                                         *)
LEMMA WakeTimePlaced ==
  ASSUME ClockTyped, NEW n \in 1 .. TickMax
  PROVE  LET list == IF OverflowsBy(tick, n) THEN Past ELSE current
         IN list \in Both /\ Away(list, WrappingAdd(tick, n), n)
<1>1. tick \in Counts /\ n \in Counts /\ n \in Words /\ current \in Both
  BY Widths DEF ClockTyped, Counts, Words
<1>2. CASE tick + n > TickMax
  <2>1. OverflowsBy(tick, n) /\ WrappingAdd(tick, n) = tick + n - (TickMax + 1)
    BY <1>1, <1>2, OverflowExact, AddFacts, Widths DEF Counts
  <2>2. Past \in Both /\ Past # current
    BY <1>1, SplitLists
  <2>3. QED BY <1>1, <1>2, <2>1, <2>2, Widths DEF Away, Counts
<1>3. CASE tick + n <= TickMax
  <2>1. ~OverflowsBy(tick, n) /\ WrappingAdd(tick, n) = tick + n
    BY <1>1, <1>3, OverflowExact, AddFacts, Widths DEF Counts
  <2>2. QED BY <1>1, <1>3, <2>1, Widths DEF Away, Counts
<1>4. QED BY <1>1, <1>2, <1>3, Widths DEF Counts

(* A task that puts itself to sleep is on the right list or on its way.    *)
LEMMA DelayStep ==
  ASSUME DelayInv, NEW i \in Items, NEW n \in 1 .. TickMax, Delay(i, n)
  PROVE  DelayInv'
<1> DEFINE list == IF OverflowsBy(tick, n) THEN Past ELSE current
           v == WrappingAdd(tick, n)
<1>1. list \in Both /\ Away(list, v, n)
  BY WakeTimePlaced DEF DelayInv
<1>2. /\ phase = "tasks" /\ ~walk.on /\ container[i] = NO_LIST
      /\ InsertSorted(list, i, v) /\ left' = [left EXCEPT ![i] = n]
      /\ UNCHANGED <<tick, current, phase>>
  BY DEF Delay, Calm
<1> HIDE DEF list, v
<1>3. /\ list \in ListSet /\ list \in 0 .. NO_LIST /\ i \in U16 /\ v \in 0 .. MaxValue
      /\ ListInv /\ walk \in Searches
  BY <1>1, BothFit DEF Away, DelayInv, IInv
<1>4. IInv'
  <2>1. ListInv'
    BY <1>2, <1>3, InsertSortedStep
  <2>2. walk' \in Searches /\ SearchInv'
    BY <1>2, <1>3, SearchStart, NoSearchStep DEF InsertSorted
  <2>3. QED BY <2>1, <2>2 DEF IInv
<1>5. n \in Int /\ n > 0 /\ n \in Counts
  BY BothFit DEF Counts
<1>6. left'[i] = n /\ \A j \in Items : j # i => left'[j] = left[j]
  BY <1>2 DEF DelayInv, ClockTyped
<1>7. ClockTyped'
  BY <1>2, <1>5 DEF DelayInv, ClockTyped
<1>8. \A l \in Both : InOrder(l)'
  BY <1>2, <1>3, SortedKeeps, BothFit DEF KeepsOrder, DelayInv, AllAwaited
<1>9. CASE /\ container' = [container EXCEPT ![i] = list]
           /\ value' = [value EXCEPT ![i] = v]
           /\ UNCHANGED walk
  <2>1. \A l \in Both : Awaited(l)'
    BY <1>1, <1>2, <1>5, <1>6, <1>9, Enters
  <2>2. SearchAwaits'
    BY <1>2, <1>9 DEF SearchAwaits
  <2>3. QED BY <1>4, <1>7, <1>8, <2>1, <2>2 DEF DelayInv, AllAwaited
<1>10. CASE /\ UNCHANGED nodes
            /\ walk'.on /\ walk'.write
            /\ walk'.list = list /\ walk'.item = i /\ walk'.value = v
  <2>1. \A l \in Both : Awaited(l)'
    <3> SUFFICES ASSUME NEW l \in Both, NEW j \in Members(l)'
                 PROVE  Away(l, value'[j], left'[j]) /\ (phase # "waking" => left'[j] > 0)
      BY <1>2 DEF Awaited, Away
    <3>1. j \in Members(l) /\ j # i /\ j \in Items /\ value'[j] = value[j]
      BY <1>2, <1>10, BothFit, Geometry DEF Members, nodes
    <3>2. QED BY <1>6, <3>1 DEF DelayInv, AllAwaited, Awaited
  <2>2. SearchAwaits'
    BY <1>1, <1>2, <1>5, <1>6, <1>10 DEF SearchAwaits, Away, nodes
  <2>3. QED BY <1>4, <1>7, <1>8, <2>1, <2>2 DEF DelayInv, AllAwaited
<1>11. QED BY <1>2, <1>3, <1>9, <1>10, SortedOutcome

(* The search of a sleeper goes on, and ends where its wake time belongs.  *)
LEMMA SearchStep ==
  ASSUME DelayInv, Search
  PROVE  DelayInv'
<1>1. /\ UNCHANGED <<tick, current, phase, left>>
      /\ ListInv /\ walk \in Searches /\ SearchInv /\ walk.on
  BY DEF Search, DelayInv, IInv, WalkOn, WalkStop
<1>2. ClockTyped'
  BY <1>1 DEF DelayInv, ClockTyped
<1>3. CASE WalkOn
  <2>1. IInv'
    BY <1>1, <1>3, WalkOnStep DEF IInv
  <2>2. UNCHANGED nodes
    BY <1>3 DEF WalkOn
  <2>3. AllAwaited'
    <3>1. \A l \in Both : Members(l)' = Members(l)
      BY <2>2 DEF Members, nodes
    <3>2. QED BY <1>1, <2>2, <3>1 DEF DelayInv, AllAwaited, Awaited, InOrder, Away, nodes
  <2>4. /\ walk'.on = walk.on /\ walk'.write = walk.write /\ walk'.item = walk.item
        /\ walk'.list = walk.list /\ walk'.value = walk.value
    <3>1. walk' = [walk EXCEPT !.before = walk.after, !.after = next[walk.after],
                               !.guard = walk.guard + 1]
      BY <1>1, <1>3, WalkOnFacts
    <3>2. QED BY <1>1, <3>1 DEF Searches
  <2>5. SearchAwaits'
    BY <1>1, <2>2, <2>4 DEF DelayInv, SearchAwaits, Away, nodes
  <2>6. QED BY <1>2, <2>1, <2>3, <2>5 DEF DelayInv
<1>4. CASE WalkStop
  <2>1. IInv'
    BY <1>1, <1>4, WalkStopStep, WalkStopSearch DEF IInv
  <2>2. /\ walk.item \in Items /\ container[walk.item] = NO_LIST /\ walk.list \in Both
        /\ Away(walk.list, walk.value, left[walk.item]) /\ left[walk.item] > 0
        /\ walk.write
    BY <1>1, SearchFields DEF DelayInv, SearchAwaits
  <2>3. /\ container' = [container EXCEPT ![walk.item] = walk.list]
        /\ value' = [value EXCEPT ![walk.item] = walk.value]
    BY <1>4, <2>2 DEF WalkStop, LinkBetween
  <2>4. \A l \in Both : Awaited(l)'
    <3>1. left' = left
      BY <1>1
    <3>2. PICK item \in Items : item = walk.item
      BY <2>2
    <3>3. PICK list \in Both : list = walk.list
      BY <2>2
    <3>4. QED BY <1>1, <2>2, <2>3, <3>1, <3>2, <3>3, Enters
  <2>5. \A l \in Both : InOrder(l)'
    BY <1>1, <1>4, StopKeeps, BothFit DEF KeepsOrder, DelayInv, AllAwaited
  <2>6. SearchAwaits'
    BY <1>4 DEF WalkStop, NoWalk, SearchAwaits
  <2>7. QED BY <1>2, <2>1, <2>4, <2>5, <2>6 DEF DelayInv, AllAwaited
<1>5. QED BY <1>3, <1>4 DEF Search

(* An abort takes a task out, wherever it is in the order.                 *)
LEMMA AbortStep ==
  ASSUME DelayInv, NEW i \in Items, Abort(i)
  PROVE  DelayInv'
<1>1. i \in Waiting /\ container[i] # NO_LIST
  BY Geometry, BothFit DEF Abort, Waiting, Members, Both
<1>2. left' = [left EXCEPT ![i] = 0] /\ Remove(i) /\ ~walk.on
      /\ UNCHANGED <<tick, current, phase>>
  BY DEF Abort, Calm
<1>3. left' \in [Items -> Int] /\ \A j \in Items : j # i => left'[j] = left[j]
  BY <1>2 DEF DelayInv, ClockTyped
<1>4. QED BY <1>1, <1>2, <1>3, RemoveWaits

(* In a list in order the head's value is below nobody's, and it is a      *)
(* number even if there is nobody.                                         *)
LEMMA HeadFirst ==
  ASSUME DelayInv
  PROVE  /\ HeadValue(current) \in Nat
         /\ \A m \in Members(current) : HeadValue(current) <= value[m]
         /\ Head(current) = Nothing => Members(current) = {}
         /\ Head(current) # Nothing =>
              /\ Head(current).answer \in Members(current)
              /\ HeadValue(current) = value[Head(current).answer]
<1>1. ListInv /\ current \in ListSet /\ InOrder(current)
  BY BothFit DEF DelayInv, IInv, ClockTyped, AllAwaited
<1>2. PICK l \in ListSet : l = current
  BY <1>1
<1>3. \A m \in Members(current) : HeadValue(current) <= value[m]
  BY <1>1, HeadLeastInv DEF HeadIsLeast
<1>4. CASE len[l] = 0
  <2>1. Members(l) = {} /\ next[EndOf(l)] = EndOf(l) /\ Head(l) = Nothing
    BY <1>1, <1>4, EmptyRing DEF Head
  <2>2. HeadValue(l) = MaxValue
    BY <1>1, <2>1, RingShape DEF HeadValue
  <2>3. QED BY <1>2, <1>3, <2>1, <2>2, Geometry
<1>5. CASE len[l] # 0
  <2>1. /\ Head(l) = Ok(next[EndOf(l)]) /\ Head(l) # Nothing
        /\ next[EndOf(l)] \in Members(l) /\ HeadValue(l) = value[next[EndOf(l)]]
    BY <1>1, <1>5, HeadOfMembers
  <2>2. Head(l).answer = next[EndOf(l)]
    BY <2>1 DEF Ok
  <2>3. HeadValue(l) \in Nat
    <3>1. next[EndOf(l)] \in Ring(l)
      BY <2>1 DEF Ring
    <3>2. value[next[EndOf(l)]] \in 0 .. MaxValue
      BY <1>1, <3>1, RingShape
    <3>3. QED BY <2>1, <3>2, Geometry
  <2>4. QED BY <1>2, <1>3, <2>1, <2>2, <2>3
<1>6. QED BY <1>4, <1>5

(* Who is woken has nothing left to wait.                                  *)
LEMMA WakeOnTime ==
  ASSUME DelayInv, Wake
  PROVE  /\ Head(current).answer \in Members(current)
         /\ left[Head(current).answer] = 0
<1> DEFINE i == Head(current).answer
<1>1. i \in Members(current) /\ value[i] <= tick
  BY HeadFirst DEF Wake, Due
<1> HIDE DEF i
<1>2. tick \in Nat /\ left[i] \in Nat /\ value[i] = tick + left[i]
  BY <1>1, Widths DEF DelayInv, AllAwaited, Awaited, Away, ClockTyped, Counts
<1>3. QED BY <1>1, <1>2 DEF i

(* The tick takes one out who is due.                                      *)
LEMMA WakeStep ==
  ASSUME DelayInv, Wake
  PROVE  DelayInv'
<1>1. PICK i \in Items : i \in Members(current) /\ Remove(i)
  BY WakeOnTime DEF Wake, Members
<1>2. container[i] # NO_LIST
  BY <1>1, BothFit, Geometry DEF Members, DelayInv, ClockTyped
<1>3. UNCHANGED <<tick, current, phase, left>> /\ phase = "waking"
  BY DEF Wake
<1>4. ~walk.on
  BY <1>3 DEF DelayInv, SearchAwaits
<1>5. left' \in [Items -> Int]
  BY <1>3 DEF DelayInv, ClockTyped
<1>6. QED BY <1>1, <1>2, <1>3, <1>4, <1>5, RemoveWaits

(* A step that calls no list keeps the lists.                              *)
LEMMA SameLists ==
  ASSUME DelayInv, UNCHANGED vars
  PROVE  /\ IInv' /\ value' = value /\ walk' = walk
         /\ \A l \in Both : Members(l)' = Members(l) /\ (InOrder(l) => InOrder(l)')
<1>1. IInv'
  BY NextIInv DEF DelayInv
<1>2. QED BY <1>1 DEF vars, Members, InOrder

(* When nobody is due any more, everybody has ticks to wait.               *)
LEMMA SettleStep ==
  ASSUME DelayInv, Settle
  PROVE  DelayInv'
<1>1. /\ phase = "waking" /\ ~Due /\ phase' = "tasks"
      /\ UNCHANGED <<vars, tick, current, left>>
  BY DEF Settle
<1>2. ~walk.on
  BY <1>1 DEF DelayInv, SearchAwaits
<1>3. \A m \in Members(current) : value[m] > tick
  <2>1. CASE Head(current) = Nothing
    BY <2>1, HeadFirst
  <2>2. CASE Head(current) # Nothing /\ ~(HeadValue(current) <= tick)
    <3> SUFFICES ASSUME NEW m \in Members(current) PROVE value[m] > tick
      OBVIOUS
    <3>1. HeadValue(current) \in Nat /\ HeadValue(current) <= value[m]
      BY HeadFirst
    <3>2. value[m] \in Nat /\ tick \in Nat
      BY Widths DEF DelayInv, AllAwaited, Awaited, Away, ClockTyped, Counts
    <3>3. QED BY <2>2, <3>1, <3>2
  <2>3. QED BY <1>1, <2>1, <2>2 DEF Due
<1>4. \A l \in Both : Awaited(l)'
  <2> SUFFICES ASSUME NEW l \in Both, NEW j \in Members(l)'
               PROVE  Away(l, value[j], left[j])' /\ left'[j] > 0
    BY DEF Awaited, Away
  <2>1. j \in Members(l) /\ value'[j] = value[j] /\ left' = left
    BY <1>1, SameLists
  <2>2. Away(l, value[j], left[j])
    BY <2>1 DEF DelayInv, AllAwaited, Awaited
  <2>3. left[j] > 0
    BY <1>3, <2>1, <2>2, Widths DEF Away, Counts, DelayInv, ClockTyped
  <2>4. QED BY <1>1, <2>1, <2>2, <2>3 DEF Away
<1>5. QED BY <1>1, <1>2, <1>4, SameLists DEF DelayInv, AllAwaited, ClockTyped, SearchAwaits

(* n ticks take n from what those have left who have as many.              *)
LEMMA ElapseFacts ==
  ASSUME ClockTyped, NEW n \in Nat, Elapse(n)
  PROVE  /\ left' \in [Items -> Int]
         /\ \A l \in Both : \A i \in Members(l) : left[i] - n >= 0 => left'[i] = left[i] - n
<1>1. left' \in [Items -> Int]
  BY DEF Elapse, ClockTyped, Late
<1>2. ASSUME NEW l \in Both, NEW i \in Members(l), left[i] - n >= 0
      PROVE  left'[i] = left[i] - n
  <2>1. i \in Items /\ i \in Waiting /\ left[i] \in Int
    BY DEF Members, Waiting, Both, ClockTyped
  <2>2. ~(left[i] - n < Late)
    BY <1>2, <2>1 DEF Late
  <2>3. QED BY <2>1, <2>2 DEF Elapse
<1>3. QED BY <1>1, <1>2

(* The count goes on by n, short of its wrap and short of every wake time, *)
(* or up to it if those who are due are then woken.                        *)
LEMMA TimePasses ==
  ASSUME DelayInv, ~walk.on, UNCHANGED <<vars, current>>, NEW n \in Nat, Elapse(n),
         tick + n <= TickMax, tick' = tick + n, phase' \in {"tasks", "waking", "owed"},
         \A m \in Members(current) :
           left[m] >= n /\ (phase' # "waking" => left[m] > n)
  PROVE  DelayInv'
<1>1. tick \in Nat /\ tick <= TickMax /\ TickMax \in Nat /\ current \in Both /\ ClockTyped
  BY Widths DEF DelayInv, ClockTyped, Counts
<1>2. ClockTyped'
  BY <1>1, ElapseFacts DEF ClockTyped, Counts
<1>3. \A l \in Both : Awaited(l)'
  <2> SUFFICES ASSUME NEW l \in Both, NEW j \in Members(l)'
               PROVE  Away(l, value[j], left[j])' /\ (phase' # "waking" => left'[j] > 0)
    BY DEF Awaited, Away
  <2>1. j \in Members(l) /\ value'[j] = value[j]
    BY SameLists
  <2>2. Away(l, value[j], left[j])
    BY <2>1 DEF DelayInv, AllAwaited, Awaited
  <2>3. left[j] \in Nat /\ left[j] <= TickMax /\ value[j] \in Nat
    BY <1>1, <2>2 DEF Away, Counts
  <2>4. left[j] >= n /\ (phase' # "waking" => left[j] > n)
    BY <1>1, <2>1, <2>2, <2>3 DEF Away
  <2>5. left'[j] = left[j] - n
    BY <1>1, <2>1, <2>3, <2>4, ElapseFacts
  <2>6. QED BY <1>1, <2>1, <2>2, <2>3, <2>4, <2>5 DEF Away, Counts
<1>4. QED BY <1>2, <1>3, SameLists DEF DelayInv, AllAwaited, SearchAwaits

(* While tasks run or a tick is owed, everybody has ticks to wait; and at  *)
(* the greatest count nobody can be waiting on the current list.           *)
LEMMA SomeLeft ==
  ASSUME DelayInv, phase # "waking"
  PROVE  /\ \A l \in Both : \A m \in Members(l) : left[m] \in Nat /\ left[m] > 0
         /\ tick = TickMax => Members(current) = {}
<1>1. \A l \in Both : \A m \in Members(l) : left[m] \in Nat /\ left[m] > 0
  BY Widths DEF DelayInv, AllAwaited, Awaited, Away, Counts
<1>2. ASSUME tick = TickMax, NEW m \in Members(current) PROVE FALSE
  <2>1. current \in Both
    BY DEF DelayInv, ClockTyped
  <2>2. value[m] \in Nat /\ value[m] <= TickMax /\ value[m] = TickMax + left[m]
    BY <1>2, <2>1, Widths DEF DelayInv, AllAwaited, Awaited, Away, Counts
  <2>3. QED BY <1>1, <1>2, <2>1, <2>2, Widths
<1>3. QED BY <1>1, <1>2

(* The tick, at the wrap too.                                              *)
LEMMA TickStep ==
  ASSUME DelayInv, Tick
  PROVE  DelayInv'
<1>1. /\ phase # "waking" /\ ~walk.on /\ tick' = WrappingAdd(tick, 1)
      /\ current' = (IF tick' = 0 THEN Past ELSE current) /\ Elapse(1)
      /\ phase' = "waking" /\ UNCHANGED vars
  BY DEF Tick
<1>2. /\ tick \in Counts /\ tick \in Nat /\ tick <= TickMax /\ TickMax \in Nat \ {0}
      /\ 1 \in Counts /\ current \in Both /\ ClockTyped
  BY Widths DEF DelayInv, ClockTyped, Counts
<1>3. CASE tick < TickMax
  <2>1. tick + 1 <= TickMax /\ tick' = tick + 1 /\ tick' # 0
    BY <1>1, <1>2, <1>3, AddFacts
  <2>2. \A m \in Members(current) : left[m] >= 1
    BY <1>1, <1>2, SomeLeft
  <2>3. QED BY <1>1, <2>1, <2>2, TimePasses
<1>4. CASE tick = TickMax
  <2>1. tick' = 0 /\ current' = Past /\ Members(current) = {}
    BY <1>1, <1>2, <1>4, AddFacts, SomeLeft
  <2>2. Past \in Both /\ Past # current /\ \A l \in Both : l = current \/ l = Past
    BY <1>2, SplitLists
  <2>3. ClockTyped'
    BY <1>1, <1>2, <2>1, <2>2, ElapseFacts DEF ClockTyped, Counts
  <2>4. \A l \in Both : Awaited(l)'
    <3> SUFFICES ASSUME NEW l \in Both, NEW j \in Members(l)'
                 PROVE  Away(l, value[j], left[j])'
      BY <1>1 DEF Awaited, Away
    <3>1. j \in Members(l) /\ value'[j] = value[j] /\ l # current /\ l = current'
      BY <1>1, <2>1, <2>2, SameLists
    <3>2. Away(l, value[j], left[j]) /\ left[j] \in Nat /\ left[j] > 0
      BY <1>1, <3>1, SomeLeft DEF DelayInv, AllAwaited, Awaited
    <3>3. left'[j] = left[j] - 1
      BY <1>1, <1>2, <3>1, <3>2, ElapseFacts
    <3>4. value[j] \in Counts /\ value[j] + TickMax + 1 = TickMax + left[j]
      BY <1>4, <3>1, <3>2 DEF Away
    <3>5. value'[j] \in Counts /\ left'[j] = value'[j]
      BY <1>2, <3>1, <3>2, <3>3, <3>4 DEF Counts
    <3>6. value'[j] = tick' + left'[j]
      BY <2>1, <3>5 DEF Counts
    <3>7. QED BY <3>1, <3>5, <3>6 DEF Away
  <2>5. QED BY <1>1, <2>3, <2>4, SameLists DEF DelayInv, AllAwaited, SearchAwaits
<1>5. QED BY <1>2, <1>3, <1>4

(* A sleep stops short of the next wake time, or leaves its tick owed.     *)
LEMMA SleepStep ==
  ASSUME DelayInv, NEW slept \in 0 .. TickMax + 1, Sleep(slept)
  PROVE  DelayInv'
<1> DEFINE idle == ExpectedIdle
           n == IF Wound(slept) = idle THEN Wound(slept) - 1 ELSE Wound(slept)
<1>1. /\ phase = "tasks" /\ ~walk.on /\ idle >= IdleFloor
      /\ tick' = WrappingAdd(tick, n) /\ Elapse(n)
      /\ phase' \in {"owed", "tasks"} /\ UNCHANGED <<vars, current>>
  BY DEF Sleep, Calm
<1>2. /\ tick \in Counts /\ tick \in Nat /\ TickMax \in Nat /\ current \in Both
      /\ HeadValue(current) \in Nat
  BY Widths, HeadFirst DEF DelayInv, ClockTyped, Counts
<1>3. idle \in Int /\ tick + idle <= TickMax /\ tick + idle <= HeadValue(current)
  BY <1>2 DEF ExpectedIdle
<1>4. n \in Nat /\ n < idle
  <2>1. idle > 0
    BY <1>1, <1>3, DelaysFit
  <2>2. Wound(slept) \in Nat /\ Wound(slept) <= idle
    BY <1>2, <1>3, <2>1 DEF Wound
  <2> HIDE DEF idle
  <2>3. QED BY <1>3, <2>1, <2>2
<1> HIDE DEF n, idle
<1>5. n \in Counts /\ tick + n <= TickMax /\ tick' = tick + n
  <2>1. n \in Counts /\ tick + n <= TickMax
    BY <1>2, <1>3, <1>4 DEF Counts
  <2>2. QED BY <1>1, <1>2, <2>1, AddFacts
<1>6. \A m \in Members(current) : left[m] > n
  <2> SUFFICES ASSUME NEW m \in Members(current) PROVE left[m] > n
    OBVIOUS
  <2>1. HeadValue(current) <= value[m]
    BY HeadFirst
  <2>2. value[m] = tick + left[m] /\ left[m] \in Nat
    BY <1>2 DEF DelayInv, AllAwaited, Awaited, Away, Counts
  <2>3. QED BY <1>2, <1>3, <1>4, <2>1, <2>2
<1>7. \A m \in Members(current) : left[m] >= n
  BY <1>2, <1>4, <1>6, SomeLeft, <1>1
<1>8. QED BY <1>1, <1>4, <1>5, <1>6, <1>7, TimePasses

(* Every step of the kernel keeps it.                                      *)
LEMMA DelaysStepInv == DelayInv /\ [DelaysNext]_delayVars => DelayInv'
<1> SUFFICES ASSUME DelayInv, [DelaysNext]_delayVars PROVE DelayInv'
  OBVIOUS
<1>1. ASSUME NEW i \in Items, NEW n \in 1 .. TickMax, Delay(i, n) PROVE DelayInv'
  BY <1>1, DelayStep
<1>2. ASSUME NEW i \in Items, Abort(i) PROVE DelayInv'
  BY <1>2, AbortStep
<1>3. ASSUME NEW slept \in 0 .. TickMax + 1, Sleep(slept) PROVE DelayInv'
  BY <1>3, SleepStep
<1>4. CASE Search
  BY <1>4, SearchStep
<1>5. CASE Tick
  BY <1>5, TickStep
<1>6. CASE Wake
  BY <1>6, WakeStep
<1>7. CASE Settle
  BY <1>7, SettleStep
<1>8. CASE UNCHANGED delayVars
  <2>1. UNCHANGED <<vars, tick, current, phase, left>>
    BY <1>8 DEF delayVars
  <2>2. UNCHANGED nodes
    BY <2>1 DEF vars, nodes
  <2>3. AllAwaited'
    BY <2>1, SameLists DEF DelayInv, AllAwaited, Awaited, Away
  <2>4. SearchAwaits'
    BY <2>1, <2>2, SameLists DEF DelayInv, SearchAwaits, Away, nodes
  <2>5. QED BY <2>1, <2>3, <2>4, SameLists DEF DelayInv, ClockTyped
<1>9. QED BY <1>1, <1>2, <1>3, <1>4, <1>5, <1>6, <1>7, <1>8 DEF DelaysNext

(* So it holds in every state.                                             *)
LEMMA DelaysInductive == DelaysSafe => []DelayInv
BY DelaysInitInv, DelaysStepInv, PTL DEF DelaysSafe

-----------------------------------------------------------------------------
(* The theorems.                                                           *)

(* The wake times the two lists hold, which wrap, are what is left of the  *)
(* waits, which do not, and both lists are in order.                       *)
THEOREM WakeTimesHold == DelaysSafe => []WakeTimesAgree
<1>1. DelayInv => WakeTimesAgree
  <2> SUFFICES ASSUME DelayInv PROVE WakeTimesAgree
    OBVIOUS
  <2>1. current \in Both /\ Past \in Both /\ Past # current
    BY SplitLists DEF DelayInv, ClockTyped
  <2>2. QED BY <2>1 DEF DelayInv, AllAwaited, Awaited, Away, WakeTimesAgree, Both
<1>2. QED BY <1>1, DelaysInductive, PTL

(* While tasks run, everybody who waits has ticks to wait: the tick woke   *)
(* all who were due, and no sleep went past one.                           *)
THEOREM NobodyLate == DelaysSafe => []NeverLate
<1>1. DelayInv => NeverLate
  BY SomeLeft DEF NeverLate, Waiting, Both
<1>2. QED BY <1>1, DelaysInductive, PTL

(* Nobody is woken with ticks to wait, on either side of the wrap.         *)
THEOREM NobodyEarly == DelaysSafe => NeverEarly
<1>1. DelayInv /\ [DelaysNext]_delayVars
        => [Wake => left[Head(current).answer] = 0]_delayVars
  BY WakeOnTime
<1>2. QED BY <1>1, DelaysInductive, PTL DEF DelaysSafe, NeverEarly

(* The lists change roles only when nobody is left on the current one.     *)
THEOREM SwapIsSafe == DelaysSafe => SwapFindsEmpty
<1>1. DelayInv /\ [DelaysNext]_delayVars
        => [current' # current => Members(current) = {}]_delayVars
  <2> SUFFICES ASSUME DelayInv, DelaysNext, current' # current
               PROVE  Members(current) = {}
    BY DEF delayVars
  <2>1. Tick
    BY DEF DelaysNext, Delay, Abort, Sleep, Search, Wake, Settle
  <2>2. tick' = WrappingAdd(tick, 1) /\ tick' = 0 /\ phase # "waking"
    BY <2>1 DEF Tick
  <2>3. tick \in Counts /\ 1 \in Counts /\ tick \in Nat /\ TickMax \in Nat \ {0}
    BY Widths DEF DelayInv, ClockTyped, Counts
  <2>4. tick = TickMax
    <3>1. tick <= TickMax
      BY <2>3 DEF Counts
    <3>2. QED BY <2>2, <2>3, <3>1, AddFacts
  <2>5. QED BY <2>2, <2>4, SomeLeft
<1>2. QED BY <1>1, DelaysInductive, PTL DEF DelaysSafe, SwapFindsEmpty

(* `since` from the count to a wake time is what is left, and wrapping_sub *)
(* leads back, on either list.                                             *)
THEOREM SinceHolds == DelaysSafe => []SinceAgrees
<1>1. DelayInv => SinceAgrees
  <2> SUFFICES ASSUME DelayInv, NEW i \in Waiting
               PROVE  /\ Since(value[i], tick) = left[i]
                      /\ WrappingSub(value[i], left[i]) = tick
                      /\ i \in Members(current) <=> CheckedAdd(tick, left[i]) = {value[i]}
    BY DEF SinceAgrees
  <2>1. PICK l \in Both : i \in Members(l)
    BY DEF Waiting, Both
  <2>2. Away(l, value[i], left[i])
    BY <2>1 DEF DelayInv, AllAwaited, Awaited
  <2>3. /\ tick \in Counts /\ value[i] \in Counts /\ left[i] \in Counts /\ left[i] \in Words
        /\ tick \in Nat /\ value[i] \in Nat /\ left[i] \in Nat /\ TickMax \in Nat
        /\ tick <= TickMax /\ value[i] <= TickMax /\ left[i] <= TickMax
    BY <2>2, Widths DEF DelayInv, ClockTyped, Away, Counts, Words
  <2>4. i \in Members(current) <=> l = current
    BY <2>1 DEF Members
  <2>5. WrappingSub(value[i], left[i]) = Since(value[i], left[i])
    BY DEF WrappingSub, Since, New
  <2>6. CASE l = current
    <3>1. value[i] = tick + left[i]
      BY <2>2, <2>6 DEF Away
    <3>2. Since(value[i], tick) = left[i] /\ Since(value[i], left[i]) = tick
      BY <2>3, <3>1, SinceFacts
    <3>3. CheckedAdd(tick, left[i]) = {value[i]}
      BY <2>3, <3>1, OverflowExact
    <3>4. QED BY <2>4, <2>5, <2>6, <3>2, <3>3
  <2>7. CASE l # current
    <3>1. value[i] + TickMax + 1 = tick + left[i]
      BY <2>2, <2>7 DEF Away
    <3>2. Since(value[i], tick) = left[i] /\ Since(value[i], left[i]) = tick
      BY <2>3, <3>1, SinceFacts
    <3>3. CheckedAdd(tick, left[i]) = {}
      BY <2>3, <3>1, OverflowExact
    <3>4. QED BY <2>4, <2>5, <2>7, <3>2, <3>3
  <2>8. QED BY <2>6, <2>7
<1>2. QED BY <1>1, DelaysInductive, PTL

-----------------------------------------------------------------------------
(* What reaches the sink is a schedule: the two lists are one queue.       *)

(* Who stands at place k of the current list and the other, one after the  *)
(* other, and what the queue says of a task.                               *)
Total == len[current] + len[Past]
Spot(k) == IF k <= len[current] THEN Chain(current)[k] ELSE Chain(Past)[k - len[current]]
Entry(i) == [task |-> i, left |-> left[i]]
Entries == [task : Items, left : Int]

QueueRead ==
  /\ len[current] \in Nat /\ len[Past] \in Nat /\ Total \in Nat
  /\ Waiters = [k \in 1 .. Total |-> Entry(Spot(k))]
  /\ Waiters \in Q!Seq(Entries) /\ Q!Len(Waiters) = Total
  /\ \A k \in 1 .. Total : Spot(k) \in Items /\ Waiters[k] = Entry(Spot(k))
  /\ \A k \in 1 .. len[current] : Spot(k) \in Members(current)
  /\ \A k \in len[current] + 1 .. Total : Spot(k) \in Members(Past)

LEMMA WaitersRead == DelayInv => QueueRead
<1> SUFFICES ASSUME DelayInv PROVE QueueRead
  OBVIOUS
<1>0. /\ ListInv /\ current \in Both /\ Past \in Both /\ left \in [Items -> Int]
      /\ \A l \in Both : l \in ListSet
  BY SplitLists, BothFit DEF DelayInv, IInv, ClockTyped
<1>1. ASSUME NEW l \in Both
      PROVE  /\ len[l] \in Nat
             /\ \A k \in 1 .. len[l] : /\ OrderOf(l)[k] = Chain(l)[k] /\ Chain(l)[k] \in Members(l)
                                       /\ Chain(l)[k] \in Items
  <2>1. len[l] \in Nat /\ \A k \in 1 .. len[l] : OrderOf(l)[k] = Chain(l)[k]
    BY <1>0, OrderRead
  <2>2. \A k \in 1 .. len[l] : Chain(l)[k] \in Members(l)
    BY <1>0, ListsSpelled DEF Spelled
  <2> QED BY <2>1, <2>2 DEF Members
<1>2. PICK n, m : n = len[current] /\ m = len[Past]
  OBVIOUS
<1>3. n \in Nat /\ m \in Nat /\ Total = n + m
  BY <1>0, <1>1, <1>2 DEF Total
<1>4. ASSUME NEW k \in 1 .. n + m
      PROVE  /\ Spot(k) \in Items
             /\ k <= n => /\ Spot(k) \in Members(current) /\ Waiter(current, k) = Entry(Spot(k))
             /\ ~(k <= n) => /\ Spot(k) \in Members(Past) /\ Waiter(Past, k - n) = Entry(Spot(k))
  <2>1. CASE k <= n
    <3>1. k \in 1 .. n /\ Spot(k) = Chain(current)[k]
      BY <1>2, <1>3, <2>1 DEF Spot
    <3>2. OrderOf(current)[k] = Spot(k) /\ Spot(k) \in Members(current) /\ Spot(k) \in Items
      BY <1>0, <1>1, <1>2, <3>1
    <3> QED BY <2>1, <3>2 DEF Waiter, Entry
  <2>2. CASE ~(k <= n)
    <3> DEFINE j == k - n
    <3>1. j \in 1 .. m /\ Spot(k) = Chain(Past)[j]
      BY <1>2, <1>3, <2>2 DEF Spot
    <3> HIDE DEF j
    <3>2. OrderOf(Past)[j] = Spot(k) /\ Spot(k) \in Members(Past) /\ Spot(k) \in Items
      BY <1>0, <1>1, <1>2, <3>1
    <3>3. Waiter(Past, j) = Entry(Spot(k))
      BY <3>2 DEF Waiter, Entry
    <3> QED BY <2>2, <3>2, <3>3 DEF j
  <2> QED BY <2>1, <2>2
<1>5. Waiters = [k \in 1 .. n + m |-> Entry(Spot(k))]
  <2>1. Waiters = [k \in 1 .. n + m |-> IF k <= n THEN Waiter(current, k) ELSE Waiter(Past, k - n)]
    BY <1>2 DEF Waiters
  <2>2. \A k \in 1 .. n + m :
          (IF k <= n THEN Waiter(current, k) ELSE Waiter(Past, k - n)) = Entry(Spot(k))
    BY <1>4
  <2> QED BY <2>1, <2>2
<1>6. \A k \in 1 .. n + m : Entry(Spot(k)) \in Entries
  BY <1>0, <1>4 DEF Entry, Entries
<1>7. n + m \in Nat /\ Waiters \in [1 .. n + m -> Entries]
  BY <1>3, <1>5, <1>6
<1>8. Waiters \in Q!Seq(Entries) /\ Q!Len(Waiters) = n + m
  BY <1>7
<1>9. \A k \in 1 .. n + m : Waiters[k] = Entry(Spot(k))
  BY <1>5
<1>10. /\ \A k \in 1 .. n : Spot(k) \in Members(current)
       /\ \A k \in n + 1 .. n + m : Spot(k) \in Members(Past)
  <2>1. /\ \A k \in 1 .. n : k \in 1 .. n + m /\ k <= n
        /\ \A k \in n + 1 .. n + m : k \in 1 .. n + m /\ ~(k <= n)
    BY <1>3
  <2> QED BY <1>4, <2>1
<1> QED BY <1>2, <1>3, <1>4, <1>5, <1>8, <1>9, <1>10 DEF QueueRead

LEMMA WaitersReadAfter == DelayInv' => QueueRead'
BY WaitersRead, PTL

(* The queue is made of what stands where, and of what everyone has left.  *)
LEMMA SameQueue ==
  ASSUME DelayInv, DelayInv', Total' = Total,
         \A k \in 1 .. Total : Spot(k)' = Spot(k) /\ left'[Spot(k)] = left[Spot(k)]
  PROVE  Waiters' = Waiters
<1>1. QueueRead /\ QueueRead'
  BY WaitersRead, WaitersReadAfter
<1>2. Waiters = [k \in 1 .. Total |-> Entry(Spot(k))]
  BY <1>1 DEF QueueRead
<1>3. Waiters' = [k \in 1 .. Total' |-> Entry(Spot(k))']
  BY <1>1 DEF QueueRead
<1>4. \A k \in 1 .. Total : Entry(Spot(k))' = Entry(Spot(k))
  BY DEF Entry
<1> QED BY <1>2, <1>3, <1>4

(* Spot with the two lists, before and after a step, written as constants. *)
LEMMA SpotIs ==
  ASSUME NEW c, NEW d, NEW k
  PROVE  /\ c = current /\ d = Past =>
              Spot(k) = IF k <= len[c] THEN Chain(c)[k] ELSE Chain(d)[k - len[c]]
         /\ c = current' /\ d = Past' =>
              Spot(k)' = IF k <= len'[c] THEN Chain(c)'[k] ELSE Chain(d)'[k - len'[c]]
<1>1. ASSUME c = current' PROVE Chain(c)' = Chain(current)'
  BY <1>1 DEF Chain, EndOf
<1>2. ASSUME d = Past' PROVE Chain(d)' = Chain(Past)'
  BY <1>2 DEF Chain, EndOf
<1>3. Spot(k)' = IF k <= len'[current'] THEN Chain(current)'[k]
                 ELSE Chain(Past)'[k - len'[current']]
  BY DEF Spot
<1>4. Spot(k) = IF k <= len[current] THEN Chain(current)[k] ELSE Chain(Past)[k - len[current]]
  BY DEF Spot
<1> QED BY <1>1, <1>2, <1>3, <1>4

(* The place in the queue of the place b of list l.                        *)
Behind(l, b) == IF l = current THEN b ELSE len[current] + b

(* A task that enters behind place b of its list enters the queue there.   *)
LEMMA SpotsEntered ==
  ASSUME DelayInv, UNCHANGED current, NEW l \in Both, NEW b \in 0 .. len[l], NEW i,
         len'[l] = len[l] + 1,
         \A k \in 0 .. len[l] + 1 : Chain(l)'[k] = Put(Chain(l), len[l], b, i)[k],
         \A k \in ListSet : k # l => SameList(k),
         NEW p, p = Behind(l, b)
  PROVE  /\ p \in 0 .. Total /\ Total' = Total + 1
         /\ \A k \in 1 .. Total + 1 :
              Spot(k)' = IF k <= p THEN Spot(k) ELSE IF k = p + 1 THEN i ELSE Spot(k - 1)
<1> PICK c, d : c = current /\ d = Past
  OBVIOUS
<1>1. /\ c = current' /\ d = Past' /\ c \in Both /\ d \in Both /\ c # d /\ (l = c \/ l = d)
      /\ c \in ListSet /\ d \in ListSet
  BY SplitLists, BothFit DEF DelayInv, ClockTyped, Past
<1>2. /\ len[c] \in Nat /\ len[d] \in Nat /\ Total = len[c] + len[d] /\ Total' = len'[c] + len'[d]
  BY <1>1, WaitersRead DEF QueueRead, Total
<1>3. \A k : /\ Spot(k) = IF k <= len[c] THEN Chain(c)[k] ELSE Chain(d)[k - len[c]]
            /\ Spot(k)' = IF k <= len'[c] THEN Chain(c)'[k] ELSE Chain(d)'[k - len'[c]]
  BY <1>1, SpotIs
<1>4. \A k \in 0 .. len[l] + 1 :
        Chain(l)'[k] = IF k <= b THEN Chain(l)[k] ELSE IF k = b + 1 THEN i ELSE Chain(l)[k - 1]
  BY DEF Put
<1>5. CASE l = c
  <2>1. p = b /\ len'[c] = len[c] + 1 /\ len'[d] = len[d]
        /\ \A k \in 0 .. len[d] : Chain(d)'[k] = Chain(d)[k]
    BY <1>1, <1>5 DEF Behind, SameList
  <2>2. ASSUME NEW k \in 1 .. Total + 1
        PROVE  Spot(k)' = IF k <= p THEN Spot(k) ELSE IF k = p + 1 THEN i ELSE Spot(k - 1)
    <3>1. CASE k <= len[c] + 1
      <4>1. /\ k \in 0 .. len[c] + 1 /\ k <= len'[c]
            /\ k <= b => k <= len[c]
            /\ k - 1 <= len[c]
        BY <1>2, <1>5, <2>1, <3>1
      <4> QED BY <1>3, <1>4, <1>5, <2>1, <4>1
    <3>2. CASE ~(k <= len[c] + 1)
      <4>1. /\ ~(k <= len'[c]) /\ ~(k - 1 <= len[c]) /\ ~(k <= b) /\ k # b + 1
            /\ k - len'[c] = (k - 1) - len[c] /\ k - len'[c] \in 0 .. len[d]
        BY <1>2, <1>5, <2>1, <3>2
      <4> QED BY <1>3, <2>1, <4>1
    <3> QED BY <3>1, <3>2
  <2> QED BY <1>2, <1>5, <2>1, <2>2
<1>6. CASE l = d
  <2>1. p = len[c] + b /\ len'[d] = len[d] + 1 /\ len'[c] = len[c]
        /\ \A k \in 0 .. len[c] : Chain(c)'[k] = Chain(c)[k]
    BY <1>1, <1>6 DEF Behind, SameList
  <2>2. ASSUME NEW k \in 1 .. Total + 1
        PROVE  Spot(k)' = IF k <= p THEN Spot(k) ELSE IF k = p + 1 THEN i ELSE Spot(k - 1)
    <3>1. CASE k <= len[c]
      <4>1. k \in 0 .. len[c] /\ k <= len'[c] /\ k <= p
        BY <1>2, <1>6, <2>1, <3>1
      <4> QED BY <1>3, <2>1, <4>1
    <3>2. CASE ~(k <= len[c])
      <4> DEFINE j == k - len[c]
      <4>1. /\ j \in 1 .. len[d] + 1 /\ j \in 0 .. len[l] + 1
            /\ k <= p <=> j <= b
            /\ k = p + 1 <=> j = b + 1
            /\ ~(j <= b) /\ j # b + 1 => ~(k - 1 <= len[c]) /\ (k - 1) - len[c] = j - 1
        BY <1>2, <1>6, <2>1, <3>2
      <4>2. /\ Spot(k)' = Chain(d)'[j] /\ Spot(k) = Chain(d)[j]
            /\ ~(j <= b) /\ j # b + 1 => Spot(k - 1) = Chain(d)[j - 1]
        BY <1>3, <2>1, <3>2, <4>1
      <4> HIDE DEF j
      <4> QED BY <1>4, <1>6, <4>1, <4>2
    <3> QED BY <3>1, <3>2
  <2> QED BY <1>2, <1>6, <2>1, <2>2
<1> QED BY <1>1, <1>5, <1>6

(* A task that leaves place b of its list leaves the queue there.          *)
LEMMA SpotsLeft ==
  ASSUME DelayInv, UNCHANGED current, NEW l \in Both, NEW b \in 1 .. len[l],
         len'[l] = len[l] - 1,
         \A k \in 0 .. len[l] - 1 : Chain(l)'[k] = Drop(Chain(l), len[l], b)[k],
         \A k \in ListSet : k # l => SameList(k),
         NEW p, p = Behind(l, b)
  PROVE  /\ p \in 1 .. Total /\ Total' = Total - 1
         /\ \A k \in 1 .. Total - 1 : Spot(k)' = IF k < p THEN Spot(k) ELSE Spot(k + 1)
<1> PICK c, d : c = current /\ d = Past
  OBVIOUS
<1>1. /\ c = current' /\ d = Past' /\ c \in Both /\ d \in Both /\ c # d /\ (l = c \/ l = d)
      /\ c \in ListSet /\ d \in ListSet
  BY SplitLists, BothFit DEF DelayInv, ClockTyped, Past
<1>2. /\ len[c] \in Nat /\ len[d] \in Nat /\ Total = len[c] + len[d] /\ Total' = len'[c] + len'[d]
  BY <1>1, WaitersRead DEF QueueRead, Total
<1>3. \A k : /\ Spot(k) = IF k <= len[c] THEN Chain(c)[k] ELSE Chain(d)[k - len[c]]
            /\ Spot(k)' = IF k <= len'[c] THEN Chain(c)'[k] ELSE Chain(d)'[k - len'[c]]
  BY <1>1, SpotIs
<1>4. \A k \in 0 .. len[l] - 1 : Chain(l)'[k] = IF k < b THEN Chain(l)[k] ELSE Chain(l)[k + 1]
  BY DEF Drop
<1>5. CASE l = c
  <2>1. p = b /\ len'[c] = len[c] - 1 /\ len'[d] = len[d]
        /\ \A k \in 0 .. len[d] : Chain(d)'[k] = Chain(d)[k]
    BY <1>1, <1>5 DEF Behind, SameList
  <2>2. ASSUME NEW k \in 1 .. Total - 1
        PROVE  Spot(k)' = IF k < p THEN Spot(k) ELSE Spot(k + 1)
    <3>1. CASE k <= len[c] - 1
      <4>1. k \in 0 .. len[c] - 1 /\ k <= len'[c] /\ k <= len[c] /\ k + 1 <= len[c]
        BY <1>2, <1>5, <2>1, <3>1
      <4> QED BY <1>3, <1>4, <1>5, <2>1, <4>1
    <3>2. CASE ~(k <= len[c] - 1)
      <4>1. /\ ~(k <= len'[c]) /\ ~(k + 1 <= len[c]) /\ ~(k < b)
            /\ k - len'[c] = (k + 1) - len[c] /\ k - len'[c] \in 0 .. len[d]
        BY <1>2, <1>5, <2>1, <3>2
      <4> QED BY <1>3, <2>1, <4>1
    <3> QED BY <3>1, <3>2
  <2> QED BY <1>2, <1>5, <2>1, <2>2
<1>6. CASE l = d
  <2>1. p = len[c] + b /\ len'[d] = len[d] - 1 /\ len'[c] = len[c]
        /\ \A k \in 0 .. len[c] : Chain(c)'[k] = Chain(c)[k]
    BY <1>1, <1>6 DEF Behind, SameList
  <2>2. ASSUME NEW k \in 1 .. Total - 1
        PROVE  Spot(k)' = IF k < p THEN Spot(k) ELSE Spot(k + 1)
    <3>1. CASE k <= len[c]
      <4>1. k \in 0 .. len[c] /\ k <= len'[c] /\ k < p
        BY <1>2, <1>6, <2>1, <3>1
      <4> QED BY <1>3, <2>1, <4>1
    <3>2. CASE ~(k <= len[c])
      <4> DEFINE j == k - len[c]
      <4>1. /\ j \in 1 .. len[d] - 1 /\ j \in 0 .. len[l] - 1
            /\ k < p <=> j < b
            /\ ~(k + 1 <= len[c]) /\ (k + 1) - len[c] = j + 1
        BY <1>2, <1>6, <2>1, <3>2
      <4>2. Spot(k)' = Chain(d)'[j] /\ Spot(k) = Chain(d)[j] /\ Spot(k + 1) = Chain(d)[j + 1]
        BY <1>3, <2>1, <3>2, <4>1
      <4> HIDE DEF j
      <4> QED BY <1>4, <1>6, <4>1, <4>2
    <3> QED BY <3>1, <3>2
  <2> QED BY <1>2, <1>6, <2>1, <2>2
<1> QED BY <1>1, <1>5, <1>6

(* A wake time that belongs behind place b of its list is n ticks away, and *)
(* there, in the queue, n ticks belong.                                    *)
LEMMA PlaceInQueue ==
  ASSUME DelayInv, NEW l \in Both, NEW b \in 0 .. len[l], NEW v, NEW n,
         Away(l, v, n), Belongs(l, b, v), NEW p, p = Behind(l, b)
  PROVE  /\ p \in 0 .. Total
         /\ \A k \in 1 .. Total : left[Spot(k)] \in Int
         /\ \A k \in 1 .. p : left[Spot(k)] <= n
         /\ p = Total \/ left[Spot(p + 1)] > n
<1> PICK c, d : c = current /\ d = Past
  OBVIOUS
<1>1. /\ c \in Both /\ d \in Both /\ c # d /\ (l = c \/ l = d)
      /\ tick \in Nat /\ tick <= TickMax /\ TickMax \in Nat
      /\ v \in Nat /\ v <= TickMax /\ n \in Nat
  BY SplitLists, Widths DEF DelayInv, ClockTyped, Away, Counts
<1>2. /\ len[c] \in Nat /\ len[d] \in Nat /\ Total = len[c] + len[d]
      /\ \A k \in 1 .. len[c] : Spot(k) = Chain(c)[k] /\ Chain(c)[k] \in Members(c)
      /\ \A k \in 1 .. len[d] : /\ Spot(len[c] + k) = Chain(d)[k] /\ Chain(d)[k] \in Members(d)
  <2>1. /\ len[c] \in Nat /\ len[d] \in Nat /\ Total = len[c] + len[d]
        /\ \A k \in 1 .. len[c] : Spot(k) \in Members(c)
        /\ \A k \in len[c] + 1 .. Total : Spot(k) \in Members(d)
    BY WaitersRead DEF QueueRead, Total
  <2>2. \A k : Spot(k) = IF k <= len[c] THEN Chain(c)[k] ELSE Chain(d)[k - len[c]]
    BY SpotIs
  <2>3. \A k \in 1 .. len[d] : /\ len[c] + k \in len[c] + 1 .. Total /\ ~(len[c] + k <= len[c])
                               /\ (len[c] + k) - len[c] = k
    BY <2>1
  <2>4. ASSUME NEW k \in 1 .. len[d]
        PROVE  Spot(len[c] + k) = Chain(d)[k] /\ Chain(d)[k] \in Members(d)
    BY <2>1, <2>2, <2>3
  <2>5. ASSUME NEW k \in 1 .. len[c]
        PROVE  Spot(k) = Chain(c)[k] /\ Chain(c)[k] \in Members(c)
    BY <2>1, <2>2
  <2> QED BY <2>1, <2>4, <2>5
<1>3. /\ \A s \in Members(c) : left[s] \in Nat /\ value[s] \in Nat /\ value[s] <= TickMax
                               /\ value[s] = tick + left[s]
      /\ \A s \in Members(d) : left[s] \in Nat /\ value[s] \in Nat /\ value[s] <= TickMax
                               /\ value[s] + TickMax + 1 = tick + left[s]
  BY <1>1, Widths DEF DelayInv, AllAwaited, Awaited, Away, Counts
<1>4. ASSUME NEW k \in 1 .. Total
      PROVE  \/ k \in 1 .. len[c]
             \/ k - len[c] \in 1 .. len[d] /\ k = len[c] + (k - len[c])
  BY <1>2
<1>5. \A k \in 1 .. Total : left[Spot(k)] \in Int
  <2> TAKE k \in 1 .. Total
  <2>1. CASE k \in 1 .. len[c]
    BY <1>2, <1>3, <2>1
  <2>2. CASE k - len[c] \in 1 .. len[d] /\ k = len[c] + (k - len[c])
    <3> PICK j \in 1 .. len[d] : k = len[c] + j
      BY <2>2
    <3>1. Spot(k) = Chain(d)[j] /\ Chain(d)[j] \in Members(d)
      BY <1>2
    <3> QED BY <1>3, <3>1
  <2> QED BY <1>4, <2>1, <2>2
<1>6. /\ \A k \in 1 .. b : value[Chain(l)[k]] <= v
      /\ b = len[l] \/ value[Chain(l)[b + 1]] > v
  BY DEF Belongs
<1>7. CASE l = c
  <2>1. p = b /\ v = tick + n /\ b \in 0 .. len[c]
    BY <1>7 DEF Behind, Away
  <2>2. ASSUME NEW k \in 1 .. p PROVE left[Spot(k)] <= n
    <3>1. k \in 1 .. len[c] /\ value[Chain(c)[k]] <= v
      BY <1>2, <1>6, <1>7, <2>1
    <3>2. Spot(k) \in Members(c) /\ value[Spot(k)] <= v
      BY <1>2, <3>1
    <3> QED BY <1>1, <1>3, <2>1, <3>2
  <2>3. CASE b # len[c]
    <3>1. b + 1 \in 1 .. len[c] /\ value[Chain(c)[b + 1]] > v
      BY <1>2, <1>6, <1>7, <2>1, <2>3
    <3>2. Spot(p + 1) \in Members(c) /\ value[Spot(p + 1)] > v
      BY <1>2, <2>1, <3>1
    <3> QED BY <1>1, <1>2, <1>3, <1>5, <2>1, <2>2, <3>2
  <2>4. CASE b = len[c] /\ p # Total
    <3>1. 1 \in 1 .. len[d] /\ p + 1 = len[c] + 1
      BY <1>2, <2>1, <2>4
    <3>2. Spot(p + 1) \in Members(d)
      BY <1>2, <3>1
    <3>3. left[Spot(p + 1)] > n
      BY <1>1, <1>3, <2>1, <3>2
    <3> QED BY <1>2, <1>5, <2>1, <2>2, <3>3
  <2> QED BY <1>2, <1>5, <2>1, <2>2, <2>3, <2>4
<1>8. CASE l = d
  <2>1. p = len[c] + b /\ v + TickMax + 1 = tick + n /\ b \in 0 .. len[d]
    BY <1>1, <1>8 DEF Behind, Away
  <2>2. ASSUME NEW k \in 1 .. p PROVE left[Spot(k)] <= n
    <3>1. CASE k \in 1 .. len[c]
      <4>1. Spot(k) \in Members(c)
        BY <1>2, <3>1
      <4> QED BY <1>1, <1>3, <2>1, <4>1
    <3>2. CASE k \notin 1 .. len[c]
      <4>1. PICK j \in 1 .. b : k = len[c] + j
        BY <1>2, <2>1, <3>2
      <4>2. j \in 1 .. len[d] /\ value[Chain(d)[j]] <= v
        BY <1>2, <1>6, <1>8, <2>1
      <4>3. Spot(k) \in Members(d) /\ value[Spot(k)] <= v
        BY <1>2, <4>1, <4>2
      <4> QED BY <1>1, <1>3, <2>1, <4>3
    <3> QED BY <3>1, <3>2
  <2>3. CASE b # len[d]
    <3>1. b + 1 \in 1 .. len[d] /\ value[Chain(d)[b + 1]] > v /\ p + 1 = len[c] + (b + 1)
      BY <1>2, <1>6, <1>8, <2>1, <2>3
    <3>2. Spot(p + 1) \in Members(d) /\ value[Spot(p + 1)] > v
      BY <1>2, <3>1
    <3> QED BY <1>1, <1>2, <1>3, <1>5, <2>1, <2>2, <3>2
  <2> QED BY <1>2, <1>5, <2>1, <2>2, <2>3
<1> QED BY <1>1, <1>7, <1>8

(* The first of those who have more than n left is where InsertAt inserts. *)
LEMMA SelectIs ==
  ASSUME DelayInv, NEW n \in Int, NEW p \in 0 .. Total,
         \A k \in 1 .. Total : left[Spot(k)] \in Int,
         \A k \in 1 .. p : left[Spot(k)] <= n,
         p = Total \/ left[Spot(p + 1)] > n
  PROVE  LET later == Plan!S!SelectInSeq(Waiters, LAMBDA w : w.left > n)
         IN (IF later = 0 THEN Q!Len(Waiters) + 1 ELSE later) = p + 1
<1> DEFINE I == {k \in 1 .. Q!Len(Waiters) : Waiters[k].left > n}
           first == IF I # {} THEN Plan!S!Min(I) ELSE 0
<1>1. /\ Total \in Nat /\ Q!Len(Waiters) = Total
      /\ \A k \in 1 .. Total : Waiters[k].left = left[Spot(k)]
  BY WaitersRead DEF QueueRead, Entry
<1>2. Plan!S!SelectInSeq(Waiters, LAMBDA w : w.left > n) = first
  BY DEF Plan!S!SelectInSeq
<1>3. I = {k \in 1 .. Total : left[Spot(k)] > n}
  BY <1>1
<1> HIDE DEF I
<1>4. CASE p = Total
  <2>1. I = {}
    BY <1>1, <1>3, <1>4
  <2> QED BY <1>1, <1>2, <1>4, <2>1
<1>5. CASE p # Total
  <2>1. p + 1 \in I /\ \A k \in I : p + 1 <= k
    <3>1. p + 1 \in 1 .. Total /\ \A k \in 1 .. Total : ~(p + 1 <= k) => k \in 1 .. p
      BY <1>1, <1>5
    <3> QED BY <1>3, <1>5, <3>1
  <2>2. \A x \in I : (\A y \in I : x <= y) => x = p + 1
    BY <1>1, <1>3, <2>1
  <2>3. Plan!S!Min(I) = p + 1
    BY <2>1, <2>2 DEF Plan!S!Min
  <2> QED BY <1>1, <1>2, <2>1, <2>3
<1> QED BY <1>4, <1>5

(* Everyone in the queue has something left while tasks run.               *)
LEMMA QueueNotDue ==
  ASSUME DelayInv, phase # "waking"
  PROVE  Plan!NobodyDue
<1>1. /\ current \in Both /\ Past \in Both
      /\ \A l \in Both : \A m \in Members(l) : left[m] \in Nat /\ left[m] > 0
  BY SplitLists, SomeLeft DEF DelayInv, ClockTyped
<1>2. QueueRead
  BY WaitersRead
<1>3. ASSUME NEW k \in DOMAIN Waiters PROVE Waiters[k].left > 0
  <2>1. k \in 1 .. Total /\ (k \in 1 .. len[current] \/ k \in len[current] + 1 .. Total)
    BY <1>2 DEF QueueRead
  <2>2. Spot(k) \in Members(current) \cup Members(Past) /\ Waiters[k].left = left[Spot(k)]
    BY <1>2, <2>1 DEF QueueRead, Entry
  <2> QED BY <1>1, <2>2
<1> QED BY <1>3 DEF Plan!NobodyDue

(* Linking a task behind the place where its wake time belongs is a delay  *)
(* of the schedule.                                                        *)
LEMMA LinkDelays ==
  ASSUME DelayInv, DelayInv', phase # "waking", UNCHANGED <<tick, current>>,
         NEW l \in Both, NEW b \in 0 .. len[l], NEW i \in Items, container[i] = NO_LIST,
         NEW v, NEW n \in 1 .. TickMax, Away(l, v, n), Belongs(l, b, v),
         LinkBetween(l, i, Chain(l)[b], next[Chain(l)[b]], TRUE, v),
         left'[i] = n, \A j \in Items : j # i => left'[j] = left[j],
         heard' = << Event(tick, "TaskDelay", i),
                     Event(tick, IF l = current THEN "MovedTaskToDelayedList"
                                 ELSE "MovedTaskToOverflowDelayedList", i) >>
  PROVE  Plan!Delay(i, n)
<1> PICK p : p = Behind(l, b)
  OBVIOUS
<1>1. /\ ListInv /\ ListInv' /\ l \in ListSet /\ n \in Int /\ NO_LIST \notin ListSet
      /\ current \in ListSet /\ Past \in ListSet
  BY BothFit, SplitLists, Geometry DEF DelayInv, IInv, ClockTyped
<1>2. /\ next' = LinkNext(next, i, Chain(l)[b], next[Chain(l)[b]])
      /\ len' = [len EXCEPT ![l] = (@ + 1) % (NONE + 1)] /\ UNCHANGED cursor
  BY DEF LinkBetween
<1>3. /\ len'[l] = len[l] + 1
      /\ \A k \in 0 .. len[l] + 1 : Chain(l)'[k] = Put(Chain(l), len[l], b, i)[k]
      /\ \A k \in ListSet : k # l => SameList(k)
  BY <1>1, <1>2, Entered
<1>4. /\ p \in 0 .. Total /\ Total' = Total + 1
      /\ \A k \in 1 .. Total + 1 :
           Spot(k)' = IF k <= p THEN Spot(k) ELSE IF k = p + 1 THEN i ELSE Spot(k - 1)
  BY <1>3, SpotsEntered
<1>5. /\ \A k \in 1 .. Total : left[Spot(k)] \in Int
      /\ \A k \in 1 .. p : left[Spot(k)] <= n
      /\ p = Total \/ left[Spot(p + 1)] > n
  BY PlaceInQueue
<1>6. QueueRead /\ QueueRead'
  BY WaitersRead, WaitersReadAfter
<1>7. ASSUME NEW k \in 1 .. Total PROVE Spot(k) \in Items /\ Spot(k) # i
  <2>1. k \in 1 .. len[current] \/ k \in len[current] + 1 .. Total
    BY <1>6 DEF QueueRead
  <2>2. Spot(k) \in Members(current) \cup Members(Past)
    BY <1>6, <2>1 DEF QueueRead
  <2> QED BY <1>1, <2>2 DEF Members
<1> DEFINE x == [task |-> i, left |-> n]
<1>8. /\ Total \in Nat /\ Waiters \in Q!Seq(Entries) /\ Q!Len(Waiters) = Total /\ x \in Entries
      /\ \A k \in 1 .. Total : Waiters[k] = Entry(Spot(k))
      /\ Waiters' = [k \in 1 .. Total + 1 |-> Entry(Spot(k))']
  BY <1>1, <1>4, <1>6 DEF QueueRead, Entries
<1>9. Waiters' = With(Waiters, p + 1, x)
  <2>1. ASSUME NEW k \in 1 .. Total + 1
        PROVE  Entry(Spot(k))' = IF k < p + 1 THEN Waiters[k]
                                 ELSE IF k = p + 1 THEN x ELSE Waiters[k - 1]
    <3>1. Entry(Spot(k))' = [task |-> Spot(k)', left |-> left'[Spot(k)']]
      BY DEF Entry
    <3>2. CASE k <= p
      <4>1. k \in 1 .. Total /\ k < p + 1 /\ Spot(k)' = Spot(k)
        BY <1>4, <1>8, <3>2
      <4>2. Spot(k) \in Items /\ Spot(k) # i /\ Waiters[k] = Entry(Spot(k))
        BY <1>7, <1>8, <4>1
      <4> QED BY <3>1, <4>1, <4>2 DEF Entry
    <3>3. CASE k = p + 1
      <4>1. Spot(k)' = i /\ ~(k < p + 1)
        BY <1>4, <1>8, <3>3
      <4> QED BY <3>1, <3>3, <4>1
    <3>4. CASE k > p + 1
      <4> DEFINE j == k - 1
      <4>1. j \in 1 .. Total /\ ~(k < p + 1) /\ k # p + 1 /\ Spot(k)' = Spot(j)
        BY <1>4, <1>8, <3>4
      <4> HIDE DEF j
      <4>2. Spot(j) \in Items /\ Spot(j) # i /\ Waiters[j] = Entry(Spot(j))
        BY <1>7, <1>8, <4>1
      <4>3. Entry(Spot(k))' = Waiters[j]
        BY <3>1, <4>1, <4>2 DEF Entry
      <4> QED BY <4>1, <4>3 DEF j
    <3> QED BY <1>4, <1>8, <3>2, <3>3, <3>4
  <2> HIDE DEF x
  <2> QED BY <1>8, <2>1 DEF With
<1>10. Waiters' = Plan!S!InsertAt(Waiters, p + 1, x)
  <2>1. p + 1 \in 1 .. Q!Len(Waiters) + 1
    BY <1>4, <1>8
  <2>2. Order!S!InsertAt(Waiters, p + 1, x) = With(Waiters, p + 1, x)
    BY <1>8, <2>1, InsertAtIs
  <2>3. Plan!S!InsertAt(Waiters, p + 1, x) = Order!S!InsertAt(Waiters, p + 1, x)
    BY DEF Plan!S!InsertAt, Order!S!InsertAt
  <2> QED BY <1>9, <2>2, <2>3
<1>11. LET later == Plan!S!SelectInSeq(Waiters, LAMBDA w : w.left > n)
       IN (IF later = 0 THEN Q!Len(Waiters) + 1 ELSE later) = p + 1
  BY <1>1, <1>4, <1>5, SelectIs
<1>12. \A k \in DOMAIN Waiters : Waiters[k].task # i
  BY <1>7, <1>8 DEF Entry
<1>13. heard' = << Plan!Event("TaskDelay", i),
                   Plan!Event(IF tick + n <= TickMax THEN "MovedTaskToDelayedList"
                              ELSE "MovedTaskToOverflowDelayedList", i) >>
  <2>1. l = current <=> tick + n <= TickMax
    BY Widths DEF Away, DelayInv, ClockTyped, Counts
  <2> QED BY <2>1 DEF Plan!Event, Event
<1> QED BY <1>10, <1>11, <1>12, <1>13, QueueNotDue DEF Plan!Delay

(* A removal takes a task out of the queue.                                *)
LEMMA RemoveLeaves ==
  ASSUME DelayInv, DelayInv', UNCHANGED <<tick, current>>,
         NEW l \in Both, NEW i \in Members(l), Remove(i),
         \A j \in Items : j # i => left'[j] = left[j],
         heard' = << Event(tick, "MovedTaskToReadyState", i) >>,
         NEW p, p = Behind(l, PlaceOf(l, i))
  PROVE  p \in DOMAIN Waiters /\ Waiters[p] = Entry(i) /\ Plan!Leave(p)
<1> PICK b : b = PlaceOf(l, i)
  OBVIOUS
<1>1. ListInv /\ ListInv' /\ l \in ListSet
  BY BothFit DEF DelayInv, IInv
<1>2. /\ b \in 1 .. len[l] /\ Chain(l)[b] = i
      /\ len'[l] = len[l] - 1
      /\ \A k \in 0 .. len[l] - 1 : Chain(l)'[k] = Drop(Chain(l), len[l], b)[k]
      /\ \A k \in ListSet : k # l => SameList(k)
  BY <1>1, LeftByRemove, PlaceIs
<1>3. p = Behind(l, b)
  OBVIOUS
<1>4. /\ p \in 1 .. Total /\ Total' = Total - 1
      /\ \A k \in 1 .. Total - 1 : Spot(k)' = IF k < p THEN Spot(k) ELSE Spot(k + 1)
  BY <1>2, <1>3, SpotsLeft
<1>5. QueueRead /\ QueueRead'
  BY WaitersRead, WaitersReadAfter
<1>6. /\ Total \in Nat /\ Waiters \in Q!Seq(Entries) /\ Q!Len(Waiters) = Total
      /\ DOMAIN Waiters = 1 .. Total
      /\ \A k \in 1 .. Total : Waiters[k] = Entry(Spot(k))
      /\ Waiters' = [k \in 1 .. Total - 1 |-> Entry(Spot(k))']
  BY <1>4, <1>5 DEF QueueRead
<1>7. Spot(p) = i
  <2> PICK c, d : c = current /\ d = Past
    OBVIOUS
  <2>1. /\ \A k : Spot(k) = IF k <= len[c] THEN Chain(c)[k] ELSE Chain(d)[k - len[c]]
        /\ l = c \/ l = d
        /\ len[c] \in Nat
    BY <1>5, SpotIs, SplitLists DEF QueueRead, DelayInv, ClockTyped
  <2>2. CASE l = c
    <3>1. p = b /\ p <= len[c]
      BY <1>2, <1>3, <2>1, <2>2 DEF Behind
    <3> QED BY <1>2, <2>1, <2>2, <3>1
  <2>3. CASE l = d /\ l # c
    <3>1. p = len[c] + b /\ ~(p <= len[c]) /\ p - len[c] = b
      BY <1>2, <1>3, <2>1, <2>3 DEF Behind
    <3> QED BY <1>2, <2>1, <2>3, <3>1
  <2> QED BY <2>1, <2>2, <2>3
<1>8. ASSUME NEW k \in 1 .. Total, k # p PROVE Spot(k) # i
  <2> PICK c, d : c = current /\ d = Past
    OBVIOUS
  <2>0. (l = c \/ l = d) /\ c # d
    BY SplitLists DEF DelayInv, ClockTyped
  <2>1. /\ \A j : Spot(j) = IF j <= len[c] THEN Chain(c)[j] ELSE Chain(d)[j - len[c]]
        /\ len[c] \in Nat /\ len[d] \in Nat /\ Total = len[c] + len[d]
        /\ \A j \in 1 .. len[c] : Spot(j) \in Members(c)
        /\ \A j \in len[c] + 1 .. Total : Spot(j) \in Members(d)
    BY <1>5, SpotIs DEF QueueRead, Total
  <2>2. \A j, m \in 0 .. len[l] : Chain(l)[j] = Chain(l)[m] => j = m
    BY <1>1, ListsSpelled DEF Spelled
  <2>3. CASE l = c /\ k <= len[c]
    <3>1. k \in 0 .. len[l] /\ b \in 0 .. len[l] /\ p = b /\ Spot(k) = Chain(l)[k]
      BY <1>2, <1>3, <2>1, <2>3 DEF Behind
    <3> QED BY <1>2, <1>8, <2>2, <3>1
  <2>4. CASE l = d /\ ~(k <= len[c])
    <3> DEFINE j == k - len[c]
    <3>1. /\ j \in 0 .. len[l] /\ b \in 0 .. len[l] /\ p = len[c] + b /\ k = len[c] + j
          /\ Spot(k) = Chain(l)[j]
      BY <1>2, <1>3, <2>0, <2>1, <2>4 DEF Behind
    <3> HIDE DEF j
    <3> QED BY <1>2, <1>8, <2>2, <3>1
  <2>5. CASE l = c /\ ~(k <= len[c])
    <3>1. Spot(k) \in Members(d)
      BY <2>1, <2>5
    <3> QED BY <2>0, <2>5, <3>1 DEF Members
  <2>6. CASE l = d /\ k <= len[c]
    <3>1. Spot(k) \in Members(c)
      BY <2>1, <2>6
    <3> QED BY <2>0, <2>6, <3>1 DEF Members
  <2> QED BY <2>0, <2>3, <2>4, <2>5, <2>6
<1>9. \A k \in 1 .. Total : Spot(k) \in Items
  BY <1>5 DEF QueueRead
<1>10. Waiters' = Without(Waiters, p)
  <2>1. ASSUME NEW k \in 1 .. Total - 1
        PROVE  Entry(Spot(k))' = IF k < p THEN Waiters[k] ELSE Waiters[k + 1]
    <3>1. Entry(Spot(k))' = [task |-> Spot(k)', left |-> left'[Spot(k)']]
      BY DEF Entry
    <3>2. CASE k < p
      <4>1. k \in 1 .. Total /\ k # p /\ Spot(k)' = Spot(k)
        BY <1>4, <1>6, <3>2
      <4> QED BY <1>6, <1>8, <1>9, <3>1, <3>2, <4>1 DEF Entry
    <3>3. CASE ~(k < p)
      <4> DEFINE j == k + 1
      <4>1. j \in 1 .. Total /\ j # p /\ Spot(k)' = Spot(j)
        BY <1>4, <1>6, <3>3
      <4> HIDE DEF j
      <4>2. Entry(Spot(k))' = Waiters[j]
        BY <1>6, <1>8, <1>9, <3>1, <4>1 DEF Entry
      <4> QED BY <3>3, <4>2 DEF j
    <3> QED BY <3>2, <3>3
  <2> QED BY <1>6, <2>1 DEF Without
<1>11. Waiters' = Plan!S!RemoveAt(Waiters, p)
  <2>1. p \in 1 .. Q!Len(Waiters)
    BY <1>4, <1>6
  <2>2. Order!S!RemoveAt(Waiters, p) = Without(Waiters, p)
    BY <1>6, <2>1, RemoveAtIs
  <2>3. Plan!S!RemoveAt(Waiters, p) = Order!S!RemoveAt(Waiters, p)
    BY DEF Plan!S!RemoveAt, Order!S!RemoveAt
  <2> QED BY <1>10, <2>2, <2>3
<1>12. p \in DOMAIN Waiters /\ Waiters[p] = Entry(i) /\ Waiters[p].task = i
  BY <1>4, <1>6, <1>7 DEF Entry
<1>13. heard' = << Plan!Event("MovedTaskToReadyState", Waiters[p].task) >>
  BY <1>12 DEF Plan!Event, Event
<1> QED BY <1>11, <1>12, <1>13 DEF Plan!Leave

(* When time passes nobody's wake time, it passes for the whole queue, and *)
(* the lists may change roles when the current one is empty.               *)
LEMMA TimeElapses ==
  ASSUME DelayInv, DelayInv', UNCHANGED <<vars, heard>>, NEW n \in Nat, n \in Counts,
         tick' = WrappingAdd(tick, n), Elapse(n),
         \/ UNCHANGED current
         \/ current' = Past /\ len[current] = 0,
         \A l \in Both : \A m \in Members(l) : left[m] >= n
  PROVE  Plan!Elapse(n)
<1> PICK c, d : c = current /\ d = Past
  OBVIOUS
<1>1. QueueRead /\ QueueRead'
  BY WaitersRead, WaitersReadAfter
<1>2. /\ c \in Both /\ d \in Both /\ ClockTyped /\ left \in [Items -> Int]
      /\ len[c] \in Nat /\ len[d] \in Nat /\ Total = len[c] + len[d]
      /\ \A k \in 1 .. Total : Spot(k) \in Items /\ Waiters[k] = Entry(Spot(k))
      /\ \A k \in 1 .. len[c] : Spot(k) \in Members(c)
      /\ \A k \in len[c] + 1 .. Total : Spot(k) \in Members(d)
      /\ DOMAIN Waiters = 1 .. Total
      /\ Waiters' = [k \in 1 .. Total' |-> Entry(Spot(k))']
  BY <1>1, SplitLists DEF QueueRead, DelayInv, ClockTyped, Total
<1>3. len' = len /\ next' = next
  BY DEF vars
<1>4. Total' = Total /\ \A k \in 1 .. Total : Spot(k)' = Spot(k)
  <2>1. Chain(c)' = Chain(c) /\ Chain(d)' = Chain(d)
    BY <1>3 DEF Chain, EndOf
  <2>2. \A k : Spot(k) = IF k <= len[c] THEN Chain(c)[k] ELSE Chain(d)[k - len[c]]
    BY SpotIs
  <2>3. CASE UNCHANGED current
    <3>1. c = current' /\ d = Past'
      BY <2>3 DEF Past
    <3>2. \A k : Spot(k)' = IF k <= len'[c] THEN Chain(c)'[k] ELSE Chain(d)'[k - len'[c]]
      BY <3>1, SpotIs
    <3>3. Total' = Total
      BY <1>3, <2>3 DEF Total, Past
    <3> QED BY <1>3, <2>1, <2>2, <3>2, <3>3
  <2>4. CASE current' = Past /\ len[current] = 0
    <3>1. d = current' /\ c = Past'
      BY <1>2, <2>4 DEF Past, Both
    <3>2. \A k : Spot(k)' = IF k <= len'[d] THEN Chain(d)'[k] ELSE Chain(c)'[k - len'[d]]
      BY <3>1, SpotIs
    <3>3. Total' = len[d] + len[c]
      BY <1>3, <3>1 DEF Total
    <3>4. \A k \in 1 .. Total : k <= len[d] /\ ~(k <= len[c]) /\ k - len[c] = k
      BY <1>2, <2>4
    <3> QED BY <1>2, <1>3, <2>1, <2>2, <3>2, <3>3, <3>4
  <2> QED BY <2>3, <2>4
<1>5. ASSUME NEW k \in 1 .. Total
      PROVE  /\ left[Spot(k)] \in Int /\ left[Spot(k)] >= n
             /\ left'[Spot(k)] = left[Spot(k)] - n
  <2>1. k \in 1 .. len[c] \/ k \in len[c] + 1 .. Total
    BY <1>2
  <2>2. PICK l \in Both : Spot(k) \in Members(l)
    BY <1>2, <2>1
  <2>3. left[Spot(k)] \in Int /\ left[Spot(k)] >= n
    BY <1>2, <2>2
  <2>4. left[Spot(k)] - n >= 0
    BY <2>3
  <2> QED BY <1>2, <2>2, <2>3, <2>4, ElapseFacts
<1>6. \A k \in DOMAIN Waiters : Waiters[k].left >= n
  BY <1>2, <1>5 DEF Entry
<1>7. Waiters' = [k \in DOMAIN Waiters |-> [Waiters[k] EXCEPT !.left = @ - n]]
  <2>1. ASSUME NEW k \in 1 .. Total
        PROVE  Entry(Spot(k))' = [Waiters[k] EXCEPT !.left = @ - n]
    <3>1. Entry(Spot(k))' = [task |-> Spot(k), left |-> left'[Spot(k)]]
      BY <1>4 DEF Entry
    <3>2. Waiters[k] = [task |-> Spot(k), left |-> left[Spot(k)]]
      BY <1>2 DEF Entry
    <3> QED BY <1>5, <3>1, <3>2
  <2> QED BY <1>2, <1>4, <2>1
<1>8. tick' = (tick + n) % (TickMax + 1)
  <2> DEFINE t == tick + n
             r == TickMax + 1
  <2>1. /\ tick \in Counts /\ r \in Nat \ {0} /\ t \in Int /\ 0 <= t /\ t < 2 * r
        /\ tick' = IF t < r THEN t ELSE t - r
    BY <1>2, AddFacts, Widths DEF ClockTyped, Counts
  <2> HIDE DEF t, r
  <2>2. CASE t < r
    BY <2>1, <2>2, OneRound DEF t, r
  <2>3. CASE ~(t < r)
    <3>1. r <= t
      BY <2>1, <2>3
    <3>2. t % r = t - r
      BY <2>1, <3>1, OneRound
    <3> QED BY <2>1, <2>3, <3>2 DEF t, r
  <2> QED BY <2>2, <2>3
<1> QED BY <1>6, <1>7, <1>8 DEF Plan!Elapse

(* What comes through the projection: all of what is part of a schedule,   *)
(* nothing of what is not.                                                 *)
LEMMA FireFacts ==
  ASSUME NEW e, NEW f
  PROVE  /\ IsSuppressible(e) /\ FireOne(e) => UNCHANGED heard
         /\ IsSuppressible(e) /\ IsSuppressible(f) /\ FireTwo(e, f) => UNCHANGED heard
         /\ ~IsSuppressible(e) /\ FireOne(e) => heard' = <<e>>
         /\ ~IsSuppressible(e) /\ ~IsSuppressible(f) /\ FireTwo(e, f) => heard' = <<e, f>>
<1>1. S!Append(<<>>, e) = <<e>> /\ <<e>> # <<>> /\ <<e, f>> # <<>>
  OBVIOUS
<1>2. S!Append(<<e>>, f) = <<e, f>>
  <2> PICK s, T : s = <<e>> /\ T = {e, f}
    OBVIOUS
  <2>1. s \in Q!Seq(T) /\ f \in T /\ Q!Len(s) = 1
    OBVIOUS
  <2>2. S!Append(s, f) = With(s, 2, f)
    <3>1. Q!Append(s, f) = With(s, Q!Len(s) + 1, f)
      BY <2>1, AppendIs
    <3> QED BY <2>1, <3>1
  <2>3. With(s, 2, f) = [k \in 1 .. 2 |-> IF k < 2 THEN <<e>>[k] ELSE f]
    BY <2>1 DEF With
  <2>4. \A k \in 1 .. 2 : (IF k < 2 THEN <<e>>[k] ELSE f) = <<e, f>>[k]
    OBVIOUS
  <2>5. <<e, f>> = [k \in 1 .. 2 |-> <<e, f>>[k]]
    OBVIOUS
  <2> QED BY <2>2, <2>3, <2>4, <2>5
<1> QED BY <1>1, <1>2 DEF FireOne, FireTwo, Fire, Pass

(* The names of the events.                                                *)
LEMMA Kinds ==
  ASSUME NEW count, NEW i
  PROVE  /\ \A k \in {"TaskDelay", "MovedTaskToDelayedList", "MovedTaskToOverflowDelayedList",
                      "MovedTaskToReadyState"} : ~IsSuppressible(Event(count, k, i))
         /\ \A k \in {"TaskIncrementTick", "LowPowerIdleBegin", "LowPowerIdleEnd"} :
              IsSuppressible(Event(count, k, i))
BY DEF IsSuppressible, Event

-----------------------------------------------------------------------------
(* A search knows its place through every step of the kernel.              *)

LEMMA PlacedStep ==
  ASSUME DelayInv, WalkPlaced, [DelaysNext]_delayVars
  PROVE  WalkPlaced'
<1>1. IInv /\ ListInv
  BY DEF DelayInv, IInv
<1>2. ASSUME NEW l \in ListSet, NEW i, NEW v, InsertSorted(l, i, v) PROVE WalkPlaced'
  <2>1. ~walk.on
    BY <1>2 DEF InsertSorted
  <2>2. CASE UNCHANGED walk
    BY <2>1, <2>2, WalkQuiet
  <2>3. CASE InsertInner(l, i, v, TRUE)
    BY <1>1, <2>1, <2>3, WalkStarts
  <2> QED BY <1>2, <2>2, <2>3 DEF InsertSorted
<1>3. ASSUME NEW i \in Items, NEW n \in 1 .. TickMax, Delay(i, n) PROVE WalkPlaced'
  <2> DEFINE list == IF OverflowsBy(tick, n) THEN Past ELSE current
  <2>1. list \in ListSet
    BY WakeTimePlaced, BothFit DEF DelayInv
  <2> PICK l, v : l = list /\ v = WrappingAdd(tick, n)
    OBVIOUS
  <2>2. l \in ListSet /\ InsertSorted(l, i, v)
    BY <1>3, <2>1 DEF Delay
  <2> QED BY <1>2, <2>2
<1>4. CASE Search
  <2>1. CASE WalkOn
    BY <1>1, <2>1, WalkGoesOn
  <2>2. CASE WalkStop
    BY <2>2 DEF WalkStop, WalkPlaced, NoWalk
  <2> QED BY <1>4, <2>1, <2>2 DEF Search
<1>5. ASSUME NEW i, Remove(i) PROVE WalkPlaced'
  BY <1>5, WalkQuiet DEF Remove
<1>6. CASE UNCHANGED vars
  BY <1>6 DEF WalkPlaced, vars, Chain, EndOf, ListSet
<1>7. ASSUME NEW i \in Items, Abort(i) PROVE WalkPlaced'
  BY <1>5, <1>7 DEF Abort
<1>8. CASE Wake
  BY <1>5, <1>8 DEF Wake
<1>9. CASE Tick \/ Settle
  BY <1>6, <1>9 DEF Tick, Settle, vars
<1>10. ASSUME NEW slept \in 0 .. TickMax + 1, Sleep(slept) PROVE WalkPlaced'
  BY <1>6, <1>10 DEF Sleep, vars
<1>11. CASE UNCHANGED delayVars
  BY <1>6, <1>11 DEF delayVars
<1> QED BY <1>3, <1>4, <1>7, <1>8, <1>9, <1>10, <1>11 DEF DelaysNext

-----------------------------------------------------------------------------
(* One step of the traced kernel after another.                            *)

(* A step that moves no link and takes no time from those in the queue.    *)
LEMMA QueueStutters ==
  ASSUME DelayInv, DelayInv', UNCHANGED <<next, len, current>>,
         \A j \in Items : container[j] # NO_LIST => left'[j] = left[j]
  PROVE  Waiters' = Waiters
<1>1. /\ QueueRead /\ QueueRead' /\ current \in ListSet /\ Past \in ListSet
  BY WaitersRead, WaitersReadAfter, SplitLists, BothFit DEF DelayInv, ClockTyped
<1>2. Total' = Total /\ \A k : Spot(k)' = Spot(k)
  BY DEF Total, Spot, Past, Chain, EndOf
<1>3. ASSUME NEW k \in 1 .. Total PROVE left'[Spot(k)] = left[Spot(k)]
  <2>1. k \in 1 .. len[current] \/ k \in len[current] + 1 .. Total
    BY <1>1 DEF QueueRead
  <2>2. Spot(k) \in Members(current) \cup Members(Past)
    BY <1>1, <2>1 DEF QueueRead
  <2>3. NO_LIST \notin ListSet
    BY Geometry
  <2> QED BY <1>1, <2>2, <2>3 DEF Members
<1> QED BY <1>2, <1>3, SameQueue

(* A delay that finds its place at the tail, where the search would end.   *)
LEMMA TailBelongs ==
  ASSUME ListInv, NEW l \in ListSet, InOrder(l), NEW v \in 0 .. MaxValue, v >= TailValue(l)
  PROVE  Belongs(l, len[l], v)
<1>1. \A s \in Members(l) : value[s] <= TailValue(l) /\ value[s] \in Int
  <2>1. \A s \in Members(l) : value[s] <= TailValue(l)
    BY HeadLeastInv DEF HeadIsLeast
  <2>2. \A s \in Members(l) : value[s] \in Int
    <3>1. value \in [Slots -> 0 .. MaxValue] /\ Items \subseteq Slots /\ 0 .. MaxValue \subseteq Int
      BY Geometry DEF ListInv, Typed
    <3> QED BY <3>1 DEF Members
  <2> QED BY <2>1, <2>2
<1>2. TailValue(l) \in Int /\ v \in Int
  <2>1. prev[EndOf(l)] \in Ring(l) /\ At(EndOf(l)) = EndOf(l)
    BY RingShape, RingFacts DEF Doubly
  <2>2. At(prev[EndOf(l)]) = prev[EndOf(l)] /\ value[prev[EndOf(l)]] \in Int
    BY <2>1, RingShape
  <2> QED BY <2>1, <2>2 DEF TailValue
<1>3. \A k \in 1 .. len[l] : Chain(l)[k] \in Members(l)
  BY ListsSpelled DEF Spelled
<1>4. \A k \in 1 .. len[l] : value[Chain(l)[k]] <= v
  BY <1>1, <1>2, <1>3
<1> QED BY <1>4 DEF Belongs

(* The two events of a delay, and who is on which list after it.           *)
LEMMA EventsOfDelay ==
  ASSUME ListInv, NEW l \in ListSet, NEW i \in Items, container[i] = NO_LIST,
         container' = [container EXCEPT ![i] = l], TracedDelay
  PROVE  heard' = << Event(tick, "TaskDelay", i),
                     Event(tick, IF l = current THEN "MovedTaskToDelayedList"
                                 ELSE "MovedTaskToOverflowDelayedList", i) >>
<1> DEFINE entered == {j \in Items : container[j] = NO_LIST /\ container'[j] # NO_LIST}
<1>1. container'[i] = l /\ l # NO_LIST /\ \A j \in Items : j # i => container'[j] = container[j]
  <2>1. container \in [Slots -> ListSet \cup {NO_LIST}] /\ Items \subseteq Slots /\ NO_LIST \notin ListSet
    BY Geometry DEF ListInv, Typed
  <2> QED BY <2>1
<1>2. entered = {i}
  BY <1>1
<1> PICK k : k = IF l = current THEN "MovedTaskToDelayedList" ELSE "MovedTaskToOverflowDelayedList"
  OBVIOUS
<1>3. FireTwo(Event(tick, "TaskDelay", i), Event(tick, k, i))
  BY <1>1, <1>2 DEF TracedDelay
<1>4. ~IsSuppressible(Event(tick, "TaskDelay", i)) /\ ~IsSuppressible(Event(tick, k, i))
  BY Kinds
<1>5. heard' = << Event(tick, "TaskDelay", i), Event(tick, k, i) >>
  BY <1>3, <1>4, FireFacts
<1> QED BY <1>5

(* A call that puts nobody on a list fires nothing.                        *)
LEMMA NoEvent ==
  ASSUME UNCHANGED container, TracedDelay PROVE UNCHANGED heard
BY DEF TracedDelay

(* A delay is one of the schedule when it needs no search, and otherwise   *)
(* nothing is seen of it yet.                                              *)
LEMMA DelayMaps ==
  ASSUME DelayInv, DelayInv', TracedDelay, NEW i \in Items, NEW n \in 1 .. TickMax, Delay(i, n)
  PROVE  Plan!Next \/ UNCHANGED Plan!vars
<1> PICK l, v : l = (IF OverflowsBy(tick, n) THEN Past ELSE current) /\ v = WrappingAdd(tick, n)
  OBVIOUS
<1>1. l \in Both /\ Away(l, v, n)
  BY WakeTimePlaced DEF DelayInv
<1>2. /\ phase = "tasks" /\ container[i] = NO_LIST /\ InsertSorted(l, i, v)
      /\ left' = [left EXCEPT ![i] = n] /\ UNCHANGED <<tick, current, phase>>
  BY DEF Delay, Calm
<1>3. /\ ListInv /\ l \in ListSet /\ InOrder(l) /\ v \in 0 .. MaxValue /\ left \in [Items -> Int]
  BY <1>1, BothFit DEF DelayInv, IInv, AllAwaited, Away, ClockTyped
<1>4. left'[i] = n /\ \A j \in Items : j # i => left'[j] = left[j]
  BY <1>2, <1>3
<1>5. /\ len[l] \in 0 .. len[l] /\ next[Chain(l)[len[l]]] = EndOf(l)
      /\ prev[At(EndOf(l))] = Chain(l)[len[l]] /\ TailValue(l) = value[At(prev[At(EndOf(l))])]
  BY <1>3, TailPlace DEF TailValue
<1>6. ASSUME Belongs(l, len[l], v),
             LinkBetween(l, i, prev[At(EndOf(l))], EndOf(l), TRUE, v)
      PROVE  Plan!Next
  <2>1. LinkBetween(l, i, Chain(l)[len[l]], next[Chain(l)[len[l]]], TRUE, v)
    BY <1>5, <1>6
  <2>2. container' = [container EXCEPT ![i] = l]
    BY <1>2, <1>6 DEF LinkBetween
  <2>3. heard' = << Event(tick, "TaskDelay", i),
                    Event(tick, IF l = current THEN "MovedTaskToDelayedList"
                                ELSE "MovedTaskToOverflowDelayedList", i) >>
    BY <1>2, <1>3, <2>2, EventsOfDelay
  <2> PICK b \in 0 .. len[l] : b = len[l]
    BY <1>5
  <2>4. Belongs(l, b, v) /\ LinkBetween(l, i, Chain(l)[b], next[Chain(l)[b]], TRUE, v)
    BY <1>6, <2>1
  <2>5. Plan!Delay(i, n)
    BY <1>1, <1>2, <1>4, <2>3, <2>4, LinkDelays
  <2> QED BY <2>5 DEF Plan!Next
<1>7. CASE /\ v >= TailValue(l)
           /\ LinkBetween(l, i, prev[At(EndOf(l))], EndOf(l), TRUE, v)
  BY <1>3, <1>6, <1>7, TailBelongs
<1>8. CASE InsertInner(l, i, v, TRUE)
  <2>1. CASE v = MaxValue
    <3>1. LinkBetween(l, i, prev[At(EndOf(l))], EndOf(l), TRUE, v)
      BY <1>8, <2>1 DEF InsertInner
    <3>2. v >= TailValue(l)
      <4>1. /\ prev[EndOf(l)] \in Ring(l) /\ At(EndOf(l)) = EndOf(l)
            /\ At(prev[EndOf(l)]) = prev[EndOf(l)]
        BY <1>3, RingShape, RingFacts DEF Doubly
      <4>2. TailValue(l) \in 0 .. MaxValue
        BY <1>3, <4>1, RingShape DEF TailValue
      <4> QED BY <1>3, <2>1, <4>2, Geometry
    <3> QED BY <1>3, <1>6, <3>1, <3>2, TailBelongs
  <2>2. CASE v # MaxValue
    <3>1. UNCHANGED <<nodes, meta>>
      BY <1>8, <2>2 DEF InsertInner
    <3>2. UNCHANGED <<next, len, container>>
      BY <3>1 DEF nodes, meta
    <3>3. \A j \in Items : container[j] # NO_LIST => left'[j] = left[j]
      BY <1>2, <1>4
    <3>4. Waiters' = Waiters
      BY <1>2, <3>2, <3>3, QueueStutters
    <3>5. UNCHANGED heard
      BY <3>2, NoEvent
    <3> QED BY <1>2, <3>4, <3>5 DEF Plan!vars
  <2> QED BY <2>1, <2>2
<1> QED BY <1>2, <1>3, <1>5, <1>7, <1>8 DEF InsertSorted

(* Where a search stops, the delay it is part of is one of the schedule.   *)
LEMMA SearchMaps ==
  ASSUME DelayInv, DelayInv', WalkPlaced, TracedDelay, Search
  PROVE  Plan!Next \/ UNCHANGED Plan!vars
<1>1. UNCHANGED <<tick, current, phase, left>> /\ IInv /\ ListInv
  BY DEF Search, DelayInv, IInv
<1>2. CASE WalkOn
  <2>1. UNCHANGED <<nodes, meta>>
    BY <1>1, <1>2, WalkGoesOn
  <2>2. UNCHANGED <<next, len, container>>
    BY <2>1 DEF nodes, meta
  <2>3. Waiters' = Waiters
    BY <1>1, <2>2, QueueStutters
  <2>4. UNCHANGED heard
    BY <2>2, NoEvent
  <2> QED BY <1>1, <2>3, <2>4 DEF Plan!vars
<1>3. CASE WalkStop
  <2> PICK i, v, n : i = walk.item /\ v = walk.value /\ n = left[i]
    OBVIOUS
  <2>1. walk.on
    BY <1>3 DEF WalkStop
  <2>2. /\ phase = "tasks" /\ walk.write = TRUE /\ i \in Items /\ container[i] = NO_LIST
        /\ walk.list \in Both /\ Away(walk.list, v, n) /\ n > 0
    BY <1>1, <2>1, SearchFields DEF DelayInv, SearchAwaits, IInv
  <2>3. n \in 1 .. TickMax
    BY <2>2, Widths DEF Away, Counts
  <2>4. PICK l \in ListSet : \E b \in 0 .. len[l] :
           /\ l = walk.list /\ Belongs(l, b, walk.value)
           /\ LinkBetween(l, walk.item, Chain(l)[b], next[Chain(l)[b]], walk.write, walk.value)
    BY <1>1, <1>3, WalkEnds
  <2>5. PICK b \in 0 .. len[l] :
           /\ l = walk.list /\ Belongs(l, b, walk.value)
           /\ LinkBetween(l, walk.item, Chain(l)[b], next[Chain(l)[b]], walk.write, walk.value)
    BY <2>4
  <2>6. /\ l \in Both /\ Away(l, v, n) /\ Belongs(l, b, v)
        /\ LinkBetween(l, i, Chain(l)[b], next[Chain(l)[b]], TRUE, v)
    BY <2>2, <2>5
  <2>7. container' = [container EXCEPT ![i] = l]
    BY <2>2, <2>6 DEF LinkBetween
  <2>8. heard' = << Event(tick, "TaskDelay", i),
                    Event(tick, IF l = current THEN "MovedTaskToDelayedList"
                                ELSE "MovedTaskToOverflowDelayedList", i) >>
    BY <1>1, <2>2, <2>7, EventsOfDelay
  <2>9. Plan!Delay(i, n)
    BY <1>1, <2>2, <2>3, <2>6, <2>8, LinkDelays
  <2> QED BY <2>2, <2>3, <2>9 DEF Plan!Next
<1> QED BY <1>2, <1>3 DEF Search

(* A delay that is aborted leaves the queue.                               *)
LEMMA AbortMaps ==
  ASSUME DelayInv, DelayInv', TracedAbort PROVE Plan!Next
<1> PICK i \in Items : Abort(i) /\ FireOne(Event(tick, "MovedTaskToReadyState", i))
  BY DEF TracedAbort
<1>1. /\ phase = "tasks" /\ i \in Waiting /\ Remove(i) /\ left' = [left EXCEPT ![i] = 0]
      /\ UNCHANGED <<tick, current, phase>> /\ left \in [Items -> Int]
  BY DEF Abort, Calm, DelayInv, ClockTyped
<1>2. heard' = << Event(tick, "MovedTaskToReadyState", i) >>
  BY Kinds, FireFacts
<1>3. \A j \in Items : j # i => left'[j] = left[j]
  BY <1>1
<1> PICK l \in Both : i \in Members(l)
  BY <1>1 DEF Waiting, Both
<1> PICK p : p = Behind(l, PlaceOf(l, i))
  OBVIOUS
<1>4. p \in DOMAIN Waiters /\ Plan!Leave(p)
  BY <1>1, <1>2, <1>3, RemoveLeaves
<1>5. Plan!NobodyDue
  BY <1>1, QueueNotDue
<1> QED BY <1>4, <1>5 DEF Plan!Next, Plan!Abort

(* Who is woken is the first of the queue and has nothing left.            *)
LEMMA WakeMaps ==
  ASSUME DelayInv, DelayInv', TracedWake PROVE Plan!Next
<1> PICK l, i : l = current /\ i = Head(current).answer
  OBVIOUS
<1>1. /\ Wake /\ FireOne(Event(tick, "MovedTaskToReadyState", i))
      /\ Remove(i) /\ UNCHANGED <<tick, current, phase, left>>
  BY DEF TracedWake, Wake
<1>2. i \in Members(l) /\ left[i] = 0
  BY <1>1, WakeOnTime
<1>3. l \in Both /\ l \in ListSet /\ ListInv
  BY BothFit DEF DelayInv, IInv, ClockTyped
<1>4. heard' = << Event(tick, "MovedTaskToReadyState", i) >>
  BY <1>1, Kinds, FireFacts
<1>5. Behind(l, PlaceOf(l, i)) = 1
  <2>1. len[l] \in Nat /\ len[l] # 0
    BY <1>2, <1>3, OrderRead, ListsSpelled DEF Spelled
  <2>2. i = next[EndOf(l)]
    <3>1. Head(l) = Ok(next[EndOf(l)])
      BY <1>3, <2>1, HeadOfMembers
    <3> QED BY <3>1 DEF Ok
  <2>3. Chain(l)[1] = i
    <3>1. Chain(l)[0] = EndOf(l) /\ \A k \in 0 .. N - 1 : Chain(l)[k + 1] = next[Chain(l)[k]]
      BY <1>3, ListsSpelled DEF Spelled
    <3>2. 0 \in 0 .. N - 1 /\ 0 + 1 = 1
      BY Geometry
    <3>3. Chain(l)[0 + 1] = next[Chain(l)[0]]
      BY <3>1, <3>2
    <3> QED BY <2>2, <3>1, <3>2, <3>3
  <2>4. 1 \in 0 .. len[l]
    BY <2>1
  <2>5. PlaceOf(l, Chain(l)[1]) = 1
    BY <1>3, <2>4, Places
  <2> QED BY <2>3, <2>5 DEF Behind
<1> PICK p : p = Behind(l, PlaceOf(l, i))
  OBVIOUS
<1>6. p \in DOMAIN Waiters /\ Waiters[p] = Entry(i) /\ Plan!Leave(p)
  BY <1>1, <1>2, <1>3, <1>4, RemoveLeaves
<1>7. Waiters \in Q!Seq(Entries)
  BY WaitersRead DEF QueueRead
<1>8. Waiters # <<>> /\ Q!Head(Waiters).left = 0
  <2>1. Q!Len(Waiters) >= 1 /\ Waiters[1].left = 0
    BY <1>2, <1>5, <1>6, <1>7 DEF Entry
  <2> QED BY <1>7, <2>1
<1> QED BY <1>5, <1>6, <1>8 DEF Plan!Next, Plan!Wake

(* A tick is a step of time, which the sink does not hear.                 *)
LEMMA TickMaps ==
  ASSUME DelayInv, DelayInv', TracedTick PROVE Plan!Next
<1>1. /\ phase # "waking" /\ tick' = WrappingAdd(tick, 1) /\ Elapse(1) /\ UNCHANGED vars
      /\ current' = IF tick' = 0 THEN Past ELSE current
      /\ FireOne(Event(tick, "TaskIncrementTick", Nobody))
  BY DEF TracedTick, Tick
<1>2. UNCHANGED heard
  BY <1>1, Kinds, FireFacts
<1>3. /\ 1 \in Nat /\ 1 \in Counts /\ 1 \in 1 .. TickMax /\ tick \in Counts /\ tick \in Nat
      /\ TickMax \in Nat \ {0}
  BY Widths DEF DelayInv, ClockTyped, Counts
<1>4. UNCHANGED current \/ (current' = Past /\ len[current] = 0)
  <2>1. CASE tick' # 0
    BY <1>1, <2>1
  <2>2. CASE tick' = 0
    <3>1. tick = TickMax
      BY <1>1, <1>3, <2>2, AddFacts DEF Counts
    <3>2. Members(current) = {}
      BY <1>1, <3>1, SomeLeft
    <3>3. len[current] = 0
      <4> PICK l \in ListSet : l = current
        BY BothFit DEF DelayInv, ClockTyped
      <4>1. ListInv /\ Members(l) = {}
        BY <3>2 DEF DelayInv, IInv
      <4>2. len[l] \in Nat /\ \A k \in 1 .. len[l] : Chain(l)[k] \in Members(l)
        BY <4>1, OrderRead, ListsSpelled DEF Spelled
      <4>3. len[l] = 0
        <5>1. SUFFICES ASSUME len[l] # 0 PROVE FALSE
          OBVIOUS
        <5>2. 1 \in 1 .. len[l]
          BY <4>2, <5>1
        <5> QED BY <4>1, <4>2, <5>2
      <4> QED BY <4>3
    <3> QED BY <1>1, <2>2, <3>3
  <2> QED BY <2>1, <2>2
<1>5. \A l \in Both : \A m \in Members(l) : left[m] >= 1
  BY <1>1, SomeLeft
<1>6. Plan!Elapse(1)
  BY <1>1, <1>2, <1>3, <1>4, <1>5, TimeElapses
<1> QED BY <1>3, <1>6 DEF Plan!Next

(* A sleep is one step of time over the ticks it takes, and they stop      *)
(* short of every wake time; one that takes none is nothing to the queue.  *)
LEMMA SleepMaps ==
  ASSUME DelayInv, DelayInv', TracedSleep
  PROVE  Plan!Next \/ UNCHANGED Plan!vars
<1> PICK slept \in 0 .. TickMax + 1 :
      /\ Sleep(slept)
      /\ FireTwo(Event(tick, "LowPowerIdleBegin", Nobody),
                 Event(tick', "LowPowerIdleEnd", Nobody))
  BY DEF TracedSleep
<1> PICK idle, n : /\ idle = ExpectedIdle
                   /\ n = IF Wound(slept) = ExpectedIdle THEN Wound(slept) - 1 ELSE Wound(slept)
  OBVIOUS
<1>1. /\ phase = "tasks" /\ ~walk.on /\ idle >= IdleFloor
      /\ tick' = WrappingAdd(tick, n) /\ Elapse(n) /\ UNCHANGED <<vars, current>>
  BY DEF Sleep, Calm
<1>2. UNCHANGED heard
  <2> PICK later : later = tick'
    OBVIOUS
  <2>1. FireTwo(Event(tick, "LowPowerIdleBegin", Nobody), Event(later, "LowPowerIdleEnd", Nobody))
    OBVIOUS
  <2>2. /\ IsSuppressible(Event(tick, "LowPowerIdleBegin", Nobody))
        /\ IsSuppressible(Event(later, "LowPowerIdleEnd", Nobody))
    BY Kinds
  <2> QED BY <2>1, <2>2, FireFacts
<1>3. /\ tick \in Counts /\ tick \in Nat /\ TickMax \in Nat /\ current \in Both
      /\ HeadValue(current) \in Nat /\ ClockTyped
  BY Widths, HeadFirst DEF DelayInv, ClockTyped, Counts
<1>4. idle \in Int /\ tick + idle <= TickMax /\ tick + idle <= HeadValue(current)
  BY <1>3 DEF ExpectedIdle
<1>5. n \in Nat /\ n < idle
  <2>1. idle > 0
    BY <1>1, <1>4, DelaysFit
  <2>2. Wound(slept) \in Nat /\ Wound(slept) <= idle
    BY <1>3, <1>4, <2>1 DEF Wound
  <2> PICK w : w = Wound(slept)
    OBVIOUS
  <2>3. n = (IF w = idle THEN w - 1 ELSE w) /\ w \in Nat /\ w <= idle
    BY <2>2
  <2> QED BY <1>4, <2>1, <2>3
<1>6. n \in Counts /\ tick + n <= TickMax /\ tick' = tick + n
  <2>1. n \in Counts /\ tick + n <= TickMax
    BY <1>3, <1>4, <1>5 DEF Counts
  <2> QED BY <1>1, <1>3, <2>1, AddFacts
<1>7. ASSUME NEW l \in Both, NEW m \in Members(l) PROVE left[m] >= n /\ left[m] \in Nat
  <2>1. left[m] \in Nat /\ left[m] > 0
    BY <1>1, SomeLeft
  <2>2. CASE l = current
    <3>1. HeadValue(current) <= value[m]
      BY <2>2, HeadFirst
    <3>2. value[m] = tick + left[m]
      BY <1>3, <2>2 DEF DelayInv, AllAwaited, Awaited, Away
    <3> QED BY <1>3, <1>4, <1>5, <2>1, <3>1, <3>2
  <2>3. CASE l # current
    <3>1. value[m] \in Nat /\ value[m] + TickMax + 1 = tick + left[m]
      BY <1>3, <2>3 DEF DelayInv, AllAwaited, Awaited, Away, Counts
    <3> QED BY <1>3, <1>5, <1>6, <2>1, <3>1
  <2> QED BY <2>2, <2>3
<1>8. CASE n = 0
  <2>1. UNCHANGED <<next, len, container, tick>>
    BY <1>1, <1>3, <1>6, <1>8 DEF vars
  <2>2. ASSUME NEW j \in Items, container[j] # NO_LIST PROVE left'[j] = left[j]
    <3>1. left \in [Items -> Int]
      BY <1>3 DEF ClockTyped
    <3>2. CASE j \in Waiting
      <4> PICK l \in Both : j \in Members(l)
        BY <3>2 DEF Waiting, Both
      <4>1. left[j] \in Nat /\ left[j] - n >= 0
        BY <1>7, <1>8
      <4> QED BY <1>1, <1>3, <1>5, <1>8, <4>1, ElapseFacts
    <3>3. CASE j \notin Waiting
      BY <1>1, <3>3 DEF Elapse
    <3> QED BY <3>2, <3>3
  <2>3. Waiters' = Waiters
    BY <1>1, <2>1, <2>2, QueueStutters
  <2> QED BY <1>2, <2>1, <2>3 DEF Plan!vars
<1>9. CASE n # 0
  <2>1. n \in 1 .. TickMax
    <3>1. \A k \in Counts : k # 0 => k \in 1 .. TickMax
      BY Widths DEF Counts
    <3> QED BY <1>6, <1>9, <3>1
  <2>2. Plan!Elapse(n)
    BY <1>1, <1>2, <1>5, <1>6, <1>7, TimeElapses
  <2> QED BY <2>1, <2>2 DEF Plan!Next
<1> QED BY <1>8, <1>9

(* Everything else moves no link and takes no time.                        *)
LEMMA RestMaps ==
  ASSUME DelayInv, DelayInv',
         UNCHANGED <<vars, tick, current, left, heard>>
  PROVE  UNCHANGED Plan!vars
<1>1. UNCHANGED <<next, len>>
  BY DEF vars
<1>2. Waiters' = Waiters
  BY <1>1, QueueStutters
<1> QED BY <1>2 DEF Plan!vars

(* The kernel starts with nobody waiting.                                  *)
LEMMA StartMaps == TicklessInit => Plan!Init
<1> SUFFICES ASSUME TicklessInit PROVE Plan!Init
  OBVIOUS
<1>1. DelaysInit /\ heard = <<>>
  BY DEF TicklessInit
<1>2. tick \in 0 .. TickMax /\ len[current] = 0 /\ len[Past] = 0
  <2>1. Init /\ tick \in Counts /\ current = 0 /\ 0 \in ListSet /\ 1 \in ListSet
    BY <1>1, BothFit DEF DelaysInit, Both
  <2>2. len[0] = 0 /\ len[1] = 0
    BY <2>1 DEF Init
  <2> QED BY <2>1, <2>2 DEF Counts, Past
<1>3. Waiters = <<>>
  <2>1. Waiters = [k \in 1 .. 0 |-> IF k <= len[current] THEN Waiter(current, k)
                                    ELSE Waiter(Past, k - len[current])]
    BY <1>2 DEF Waiters
  <2> QED BY <2>1
<1> QED BY <1>1, <1>2, <1>3 DEF Plan!Init

-----------------------------------------------------------------------------
(* The invariant of the traced kernel: the kernel's, and every search      *)
(* knows its place.                                                        *)
PlanInv == DelayInv /\ WalkPlaced

LEMMA PlanInitInv == TicklessInit => PlanInv
<1> SUFFICES ASSUME TicklessInit PROVE PlanInv
  OBVIOUS
<1>1. DelaysInit
  BY DEF TicklessInit
<1>2. WalkPlaced
  BY <1>1, InitIInv DEF DelaysInit, Init, WalkPlaced, NoWalk
<1> QED BY <1>1, <1>2, DelaysInitInv DEF PlanInv

(* The trace takes no part in what the kernel does.                        *)
LEMMA TraceLooksOn == [TicklessNext]_ticklessVars => [DelaysNext]_delayVars
<1>1. TracedDelay => DelaysNext
  BY DEF TracedDelay, DelaysNext
<1>2. TracedAbort => DelaysNext
  BY DEF TracedAbort, DelaysNext
<1>3. TracedWake \/ TracedTick \/ Settle => DelaysNext
  BY DEF TracedWake, TracedTick, DelaysNext
<1>4. TracedSleep => DelaysNext
  BY DEF TracedSleep, DelaysNext
<1> QED BY <1>1, <1>2, <1>3, <1>4 DEF TicklessNext, ticklessVars

LEMMA PlanStepInv == PlanInv /\ [TicklessNext]_ticklessVars => PlanInv'
BY TraceLooksOn, DelaysStepInv, PlacedStep DEF PlanInv

LEMMA PlanInductive == TicklessSpec => []PlanInv
BY PlanInitInv, PlanStepInv, PTL DEF TicklessSpec

(* Every step of the traced kernel is one of the schedule, or none.        *)
LEMMA TraceMaps ==
  PlanInv /\ PlanInv' /\ [TicklessNext]_ticklessVars => [Plan!Next]_(Plan!vars)
<1> SUFFICES ASSUME PlanInv, PlanInv', [TicklessNext]_ticklessVars
             PROVE  Plan!Next \/ UNCHANGED Plan!vars
  OBVIOUS
<1>1. DelayInv /\ DelayInv' /\ WalkPlaced
  BY DEF PlanInv
<1>2. CASE TracedDelay
  <2>1. CASE Search
    BY <1>1, <1>2, <2>1, SearchMaps
  <2>2. ASSUME NEW i \in Items, NEW n \in 1 .. TickMax, Delay(i, n)
        PROVE  Plan!Next \/ UNCHANGED Plan!vars
    BY <1>1, <1>2, <2>2, DelayMaps
  <2> QED BY <1>2, <2>1, <2>2 DEF TracedDelay
<1>3. CASE TracedAbort
  BY <1>1, <1>3, AbortMaps
<1>4. CASE TracedWake
  BY <1>1, <1>4, WakeMaps
<1>5. CASE TracedTick
  BY <1>1, <1>5, TickMaps
<1>6. CASE TracedSleep
  BY <1>1, <1>6, SleepMaps
<1>7. CASE Settle /\ UNCHANGED heard
  BY <1>1, <1>7, RestMaps DEF Settle
<1>8. CASE UNCHANGED ticklessVars
  BY <1>1, <1>8, RestMaps DEF ticklessVars, delayVars
<1> QED BY <1>2, <1>3, <1>4, <1>5, <1>6, <1>7, <1>8 DEF TicklessNext

(* What the sink of a kernel that sleeps through its ticks hears is a      *)
(* schedule, for every width of the count and every number of tasks: "a    *)
(* run that slept through its ticks and a run that did not project to the  *)
(* SAME thing" (trace.rs:486-487). Nobody is woken out of the order of the *)
(* wake times or at another count, across the wrap, the swap of the lists, *)
(* the searches and the aborts.                                            *)
THEOREM ScheduleImplemented == TicklessSpec => ImplementsSchedule
<1>1. TicklessInit => Plan!Init
  BY StartMaps
<1>2. PlanInv /\ PlanInv' /\ [TicklessNext]_ticklessVars => [Plan!Next]_(Plan!vars)
  BY TraceMaps
<1> QED BY <1>1, <1>2, PlanInductive, PTL DEF TicklessSpec, ImplementsSchedule, Plan!Spec
=============================================================================
