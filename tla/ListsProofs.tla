----------------------------- MODULE ListsProofs -----------------------------
(* Proofs about Lists, for every number of slots, lists, values and calls. *)
EXTENDS Lists, FiniteSetTheorems, TLAPS

-----------------------------------------------------------------------------
(* The numbering of the slots.                                             *)

(* The numbers of a configuration: items first, markers after them, the    *)
(* sentinels outside both.                                                 *)
LEMMA Geometry ==
  /\ N \in Nat /\ L \in Nat /\ L > 0 /\ CAPACITY \in Nat /\ CAPACITY > 0 /\ N = CAPACITY + L
  /\ N <= 32768
  /\ NONE = 65535 /\ NONE \notin Slots /\ NO_LIST \notin ListSet
  /\ Items \subseteq Slots
  /\ 0 .. CAPACITY \subseteq U16 /\ Slots \subseteq U16
  /\ MaxValue \in Nat
<1>1. N \in Nat /\ N <= 32768 /\ L \in Nat /\ 0 < L /\ L < N /\ L <= 255 /\ MaxValue \in Nat
  BY SizesFit, CallsFit
<1>2. CAPACITY \in Nat /\ CAPACITY > 0 /\ N = CAPACITY + L /\ Items \subseteq Slots
  BY <1>1 DEF CAPACITY, Slots, Items
<1>3. NONE = 65535 /\ NONE \in Nat /\ N < NONE /\ NO_LIST \notin ListSet
  BY <1>1 DEF NONE, NO_LIST, ListSet
<1>4. NONE \notin Slots /\ 0 .. CAPACITY \subseteq U16 /\ Slots \subseteq U16
  <2>1. NONE \in Nat /\ N < NONE /\ CAPACITY <= N
    BY <1>1, <1>2, <1>3
  <2>2. QED BY <2>1, <1>1, <1>2 DEF Slots, U16
<1>5. QED BY <1>1, <1>2, <1>3, <1>4

(* A marker is a slot past the items, one per list, and no other slot      *)
(* passes for one.                                                         *)
LEMMA Ends ==
  /\ \A l \in ListSet : EndOf(l) \in Slots \ Items /\ IsEnd(EndOf(l))
  /\ \A l, k \in ListSet : EndOf(l) = EndOf(k) => l = k
  /\ \A s \in Slots : IsEnd(s) <=> s \notin Items
BY Geometry DEF EndOf, IsEnd, Slots, Items, ListSet

(* Masking a link that is a slot changes nothing.                          *)
LEMMA AtSlot == \A s \in Slots : At(s) = s
BY DEF At

-----------------------------------------------------------------------------
(* Rings. Linking and skipping an item keep a ring a ring, and do nothing  *)
(* to a ring that does not hold the slots they write.                      *)

(* A part of a ring that next does not leave is all of it.                 *)
LEMMA OneCycleApply ==
  ASSUME NEW nx, NEW R, OneCycle(nx, R), NEW S, S \subseteq R, S # {},
         \A s \in S : nx[s] \in S
  PROVE  S = R
BY DEF OneCycle

(* Linking an outside slot between two neighbours of a ring makes a ring   *)
(* with that slot in it.                                                   *)
LEMMA LinkRing ==
  ASSUME NEW R, R \subseteq Slots,
         NEW nx \in [Slots -> Slots \cup {NONE}], NEW pv \in [Slots -> Slots \cup {NONE}],
         Doubly(nx, pv, R), OneCycle(nx, R),
         NEW i \in Slots, i \notin R, NEW b \in R, NEW a, nx[b] = a
  PROVE  /\ Doubly(LinkNext(nx, i, b, a), LinkPrev(pv, i, b, a), R \cup {i})
         /\ OneCycle(LinkNext(nx, i, b, a), R \cup {i})
<1> DEFINE nx2 == LinkNext(nx, i, b, a)
           pv2 == LinkPrev(pv, i, b, a)
<1>1. a \in R /\ pv[a] = b /\ At(a) = a /\ At(b) = b /\ a # i /\ b # i
  BY AtSlot DEF Doubly
<1>2. /\ nx2[i] = a /\ nx2[b] = i
      /\ \A s \in R : s # b => nx2[s] = nx[s]
      /\ pv2[i] = b /\ pv2[a] = i
      /\ \A s \in R : s # a => pv2[s] = pv[s]
  BY <1>1 DEF LinkNext, LinkPrev
<1>3. Doubly(nx2, pv2, R \cup {i})
  <2>1. ASSUME NEW s \in R
        PROVE  /\ nx2[s] \in R \cup {i} /\ pv2[nx2[s]] = s
               /\ pv2[s] \in R \cup {i} /\ nx2[pv2[s]] = s
    BY <1>1, <1>2 DEF Doubly
  <2> HIDE DEF nx2, pv2
  <2>2. QED BY <2>1, <1>1, <1>2 DEF Doubly
<1>4. OneCycle(nx2, R \cup {i})
  <2> HIDE DEF nx2, pv2
  <2> SUFFICES ASSUME NEW S \in SUBSET (R \cup {i}), S # {}, \A s \in S : nx2[s] \in S
               PROVE  S = R \cup {i}
    BY DEF OneCycle
  <2> DEFINE T == S \ {i}
  <2>1. T # {}
    BY <1>1, <1>2
  <2>2. \A s \in T : nx[s] \in T
    <3> SUFFICES ASSUME NEW s \in T PROVE nx[s] \in T
      OBVIOUS
    <3>1. nx[s] \in R BY DEF Doubly
    <3>2. CASE s = b BY <3>2, <1>1, <1>2
    <3>3. CASE s # b BY <3>1, <3>3, <1>2
    <3>4. QED BY <3>2, <3>3
  <2>3. T = R
    BY <2>1, <2>2, OneCycleApply
  <2>4. i \in S
    BY <2>3, <1>2
  <2>5. QED BY <2>3, <2>4
<1>5. QED BY <1>3, <1>4

(* Skipping a slot of a ring makes a ring of the others.                   *)
LEMMA SkipRing ==
  ASSUME NEW R, R \subseteq Slots,
         NEW nx \in [Slots -> Slots \cup {NONE}], NEW pv \in [Slots -> Slots \cup {NONE}],
         Doubly(nx, pv, R), OneCycle(nx, R),
         NEW i \in R, NEW e \in R, e # i
  PROVE  /\ nx[i] \in R \ {i} /\ pv[i] \in R \ {i}
         /\ Doubly(SkipNext(nx, pv, i), SkipPrev(nx, pv, i), R \ {i})
         /\ OneCycle(SkipNext(nx, pv, i), R \ {i})
<1> DEFINE nx2 == SkipNext(nx, pv, i)
           pv2 == SkipPrev(nx, pv, i)
           p == pv[i]
           n == nx[i]
<1>1. nx[i] # i
  <2> SUFFICES ASSUME nx[i] = i PROVE FALSE
    OBVIOUS
  <2>1. {i} = R
    <3> DEFINE S == {i}
    <3>1. S \subseteq R /\ S # {} /\ \A s \in S : nx[s] \in S
      OBVIOUS
    <3>2. S = R
      BY <3>1, OneCycleApply
    <3>3. QED BY <3>2
  <2>2. QED BY <2>1
<1>2. /\ n \in R /\ p \in R /\ n # i /\ p # i /\ nx[p] = i /\ pv[n] = i
      /\ At(n) = n /\ At(p) = p
  BY <1>1, AtSlot DEF Doubly
<1>3. /\ nx2[p] = n /\ \A s \in R : s # p => nx2[s] = nx[s]
      /\ pv2[n] = p /\ \A s \in R : s # n => pv2[s] = pv[s]
  BY <1>2 DEF SkipNext, SkipPrev
<1>4. Doubly(nx2, pv2, R \ {i})
  <2>1. ASSUME NEW s \in R \ {i}
        PROVE  /\ nx2[s] \in R \ {i} /\ pv2[nx2[s]] = s
               /\ pv2[s] \in R \ {i} /\ nx2[pv2[s]] = s
    <3>0. /\ nx[s] \in R /\ pv[nx[s]] = s /\ pv[s] \in R /\ nx[pv[s]] = s
          /\ pv[i] = p /\ nx[i] = n
      BY DEF Doubly
    <3> HIDE DEF nx2, pv2, p, n
    <3>1. nx2[s] \in R \ {i} /\ pv2[nx2[s]] = s
      <4>1. CASE s = p BY <4>1, <1>2, <1>3
      <4>2. CASE s # p BY <4>2, <1>2, <1>3, <3>0
      <4>3. QED BY <4>1, <4>2
    <3>2. pv2[s] \in R \ {i} /\ nx2[pv2[s]] = s
      <4>1. CASE s = n BY <4>1, <1>2, <1>3
      <4>2. CASE s # n BY <4>2, <1>2, <1>3, <3>0
      <4>3. QED BY <4>1, <4>2
    <3>3. QED BY <3>1, <3>2
  <2> HIDE DEF nx2, pv2
  <2>2. QED BY <2>1 DEF Doubly
<1>5. OneCycle(nx2, R \ {i})
  <2> HIDE DEF nx2, pv2
  <2> SUFFICES ASSUME NEW S \in SUBSET (R \ {i}), S # {}, \A s \in S : nx2[s] \in S
               PROVE  S = R \ {i}
    BY DEF OneCycle
  <2> DEFINE T == IF p \in S THEN S \cup {i} ELSE S
  <2>1. T \subseteq R /\ T # {}
    OBVIOUS
  <2>2. \A s \in T : nx[s] \in T
    <3> SUFFICES ASSUME NEW s \in T PROVE nx[s] \in T
      OBVIOUS
    <3>1. CASE s = i
      BY <3>1, <1>3
    <3>2. CASE s # i /\ s = p
      BY <3>2, <1>2
    <3>3. CASE s # i /\ s # p
      <4>1. s \in S /\ nx2[s] = nx[s] BY <3>3, <1>3
      <4>2. QED BY <4>1
    <3>4. QED BY <3>1, <3>2, <3>3
  <2>3. T = R
    <3> HIDE DEF T
    <3>1. QED BY <2>1, <2>2, OneCycleApply
  <2>4. QED BY <2>3
<1>6. QED BY <1>2, <1>4, <1>5

(* A ring whose links are not written stays one.                           *)
LEMMA FrameRing ==
  ASSUME NEW Q, NEW nx, NEW pv, NEW nx2, NEW pv2,
         Doubly(nx, pv, Q), OneCycle(nx, Q),
         \A s \in Q : nx2[s] = nx[s] /\ pv2[s] = pv[s]
  PROVE  Doubly(nx2, pv2, Q) /\ OneCycle(nx2, Q)
<1>1. Doubly(nx2, pv2, Q)
  BY DEF Doubly
<1>2. OneCycle(nx2, Q)
  <2> SUFFICES ASSUME NEW S \in SUBSET Q, S # {}, \A s \in S : nx2[s] \in S
               PROVE  S = Q
    BY DEF OneCycle
  <2>1. \A s \in S : nx[s] \in S
    OBVIOUS
  <2>2. QED BY <2>1, OneCycleApply
<1>3. QED BY <1>1, <1>2

-----------------------------------------------------------------------------
(* The members of a list and their number.                                 *)

(* Any set of items is finite and fits the capacity.                       *)
LEMMA SubsetCount ==
  ASSUME NEW T \in SUBSET Items
  PROVE  IsFiniteSet(T) /\ Cardinality(T) \in 0 .. CAPACITY
<1>1. IsFiniteSet(Items) /\ Cardinality(Items) = CAPACITY
  <2>1. 0 \in Int /\ CAPACITY - 1 \in Int /\ ~(0 > CAPACITY - 1)
    BY Geometry
  <2>2. /\ IsFiniteSet(0 .. CAPACITY - 1)
        /\ Cardinality(0 .. CAPACITY - 1) = (CAPACITY - 1) - 0 + 1
    BY <2>1, FS_Interval, Zenon
  <2>3. QED BY <2>2, Geometry DEF Items
<1>2. IsFiniteSet(T) /\ Cardinality(T) <= CAPACITY
  BY <1>1, FS_Subset
<1>3. Cardinality(T) \in Nat
  BY <1>2, FS_CardinalityType
<1>4. QED BY <1>2, <1>3, Geometry

(* Rings are made of slots, hold their marker, and share nothing with      *)
(* each other.                                                             *)
LEMMA RingFacts ==
  ASSUME NEW l \in ListSet
  PROVE  /\ Members(l) \subseteq Items /\ Ring(l) \subseteq Slots
         /\ EndOf(l) \in Ring(l) /\ EndOf(l) \notin Members(l)
         /\ \A k \in ListSet : k # l => Ring(k) \cap Ring(l) = {}
BY Geometry, Ends DEF Members, Ring

(* What the rings rest on besides their links.                             *)
Typed ==
  /\ value \in [Slots -> 0 .. MaxValue]
  /\ prev \in [Slots -> Slots \cup {NONE}]
  /\ next \in [Slots -> Slots \cup {NONE}]
  /\ container \in [Slots -> ListSet \cup {NO_LIST}]
  /\ cursor \in [ListSet -> Slots]
  /\ len \in [ListSet -> 0 .. CAPACITY]
  /\ ret \in Replies

ListInv == Typed /\ RingInv

(* TypeOK is the types of the lists and the type of the search.            *)
LEMMA TypeSplit == (TypeOK <=> Typed /\ walk \in Searches) /\ (TypeOK' <=> Typed' /\ walk' \in Searches)
<1>1. Searches' = Searches
  BY DEF Searches, Slots, ListSet
<1>2. QED BY <1>1, Zenon DEF TypeOK, Typed

(* What the calls answer is a reply.                                       *)
LEMMA GoodReplies ==
  /\ \A n \in U16 : Ok(n) \in Replies
  /\ Ok(0) \in Replies /\ Ok(1) \in Replies
  /\ Err("InvalidArgument") \in Replies
  /\ Err("Busy") \in Replies
  /\ Err("NotActive") \in Replies
  /\ Err("None") \in Replies
<1>1. 0 \in U16 /\ 1 \in U16
  BY DEF U16, NONE
<1>2. QED BY <1>1 DEF Ok, Err, Replies

(* A step that answers and writes no list keeps every list.                *)
LEMMA SameListsStep ==
  ASSUME ListInv, UNCHANGED <<nodes, meta>>, ret' \in Replies
  PROVE  ListInv'
<1> USE DEF nodes, meta
<1>1. Typed'
  BY DEF ListInv, Typed
<1>2. \A l \in ListSet : Members(l)' = Members(l) /\ Ring(l)' = Ring(l)
  BY DEF Members, Ring
<1>3. OneRing'
  BY <1>2 DEF ListInv, RingInv, OneRing
<1>4. CountAndCursor' /\ MarkersIntact'
  BY <1>2 DEF ListInv, RingInv, CountAndCursor, MarkersIntact
<1>5. QED BY <1>1, <1>3, <1>4 DEF ListInv, RingInv

(* So does a refusal.                                                      *)
LEMMA RefuseStep ==
  ASSUME ListInv, NEW e, Err(e) \in Replies, Refuse(e)
  PROVE  ListInv'
BY SameListsStep DEF Refuse

(* Linking a free item between two neighbours of a ring keeps every list.  *)
LEMMA LinkStep ==
  ASSUME ListInv,
         NEW list \in ListSet, NEW item \in U16,
         NEW before \in Ring(list), NEW after, next[before] = after,
         NEW write \in BOOLEAN, NEW v \in 0 .. MaxValue,
         LinkBetween(list, item, before, after, write, v)
  PROVE  ListInv'
<1>1. CASE item \notin Items /\ Refuse("InvalidArgument")
  BY <1>1, RefuseStep, GoodReplies
<1>2. CASE item \in Items /\ container[item] # NO_LIST /\ Refuse("Busy")
  BY <1>2, RefuseStep, GoodReplies
<1>3. CASE /\ item \in Items /\ container[item] = NO_LIST
           /\ value' = IF write THEN [value EXCEPT ![item] = v] ELSE value
           /\ next' = LinkNext(next, item, before, after)
           /\ prev' = LinkPrev(prev, item, before, after)
           /\ container' = [container EXCEPT ![item] = list]
           /\ len' = [len EXCEPT ![list] = (@ + 1) % (NONE + 1)]
           /\ ret' = Ok(0)
           /\ UNCHANGED cursor
  <2> USE <1>3
  <2>1. /\ item \in Slots /\ item \notin Members(list) /\ before \in Slots /\ after \in Slots
        /\ after \in Ring(list) /\ At(before) = before /\ At(after) = after
        /\ \A l \in ListSet : item \notin Ring(l)
    <3>1. item \in Slots /\ \A l \in ListSet : item \notin Ring(l)
      BY Geometry, Ends DEF Members, Ring
    <3>2. before \in Slots /\ after \in Ring(list)
      BY RingFacts DEF ListInv, RingInv, OneRing, Doubly
    <3>3. after \in Slots
      BY <3>2, RingFacts
    <3>4. QED BY <3>1, <3>2, <3>3, AtSlot DEF Ring
  <2>2. /\ Members(list)' = Members(list) \cup {item}
        /\ \A l \in ListSet : l # list => Members(l)' = Members(l)
    BY Geometry DEF Members, ListInv, Typed
  <2>3. /\ Ring(list)' = Ring(list) \cup {item}
        /\ \A l \in ListSet : l # list => Ring(l)' = Ring(l)
    BY <2>2 DEF Ring
  <2>4. /\ Cardinality(Members(list)') = len[list] + 1
        /\ len[list] + 1 \in 0 .. CAPACITY
        /\ len'[list] = len[list] + 1
    <3>1. Cardinality(Members(list)') = len[list] + 1
      BY <2>1, <2>2, SubsetCount, RingFacts, FS_AddElement DEF ListInv, RingInv, CountAndCursor
    <3>2. Members(list)' \subseteq Items
      BY <2>2, RingFacts
    <3>3. len[list] + 1 \in 0 .. CAPACITY
      BY <3>1, <3>2, SubsetCount
    <3>4. (len[list] + 1) % (NONE + 1) = len[list] + 1
      BY <3>3, Geometry DEF ListInv, Typed
    <3>5. QED BY <3>1, <3>3, <3>4 DEF ListInv, Typed
  <2>5. Typed'
    <3>1. value' \in [Slots -> 0 .. MaxValue]
      BY <2>1 DEF ListInv, Typed
    <3>2. next' \in [Slots -> Slots \cup {NONE}] /\ prev' \in [Slots -> Slots \cup {NONE}]
      BY <2>1 DEF ListInv, Typed, LinkNext, LinkPrev
    <3>3. container' \in [Slots -> ListSet \cup {NO_LIST}] /\ cursor' \in [ListSet -> Slots]
      BY <2>1 DEF ListInv, Typed
    <3>4. len' \in [ListSet -> 0 .. CAPACITY]
      BY <2>4 DEF ListInv, Typed
    <3>5. QED BY <3>1, <3>2, <3>3, <3>4, GoodReplies DEF Typed
  <2>6. OneRing'
    <3>1. Doubly(next', prev', Ring(list) \cup {item}) /\ OneCycle(next', Ring(list) \cup {item})
      BY <2>1, RingFacts, LinkRing DEF ListInv, Typed, RingInv, OneRing
    <3>2. ASSUME NEW l \in ListSet, l # list
          PROVE  Doubly(next', prev', Ring(l)) /\ OneCycle(next', Ring(l))
      <4>1. Doubly(next, prev, Ring(l)) /\ OneCycle(next, Ring(l))
        BY DEF ListInv, RingInv, OneRing
      <4>2. \A s \in Ring(l) : s # item /\ s # before /\ s # after
        BY <2>1, <3>2, RingFacts
      <4>3. \A s \in Ring(l) : next'[s] = next[s] /\ prev'[s] = prev[s]
        BY <2>1, <4>2, RingFacts DEF LinkNext, LinkPrev, ListInv, Typed
      <4>4. QED BY <4>1, <4>3, FrameRing
    <3>3. QED BY <2>3, <3>1, <3>2 DEF OneRing
  <2>7. CountAndCursor'
    <3>1. ASSUME NEW l \in ListSet
          PROVE  len'[l] = Cardinality(Members(l)') /\ cursor'[l] \in Ring(l)'
      <4>1. CASE l = list
        BY <4>1, <2>3, <2>4 DEF ListInv, RingInv, CountAndCursor
      <4>2. CASE l # list
        BY <4>2, <2>2, <2>3 DEF ListInv, Typed, RingInv, CountAndCursor
      <4>3. QED BY <4>1, <4>2
    <3>2. QED BY <3>1 DEF CountAndCursor
  <2>8. MarkersIntact'
    BY Geometry DEF ListInv, Typed, RingInv, MarkersIntact
  <2>9. QED BY <2>5, <2>6, <2>7, <2>8 DEF ListInv, RingInv
<1>4. QED BY <1>1, <1>2, <1>3 DEF LinkBetween

(* The item that Remove and MoveToEnd take out, seen in its ring.          *)
LEMMA SkipFacts ==
  ASSUME ListInv, NEW l \in ListSet, NEW item \in Members(l)
  PROVE  /\ item \in Slots /\ item # EndOf(l)
         /\ next[item] \in Ring(l) \ {item} /\ prev[item] \in Ring(l) \ {item}
         /\ At(next[item]) = next[item] /\ At(prev[item]) = prev[item]
         /\ SkipNext(next, prev, item) \in [Slots -> Slots \cup {NONE}]
         /\ SkipPrev(next, prev, item) \in [Slots -> Slots \cup {NONE}]
         /\ Doubly(SkipNext(next, prev, item), SkipPrev(next, prev, item), Ring(l) \ {item})
         /\ OneCycle(SkipNext(next, prev, item), Ring(l) \ {item})
<1>1. item \in Slots /\ item \in Ring(l) /\ EndOf(l) \in Ring(l) /\ item # EndOf(l)
      /\ Ring(l) \subseteq Slots
  BY RingFacts DEF Ring
<1>2. Doubly(next, prev, Ring(l)) /\ OneCycle(next, Ring(l))
  BY DEF ListInv, RingInv, OneRing
<1>3. next \in [Slots -> Slots \cup {NONE}] /\ prev \in [Slots -> Slots \cup {NONE}]
  BY DEF ListInv, Typed
<1>4. /\ next[item] \in Ring(l) \ {item} /\ prev[item] \in Ring(l) \ {item}
      /\ Doubly(SkipNext(next, prev, item), SkipPrev(next, prev, item), Ring(l) \ {item})
      /\ OneCycle(SkipNext(next, prev, item), Ring(l) \ {item})
  BY <1>1, <1>2, <1>3, SkipRing
<1>5. At(next[item]) = next[item] /\ At(prev[item]) = prev[item]
  BY <1>1, <1>4, AtSlot
<1>6. /\ SkipNext(next, prev, item) \in [Slots -> Slots \cup {NONE}]
      /\ SkipPrev(next, prev, item) \in [Slots -> Slots \cup {NONE}]
  BY <1>1, <1>3, <1>4, <1>5 DEF SkipNext, SkipPrev
<1>7. QED BY <1>1, <1>4, <1>5, <1>6

(* Skipping an item writes two links, both in its own ring.                *)
LEMMA SkipFrame ==
  ASSUME ListInv, NEW l \in ListSet, NEW item \in Members(l),
         NEW k \in ListSet, k # l, NEW s \in Ring(k)
  PROVE  /\ SkipNext(next, prev, item)[s] = next[s]
         /\ SkipPrev(next, prev, item)[s] = prev[s]
<1>1. /\ next[item] \in Ring(l) /\ prev[item] \in Ring(l)
      /\ At(next[item]) = next[item] /\ At(prev[item]) = prev[item]
  BY SkipFacts
<1>2. s # next[item] /\ s # prev[item] /\ s \in Slots
  BY <1>1, RingFacts
<1>3. QED BY <1>1, <1>2 DEF SkipNext, SkipPrev, ListInv, Typed

(* remove keeps the lists whole, the cursor included.                      *)
LEMMA RemoveStep ==
  ASSUME ListInv, NEW item \in U16, Remove(item)
  PROVE  ListInv'
<1>1. CASE item \notin Items /\ Refuse("InvalidArgument")
  BY <1>1, RefuseStep, GoodReplies
<1>2. CASE item \in Items /\ container[item] = NO_LIST /\ Refuse("NotActive")
  BY <1>2, RefuseStep, GoodReplies
<1>3. CASE item \in Items /\ container[item] # NO_LIST
  <2>p. PICK list \in ListSet : list = container[item]
    BY <1>3, Geometry DEF ListInv, Typed
  <2>0. /\ item \in Items /\ container[item] # NO_LIST
        /\ next' = SkipNext(next, prev, item)
        /\ prev' = SkipPrev(next, prev, item)
        /\ container' = [container EXCEPT ![item] = NO_LIST]
        /\ cursor' = [cursor EXCEPT ![list] = IF @ = item THEN prev[item] ELSE @]
        /\ len' = [len EXCEPT ![list] = (len[list] - 1) % (NONE + 1)]
        /\ ret' = Ok((len[list] - 1) % (NONE + 1))
        /\ UNCHANGED value
    BY <1>3, <2>p DEF Remove
  <2>1. list \in ListSet /\ item \in Members(list)
    BY <2>0, <2>p DEF Members
  <2>2. /\ item \in Slots /\ item # EndOf(list)
        /\ next[item] \in Ring(list) \ {item} /\ prev[item] \in Ring(list) \ {item}
    BY <2>1, SkipFacts
  <2>s. ASSUME NEW k \in ListSet, k # list, NEW s \in Ring(k)
        PROVE  /\ SkipNext(next, prev, item)[s] = next[s]
               /\ SkipPrev(next, prev, item)[s] = prev[s]
    BY <2>1, <2>s, SkipFrame
  <2>3. /\ Members(list)' = Members(list) \ {item}
        /\ \A l \in ListSet : l # list => Members(l)' = Members(l)
    BY <2>0, <2>1, Geometry DEF Members, ListInv, Typed
  <2>4. /\ Ring(list)' = Ring(list) \ {item}
        /\ \A l \in ListSet : l # list => Ring(l)' = Ring(l)
    BY <2>2, <2>3 DEF Ring
  <2>5. /\ Cardinality(Members(list)') = len[list] - 1
        /\ len[list] - 1 \in 0 .. CAPACITY
        /\ (len[list] - 1) % (NONE + 1) = len[list] - 1
        /\ len'[list] = len[list] - 1
    <3>1. Cardinality(Members(list)') = len[list] - 1
      BY <2>1, <2>3, SubsetCount, RingFacts, FS_RemoveElement DEF ListInv, RingInv, CountAndCursor
    <3>2. Members(list)' \subseteq Items
      BY <2>1, <2>3, RingFacts
    <3>3. len[list] - 1 \in 0 .. CAPACITY
      BY <3>1, <3>2, SubsetCount
    <3>4. (len[list] - 1) % (NONE + 1) = len[list] - 1
      BY <3>3, Geometry
    <3>5. QED BY <3>1, <3>3, <3>4, <2>0, <2>1 DEF ListInv, Typed
  <2>6. Typed'
    <3>1. next' \in [Slots -> Slots \cup {NONE}] /\ prev' \in [Slots -> Slots \cup {NONE}]
      BY <2>0, <2>1, SkipFacts
    <3>2. container' \in [Slots -> ListSet \cup {NO_LIST}]
      BY <2>0 DEF ListInv, Typed
    <3>3. cursor' \in [ListSet -> Slots]
      BY <2>0, <2>1, <2>2, RingFacts DEF ListInv, Typed
    <3>4. len' \in [ListSet -> 0 .. CAPACITY]
      BY <2>0, <2>5 DEF ListInv, Typed
    <3>5. ret' \in Replies
      <4>1. len[list] - 1 \in U16
        BY <2>5, Geometry
      <4>2. QED BY <4>1, <2>0, <2>5, GoodReplies
    <3>6. value' \in [Slots -> 0 .. MaxValue]
      BY <2>0 DEF ListInv, Typed
    <3>7. QED BY <3>1, <3>2, <3>3, <3>4, <3>5, <3>6 DEF Typed
  <2>7. OneRing'
    <3>1. Doubly(next', prev', Ring(list) \ {item}) /\ OneCycle(next', Ring(list) \ {item})
      BY <2>0, <2>1, SkipFacts
    <3>2. ASSUME NEW l \in ListSet, l # list
          PROVE  Doubly(next', prev', Ring(l)) /\ OneCycle(next', Ring(l))
      <4>1. Doubly(next, prev, Ring(l)) /\ OneCycle(next, Ring(l))
        BY DEF ListInv, RingInv, OneRing
      <4>2. \A s \in Ring(l) : next'[s] = next[s] /\ prev'[s] = prev[s]
        BY <2>0, <2>s, <3>2
      <4>3. QED BY <4>1, <4>2, FrameRing
    <3>3. QED BY <2>4, <3>1, <3>2 DEF OneRing
  <2>8. CountAndCursor'
    <3>1. ASSUME NEW l \in ListSet
          PROVE  len'[l] = Cardinality(Members(l)') /\ cursor'[l] \in Ring(l)'
      <4>1. CASE l = list
        BY <4>1, <2>0, <2>2, <2>4, <2>5 DEF ListInv, Typed, RingInv, CountAndCursor
      <4>2. CASE l # list
        BY <4>2, <2>0, <2>3, <2>4 DEF ListInv, Typed, RingInv, CountAndCursor
      <4>3. QED BY <4>1, <4>2
    <3>2. QED BY <3>1 DEF CountAndCursor
  <2>9. MarkersIntact'
    BY <2>0, Geometry DEF ListInv, Typed, RingInv, MarkersIntact
  <2>10. QED BY <2>6, <2>7, <2>8, <2>9 DEF ListInv, RingInv
<1>4. QED BY <1>1, <1>2, <1>3 DEF Remove

(* move_to_end keeps the lists whole, wherever the cursor stands.          *)
LEMMA MoveToEndStep ==
  ASSUME ListInv, NEW list \in 0 .. NO_LIST, NEW item \in U16, MoveToEnd(list, item)
  PROVE  ListInv'
<1>1. CASE (list \notin ListSet \/ item \notin Items) /\ Refuse("InvalidArgument")
  BY <1>1, RefuseStep, GoodReplies
<1>2. CASE list \in ListSet /\ item \in Items /\ container[item] # list
  <2>1. ret' = Ok(0) /\ UNCHANGED <<nodes, meta>>
    BY <1>2 DEF MoveToEnd
  <2>2. QED BY <2>1, SameListsStep, GoodReplies
<1>3. CASE list \in ListSet /\ item \in Items /\ container[item] = list
  <2> DEFINE c == IF cursor[list] = item THEN prev[item] ELSE cursor[list]
             nx == SkipNext(next, prev, item)
             pv == SkipPrev(next, prev, item)
             before == pv[At(c)]
  <2>0. /\ next' = LinkNext(nx, item, before, c)
        /\ prev' = LinkPrev(pv, item, before, c)
        /\ cursor' = [cursor EXCEPT ![list] = c]
        /\ ret' = Ok(1)
        /\ UNCHANGED <<value, container, len>>
    BY <1>3 DEF MoveToEnd
  <2>1. list \in ListSet /\ item \in Members(list) /\ item \in Ring(list)
    BY <1>3 DEF Members, Ring
  <2>2. /\ item \in Slots
        /\ nx \in [Slots -> Slots \cup {NONE}] /\ pv \in [Slots -> Slots \cup {NONE}]
        /\ Doubly(nx, pv, Ring(list) \ {item}) /\ OneCycle(nx, Ring(list) \ {item})
        /\ prev[item] \in Ring(list) \ {item}
    BY <2>1, SkipFacts
  <2>f. ASSUME NEW k \in ListSet, k # list, NEW s \in Ring(k)
        PROVE  nx[s] = next[s] /\ pv[s] = prev[s]
    BY <2>1, <2>f, SkipFrame
  <2>3. c \in Ring(list) \ {item} /\ c \in Slots /\ At(c) = c
    <3>1. cursor[list] \in Ring(list) /\ Ring(list) \subseteq Slots
      BY <2>1, RingFacts DEF ListInv, RingInv, CountAndCursor
    <3>2. c \in Ring(list) \ {item}
      BY <2>2, <3>1
    <3> HIDE DEF c
    <3>3. QED BY <3>1, <3>2, AtSlot
  <2> HIDE DEF c, nx, pv
  <2>4. before \in Ring(list) \ {item} /\ nx[before] = c /\ before \in Slots /\ At(before) = before
    <3>1. before \in Ring(list) \ {item} /\ nx[before] = c
      BY <2>2, <2>3 DEF Doubly
    <3>2. before \in Slots
      BY <3>1, <2>1, RingFacts
    <3>3. QED BY <3>1, <3>2, AtSlot
  <2> HIDE DEF before
  <2>5. \A l \in ListSet : Members(l)' = Members(l) /\ Ring(l)' = Ring(l)
    BY <2>0 DEF Members, Ring
  <2>6. Typed'
    <3>1. next' \in [Slots -> Slots \cup {NONE}] /\ prev' \in [Slots -> Slots \cup {NONE}]
      BY <2>0, <2>2, <2>3, <2>4 DEF LinkNext, LinkPrev
    <3>2. cursor' \in [ListSet -> Slots]
      BY <2>0, <2>1, <2>3 DEF ListInv, Typed
    <3>3. ret' \in Replies
      BY <2>0, GoodReplies
    <3>4. QED BY <2>0, <3>1, <3>2, <3>3 DEF ListInv, Typed
  <2>7. OneRing'
    <3>1. Doubly(next', prev', Ring(list)) /\ OneCycle(next', Ring(list))
      <4>1. /\ Ring(list) \ {item} \subseteq Slots /\ item \notin Ring(list) \ {item}
            /\ (Ring(list) \ {item}) \cup {item} = Ring(list)
        BY <2>1, RingFacts
      <4> DEFINE Q == Ring(list) \ {item}
      <4>2. Doubly(nx, pv, Q) /\ OneCycle(nx, Q) /\ before \in Q /\ Q \subseteq Slots
            /\ item \notin Q /\ Q \cup {item} = Ring(list)
        BY <2>2, <2>4, <4>1
      <4> HIDE DEF Q
      <4>3. Doubly(next', prev', Q \cup {item}) /\ OneCycle(next', Q \cup {item})
        BY <4>2, <2>0, <2>2, <2>4, LinkRing
      <4>4. QED BY <4>2, <4>3
    <3>2. ASSUME NEW l \in ListSet, l # list
          PROVE  Doubly(next', prev', Ring(l)) /\ OneCycle(next', Ring(l))
      <4>1. Doubly(next, prev, Ring(l)) /\ OneCycle(next, Ring(l))
        BY DEF ListInv, RingInv, OneRing
      <4>2. \A s \in Ring(l) : s \in Slots /\ s # item /\ s # before /\ s # c
        BY <2>1, <2>3, <2>4, <3>2, RingFacts
      <4>3. \A s \in Ring(l) : next'[s] = next[s] /\ prev'[s] = prev[s]
        BY <2>0, <2>2, <2>3, <2>4, <2>f, <3>2, <4>2 DEF LinkNext, LinkPrev
      <4>4. QED BY <4>1, <4>3, FrameRing
    <3>3. QED BY <2>5, <3>1, <3>2 DEF OneRing
  <2>8. CountAndCursor'
    BY <2>0, <2>1, <2>3, <2>5 DEF ListInv, Typed, RingInv, CountAndCursor
  <2>9. MarkersIntact'
    BY <2>0 DEF ListInv, RingInv, MarkersIntact
  <2>10. QED BY <2>6, <2>7, <2>8, <2>9 DEF ListInv, RingInv
<1>4. QED BY <1>1, <1>2, <1>3 DEF MoveToEnd

(* next_round_robin moves the cursor within its ring.                      *)
LEMMA RoundRobinStep ==
  ASSUME ListInv, NEW list \in 0 .. NO_LIST, NextRoundRobin(list)
  PROVE  ListInv'
<1>1. CASE list \notin ListSet /\ Refuse("InvalidArgument")
  BY <1>1, RefuseStep, GoodReplies
<1>2. CASE list \in ListSet /\ len[list] = 0 /\ ret' = Nothing /\ UNCHANGED <<nodes, meta>>
  BY <1>2, SameListsStep, GoodReplies DEF Nothing
<1>3. CASE list \in ListSet /\ len[list] # 0
  <2> DEFINE first == next[At(cursor[list])]
             nxt == IF first = EndOf(list) THEN next[At(first)] ELSE first
  <2>0. /\ cursor' = [cursor EXCEPT ![list] = nxt] /\ ret' = Ok(nxt)
        /\ UNCHANGED <<nodes, len>>
    BY <1>3 DEF NextRoundRobin
  <2>1. nxt \in Ring(list)
    <3>1. cursor[list] \in Ring(list) /\ Ring(list) \subseteq Slots /\ EndOf(list) \in Ring(list)
      BY <1>3, RingFacts DEF ListInv, RingInv, CountAndCursor
    <3>2. \A s \in Ring(list) : At(s) = s /\ next[s] \in Ring(list)
      BY <1>3, <3>1, AtSlot DEF ListInv, RingInv, OneRing, Doubly
    <3>3. QED BY <3>1, <3>2
  <2> HIDE DEF nxt
  <2>2. nxt \in Slots /\ nxt \in U16
    BY <1>3, <2>1, RingFacts, Geometry
  <2>3. Typed'
    <3>1. cursor' \in [ListSet -> Slots]
      BY <2>0, <2>2 DEF ListInv, Typed
    <3>2. ret' \in Replies
      BY <2>0, <2>2, GoodReplies
    <3>3. QED BY <3>1, <3>2, <2>0 DEF ListInv, Typed, nodes
  <2>4. \A l \in ListSet : Members(l)' = Members(l) /\ Ring(l)' = Ring(l)
    BY <2>0 DEF Members, Ring, nodes
  <2>5. OneRing'
    BY <2>0, <2>4 DEF ListInv, RingInv, OneRing, nodes
  <2>6. CountAndCursor'
    BY <1>3, <2>0, <2>1, <2>4 DEF ListInv, Typed, RingInv, CountAndCursor
  <2>7. MarkersIntact'
    BY <2>0 DEF ListInv, RingInv, MarkersIntact, nodes
  <2>8. QED BY <2>3, <2>5, <2>6, <2>7 DEF ListInv, RingInv
<1>4. QED BY <1>1, <1>2, <1>3 DEF NextRoundRobin

(* set_value writes no marker.                                             *)
LEMMA SetValueStep ==
  ASSUME ListInv, NEW item \in U16, NEW v \in 0 .. MaxValue, SetValue(item, v)
  PROVE  ListInv'
<1>1. CASE item \notin Items /\ Refuse("InvalidArgument")
  BY <1>1, RefuseStep, GoodReplies
<1>2. CASE /\ item \in Items
           /\ value' = [value EXCEPT ![item] = v]
           /\ ret' = Ok(0)
           /\ UNCHANGED <<prev, next, container, cursor, len>>
  <2>1. Typed'
    BY <1>2, GoodReplies DEF ListInv, Typed
  <2>2. \A l \in ListSet : Members(l)' = Members(l) /\ Ring(l)' = Ring(l)
    BY <1>2 DEF Members, Ring
  <2>3. OneRing' /\ CountAndCursor'
    BY <1>2, <2>2 DEF ListInv, RingInv, OneRing, CountAndCursor
  <2>4. MarkersIntact'
    BY <1>2 DEF ListInv, Typed, RingInv, MarkersIntact
  <2>5. QED BY <2>1, <2>3, <2>4 DEF ListInv, RingInv
<1>3. QED BY <1>1, <1>2 DEF SetValue

(* In front of the marker, and in front of the cursor.                     *)
LEMMA BeforeInRing ==
  ASSUME ListInv, NEW list \in ListSet, NEW s \in Ring(list)
  PROVE  At(s) = s /\ prev[s] \in Ring(list) /\ next[prev[s]] = s /\ next[s] \in Ring(list)
BY RingFacts, AtSlot DEF ListInv, RingInv, OneRing, Doubly

(* insert_end links in front of the cursor, which is in the ring.          *)
LEMMA InsertEndStep ==
  ASSUME ListInv, NEW list \in 0 .. NO_LIST, NEW item \in U16, InsertEnd(list, item)
  PROVE  ListInv'
<1>1. CASE list \notin ListSet /\ Refuse("InvalidArgument")
  BY <1>1, RefuseStep, GoodReplies
<1>2. CASE list \in ListSet
  <2>1. LinkBetween(list, item, prev[At(cursor[list])], cursor[list], FALSE, 0)
    BY <1>2 DEF InsertEnd
  <2>2. cursor[list] \in Ring(list)
    BY <1>2 DEF ListInv, RingInv, CountAndCursor
  <2>3. prev[At(cursor[list])] \in Ring(list) /\ next[prev[At(cursor[list])]] = cursor[list]
    BY <1>2, <2>2, BeforeInRing
  <2>4. 0 \in 0 .. MaxValue /\ FALSE \in BOOLEAN
    BY Geometry
  <2>5. QED BY <1>2, <2>1, <2>3, <2>4, LinkStep
<1>3. QED BY <1>1, <1>2 DEF InsertEnd

(* A value of MaxValue is linked in front of the marker; any other writes  *)
(* no list yet.                                                            *)
LEMMA InsertInnerStep ==
  ASSUME ListInv, NEW list \in ListSet, NEW item \in U16, NEW v \in 0 .. MaxValue,
         NEW write \in BOOLEAN, InsertInner(list, item, v, write)
  PROVE  ListInv'
<1>1. CASE LinkBetween(list, item, prev[At(EndOf(list))], EndOf(list), write, v)
  BY <1>1, BeforeInRing, RingFacts, LinkStep
<1>2. CASE UNCHANGED <<nodes, meta, ret>>
  BY <1>2, SameListsStep DEF ListInv, Typed
<1>3. QED BY <1>1, <1>2 DEF InsertInner

(* insert keeps the lists whole.                                           *)
LEMMA InsertStep ==
  ASSUME ListInv, NEW list \in 0 .. NO_LIST, NEW item \in U16, NEW v \in 0 .. MaxValue,
         Insert(list, item, v)
  PROVE  ListInv'
<1>1. CASE list \notin ListSet /\ Refuse("InvalidArgument")
  BY <1>1, RefuseStep, GoodReplies
<1>2. CASE list \in ListSet /\ InsertInner(list, item, v, TRUE)
  BY <1>2, InsertInnerStep
<1>3. QED BY <1>1, <1>2 DEF Insert

(* insert_keeping_value keeps the lists whole.                             *)
LEMMA InsertKeepingStep ==
  ASSUME ListInv, NEW list \in 0 .. NO_LIST, NEW item \in U16,
         InsertKeepingValue(list, item)
  PROVE  ListInv'
<1>1. CASE Refuse("InvalidArgument")
  BY <1>1, RefuseStep, GoodReplies
<1>2. CASE list \in ListSet /\ item \in Items /\ InsertInner(list, item, value[item], FALSE)
  <2>1. value[item] \in 0 .. MaxValue
    BY <1>2, Geometry DEF ListInv, Typed
  <2>2. QED BY <1>2, <2>1, InsertInnerStep
<1>3. QED BY <1>1, <1>2 DEF InsertKeepingValue

(* insert_sorted keeps the lists whole by either way.                      *)
LEMMA InsertSortedStep ==
  ASSUME ListInv, NEW list \in 0 .. NO_LIST, NEW item \in U16, NEW v \in 0 .. MaxValue,
         InsertSorted(list, item, v)
  PROVE  ListInv'
<1>1. CASE Refuse("InvalidArgument")
  BY <1>1, RefuseStep, GoodReplies
<1>2. CASE /\ list \in ListSet
           /\ LinkBetween(list, item, prev[At(EndOf(list))], EndOf(list), TRUE, v)
  BY <1>2, BeforeInRing, RingFacts, LinkStep
<1>3. CASE list \in ListSet /\ InsertInner(list, item, v, TRUE)
  BY <1>3, InsertInnerStep
<1>4. QED BY <1>1, <1>2, <1>3 DEF InsertSorted

(* The fields of a search.                                                 *)
LEMMA SearchFields ==
  ASSUME NEW w \in Searches
  PROVE  /\ w.on \in BOOLEAN /\ w.list \in ListSet /\ w.item \in U16
         /\ w.value \in 0 .. MaxValue /\ w.write \in BOOLEAN
         /\ w.before \in Slots /\ w.after \in Slots /\ w.guard \in 0 .. N
BY DEF Searches

(* The end of a search links between neighbours.                           *)
LEMMA WalkStopStep ==
  ASSUME ListInv, walk \in Searches, SearchInv, WalkStop
  PROVE  ListInv'
<1>1. /\ walk.before \in Ring(walk.list) /\ next[walk.before] = walk.after
      /\ LinkBetween(walk.list, walk.item, walk.before, walk.after, walk.write, walk.value)
  BY DEF SearchInv, WalkStop
<1>2. QED BY <1>1, SearchFields, LinkStep

-----------------------------------------------------------------------------
(* The search. It starts having passed nobody; a turn that goes on passes  *)
(* one member more, and meets nobody it has passed.                        *)

(* A search starts between the marker and the first member, having passed  *)
(* none.                                                                   *)
LEMMA SearchStart ==
  ASSUME ListInv, NEW list \in ListSet, NEW item \in U16, NEW v \in 0 .. MaxValue,
         NEW write \in BOOLEAN, write \/ (item \in Items /\ v = value[item]),
         ~walk.on, walk \in Searches, InsertInner(list, item, v, write)
  PROVE  walk' \in Searches /\ SearchInv'
<1>1. CASE UNCHANGED walk
  BY <1>1 DEF SearchInv, Searches, Slots, ListSet
<1>2. CASE /\ v # MaxValue
           /\ walk' = [on |-> TRUE, list |-> list, item |-> item, value |-> v, write |-> write,
                       before |-> EndOf(list), after |-> next[At(EndOf(list))], guard |-> 0]
           /\ UNCHANGED <<nodes, meta, ret>>
  <2>1. /\ walk'.on /\ walk'.value = v /\ walk'.list = list /\ walk'.before = EndOf(list)
        /\ walk'.after = next[EndOf(list)] /\ walk'.guard = 0
        /\ walk'.write = write /\ walk'.item = item
        /\ At(EndOf(list)) = EndOf(list)
    BY <1>2, BeforeInRing, RingFacts
  <2>2. /\ EndOf(list) \in Slots /\ next[EndOf(list)] \in Slots /\ EndOf(list) \in Ring(list)
        /\ EndOf(list) \notin Items /\ 0 \in 0 .. N
    BY BeforeInRing, RingFacts, Ends, Geometry
  <2>3. walk' \in Searches
    BY <1>2, <2>1, <2>2 DEF Searches
  <2>4. SearchInv'
    <3>1. /\ Members(list)' = Members(list) /\ Ring(list)' = Ring(list)
          /\ next' = next /\ prev' = prev /\ value' = value
      BY <1>2 DEF Members, Ring, nodes
    <3>2. /\ {} \in SUBSET Members(list) /\ Cardinality({}) = walk'.guard
          /\ walk'.before \in {} \cup {EndOf(list)}
          /\ walk'.after \notin {}
          /\ \A s \in {} : prev'[s] \in {} \cup {EndOf(list)}
      BY <2>1, FS_EmptySet
    <3>3. \E passed \in SUBSET Members(list)' :
            /\ Cardinality(passed) = walk'.guard
            /\ walk'.before \in passed \cup {EndOf(list)}
            /\ walk'.after \notin passed
            /\ \A s \in passed : prev'[s] \in passed \cup {EndOf(list)}
      BY <3>1, <3>2
    <3>4. QED BY <1>2, <2>1, <2>2, <3>1, <3>3 DEF SearchInv
  <2>5. QED BY <2>3, <2>4
<1>3. QED BY <1>1, <1>2 DEF InsertInner

(* A turn that goes on has met a member, not a marker, and the count of    *)
(* turns has room.                                                         *)
LEMMA WalkOnFacts ==
  ASSUME ListInv, walk \in Searches, SearchInv, WalkOn
  PROVE  /\ walk.after \in Members(walk.list)
         /\ walk.guard + 1 <= N
         /\ walk' = [walk EXCEPT !.before = walk.after, !.after = next[walk.after],
                                 !.guard = walk.guard + 1]
         /\ next[walk.after] \in Ring(walk.list)
         /\ \E passed \in SUBSET Members(walk.list) :
              /\ Cardinality(passed) = walk.guard + 1
              /\ walk.after \in passed
              /\ next[walk.after] \notin passed
              /\ \A s \in passed : prev[s] \in passed \cup {EndOf(walk.list)}
<1> DEFINE list == walk.list
           before == walk.before
           after == walk.after
<1>0. /\ walk.on /\ value[At(after)] <= walk.value /\ walk.value # MaxValue
      /\ walk.value \in 0 .. MaxValue /\ list \in ListSet /\ walk.guard \in 0 .. N
      /\ before \in Ring(list) /\ after = next[before]
  BY SearchFields DEF WalkOn, Passes, SearchInv
<1> HIDE DEF list, before, after
<1>1. /\ after \in Ring(list) /\ prev[after] = before /\ At(after) = after /\ after \in Slots
      /\ next[after] \in Ring(list) /\ prev[next[after]] = after
  BY <1>0, BeforeInRing, RingFacts DEF ListInv, RingInv, OneRing, Doubly
<1>2. after \in Members(list) /\ after # EndOf(list)
  <2>1. value[after] # MaxValue
    BY <1>0, <1>1, Geometry DEF ListInv, Typed
  <2>2. after \in Items
    BY <1>1, <2>1 DEF ListInv, RingInv, MarkersIntact
  <2>3. QED BY <1>0, <1>1, <2>2, Ends DEF Ring, Members
<1>3. PICK passed \in SUBSET Members(list) :
        /\ Cardinality(passed) = walk.guard
        /\ before \in passed \cup {EndOf(list)}
        /\ after \notin passed
        /\ \A s \in passed : prev[s] \in passed \cup {EndOf(list)}
  BY <1>0 DEF SearchInv, list, before, after
<1> DEFINE T == passed \cup {after}
<1>4. T \in SUBSET Members(list) /\ Cardinality(T) = walk.guard + 1
  <2>1. Members(list) \subseteq Items
    BY DEF Members
  <2>2. IsFiniteSet(passed)
    BY <2>1, SubsetCount
  <2>3. QED BY <1>2, <1>3, <2>2, FS_AddElement
<1>5. walk.guard + 1 <= N
  <2>1. T \in SUBSET Items
    BY <1>4 DEF Members
  <2>2. Cardinality(T) \in 0 .. CAPACITY
    BY <2>1, SubsetCount
  <2> HIDE DEF T
  <2>3. QED BY <1>4, <2>2, Geometry
<1>6. next[after] \notin T
  <2>1. CASE next[after] = after
    BY <2>1, <1>1, <1>2, <1>3
  <2>2. CASE next[after] \in passed
    BY <2>2, <1>1, <1>2, <1>3
  <2>3. QED BY <2>1, <2>2
<1>7. \A s \in T : prev[s] \in T \cup {EndOf(list)}
  BY <1>1, <1>3
<1>8. walk' = [walk EXCEPT !.before = after, !.after = next[after], !.guard = walk.guard + 1]
  <2>1. ~(walk.guard + 1 > N)
    BY <1>0, <1>5, Geometry
  <2>2. OneMore(walk.guard) = walk.guard + 1
    BY <1>0, <1>5, Geometry DEF OneMore
  <2>3. walk' = [walk EXCEPT !.before = walk.after, !.after = next[At(walk.after)],
                             !.guard = OneMore(@)]
    BY <2>1, Zenon DEF WalkOn
  <2>4. QED BY <2>2, <2>3, <1>1, Zenon DEF after
<1>9. after \in T
  OBVIOUS
<1> HIDE DEF T
<1>10. QED BY <1>1, <1>2, <1>4, <1>5, <1>6, <1>7, <1>8, <1>9 DEF list, before, after

(* A turn that goes on passes one member more and stays between            *)
(* neighbours.                                                             *)
LEMMA WalkOnStep ==
  ASSUME ListInv, walk \in Searches, SearchInv, WalkOn
  PROVE  ListInv' /\ walk' \in Searches /\ SearchInv'
<1>0. /\ walk.on /\ value[At(walk.after)] <= walk.value /\ walk.value # MaxValue
      /\ walk.list \in ListSet /\ walk.guard \in 0 .. N
      /\ UNCHANGED <<nodes, meta>>
  BY SearchFields DEF WalkOn, Passes, SearchInv
<1>1. /\ walk.after \in Members(walk.list)
      /\ walk.guard + 1 <= N
      /\ walk' = [walk EXCEPT !.before = walk.after, !.after = next[walk.after],
                              !.guard = walk.guard + 1]
      /\ next[walk.after] \in Ring(walk.list)
  BY WalkOnFacts
<1>2. UNCHANGED ret
  <2>1. ~(walk.guard + 1 > N)
    BY <1>0, <1>1, Geometry
  <2>2. QED BY <2>1, Zenon DEF WalkOn
<1>3. ListInv'
  BY <1>0, <1>2, SameListsStep DEF ListInv, Typed
<1>4. next[walk.after] \in Slots /\ walk.after \in Slots /\ walk.guard + 1 \in 0 .. N
  BY <1>0, <1>1, RingFacts, Geometry, SearchFields
<1>5. walk' \in Searches
  BY <1>1, <1>4 DEF Searches
<1>6. /\ walk'.on /\ walk'.value = walk.value /\ walk'.list = walk.list
      /\ walk'.before = walk.after /\ walk'.after = next[walk.after]
      /\ walk'.guard = walk.guard + 1
      /\ walk'.write = walk.write /\ walk'.item = walk.item
  <2>1. walk.on
    BY <1>0
  <2>2. walk' = [walk EXCEPT !.before = walk.after, !.after = next[walk.after],
                             !.guard = walk.guard + 1]
    BY <1>1
  <2>3. QED BY <2>1, <2>2 DEF Searches
<1>7. /\ next' = next /\ prev' = prev /\ value' = value
      /\ Members(walk.list)' = Members(walk.list)
      /\ Ring(walk.list)' = Ring(walk.list)
      /\ EndOf(walk.list)' = EndOf(walk.list)
  BY <1>0, <1>6 DEF Members, Ring, nodes
<1>8. SearchInv'
  <2>1. walk'.before \in Ring(walk.list) /\ value[walk'.before] <= walk'.value
    <3>1. At(walk.after) = walk.after
      BY <1>4, AtSlot
    <3>2. QED BY <1>0, <1>1, <1>6, <3>1 DEF Ring
  <2>2. \E passed \in SUBSET Members(walk.list) :
          /\ Cardinality(passed) = walk'.guard
          /\ walk'.before \in passed \cup {EndOf(walk.list)}
          /\ walk'.after \notin passed
          /\ \A s \in passed : prev[s] \in passed \cup {EndOf(walk.list)}
    BY <1>6, WalkOnFacts
  <2>3. QED BY <1>0, <1>6, <1>7, <2>1, <2>2 DEF SearchInv
<1>9. QED BY <1>3, <1>5, <1>8

(* When a search ends there is none.                                       *)
LEMMA WalkStopSearch ==
  ASSUME WalkStop PROVE walk' \in Searches /\ SearchInv'
<1>1. walk' = NoWalk
  BY DEF WalkStop
<1>2. NoWalk \in Searches
  <2>1. 0 \in ListSet /\ 0 \in U16 /\ 0 \in 0 .. MaxValue /\ 0 \in Slots /\ 0 \in 0 .. N
    <3>1. 0 \in ListSet /\ 0 \in 0 .. MaxValue /\ 0 \in Slots /\ 0 \in 0 .. N
      BY Geometry DEF ListSet, Slots
    <3>2. QED BY <3>1, Geometry
  <2>2. QED BY <2>1 DEF NoWalk, Searches
<1>3. QED BY <1>1, <1>2 DEF SearchInv, NoWalk

(* Where there is no search, a step that starts none leaves nothing to     *)
(* keep.                                                                   *)
LEMMA NoSearchStep ==
  ASSUME ~walk.on, walk \in Searches, UNCHANGED walk
  PROVE  walk' \in Searches /\ SearchInv'
BY DEF SearchInv, Searches, Slots, ListSet

-----------------------------------------------------------------------------
(* The inductive invariant and the theorems.                               *)

IInv == ListInv /\ walk \in Searches /\ SearchInv

(* A new set of lists satisfies the invariant.                             *)
LEMMA InitIInv == Init => IInv
<1> SUFFICES ASSUME Init PROVE IInv
  OBVIOUS
<1>1. \A l \in ListSet : Members(l) = {} /\ Ring(l) = {EndOf(l)}
  BY Geometry DEF Init, EMPTY, Members, Ring
<1>2. \A l \in ListSet : EndOf(l) \in Slots /\ IsEnd(EndOf(l))
  BY Ends
<1>3. Typed
  <2>1. /\ value \in [Slots -> 0 .. MaxValue]
        /\ prev \in [Slots -> Slots \cup {NONE}] /\ next \in [Slots -> Slots \cup {NONE}]
        /\ container \in [Slots -> ListSet \cup {NO_LIST}]
    BY Geometry DEF Init, EMPTY, ZERO
  <2>2. cursor \in [ListSet -> Slots] /\ len \in [ListSet -> 0 .. CAPACITY]
    BY <1>2, Geometry DEF Init
  <2>3. ret \in Replies
    BY GoodReplies DEF Init
  <2>4. QED BY <2>1, <2>2, <2>3 DEF Typed
<1>4. OneRing
  <2> SUFFICES ASSUME NEW l \in ListSet
               PROVE  Doubly(next, prev, {EndOf(l)}) /\ OneCycle(next, {EndOf(l)})
    BY <1>1 DEF OneRing
  <2>1. next[EndOf(l)] = EndOf(l) /\ prev[EndOf(l)] = EndOf(l)
    BY <1>2 DEF Init, EMPTY, ZERO
  <2>2. OneCycle(next, {EndOf(l)})
    <3> SUFFICES ASSUME NEW S \in SUBSET {EndOf(l)}, S # {} PROVE S = {EndOf(l)}
      BY DEF OneCycle
    <3>1. QED OBVIOUS
  <2>3. QED BY <2>1, <2>2 DEF Doubly
<1>5. CountAndCursor
  BY <1>1, FS_EmptySet DEF Init, CountAndCursor
<1>6. MarkersIntact
  BY Ends DEF Init, EMPTY, ZERO, MarkersIntact
<1>7. walk \in Searches /\ SearchInv
  <2>1. 0 \in ListSet /\ 0 \in 0 .. MaxValue /\ 0 \in Slots /\ 0 \in 0 .. N
    BY Geometry DEF ListSet, Slots
  <2>2. 0 \in U16
    BY <2>1, Geometry
  <2>3. NoWalk \in Searches
    BY <2>1, <2>2 DEF NoWalk, Searches
  <2>4. QED BY <2>3 DEF Init, SearchInv, NoWalk
<1>8. QED BY <1>3, <1>4, <1>5, <1>6, <1>7 DEF IInv, ListInv, RingInv

(* Every call and every turn of a search keeps it.                         *)
LEMMA NextIInv == IInv /\ [Next]_vars => IInv'
<1> SUFFICES ASSUME IInv, [Next]_vars PROVE IInv'
  OBVIOUS
<1> USE DEF IInv
<1>0. ItemIds \subseteq U16 /\ ListIds \subseteq 0 .. NO_LIST /\ Values \subseteq 0 .. MaxValue
  BY CallsFit
<1>1. ASSUME NEW list \in ListIds, NEW item \in ItemIds, NEW v \in Values,
             Insert(list, item, v)
      PROVE  IInv'
  <2>1. ListInv'
    BY <1>0, <1>1, InsertStep
  <2>2. walk' \in Searches /\ SearchInv'
    BY <1>0, <1>1, SearchStart, NoSearchStep DEF Insert
  <2>3. QED BY <2>1, <2>2
<1>2. ASSUME NEW list \in ListIds, NEW item \in ItemIds, NEW v \in Values,
             InsertSorted(list, item, v)
      PROVE  IInv'
  <2>1. ListInv'
    BY <1>0, <1>2, InsertSortedStep
  <2>2. walk' \in Searches /\ SearchInv'
    BY <1>0, <1>2, SearchStart, NoSearchStep DEF InsertSorted
  <2>3. QED BY <2>1, <2>2
<1>3. ASSUME NEW list \in ListIds, NEW item \in ItemIds, InsertKeepingValue(list, item)
      PROVE  IInv'
  <2>1. ListInv'
    BY <1>0, <1>3, InsertKeepingStep
  <2>2. walk' \in Searches /\ SearchInv'
    <3>1. CASE UNCHANGED walk
      BY <1>3, <3>1, NoSearchStep DEF InsertKeepingValue
    <3>2. CASE list \in ListSet /\ item \in Items /\ InsertInner(list, item, value[item], FALSE)
      <4>1. value[item] \in 0 .. MaxValue
        BY <3>2, Geometry DEF ListInv, Typed
      <4>2. QED BY <1>0, <1>3, <3>2, <4>1, SearchStart DEF InsertKeepingValue
    <3>3. QED BY <1>3, <3>1, <3>2 DEF InsertKeepingValue
  <2>3. QED BY <2>1, <2>2
<1>4. ASSUME NEW list \in ListIds, NEW item \in ItemIds, InsertEnd(list, item)
      PROVE  IInv'
  BY <1>0, <1>4, InsertEndStep, NoSearchStep DEF InsertEnd
<1>5. ASSUME NEW list \in ListIds, NEW item \in ItemIds, MoveToEnd(list, item)
      PROVE  IInv'
  BY <1>0, <1>5, MoveToEndStep, NoSearchStep DEF MoveToEnd
<1>6. ASSUME NEW item \in ItemIds, Remove(item)
      PROVE  IInv'
  BY <1>0, <1>6, RemoveStep, NoSearchStep DEF Remove
<1>7. ASSUME NEW item \in ItemIds, NEW v \in Values, SetValue(item, v)
      PROVE  IInv'
  BY <1>0, <1>7, SetValueStep, NoSearchStep DEF SetValue
<1>8. ASSUME NEW list \in ListIds, NextRoundRobin(list)
      PROVE  IInv'
  BY <1>0, <1>8, RoundRobinStep, NoSearchStep DEF NextRoundRobin
<1>9. CASE WalkOn
  BY <1>9, WalkOnStep
<1>10. CASE WalkStop
  BY <1>10, WalkStopStep, WalkStopSearch
<1>11. CASE UNCHANGED vars
  <2>1. UNCHANGED <<nodes, meta>> /\ ret' = ret /\ walk' = walk
    BY <1>11 DEF vars, nodes, meta
  <2>2. ListInv'
    BY <2>1, SameListsStep DEF ListInv, Typed
  <2>3. Searches' = Searches
    BY DEF Searches, Slots, ListSet
  <2>4. SearchInv'
    <3>1. next' = next /\ prev' = prev /\ value' = value
      BY <2>1 DEF nodes
    <3>2. /\ Members(walk.list)' = Members(walk.list)
          /\ Ring(walk.list)' = Ring(walk.list)
          /\ EndOf(walk.list)' = EndOf(walk.list)
      BY <2>1 DEF Members, Ring, nodes
    <3>3. QED BY <2>1, <3>1, <3>2 DEF SearchInv
  <2>5. QED BY <2>1, <2>2, <2>3, <2>4
<1>12. QED
  BY <1>1, <1>2, <1>3, <1>4, <1>5, <1>6, <1>7, <1>8, <1>9, <1>10, <1>11 DEF Next

(* So it holds in every state.                                             *)
LEMMA Inductive == Spec => []IInv
BY InitIInv, NextIInv, PTL DEF Spec

(* Every call leaves every field within its type; no link that is followed *)
(* ever leaves the slots, so no mask and no wrap ever changes a number.    *)
THEOREM TypeCorrect == Spec => []TypeOK
<1>1. IInv => TypeOK
  BY TypeSplit DEF IInv, ListInv
<1>2. QED BY <1>1, Inductive, PTL

(* Whatever is called, each list is one ring, read alike in both           *)
(* directions.                                                             *)
THEOREM RingsHold == Spec => []OneRing
<1>1. IInv => OneRing
  BY DEF IInv, ListInv, RingInv
<1>2. QED BY <1>1, Inductive, PTL

(* The count of a list is the number of its members, and its cursor never  *)
(* rests on an item that has left.                                         *)
THEOREM CountsHold == Spec => []CountAndCursor
<1>1. IInv => CountAndCursor
  BY DEF IInv, ListInv, RingInv
<1>2. QED BY <1>1, Inductive, PTL

(* No call reaches a marker's value or makes it a member, so every search  *)
(* has a place to stop.                                                    *)
THEOREM MarkersHold == Spec => []MarkersIntact
<1>1. IInv => MarkersIntact
  BY DEF IInv, ListInv, RingInv
<1>2. QED BY <1>1, Inductive, PTL

(* A search never meets an item twice, so it takes at most as many turns   *)
(* as the list has members, and its debug guard never fires.               *)
THEOREM SearchHolds == Spec => []SearchInv
<1>1. IInv => SearchInv
  BY DEF IInv
<1>2. QED BY <1>1, Inductive, PTL

-----------------------------------------------------------------------------
(* What the rings imply for those who use the lists: emptiness, order, and *)
(* turns, for every number of slots, lists, values and calls.              *)

(* What the invariant says of one ring, in one place.                      *)
LEMMA RingShape ==
  ASSUME ListInv, NEW l \in ListSet
  PROVE  /\ Doubly(next, prev, Ring(l)) /\ OneCycle(next, Ring(l))
         /\ Members(l) = Ring(l) \ {EndOf(l)}
         /\ EndOf(l) \in Slots /\ At(EndOf(l)) = EndOf(l)
         /\ \A s \in Ring(l) : IsEnd(s) <=> s = EndOf(l)
         /\ \A s \in Ring(l) : s \in Slots /\ At(s) = s
         /\ \A s \in Ring(l) : value[s] \in 0 .. MaxValue
         /\ value[EndOf(l)] = MaxValue
         /\ len[l] = Cardinality(Members(l)) /\ cursor[l] \in Ring(l)
<1>1. /\ Members(l) = Ring(l) \ {EndOf(l)}
      /\ EndOf(l) \in Slots /\ At(EndOf(l)) = EndOf(l)
  BY RingFacts, Ends, AtSlot DEF Ring
<1>2. \A s \in Ring(l) : IsEnd(s) <=> s = EndOf(l)
  BY RingFacts, Ends DEF Ring
<1>3. \A s \in Ring(l) : s \in Slots /\ At(s) = s /\ value[s] \in 0 .. MaxValue
  BY RingFacts, AtSlot DEF ListInv, Typed
<1>4. value[EndOf(l)] = MaxValue
  BY Ends DEF ListInv, RingInv, MarkersIntact
<1>5. QED BY <1>1, <1>2, <1>3, <1>4 DEF ListInv, RingInv, OneRing, CountAndCursor

(* The count is 0 exactly when the marker is alone in its ring.            *)
LEMMA EmptyRing ==
  ASSUME ListInv, NEW l \in ListSet
  PROVE  /\ len[l] = 0 <=> Members(l) = {}
         /\ len[l] = 0 <=> next[EndOf(l)] = EndOf(l)
<1>1. IsFiniteSet(Members(l))
  BY RingFacts, SubsetCount
<1>2. len[l] = 0 <=> Members(l) = {}
  BY <1>1, FS_EmptySet, RingShape
<1>3. ASSUME next[EndOf(l)] = EndOf(l) PROVE Members(l) = {}
  <2> DEFINE S == {EndOf(l)}
  <2>1. S \subseteq Ring(l) /\ S # {} /\ \A s \in S : next[s] \in S
    BY <1>3, RingFacts
  <2>2. S = Ring(l)
    BY <2>1, RingShape, OneCycleApply
  <2>3. QED BY <2>2, RingShape
<1>4. ASSUME Members(l) = {} PROVE next[EndOf(l)] = EndOf(l)
  <2>1. Ring(l) = {EndOf(l)}
    BY <1>4 DEF Ring
  <2>2. QED BY <2>1, RingShape DEF Doubly
<1>5. QED BY <1>2, <1>3, <1>4

(* The head of a list that has members is the one behind the marker.       *)
LEMMA HeadOfMembers ==
  ASSUME ListInv, NEW l \in ListSet, len[l] # 0
  PROVE  /\ Head(l) = Ok(next[EndOf(l)]) /\ Head(l) # Nothing
         /\ next[EndOf(l)] \in Members(l) /\ HeadValue(l) = value[next[EndOf(l)]]
<1>1. Ok(next[EndOf(l)]) # Nothing
  BY DEF Ok, Nothing, Err
<1>2. next[EndOf(l)] \in Ring(l) /\ next[EndOf(l)] # EndOf(l)
  BY EmptyRing, RingShape, RingFacts DEF Doubly
<1>3. ~IsEnd(next[EndOf(l)]) /\ next[EndOf(l)] \in Members(l)
  BY <1>2, RingShape
<1>4. len[l] > 0
  BY DEF ListInv, Typed
<1>5. Head(l) = Ok(next[EndOf(l)])
  BY <1>3, <1>4, RingShape DEF Head
<1>6. HeadValue(l) = value[next[EndOf(l)]]
  BY <1>2, RingShape DEF HeadValue
<1>7. QED BY <1>1, <1>3, <1>5, <1>6

(* The count, the head and the marker's link say the same of emptiness.    *)
THEOREM EmptinessAgrees == Spec => []EmptyAgrees
<1>1. IInv => EmptyAgrees
  <2> SUFFICES ASSUME ListInv PROVE EmptyAgrees
    BY DEF IInv
  <2> DEFINE There(l) == {i \in Items : ContainerOf(i) = Ok(l)}
  <2>1. ASSUME NEW i \in Items, NEW l PROVE ContainerOf(i) = Ok(l) <=>
                                              container[i] # NO_LIST /\ container[i] = l
    BY DEF ContainerOf, Ok, Nothing, Err
  <2>2. ASSUME NEW l \in ListSet
        PROVE  /\ LenOf(l) = Ok(Cardinality(There(l)))
               /\ IsEmpty(l) = Ok(IF There(l) = {} THEN 1 ELSE 0)
               /\ There(l) = {} <=> next[EndOf(l)] = EndOf(l)
               /\ There(l) = {} <=> Head(l) = Nothing
               /\ IsEmptyOf(l) <=> There(l) = {}
    <3>1. l # NO_LIST
      BY SizesFit DEF ListSet, NO_LIST
    <3>2. There(l) = Members(l)
      BY <2>1, <3>1 DEF Members
    <3>3. len[l] = Cardinality(Members(l))
      BY RingShape
    <3>4. len[l] = 0 => Head(l) = Nothing
      BY DEF Head
    <3>5. /\ len[l] = 0 <=> Members(l) = {}
          /\ len[l] = 0 <=> next[EndOf(l)] = EndOf(l)
          /\ len[l] = 0 <=> Head(l) = Nothing
      BY <3>4, HeadOfMembers, EmptyRing
    <3> HIDE DEF There
    <3>6. QED BY <3>2, <3>3, <3>5 DEF LenOf, IsEmpty, IsEmptyOf
  <2>3. ASSUME NEW l, l \notin ListSet PROVE IsEmptyOf(l) /\ There(l) = {}
    <3>1. \A i \in Items : container[i] \in ListSet \cup {NO_LIST}
      BY Geometry DEF ListInv, Typed
    <3>2. \A i \in Items : ContainerOf(i) # Ok(l)
      BY <2>1, <2>3, <3>1
    <3>3. QED BY <2>3, <3>2 DEF IsEmptyOf
  <2>4. ASSUME NEW l \in ListIds
        PROVE  IsEmptyOf(l) <=> \A i \in Items : ContainerOf(i) # Ok(l)
    <3>1. There(l) = {} <=> \A i \in Items : ContainerOf(i) # Ok(l)
      OBVIOUS
    <3>2. IsEmptyOf(l) <=> There(l) = {}
      BY <2>2, <2>3
    <3>3. QED BY <3>1, <3>2
  <2>5. QED BY <2>2, <2>4 DEF EmptyAgrees
<1>2. QED BY <1>1, Inductive, PTL

(* In a list in order, reading the head alone finds the least value and    *)
(* reading the tail alone the greatest: the items at least the head's form *)
(* with the marker a part of the ring closed under next, hence all of it.  *)
LEMMA HeadLeastInv ==
  ASSUME ListInv PROVE HeadIsLeast
<1> SUFFICES ASSUME NEW l \in ListSet, InOrder(l), NEW m \in Members(l)
             PROVE  HeadValue(l) <= value[m] /\ value[m] <= TailValue(l)
  BY DEF HeadIsLeast
<1> DEFINE e == EndOf(l)
           h == next[e]
           t == prev[e]
<1>1. /\ e \in Ring(l) /\ h \in Ring(l) /\ t \in Ring(l) /\ At(e) = e /\ At(h) = h /\ At(t) = t
      /\ next[t] = e /\ value[e] = MaxValue
  BY RingShape, RingFacts DEF Doubly
<1>2. \A s \in Ring(l) : value[s] \in Int /\ next[s] \in Ring(l)
  BY RingShape DEF Doubly
<1>3. \A s \in Ring(l) : s # e => value[s] <= value[next[s]]
  BY RingShape DEF InOrder
<1>4. m \in Ring(l) /\ m # e
  BY RingShape
<1> HIDE DEF e
<1>5. value[h] <= value[m]
  <2> DEFINE S == {e} \cup {s \in Ring(l) : value[h] <= value[s]}
  <2>1. \A s \in S : next[s] \in S
    <3> SUFFICES ASSUME NEW s \in S PROVE next[s] \in S
      OBVIOUS
    <3>1. CASE s = e BY <3>1, <1>1, <1>2
    <3>2. CASE s # e
      <4>1. s \in Ring(l) /\ value[h] <= value[s] /\ value[s] <= value[next[s]]
        BY <3>2, <1>3
      <4>2. value[h] <= value[next[s]] /\ next[s] \in Ring(l)
        BY <4>1, <1>1, <1>2
      <4>3. QED BY <4>2
    <3>3. QED BY <3>1, <3>2
  <2>2. S \subseteq Ring(l) /\ S # {}
    BY <1>1
  <2> HIDE DEF S
  <2>3. S = Ring(l)
    BY <2>1, <2>2, RingShape, OneCycleApply
  <2>4. QED BY <2>3, <1>4 DEF S
<1>6. value[m] <= value[t]
  <2> DEFINE S == {s \in Ring(l) : s # e /\ value[s] > value[t]}
  <2> SUFFICES ASSUME value[m] > value[t] PROVE FALSE
    BY <1>1, <1>2, <1>4
  <2>1. \A s \in S : next[s] \in S
    <3> SUFFICES ASSUME NEW s \in S PROVE next[s] \in S
      OBVIOUS
    <3>1. s \in Ring(l) /\ s # e /\ value[s] > value[t] /\ value[s] <= value[next[s]]
      BY <1>3
    <3>2. s # t
      BY <3>1, <1>1, <1>2
    <3>3. next[s] # e
      BY <3>1, <3>2, <1>1, RingShape DEF Doubly
    <3>4. value[next[s]] > value[t] /\ next[s] \in Ring(l)
      BY <3>1, <1>1, <1>2
    <3>5. QED BY <3>3, <3>4
  <2>2. S \subseteq Ring(l) /\ m \in S /\ e \notin S
    BY <1>4
  <2> HIDE DEF S
  <2>3. S = Ring(l)
    BY <2>1, <2>2, RingShape, OneCycleApply
  <2>4. QED BY <2>2, <2>3, <1>1
<1>7. HeadValue(l) = value[h] /\ TailValue(l) = value[t]
  BY <1>1 DEF HeadValue, TailValue, e
<1>8. QED BY <1>5, <1>6, <1>7

(* So it is in every state.                                                *)
THEOREM HeadLeast == Spec => []HeadIsLeast
BY HeadLeastInv, Inductive, PTL DEF IInv

(* The round robin of a list that is not empty never answers a marker, and *)
(* moves on when there is somebody else to move on to.                     *)
THEOREM TurnsGoToMembers == Spec => TurnGoesToMember
<1> DEFINE A == \A l \in ListIds : NextRoundRobin(l) /\ l \in ListSet /\ len[l] # 0 =>
                  /\ ret'.answer \in Members(l)
                  /\ len[l] > 1 => CursorOf(l)' # CursorOf(l)
                  /\ CursorOf(l)' = ret'
<1>1. IInv => A
  <2> SUFFICES ASSUME ListInv, NEW l \in ListSet, NextRoundRobin(l), len[l] # 0
               PROVE  /\ ret'.answer \in Members(l)
                      /\ len[l] > 1 => CursorOf(l)' # CursorOf(l)
                      /\ CursorOf(l)' = ret'
    BY DEF IInv
  <2> DEFINE e == EndOf(l)
             c == cursor[l]
             first == next[At(c)]
             nxt == IF first = e THEN next[At(first)] ELSE first
  <2>1. ret' = Ok(nxt) /\ ret'.answer = nxt /\ cursor'[l] = nxt
    <3>1. cursor' = [cursor EXCEPT ![l] = nxt] /\ ret' = Ok(nxt)
      BY DEF NextRoundRobin
    <3> HIDE DEF nxt
    <3>2. QED BY <3>1 DEF ListInv, Typed, Ok
  <2>2. /\ c \in Ring(l) /\ e \in Ring(l) /\ At(c) = c /\ At(e) = e
        /\ first \in Ring(l) /\ next[e] \in Ring(l) /\ next[e] # e
        /\ Members(l) = Ring(l) \ {e}
    BY RingShape, RingFacts, EmptyRing DEF Doubly
  <2> HIDE DEF e, c
  <2>3. nxt \in Members(l)
    BY <2>2
  <2>4. ASSUME len[l] > 1, nxt = c PROVE FALSE
    <3>1. c \in Members(l)
      BY <2>3, <2>4
    <3>2. CASE first # e
      <4> DEFINE S == {c}
      <4>1. S \subseteq Ring(l) /\ S # {} /\ \A s \in S : next[s] \in S
        BY <3>2, <2>2, <2>4
      <4>2. S = Ring(l)
        BY <4>1, RingShape, OneCycleApply
      <4>3. QED BY <3>1, <4>2, <2>2
    <3>3. CASE first = e
      <4> DEFINE S == {c, e}
      <4>1. S \subseteq Ring(l) /\ S # {} /\ \A s \in S : next[s] \in S
        BY <3>3, <2>2, <2>4
      <4>2. S = Ring(l)
        BY <4>1, RingShape, OneCycleApply
      <4>3. Members(l) = {c}
        BY <3>1, <4>2, <2>2
      <4>4. len[l] = 1
        BY <4>3, FS_Singleton, RingShape
      <4>5. ~(1 > 1)
        OBVIOUS
      <4>6. QED BY <2>4, <4>4, <4>5
    <3>4. QED BY <3>2, <3>3
  <2>5. /\ CursorOf(l)' = Ok(nxt) /\ CursorOf(l) = Ok(c)
        /\ nxt # c => Ok(nxt) # Ok(c)
    <3> HIDE DEF nxt
    <3>1. CursorOf(l) = Ok(c) /\ CursorOf(l)' = Ok(cursor'[l])
      BY DEF CursorOf, c, Ok, ListSet
    <3>2. QED BY <2>1, <3>1 DEF Ok
  <2> HIDE DEF nxt
  <2>6. QED BY <2>1, <2>3, <2>4, <2>5
<1>2. Spec => [][A]_vars
  <2> HIDE DEF A
  <2>1. IInv /\ [Next]_vars => [A]_vars
    BY <1>1
  <2>2. QED BY <2>1, Inductive, PTL DEF Spec
<1>3. QED BY <1>2 DEF TurnGoesToMember

-----------------------------------------------------------------------------
(* Order. An ordered insert links between two neighbours that its value    *)
(* fits between; a removal closes a gap; nothing else the property allows  *)
(* touches a link or a value.                                              *)

KeepsOrder == \A l \in ListSet : InOrder(l) => InOrder(l)'

PlacesWell ==
  \A l \in ListSet : \A i \in Members(l)' \ Members(l) :
    /\ IsEnd(prev'[i]) \/ value[prev'[i]] <= value'[i]
    /\ IsEnd(next'[i]) \/ value[next'[i]] > value'[i]

Fits(list, before, after, v) ==
  /\ before \in Ring(list) /\ next[before] = after
  /\ IsEnd(before) \/ value[before] <= v
  /\ IsEnd(after) \/ value[after] > v

(* A step that writes no node keeps the order and places nothing.          *)
LEMMA SameNodes ==
  ASSUME UNCHANGED nodes PROVE KeepsOrder /\ PlacesWell
<1>1. \A l \in ListSet : Members(l)' = Members(l)
  BY DEF Members, nodes
<1>2. KeepsOrder
  BY <1>1 DEF KeepsOrder, InOrder, nodes
<1>3. PlacesWell
  BY <1>1 DEF PlacesWell
<1>4. QED BY <1>2, <1>3

(* A linked item is where its value belongs, and the list stays in order.  *)
LEMMA OrderedLink ==
  ASSUME ListInv, NEW list \in ListSet, NEW item \in U16, NEW before, NEW after,
         NEW write \in BOOLEAN, NEW v \in 0 .. MaxValue,
         Fits(list, before, after, v),
         write \/ (item \in Items => value[item] = v),
         LinkBetween(list, item, before, after, write, v)
  PROVE  KeepsOrder /\ PlacesWell
<1>1. CASE Refuse("InvalidArgument") \/ Refuse("Busy")
  BY <1>1, SameNodes DEF Refuse
<1>2. CASE /\ item \in Items /\ container[item] = NO_LIST
           /\ value' = IF write THEN [value EXCEPT ![item] = v] ELSE value
           /\ next' = LinkNext(next, item, before, after)
           /\ prev' = LinkPrev(prev, item, before, after)
           /\ container' = [container EXCEPT ![item] = list]
  <2>1. /\ item \in Slots /\ \A l \in ListSet : item \notin Ring(l)
        /\ before \in Ring(list) /\ before \in Slots /\ At(before) = before
        /\ after \in Ring(list) /\ after \in Slots /\ At(after) = after
        /\ before # item /\ after # item
    <3>1. item \in Slots /\ \A l \in ListSet : item \notin Ring(l)
      BY <1>2, Geometry, Ends DEF Members, Ring
    <3>2. before \in Ring(list) /\ after \in Ring(list)
      BY BeforeInRing DEF Fits
    <3>3. QED BY <3>1, <3>2, RingFacts, AtSlot
  <2>2. /\ Members(list)' = Members(list) \cup {item}
        /\ \A l \in ListSet : l # list => Members(l)' = Members(l)
    BY <1>2, <2>1, Geometry DEF Members, ListInv, Typed
  <2>3. /\ next'[before] = item /\ next'[item] = after /\ prev'[item] = before
        /\ \A s \in Slots : s # item /\ s # before => next'[s] = next[s]
    BY <1>2, <2>1 DEF LinkNext, LinkPrev, ListInv, Typed
  <2>4. value'[item] = v /\ \A s \in Slots : s # item => value'[s] = value[s]
    BY <1>2, <2>1 DEF ListInv, Typed
  <2>5. /\ v \in Int /\ value[before] \in Int /\ value[after] \in Int
        /\ v <= value[after]
        /\ \A l \in ListSet : \A s \in Members(l) : ~IsEnd(s)
    <3>1. IsEnd(after) => value[after] = MaxValue
      BY <2>1, RingShape, Ends DEF ListInv, RingInv, MarkersIntact
    <3>2. v \in Int /\ v <= MaxValue /\ value[before] \in Int /\ value[after] \in Int
      BY <2>1, Geometry DEF ListInv, Typed
    <3>3. \A l \in ListSet : \A s \in Members(l) : ~IsEnd(s)
      BY RingFacts, Ends, Geometry
    <3>4. QED BY <3>1, <3>2, <3>3 DEF Fits
  <2>6. KeepsOrder
    <3> SUFFICES ASSUME NEW l \in ListSet, InOrder(l), NEW s \in Members(l)'
                 PROVE  value'[s] <= value'[next'[s]]
      BY DEF KeepsOrder, InOrder
    <3>1. CASE s = item
      BY <2>1, <2>3, <2>4, <2>5, <3>1
    <3>2. CASE s # item
      <4>1. s \in Members(l) /\ s \in Slots /\ next[s] \in Ring(l) /\ next[s] # item
            /\ next[s] \in Slots /\ ~IsEnd(s) /\ value[s] <= value[next[s]]
        <5>1. s \in Members(l)
          BY <2>2, <3>2
        <5>2. s \in Ring(l)
          BY <5>1 DEF Ring
        <5>3. QED BY <5>1, <5>2, <2>1, <2>5, BeforeInRing, RingFacts DEF InOrder
      <4>2. CASE s = before
        BY <2>1, <2>3, <2>4, <2>5, <4>1, <4>2 DEF Fits
      <4>3. CASE s # before
        BY <2>3, <2>4, <3>2, <4>1, <4>3
      <4>4. QED BY <4>2, <4>3
    <3>3. QED BY <3>1, <3>2
  <2>7. PlacesWell
    <3> SUFFICES ASSUME NEW l \in ListSet, NEW i \in Members(l)' \ Members(l)
                 PROVE  /\ IsEnd(prev'[i]) \/ value[prev'[i]] <= value'[i]
                        /\ IsEnd(next'[i]) \/ value[next'[i]] > value'[i]
      BY DEF PlacesWell
    <3>1. i = item
      BY <2>2
    <3>2. QED BY <2>3, <2>4, <3>1 DEF Fits
  <2>8. QED BY <2>6, <2>7
<1>3. QED BY <1>1, <1>2 DEF LinkBetween

(* In front of the marker belongs what is not below the tail.              *)
LEMMA FitsAtTail ==
  ASSUME ListInv, NEW list \in ListSet, NEW v \in 0 .. MaxValue,
         v >= value[At(prev[At(EndOf(list))])] \/ v = MaxValue
  PROVE  Fits(list, prev[At(EndOf(list))], EndOf(list), v)
<1>1. EndOf(list) \in Ring(list) /\ At(EndOf(list)) = EndOf(list) /\ IsEnd(EndOf(list))
  BY RingFacts, RingShape, Ends
<1>2. /\ prev[EndOf(list)] \in Ring(list) /\ next[prev[EndOf(list)]] = EndOf(list)
      /\ At(prev[EndOf(list)]) = prev[EndOf(list)]
      /\ value[prev[EndOf(list)]] \in 0 .. MaxValue
  BY <1>1, BeforeInRing, RingShape
<1>3. value[prev[EndOf(list)]] <= v
  BY <1>1, <1>2, Geometry
<1>4. QED BY <1>1, <1>2, <1>3 DEF Fits

(* Where a search stops, its value fits.                                   *)
LEMMA FitsWhereStopped ==
  ASSUME ListInv, walk \in Searches, SearchInv, walk.on, ~Passes
  PROVE  /\ Fits(walk.list, walk.before, walk.after, walk.value)
         /\ walk.write \/ (walk.item \in Items => value[walk.item] = walk.value)
<1>1. /\ walk.before \in Ring(walk.list) /\ next[walk.before] = walk.after
      /\ walk.before \notin Items \/ value[walk.before] <= walk.value
      /\ walk.write \/ (walk.item \in Items => value[walk.item] = walk.value)
      /\ walk.list \in ListSet /\ walk.value \in 0 .. MaxValue
  BY SearchFields DEF SearchInv
<1>2. /\ walk.before \in Slots /\ At(walk.after) = walk.after
      /\ walk.after \in Slots /\ value[walk.after] \in 0 .. MaxValue
  BY <1>1, BeforeInRing, RingFacts, RingShape
<1>3. value[walk.after] > walk.value
  BY <1>1, <1>2, Geometry DEF Passes
<1>4. QED BY <1>1, <1>2, <1>3, Ends DEF Fits

(* insert_inner before its search: in front of the marker nothing is       *)
(* above.                                                                  *)
LEMMA InnerKeeps ==
  ASSUME ListInv, NEW list \in ListSet, NEW item \in U16, NEW v \in 0 .. MaxValue,
         NEW write \in BOOLEAN, write \/ (item \in Items => value[item] = v),
         InsertInner(list, item, v, write)
  PROVE  KeepsOrder /\ PlacesWell
<1>1. CASE v = MaxValue /\ LinkBetween(list, item, prev[At(EndOf(list))], EndOf(list), write, v)
  BY <1>1, FitsAtTail, OrderedLink
<1>2. CASE UNCHANGED <<nodes, meta, ret>>
  BY <1>2, SameNodes
<1>3. QED BY <1>1, <1>2 DEF InsertInner

(* insert_sorted, which may append without a search.                       *)
LEMMA SortedKeeps ==
  ASSUME ListInv, NEW list, NEW item \in U16, NEW v \in 0 .. MaxValue,
         InsertSorted(list, item, v)
  PROVE  KeepsOrder /\ PlacesWell
<1>1. CASE Refuse("InvalidArgument")
  BY <1>1, SameNodes DEF Refuse
<1>2. CASE /\ list \in ListSet /\ v >= value[At(prev[At(EndOf(list))])]
           /\ LinkBetween(list, item, prev[At(EndOf(list))], EndOf(list), TRUE, v)
  BY <1>2, FitsAtTail, OrderedLink
<1>3. CASE list \in ListSet /\ InsertInner(list, item, v, TRUE)
  BY <1>3, InnerKeeps
<1>4. QED BY <1>1, <1>2, <1>3 DEF InsertSorted

(* The end of a search.                                                    *)
LEMMA StopKeeps ==
  ASSUME ListInv, walk \in Searches, SearchInv, WalkStop
  PROVE  KeepsOrder /\ PlacesWell
<1>1. /\ Fits(walk.list, walk.before, walk.after, walk.value)
      /\ walk.write \/ (walk.item \in Items => value[walk.item] = walk.value)
      /\ LinkBetween(walk.list, walk.item, walk.before, walk.after, walk.write, walk.value)
  BY FitsWhereStopped DEF WalkStop
<1>2. QED BY <1>1, SearchFields, OrderedLink

(* A removal brings together two members already in order.                 *)
LEMMA RemoveKeeps ==
  ASSUME ListInv, NEW item \in U16, Remove(item)
  PROVE  KeepsOrder /\ PlacesWell
<1>1. CASE Refuse("InvalidArgument") \/ Refuse("NotActive")
  BY <1>1, SameNodes DEF Refuse
<1>2. CASE item \in Items /\ container[item] # NO_LIST
  <2>p. PICK list \in ListSet : list = container[item]
    BY <1>2, Geometry DEF ListInv, Typed
  <2>1. /\ next' = SkipNext(next, prev, item) /\ value' = value
        /\ container' = [container EXCEPT ![item] = NO_LIST]
        /\ item \in Members(list)
    BY <1>2, <2>p DEF Remove, Members
  <2>2. \A l \in ListSet : Members(l)' = Members(l) \ {item}
    BY <1>2, <2>1, Geometry DEF Members, ListInv, Typed
  <2>3. PlacesWell
    BY <2>2 DEF PlacesWell
  <2>4. /\ prev[item] \in Ring(list) /\ next[prev[item]] = item
        /\ next[item] \in Ring(list) /\ At(prev[item]) = prev[item] /\ prev[item] \in Slots
        /\ item \in Slots
    BY <2>1, BeforeInRing, SkipFacts, RingFacts DEF Ring
  <2>5. /\ next'[prev[item]] = next[item]
        /\ \A s \in Slots : s # prev[item] => next'[s] = next[s]
    BY <2>1, <2>4 DEF SkipNext, ListInv, Typed
  <2>6. KeepsOrder
    <3> SUFFICES ASSUME NEW l \in ListSet, InOrder(l), NEW s \in Members(l) \ {item}
                 PROVE  value[s] <= value[next'[s]]
      BY <2>1, <2>2 DEF KeepsOrder, InOrder
    <3>1. s \in Slots /\ s \in Ring(l) /\ value[s] <= value[next[s]]
      BY RingFacts DEF Ring, InOrder
    <3>2. CASE s # prev[item]
      BY <2>5, <3>1, <3>2
    <3>3. CASE s = prev[item]
      <4>1. l = list
        BY <2>4, <3>1, <3>3, RingFacts
      <4>2. value[s] <= value[item] /\ value[item] <= value[next[item]]
        BY <2>1, <2>4, <3>1, <3>3, <4>1 DEF InOrder
      <4>3. value[s] \in Int /\ value[item] \in Int /\ value[next[item]] \in Int
        <5>1. item \in Ring(list) /\ s \in Ring(list)
          BY <2>1, <3>1, <4>1 DEF Ring
        <5>2. \A t \in Ring(list) : value[t] \in 0 .. MaxValue
          BY RingShape
        <5>3. QED BY <2>4, <5>1, <5>2, Geometry
      <4>4. QED BY <2>5, <3>3, <4>2, <4>3
    <3>4. QED BY <3>2, <3>3
  <2>7. QED BY <2>3, <2>6
<1>3. QED BY <1>1, <1>2 DEF Remove

(* Every step but those of the operations that do not look at values.      *)
LEMMA StepKeeps ==
  ASSUME IInv, Next
  PROVE  \/ KeepsOrder /\ PlacesWell
         \/ \E l \in ListIds, i \in ItemIds : InsertEnd(l, i) \/ MoveToEnd(l, i)
         \/ \E i \in ItemIds, v \in Values : SetValue(i, v)
<1> USE DEF IInv
<1>0. ItemIds \subseteq U16 /\ ListIds \subseteq 0 .. NO_LIST /\ Values \subseteq 0 .. MaxValue
  BY CallsFit
<1>1. ASSUME NEW list \in ListIds, NEW item \in ItemIds, NEW v \in Values, Insert(list, item, v)
      PROVE  KeepsOrder /\ PlacesWell
  <2>1. CASE Refuse("InvalidArgument")
    BY <2>1, SameNodes DEF Refuse
  <2>2. CASE list \in ListSet /\ InsertInner(list, item, v, TRUE)
    BY <1>0, <2>2, InnerKeeps
  <2>3. QED BY <1>1, <2>1, <2>2 DEF Insert
<1>2. ASSUME NEW list \in ListIds, NEW item \in ItemIds, NEW v \in Values,
             InsertSorted(list, item, v)
      PROVE  KeepsOrder /\ PlacesWell
  BY <1>0, <1>2, SortedKeeps
<1>3. ASSUME NEW list \in ListIds, NEW item \in ItemIds, InsertKeepingValue(list, item)
      PROVE  KeepsOrder /\ PlacesWell
  <2>1. CASE Refuse("InvalidArgument")
    BY <2>1, SameNodes DEF Refuse
  <2>2. CASE list \in ListSet /\ item \in Items /\ InsertInner(list, item, value[item], FALSE)
    <3>1. value[item] \in 0 .. MaxValue
      BY <2>2, Geometry DEF ListInv, Typed
    <3>2. QED BY <1>0, <2>2, <3>1, InnerKeeps
  <2>3. QED BY <1>3, <2>1, <2>2 DEF InsertKeepingValue
<1>4. ASSUME NEW item \in ItemIds, Remove(item) PROVE KeepsOrder /\ PlacesWell
  BY <1>0, <1>4, RemoveKeeps
<1>5. ASSUME NEW list \in ListIds, NextRoundRobin(list) PROVE KeepsOrder /\ PlacesWell
  BY <1>5, SameNodes DEF NextRoundRobin, Refuse
<1>6. CASE WalkOn
  BY <1>6, SameNodes DEF WalkOn
<1>7. CASE WalkStop
  BY <1>7, StopKeeps
<1>8. QED BY <1>1, <1>2, <1>3, <1>4, <1>5, <1>6, <1>7 DEF Next

(* insert_end and move_to_end leave the other lists alone, and what enters *)
(* a list through insert_end is the item of the call.                      *)
LEMMA InsertEndApart ==
  ASSUME ListInv, NEW k \in ListIds, NEW item \in ItemIds, InsertEnd(k, item),
         NEW l \in ListSet
  PROVE  /\ k # l /\ InOrder(l) => InOrder(l)'
         /\ \A i \in Members(l)' \ Members(l) : k = l /\ i = item
<1>1. CASE UNCHANGED nodes
  BY <1>1, SameNodes DEF KeepsOrder, Members, nodes
<1>2. CASE k \in ListSet /\ LinkBetween(k, item, prev[At(cursor[k])], cursor[k], FALSE, 0)
  <2> DEFINE c == cursor[k]
             before == prev[At(c)]
  <2>1. /\ c \in Ring(k) /\ At(c) = c /\ before \in Ring(k) /\ At(before) = before
    <3>1. c \in Ring(k)
      BY <1>2 DEF ListInv, RingInv, CountAndCursor
    <3>2. At(c) = c /\ before \in Ring(k)
      BY <1>2, <3>1, BeforeInRing
    <3>3. QED BY <1>2, <3>1, <3>2, BeforeInRing
  <2>2. CASE Refuse("InvalidArgument") \/ Refuse("Busy")
    BY <1>1, <2>2 DEF Refuse
  <2>3. CASE /\ item \in Items /\ container[item] = NO_LIST
             /\ value' = IF FALSE THEN [value EXCEPT ![item] = 0] ELSE value
             /\ next' = LinkNext(next, item, before, c)
             /\ container' = [container EXCEPT ![item] = k]
    <3>1. Members(l)' = IF k = l THEN Members(l) \cup {item} ELSE Members(l)
      BY <1>2, <2>3, Geometry DEF Members, ListInv, Typed
    <3>2. ASSUME k # l, InOrder(l) PROVE InOrder(l)'
      <4>1. ASSUME NEW s \in Members(l) PROVE next'[s] = next[s]
        <5>1. s \in Ring(l) /\ s \in Slots /\ s # item
          BY <2>3, Geometry, RingFacts DEF Members, Ring
        <5>2. s # before
          BY <1>2, <2>1, <3>2, <5>1, RingFacts
        <5>3. QED BY <2>1, <2>3, <5>1, <5>2 DEF LinkNext, ListInv, Typed
      <4>2. value' = value /\ Members(l)' = Members(l)
        BY <2>3, <3>1, <3>2
      <4>3. QED BY <3>2, <4>1, <4>2 DEF InOrder
    <3>3. QED BY <3>1, <3>2
  <2>4. QED BY <1>2, <2>2, <2>3 DEF LinkBetween
<1>3. QED BY <1>1, <1>2 DEF InsertEnd, Refuse

(* move_to_end unsorts no list but its own and lets nobody in.             *)
LEMMA MoveToEndApart ==
  ASSUME ListInv, NEW k \in ListIds, NEW item \in ItemIds, MoveToEnd(k, item),
         NEW l \in ListSet
  PROVE  /\ k # l /\ InOrder(l) => InOrder(l)'
         /\ Members(l)' = Members(l)
<1>1. CASE UNCHANGED nodes
  BY <1>1, SameNodes DEF KeepsOrder, Members, nodes
<1>2. CASE k \in ListSet /\ item \in Items /\ container[item] = k /\ ~(UNCHANGED nodes)
  <2> DEFINE c == IF cursor[k] = item THEN prev[item] ELSE cursor[k]
             nx == SkipNext(next, prev, item)
             pv == SkipPrev(next, prev, item)
             before == pv[At(c)]
  <2>1. next' = LinkNext(nx, item, before, c) /\ value' = value /\ container' = container
    BY <1>2 DEF MoveToEnd, Refuse, nodes
  <2>2. item \in Members(k)
    BY <1>2 DEF Members
  <2>3. c \in Ring(k) \ {item} /\ At(c) = c
    <3>1. cursor[k] \in Ring(k) /\ prev[item] \in Ring(k) \ {item}
      BY <1>2, <2>2, SkipFacts DEF ListInv, RingInv, CountAndCursor
    <3>2. QED BY <1>2, <3>1, RingFacts, AtSlot
  <2>4. before \in Ring(k) /\ At(before) = before
    <3>1. Doubly(nx, pv, Ring(k) \ {item})
      BY <1>2, <2>2, SkipFacts
    <3> HIDE DEF c, nx, pv
    <3>2. before \in Ring(k) \ {item}
      BY <2>3, <3>1 DEF Doubly
    <3>3. QED BY <1>2, <3>2, RingFacts, AtSlot
  <2>5. Members(l)' = Members(l)
    BY <2>1 DEF Members
  <2>6. ASSUME k # l, InOrder(l) PROVE InOrder(l)'
    <3>1. ASSUME NEW s \in Members(l) PROVE next'[s] = next[s]
      <4>1. s \in Ring(l) /\ s \in Slots
        BY RingFacts DEF Ring
      <4>2. s # before /\ s # item
        <5>1. item \in Ring(k) BY <2>2 DEF Ring
        <5>2. QED BY <1>2, <2>4, <2>6, <4>1, <5>1, RingFacts
      <4>3. nx[s] = next[s]
        BY <1>2, <2>2, <2>6, <4>1, SkipFrame
      <4>4. nx \in [Slots -> Slots \cup {NONE}]
        BY <1>2, <2>2, SkipFacts
      <4> HIDE DEF nx, before, c
      <4>5. QED BY <2>1, <2>4, <4>1, <4>2, <4>3, <4>4 DEF LinkNext
    <3>2. QED BY <2>1, <2>5, <2>6, <3>1 DEF InOrder
  <2>7. QED BY <2>5, <2>6
<1>3. QED BY <1>1, <1>2 DEF MoveToEnd, Refuse, nodes

(* Nothing but insert_end, move_to_end and set_value can put a list out of *)
(* order: not a removal, not the round robin, not an ordered insert that   *)
(* found its place many steps after it began.                              *)
THEOREM OrderKept == Spec => OnlyEndOpsUnsort
<1> DEFINE A == \A l \in ListSet : InOrder(l) /\ ~InOrder(l)' =>
                  \/ \E i \in ItemIds : InsertEnd(l, i) \/ MoveToEnd(l, i)
                  \/ \E i \in ItemIds, v \in Values : SetValue(i, v)
<1>1. IInv /\ Next => A
  <2> SUFFICES ASSUME IInv, Next, NEW l \in ListSet, InOrder(l), ~InOrder(l)'
               PROVE  \/ \E i \in ItemIds : InsertEnd(l, i) \/ MoveToEnd(l, i)
                      \/ \E i \in ItemIds, v \in Values : SetValue(i, v)
    OBVIOUS
  <2>1. ~KeepsOrder
    BY DEF KeepsOrder
  <2>2. ASSUME NEW k \in ListIds, NEW i \in ItemIds, InsertEnd(k, i) \/ MoveToEnd(k, i)
        PROVE  k = l
    BY <2>2, InsertEndApart, MoveToEndApart DEF IInv
  <2>3. QED BY <2>1, <2>2, StepKeeps
<1>2. Spec => [][A]_vars
  <2> HIDE DEF A
  <2>1. IInv /\ [Next]_vars => [A]_vars
    BY <1>1
  <2>2. QED BY <2>1, Inductive, PTL DEF Spec
<1>3. QED BY <1>2 DEF OnlyEndOpsUnsort

(* An ordered insert puts the item behind what is not above it and in      *)
(* front of what is, though the neighbours were chosen steps before.       *)
THEOREM InsertsAreStable == Spec => StableInsert
<1> DEFINE A == \A l \in ListSet : \A i \in Members(l)' \ Members(l) : ~InsertEnd(l, i) =>
                  /\ IsEnd(prev'[i]) \/ value[prev'[i]] <= value'[i]
                  /\ IsEnd(next'[i]) \/ value[next'[i]] > value'[i]
<1>1. IInv /\ Next => A
  <2> SUFFICES ASSUME IInv, Next, NEW l \in ListSet, NEW i \in Members(l)' \ Members(l),
                      ~InsertEnd(l, i)
               PROVE  /\ IsEnd(prev'[i]) \/ value[prev'[i]] <= value'[i]
                      /\ IsEnd(next'[i]) \/ value[next'[i]] > value'[i]
    OBVIOUS
  <2>1. ASSUME NEW k \in ListIds, NEW j \in ItemIds, InsertEnd(k, j) \/ MoveToEnd(k, j)
        PROVE  FALSE
    BY <2>1, InsertEndApart, MoveToEndApart DEF IInv
  <2>2. ASSUME NEW j \in ItemIds, NEW v \in Values, SetValue(j, v) PROVE FALSE
    BY <2>2 DEF SetValue, Refuse, nodes, Members
  <2>3. PlacesWell
    BY <2>1, <2>2, StepKeeps
  <2>4. QED BY <2>3 DEF PlacesWell
<1>2. Spec => [][A]_vars
  <2> HIDE DEF A
  <2>1. IInv /\ [Next]_vars => [A]_vars
    BY <1>1
  <2>2. QED BY <2>1, Inductive, PTL DEF Spec
<1>3. QED BY <1>2 DEF StableInsert
=============================================================================
