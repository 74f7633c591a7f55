----------------------------- MODULE OrderProofs -----------------------------
(***************************************************************************)
(* What a walk along the links of a list meets: every member once, in an   *)
(* order which the operations change as ListOrder says, so that the rings  *)
(* implement sequences, for every number of slots, lists and values.       *)
(***************************************************************************)
EXTENDS MCLists, ListsProofs, NumberFacts

Q == INSTANCE SequenceTheorems

-----------------------------------------------------------------------------
(* Walks round a ring.                                                     *)

(* f[0], f[1], ..., f[m] are met by following nx.                          *)
Walks(f, nx, m) == \A k \in 0 .. m - 1 : f[k + 1] = nx[f[k]]

(* A walk that is after j steps where it is after k steps was back at its  *)
(* beginning after k - j steps.                                            *)
LEMMA WalkBack ==
  ASSUME NEW R, NEW nx, NEW pv, Doubly(nx, pv, R), NEW m \in Nat, NEW f, Walks(f, nx, m),
         \A k \in 0 .. m : f[k] \in R,
         NEW j \in 0 .. m, NEW k \in 0 .. m, j < k, f[j] = f[k]
  PROVE  f[k - j] = f[0]
<1> DEFINE T == {a \in Nat : \E b \in 0 .. m : a < b /\ f[a] = f[b] /\ f[b - a] # f[0]}
<1>1. SUFFICES T = {}
  BY <1>1
<1>2. SUFFICES ASSUME T # {} PROVE FALSE
  OBVIOUS
<1>3. PICK a \in T : \A c \in T : a <= c
  BY <1>2, Least
<1>4. PICK b \in 0 .. m : a < b /\ f[a] = f[b] /\ f[b - a] # f[0]
  BY <1>3
<1>5. a \in Nat /\ a # 0
  BY <1>3, <1>4
<1> DEFINE a1 == a - 1
           b1 == b - 1
<1>6. /\ a1 \in 0 .. m - 1 /\ b1 \in 0 .. m - 1 /\ a1 < b1 /\ b1 - a1 = b - a
      /\ a1 + 1 = a /\ b1 + 1 = b /\ a1 < a /\ a1 \in 0 .. m /\ b1 \in 0 .. m /\ a1 \in Nat
  BY <1>4, <1>5
<1> HIDE DEF a1, b1
<1>7. f[a] = nx[f[a1]] /\ f[b] = nx[f[b1]] /\ f[a1] \in R /\ f[b1] \in R
  BY <1>6 DEF Walks
<1>8. f[a1] = pv[f[a]] /\ f[b1] = pv[f[b]]
  BY <1>7 DEF Doubly
<1>9. a1 \in T
  BY <1>4, <1>6, <1>8
<1>10. a <= a1
  BY <1>3, <1>9
<1> QED BY <1>5, <1>6, <1>10

(* A walk stays in its ring.                                               *)
LEMMA WalkStays ==
  ASSUME NEW R, NEW nx, NEW pv, Doubly(nx, pv, R), NEW m \in Nat, NEW f, Walks(f, nx, m), f[0] \in R
  PROVE  \A k \in 0 .. m : f[k] \in R
<1> DEFINE T == {a \in Nat : a <= m => f[a] \in R}
<1>1. 0 \in T
  OBVIOUS
<1>2. \A n \in Nat : n \in T => n + 1 \in T
  BY DEF Doubly, Walks
<1>3. Nat \subseteq T
  BY <1>1, <1>2, AllNumbers
<1> QED BY <1>3

(* A walk round a ring of n + 1 slots meets each of them once in its first *)
(* n steps and is back where it began after one more.                      *)
LEMMA RoundWalk ==
  ASSUME NEW R, NEW nx, NEW pv, Doubly(nx, pv, R), OneCycle(nx, R),
         NEW n \in Nat, IsFiniteSet(R), Cardinality(R) = n + 1,
         NEW m \in Nat, n < m, NEW f, Walks(f, nx, m), f[0] \in R
  PROVE  /\ \A k \in 0 .. m : f[k] \in R
         /\ \A j, k \in 0 .. n : f[j] = f[k] => j = k
         /\ \A s \in R : \E k \in 0 .. n : f[k] = s
         /\ f[n + 1] = f[0]
<1>1. \A k \in 0 .. m : f[k] \in R
  BY WalkStays
<1>2. ASSUME NEW j \in 0 .. m, NEW k \in 0 .. m, j < k, f[j] = f[k]
      PROVE  f[k - j] = f[0]
  <2> HIDE DEF Walks
  <2> QED BY <1>1, <1>2, WalkBack
<1> DEFINE Back == {a \in 1 .. n + 1 : f[a] = f[0]}
<1>3. Back # {}
  <2> SUFFICES ASSUME Back = {} PROVE FALSE
    OBVIOUS
  <2> DEFINE g == [k \in 0 .. n + 1 |-> f[k]]
  <2>1. g \in [0 .. n + 1 -> R]
    BY <1>1
  <2>2. \A j, k \in 0 .. n + 1 : g[j] = g[k] => j = k
    <3> SUFFICES ASSUME NEW j \in 0 .. n + 1, NEW k \in 0 .. n + 1, f[j] = f[k], j < k
                 PROVE  FALSE
      OBVIOUS
    <3>1. f[k - j] = f[0]
      BY <1>2
    <3>2. k - j \in 1 .. n + 1
      OBVIOUS
    <3> QED BY <3>1, <3>2
  <2>3. IsFiniteSet(0 .. n + 1) /\ Cardinality(0 .. n + 1) = n + 2
    BY FS_Interval
  <2> HIDE DEF g
  <2>4. PICK x, y \in 0 .. n + 1 : x # y /\ g[x] = g[y]
    BY <2>1, <2>3, FS_PigeonHole
  <2> QED BY <2>2, <2>4
<1>4. PICK r \in Back : \A a \in Back : r <= a
  <2>1. Back \in SUBSET Nat
    OBVIOUS
  <2> HIDE DEF Back
  <2> QED BY <1>3, <2>1, Least
<1> DEFINE S == {f[k] : k \in 0 .. r - 1}
<1>5. S = R
  <2>1. r \in 1 .. n + 1 /\ f[r] = f[0]
    BY <1>4
  <2>2. S \subseteq R /\ S # {}
    BY <1>1, <2>1
  <2>3. ASSUME NEW k \in 0 .. r - 1 PROVE nx[f[k]] \in S
    <3>1. nx[f[k]] = f[k + 1]
      BY <2>1 DEF Walks
    <3>2. CASE k = r - 1
      <4>1. k + 1 = r /\ 0 \in 0 .. r - 1
        BY <2>1, <3>2
      <4> QED BY <2>1, <3>1, <4>1
    <3>3. CASE k # r - 1
      <4>1. k + 1 \in 0 .. r - 1
        BY <2>1, <3>3
      <4> QED BY <3>1, <4>1
    <3> QED BY <3>2, <3>3
  <2>4. \A s \in S : nx[s] \in S
    BY <2>3
  <2> HIDE DEF S
  <2> QED BY <2>2, <2>4, OneCycleApply
<1>6. r = n + 1
  <2>1. r \in 1 .. n + 1
    BY <1>4
  <2> DEFINE g == [k \in 0 .. r - 1 |-> f[k]]
  <2>2. g \in Surjection(0 .. r - 1, R)
    <3>1. g \in [0 .. r - 1 -> R] /\ \A s \in R : \E k \in 0 .. r - 1 : g[k] = s
      BY <1>5, <2>1
    <3> QED BY <3>1, Zenon DEF Surjection
  <2>3. IsFiniteSet(0 .. r - 1) /\ Cardinality(0 .. r - 1) = r
    <3>1. 0 \in Int /\ r - 1 \in Int /\ ~(0 > r - 1) /\ (r - 1) - 0 + 1 = r
      BY <2>1
    <3> QED BY <3>1, FS_Interval
  <2> HIDE DEF g
  <2>4. Cardinality(R) <= r
    BY <2>2, <2>3, FS_Surjection
  <2> QED BY <2>1, <2>4
<1>7. f[n + 1] = f[0]
  BY <1>4, <1>6
<1>8. \A s \in R : \E k \in 0 .. n : f[k] = s
  BY <1>5, <1>6
<1>9. \A j, k \in 0 .. n : f[j] = f[k] => j = k
  <2> SUFFICES ASSUME NEW j \in 0 .. n, NEW k \in 0 .. n, f[j] = f[k], j < k
               PROVE  FALSE
    OBVIOUS
  <2>1. f[k - j] = f[0] /\ k - j \in 1 .. n + 1
    BY <1>2
  <2>2. k - j \in Back /\ k - j < r
    BY <1>6, <2>1
  <2> QED BY <1>4, <2>2
<1> QED BY <1>1, <1>7, <1>8, <1>9

-----------------------------------------------------------------------------
(* The walk that Chain writes down, and the one of the readers.            *)

(* f is the walk of m steps from e along nx.                               *)
Written(f, nx, e, m) == f = [k \in 0 .. m |-> IF k = 0 THEN e ELSE nx[f[k - 1]]]

(* There is a walk of any length.                                          *)
LEMMA WalkExists ==
  ASSUME NEW nx, NEW e, NEW m \in Nat
  PROVE  \E f : Written(f, nx, e, m)
<1> DEFINE Goes(f, n) == f = [k \in 0 .. n |-> IF k = 0 THEN e ELSE nx[f[k - 1]]]
           T == {n \in Nat : \E f : Goes(f, n)}
<1>1. 0 \in T
  <2>1. Goes([k \in 0 .. 0 |-> e], 0)
    OBVIOUS
  <2> QED BY <2>1
<1>2. ASSUME NEW n \in Nat, n \in T PROVE n + 1 \in T
  <2> PICK f : Goes(f, n)
    BY <1>2
  <2> DEFINE g == [k \in 0 .. n + 1 |-> IF k <= n THEN f[k] ELSE nx[f[n]]]
  <2>1. ASSUME NEW k \in 0 .. n + 1 PROVE g[k] = IF k = 0 THEN e ELSE nx[g[k - 1]]
    <3>1. \A a \in 0 .. n : f[a] = IF a = 0 THEN e ELSE nx[f[a - 1]]
      OBVIOUS
    <3>2. CASE k = 0
      BY <3>1, <3>2
    <3>3. CASE k # 0 /\ k <= n
      <4>1. k - 1 \in 0 .. n /\ k - 1 \in 0 .. n + 1 /\ k \in 0 .. n
        BY <3>3
      <4> QED BY <3>1, <3>3, <4>1
    <3>4. CASE k = n + 1
      <4>1. k - 1 = n /\ ~(k <= n) /\ k # 0
        BY <3>4
      <4>2. g[n] = f[n]
        OBVIOUS
      <4> QED BY <4>1, <4>2
    <3> QED BY <3>2, <3>3, <3>4
  <2>2. Goes(g, n + 1)
    <3> DEFINE h == [k \in 0 .. n + 1 |-> IF k = 0 THEN e ELSE nx[g[k - 1]]]
    <3>1. \A k \in 0 .. n + 1 : g[k] = h[k]
      BY <2>1
    <3>2. DOMAIN g = 0 .. n + 1 /\ DOMAIN h = 0 .. n + 1 /\ g = [k \in 0 .. n + 1 |-> g[k]]
      OBVIOUS
    <3>3. h = [k \in 0 .. n + 1 |-> h[k]]
      OBVIOUS
    <3> QED BY <3>1, <3>2, <3>3
  <2> HIDE DEF g, Goes
  <2> QED BY <2>2
<1>3. m \in T
  BY <1>1, <1>2, AllNumbers
<1> QED BY <1>3 DEF Written

(* The walk that begins at e, as a recursive function.                     *)
WalkFrom(nx, e) ==
  LET at[k \in 0 .. N] == IF k = 0 THEN e ELSE nx[at[k - 1]] IN at

(* The recursive function is one.                                          *)
LEMMA WalkFromWalks ==
  ASSUME NEW nx, NEW e
  PROVE  /\ WalkFrom(nx, e)[0] = e
         /\ Walks(WalkFrom(nx, e), nx, N)
<1> DEFINE Def(f) == [k \in 0 .. N |-> IF k = 0 THEN e ELSE nx[f[k - 1]]]
           at == WalkFrom(nx, e)
<1>1. at = CHOOSE f : f = Def(f)
  BY DEF WalkFrom
<1>2. N \in Nat
  BY Geometry
<1>3. \E f : f = Def(f)
  <2>1. \E f : Written(f, nx, e, N)
    BY <1>2, WalkExists
  <2> QED BY <2>1 DEF Written
<1> HIDE DEF at
<1>4. at = Def(at)
  <2> HIDE DEF Def
  <2> QED BY <1>1, <1>3, Zenon
<1>5. \A k \in 0 .. N : at[k] = IF k = 0 THEN e ELSE nx[at[k - 1]]
  BY <1>4, Zenon
<1>6. at[0] = e
  BY <1>2, <1>5
<1>7. ASSUME NEW k \in 0 .. N - 1 PROVE at[k + 1] = nx[at[k]]
  <2>1. k + 1 \in 0 .. N /\ k + 1 # 0 /\ (k + 1) - 1 = k
    BY <1>2
  <2> QED BY <1>5, <2>1
<1> QED BY <1>6, <1>7 DEF Walks, at

(* Chain is the walk from the marker, before and after a step.             *)
LEMMA ChainIsWalk ==
  ASSUME NEW l \in ListSet
  PROVE  /\ Chain(l) = WalkFrom(next, EndOf(l))
         /\ Chain(l)' = WalkFrom(next', EndOf(l))
BY DEF Chain, WalkFrom, EndOf

(* The first len[l] + 1 slots that a walk from the marker meets are the    *)
(* ring, each of them once, and then it stands at the marker again.        *)
Spelled(l) ==
  /\ len[l] \in 0 .. CAPACITY
  /\ Chain(l)[0] = EndOf(l) /\ Chain(l)[len[l] + 1] = EndOf(l)
  /\ \A k \in 0 .. N - 1 : Chain(l)[k + 1] = next[Chain(l)[k]]
  /\ \A k \in 0 .. N : Chain(l)[k] \in Ring(l)
  /\ \A j, k \in 0 .. len[l] : Chain(l)[j] = Chain(l)[k] => j = k
  /\ \A s \in Ring(l) : \E k \in 0 .. len[l] : Chain(l)[k] = s
  /\ \A k \in 1 .. len[l] : Chain(l)[k] \in Members(l)
  /\ \A s \in Members(l) : \E k \in 1 .. len[l] : Chain(l)[k] = s

(* So it is with every list, by the rings and the counts.                  *)
LEMMA ListsSpelled == ListInv => \A l \in ListSet : Spelled(l)
<1> SUFFICES ASSUME ListInv, NEW l \in ListSet PROVE Spelled(l)
  OBVIOUS
<1> DEFINE at == Chain(l)
           n == len[l]
<1>1. at[0] = EndOf(l) /\ Walks(at, next, N)
  BY ChainIsWalk, WalkFromWalks
<1>2. /\ n \in 0 .. CAPACITY /\ n = Cardinality(Members(l))
      /\ Doubly(next, prev, Ring(l)) /\ OneCycle(next, Ring(l))
  BY DEF ListInv, Typed, RingInv, OneRing, CountAndCursor
<1>3. IsFiniteSet(Ring(l)) /\ Cardinality(Ring(l)) = n + 1
  <2>1. IsFiniteSet(Members(l))
    BY SubsetCount, RingFacts
  <2> QED BY <1>2, <2>1, RingFacts, FS_AddElement DEF Ring
<1>4. n \in Nat /\ N \in Nat /\ n < N /\ EndOf(l) \in Ring(l) /\ EndOf(l) \notin Members(l)
      /\ Ring(l) = Members(l) \cup {EndOf(l)}
  BY <1>2, Geometry, RingFacts DEF Ring
<1> HIDE DEF at, n
<1>5. /\ \A k \in 0 .. N : at[k] \in Ring(l)
      /\ \A j, k \in 0 .. n : at[j] = at[k] => j = k
      /\ \A s \in Ring(l) : \E k \in 0 .. n : at[k] = s
      /\ at[n + 1] = at[0]
  BY <1>1, <1>2, <1>3, <1>4, RoundWalk
<1>6. \A k \in 1 .. n : at[k] \in Members(l)
  <2> TAKE k \in 1 .. n
  <2>1. k \in 0 .. N /\ k \in 0 .. n /\ 0 \in 0 .. n /\ k # 0
    BY <1>4
  <2>2. at[k] # at[0]
    BY <1>5, <2>1
  <2> QED BY <1>1, <1>4, <1>5, <2>1, <2>2
<1>7. \A s \in Members(l) : \E k \in 1 .. n : at[k] = s
  <2> TAKE s \in Members(l)
  <2>1. PICK k \in 0 .. n : at[k] = s
    BY <1>4, <1>5
  <2>2. k # 0
    BY <1>1, <1>4, <2>1
  <2> QED BY <2>1, <2>2
<1> QED BY <1>1, <1>2, <1>5, <1>6, <1>7 DEF Spelled, Walks, at, n

LEMMA ListsSpelledAfter == ListInv' => \A l \in ListSet : Spelled(l)'
<1>1. (ListInv => \A l \in ListSet : Spelled(l))'
  BY ListsSpelled, PTL
<1> QED BY <1>1 DEF ListSet

(* What iter and is_sorted walk along is the same walk.                    *)
LEMMA WalkedIsChain ==
  ASSUME ListInv, NEW l \in ListSet
  PROVE  \A k \in 1 .. N : Walked(l)[k] = Chain(l)[k]
<1> DEFINE e == EndOf(l)
           Step(at, k) == next[At(IF k = 1 THEN e ELSE at[k - 1])]
           Def(at) == [k \in 1 .. N + 1 |-> Step(at, k)]
           met == Walked(l)
           at == Chain(l)
<1>1. N \in Nat /\ e \in Ring(l) /\ Ring(l) \subseteq Slots /\ Doubly(next, prev, Ring(l))
  BY Geometry, RingFacts DEF ListInv, RingInv, OneRing
<1>2. \E g : g = Def(g)
  <2>1. PICK f : Written(f, next, e, N + 1)
    BY <1>1, WalkExists
  <2>2. \A k \in 0 .. N + 1 : f[k] = IF k = 0 THEN e ELSE next[f[k - 1]]
    BY <2>1 DEF Written
  <2>3. f[0] = e
    <3>1. 0 \in 0 .. N + 1
      BY <1>1
    <3> QED BY <2>2, <3>1
  <2>4. Walks(f, next, N + 1)
    <3> SUFFICES ASSUME NEW k \in 0 .. (N + 1) - 1 PROVE f[k + 1] = next[f[k]]
      BY DEF Walks
    <3>1. k + 1 \in 0 .. N + 1 /\ k + 1 # 0 /\ (k + 1) - 1 = k
      BY <1>1
    <3> QED BY <2>2, <3>1
  <2>5. \A k \in 0 .. N + 1 : f[k] \in Ring(l)
    BY <1>1, <2>3, <2>4, WalkStays
  <2> DEFINE g == [k \in 1 .. N + 1 |-> f[k]]
  <2>6. ASSUME NEW k \in 1 .. N + 1 PROVE g[k] = Step(g, k)
    <3>1. f[k] = next[f[k - 1]] /\ f[k - 1] \in Slots
      BY <1>1, <2>2, <2>5
    <3>2. f[k - 1] = IF k = 1 THEN e ELSE g[k - 1]
      BY <1>1, <2>3
    <3> QED BY <3>1, <3>2, AtSlot
  <2>7. g = Def(g)
    <3>1. g = [k \in 1 .. N + 1 |-> g[k]]
      OBVIOUS
    <3> HIDE DEF g, Step
    <3> QED BY <2>6, <3>1
  <2> HIDE DEF g, Def
  <2> QED BY <2>7
<1>3. met = Def(met)
  <2>1. met = CHOOSE g : g = Def(g)
    BY DEF Walked
  <2> HIDE DEF Def, met
  <2> QED BY <1>2, <2>1, Zenon
<1>4. \A k \in 1 .. N + 1 : met[k] = Step(met, k)
  <2> HIDE DEF met
  <2> QED BY <1>3, Zenon
<1>5. Spelled(l)
  BY ListsSpelled
<1>6. /\ at[0] = e
      /\ \A k \in 0 .. N - 1 : at[k + 1] = next[at[k]]
      /\ \A k \in 0 .. N : at[k] \in Slots
  BY <1>1, <1>5 DEF Spelled
<1> HIDE DEF met, at, e
<1> DEFINE T == {k \in Nat : k \in 1 .. N => met[k] = at[k]}
<1>7. 0 \in T
  OBVIOUS
<1>8. ASSUME NEW k \in Nat, k \in T PROVE k + 1 \in T
  <2> SUFFICES ASSUME k + 1 \in 1 .. N PROVE met[k + 1] = at[k + 1]
    OBVIOUS
  <2>1. k + 1 \in 1 .. N + 1 /\ (k + 1) - 1 = k /\ k \in 0 .. N - 1 /\ k \in 0 .. N
    BY <1>1
  <2>2. met[k + 1] = next[At(IF k + 1 = 1 THEN e ELSE met[k])]
    BY <1>4, <2>1
  <2>3. (IF k + 1 = 1 THEN e ELSE met[k]) = at[k]
    BY <1>1, <1>6, <1>8
  <2> QED BY <1>6, <2>1, <2>2, <2>3, AtSlot
<1>9. Nat \subseteq T
  BY <1>7, <1>8, AllNumbers
<1> QED BY <1>1, <1>9 DEF met, at

(* The readers of one list see the walk as it is: iter its members, `next` *)
(* the one after, is_sorted whether a value falls before the marker.       *)
LEMMA ReadersSeeChain ==
  ASSUME ListInv, NEW l \in ListSet
  PROVE  /\ Walked(l)[len[l] + 1] = EndOf(l)
         /\ \A k \in 1 .. len[l] : Iterated(l)[k] = Chain(l)[k]
         /\ DOMAIN Iterated(l) = 1 .. len[l]
         /\ \A k \in 1 .. len[l] :
              NextOf(Chain(l)[k]) = IF k = len[l] THEN Nothing ELSE Ok(Chain(l)[k + 1])
<1> DEFINE at == Chain(l)
           n == len[l]
<1>1. /\ n \in Nat /\ N \in Nat /\ n + 1 \in 1 .. N /\ n < N
      /\ \A k \in 1 .. n : k \in 1 .. N /\ k \in 0 .. N - 1
  <2>1. n \in 0 .. CAPACITY
    BY DEF ListInv, Typed
  <2> HIDE DEF n
  <2> QED BY <2>1, Geometry
<1>2. \A k \in 1 .. N : Walked(l)[k] = at[k]
  BY WalkedIsChain
<1>3. /\ at[n + 1] = EndOf(l)
      /\ \A k \in 0 .. N - 1 : at[k + 1] = next[at[k]]
      /\ \A k \in 1 .. n : at[k] \in Members(l)
  BY ListsSpelled DEF Spelled
<1>4. \A k \in 1 .. n : Iterated(l)[k] = Walked(l)[k]
  BY DEF Iterated
<1>5. DOMAIN Iterated(l) = 1 .. n
  BY DEF Iterated
<1> HIDE DEF at, n
<1>6. ASSUME NEW k \in 1 .. n
      PROVE  NextOf(at[k]) = IF k = n THEN Nothing ELSE Ok(at[k + 1])
  <2>1. container[at[k]] = l /\ l # NO_LIST /\ next[at[k]] = at[k + 1]
    BY <1>1, <1>3, Geometry DEF Members
  <2>2. CASE k = n
    BY <1>3, <2>1, <2>2, Ends DEF NextOf
  <2>3. CASE k # n
    <3>1. k + 1 \in 1 .. n
      BY <1>1, <2>3
    <3>2. ~IsEnd(at[k + 1])
      BY <1>3, <3>1, Ends, RingFacts, Geometry
    <3> QED BY <2>1, <2>3, <3>2 DEF NextOf
  <2> QED BY <2>2, <2>3
<1> QED BY <1>1, <1>2, <1>3, <1>4, <1>5, <1>6 DEF at, n

(* is_sorted stops at the first fall or at the marker, and nowhere else.   *)
LEMMA SortedAnswersRight ==
  ASSUME ListInv, NEW l \in ListSet
  PROVE  LET sorted == \A s \in Members(l) : ~IsEnd(next[s]) => value[s] <= value[next[s]]
         IN  IsSorted(l) = Ok(IF sorted THEN 1 ELSE 0)
<1> DEFINE at == Walked(l)
           n == len[l]
           Marker(k) == IsEnd(at[k])
           Falls(k) == k > 1 /\ value[At(at[k])] < value[At(at[k - 1])]
           StopsAt(k) == /\ Marker(k) \/ Falls(k)
                         /\ \A j \in 1 .. k - 1 : ~Marker(j) /\ ~Falls(j)
           sorted == \A s \in Members(l) : ~IsEnd(next[s]) => value[s] <= value[next[s]]
<1>1. IsSorted(l) = IF \E k \in 1 .. N + 1 : StopsAt(k) /\ Marker(k) THEN Ok(1)
                    ELSE IF \E k \in 1 .. N + 1 : StopsAt(k) THEN Ok(0)
                    ELSE Err("InvalidArgument")
  BY DEF IsSorted
<1>2. /\ n \in Nat /\ N \in Nat /\ n + 1 \in 1 .. N /\ n < N
  <2>1. n \in 0 .. CAPACITY
    BY DEF ListInv, Typed
  <2> HIDE DEF n
  <2> QED BY <2>1, Geometry
<1>3. \A k \in 1 .. n + 1 : at[k] = Chain(l)[k]
  BY <1>2, WalkedIsChain
<1>4. /\ Chain(l)[n + 1] = EndOf(l)
      /\ \A k \in 0 .. N - 1 : Chain(l)[k + 1] = next[Chain(l)[k]]
      /\ \A k \in 1 .. n : Chain(l)[k] \in Members(l)
      /\ \A s \in Members(l) : \E k \in 1 .. n : Chain(l)[k] = s
  BY ListsSpelled DEF Spelled
<1> HIDE DEF at, n
<1>5. /\ at[n + 1] = EndOf(l)
      /\ \A k \in 1 .. n : at[k] \in Members(l) /\ next[at[k]] = at[k + 1]
      /\ \A s \in Members(l) : \E k \in 1 .. n : at[k] = s
  <2>1. n + 1 \in 1 .. n + 1 /\ \A k \in 1 .. n : k \in 1 .. n + 1 /\ k + 1 \in 1 .. n + 1
                                                  /\ k \in 0 .. N - 1
    BY <1>2
  <2> QED BY <1>3, <1>4, <2>1
<1>6. /\ IsEnd(at[n + 1])
      /\ \A k \in 1 .. n : ~IsEnd(at[k])
      /\ \A k \in 1 .. n + 1 : At(at[k]) = at[k] /\ value[at[k]] \in Nat
                               /\ value[at[k]] <= value[at[n + 1]]
  <2>1. at[n + 1] \in Slots /\ at[n + 1] \notin Items /\ IsEnd(at[n + 1])
    BY <1>5, Ends
  <2>2. \A k \in 1 .. n : at[k] \in Items /\ at[k] \in Slots
    BY <1>5, RingFacts, Geometry
  <2>3. value[at[n + 1]] = MaxValue /\ MaxValue \in Nat
    BY <2>1, Geometry DEF ListInv, RingInv, MarkersIntact
  <2>4. \A k \in 1 .. n + 1 : at[k] \in Slots
    BY <1>2, <2>1, <2>2
  <2>5. \A s \in Slots : value[s] \in 0 .. MaxValue
    BY DEF ListInv, Typed
  <2> QED BY <2>1, <2>2, <2>3, <2>4, <2>5, AtSlot, Ends
<1>7. \A k \in 2 .. n + 1 : Falls(k) <=> value[at[k]] < value[at[k - 1]]
  <2> TAKE k \in 2 .. n + 1
  <2>1. k \in 1 .. n + 1 /\ k - 1 \in 1 .. n + 1 /\ k > 1
    BY <1>2
  <2> QED BY <1>6, <2>1
<1>8. sorted <=> \A k \in 2 .. n : ~Falls(k)
  <2>1. ASSUME sorted, NEW k \in 2 .. n PROVE ~Falls(k)
    <3>1. k - 1 \in 1 .. n /\ k \in 1 .. n + 1 /\ k - 1 \in 1 .. n + 1 /\ (k - 1) + 1 = k
          /\ k \in 1 .. n /\ k \in 2 .. n + 1
      BY <1>2
    <3>2. next[at[k - 1]] = at[k] /\ at[k - 1] \in Members(l) /\ ~IsEnd(at[k])
      BY <1>5, <1>6, <3>1
    <3>3. value[at[k - 1]] <= value[at[k]]
      BY <2>1, <3>2
    <3> QED BY <1>6, <1>7, <3>1, <3>3
  <2>2. ASSUME \A k \in 2 .. n : ~Falls(k), NEW s \in Members(l), ~IsEnd(next[s])
        PROVE  value[s] <= value[next[s]]
    <3>1. PICK k \in 1 .. n : at[k] = s
      BY <1>5
    <3>2. next[s] = at[k + 1] /\ k # n
      BY <1>5, <1>6, <2>2, <3>1
    <3>3. k + 1 \in 2 .. n /\ k + 1 \in 2 .. n + 1 /\ k + 1 \in 1 .. n + 1 /\ k \in 1 .. n + 1
          /\ (k + 1) - 1 = k
      BY <1>2, <3>2
    <3>4. ~(value[at[k + 1]] < value[at[k]])
      BY <1>7, <2>2, <3>3
    <3> QED BY <1>6, <3>1, <3>2, <3>3, <3>4
  <2> QED BY <2>1, <2>2
<1>9. CASE sorted
  <2>1. ~Falls(n + 1) /\ ~Falls(1)
    <3>1. CASE n = 0
      BY <3>1
    <3>2. CASE n # 0
      <4>1. n + 1 \in 2 .. n + 1 /\ (n + 1) - 1 = n /\ n \in 1 .. n + 1 /\ n + 1 \in 1 .. n + 1
        BY <1>2, <3>2
      <4> QED BY <1>6, <1>7, <4>1
    <3> QED BY <3>1, <3>2
  <2>2. \A j \in 1 .. n : ~Marker(j) /\ ~Falls(j)
    <3> TAKE j \in 1 .. n
    <3>1. CASE j = 1
      BY <1>6, <2>1, <3>1
    <3>2. CASE j # 1
      <4>1. j \in 2 .. n
        BY <1>2, <3>2
      <4> QED BY <1>6, <1>8, <1>9, <4>1
    <3> QED BY <3>1, <3>2
  <2>3. n + 1 \in 1 .. N + 1 /\ (n + 1) - 1 = n
    BY <1>2
  <2>4. StopsAt(n + 1) /\ Marker(n + 1)
    BY <1>6, <2>2, <2>3
  <2> HIDE DEF StopsAt, Marker, sorted
  <2>5. IsSorted(l) = Ok(1)
    BY <1>1, <2>3, <2>4
  <2> QED BY <1>9, <2>5 DEF sorted
<1>10. CASE ~sorted
  <2> DEFINE Drops == {k \in 2 .. n : Falls(k)}
  <2>1. Drops # {} /\ Drops \in SUBSET Nat
    BY <1>8, <1>10
  <2>2. PICK j \in Drops : \A k \in Drops : j <= k
    <3> HIDE DEF Drops
    <3> QED BY <2>1, Least
  <2>3. j \in 2 .. n /\ Falls(j) /\ j \in 1 .. N + 1 /\ j \in Nat
    BY <1>2, <2>2
  <2>4. StopsAt(j)
    <3> SUFFICES ASSUME NEW i \in 1 .. j - 1 PROVE ~Marker(i) /\ ~Falls(i)
      BY <2>3
    <3>1. i \in 1 .. n
      BY <1>2, <2>3
    <3>2. CASE i = 1
      BY <1>6, <3>1, <3>2
    <3>3. CASE i # 1
      <4>1. i \in 2 .. n /\ ~(j <= i)
        BY <1>2, <2>3, <3>3
      <4> QED BY <1>6, <2>2, <3>1, <4>1
    <3> QED BY <3>2, <3>3
  <2>5. ASSUME NEW k \in 1 .. N + 1, StopsAt(k), Marker(k) PROVE FALSE
    <3>1. k \notin 1 .. n
      BY <1>6, <2>5
    <3>2. j \in 1 .. k - 1
      BY <1>2, <2>3, <3>1
    <3> QED BY <2>3, <2>5, <3>2
  <2> HIDE DEF StopsAt, Marker, sorted
  <2>6. IsSorted(l) = Ok(0)
    BY <1>1, <2>3, <2>4, <2>5
  <2> QED BY <1>10, <2>6 DEF sorted
<1> HIDE DEF sorted
<1> QED BY <1>9, <1>10 DEF sorted

(* An iterator that stops by the count meets every member once and then    *)
(* stands at the marker, following `next` item by item agrees with it, and *)
(* is_sorted, which stops by the marker, answers right and never gives up  *)
(* (iter, next, is_sorted of list.rs).                                     *)
THEOREM WalksHold == Spec => []WalksAgree
<1>1. ListInv => WalksAgree
  <2> SUFFICES ASSUME ListInv, NEW l \in ListSet
               PROVE  LET at == Walked(l)
                          met == Iterated(l)
                          sorted == \A s \in Members(l) :
                                      ~IsEnd(next[s]) => value[s] <= value[next[s]]
                      IN /\ {met[k] : k \in DOMAIN met} = Members(l)
                         /\ \A j, k \in DOMAIN met : met[j] = met[k] => j = k
                         /\ at[len[l] + 1] = EndOf(l)
                         /\ \A k \in DOMAIN met :
                              LET following == IF k = len[l] THEN Nothing ELSE Ok(met[k + 1])
                              IN /\ NextOf(met[k]) = following
                                 /\ NextAndValue(met[k]) =
                                      [next |-> following, value |-> ItemValue(met[k]).answer]
                         /\ IsSorted(l) = Ok(IF sorted THEN 1 ELSE 0)
    BY DEF WalksAgree
  <2> DEFINE met == Iterated(l)
             at == Chain(l)
             n == len[l]
  <2>1. /\ DOMAIN met = 1 .. n /\ \A k \in 1 .. n : met[k] = at[k]
        /\ Walked(l)[n + 1] = EndOf(l)
        /\ \A k \in 1 .. n : NextOf(at[k]) = IF k = n THEN Nothing ELSE Ok(at[k + 1])
    BY ReadersSeeChain
  <2>2. /\ n \in Nat
        /\ \A j, k \in 0 .. n : at[j] = at[k] => j = k
        /\ \A k \in 1 .. n : at[k] \in Members(l)
        /\ \A s \in Members(l) : \E k \in 1 .. n : at[k] = s
    BY ListsSpelled, Geometry DEF Spelled
  <2> HIDE DEF met, at, n
  <2>3. {met[k] : k \in DOMAIN met} = Members(l)
    BY <2>1, <2>2
  <2>4. \A j, k \in DOMAIN met : met[j] = met[k] => j = k
    BY <2>1, <2>2
  <2>5. ASSUME NEW k \in DOMAIN met
        PROVE  NextOf(met[k]) = IF k = n THEN Nothing ELSE Ok(met[k + 1])
    <3>1. k \in 1 .. n /\ k # n => k + 1 \in 1 .. n
      BY <2>1, <2>2
    <3> QED BY <2>1, <3>1
  <2>6. ASSUME NEW k \in DOMAIN met
        PROVE  NextAndValue(met[k]) =
                 [next |-> NextOf(met[k]), value |-> ItemValue(met[k]).answer]
    <3>1. met[k] \in Members(l)
      BY <2>1, <2>2
    <3>2. met[k] \in Items /\ container[met[k]] # NO_LIST
      BY <3>1, SizesFit DEF Members, ListSet, NO_LIST
    <3> QED BY <3>2 DEF NextAndValue, NextOf, ItemValue, Ok
  <2> QED BY <2>1, <2>3, <2>4, <2>5, <2>6, SortedAnswersRight DEF met, n
<1>2. IInv => WalksAgree
  BY <1>1 DEF IInv
<1> QED BY <1>2, Inductive, PTL

-----------------------------------------------------------------------------
(* What linking and skipping a slot do to the walk.                        *)

(* f spells a ring of n + 1 slots that is read from e.                     *)
Spells(f, nx, e, n) ==
  /\ f[0] = e /\ nx[f[n]] = e
  /\ Walks(f, nx, n)
  /\ \A k \in 0 .. n : f[k] \in Slots
  /\ \A j, k \in 0 .. n : f[j] = f[k] => j = k

Put(f, n, b, x) ==
  [k \in 0 .. n + 1 |-> IF k <= b THEN f[k] ELSE IF k = b + 1 THEN x ELSE f[k - 1]]

Drop(f, n, p) == [k \in 0 .. n - 1 |-> IF k < p THEN f[k] ELSE f[k + 1]]

(* The walk of a list spells its ring.                                     *)
LEMMA ChainSpells ==
  ASSUME ListInv, NEW l \in ListSet
  PROVE  Spells(Chain(l), next, EndOf(l), len[l])
<1> DEFINE at == Chain(l)
           n == len[l]
<1>1. n \in Nat /\ N \in Nat /\ n < N /\ n \in 0 .. N - 1 /\ Ring(l) \subseteq Slots
  <2>1. n \in 0 .. CAPACITY
    BY DEF ListInv, Typed
  <2> HIDE DEF n
  <2> QED BY <2>1, Geometry, RingFacts
<1>2. /\ at[0] = EndOf(l) /\ at[n + 1] = EndOf(l)
      /\ \A k \in 0 .. N - 1 : at[k + 1] = next[at[k]]
      /\ \A k \in 0 .. N : at[k] \in Ring(l)
      /\ \A j, k \in 0 .. n : at[j] = at[k] => j = k
  BY ListsSpelled DEF Spelled
<1> HIDE DEF at, n
<1>3. /\ at[n + 1] = next[at[n]]
      /\ \A k \in 0 .. n - 1 : k \in 0 .. N - 1
      /\ \A k \in 0 .. n : k \in 0 .. N
  BY <1>1, <1>2
<1> QED BY <1>1, <1>2, <1>3 DEF Spells, Walks, at, n

(* A new slot in front of the slot after f[b].                             *)
LEMMA PutSpells ==
  ASSUME NEW nx \in [Slots -> Slots \cup {NONE}], NEW e, NEW n \in Nat, NEW f, Spells(f, nx, e, n),
         NEW b \in 0 .. n, NEW x \in Slots, \A k \in 0 .. n : f[k] # x
  PROVE  Spells(Put(f, n, b, x), LinkNext(nx, x, f[b], nx[f[b]]), e, n + 1)
<1> DEFINE g == Put(f, n, b, x)
           ln == LinkNext(nx, x, f[b], nx[f[b]])
<1>1. /\ f[0] = e /\ nx[f[n]] = e
      /\ \A k \in 0 .. n - 1 : f[k + 1] = nx[f[k]]
      /\ \A k \in 0 .. n : f[k] \in Slots
      /\ \A j, k \in 0 .. n : f[j] = f[k] => j = k
  BY DEF Spells, Walks
<1>2. f[b] \in Slots /\ At(f[b]) = f[b] /\ f[b] # x
  BY <1>1, AtSlot
<1>3. /\ ln[x] = nx[f[b]] /\ ln[f[b]] = x
      /\ \A k \in 0 .. n : k # b => ln[f[k]] = nx[f[k]]
  BY <1>1, <1>2 DEF LinkNext
<1>4. /\ \A k \in 0 .. b : g[k] = f[k]
      /\ g[b + 1] = x
      /\ \A k \in b + 2 .. n + 1 : g[k] = f[k - 1]
  BY DEF Put
<1> HIDE DEF g, ln
<1>5. g[0] = e
  BY <1>1, <1>4
<1>6. ln[g[n + 1]] = e
  <2>1. CASE b = n
    BY <1>1, <1>3, <1>4, <2>1
  <2>2. CASE b # n
    <3>1. n + 1 \in b + 2 .. n + 1 /\ (n + 1) - 1 = n /\ n \in 0 .. n
      BY <2>2
    <3>2. g[n + 1] = f[n]
      BY <1>4, <3>1
    <3> QED BY <1>1, <1>3, <2>2, <3>1, <3>2
  <2> QED BY <2>1, <2>2
<1>7. ASSUME NEW k \in 0 .. (n + 1) - 1 PROVE g[k + 1] = ln[g[k]]
  <2>1. CASE k < b
    <3>1. k \in 0 .. b /\ k + 1 \in 0 .. b /\ k \in 0 .. n - 1 /\ k \in 0 .. n /\ k # b
      BY <2>1
    <3> QED BY <1>1, <1>3, <1>4, <3>1
  <2>2. CASE k = b
    BY <1>3, <1>4, <2>2
  <2>3. CASE k = b + 1
    <3>1. k + 1 \in b + 2 .. n + 1 /\ (k + 1) - 1 = b + 1 /\ b \in 0 .. n - 1
      BY <2>3
    <3>2. g[k + 1] = f[b + 1] /\ f[b + 1] = nx[f[b]]
      BY <1>1, <1>4, <3>1
    <3> QED BY <1>3, <1>4, <2>3, <3>2
  <2>4. CASE k > b + 1
    <3> DEFINE j == k - 1
    <3>1. k + 1 \in b + 2 .. n + 1 /\ (k + 1) - 1 = k /\ k \in b + 2 .. n + 1
          /\ j \in 0 .. n - 1 /\ j + 1 = k /\ j \in 0 .. n /\ j # b
      BY <2>4
    <3>2. g[k + 1] = f[k] /\ g[k] = f[j]
      BY <1>4, <3>1
    <3> HIDE DEF j
    <3>3. f[k] = nx[f[j]] /\ ln[f[j]] = nx[f[j]]
      BY <1>1, <1>3, <3>1
    <3> QED BY <3>2, <3>3
  <2> QED BY <2>1, <2>2, <2>3, <2>4
<1> DEFINE from(k) == IF k <= b THEN k ELSE k - 1
<1>8. \A k \in 0 .. n + 1 : k # b + 1 => g[k] = f[from(k)] /\ from(k) \in 0 .. n
  <2> SUFFICES ASSUME NEW k \in 0 .. n + 1, k # b + 1
               PROVE  g[k] = f[from(k)] /\ from(k) \in 0 .. n
    OBVIOUS
  <2>1. CASE k <= b
    BY <1>4, <2>1
  <2>2. CASE ~(k <= b)
    <3>1. k \in b + 2 .. n + 1
      BY <2>2
    <3> QED BY <1>4, <2>2, <3>1
  <2> QED BY <2>1, <2>2
<1>9. \A k \in 0 .. n + 1 : g[k] \in Slots
  BY <1>1, <1>4, <1>8
<1>10. \A j, k \in 0 .. n + 1 : g[j] = g[k] => j = k
  <2> SUFFICES ASSUME NEW j \in 0 .. n + 1, NEW k \in 0 .. n + 1, g[j] = g[k] PROVE j = k
    OBVIOUS
  <2>1. CASE j # b + 1 /\ k # b + 1
    <3>1. from(j) = from(k)
      BY <1>1, <1>8, <2>1
    <3> QED BY <2>1, <3>1
  <2>2. CASE j = b + 1
    BY <1>4, <1>8, <2>2
  <2>3. CASE k = b + 1
    BY <1>4, <1>8, <2>3
  <2> QED BY <2>1, <2>2, <2>3
<1> QED BY <1>5, <1>6, <1>7, <1>9, <1>10 DEF Spells, Walks, g, ln

(* The slot f[p], which is not the first, taken out.                       *)
LEMMA DropSpells ==
  ASSUME NEW nx \in [Slots -> Slots \cup {NONE}], NEW pv, NEW e \in Slots, NEW n \in Nat, NEW f,
         Spells(f, nx, e, n), NEW p \in 1 .. n, pv[f[p]] = f[p - 1]
  PROVE  Spells(Drop(f, n, p), SkipNext(nx, pv, f[p]), e, n - 1)
<1> DEFINE g == Drop(f, n, p)
           sn == SkipNext(nx, pv, f[p])
           q == p - 1
<1>1. /\ f[0] = e /\ nx[f[n]] = e
      /\ \A k \in 0 .. n - 1 : f[k + 1] = nx[f[k]]
      /\ \A k \in 0 .. n : f[k] \in Slots
      /\ \A j, k \in 0 .. n : f[j] = f[k] => j = k
  BY DEF Spells, Walks
<1>2. q \in 0 .. n - 1 /\ q \in 0 .. n /\ q + 1 = p /\ pv[f[p]] = f[q]
  OBVIOUS
<1>3. /\ \A k \in 0 .. q : g[k] = f[k]
      /\ \A k \in p .. n - 1 : g[k] = f[k + 1]
  BY DEF Drop
<1> HIDE DEF q, g
<1>4. f[q] \in Slots /\ At(f[q]) = f[q] /\ (f[q] = nx[f[q - 1]] \/ q = 0)
  BY <1>1, <1>2, AtSlot
<1>5. /\ sn[f[q]] = nx[f[p]]
      /\ \A k \in 0 .. n : k # q => sn[f[k]] = nx[f[k]]
  <2>1. f[q] \in Slots /\ At(f[q]) = f[q]
    BY <1>1, <1>2, AtSlot
  <2>2. sn = [nx EXCEPT ![f[q]] = nx[f[p]]]
    BY <1>2, <2>1 DEF SkipNext
  <2> HIDE DEF sn
  <2> QED BY <1>1, <1>2, <2>1, <2>2
<1> HIDE DEF sn
<1>6. g[0] = e
  BY <1>1, <1>2, <1>3
<1>7. sn[g[n - 1]] = e
  <2>1. CASE p = n
    <3>1. q = n - 1 /\ q \in 0 .. q
      BY <1>2, <2>1
    <3> QED BY <1>1, <1>3, <1>5, <2>1, <3>1
  <2>2. CASE p # n
    <3>1. n - 1 \in p .. n - 1 /\ (n - 1) + 1 = n /\ n # q /\ n \in 0 .. n
      BY <1>2, <2>2
    <3>2. g[n - 1] = f[n]
      BY <1>3, <3>1
    <3> QED BY <1>1, <1>5, <3>1, <3>2
  <2> QED BY <2>1, <2>2
<1>8. ASSUME NEW k \in 0 .. (n - 1) - 1 PROVE g[k + 1] = sn[g[k]]
  <2>1. CASE k < q
    <3>1. k \in 0 .. q /\ k + 1 \in 0 .. q /\ k \in 0 .. n - 1 /\ k \in 0 .. n /\ k # q
      BY <1>2, <2>1
    <3> QED BY <1>1, <1>3, <1>5, <3>1
  <2>2. CASE k = q
    <3>1. p \in p .. n - 1 /\ p \in 0 .. n - 1 /\ q \in 0 .. q
      BY <1>2, <2>2
    <3>2. g[k + 1] = f[p + 1] /\ g[k] = f[q] /\ f[p + 1] = nx[f[p]]
      BY <1>1, <1>2, <1>3, <2>2, <3>1
    <3> QED BY <1>5, <3>2
  <2>3. CASE k > q
    <3> DEFINE j == k + 1
    <3>1. k \in p .. n - 1 /\ j \in p .. n - 1 /\ j \in 0 .. n - 1 /\ j \in 0 .. n /\ j # q
      BY <1>2, <2>3
    <3>2. g[j] = f[j + 1] /\ g[k] = f[j]
      BY <1>3, <3>1
    <3> HIDE DEF j
    <3>3. f[j + 1] = nx[f[j]] /\ sn[f[j]] = nx[f[j]]
      BY <1>1, <1>5, <3>1
    <3> QED BY <3>2, <3>3 DEF j
  <2> QED BY <1>2, <2>1, <2>2, <2>3
<1> DEFINE from(k) == IF k < p THEN k ELSE k + 1
<1>9. \A k \in 0 .. n - 1 : g[k] = f[from(k)] /\ from(k) \in 0 .. n
  <2> SUFFICES ASSUME NEW k \in 0 .. n - 1 PROVE g[k] = f[from(k)] /\ from(k) \in 0 .. n
    OBVIOUS
  <2>1. CASE k < p
    BY <1>2, <1>3, <2>1
  <2>2. CASE ~(k < p)
    BY <1>2, <1>3, <2>2
  <2> QED BY <2>1, <2>2
<1>10. \A k \in 0 .. n - 1 : g[k] \in Slots
  BY <1>1, <1>9
<1>11. \A j, k \in 0 .. n - 1 : g[j] = g[k] => j = k
  <2> SUFFICES ASSUME NEW j \in 0 .. n - 1, NEW k \in 0 .. n - 1, g[j] = g[k] PROVE j = k
    OBVIOUS
  <2>1. from(j) = from(k)
    BY <1>1, <1>9
  <2> QED BY <2>1
<1> QED BY <1>6, <1>7, <1>8, <1>10, <1>11 DEF Spells, Walks, g, sn

(* Links that no slot of the ring has lost spell the same.                 *)
LEMMA SameSpells ==
  ASSUME NEW nx, NEW ny, NEW e, NEW n \in Nat, NEW f, Spells(f, nx, e, n),
         \A k \in 0 .. n : ny[f[k]] = nx[f[k]]
  PROVE  Spells(f, ny, e, n)
<1>1. n \in 0 .. n /\ \A k \in 0 .. n - 1 : k \in 0 .. n
  OBVIOUS
<1> QED BY <1>1 DEF Spells, Walks

(* What spells the ring of l after a step is its walk after the step.      *)
LEMMA ChainAfter ==
  ASSUME NEW l \in ListSet, NEW m \in 0 .. CAPACITY, NEW g, Spells(g, next', EndOf(l), m)
  PROVE  \A k \in 0 .. m : Chain(l)'[k] = g[k]
<1> DEFINE at == Chain(l)'
           nx == next'
           T == {k \in Nat : k \in 0 .. m => at[k] = g[k]}
<1>1. at[0] = EndOf(l) /\ Walks(at, nx, N)
  BY ChainIsWalk, WalkFromWalks
<1>2. g[0] = EndOf(l) /\ Walks(g, nx, m)
  BY DEF Spells
<1> HIDE DEF at, nx
<1>3. N \in Nat /\ m \in Nat /\ m < N
  BY Geometry
<1>4. 0 \in T
  BY <1>1, <1>2
<1>5. ASSUME NEW k \in Nat, k \in T PROVE k + 1 \in T
  BY <1>1, <1>2, <1>3, <1>5 DEF Walks
<1>6. Nat \subseteq T
  BY <1>4, <1>5, AllNumbers
<1> QED BY <1>3, <1>6 DEF at

-----------------------------------------------------------------------------
(* Places: where a slot stands in the walk, and what each operation does   *)
(* to the walk and to the place of the cursor.                             *)

PlaceOf(l, s) == CHOOSE k \in 0 .. len[l] : Chain(l)[k] = s

(* Every slot of a ring has one place, the marker the place 0; the turn is *)
(* the place of the cursor.                                                *)
LEMMA Places ==
  ASSUME ListInv, NEW l \in ListSet
  PROVE  /\ \A s \in Ring(l) : PlaceOf(l, s) \in 0 .. len[l] /\ Chain(l)[PlaceOf(l, s)] = s
         /\ \A k \in 0 .. len[l] : PlaceOf(l, Chain(l)[k]) = k
         /\ TurnOf(l) \in 0 .. len[l] /\ Chain(l)[TurnOf(l)] = cursor[l]
         /\ \A k \in 0 .. len[l] : Chain(l)[k] = cursor[l] => TurnOf(l) = k
<1> DEFINE at == Chain(l)
           n == len[l]
<1>1. /\ \A k \in 0 .. n : at[k] \in Ring(l)
      /\ \A j, k \in 0 .. n : at[j] = at[k] => j = k
      /\ \A s \in Ring(l) : \E k \in 0 .. n : at[k] = s
  <2>1. \A k \in 0 .. n : k \in 0 .. N
    BY Geometry DEF ListInv, Typed
  <2> QED BY <2>1, ListsSpelled DEF Spelled
<1>2. TurnOf(l) = PlaceOf(l, cursor[l])
  BY DEF TurnOf, PlaceOf
<1>3. cursor[l] \in Ring(l)
  BY DEF ListInv, RingInv, CountAndCursor
<1>4. \A s \in Ring(l) : PlaceOf(l, s) \in 0 .. n /\ at[PlaceOf(l, s)] = s
  <2> TAKE s \in Ring(l)
  <2>1. \E k \in 0 .. n : at[k] = s
    BY <1>1
  <2> HIDE DEF at, n
  <2> QED BY <2>1, Zenon DEF PlaceOf, at, n
<1> HIDE DEF at, n
<1> QED BY <1>1, <1>2, <1>3, <1>4 DEF at, n

TurnPlaced(l) ==
  /\ TurnOf(l) \in 0 .. len[l] /\ Chain(l)[TurnOf(l)] = cursor[l]
  /\ \A k \in 0 .. len[l] : Chain(l)[k] = cursor[l] => TurnOf(l) = k

LEMMA PlacesAfter == ListInv' => \A l \in ListSet : TurnPlaced(l)'
<1>1. ListInv => \A l \in ListSet : TurnPlaced(l)
  BY Places DEF TurnPlaced
<1>2. (ListInv => \A l \in ListSet : TurnPlaced(l))'
  BY <1>1, PTL
<1> QED BY <1>2 DEF ListSet

(* A list whose links, count and cursor a step keeps is read as before.    *)
SameList(l) ==
  /\ len'[l] = len[l] /\ TurnOf(l)' = TurnOf(l)
  /\ \A k \in 0 .. len[l] : Chain(l)'[k] = Chain(l)[k]

LEMMA ListKept ==
  ASSUME ListInv, ListInv', NEW l \in ListSet, \A s \in Ring(l) : next'[s] = next[s],
         len'[l] = len[l], cursor'[l] = cursor[l]
  PROVE  SameList(l)
<1> DEFINE at == Chain(l)
           n == len[l]
<1>1. n \in 0 .. CAPACITY /\ n \in Nat
  BY Geometry DEF ListInv, Typed
<1>2. Spells(at, next, EndOf(l), n)
  BY ChainSpells
<1>3. \A k \in 0 .. n : at[k] \in Ring(l)
  <2>1. \A k \in 0 .. n : k \in 0 .. N
    BY Geometry DEF ListInv, Typed
  <2> QED BY <2>1, ListsSpelled DEF Spelled
<1> HIDE DEF at, n
<1>4. Spells(at, next', EndOf(l), n)
  BY <1>1, <1>2, <1>3, SameSpells
<1>5. \A k \in 0 .. n : Chain(l)'[k] = at[k]
  BY <1>1, <1>4, ChainAfter
<1>6. TurnOf(l) \in 0 .. n /\ at[TurnOf(l)] = cursor[l]
  BY Places DEF at, n
<1>7. TurnOf(l)' = TurnOf(l)
  BY <1>5, <1>6, PlacesAfter DEF TurnPlaced, n
<1> QED BY <1>5, <1>7 DEF SameList, at, n

(* An item is linked behind the slot at place b.                           *)
LEMMA Entered ==
  ASSUME ListInv, ListInv', NEW l \in ListSet, NEW b \in 0 .. len[l],
         NEW i \in Items, container[i] = NO_LIST,
         next' = LinkNext(next, i, Chain(l)[b], next[Chain(l)[b]]),
         len' = [len EXCEPT ![l] = (@ + 1) % (NONE + 1)], UNCHANGED cursor
  PROVE  /\ len'[l] = len[l] + 1
         /\ \A k \in 0 .. len[l] + 1 : Chain(l)'[k] = Put(Chain(l), len[l], b, i)[k]
         /\ TurnOf(l)' = IF b + 1 <= TurnOf(l) THEN TurnOf(l) + 1 ELSE TurnOf(l)
         /\ \A k \in ListSet : k # l => SameList(k)
<1> DEFINE at == Chain(l)
           n == len[l]
           g == Put(at, n, b, i)
<1>1. /\ n \in 0 .. CAPACITY /\ n \in Nat /\ len'[l] = n + 1 /\ n + 1 \in 0 .. CAPACITY
  <2>1. n \in 0 .. CAPACITY /\ len'[l] \in 0 .. CAPACITY /\ len'[l] = (n + 1) % (NONE + 1)
    BY DEF ListInv, Typed
  <2>2. CAPACITY \in Nat /\ CAPACITY <= 32768 /\ NONE + 1 = 65536
    BY Geometry
  <2> HIDE DEF n
  <2>3. (n + 1) % (NONE + 1) = n + 1
    BY <2>1, <2>2
  <2> QED BY <2>1, <2>2, <2>3
<1>2. Spells(at, next, EndOf(l), n)
  BY ChainSpells
<1>3. \A k \in 0 .. n : at[k] \in Ring(l)
  <2>1. \A k \in 0 .. n : k \in 0 .. N
    BY Geometry DEF ListInv, Typed
  <2> QED BY <2>1, ListsSpelled DEF Spelled
<1>4. i \in Slots /\ \A k \in ListSet : i \notin Ring(k)
  BY Geometry, Ends DEF Members, Ring
<1>5. next \in [Slots -> Slots \cup {NONE}] /\ b \in 0 .. n
  BY DEF ListInv, Typed
<1>6. TurnOf(l) \in 0 .. n /\ at[TurnOf(l)] = cursor[l]
  BY Places
<1> HIDE DEF at, n
<1>7. \A k \in 0 .. n : at[k] # i
  BY <1>3, <1>4
<1>8. Spells(g, LinkNext(next, i, at[b], next[at[b]]), EndOf(l), n + 1)
  BY <1>1, <1>2, <1>4, <1>5, <1>7, PutSpells
<1>9. Spells(g, next', EndOf(l), n + 1)
  BY <1>8 DEF at
<1>10. \A k \in 0 .. n + 1 : Chain(l)'[k] = g[k]
  <2> HIDE DEF g
  <2> QED BY <1>1, <1>9, ChainAfter
<1>11. TurnOf(l)' = IF b + 1 <= TurnOf(l) THEN TurnOf(l) + 1 ELSE TurnOf(l)
  <2> DEFINE t == TurnOf(l)
             u == IF b + 1 <= t THEN t + 1 ELSE t
  <2>1. t \in 0 .. n /\ at[t] = cursor[l]
    BY <1>6
  <2> HIDE DEF t
  <2>2. u \in 0 .. n + 1 /\ g[u] = at[t]
    <3>1. CASE b + 1 <= t
      BY <1>1, <1>5, <2>1, <3>1 DEF Put
    <3>2. CASE ~(b + 1 <= t)
      BY <1>1, <1>5, <2>1, <3>2 DEF Put
    <3> QED BY <3>1, <3>2
  <2> HIDE DEF u, g
  <2>3. Chain(l)'[u] = cursor'[l] /\ u \in 0 .. len'[l]
    BY <1>1, <1>10, <2>1, <2>2
  <2>4. TurnOf(l)' = u
    BY <2>3, PlacesAfter DEF TurnPlaced
  <2> QED BY <2>4 DEF u, t
<1>12. ASSUME NEW k \in ListSet, k # l PROVE SameList(k)
  <2>1. len'[k] = len[k] /\ cursor'[k] = cursor[k]
    BY <1>12 DEF ListInv, Typed
  <2>2. \A s \in Ring(k) : next'[s] = next[s]
    <3> TAKE s \in Ring(k)
    <3>1. s \in Slots /\ s \notin Ring(l) /\ at[b] \in Ring(l) /\ at[b] \in Slots /\ s # i
      BY <1>3, <1>4, <1>5, <1>12, RingFacts
    <3> QED BY <1>5, <3>1, AtSlot DEF LinkNext, at
  <2> QED BY <2>1, <2>2, ListKept
<1> QED BY <1>1, <1>10, <1>11, <1>12 DEF at, n

(* The place an item leaves a walk from, and what the walk is without it.  *)
LEMMA Unlinked ==
  ASSUME ListInv, NEW l \in ListSet, NEW i \in Members(l)
  PROVE  LET n == len[l]
             p == PlaceOf(l, i)
         IN /\ n \in 1 .. CAPACITY /\ p \in 1 .. n /\ Chain(l)[p] = i
            /\ prev[i] = Chain(l)[p - 1]
            /\ Spells(Drop(Chain(l), n, p), SkipNext(next, prev, i), EndOf(l), n - 1)
            /\ \A k \in 0 .. n - 1 : Drop(Chain(l), n, p)[k] \in Ring(l) \ {i}
<1> DEFINE at == Chain(l)
           n == len[l]
           p == PlaceOf(l, i)
           q == p - 1
<1>1. /\ n \in 0 .. CAPACITY /\ n \in Nat /\ i \in Ring(l) /\ i # EndOf(l)
      /\ next \in [Slots -> Slots \cup {NONE}] /\ EndOf(l) \in Slots
  BY Geometry, RingFacts DEF ListInv, Typed, Ring
<1>2. Spells(at, next, EndOf(l), n)
  BY ChainSpells
<1>3. /\ \A k \in 0 .. n : at[k] \in Ring(l)
      /\ \A k \in 0 .. n - 1 : at[k + 1] = next[at[k]]
      /\ \A j, k \in 0 .. n : at[j] = at[k] => j = k
      /\ at[0] = EndOf(l)
  <2>1. \A k \in 0 .. n : k \in 0 .. N /\ (k \in 0 .. n - 1 => k \in 0 .. N - 1)
    BY Geometry DEF ListInv, Typed
  <2> QED BY <2>1, ListsSpelled DEF Spelled
<1>4. p \in 0 .. n /\ at[p] = i
  BY <1>1, Places
<1>5. Doubly(next, prev, Ring(l))
  BY DEF ListInv, RingInv, OneRing
<1> HIDE DEF at, n, p
<1>6. p \in 1 .. n /\ n \in 1 .. CAPACITY
  BY <1>1, <1>3, <1>4
<1>7. prev[i] = at[p - 1]
  <2>1. q \in 0 .. n - 1 /\ q + 1 = p /\ q \in 0 .. n
    BY <1>6
  <2> HIDE DEF q
  <2>2. i = next[at[q]] /\ at[q] \in Ring(l)
    BY <1>3, <1>4, <2>1
  <2>3. prev[i] = at[q]
    BY <1>5, <2>2 DEF Doubly
  <2> QED BY <2>3 DEF q
<1>8. Spells(Drop(at, n, p), SkipNext(next, prev, i), EndOf(l), n - 1)
  BY <1>1, <1>2, <1>4, <1>6, <1>7, DropSpells
<1>9. ASSUME NEW k \in 0 .. n - 1 PROVE Drop(at, n, p)[k] \in Ring(l) \ {i}
  <2>1. CASE k < p
    BY <1>1, <1>3, <1>4, <1>6, <2>1 DEF Drop
  <2>2. CASE ~(k < p)
    BY <1>1, <1>3, <1>4, <1>6, <2>2 DEF Drop
  <2> QED BY <2>1, <2>2
<1> QED BY <1>4, <1>6, <1>7, <1>8, <1>9 DEF at, n, p

(* An item leaves its list; a cursor on it steps back.                     *)
LEMMA Left ==
  ASSUME ListInv, ListInv', NEW l \in ListSet, NEW i \in Members(l),
         next' = SkipNext(next, prev, i),
         len' = [len EXCEPT ![l] = (len[l] - 1) % (NONE + 1)],
         cursor' = [cursor EXCEPT ![l] = IF @ = i THEN prev[i] ELSE @]
  PROVE  LET p == PlaceOf(l, i)
         IN /\ len'[l] = len[l] - 1
            /\ \A k \in 0 .. len[l] - 1 : Chain(l)'[k] = Drop(Chain(l), len[l], p)[k]
            /\ TurnOf(l)' = IF p <= TurnOf(l) THEN TurnOf(l) - 1 ELSE TurnOf(l)
            /\ \A k \in ListSet : k # l => SameList(k)
<1> DEFINE at == Chain(l)
           n == len[l]
           p == PlaceOf(l, i)
           g == Drop(at, n, p)
<1>1. /\ n \in 1 .. CAPACITY /\ p \in 1 .. n /\ at[p] = i /\ prev[i] = at[p - 1]
      /\ Spells(g, next', EndOf(l), n - 1)
  BY Unlinked
<1>2. len'[l] = n - 1 /\ n - 1 \in 0 .. CAPACITY
  <2>1. len'[l] = (n - 1) % (NONE + 1) /\ CAPACITY \in Nat /\ CAPACITY <= 32768 /\ NONE + 1 = 65536
    BY Geometry DEF ListInv, Typed
  <2> HIDE DEF n
  <2>2. (n - 1) % (NONE + 1) = n - 1
    BY <1>1, <2>1
  <2> QED BY <1>1, <2>1, <2>2
<1>3. /\ TurnOf(l) \in 0 .. n /\ at[TurnOf(l)] = cursor[l]
      /\ \A j, k \in 0 .. n : at[j] = at[k] => j = k
  BY Places, ListsSpelled DEF Spelled
<1>4. cursor'[l] = IF cursor[l] = i THEN prev[i] ELSE cursor[l]
  BY DEF ListInv, Typed
<1> HIDE DEF at, n, p
<1>5. \A k \in 0 .. n - 1 : Chain(l)'[k] = g[k]
  <2> HIDE DEF g
  <2> QED BY <1>1, <1>2, ChainAfter
<1>6. TurnOf(l)' = IF p <= TurnOf(l) THEN TurnOf(l) - 1 ELSE TurnOf(l)
  <2> DEFINE t == TurnOf(l)
             u == IF p <= t THEN t - 1 ELSE t
  <2>1. t \in 0 .. n /\ at[t] = cursor[l]
    BY <1>3
  <2> HIDE DEF t
  <2>2. u \in 0 .. n - 1 /\ g[u] = cursor'[l]
    <3>1. CASE t = p
      <4>1. u = p - 1 /\ u \in 0 .. n - 1 /\ u < p
        BY <1>1, <2>1, <3>1
      <4> HIDE DEF u
      <4> QED BY <1>1, <1>4, <2>1, <3>1, <4>1 DEF Drop
    <3>2. CASE t < p
      <4>1. u = t /\ u \in 0 .. n - 1 /\ u < p /\ p \in 0 .. n /\ t # p
        BY <1>1, <2>1, <3>2
      <4>2. cursor[l] # i
        BY <1>1, <1>3, <2>1, <4>1
      <4> HIDE DEF u
      <4> QED BY <1>1, <1>4, <2>1, <4>1, <4>2 DEF Drop
    <3>3. CASE t > p
      <4>1. u = t - 1 /\ u \in 0 .. n - 1 /\ ~(u < p) /\ u + 1 = t /\ p \in 0 .. n /\ t # p
        BY <1>1, <2>1, <3>3
      <4>2. cursor[l] # i
        BY <1>1, <1>3, <2>1, <4>1
      <4> HIDE DEF u
      <4> QED BY <1>1, <1>4, <2>1, <4>1, <4>2 DEF Drop
    <3> QED BY <1>1, <2>1, <3>1, <3>2, <3>3
  <2> HIDE DEF u, g
  <2>3. Chain(l)'[u] = cursor'[l] /\ u \in 0 .. len'[l]
    BY <1>2, <1>5, <2>2
  <2>4. TurnOf(l)' = u
    BY <2>3, PlacesAfter DEF TurnPlaced
  <2> QED BY <2>4 DEF u, t
<1>7. ASSUME NEW k \in ListSet, k # l PROVE SameList(k)
  <2>1. len'[k] = len[k] /\ cursor'[k] = cursor[k]
    BY <1>7 DEF ListInv, Typed
  <2>2. \A s \in Ring(k) : next'[s] = next[s]
    BY <1>7, SkipFrame
  <2> QED BY <1>7, <2>1, <2>2, ListKept
<1> QED BY <1>2, <1>5, <1>6, <1>7 DEF at, n, p

(* An item moves to the end of its list, in front of the cursor, once a    *)
(* cursor on it has stepped back.                                          *)
LEMMA Moved ==
  ASSUME ListInv, ListInv', NEW l \in ListSet, NEW i \in Members(l), MoveToEnd(l, i)
  PROVE  LET n == len[l]
             p == PlaceOf(l, i)
             t == IF p <= TurnOf(l) THEN TurnOf(l) - 1 ELSE TurnOf(l)
             b == IF t = 0 THEN n - 1 ELSE t - 1
         IN /\ len'[l] = n
            /\ \A k \in 0 .. n : Chain(l)'[k] = Put(Drop(Chain(l), n, p), n - 1, b, i)[k]
            /\ TurnOf(l)' = IF t = 0 THEN 0 ELSE t + 1
            /\ \A k \in ListSet : k # l => SameList(k)
<1> DEFINE at == Chain(l)
           n == len[l]
           m == n - 1
           p == PlaceOf(l, i)
           d == Drop(at, n, p)
           t == IF p <= TurnOf(l) THEN TurnOf(l) - 1 ELSE TurnOf(l)
           b == IF t = 0 THEN m ELSE t - 1
           c == IF cursor[l] = i THEN prev[i] ELSE cursor[l]
           nx == SkipNext(next, prev, i)
           pv == SkipPrev(next, prev, i)
<1>1. /\ next' = LinkNext(nx, i, pv[At(c)], c)
      /\ cursor' = [cursor EXCEPT ![l] = c] /\ UNCHANGED len
  <2>1. container[i] = l /\ i \in Items
    BY DEF Members
  <2> QED BY <2>1 DEF MoveToEnd
<1>2. /\ n \in 1 .. CAPACITY /\ p \in 1 .. n /\ at[p] = i /\ prev[i] = at[p - 1]
      /\ Spells(d, nx, EndOf(l), m)
      /\ \A k \in 0 .. m : d[k] \in Ring(l) \ {i}
  BY Unlinked
<1>3. /\ i \in Slots
      /\ nx \in [Slots -> Slots \cup {NONE}]
      /\ Doubly(nx, pv, Ring(l) \ {i})
  BY SkipFacts
<1>4. /\ TurnOf(l) \in 0 .. n /\ at[TurnOf(l)] = cursor[l]
      /\ \A j, k \in 0 .. n : at[j] = at[k] => j = k
  BY Places, ListsSpelled DEF Spelled
<1>5. /\ \A k \in 0 .. m - 1 : d[k + 1] = nx[d[k]]
      /\ nx[d[m]] = EndOf(l) /\ d[0] = EndOf(l)
  BY <1>2 DEF Spells, Walks
<1> HIDE DEF at, n, p, c, nx, pv
<1>6. t \in 0 .. m /\ m \in Nat /\ d[t] = c
  <2> DEFINE T == TurnOf(l)
  <2>1. T \in 0 .. n /\ at[T] = cursor[l]
    BY <1>4
  <2> HIDE DEF T
  <2> DEFINE u == IF p <= T THEN T - 1 ELSE T
  <2>2. u \in 0 .. m /\ m \in Nat /\ d[u] = c
    <3>1. CASE T = p
      <4>1. u = p - 1 /\ u \in 0 .. n - 1 /\ u < p
        BY <1>2, <2>1, <3>1
      <4> HIDE DEF u
      <4> QED BY <1>2, <2>1, <3>1, <4>1 DEF Drop, c
    <3>2. CASE T < p
      <4>1. u = T /\ u \in 0 .. n - 1 /\ u < p /\ p \in 0 .. n /\ T # p
        BY <1>2, <2>1, <3>2
      <4>2. cursor[l] # i
        BY <1>2, <1>4, <2>1, <4>1
      <4> HIDE DEF u
      <4> QED BY <1>2, <2>1, <4>1, <4>2 DEF Drop, c
    <3>3. CASE T > p
      <4>1. u = T - 1 /\ u \in 0 .. n - 1 /\ ~(u < p) /\ u + 1 = T /\ p \in 0 .. n /\ T # p
        BY <1>2, <2>1, <3>3
      <4>2. cursor[l] # i
        BY <1>2, <1>4, <2>1, <4>1
      <4> HIDE DEF u
      <4> QED BY <1>2, <2>1, <4>1, <4>2 DEF Drop, c
    <3> QED BY <1>2, <2>1, <3>1, <3>2, <3>3
  <2> QED BY <2>2 DEF T
<1> HIDE DEF d, t, m
<1>7. b \in 0 .. m
  BY <1>6
<1>8. nx[d[b]] = c
  <2>1. CASE t = 0
    BY <1>5, <1>6, <2>1
  <2>2. CASE t # 0
    <3>1. b = t - 1 /\ b \in 0 .. m - 1 /\ b + 1 = t
      BY <1>6, <2>2
    <3> HIDE DEF b
    <3> QED BY <1>5, <1>6, <3>1
  <2> QED BY <2>1, <2>2
<1> HIDE DEF b
<1>9. /\ c \in Slots /\ At(c) = c /\ pv[c] = d[b] /\ \A k \in 0 .. m : d[k] # i
  <2>1. d[b] \in Ring(l) \ {i} /\ c \in Ring(l) \ {i}
    BY <1>2, <1>6, <1>7
  <2>2. pv[c] = d[b]
    BY <1>3, <1>8, <2>1 DEF Doubly
  <2> QED BY <1>2, <2>1, <2>2, RingFacts, AtSlot
<1> DEFINE g == Put(d, m, b, i)
<1>10. next' = LinkNext(nx, i, d[b], nx[d[b]])
  BY <1>1, <1>8, <1>9
<1>11. Spells(g, next', EndOf(l), m + 1)
  BY <1>2, <1>3, <1>6, <1>7, <1>9, <1>10, PutSpells
<1>12. n = m + 1 /\ n \in 0 .. CAPACITY /\ len'[l] = n
  BY <1>1, <1>2 DEF m, n
<1>13. \A k \in 0 .. n : Chain(l)'[k] = g[k]
  <2> HIDE DEF g
  <2> QED BY <1>11, <1>12, ChainAfter
<1>14. TurnOf(l)' = IF t = 0 THEN 0 ELSE t + 1
  <2> DEFINE u == IF t = 0 THEN 0 ELSE t + 1
  <2>1. u \in 0 .. n /\ g[u] = c
    <3>1. CASE t = 0
      <4>1. u = 0 /\ 0 <= b /\ 0 \in 0 .. m + 1
        BY <1>6, <1>7, <3>1
      <4> QED BY <1>6, <1>12, <3>1, <4>1 DEF Put
    <3>2. CASE t # 0
      <4>1. u = t + 1 /\ b = t - 1 /\ u \in 0 .. m + 1 /\ ~(u <= b) /\ u # b + 1 /\ u - 1 = t
        BY <1>6, <3>2 DEF b
      <4> HIDE DEF u
      <4> QED BY <1>6, <1>12, <4>1 DEF Put
    <3> QED BY <3>1, <3>2
  <2> HIDE DEF u, g
  <2>2. cursor'[l] = c
    BY <1>1 DEF ListInv, Typed
  <2>3. TurnOf(l)' = u
    BY <1>12, <1>13, <2>1, <2>2, PlacesAfter DEF TurnPlaced
  <2> QED BY <2>3 DEF u
<1>15. ASSUME NEW k \in ListSet, k # l PROVE SameList(k)
  <2>1. len'[k] = len[k] /\ cursor'[k] = cursor[k]
    BY <1>1, <1>15 DEF ListInv, Typed
  <2>2. \A s \in Ring(k) : next'[s] = next[s]
    <3> TAKE s \in Ring(k)
    <3>1. nx[s] = next[s]
      BY <1>15, SkipFrame DEF nx
    <3>2. s \in Slots /\ s \notin Ring(l) /\ d[b] \in Ring(l) /\ d[b] \in Slots /\ i \in Ring(l)
      BY <1>2, <1>7, <1>15, RingFacts DEF Ring
    <3> QED BY <1>3, <1>10, <3>1, <3>2, AtSlot DEF LinkNext
  <2> QED BY <1>15, <2>1, <2>2, ListKept
<1> QED BY <1>12, <1>13, <1>14, <1>15 DEF b, t, d, m, n, p, at

(* The turn goes one place on, from the last place to the first.           *)
LEMMA Turned ==
  ASSUME ListInv, ListInv', NEW l \in ListSet, len[l] # 0, NextRoundRobin(l)
  PROVE  LET n == len[l]
             t == IF TurnOf(l) = n THEN 1 ELSE TurnOf(l) + 1
         IN /\ len'[l] = n /\ TurnOf(l)' = t
            /\ \A k \in 0 .. n : Chain(l)'[k] = Chain(l)[k]
            /\ ret' = Ok(Chain(l)[t])
            /\ \A k \in ListSet : k # l => SameList(k)
<1> DEFINE at == Chain(l)
           n == len[l]
           T == TurnOf(l)
           t == IF T = n THEN 1 ELSE T + 1
           first == next[At(cursor[l])]
           nxt == IF first = EndOf(l) THEN next[At(first)] ELSE first
<1>1. /\ cursor' = [cursor EXCEPT ![l] = nxt] /\ ret' = Ok(nxt)
      /\ UNCHANGED <<nodes, len>>
  BY DEF NextRoundRobin
<1>2. /\ T \in 0 .. n /\ at[T] = cursor[l]
      /\ n \in 1 .. CAPACITY /\ n \in 0 .. CAPACITY /\ n < N /\ n \in 0 .. N /\ N \in Nat
  BY Places, Geometry DEF ListInv, Typed
<1>3. /\ Spells(at, next, EndOf(l), n)
      /\ \A k \in 0 .. n : at[k] \in Ring(l)
      /\ at[n + 1] = EndOf(l) /\ at[0] = EndOf(l)
      /\ \A k \in 0 .. n : at[k + 1] = next[at[k]]
      /\ \A j, k \in 0 .. n : at[j] = at[k] => j = k
  <2>1. \A k \in 0 .. n : k \in 0 .. N /\ k \in 0 .. N - 1
    BY <1>2
  <2> QED BY <2>1, ChainSpells, ListsSpelled DEF Spelled
<1>4. \A s \in Ring(l) : At(s) = s
  BY RingFacts, AtSlot
<1>5. cursor'[l] = nxt
  BY <1>1 DEF ListInv, Typed
<1> HIDE DEF at, n, T
<1>6. t \in 1 .. n /\ at[t] = nxt
  <2>1. first = at[T + 1]
    BY <1>2, <1>3, <1>4
  <2>2. CASE T = n
    <3>1. first = EndOf(l) /\ EndOf(l) \in Ring(l)
      BY <1>2, <1>3, <2>1, <2>2
    <3>2. nxt = next[at[0]] /\ 0 \in 0 .. n
      BY <1>2, <1>3, <1>4, <3>1
    <3> QED BY <1>2, <1>3, <2>2, <3>2
  <2>3. CASE T # n
    <3>1. T + 1 \in 1 .. n /\ T + 1 \in 0 .. n /\ 0 \in 0 .. n
      BY <1>2, <2>3
    <3>2. first # EndOf(l)
      BY <1>3, <2>1, <3>1
    <3> QED BY <2>1, <2>3, <3>1, <3>2
  <2> QED BY <2>2, <2>3
<1> HIDE DEF t, nxt
<1>7. \A k \in 0 .. n : Chain(l)'[k] = at[k]
  <2>1. next' = next
    BY <1>1 DEF nodes
  <2> QED BY <1>2, <1>3, <2>1, ChainAfter
<1>8. TurnOf(l)' = t /\ len'[l] = n
  <2>1. len'[l] = n
    BY <1>1 DEF n
  <2> QED BY <1>2, <1>5, <1>6, <1>7, <2>1, PlacesAfter DEF TurnPlaced
<1>9. ASSUME NEW k \in ListSet, k # l PROVE SameList(k)
  <2>1. len'[k] = len[k] /\ cursor'[k] = cursor[k] /\ next' = next
    BY <1>1, <1>9 DEF ListInv, Typed, nodes
  <2> QED BY <1>9, <2>1, ListKept
<1> QED BY <1>1, <1>6, <1>7, <1>8, <1>9 DEF at, n, T, t

(* insert_end enters in front of the cursor: behind the slot before it in  *)
(* the walk, which is the last one when the cursor is on the marker.       *)
LEMMA EnteredAtEnd ==
  ASSUME ListInv, ListInv', NEW l \in ListSet, NEW i \in Items, container[i] = NO_LIST,
         InsertEnd(l, i)
  PROVE  LET n == len[l]
             t == TurnOf(l)
             b == IF t = 0 THEN n ELSE t - 1
         IN /\ b \in 0 .. n
            /\ len'[l] = n + 1
            /\ \A k \in 0 .. n + 1 : Chain(l)'[k] = Put(Chain(l), n, b, i)[k]
            /\ TurnOf(l)' = IF t = 0 THEN 0 ELSE t + 1
            /\ \A k \in ListSet : k # l => SameList(k)
<1> DEFINE at == Chain(l)
           n == len[l]
           t == TurnOf(l)
           b == IF t = 0 THEN n ELSE t - 1
           c == cursor[l]
<1>1. /\ next' = LinkNext(next, i, prev[At(c)], c)
      /\ len' = [len EXCEPT ![l] = (@ + 1) % (NONE + 1)] /\ UNCHANGED cursor
  BY DEF InsertEnd, LinkBetween
<1>2. /\ t \in 0 .. n /\ at[t] = c /\ c \in Ring(l)
      /\ n \in Nat /\ n < N
  BY Places, Geometry DEF ListInv, Typed, RingInv, CountAndCursor
<1>3. /\ at[n + 1] = EndOf(l) /\ at[0] = EndOf(l)
      /\ \A k \in 0 .. n : at[k + 1] = next[at[k]] /\ at[k] \in Ring(l)
  <2>1. \A k \in 0 .. n : k \in 0 .. N /\ k \in 0 .. N - 1
    BY <1>2, Geometry
  <2> QED BY <2>1, ListsSpelled DEF Spelled
<1>4. Doubly(next, prev, Ring(l)) /\ At(c) = c
  BY <1>2, RingFacts, AtSlot DEF ListInv, RingInv, OneRing
<1> HIDE DEF at, n, t, c
<1>5. b \in 0 .. n /\ next[at[b]] = c
  <2>1. CASE t = 0
    BY <1>2, <1>3, <2>1
  <2>2. CASE t # 0
    <3>1. b = t - 1 /\ b \in 0 .. n /\ b + 1 = t
      BY <1>2, <2>2
    <3> HIDE DEF b
    <3> QED BY <1>2, <1>3, <3>1
  <2> QED BY <2>1, <2>2
<1>6. prev[c] = at[b]
  BY <1>3, <1>4, <1>5 DEF Doubly
<1>7. next' = LinkNext(next, i, at[b], next[at[b]])
  BY <1>1, <1>4, <1>5, <1>6
<1>8. /\ len'[l] = n + 1
      /\ \A k \in 0 .. n + 1 : Chain(l)'[k] = Put(at, n, b, i)[k]
      /\ TurnOf(l)' = IF b + 1 <= t THEN t + 1 ELSE t
      /\ \A k \in ListSet : k # l => SameList(k)
  <2> HIDE DEF b
  <2> QED BY <1>1, <1>5, <1>7, Entered DEF at, n, t
<1>9. b + 1 <= t <=> t # 0
  BY <1>2
<1> HIDE DEF b
<1> QED BY <1>5, <1>8, <1>9 DEF at, n, t, b

(* Remove of an item that is in a list takes it out.                       *)
LEMMA LeftByRemove ==
  ASSUME ListInv, ListInv', NEW l \in ListSet, NEW i \in Members(l), Remove(i)
  PROVE  LET p == PlaceOf(l, i)
         IN /\ len'[l] = len[l] - 1
            /\ \A k \in 0 .. len[l] - 1 : Chain(l)'[k] = Drop(Chain(l), len[l], p)[k]
            /\ TurnOf(l)' = IF p <= TurnOf(l) THEN TurnOf(l) - 1 ELSE TurnOf(l)
            /\ \A k \in ListSet : k # l => SameList(k)
            /\ ret' = Ok(len[l] - 1)
<1>1. i \in Items /\ container[i] = l /\ l # NO_LIST
  BY Geometry DEF Members
<1>2. /\ next' = SkipNext(next, prev, i)
      /\ len' = [len EXCEPT ![l] = (len[l] - 1) % (NONE + 1)]
      /\ cursor' = [cursor EXCEPT ![l] = IF @ = i THEN prev[i] ELSE @]
      /\ ret' = Ok((len[l] - 1) % (NONE + 1))
  BY <1>1 DEF Remove
<1>3. LET p == PlaceOf(l, i)
      IN /\ len'[l] = len[l] - 1
         /\ \A k \in 0 .. len[l] - 1 : Chain(l)'[k] = Drop(Chain(l), len[l], p)[k]
         /\ TurnOf(l)' = IF p <= TurnOf(l) THEN TurnOf(l) - 1 ELSE TurnOf(l)
         /\ \A k \in ListSet : k # l => SameList(k)
  BY <1>2, Left
<1>4. len'[l] = (len[l] - 1) % (NONE + 1)
  BY <1>2 DEF ListInv, Typed
<1> QED BY <1>2, <1>3, <1>4

-----------------------------------------------------------------------------
(* Lists as sequences: InsertAt, RemoveAt and Append of ListOrder as tables *)
(* from places to items.                                                   *)

(* Names for what the provers would expand: a part of a sequence, and two  *)
(* sequences joined.                                                       *)
Part(s, i, j) == Q!SubSeq(s, i, j)
Joined(s, t) == Q!\o(s, t)

(* Joined has the one and then the other.                                  *)
Joins(T, s, t) ==
  /\ Joined(s, t) \in Q!Seq(T) /\ Q!Len(Joined(s, t)) = Q!Len(s) + Q!Len(t)
  /\ \A j \in 1 .. Q!Len(s) : Joined(s, t)[j] = s[j]
  /\ \A j \in 1 .. Q!Len(t) : Joined(s, t)[Q!Len(s) + j] = t[j]

LEMMA JoinFacts ==
  ASSUME NEW T, NEW s \in Q!Seq(T), NEW t \in Q!Seq(T)
  PROVE  Joins(T, s, t)
BY DEF Joins, Joined

(* A part has the items from place i to place j.                           *)
LEMMA PartFacts ==
  ASSUME NEW T, NEW s \in Q!Seq(T), NEW i \in 1 .. Q!Len(s) + 1, NEW j \in 0 .. Q!Len(s)
  PROVE  /\ Part(s, i, j) \in Q!Seq(T)
         /\ Q!Len(Part(s, i, j)) = IF i <= j THEN j - i + 1 ELSE 0
         /\ \A k \in 1 .. j - i + 1 : Part(s, i, j)[k] = s[i + k - 1]
BY DEF Part
(* The sequence s with x at place i, and without its place i.              *)
With(s, i, x) ==
  [k \in 1 .. Q!Len(s) + 1 |-> IF k < i THEN s[k] ELSE IF k = i THEN x ELSE s[k - 1]]

(* That is what InsertAt, RemoveAt and Append of ListOrder come to.        *)
LEMMA InsertAtIs ==
  ASSUME NEW T, NEW s \in Q!Seq(T), NEW i \in 1 .. Q!Len(s) + 1, NEW x \in T
  PROVE  Order!S!InsertAt(s, i, x) = With(s, i, x)
<1> DEFINE n == Q!Len(s)
           a == Part(s, 1, i - 1)
           b == Part(s, i, n)
           ax == Joined(a, <<x>>)
           all == Joined(ax, b)
           f == [k \in 1 .. n + 1 |-> IF k < i THEN s[k] ELSE IF k = i THEN x ELSE s[k - 1]]
<1>1. Order!S!InsertAt(s, i, x) = all
  BY DEF Order!S!InsertAt, Joined, Part
<1>2. n \in Nat /\ i - 1 \in 0 .. n /\ i \in 1 .. n + 1 /\ 1 \in 1 .. n + 1 /\ n \in 0 .. n
  OBVIOUS
<1>3. /\ a \in Q!Seq(T) /\ Q!Len(a) = i - 1 /\ \A k \in 1 .. i - 1 : a[k] = s[k]
  <2>1. /\ a \in Q!Seq(T) /\ Q!Len(a) = IF 1 <= i - 1 THEN (i - 1) - 1 + 1 ELSE 0
        /\ \A k \in 1 .. (i - 1) - 1 + 1 : a[k] = s[1 + k - 1]
    BY <1>2, PartFacts
  <2> HIDE DEF a
  <2> QED BY <1>2, <2>1
<1>4. /\ b \in Q!Seq(T) /\ Q!Len(b) = n - i + 1 /\ \A k \in 1 .. n - i + 1 : b[k] = s[i + k - 1]
  <2>1. /\ b \in Q!Seq(T) /\ Q!Len(b) = IF i <= n THEN n - i + 1 ELSE 0
        /\ \A k \in 1 .. n - i + 1 : b[k] = s[i + k - 1]
    BY <1>2, PartFacts
  <2> HIDE DEF b
  <2> QED BY <1>2, <2>1
<1>5. <<x>> \in Q!Seq(T) /\ Q!Len(<<x>>) = 1 /\ <<x>>[1] = x
  OBVIOUS
<1> HIDE DEF a, b, n
<1>6. /\ ax \in Q!Seq(T) /\ Q!Len(ax) = i
      /\ \A k \in 1 .. i - 1 : ax[k] = s[k]
      /\ ax[i] = x
  <2>1. /\ ax \in Q!Seq(T) /\ Q!Len(ax) = Q!Len(a) + Q!Len(<<x>>)
        /\ \A k \in 1 .. Q!Len(a) : ax[k] = a[k]
        /\ \A k \in 1 .. Q!Len(<<x>>) : ax[Q!Len(a) + k] = <<x>>[k]
    <3>1. Joins(T, a, <<x>>) BY <1>3, <1>5, JoinFacts, Zenon
    <3> QED BY <3>1, Zenon DEF Joins
  <2> HIDE DEF ax
  <2> QED BY <1>2, <1>3, <1>5, <2>1
<1> HIDE DEF ax
<1>7. /\ all \in Q!Seq(T) /\ Q!Len(all) = n + 1
      /\ \A k \in 1 .. i : all[k] = ax[k]
      /\ \A k \in 1 .. n - i + 1 : all[i + k] = b[k]
  <2>1. /\ all \in Q!Seq(T) /\ Q!Len(all) = Q!Len(ax) + Q!Len(b)
        /\ \A k \in 1 .. Q!Len(ax) : all[k] = ax[k]
        /\ \A k \in 1 .. Q!Len(b) : all[Q!Len(ax) + k] = b[k]
    <3>1. Joins(T, ax, b) BY <1>4, <1>6, JoinFacts, Zenon
    <3> QED BY <3>1, Zenon DEF Joins
  <2> HIDE DEF all
  <2> QED BY <1>2, <1>4, <1>6, <2>1
<1> HIDE DEF all
<1>8. ASSUME NEW k \in 1 .. n + 1 PROVE all[k] = f[k]
  <2>1. CASE k < i
    BY <1>2, <1>6, <1>7, <2>1
  <2>2. CASE k = i
    BY <1>2, <1>6, <1>7, <2>2
  <2>3. CASE k > i
    <3> DEFINE j == k - i
    <3>1. j \in 1 .. n - i + 1 /\ i + j = k /\ i + j - 1 = k - 1 /\ ~(k < i) /\ k # i
      BY <1>2, <2>3
    <3> HIDE DEF j
    <3>2. all[k] = s[k - 1]
      BY <1>4, <1>7, <3>1
    <3> QED BY <3>1, <3>2
  <2> QED BY <1>2, <2>1, <2>2, <2>3
<1>9. all = [k \in 1 .. n + 1 |-> all[k]]
  BY <1>2, <1>7
<1>10. all = f
  <2> f = [k \in 1 .. n + 1 |-> f[k]]
    OBVIOUS
  <2> HIDE DEF f
  <2> QED BY <1>8, <1>9
<1> QED BY <1>1, <1>10 DEF n, With
Without(s, i) == [k \in 1 .. Q!Len(s) - 1 |-> IF k < i THEN s[k] ELSE s[k + 1]]

LEMMA RemoveAtIs ==
  ASSUME NEW T, NEW s \in Q!Seq(T), NEW i \in 1 .. Q!Len(s)
  PROVE  Order!S!RemoveAt(s, i) = Without(s, i)
<1> DEFINE n == Q!Len(s)
           a == Part(s, 1, i - 1)
           b == Part(s, i + 1, n)
           all == Joined(a, b)
           f == [k \in 1 .. n - 1 |-> IF k < i THEN s[k] ELSE s[k + 1]]
<1>1. Order!S!RemoveAt(s, i) = all
  BY DEF Order!S!RemoveAt, Joined, Part
<1>2. n \in Nat /\ i - 1 \in 0 .. n /\ i \in 1 .. n /\ 1 \in 1 .. n + 1 /\ n \in 0 .. n /\ i + 1 \in 1 .. n + 1
  OBVIOUS
<1>3. /\ a \in Q!Seq(T) /\ Q!Len(a) = i - 1 /\ \A k \in 1 .. i - 1 : a[k] = s[k]
  <2>1. /\ a \in Q!Seq(T) /\ Q!Len(a) = IF 1 <= i - 1 THEN (i - 1) - 1 + 1 ELSE 0
        /\ \A k \in 1 .. (i - 1) - 1 + 1 : a[k] = s[1 + k - 1]
    BY <1>2, PartFacts
  <2> HIDE DEF a
  <2> QED BY <1>2, <2>1
<1>4. /\ b \in Q!Seq(T) /\ Q!Len(b) = n - i /\ \A k \in 1 .. n - i : b[k] = s[i + k]
  <2>1. /\ b \in Q!Seq(T) /\ Q!Len(b) = IF i + 1 <= n THEN n - (i + 1) + 1 ELSE 0
        /\ \A k \in 1 .. n - (i + 1) + 1 : b[k] = s[(i + 1) + k - 1]
    BY <1>2, PartFacts
  <2> HIDE DEF b
  <2> QED BY <1>2, <2>1
<1> HIDE DEF a, b, n
<1>7. /\ all \in Q!Seq(T) /\ Q!Len(all) = n - 1
      /\ \A k \in 1 .. i - 1 : all[k] = a[k]
      /\ \A k \in 1 .. n - i : all[(i - 1) + k] = b[k]
  <2>1. /\ all \in Q!Seq(T) /\ Q!Len(all) = Q!Len(a) + Q!Len(b)
        /\ \A k \in 1 .. Q!Len(a) : all[k] = a[k]
        /\ \A k \in 1 .. Q!Len(b) : all[Q!Len(a) + k] = b[k]
    <3>1. Joins(T, a, b) BY <1>3, <1>4, JoinFacts, Zenon
    <3> QED BY <3>1, Zenon DEF Joins
  <2> DEFINE h == i - 1
             m == n - i
  <2>2. h \in Nat /\ m \in Nat /\ h + m = n - 1 /\ Q!Len(a) = h /\ Q!Len(b) = m
    BY <1>2, <1>3, <1>4
  <2> HIDE DEF all, h, m
  <2>3. /\ Q!Len(all) = n - 1
        /\ \A k \in 1 .. h : all[k] = a[k]
        /\ \A k \in 1 .. m : all[h + k] = b[k]
    BY <2>1, <2>2
  <2> QED BY <2>1, <2>3 DEF h, m
<1> HIDE DEF all
<1>8. ASSUME NEW k \in 1 .. n - 1 PROVE all[k] = f[k]
  <2>1. CASE k < i
    BY <1>2, <1>3, <1>7, <2>1
  <2>3. CASE ~(k < i)
    <3> DEFINE j == k - i + 1
    <3>1. j \in 1 .. n - i /\ (i - 1) + j = k /\ i + j = k + 1
      BY <1>2, <2>3
    <3> HIDE DEF j
    <3>2. all[k] = s[k + 1]
      BY <1>4, <1>7, <3>1
    <3> QED BY <2>3, <3>2
  <2> QED BY <2>1, <2>3
<1>9. all = [k \in 1 .. n - 1 |-> all[k]]
  BY <1>2, <1>7
<1>10. all = f
  <2> f = [k \in 1 .. n - 1 |-> f[k]]
    OBVIOUS
  <2> HIDE DEF f
  <2> QED BY <1>8, <1>9
<1> QED BY <1>1, <1>10 DEF n, Without

-----------------------------------------------------------------------------
(* The rings do what the sequences of ListOrder do.                        *)

(* What the mapping makes of the lists.                                    *)
Orders == [k \in ListSet |-> OrderOf(k)]
Turns == [k \in ListSet |-> TurnOf(k)]
Worths == [i \in Items |-> value[i]]

(* The sequence of a list is its walk, and holds its members.              *)
LEMMA OrderRead ==
  ASSUME ListInv, NEW l \in ListSet
  PROVE  /\ OrderOf(l) \in Q!Seq(Items) /\ Q!Len(OrderOf(l)) = len[l] /\ len[l] \in Nat
         /\ \A k \in 1 .. len[l] : OrderOf(l)[k] = Chain(l)[k]
         /\ DOMAIN OrderOf(l) = 1 .. len[l]
         /\ Order!S!ToSet(OrderOf(l)) = Members(l)
<1> DEFINE at == Chain(l)
           n == len[l]
           s == OrderOf(l)
<1>1. /\ n \in 0 .. CAPACITY
      /\ \A k \in 1 .. n : at[k] \in Members(l)
      /\ \A i \in Members(l) : \E k \in 1 .. n : at[k] = i
  BY ListsSpelled DEF Spelled
<1>2. n \in Nat /\ Members(l) \subseteq Items
  BY <1>1, Geometry DEF Members
<1>3. s = [k \in 1 .. n |-> at[k]]
  BY DEF OrderOf
<1> HIDE DEF at, n, s
<1>4. s \in Q!Seq(Items) /\ Q!Len(s) = n /\ DOMAIN s = 1 .. n
  BY <1>1, <1>2, <1>3
<1>5. \A k \in 1 .. n : s[k] = at[k]
  BY <1>3
<1>6. Order!S!ToSet(s) = Members(l)
  BY <1>1, <1>4, <1>5 DEF Order!S!ToSet
<1> QED BY <1>2, <1>4, <1>5, <1>6 DEF at, n, s

(* The one list that holds an item is its container.                       *)
LEMMA HeldIs ==
  ASSUME ListInv, NEW i \in Items
  PROVE  Order!Held(i) = {l \in ListSet : container[i] = l}
<1>1. \A l \in ListSet : i \in Order!S!ToSet(OrderOf(l)) <=> container[i] = l
  BY OrderRead DEF Members
<1>2. Order!Held(i) = {l \in ListSet : i \in Order!S!ToSet(Orders[l])}
  BY DEF Order!Held, Orders
<1> QED BY <1>1, <1>2 DEF Orders

(* The sequence after an item has entered behind place b.                  *)
LEMMA OrderEntered ==
  ASSUME ListInv, NEW l \in ListSet, NEW b \in 0 .. len[l], NEW i \in Items,
         len'[l] = len[l] + 1,
         \A k \in 0 .. len[l] + 1 : Chain(l)'[k] = Put(Chain(l), len[l], b, i)[k]
  PROVE  OrderOf(l)' = Order!S!InsertAt(OrderOf(l), b + 1, i)
<1> DEFINE at == Chain(l)
           at1 == Chain(l)'
           n == len[l]
           s == OrderOf(l)
           f == [k \in 1 .. n + 1 |-> IF k < b + 1 THEN s[k] ELSE IF k = b + 1 THEN i ELSE s[k - 1]]
<1>1. n \in Nat /\ s \in Q!Seq(Items) /\ Q!Len(s) = n /\ \A k \in 1 .. n : s[k] = at[k]
  BY OrderRead
<1>2. len'[l] = n + 1 /\ OrderOf(l)' = [k \in 1 .. n + 1 |-> at1[k]]
  BY DEF OrderOf
<1>3. Order!S!InsertAt(s, b + 1, i) = f
  <2>1. b + 1 \in 1 .. Q!Len(s) + 1
    BY <1>1
  <2>2. Order!S!InsertAt(s, b + 1, i) = With(s, b + 1, i)
    BY <1>1, <2>1, InsertAtIs
  <2> QED BY <1>1, <2>2 DEF With
<1>4. \A k \in 0 .. n + 1 : at1[k] = IF k <= b THEN at[k] ELSE IF k = b + 1 THEN i ELSE at[k - 1]
  BY DEF Put
<1>5. b \in 0 .. n
  OBVIOUS
<1> HIDE DEF at, at1, n, s
<1>6. \A k \in 1 .. n + 1 : at1[k] = IF k < b + 1 THEN s[k] ELSE IF k = b + 1 THEN i ELSE s[k - 1]
  BY <1>1, <1>4, <1>5
<1>7. [k \in 1 .. n + 1 |-> at1[k]] = f
  BY <1>6
<1> QED BY <1>2, <1>3, <1>7 DEF s

(* The sequence after the item at place p has left.                        *)
LEMMA OrderLeft ==
  ASSUME ListInv, NEW l \in ListSet, NEW p \in 1 .. len[l],
         len'[l] = len[l] - 1,
         \A k \in 0 .. len[l] - 1 : Chain(l)'[k] = Drop(Chain(l), len[l], p)[k]
  PROVE  OrderOf(l)' = Order!S!RemoveAt(OrderOf(l), p)
<1> DEFINE at == Chain(l)
           at1 == Chain(l)'
           n == len[l]
           s == OrderOf(l)
           f == [k \in 1 .. n - 1 |-> IF k < p THEN s[k] ELSE s[k + 1]]
<1>1. n \in Nat /\ s \in Q!Seq(Items) /\ Q!Len(s) = n /\ \A k \in 1 .. n : s[k] = at[k]
  BY OrderRead
<1>2. len'[l] = n - 1 /\ OrderOf(l)' = [k \in 1 .. n - 1 |-> at1[k]]
  BY DEF OrderOf
<1>3. Order!S!RemoveAt(s, p) = f
  <2>1. p \in 1 .. Q!Len(s)
    BY <1>1
  <2>2. Order!S!RemoveAt(s, p) = Without(s, p)
    BY <1>1, <2>1, RemoveAtIs
  <2> QED BY <1>1, <2>2 DEF Without
<1>4. \A k \in 0 .. n - 1 : at1[k] = IF k < p THEN at[k] ELSE at[k + 1]
  BY DEF Drop
<1>5. p \in 1 .. n
  OBVIOUS
<1> HIDE DEF at, at1, n, s
<1>6. \A k \in 1 .. n - 1 : at1[k] = IF k < p THEN s[k] ELSE s[k + 1]
  BY <1>1, <1>4, <1>5
<1>7. [k \in 1 .. n - 1 |-> at1[k]] = f
  BY <1>6
<1> QED BY <1>2, <1>3, <1>7 DEF s

(* A step on one list leaves the sequences and turns of the others.        *)
LEMMA MapsKept ==
  ASSUME NEW l \in ListSet, \A k \in ListSet : k # l => SameList(k)
  PROVE  /\ Orders' = [Orders EXCEPT ![l] = OrderOf(l)']
         /\ Turns' = [Turns EXCEPT ![l] = TurnOf(l)']
<1>1. ASSUME NEW k \in ListSet, k # l
      PROVE  OrderOf(k)' = OrderOf(k) /\ TurnOf(k)' = TurnOf(k)
  <2>1. SameList(k)
    BY <1>1
  <2> QED BY <2>1 DEF SameList, OrderOf
<1>2. Orders' = [k \in ListSet |-> OrderOf(k)']
  BY DEF Orders, ListSet
<1>3. Turns' = [k \in ListSet |-> TurnOf(k)']
  BY DEF Turns, ListSet
<1> QED BY <1>1, <1>2, <1>3 DEF Orders, Turns

(* A step that writes no list is a stutter of the sequences; a refusal is a *)
(* refusal.                                                                *)
LEMMA Untouched ==
  ASSUME UNCHANGED <<nodes, meta>>
  PROVE  Orders' = Orders /\ Turns' = Turns /\ Worths' = Worths
BY DEF nodes, meta, Orders, Turns, Worths, OrderOf, TurnOf, Chain, EndOf

LEMMA RefusesToo ==
  ASSUME NEW e, Refuse(e) PROVE Order!Refuse(e)
<1>1. Orders' = Orders /\ Turns' = Turns /\ Worths' = Worths /\ ret' = Err(e)
  BY Untouched DEF Refuse
<1> QED BY <1>1 DEF Order!Refuse, Err, Order!Err, Orders, Turns, Worths

(* The value w that an item sorts by once it is linked.                    *)
Takes(i, write, v, w) == i \in Items => w = (IF write THEN v ELSE value[i])

(* Linking behind the slot at place b is entering at place b + 1, refused  *)
(* for the same reasons.                                                   *)
LEMMA LinkMaps ==
  ASSUME ListInv, ListInv', NEW l \in ListSet, NEW b \in 0 .. len[l], NEW i,
         NEW write, NEW v, NEW w, Takes(i, write, v, w),
         LinkBetween(l, i, Chain(l)[b], next[Chain(l)[b]], write, v)
  PROVE  Order!Enter(l, i, b + 1, w)
<1>1. CASE i \notin Items
  <2>1. Refuse("InvalidArgument")
    BY <1>1 DEF LinkBetween
  <2>2. Order!Refuse("InvalidArgument")
    BY <2>1, RefusesToo
  <2> QED BY <1>1, <2>2 DEF Order!Enter
<1>2. CASE i \in Items /\ container[i] # NO_LIST
  <2>1. Refuse("Busy")
    BY <1>2 DEF LinkBetween
  <2>2. Order!Refuse("Busy")
    BY <2>1, RefusesToo
  <2>3. Order!Held(i) # {}
    <3>1. container[i] \in ListSet
      BY <1>2, Geometry DEF ListInv, Typed
    <3> QED BY <1>2, <3>1, HeldIs
  <2> QED BY <1>2, <2>2, <2>3 DEF Order!Enter
<1>3. CASE i \in Items /\ container[i] = NO_LIST
  <2>1. /\ next' = LinkNext(next, i, Chain(l)[b], next[Chain(l)[b]])
        /\ len' = [len EXCEPT ![l] = (@ + 1) % (NONE + 1)] /\ UNCHANGED cursor
        /\ value' = IF write THEN [value EXCEPT ![i] = v] ELSE value
        /\ ret' = Ok(0)
    BY <1>3 DEF LinkBetween
  <2>2. /\ len'[l] = len[l] + 1
        /\ \A k \in 0 .. len[l] + 1 : Chain(l)'[k] = Put(Chain(l), len[l], b, i)[k]
        /\ TurnOf(l)' = IF b + 1 <= TurnOf(l) THEN TurnOf(l) + 1 ELSE TurnOf(l)
        /\ \A k \in ListSet : k # l => SameList(k)
    BY <1>3, <2>1, Entered
  <2>3. OrderOf(l)' = Order!S!InsertAt(OrderOf(l), b + 1, i)
    BY <1>3, <2>2, OrderEntered
  <2>4. /\ Orders' = [Orders EXCEPT ![l] = OrderOf(l)']
        /\ Turns' = [Turns EXCEPT ![l] = TurnOf(l)']
    BY <2>2, MapsKept
  <2>5. Worths' = [Worths EXCEPT ![i] = w]
    <3>1. value \in [Slots -> 0 .. MaxValue] /\ Items \subseteq Slots
      BY Geometry DEF ListInv, Typed
    <3>2. \A j \in Items : value'[j] = IF j = i THEN w ELSE value[j]
      BY <1>3, <2>1, <3>1 DEF Takes
    <3>3. Worths' = [j \in Items |-> value'[j]]
      BY DEF Worths, Items, CAPACITY
    <3> QED BY <3>2, <3>3 DEF Worths
  <2>6. Order!Held(i) = {}
    <3>1. NO_LIST \notin ListSet
      BY Geometry
    <3> QED BY <1>3, <3>1, HeldIs
  <2>7. /\ Orders' = [Orders EXCEPT ![l] = Order!S!InsertAt(@, b + 1, i)]
        /\ Turns' = [Turns EXCEPT ![l] = IF b + 1 <= @ THEN @ + 1 ELSE @]
    BY <2>2, <2>3, <2>4 DEF Orders, Turns
  <2> QED BY <1>3, <2>1, <2>5, <2>6, <2>7 DEF Order!Enter, Orders, Turns, Worths, Ok, Order!Ok
<1> QED BY <1>1, <1>2, <1>3

(* Before the slot at place k is the slot at place k - 1, before the marker *)
(* the last one.                                                           *)
LEMMA Neighbours ==
  ASSUME ListInv, NEW l \in ListSet, NEW k \in 0 .. len[l]
  PROVE  LET b == IF k = 0 THEN len[l] ELSE k - 1
         IN /\ b \in 0 .. len[l]
            /\ At(Chain(l)[k]) = Chain(l)[k]
            /\ prev[Chain(l)[k]] = Chain(l)[b] /\ next[Chain(l)[b]] = Chain(l)[k]
<1> DEFINE at == Chain(l)
           n == len[l]
           b == IF k = 0 THEN n ELSE k - 1
<1>1. /\ n \in 0 .. CAPACITY /\ at[0] = EndOf(l) /\ at[n + 1] = EndOf(l)
      /\ \A j \in 0 .. N - 1 : at[j + 1] = next[at[j]]
      /\ \A j \in 0 .. N : at[j] \in Ring(l)
  BY ListsSpelled DEF Spelled
<1>2. /\ Doubly(next, prev, Ring(l)) /\ \A s \in Ring(l) : At(s) = s
  BY RingShape
<1>3. k \in 0 .. n
  OBVIOUS
<1> HIDE DEF at, n
<1>4. n \in Nat /\ n < N /\ N \in Nat
  BY <1>1, Geometry
<1>5. b \in 0 .. n /\ b \in 0 .. N - 1 /\ k \in 0 .. N /\ b \in 0 .. N
  BY <1>3, <1>4
<1>6. at[k] = at[b + 1]
  BY <1>1, <1>3, <1>4
<1> HIDE DEF b
<1>7. next[at[b]] = at[k] /\ at[b] \in Ring(l) /\ at[k] \in Ring(l)
  BY <1>1, <1>5, <1>6
<1>8. prev[at[k]] = at[b]
  BY <1>2, <1>7 DEF Doubly
<1> QED BY <1>2, <1>5, <1>7, <1>8 DEF at, b, n

(* If nothing up to place b is above v and what comes next is, v belongs at *)
(* place b + 1.                                                            *)
LEMMA AfterIs ==
  ASSUME ListInv, NEW l \in ListSet, NEW v \in 0 .. MaxValue, NEW b \in 0 .. len[l],
         \A k \in 1 .. b : value[Chain(l)[k]] <= v,
         b = len[l] \/ value[Chain(l)[b + 1]] > v
  PROVE  Order!AfterNotAbove(l, v) = b + 1
<1> DEFINE n == len[l]
           s == OrderOf(l)
           I == {k \in 1 .. Q!Len(s) : Worths[s[k]] > v}
           first == IF I # {} THEN Order!S!Min(I) ELSE 0
<1>1. /\ Q!Len(s) = n /\ n \in Nat
      /\ \A k \in 1 .. n : s[k] = Chain(l)[k] /\ Chain(l)[k] \in Items
  <2>1. /\ Q!Len(s) = n /\ n \in Nat /\ \A k \in 1 .. n : s[k] = Chain(l)[k]
    BY OrderRead
  <2>2. \A k \in 1 .. n : Chain(l)[k] \in Members(l)
    BY ListsSpelled DEF Spelled
  <2> QED BY <2>1, <2>2 DEF Members
<1>2. Order!AfterNotAbove(l, v) = IF first = 0 THEN Q!Len(s) + 1 ELSE first
  BY DEF Order!AfterNotAbove, Order!S!SelectInSeq, Worths
<1>3. \A k \in 1 .. n : Worths[s[k]] = value[Chain(l)[k]] /\ value[Chain(l)[k]] \in Int
  <2>1. \A i \in Items : Worths[i] = value[i] /\ value[i] \in Int
    <3>1. value \in [Slots -> 0 .. MaxValue] /\ Items \subseteq Slots /\ 0 .. MaxValue \subseteq Int
      BY Geometry DEF ListInv, Typed
    <3> QED BY <3>1 DEF Worths
  <2> QED BY <1>1, <2>1
<1>4. I = {k \in 1 .. n : value[Chain(l)[k]] > v}
  BY <1>1, <1>3
<1>5. v \in Int
  BY Geometry
<1>6. b \in 0 .. n
  OBVIOUS
<1> HIDE DEF I, n, s
<1>7. CASE b = n
  <2>1. I = {}
    BY <1>1, <1>3, <1>4, <1>5, <1>7
  <2> QED BY <1>1, <1>2, <1>7, <2>1
<1>8. CASE b # n
  <2>1. b + 1 \in I /\ \A k \in I : b + 1 <= k
    <3>1. b + 1 \in 1 .. n /\ \A k \in 1 .. n : ~(b + 1 <= k) => k \in 1 .. b
      BY <1>1, <1>6, <1>8
    <3>2. value[Chain(l)[b + 1]] > v
      BY <1>8 DEF n
    <3> QED BY <1>3, <1>4, <1>5, <3>1, <3>2
  <2>2. \A x \in I : (\A y \in I : x <= y) => x = b + 1
    BY <1>1, <1>4, <1>6, <2>1
  <2>3. Order!S!Min(I) = b + 1
    BY <2>1, <2>2 DEF Order!S!Min
  <2> QED BY <1>2, <1>6, <2>1, <2>3
<1> QED BY <1>7, <1>8

(* The tail is at the last place, which is 0 when the list is empty.       *)
LEMMA TailPlace ==
  ASSUME ListInv, NEW l \in ListSet
  PROVE  LET tail == prev[At(EndOf(l))]
         IN /\ len[l] \in 0 .. len[l] /\ len[l] \in Nat
            /\ tail = Chain(l)[len[l]] /\ next[tail] = EndOf(l)
            /\ tail = EndOf(l) <=> len[l] = 0
<1>1. /\ len[l] \in 0 .. CAPACITY /\ Chain(l)[0] = EndOf(l)
      /\ \A j, k \in 0 .. len[l] : Chain(l)[j] = Chain(l)[k] => j = k
  BY ListsSpelled DEF Spelled
<1>2. len[l] \in Nat /\ 0 \in 0 .. len[l] /\ len[l] \in 0 .. len[l]
  BY <1>1, Geometry
<1>3. /\ At(Chain(l)[0]) = Chain(l)[0]
      /\ prev[Chain(l)[0]] = Chain(l)[len[l]] /\ next[Chain(l)[len[l]]] = Chain(l)[0]
  BY <1>2, Neighbours
<1> QED BY <1>1, <1>2, <1>3

(* In front of the marker is behind the last place.                        *)
LEMMA AtTailMaps ==
  ASSUME ListInv, ListInv', NEW l \in ListSet, NEW i,
         NEW write, NEW v \in 0 .. MaxValue, NEW w, Takes(i, write, v, w),
         LinkBetween(l, i, prev[At(EndOf(l))], EndOf(l), write, v)
  PROVE  Order!Enter(l, i, len[l] + 1, w)
<1>1. /\ len[l] \in 0 .. len[l] 
      /\ prev[At(EndOf(l))] = Chain(l)[len[l]] /\ next[Chain(l)[len[l]]] = EndOf(l)
  BY TailPlace
<1>2. LinkBetween(l, i, Chain(l)[len[l]], next[Chain(l)[len[l]]], write, v)
  BY <1>1
<1> QED BY <1>1, <1>2, LinkMaps

(* Nothing is above the greatest value.                                    *)
LEMMA NotAboveGreatest ==
  ASSUME ListInv, NEW l \in ListSet
  PROVE  Order!AfterNotAbove(l, MaxValue) = len[l] + 1
<1>1. /\ len[l] \in 0 .. len[l] /\ len[l] \in Nat
  BY TailPlace
<1>2. \A k \in 1 .. len[l] : value[Chain(l)[k]] <= MaxValue
  <2>1. \A k \in 1 .. len[l] : Chain(l)[k] \in Members(l)
    BY ListsSpelled DEF Spelled
  <2>2. \A s \in Members(l) : value[s] <= MaxValue
    <3>1. /\ value \in [Slots -> 0 .. MaxValue] /\ Items \subseteq Slots
          /\ \A x \in 0 .. MaxValue : x <= MaxValue
      BY Geometry DEF ListInv, Typed
    <3> QED BY <3>1 DEF Members
  <2> QED BY <2>1, <2>2
<1>3. MaxValue \in 0 .. MaxValue
  BY Geometry
<1> QED BY <1>1, <1>2, <1>3, AfterIs

(* insert_inner enters in front of the marker or begins a search, which the *)
(* sequences do not show.                                                  *)
LEMMA InnerMaps ==
  ASSUME ListInv, ListInv', NEW l \in ListSet, NEW i, NEW write, NEW v \in 0 .. MaxValue,
         NEW w, Takes(i, write, v, w), InsertInner(l, i, v, write)
  PROVE  Order!Enter(l, i, Order!AfterNotAbove(l, v), w) \/ UNCHANGED Order!vars
<1>1. CASE v = MaxValue
  <2>1. LinkBetween(l, i, prev[At(EndOf(l))], EndOf(l), write, v)
    BY <1>1 DEF InsertInner
  <2>2. Order!Enter(l, i, len[l] + 1, w)
    BY <2>1, AtTailMaps
  <2>3. Order!AfterNotAbove(l, v) = len[l] + 1
    BY <1>1, NotAboveGreatest
  <2> QED BY <2>2, <2>3
<1>2. CASE v # MaxValue
  <2>1. UNCHANGED <<nodes, meta, ret>>
    BY <1>2 DEF InsertInner
  <2>2. Orders' = Orders /\ Turns' = Turns /\ Worths' = Worths /\ ret' = ret
    BY <2>1, Untouched
  <2> QED BY <2>2 DEF Order!vars, Orders, Turns, Worths
<1> QED BY <1>1, <1>2

(* A bad list is refused by every call.                                    *)
LEMMA BadList ==
  ASSUME NEW l, l \notin ListSet, Refuse("InvalidArgument")
  PROVE  /\ \A i, v : Order!Insert(l, i, v) /\ Order!InsertSorted(l, i, v)
         /\ \A i : Order!InsertKeepingValue(l, i) /\ Order!InsertEnd(l, i) /\ Order!MoveToEnd(l, i)
         /\ Order!NextRoundRobin(l)
<1>1. Order!Refuse("InvalidArgument")
  BY RefusesToo
<1> QED BY <1>1 DEF Order!Insert, Order!InsertSorted, Order!InsertKeepingValue, Order!InsertEnd,
                    Order!MoveToEnd, Order!NextRoundRobin

(* insert.                                                                 *)
LEMMA InsertMaps ==
  ASSUME ListInv, ListInv', NEW l, NEW i, NEW v \in 0 .. MaxValue, Insert(l, i, v)
  PROVE  Order!Insert(l, i, v) \/ UNCHANGED Order!vars
<1>1. CASE l \notin ListSet
  BY <1>1, BadList DEF Insert
<1>2. CASE l \in ListSet
  <2>1. InsertInner(l, i, v, TRUE) /\ Takes(i, TRUE, v, v)
    BY <1>2 DEF Insert, Takes
  <2>2. Order!Enter(l, i, Order!AfterNotAbove(l, v), v) \/ UNCHANGED Order!vars
    BY <1>2, <2>1, InnerMaps
  <2> QED BY <1>2, <2>2 DEF Order!Insert
<1> QED BY <1>1, <1>2

(* An item that keeps its value enters with it.                            *)
LEMMA KeepsItsValue ==
  ASSUME ListInv, NEW i, NEW v
  PROVE  Takes(i, FALSE, v, Order!ValueOf(i)) /\ (i \in Items => Order!ValueOf(i) = value[i])
BY DEF Takes, Order!ValueOf

(* insert_keeping_value.                                                   *)
LEMMA KeepingMaps ==
  ASSUME ListInv, ListInv', NEW l, NEW i, InsertKeepingValue(l, i)
  PROVE  Order!InsertKeepingValue(l, i) \/ UNCHANGED Order!vars
<1>1. CASE l \notin ListSet
  BY <1>1, BadList DEF InsertKeepingValue
<1>2. CASE l \in ListSet /\ i \notin Items
  <2>1. Refuse("InvalidArgument")
    BY <1>2 DEF InsertKeepingValue
  <2>2. Order!Refuse("InvalidArgument")
    BY <2>1, RefusesToo
  <2> QED BY <1>2, <2>2 DEF Order!InsertKeepingValue, Order!Insert, Order!Enter
<1>3. CASE l \in ListSet /\ i \in Items
  <2>0. PICK v : v = value[i]
    OBVIOUS
  <2>1. v \in 0 .. MaxValue
    BY <1>3, <2>0, Geometry DEF ListInv, Typed
  <2>2. InsertInner(l, i, v, FALSE)
    BY <1>3, <2>0, Zenon DEF InsertKeepingValue
  <2>3. Takes(i, FALSE, v, v) /\ Order!ValueOf(i) = v
    BY <1>3, <2>0, KeepsItsValue DEF Takes
  <2>4. Order!Enter(l, i, Order!AfterNotAbove(l, v), v) \/ UNCHANGED Order!vars
    BY <1>3, <2>1, <2>2, <2>3, InnerMaps
  <2>5. Order!Insert(l, i, v) \/ UNCHANGED Order!vars
    BY <1>3, <2>4 DEF Order!Insert
  <2>6. Order!Insert(l, i, v) => Order!InsertKeepingValue(l, i)
    BY <2>3 DEF Order!InsertKeepingValue, Order!Insert, Order!Enter, Order!AfterNotAbove, Order!S!SelectInSeq
  <2> QED BY <2>5, <2>6
<1> QED BY <1>1, <1>2, <1>3

(* insert_sorted: the append that looks at the tail goes where the search  *)
(* would have ended or, at the tail, behind its equals.                    *)
LEMMA SortedMaps ==
  ASSUME ListInv, ListInv', NEW l, NEW i, NEW v \in 0 .. MaxValue, InsertSorted(l, i, v)
  PROVE  Order!InsertSorted(l, i, v) \/ Order!Insert(l, i, v) \/ UNCHANGED Order!vars
<1>1. CASE l \notin ListSet
  BY <1>1, BadList DEF InsertSorted
<1>2. CASE l \in ListSet
  <2> DEFINE tail == prev[At(EndOf(l))]
  <2>1. /\ len[l] \in Nat /\ tail = Chain(l)[len[l]]
        /\ tail = EndOf(l) <=> len[l] = 0
    BY <1>2, TailPlace
  <2>2. value[EndOf(l)] = MaxValue /\ Takes(i, TRUE, v, v)
    BY <1>2, RingShape DEF Takes
  <2>3. CASE v >= value[At(tail)]
    <3>1. LinkBetween(l, i, tail, EndOf(l), TRUE, v)
      <4>1. value[At(tail)] \in Int /\ v \in Int
        <5>1. tail \in Slots /\ At(tail) = tail
          <6>1. tail \in Ring(l)
            BY <1>2, RingFacts, BeforeInRing
          <6> HIDE DEF tail
          <6> QED BY <1>2, <6>1, RingShape
        <5>2. value \in [Slots -> 0 .. MaxValue] /\ 0 .. MaxValue \subseteq Int
          BY Geometry DEF ListInv, Typed
        <5> HIDE DEF tail
        <5> QED BY <5>1, <5>2
      <4>2. ~(v < value[At(tail)])
        BY <2>3, <4>1
      <4> QED BY <1>2, <4>2, Zenon DEF InsertSorted
    <3>2. Order!Enter(l, i, len[l] + 1, v)
      BY <1>2, <2>2, <3>1, AtTailMaps
    <3>3. CASE len[l] = 0
      <4>1. v = MaxValue
        BY <1>2, <2>1, <2>2, <2>3, <3>3, RingShape, Geometry
      <4>2. Order!AfterNotAbove(l, v) = len[l] + 1
        BY <1>2, <4>1, NotAboveGreatest
      <4> QED BY <1>2, <3>2, <4>2 DEF Order!Insert
    <3>4. CASE len[l] # 0
      <4>1. /\ OrderOf(l) \in Q!Seq(Items) /\ Q!Len(OrderOf(l)) = len[l]
            /\ OrderOf(l)[len[l]] = Chain(l)[len[l]]
        <5>1. len[l] \in 1 .. len[l]
          BY <2>1, <3>4
        <5> QED BY <1>2, <5>1, OrderRead
      <4>2. OrderOf(l) # <<>> /\ Order!S!Last(OrderOf(l)) = tail
        BY <2>1, <3>4, <4>1 DEF Order!S!Last
      <4>3. tail \in Items /\ At(tail) = tail
        <5>1. tail \in Items
          BY <1>2, <2>1, <3>4, ListsSpelled DEF Spelled, Members
        <5> QED BY <5>1, Geometry, AtSlot
      <4>4. v >= Worths[Order!S!Last(OrderOf(l))]
        BY <2>3, <4>2, <4>3 DEF Worths
      <4>5. /\ Orders[l] # <<>> /\ v >= Worths[Order!S!Last(Orders[l])]
            /\ Q!Len(Orders[l]) = len[l]
        BY <1>2, <4>1, <4>2, <4>4 DEF Orders
      <4> QED BY <1>2, <3>2, <4>5 DEF Order!InsertSorted, Orders, Worths
    <3> QED BY <3>3, <3>4
  <2>4. CASE ~(v >= value[At(tail)])
    <3>1. InsertInner(l, i, v, TRUE)
      BY <1>2, <2>4 DEF InsertSorted
    <3>2. Order!Enter(l, i, Order!AfterNotAbove(l, v), v) \/ UNCHANGED Order!vars
      BY <1>2, <2>2, <3>1, InnerMaps
    <3> QED BY <1>2, <3>2 DEF Order!Insert
  <2> QED BY <2>3, <2>4
<1> QED BY <1>1, <1>2

(* insert_end: in front of the cursor is the place of the last turn.       *)
LEMMA InsertEndMaps ==
  ASSUME ListInv, ListInv', NEW l, NEW i, InsertEnd(l, i)
  PROVE  Order!InsertEnd(l, i)
<1>1. CASE l \notin ListSet
  BY <1>1, BadList DEF InsertEnd
<1>2. CASE l \in ListSet
  <2> DEFINE t == TurnOf(l)
             b == IF t = 0 THEN len[l] ELSE t - 1
  <2>1. t \in 0 .. len[l] /\ Chain(l)[t] = cursor[l]
    BY <1>2, Places
  <2> HIDE DEF t
  <2>2. /\ b \in 0 .. len[l] /\ At(Chain(l)[t]) = Chain(l)[t]
        /\ prev[Chain(l)[t]] = Chain(l)[b] /\ next[Chain(l)[b]] = Chain(l)[t]
    BY <1>2, <2>1, Neighbours
  <2>3. LinkBetween(l, i, prev[At(cursor[l])], cursor[l], FALSE, 0)
    BY <1>2 DEF InsertEnd
  <2>4. LinkBetween(l, i, Chain(l)[b], next[Chain(l)[b]], FALSE, 0)
    BY <2>1, <2>2, <2>3
  <2>5. b + 1 = IF t = 0 THEN Q!Len(Orders[l]) + 1 ELSE t
    <3>1. Q!Len(Orders[l]) = len[l] /\ len[l] \in Nat
      BY <1>2, OrderRead DEF Orders
    <3> QED BY <2>1, <3>1
  <2> HIDE DEF b
  <2>6. Order!Enter(l, i, b + 1, Order!ValueOf(i))
    <3>1. PICK w : w = Order!ValueOf(i)
      OBVIOUS
    <3>2. Takes(i, FALSE, 0, w)
      BY <3>1, KeepsItsValue
    <3>3. PICK c : c = b
      OBVIOUS
    <3>4. c \in 0 .. len[l] /\ LinkBetween(l, i, Chain(l)[c], next[Chain(l)[c]], FALSE, 0)
      BY <2>2, <2>4, <3>3
    <3>5. Order!Enter(l, i, c + 1, w)
      BY <1>2, <3>2, <3>4, LinkMaps
    <3> QED BY <3>1, <3>3, <3>5 DEF Order!Enter
  <2>7. Turns[l] = t
    BY <1>2 DEF Turns, t
  <2> QED BY <1>2, <2>5, <2>6, <2>7 DEF Order!InsertEnd, Orders, Turns
<1> QED BY <1>1, <1>2

LEMMA AppendIs ==
  ASSUME NEW T, NEW s \in Q!Seq(T), NEW x \in T
  PROVE  Q!Append(s, x) = With(s, Q!Len(s) + 1, x)
<1> DEFINE n == Q!Len(s)
           a == Q!Append(s, x)
<1>1. n \in Nat /\ a \in Q!Seq(T) /\ Q!Len(a) = n + 1
      /\ \A k \in 1 .. n + 1 : a[k] = IF k = n + 1 THEN x ELSE s[k]
  OBVIOUS
<1>2. a = [k \in 1 .. n + 1 |-> a[k]]
  <2> HIDE DEF a, n
  <2> QED BY <1>1
<1>3. \A k \in 1 .. n + 1 : a[k] = IF k < n + 1 THEN s[k] ELSE IF k = n + 1 THEN x ELSE s[k - 1]
  <2> HIDE DEF a, n
  <2> QED BY <1>1
<1> QED BY <1>2, <1>3 DEF With

LEMMA WithoutIsSeq ==
  ASSUME NEW T, NEW s \in Q!Seq(T), NEW i \in 1 .. Q!Len(s)
  PROVE  Without(s, i) \in Q!Seq(T) /\ Q!Len(Without(s, i)) = Q!Len(s) - 1
<1> DEFINE n == Q!Len(s)
           m == n - 1
           w == Without(s, i)
<1>1. w = [k \in 1 .. m |-> IF k < i THEN s[k] ELSE s[k + 1]]
  BY DEF Without
<1>2. m \in Nat /\ \A k \in 1 .. m : (IF k < i THEN s[k] ELSE s[k + 1]) \in T
  OBVIOUS
<1> HIDE DEF m, w
<1>3. w \in [1 .. m -> T]
  BY <1>1, <1>2
<1>4. w \in Q!Seq(T) /\ Q!Len(w) = m
  BY <1>2, <1>3
<1> QED BY <1>4 DEF m, w, n

(* The place of a member in its sequence is its place in the walk.         *)
LEMMA PlaceIs ==
  ASSUME ListInv, NEW l \in ListSet, NEW i \in Members(l)
  PROVE  /\ Order!Place(l, i) = PlaceOf(l, i)
         /\ PlaceOf(l, i) \in 1 .. len[l] /\ Chain(l)[PlaceOf(l, i)] = i
<1> DEFINE p == PlaceOf(l, i)
           s == OrderOf(l)
<1>1. p \in 1 .. len[l] /\ Chain(l)[p] = i
  BY Unlinked
<1>2. \A j, k \in 0 .. len[l] : Chain(l)[j] = Chain(l)[k] => j = k
  BY ListsSpelled DEF Spelled
<1>3. /\ len[l] \in Nat /\ DOMAIN s = 1 .. len[l]
      /\ \A k \in 1 .. len[l] : s[k] = Chain(l)[k]
  BY OrderRead
<1> HIDE DEF p, s
<1>4. p \in DOMAIN s /\ s[p] = i /\ \A k \in DOMAIN s : s[k] = i => k = p
  BY <1>1, <1>2, <1>3
<1>5. Order!Place(l, i) = CHOOSE k \in DOMAIN s : s[k] = i
  BY DEF Order!Place, s
<1> QED BY <1>1, <1>4, <1>5 DEF p

(* remove.                                                                 *)
LEMMA RemoveMaps ==
  ASSUME ListInv, ListInv', NEW i, Remove(i)
  PROVE  Order!Remove(i)
<1>1. CASE i \notin Items
  <2>1. Refuse("InvalidArgument")
    BY <1>1 DEF Remove
  <2>2. Order!Refuse("InvalidArgument")
    BY <2>1, RefusesToo
  <2> QED BY <1>1, <2>2 DEF Order!Remove
<1>2. CASE i \in Items /\ container[i] = NO_LIST
  <2>1. Refuse("NotActive")
    BY <1>2 DEF Remove
  <2>2. Order!Refuse("NotActive")
    BY <2>1, RefusesToo
  <2>3. Order!Held(i) = {}
    <3>1. NO_LIST \notin ListSet
      BY Geometry
    <3> QED BY <1>2, <3>1, HeldIs
  <2> QED BY <1>2, <2>2, <2>3 DEF Order!Remove
<1>3. CASE i \in Items /\ container[i] # NO_LIST
  <2>1. PICK l : l = container[i]
    OBVIOUS
  <2>2. l \in ListSet /\ i \in Members(l)
    BY <1>3, <2>1, Geometry DEF ListInv, Typed, Members
  <2>3. PICK p : p = PlaceOf(l, i)
    OBVIOUS
  <2>4. /\ p \in 1 .. len[l] /\ len'[l] = len[l] - 1
        /\ \A k \in 0 .. len[l] - 1 : Chain(l)'[k] = Drop(Chain(l), len[l], p)[k]
        /\ TurnOf(l)' = IF p <= TurnOf(l) THEN TurnOf(l) - 1 ELSE TurnOf(l)
        /\ \A k \in ListSet : k # l => SameList(k)
        /\ ret' = Ok(len[l] - 1)
        /\ Order!Place(l, i) = p
    BY <2>2, <2>3, LeftByRemove, PlaceIs
  <2>5. OrderOf(l)' = Order!S!RemoveAt(OrderOf(l), p)
    BY <2>2, <2>4, OrderLeft
  <2>6. /\ Orders' = [Orders EXCEPT ![l] = OrderOf(l)']
        /\ Turns' = [Turns EXCEPT ![l] = TurnOf(l)']
    BY <2>2, <2>4, MapsKept
  <2>7. /\ Orders' = [Orders EXCEPT ![l] = Order!S!RemoveAt(@, Order!Place(l, i))]
        /\ Turns' = [Turns EXCEPT ![l] = IF Order!Place(l, i) <= @ THEN @ - 1 ELSE @]
    BY <2>2, <2>4, <2>5, <2>6 DEF Orders, Turns
  <2>8. Worths' = Worths
    BY <1>3 DEF Remove, Worths, Items, CAPACITY
  <2>9. l \in Order!Held(i) /\ Order!Held(i) # {}
    BY <1>3, <2>1, <2>2, HeldIs
  <2>10. ret' = Ok(Q!Len(Orders[l]) - 1)
    BY <2>2, <2>4, OrderRead DEF Orders
  <2> QED BY <1>3, <2>7, <2>8, <2>9, <2>10 DEF Order!Remove, Orders, Turns, Worths, Ok, Order!Ok
<1> QED BY <1>1, <1>2, <1>3

(* The sequence after a member has moved behind place b of the others.     *)
LEMMA OrderMoved ==
  ASSUME ListInv, NEW l \in ListSet, NEW p \in 1 .. len[l], NEW b \in 0 .. len[l] - 1, NEW i,
         len'[l] = len[l],
         \A k \in 0 .. len[l] :
           Chain(l)'[k] = Put(Drop(Chain(l), len[l], p), len[l] - 1, b, i)[k]
  PROVE  OrderOf(l)' = With(Without(OrderOf(l), p), b + 1, i)
<1> DEFINE at == Chain(l)
           at1 == Chain(l)'
           n == len[l]
           s == OrderOf(l)
           r == Without(s, p)
<1>1. n \in Nat /\ s \in Q!Seq(Items) /\ Q!Len(s) = n /\ \A k \in 1 .. n : s[k] = at[k]
  BY OrderRead
<1>2. OrderOf(l)' = [k \in 1 .. n |-> at1[k]]
  BY DEF OrderOf
<1>3. p \in 1 .. n /\ b \in 0 .. n - 1
  OBVIOUS
<1>4. \A k \in 0 .. n : at1[k] = Put(Drop(at, n, p), n - 1, b, i)[k]
  OBVIOUS
<1> HIDE DEF at, at1, n, s
<1>5. Q!Len(r) = n - 1 /\ \A k \in 1 .. n - 1 : r[k] = IF k < p THEN s[k] ELSE s[k + 1]
  <2>1. Q!Len(r) = Q!Len(s) - 1
    BY <1>1, <1>3, WithoutIsSeq
  <2> QED BY <1>1, <2>1 DEF Without
<1>6. \A k \in 0 .. n - 1 : Drop(at, n, p)[k] = IF k < p THEN at[k] ELSE at[k + 1]
  BY DEF Drop
<1>7. \A k \in 0 .. n : at1[k] = IF k <= b THEN Drop(at, n, p)[k]
                                 ELSE IF k = b + 1 THEN i ELSE Drop(at, n, p)[k - 1]
  BY <1>1, <1>4 DEF Put
<1>8. \A k \in 1 .. n - 1 : r[k] = Drop(at, n, p)[k]
  BY <1>1, <1>3, <1>5, <1>6
<1> HIDE DEF r
<1>9. \A k \in 1 .. n : at1[k] = IF k < b + 1 THEN r[k] ELSE IF k = b + 1 THEN i ELSE r[k - 1]
  BY <1>1, <1>3, <1>7, <1>8
<1>10. With(r, b + 1, i) =
         [k \in 1 .. n |-> IF k < b + 1 THEN r[k] ELSE IF k = b + 1 THEN i ELSE r[k - 1]]
  <2>1. Q!Len(r) + 1 = n
    BY <1>1, <1>5
  <2> QED BY <2>1 DEF With
<1>11. [k \in 1 .. n |-> at1[k]] = With(r, b + 1, i)
  BY <1>9, <1>10
<1> QED BY <1>2, <1>11 DEF r, s

(* move_to_end.                                                            *)
LEMMA MoveMaps ==
  ASSUME ListInv, ListInv', NEW l, NEW i, MoveToEnd(l, i)
  PROVE  Order!MoveToEnd(l, i)
<1>1. CASE l \notin ListSet \/ i \notin Items
  <2>1. Refuse("InvalidArgument")
    BY <1>1 DEF MoveToEnd
  <2>2. Order!Refuse("InvalidArgument")
    BY <2>1, RefusesToo
  <2> QED BY <1>1, <2>2 DEF Order!MoveToEnd
<1>2. CASE l \in ListSet /\ i \in Items /\ container[i] # l
  <2>1. Orders' = Orders /\ Turns' = Turns /\ Worths' = Worths /\ ret' = Ok(0)
    BY <1>2, Untouched DEF MoveToEnd
  <2>2. l \notin Order!Held(i)
    BY <1>2, HeldIs
  <2> QED BY <1>2, <2>1, <2>2 DEF Order!MoveToEnd, Orders, Turns, Worths, Ok, Order!Ok
<1>3. CASE l \in ListSet /\ i \in Items /\ container[i] = l
  <2>1. i \in Members(l) /\ l \in Order!Held(i)
    BY <1>3, HeldIs DEF Members
  <2>2. PICK n, p, t, b : /\ n = len[l] /\ p = PlaceOf(l, i)
                          /\ t = (IF p <= TurnOf(l) THEN TurnOf(l) - 1 ELSE TurnOf(l))
                          /\ b = (IF t = 0 THEN n - 1 ELSE t - 1)
    OBVIOUS
  <2>3. /\ len'[l] = n
        /\ \A k \in 0 .. n : Chain(l)'[k] = Put(Drop(Chain(l), n, p), n - 1, b, i)[k]
        /\ TurnOf(l)' = IF t = 0 THEN 0 ELSE t + 1
        /\ \A k \in ListSet : k # l => SameList(k)
    BY <1>3, <2>1, <2>2, Moved
  <2>4. /\ Order!Place(l, i) = p /\ p \in 1 .. n /\ n \in Nat /\ TurnOf(l) \in 0 .. n
        /\ OrderOf(l) \in Q!Seq(Items) /\ Q!Len(OrderOf(l)) = n
    BY <1>3, <2>1, <2>2, PlaceIs, OrderRead, Places
  <2>5. b \in 0 .. n - 1 /\ t \in 0 .. n - 1
    BY <2>2, <2>4
  <2>6. OrderOf(l)' = With(Without(OrderOf(l), p), b + 1, i)
    BY <1>3, <2>2, <2>3, <2>4, <2>5, OrderMoved
  <2>7. PICK rest : rest = Without(OrderOf(l), p)
    OBVIOUS
  <2>8. /\ rest \in Q!Seq(Items) /\ Q!Len(rest) = n - 1
        /\ Order!S!RemoveAt(OrderOf(l), Order!Place(l, i)) = rest
    BY <2>4, <2>7, WithoutIsSeq, RemoveAtIs
  <2>9. OrderOf(l)' = IF t = 0 THEN Q!Append(rest, i) ELSE Order!S!InsertAt(rest, t, i)
    <3>1. CASE t = 0
      <4>1. Q!Append(rest, i) = With(rest, Q!Len(rest) + 1, i)
        BY <1>3, <2>8, AppendIs
      <4>2. b + 1 = Q!Len(rest) + 1
        BY <2>2, <2>4, <2>8, <3>1
      <4> QED BY <2>6, <2>7, <3>1, <4>1, <4>2
    <3>2. CASE t # 0
      <4>1. t \in 1 .. Q!Len(rest) + 1 /\ b + 1 = t
        BY <2>2, <2>4, <2>5, <2>8, <3>2
      <4>2. Order!S!InsertAt(rest, t, i) = With(rest, t, i)
        BY <1>3, <2>8, <4>1, InsertAtIs
      <4> QED BY <2>6, <2>7, <3>2, <4>1, <4>2
    <3> QED BY <3>1, <3>2
  <2>10. /\ Orders' = [Orders EXCEPT ![l] = OrderOf(l)']
         /\ Turns' = [Turns EXCEPT ![l] = TurnOf(l)']
    BY <1>3, <2>3, MapsKept
  <2>11. Worths' = Worths /\ ret' = Ok(1)
    BY <1>3, Geometry DEF MoveToEnd, Worths, Items, CAPACITY
  <2>12. /\ Orders[l] = OrderOf(l) /\ Turns[l] = TurnOf(l)
    BY <1>3 DEF Orders, Turns
  <2>13. /\ Order!S!RemoveAt(Orders[l], Order!Place(l, i)) = rest
         /\ t = (IF Order!Place(l, i) <= Turns[l] THEN Turns[l] - 1 ELSE Turns[l])
    BY <2>2, <2>4, <2>8, <2>12
  <2>14. CASE t = 0
    <3>1. /\ Orders' = [Orders EXCEPT ![l] = Q!Append(rest, i)]
          /\ Turns' = [Turns EXCEPT ![l] = 0]
      BY <2>3, <2>9, <2>10, <2>14
    <3> QED BY <1>3, <2>1, <2>11, <2>13, <2>14, <3>1
            DEF Order!MoveToEnd, Orders, Turns, Worths, Ok, Order!Ok
  <2>15. CASE t # 0
    <3>1. /\ Orders' = [Orders EXCEPT ![l] = Order!S!InsertAt(rest, t, i)]
          /\ Turns' = [Turns EXCEPT ![l] = t + 1]
      BY <2>3, <2>9, <2>10, <2>15
    <3> QED BY <1>3, <2>1, <2>11, <2>13, <2>15, <3>1
            DEF Order!MoveToEnd, Orders, Turns, Worths, Ok, Order!Ok
  <2> QED BY <2>14, <2>15
<1> QED BY <1>1, <1>2, <1>3

(* set_value.                                                              *)
LEMMA SetMaps ==
  ASSUME ListInv, ListInv', NEW i, NEW v, SetValue(i, v)
  PROVE  Order!SetValue(i, v)
<1>1. CASE i \notin Items
  <2>1. Refuse("InvalidArgument")
    BY <1>1 DEF SetValue
  <2>2. Order!Refuse("InvalidArgument")
    BY <2>1, RefusesToo
  <2> QED BY <1>1, <2>2 DEF Order!SetValue
<1>2. CASE i \in Items
  <2>1. value' = [value EXCEPT ![i] = v] /\ ret' = Ok(0)
        /\ UNCHANGED <<prev, next, container, cursor, len>>
    BY <1>2 DEF SetValue
  <2>2. Orders' = Orders /\ Turns' = Turns
    BY <2>1 DEF Orders, Turns, OrderOf, TurnOf, Chain, EndOf
  <2>3. Worths' = [Worths EXCEPT ![i] = v]
    <3>1. value \in [Slots -> 0 .. MaxValue] /\ Items \subseteq Slots
      BY Geometry DEF ListInv, Typed
    <3>2. \A j \in Items : value'[j] = IF j = i THEN v ELSE value[j]
      BY <1>2, <2>1, <3>1
    <3>3. Worths' = [j \in Items |-> value'[j]]
      BY DEF Worths, Items, CAPACITY
    <3> QED BY <3>2, <3>3 DEF Worths
  <2> QED BY <1>2, <2>1, <2>2, <2>3 DEF Order!SetValue, Orders, Turns, Worths, Ok, Order!Ok
<1> QED BY <1>1, <1>2

(* next_round_robin.                                                       *)
LEMMA TurnMaps ==
  ASSUME ListInv, ListInv', NEW l, NextRoundRobin(l)
  PROVE  Order!NextRoundRobin(l)
<1>1. CASE l \notin ListSet
  BY <1>1, BadList DEF NextRoundRobin
<1>2. CASE l \in ListSet /\ len[l] = 0
  <2>1. Refuse("None")
    BY <1>2 DEF NextRoundRobin, Refuse, Nothing
  <2>2. Order!Refuse("None")
    BY <2>1, RefusesToo
  <2>3. Orders[l] = <<>>
    <3>1. OrderOf(l) \in Q!Seq(Items) /\ Q!Len(OrderOf(l)) = 0
      BY <1>2, OrderRead
    <3>2. OrderOf(l) = <<>>
      BY <3>1
    <3> QED BY <1>2, <3>2 DEF Orders
  <2> QED BY <1>2, <2>2, <2>3 DEF Order!NextRoundRobin, Orders
<1>3. CASE l \in ListSet /\ len[l] # 0
  <2>1. PICK n, t : n = len[l] /\ t = (IF TurnOf(l) = n THEN 1 ELSE TurnOf(l) + 1)
    OBVIOUS
  <2>2. /\ len'[l] = n /\ TurnOf(l)' = t
        /\ \A k \in 0 .. n : Chain(l)'[k] = Chain(l)[k]
        /\ ret' = Ok(Chain(l)[t])
        /\ \A k \in ListSet : k # l => SameList(k)
    BY <1>3, <2>1, Turned
  <2>3. /\ n \in Nat \ {0} /\ TurnOf(l) \in 0 .. n /\ OrderOf(l) \in Q!Seq(Items)
        /\ Q!Len(OrderOf(l)) = n /\ \A k \in 1 .. n : OrderOf(l)[k] = Chain(l)[k]
    BY <1>3, <2>1, OrderRead, Places
  <2>4. t \in 1 .. n /\ t = (TurnOf(l) % n) + 1
    <3>1. PICK T : T = TurnOf(l)
      OBVIOUS
    <3>2. T \in Int /\ (T < n => T % n = T) /\ (T = n => T % n = 0)
      <4>1. T \in Int /\ 0 <= T /\ T <= n
        BY <2>3, <3>1
      <4>2. /\ 0 <= T /\ T < n => T % n = T
            /\ n <= T /\ T < 2 * n => T % n = T - n
        BY <2>3, <4>1, OneRound
      <4> QED BY <2>3, <4>1, <4>2
    <3>3. /\ t = (IF T = n THEN 1 ELSE T + 1) /\ T \in 0 .. n /\ n \in Nat \ {0}
      BY <2>1, <2>3, <3>1
    <3>4. t \in 1 .. n
      BY <3>3
    <3>5. t = (T % n) + 1
      <4>1. CASE T = n
        BY <3>2, <3>3, <4>1
      <4>2. CASE T # n
        BY <3>2, <3>3, <4>2
      <4> QED BY <4>1, <4>2
    <3> QED BY <3>1, <3>4, <3>5
  <2>5. OrderOf(l)' = OrderOf(l)
    <3>1. /\ OrderOf(l) = [k \in 1 .. n |-> Chain(l)[k]]
          /\ OrderOf(l)' = [k \in 1 .. n |-> Chain(l)'[k]]
      BY <2>1, <2>2 DEF OrderOf
    <3>2. \A k \in 1 .. n : Chain(l)'[k] = Chain(l)[k]
      BY <2>2, <2>3
    <3> QED BY <3>1, <3>2
  <2>6. /\ Orders' = [Orders EXCEPT ![l] = OrderOf(l)']
        /\ Turns' = [Turns EXCEPT ![l] = TurnOf(l)']
    BY <1>3, <2>2, MapsKept
  <2>7. Orders' = Orders /\ Turns' = [Turns EXCEPT ![l] = t]
    BY <1>3, <2>2, <2>5, <2>6 DEF Orders
  <2>8. Worths' = Worths
    BY <1>3 DEF NextRoundRobin, nodes, Worths
  <2>9. /\ Orders[l] # <<>> /\ t = (Turns[l] % Q!Len(Orders[l])) + 1
        /\ ret' = Ok(Orders[l][t])
    BY <1>3, <2>2, <2>3, <2>4 DEF Orders, Turns
  <2> QED BY <1>3, <2>7, <2>8, <2>9 DEF Order!NextRoundRobin, Orders, Turns, Worths, Ok, Order!Ok
<1> QED BY <1>1, <1>2, <1>3

(* New lists are empty sequences.                                          *)
LEMMA InitMaps == Init => Order!Init
<1> SUFFICES ASSUME Init PROVE Order!Init
  OBVIOUS
<1>1. ListInv
  BY InitIInv DEF IInv
<1>2. ASSUME NEW l \in ListSet PROVE OrderOf(l) = <<>> /\ TurnOf(l) = 0
  <2>1. len[l] = 0
    BY <1>2 DEF Init
  <2>2. OrderOf(l) \in Q!Seq(Items) /\ Q!Len(OrderOf(l)) = 0
    BY <1>1, <1>2, <2>1, OrderRead
  <2>3. TurnOf(l) \in 0 .. 0
    BY <1>1, <1>2, <2>1, Places
  <2> QED BY <2>2, <2>3
<1>3. ASSUME NEW i \in Items PROVE value[i] = 0
  <2>1. i \in Slots /\ ~IsEnd(i)
    BY <1>3, Geometry, Ends
  <2> QED BY <2>1 DEF Init, EMPTY, ZERO
<1>4. ret = Ok(0)
  BY DEF Init
<1> QED BY <1>2, <1>3, <1>4 DEF Order!Init, Ok, Order!Ok

(* A search stands at a place up to which nothing is above its value ...   *)
WalkPlaced ==
  walk.on =>
    \E l \in ListSet : \E b \in 0 .. len[l] :
      /\ l = walk.list /\ Chain(l)[b] = walk.before
      /\ \A k \in 1 .. b : value[Chain(l)[k]] <= walk.value

(* ... on behalf of a call that was made.                                  *)
WalkAsked ==
  walk.on =>
    walk.item \in ItemIds /\ walk.list \in ListIds /\ (walk.write => walk.value \in Values)

OrderInv == IInv /\ WalkPlaced /\ WalkAsked

(* It starts at place 0.                                                   *)
LEMMA WalkStarts ==
  ASSUME ListInv, ~walk.on, NEW l \in ListSet, NEW i, NEW write, NEW v, InsertInner(l, i, v, write)
  PROVE  /\ WalkPlaced'
         /\ walk'.on => walk'.list = l /\ walk'.item = i /\ walk'.value = v /\ walk'.write = write
<1>1. CASE v = MaxValue
  BY <1>1 DEF InsertInner, WalkPlaced
<1>2. CASE v # MaxValue
  <2>1. /\ UNCHANGED <<nodes, meta>> /\ walk'.list = l /\ walk'.item = i /\ walk'.value = v
        /\ walk'.write = write /\ walk'.before = EndOf(l)
    BY <1>2 DEF InsertInner
  <2>2. len' = len /\ value' = value /\ Chain(l)' = Chain(l)
    BY <2>1 DEF nodes, meta, Chain, EndOf
  <2>3. 0 \in 0 .. len[l] /\ Chain(l)[0] = EndOf(l) /\ \A k \in 1 .. 0 : FALSE
    BY TailPlace, ListsSpelled DEF Spelled
  <2>4. \E b \in 0 .. len'[l] : /\ l = walk'.list /\ Chain(l)'[b] = walk'.before
                                /\ \A k \in 1 .. b : value'[Chain(l)'[k]] <= walk'.value
    BY <2>1, <2>2, <2>3
  <2>5. ListSet' = ListSet
    BY DEF ListSet
  <2> QED BY <2>1, <2>4, <2>5 DEF WalkPlaced
<1> QED BY <1>1, <1>2

(* A turn that goes on passes one place more and shows nowhere.            *)
LEMMA WalkGoesOn ==
  ASSUME IInv, WalkPlaced, WalkOn
  PROVE  /\ WalkPlaced' /\ UNCHANGED <<nodes, meta, ret>>
         /\ walk'.on /\ walk'.list = walk.list /\ walk'.item = walk.item
         /\ walk'.value = walk.value /\ walk'.write = walk.write
<1>1. walk.on /\ Passes /\ ListInv /\ walk \in Searches /\ SearchInv
  BY DEF WalkOn, IInv
<1>0. PICK l \in ListSet :
        \E b \in 0 .. len[l] : /\ l = walk.list /\ Chain(l)[b] = walk.before
                               /\ \A k \in 1 .. b : value[Chain(l)[k]] <= walk.value
  BY <1>1, Zenon DEF WalkPlaced
<1>2. PICK b \in 0 .. len[l] : /\ l = walk.list /\ Chain(l)[b] = walk.before
                               /\ \A k \in 1 .. b : value[Chain(l)[k]] <= walk.value
  BY <1>0
<1>4. /\ walk.after \in Members(l) /\ walk.guard + 1 <= N /\ walk.after = next[walk.before]
      /\ walk' = [walk EXCEPT !.before = walk.after, !.after = next[walk.after],
                              !.guard = walk.guard + 1]
  BY <1>1, <1>2, WalkOnFacts DEF SearchInv
<1>5. UNCHANGED <<nodes, meta, ret>>
  <2>1. walk.guard + 1 \in Int /\ N \in Int
    BY <1>1, SearchFields, Geometry
  <2>2. ~(walk.guard + 1 > N)
    BY <1>4, <2>1
  <2> QED BY <2>2 DEF WalkOn
<1>6. /\ walk'.list = l /\ walk'.item = walk.item /\ walk'.value = walk.value
      /\ walk'.write = walk.write /\ walk'.before = walk.after /\ walk'.on
  BY <1>1, <1>2, <1>4 DEF Searches
<1>7. len' = len /\ value' = value /\ Chain(l)' = Chain(l) /\ ListSet' = ListSet
  BY <1>5 DEF nodes, meta, Chain, EndOf, ListSet
<1>8. /\ len[l] \in 0 .. CAPACITY /\ Chain(l)[len[l] + 1] = EndOf(l)
      /\ \A k \in 0 .. N - 1 : Chain(l)[k + 1] = next[Chain(l)[k]]
  BY <1>1, <1>2, ListsSpelled DEF Spelled
<1>9. len[l] \in Nat /\ len[l] < N /\ N \in Nat
  BY <1>8, Geometry
<1>10. Chain(l)[b + 1] = walk.after
  BY <1>2, <1>4, <1>8, <1>9
<1>11. b # len[l]
  <2>1. EndOf(l) \notin Members(l)
    BY <1>2, RingFacts
  <2> QED BY <1>4, <1>8, <1>10, <2>1
<1>12. b + 1 \in 0 .. len[l] /\ \A k \in 1 .. b + 1 : k \in 1 .. b \/ k = b + 1
  BY <1>2, <1>9, <1>11
<1>13. value[Chain(l)[b + 1]] <= walk.value
  <2>1. At(walk.after) = walk.after
    BY <1>1, SearchFields, AtSlot
  <2> QED BY <1>1, <1>10, <2>1 DEF Passes
<1>14. \A k \in 1 .. b + 1 : value[Chain(l)[k]] <= walk.value
  BY <1>2, <1>12, <1>13
<1>15. \E c \in 0 .. len'[l] : /\ l = walk'.list /\ Chain(l)'[c] = walk'.before
                               /\ \A k \in 1 .. c : value'[Chain(l)'[k]] <= walk'.value
  BY <1>6, <1>7, <1>10, <1>12, <1>14
<1> QED BY <1>2, <1>5, <1>6, <1>7, <1>15 DEF WalkPlaced

(* Behind place b of list l is where v belongs.                            *)
Belongs(l, b, v) ==
  /\ \A k \in 1 .. b : value[Chain(l)[k]] <= v
  /\ b = len[l] \/ value[Chain(l)[b + 1]] > v

(* Where the search stops is where its value belongs.                      *)
LEMMA WalkEnds ==
  ASSUME IInv, WalkPlaced, WalkStop
  PROVE  \E l \in ListSet : \E b \in 0 .. len[l] :
           /\ l = walk.list /\ Belongs(l, b, walk.value)
           /\ LinkBetween(l, walk.item, Chain(l)[b], next[Chain(l)[b]], walk.write, walk.value)
<1>1. walk.on /\ ~Passes /\ ListInv /\ walk \in Searches /\ SearchInv
  BY DEF WalkStop, IInv
<1>2. PICK l \in ListSet :
        \E b \in 0 .. len[l] : /\ l = walk.list /\ Chain(l)[b] = walk.before
                               /\ \A k \in 1 .. b : value[Chain(l)[k]] <= walk.value
  BY <1>1, Zenon DEF WalkPlaced
<1>3. PICK b \in 0 .. len[l] : /\ l = walk.list /\ Chain(l)[b] = walk.before
                               /\ \A k \in 1 .. b : value[Chain(l)[k]] <= walk.value
  BY <1>2
<1>4. /\ walk.after = next[Chain(l)[b]] /\ walk.after \in Slots /\ walk.value \in 0 .. MaxValue
  BY <1>1, <1>3, SearchFields DEF SearchInv
<1>5. LinkBetween(l, walk.item, Chain(l)[b], next[Chain(l)[b]], walk.write, walk.value)
  BY <1>3, <1>4 DEF WalkStop
<1>6. b = len[l] \/ value[Chain(l)[b + 1]] > walk.value
  <2>1. /\ len[l] \in 0 .. CAPACITY
        /\ \A k \in 0 .. N - 1 : Chain(l)[k + 1] = next[Chain(l)[k]]
    BY <1>1, ListsSpelled DEF Spelled
  <2>2. b \in 0 .. N - 1
    BY <2>1, Geometry
  <2>3. Chain(l)[b + 1] = walk.after
    BY <1>4, <2>1, <2>2
  <2>4. At(walk.after) = walk.after /\ value[walk.after] \in Int /\ walk.value \in Int
    BY <1>1, <1>4, AtSlot, Geometry DEF ListInv, Typed
  <2> QED BY <1>1, <2>3, <2>4 DEF Passes
<1>7. Belongs(l, b, walk.value)
  BY <1>3, <1>6 DEF Belongs
<1> QED BY <1>3, <1>5, <1>7

(* There the item enters the sequence.                                     *)
LEMMA StopMaps ==
  ASSUME OrderInv, ListInv', WalkStop
  PROVE  \E l \in ListIds, i \in ItemIds :
           Order!InsertKeepingValue(l, i) \/ \E v \in Values : Order!Insert(l, i, v)
<1>1. walk.on /\ ListInv /\ walk \in Searches /\ SearchInv
  BY DEF WalkStop, OrderInv, IInv
<1>2. PICK i, v, write : i = walk.item /\ v = walk.value /\ write = walk.write
  OBVIOUS
<1>3. \E l \in ListSet : \E b \in 0 .. len[l] :
        /\ l = walk.list /\ Belongs(l, b, v)
        /\ LinkBetween(l, i, Chain(l)[b], next[Chain(l)[b]], write, v)
  BY <1>2, WalkEnds DEF OrderInv
<1>4. PICK l \in ListSet :
        \E b \in 0 .. len[l] : /\ l = walk.list /\ Belongs(l, b, v)
                               /\ LinkBetween(l, i, Chain(l)[b], next[Chain(l)[b]], write, v)
  BY <1>3
<1>5. PICK b \in 0 .. len[l] : /\ l = walk.list /\ Belongs(l, b, v)
                               /\ LinkBetween(l, i, Chain(l)[b], next[Chain(l)[b]], write, v)
  BY <1>4
<1>6. /\ i \in ItemIds /\ l \in ListIds /\ (write => v \in Values)
      /\ v \in 0 .. MaxValue /\ write \in BOOLEAN
      /\ write \/ (i \in Items /\ value[i] = v)
  BY <1>1, <1>2, <1>5, SearchFields DEF OrderInv, WalkAsked, SearchInv
<1>7. Takes(i, write, v, v)
  BY <1>6 DEF Takes
<1>8. Order!Enter(l, i, b + 1, v)
  BY <1>1, <1>5, <1>7, LinkMaps
<1>9. Order!AfterNotAbove(l, v) = b + 1
  BY <1>1, <1>5, <1>6, AfterIs DEF Belongs
<1>10. Order!Insert(l, i, v)
  BY <1>8, <1>9 DEF Order!Insert
<1>11. CASE write
  BY <1>6, <1>10, <1>11
<1>12. CASE ~write
  <2>1. i \in Items /\ Order!ValueOf(i) = v
    BY <1>1, <1>6, <1>12, KeepsItsValue
  <2>2. Order!InsertKeepingValue(l, i)
    BY <1>10, <2>1
       DEF Order!InsertKeepingValue, Order!Insert, Order!Enter, Order!AfterNotAbove, Order!S!SelectInSeq
  <2> QED BY <1>6, <2>2
<1> QED BY <1>6, <1>11, <1>12

(* A call that starts no search leaves none.                               *)
LEMMA WalkQuiet ==
  ASSUME ~walk.on, UNCHANGED walk PROVE WalkPlaced' /\ WalkAsked'
BY DEF WalkPlaced, WalkAsked

LEMMA WalkKept ==
  ASSUME OrderInv, Next PROVE WalkPlaced' /\ WalkAsked'
<1>1. ListInv
  BY DEF OrderInv, IInv
<1>2. ASSUME NEW l \in ListIds, NEW i \in ItemIds, NEW v \in Values,
             Insert(l, i, v) \/ InsertSorted(l, i, v)
      PROVE  WalkPlaced' /\ WalkAsked'
  <2>1. ~walk.on
    BY <1>2 DEF Insert, InsertSorted
  <2>2. CASE UNCHANGED walk
    BY <2>1, <2>2, WalkQuiet
  <2>3. CASE l \in ListSet /\ InsertInner(l, i, v, TRUE)
    BY <1>1, <1>2, <2>1, <2>3, WalkStarts DEF WalkAsked
  <2> QED BY <1>2, <2>2, <2>3 DEF Insert, InsertSorted
<1>3. ASSUME NEW l \in ListIds, NEW i \in ItemIds, InsertKeepingValue(l, i)
      PROVE  WalkPlaced' /\ WalkAsked'
  <2>1. ~walk.on
    BY <1>3 DEF InsertKeepingValue
  <2>2. CASE UNCHANGED walk
    BY <2>1, <2>2, WalkQuiet
  <2>3. CASE l \in ListSet /\ InsertInner(l, i, value[i], FALSE)
    <3>1. PICK v : v = value[i]
      OBVIOUS
    <3>2. InsertInner(l, i, v, FALSE)
      BY <2>3, <3>1, Zenon
    <3> QED BY <1>1, <1>3, <2>1, <2>3, <3>2, WalkStarts DEF WalkAsked
  <2> QED BY <1>3, <2>2, <2>3, Zenon DEF InsertKeepingValue
<1>4. CASE WalkOn
  BY <1>4, WalkGoesOn DEF OrderInv, WalkOn, WalkAsked
<1>5. CASE WalkStop
  BY <1>5 DEF WalkStop, WalkPlaced, WalkAsked, NoWalk
<1>6. ASSUME NEW l \in ListIds, NEW i \in ItemIds, InsertEnd(l, i) \/ MoveToEnd(l, i)
      PROVE  WalkPlaced' /\ WalkAsked'
  BY <1>6, WalkQuiet DEF InsertEnd, MoveToEnd
<1>7. ASSUME NEW i \in ItemIds, Remove(i) PROVE WalkPlaced' /\ WalkAsked'
  BY <1>7, WalkQuiet DEF Remove
<1>8. ASSUME NEW i \in ItemIds, NEW v \in Values, SetValue(i, v)
      PROVE  WalkPlaced' /\ WalkAsked'
  BY <1>8, WalkQuiet DEF SetValue
<1>9. ASSUME NEW l \in ListIds, NextRoundRobin(l) PROVE WalkPlaced' /\ WalkAsked'
  BY <1>9, WalkQuiet DEF NextRoundRobin
<1> QED BY <1>2, <1>3, <1>4, <1>5, <1>6, <1>7, <1>8, <1>9 DEF Next

(* So the search is placed in every state.                                 *)
LEMMA OrderInductive == Spec => []OrderInv
<1>1. Init => OrderInv
  BY InitIInv DEF Init, OrderInv, WalkPlaced, WalkAsked, NoWalk
<1>2. OrderInv /\ [Next]_vars => OrderInv'
  <2> SUFFICES ASSUME OrderInv, [Next]_vars PROVE OrderInv'
    OBVIOUS
  <2>1. IInv'
    BY NextIInv DEF OrderInv
  <2>2. WalkPlaced' /\ WalkAsked'
    <3>1. CASE Next
      BY <3>1, WalkKept
    <3>2. CASE UNCHANGED vars
      BY <3>2 DEF OrderInv, WalkPlaced, WalkAsked, vars, Chain, EndOf
    <3> QED BY <3>1, <3>2
  <2> QED BY <2>1, <2>2 DEF OrderInv
<1> QED BY <1>1, <1>2, PTL DEF Spec

(* Every step of the lists is a step of the sequences or shows nowhere.    *)
LEMMA StepMaps ==
  ASSUME OrderInv, ListInv', Next PROVE Order!Next \/ UNCHANGED Order!vars
<1>1. ListInv /\ Values \subseteq 0 .. MaxValue
  BY CallsFit DEF OrderInv, IInv
<1>2. ASSUME NEW l \in ListIds, NEW i \in ItemIds, NEW v \in Values,
             Insert(l, i, v) \/ InsertSorted(l, i, v)
      PROVE  Order!Next \/ UNCHANGED Order!vars
  <2>1. Order!Insert(l, i, v) \/ Order!InsertSorted(l, i, v) \/ UNCHANGED Order!vars
    BY <1>1, <1>2, InsertMaps, SortedMaps
  <2> QED BY <2>1 DEF Order!Next
<1>3. ASSUME NEW l \in ListIds, NEW i \in ItemIds,
             InsertKeepingValue(l, i) \/ InsertEnd(l, i) \/ MoveToEnd(l, i)
      PROVE  Order!Next \/ UNCHANGED Order!vars
  <2>1. \/ Order!InsertKeepingValue(l, i) \/ Order!InsertEnd(l, i) \/ Order!MoveToEnd(l, i)
        \/ UNCHANGED Order!vars
    BY <1>1, <1>3, KeepingMaps, InsertEndMaps, MoveMaps
  <2> QED BY <2>1 DEF Order!Next
<1>4. CASE WalkOn
  <2>1. Orders' = Orders /\ Turns' = Turns /\ Worths' = Worths /\ ret' = ret
    BY <1>4, WalkGoesOn, Untouched DEF OrderInv
  <2> QED BY <2>1 DEF Order!vars, Orders, Turns, Worths
<1>5. CASE WalkStop
  BY <1>5, StopMaps DEF Order!Next
<1>6. ASSUME NEW i \in ItemIds, Remove(i) PROVE Order!Next
  <2>1. Order!Remove(i)
    BY <1>1, <1>6, RemoveMaps
  <2> QED BY <2>1 DEF Order!Next
<1>7. ASSUME NEW i \in ItemIds, NEW v \in Values, SetValue(i, v) PROVE Order!Next
  <2>1. Order!SetValue(i, v)
    BY <1>1, <1>7, SetMaps
  <2> QED BY <2>1 DEF Order!Next
<1>8. ASSUME NEW l \in ListIds, NextRoundRobin(l) PROVE Order!Next
  <2>1. Order!NextRoundRobin(l)
    BY <1>1, <1>8, TurnMaps
  <2> QED BY <2>1 DEF Order!Next
<1> QED BY <1>2, <1>3, <1>4, <1>5, <1>6, <1>7, <1>8 DEF Next

(* The linked rings do, call for call and answer for answer, what sequences *)
(* with a turn do: for every number of slots, lists and values, in both    *)
(* builds, the search of insert_inner seen as one step (list.rs:598-1033). *)
THEOREM OrderImplemented == Spec => ImplementsOrder
<1>1. OrderInv /\ OrderInv' /\ [Next]_vars => [Order!Next]_(Order!vars)
  <2> SUFFICES ASSUME OrderInv, OrderInv', [Next]_vars PROVE [Order!Next]_(Order!vars)
    OBVIOUS
  <2>1. CASE Next
    <3>1. ListInv'
      BY DEF OrderInv, IInv
    <3> QED BY <2>1, <3>1, StepMaps
  <2>2. CASE UNCHANGED vars
    <3>1. UNCHANGED <<nodes, meta, ret>>
      BY <2>2 DEF vars, nodes, meta
    <3>2. Orders' = Orders /\ Turns' = Turns /\ Worths' = Worths /\ ret' = ret
      BY <3>1, Untouched
    <3> QED BY <3>2 DEF Order!vars, Orders, Turns, Worths
  <2> QED BY <2>1, <2>2
<1> QED BY <1>1, InitMaps, OrderInductive, PTL DEF Spec, ImplementsOrder, Order!Spec
=============================================================================
