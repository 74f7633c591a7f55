----------------------------- MODULE ReadyProofs -----------------------------
(***************************************************************************)
(* How long a ready task is passed over, for any number of tasks. It rests *)
(* on what the operations do to the walk of a list (OrderProofs).          *)
(***************************************************************************)
EXTENDS ReadyList, OrderProofs

(* A task in front of the cursor has a turn after as many turns as there   *)
(* are places between; one behind it waits until the walk has come to the  *)
(* marker, and nothing that enters makes that longer, since it enters in   *)
(* front of the cursor, behind its back.                                   *)
TurnsLeft ==
  \A k \in 1 .. len[Ready] :
    LET w == waited[Chain(Ready)[k]]
        t == TurnOf(Ready)
    IN IF k <= t THEN w + (len[Ready] - t) <= CAPACITY - 1
       ELSE w + (k - t) <= 2 * CAPACITY - 1

ReadyInv ==
  /\ ListInv
  /\ waited \in [Items -> 0 .. Patience]
  /\ running \in Items \cup {Nobody}
  /\ \A i \in Items : i \notin Members(Ready) \/ i = running => waited[i] = 0
  /\ TurnsLeft

(* What the ready list and its tasks are in numbers.                       *)
LEMMA ReadyFits ==
  /\ Ready = 0 /\ Ready \in ListSet /\ Ready \in 0 .. NO_LIST /\ Items \subseteq U16
  /\ Nobody \notin Items /\ Nobody = CAPACITY
  /\ Patience \in Nat /\ Patience = 2 * CAPACITY /\ CAPACITY \in Nat /\ CAPACITY > 0
BY Geometry DEF Ready, ListSet, Nobody, Items, Patience, NO_LIST

(* What is known of the walk of the ready list.                            *)
LEMMA ReadyWalk ==
  ASSUME ListInv
  PROVE  /\ len[Ready] \in Nat /\ len[Ready] <= CAPACITY
         /\ TurnOf(Ready) \in 0 .. len[Ready]
         /\ \A k \in 1 .. len[Ready] : Chain(Ready)[k] \in Members(Ready)
                                       /\ Chain(Ready)[k] \in Items
         /\ \A j, k \in 0 .. len[Ready] : Chain(Ready)[j] = Chain(Ready)[k] => j = k
         /\ \A s \in Members(Ready) : \E k \in 1 .. len[Ready] : Chain(Ready)[k] = s
<1>1. len[Ready] \in Nat /\ len[Ready] <= CAPACITY
  BY ReadyFits DEF ListInv, Typed
<1> QED BY <1>1, ReadyFits, Places, ListsSpelled, RingFacts DEF Spelled

(* Nobody is ready, nobody has waited.                                     *)
LEMMA ReadyStarts == ReadyInit => ReadyInv
<1> SUFFICES ASSUME ReadyInit PROVE ReadyInv
  OBVIOUS
<1>1. ListInv
  BY InitIInv DEF ReadyInit, IInv
<1>2. waited \in [Items -> 0 .. Patience] /\ running \in Items \cup {Nobody}
      /\ \A i \in Items : waited[i] = 0
  BY ReadyFits DEF ReadyInit
<1>3. len[Ready] = 0
  BY ReadyFits DEF ReadyInit, Init
<1>4. TurnsLeft
  BY <1>3 DEF TurnsLeft
<1> QED BY <1>1, <1>2, <1>4 DEF ReadyInv

(* A task that wakes enters in front of the cursor, the furthest from a    *)
(* turn that there is.                                                     *)
LEMMA WakeKeeps ==
  ASSUME ReadyInv, NEW i \in Items, Wake(i) PROVE ReadyInv'
<1> DEFINE at == Chain(Ready)
           n == len[Ready]
           t == TurnOf(Ready)
           b == IF t = 0 THEN n ELSE t - 1
           at1 == Chain(Ready)'
           C == CAPACITY
<1>1. container[i] = NO_LIST /\ InsertEnd(Ready, i) /\ UNCHANGED <<running, waited>>
  BY DEF Wake
<1>2. ListInv /\ ListInv'
  BY <1>1, InsertEndStep, ReadyFits DEF ReadyInv
<1>3. /\ b \in 0 .. n /\ len'[Ready] = n + 1
      /\ \A k \in 0 .. n + 1 : at1[k] = Put(at, n, b, i)[k]
      /\ TurnOf(Ready)' = IF t = 0 THEN 0 ELSE t + 1
  BY <1>1, <1>2, ReadyFits, EnteredAtEnd
<1>4. /\ n \in Nat /\ n <= C /\ t \in 0 .. n
      /\ \A k \in 1 .. n : at[k] \in Items
  BY <1>2, ReadyWalk
<1>5. len'[Ready] <= C /\ C \in Nat /\ C > 0
  BY <1>2, ReadyFits DEF ListInv, Typed
<1>6. waited[i] = 0 /\ \A j \in Items : waited[j] \in Nat
  BY <1>1, ReadyFits, Geometry DEF ReadyInv, Members
<1>7. \A k \in 1 .. n : IF k <= t THEN waited[at[k]] + (n - t) <= C - 1
                        ELSE waited[at[k]] + (k - t) <= 2 * C - 1
  BY DEF ReadyInv, TurnsLeft
<1>8. container' = [container EXCEPT ![i] = Ready]
  BY <1>1, ReadyFits DEF InsertEnd, LinkBetween
<1> HIDE DEF at, n, t, at1, C
<1>9. ASSUME NEW k \in 1 .. n + 1
      PROVE  LET u == IF t = 0 THEN 0 ELSE t + 1
             IN IF k <= u THEN waited[at1[k]] + ((n + 1) - u) <= C - 1
                ELSE waited[at1[k]] + (k - u) <= 2 * C - 1
  <2>1. CASE k <= b
    <3>1. at1[k] = at[k] /\ k \in 1 .. n
      BY <1>3, <1>4, <2>1 DEF Put
    <3>2. IF k <= t THEN waited[at[k]] + (n - t) <= C - 1
          ELSE waited[at[k]] + (k - t) <= 2 * C - 1
      BY <1>7, <3>1
    <3>3. waited[at[k]] \in Nat
      BY <1>4, <1>6, <3>1
    <3> QED BY <1>4, <1>5, <2>1, <3>1, <3>2, <3>3
  <2>2. CASE k = b + 1
    <3>1. at1[k] = i
      BY <1>3, <1>4, <2>2 DEF Put
    <3> QED BY <1>3, <1>4, <1>5, <1>6, <2>2, <3>1
  <2>3. CASE k > b + 1
    <3> DEFINE j == k - 1
    <3>1. at1[k] = at[j] /\ j \in 1 .. n /\ t # 0 /\ j + 1 = k
      BY <1>3, <1>4, <2>3 DEF Put
    <3> HIDE DEF j
    <3>2. IF j <= t THEN waited[at[j]] + (n - t) <= C - 1
          ELSE waited[at[j]] + (j - t) <= 2 * C - 1
      BY <1>7, <3>1
    <3>3. waited[at[j]] \in Nat
      BY <1>4, <1>6, <3>1
    <3> QED BY <1>4, <1>5, <2>3, <3>1, <3>2, <3>3
  <2> QED BY <1>3, <1>4, <2>1, <2>2, <2>3
<1>10. TurnsLeft'
  <2>1. Ready' = Ready /\ CAPACITY' = CAPACITY
    BY DEF Ready, CAPACITY
  <2> QED BY <1>1, <1>3, <1>9, <2>1 DEF TurnsLeft, at1, C, n, t
<1>11. \A j \in Items : j \notin Members(Ready)' \/ j = running' => waited'[j] = 0
  BY <1>1, <1>6, <1>8 DEF ReadyInv, Members, ListInv, Typed
<1> QED BY <1>1, <1>2, <1>10, <1>11 DEF ReadyInv

(* A task that blocks brings those behind it one place nearer.             *)
LEMMA BlockKeeps ==
  ASSUME ReadyInv, NEW i \in Items, Block(i) PROVE ReadyInv'
<1> DEFINE at == Chain(Ready)
           n == len[Ready]
           t == TurnOf(Ready)
           p == PlaceOf(Ready, i)
           u == IF p <= t THEN t - 1 ELSE t
           at1 == Chain(Ready)'
           C == CAPACITY
<1>1. /\ container[i] = Ready /\ i \in Members(Ready) /\ Remove(i)
      /\ waited' = [waited EXCEPT ![i] = 0] /\ UNCHANGED running
  BY DEF Block, Members
<1>2. ListInv /\ ListInv'
  BY <1>1, RemoveStep, ReadyFits DEF ReadyInv
<1>3. /\ len'[Ready] = n - 1 /\ TurnOf(Ready)' = u
      /\ \A k \in 0 .. n - 1 : at1[k] = Drop(at, n, p)[k]
  BY <1>1, <1>2, ReadyFits, LeftByRemove
<1>4. /\ n \in Nat /\ n <= C /\ t \in 0 .. n /\ C \in Nat /\ C > 0
      /\ \A k \in 1 .. n : at[k] \in Items
      /\ \A j, k \in 0 .. n : at[j] = at[k] => j = k
  BY <1>2, ReadyWalk, ReadyFits
<1>5. p \in 1 .. n /\ at[p] = i
  BY <1>1, <1>2, ReadyFits, Unlinked
<1>6. \A j \in Items : waited[j] \in Nat /\ (j # i => waited'[j] = waited[j])
  BY <1>1, ReadyFits DEF ReadyInv
<1>7. \A k \in 1 .. n : IF k <= t THEN waited[at[k]] + (n - t) <= C - 1
                        ELSE waited[at[k]] + (k - t) <= 2 * C - 1
  BY DEF ReadyInv, TurnsLeft
<1>8. container' = [container EXCEPT ![i] = NO_LIST]
  BY <1>1, ReadyFits, Geometry DEF Remove
<1> HIDE DEF at, n, t, p, at1, C
<1>9. ASSUME NEW k \in 1 .. n - 1
      PROVE  IF k <= u THEN waited'[at1[k]] + ((n - 1) - u) <= C - 1
             ELSE waited'[at1[k]] + (k - u) <= 2 * C - 1
  <2>1. CASE k < p
    <3>1. at1[k] = at[k] /\ k \in 1 .. n /\ k # p
      BY <1>3, <1>4, <1>5, <2>1 DEF Drop
    <3>2. at[k] \in Items /\ at[k] # i
      BY <1>4, <1>5, <3>1
    <3>3. waited'[at1[k]] = waited[at[k]] /\ waited[at[k]] \in Nat
      BY <1>6, <3>1, <3>2
    <3>4. IF k <= t THEN waited[at[k]] + (n - t) <= C - 1
          ELSE waited[at[k]] + (k - t) <= 2 * C - 1
      BY <1>7, <3>1
    <3> QED BY <1>4, <1>5, <2>1, <3>1, <3>3, <3>4
  <2>2. CASE ~(k < p)
    <3> DEFINE j == k + 1
    <3>1. at1[k] = at[j] /\ j \in 1 .. n /\ j # p /\ k = j - 1
      BY <1>3, <1>4, <1>5, <2>2 DEF Drop
    <3> HIDE DEF j
    <3>2. at[j] \in Items /\ at[j] # i
      BY <1>4, <1>5, <3>1
    <3>3. waited'[at1[k]] = waited[at[j]] /\ waited[at[j]] \in Nat
      BY <1>6, <3>1, <3>2
    <3>4. IF j <= t THEN waited[at[j]] + (n - t) <= C - 1
          ELSE waited[at[j]] + (j - t) <= 2 * C - 1
      BY <1>7, <3>1
    <3> QED BY <1>4, <1>5, <2>2, <3>1, <3>3, <3>4
  <2> QED BY <2>1, <2>2
<1>10. TurnsLeft'
  <2>1. Ready' = Ready /\ CAPACITY' = CAPACITY
    BY DEF Ready, CAPACITY
  <2> HIDE DEF u
  <2> QED BY <1>3, <1>9, <2>1 DEF TurnsLeft, at1, C, n, t
<1>11. \A j \in Items : j \notin Members(Ready)' \/ j = running' => waited'[j] = 0
  BY <1>1, <1>8 DEF ReadyInv, Members, ListInv, Typed
<1>12. waited' \in [Items -> 0 .. Patience]
  BY <1>1, ReadyFits DEF ReadyInv
<1> QED BY <1>1, <1>2, <1>10, <1>11, <1>12 DEF ReadyInv

(* The running task has waited for nothing yet when it is moved.           *)
LEMMA RotateKeeps ==
  ASSUME ReadyInv, Rotate PROVE ReadyInv'
<1> DEFINE i == running
           at == Chain(Ready)
           n == len[Ready]
           m == n - 1
           T == TurnOf(Ready)
           p == PlaceOf(Ready, i)
           t == IF p <= T THEN T - 1 ELSE T
           b == IF t = 0 THEN m ELSE t - 1
           u == IF t = 0 THEN 0 ELSE t + 1
           d == Drop(at, n, p)
           at1 == Chain(Ready)'
           C == CAPACITY
<1>1. i \in Members(Ready) /\ MoveToEnd(Ready, i) /\ UNCHANGED <<running, waited>>
  BY DEF Rotate
<1>2. ListInv /\ ListInv' /\ i \in Items
  BY <1>1, MoveToEndStep, ReadyFits DEF ReadyInv, Members
<1>3. /\ len'[Ready] = n /\ TurnOf(Ready)' = u
      /\ \A k \in 0 .. n : at1[k] = Put(d, m, b, i)[k]
  BY <1>1, <1>2, ReadyFits, Moved
<1>4. /\ n \in Nat /\ n <= C /\ T \in 0 .. n /\ C \in Nat /\ C > 0
      /\ \A k \in 1 .. n : at[k] \in Items
  BY <1>2, ReadyWalk, ReadyFits
<1>5. p \in 1 .. n /\ at[p] = i
  BY <1>1, <1>2, ReadyFits, Unlinked
<1>6. waited[i] = 0 /\ \A j \in Items : waited[j] \in Nat
  BY <1>2, ReadyFits DEF ReadyInv
<1>7. \A k \in 1 .. n : IF k <= T THEN waited[at[k]] + (n - T) <= C - 1
                        ELSE waited[at[k]] + (k - T) <= 2 * C - 1
  BY DEF ReadyInv, TurnsLeft
<1>8. container' = container
  BY <1>1, <1>2, ReadyFits DEF MoveToEnd, nodes
<1> HIDE DEF at, n, T, p, at1, C, i
<1>9. t \in 0 .. m /\ m \in Nat /\ b \in 0 .. m /\ m + 1 = n
  BY <1>4, <1>5
<1>10. ASSUME NEW k \in 1 .. m
       PROVE  /\ waited[d[k]] \in Nat
              /\ IF k <= t THEN waited[d[k]] + (m - t) <= C - 1
                 ELSE waited[d[k]] + (k - t) <= 2 * C - 1
  <2>1. CASE k < p
    <3>1. d[k] = at[k] /\ k \in 1 .. n
      BY <1>4, <1>5, <2>1 DEF Drop
    <3>2. waited[at[k]] \in Nat
      BY <1>4, <1>6, <3>1
    <3>3. IF k <= T THEN waited[at[k]] + (n - T) <= C - 1
          ELSE waited[at[k]] + (k - T) <= 2 * C - 1
      BY <1>7, <3>1
    <3> HIDE DEF d
    <3> QED BY <1>4, <1>5, <2>1, <3>1, <3>2, <3>3
  <2>2. CASE ~(k < p)
    <3> DEFINE j == k + 1
    <3>1. d[k] = at[j] /\ j \in 1 .. n /\ k = j - 1
      BY <1>4, <1>5, <2>2 DEF Drop
    <3> HIDE DEF j
    <3>2. waited[at[j]] \in Nat
      BY <1>4, <1>6, <3>1
    <3>3. IF j <= T THEN waited[at[j]] + (n - T) <= C - 1
          ELSE waited[at[j]] + (j - T) <= 2 * C - 1
      BY <1>7, <3>1
    <3> HIDE DEF d
    <3> QED BY <1>4, <1>5, <2>2, <3>1, <3>2, <3>3
  <2> QED BY <2>1, <2>2
<1> HIDE DEF d, t, m
<1>11. ASSUME NEW k \in 1 .. n
       PROVE  at1[k] = IF k <= b THEN d[k] ELSE IF k = b + 1 THEN i ELSE d[k - 1]
  <2>1. k \in 0 .. m + 1 /\ k \in 0 .. n
    BY <1>4, <1>9
  <2> HIDE DEF b
  <2> QED BY <1>3, <2>1 DEF Put
<1>12. ASSUME NEW k \in 1 .. n
       PROVE  IF k <= u THEN waited[at1[k]] + (n - u) <= C - 1
              ELSE waited[at1[k]] + (k - u) <= 2 * C - 1
  <2>1. CASE k <= b
    <3>1. at1[k] = d[k] /\ k \in 1 .. m
      BY <1>11, <1>4, <1>9, <2>1
    <3> QED BY <1>4, <1>9, <1>10, <2>1, <3>1
  <2>2. CASE k = b + 1
    <3>1. at1[k] = i
      BY <1>11, <1>4, <1>9, <2>2
    <3> QED BY <1>4, <1>6, <1>9, <2>2, <3>1
  <2>3. CASE k > b + 1
    <3> DEFINE j == k - 1
    <3>1. at1[k] = d[j] /\ j \in 1 .. m /\ t # 0 /\ j + 1 = k
      BY <1>11, <1>4, <1>9, <2>3
    <3> HIDE DEF j
    <3> QED BY <1>4, <1>9, <1>10, <2>3, <3>1
  <2> QED BY <1>4, <1>9, <2>1, <2>2, <2>3
<1>13. TurnsLeft'
  <2>1. Ready' = Ready /\ CAPACITY' = CAPACITY
    BY DEF Ready, CAPACITY
  <2> HIDE DEF u
  <2> QED BY <1>1, <1>3, <1>12, <2>1 DEF TurnsLeft, at1, C, n
<1>14. \A j \in Items : j \notin Members(Ready)' \/ j = running' => waited'[j] = 0
  BY <1>1, <1>8 DEF ReadyInv, Members
<1> QED BY <1>1, <1>2, <1>13, <1>14 DEF ReadyInv

(* The cursor goes one place on and everybody but the task there has       *)
(* waited one turn more.                                                   *)
LEMMA SelectKeeps ==
  ASSUME ReadyInv, Select PROVE ReadyInv'
<1> DEFINE at == Chain(Ready)
           n == len[Ready]
           t == TurnOf(Ready)
           u == IF t = n THEN 1 ELSE t + 1
           at1 == Chain(Ready)'
           C == CAPACITY
           r == ret'.answer
<1>1. /\ n # 0 /\ NextRoundRobin(Ready) /\ running' = r
      /\ waited' = [i \in Items |->
                     IF i \notin Members(Ready) \ {r} THEN 0
                     ELSE IF waited[i] < Patience THEN waited[i] + 1 ELSE Patience]
  BY DEF Select
<1>2. ListInv /\ ListInv'
  BY <1>1, RoundRobinStep, ReadyFits DEF ReadyInv
<1>3. /\ len'[Ready] = n /\ TurnOf(Ready)' = u
      /\ \A k \in 0 .. n : at1[k] = at[k]
      /\ r = at[u]
  BY <1>1, <1>2, ReadyFits, Turned DEF Ok
<1>4. /\ n \in Nat /\ n <= C /\ t \in 0 .. n /\ C \in Nat /\ C > 0
      /\ \A k \in 1 .. n : at[k] \in Items /\ at[k] \in Members(Ready)
      /\ \A j, k \in 0 .. n : at[j] = at[k] => j = k
  BY <1>2, ReadyWalk, ReadyFits
<1>5. \A j \in Items : waited[j] \in 0 .. Patience
  BY DEF ReadyInv
<1>6. \A k \in 1 .. n : IF k <= t THEN waited[at[k]] + (n - t) <= C - 1
                        ELSE waited[at[k]] + (k - t) <= 2 * C - 1
  BY DEF ReadyInv, TurnsLeft
<1>7. container' = container
  BY <1>1, ReadyFits DEF NextRoundRobin, nodes
<1> HIDE DEF at, n, t, at1, C, r
<1>8. u \in 1 .. n
  BY <1>1, <1>4
<1>9. ASSUME NEW k \in 1 .. n
      PROVE  IF k <= u THEN waited'[at1[k]] + (n - u) <= C - 1
             ELSE waited'[at1[k]] + (k - u) <= 2 * C - 1
  <2>1. at1[k] = at[k] /\ at[k] \in Items /\ at[k] \in Members(Ready)
    BY <1>3, <1>4
  <2>2. CASE k = u
    <3>1. waited'[at1[k]] = 0
      BY <1>1, <1>3, <2>1, <2>2
    <3> QED BY <1>4, <1>8, <2>2, <3>1
  <2>3. CASE k # u
    <3>1. at[k] # r
      BY <1>3, <1>4, <1>8, <2>3
    <3> DEFINE w == waited[at[k]]
               w1 == waited'[at1[k]]
    <3>2. w \in Nat /\ w1 \in Nat /\ w1 <= w + 1
      BY <1>1, <1>5, <2>1, <3>1, ReadyFits
    <3>3. IF k <= t THEN w + (n - t) <= C - 1 ELSE w + (k - t) <= 2 * C - 1
      BY <1>6
    <3> HIDE DEF w, w1
    <3>4. IF k <= u THEN w1 + (n - u) <= C - 1 ELSE w1 + (k - u) <= 2 * C - 1
      BY <1>4, <1>8, <2>3, <3>2, <3>3
    <3> QED BY <3>4 DEF w1
  <2> QED BY <2>2, <2>3
<1>10. TurnsLeft'
  <2>1. Ready' = Ready /\ CAPACITY' = CAPACITY
    BY DEF Ready, CAPACITY
  <2> HIDE DEF u
  <2> QED BY <1>3, <1>9, <2>1 DEF TurnsLeft, at1, C, n
<1>11. Members(Ready)' = Members(Ready)
  BY <1>7 DEF Members, Ready
<1>12. \A j \in Items : j \notin Members(Ready)' \/ j = running' => waited'[j] = 0
  BY <1>1, <1>11
<1>13. waited' \in [Items -> 0 .. Patience] /\ running' \in Items \cup {Nobody}
  <2>1. r \in Items
    BY <1>3, <1>4, <1>8
  <2> QED BY <1>1, <1>5, <2>1, ReadyFits
<1> QED BY <1>2, <1>10, <1>12, <1>13 DEF ReadyInv

(* A step that changes nothing keeps it.                                   *)
LEMMA ReadyStill ==
  ASSUME ReadyInv, UNCHANGED readyVars PROVE ReadyInv'
<1>1. ListInv'
  BY SameListsStep DEF ReadyInv, ListInv, Typed, readyVars, vars, nodes, meta
<1>2. /\ Chain(Ready)' = Chain(Ready) /\ TurnOf(Ready)' = TurnOf(Ready)
      /\ len' = len /\ waited' = waited /\ running' = running
      /\ Members(Ready)' = Members(Ready) /\ Ready' = Ready
  BY DEF readyVars, vars, nodes, meta, Chain, TurnOf, Members, EndOf, Ready
<1>3. TurnsLeft'
  BY <1>2 DEF ReadyInv, TurnsLeft
<1> QED BY <1>1, <1>2, <1>3 DEF ReadyInv

(* So it is in every state.                                                *)
LEMMA ReadyHolds == ReadySpec => []ReadyInv
<1>1. ReadyInit => ReadyInv
  BY ReadyStarts
<1>2. ReadyInv /\ [ReadyNext]_readyVars => ReadyInv'
  <2> SUFFICES ASSUME ReadyInv, [ReadyNext]_readyVars PROVE ReadyInv'
    OBVIOUS
  <2>1. CASE \E i \in Items : Wake(i)
    BY <2>1, WakeKeeps
  <2>2. CASE \E i \in Items : Block(i)
    BY <2>2, BlockKeeps
  <2>3. CASE Select
    BY <2>3, SelectKeeps
  <2>4. CASE Rotate
    BY <2>4, RotateKeeps
  <2>5. CASE UNCHANGED readyVars
    BY <2>5, ReadyStill
  <2> QED BY <2>1, <2>2, <2>3, <2>4, <2>5 DEF ReadyNext
<1> QED BY <1>1, <1>2, PTL DEF ReadySpec

(* A ready task is passed over by at most two turns of every other task,   *)
(* for any number of tasks and whoever wakes, blocks or is moved meanwhile *)
(* (insert_end, move_to_end, remove and next_round_robin of list.rs).      *)
THEOREM BypassHolds == ReadySpec => []BoundedBypass
<1>1. ReadyInv => BoundedBypass
  <2> SUFFICES ASSUME ReadyInv, NEW i \in Items PROVE waited[i] <= 2 * (CAPACITY - 1)
    BY DEF BoundedBypass
  <2>1. CASE i \notin Members(Ready)
    BY <2>1, ReadyFits DEF ReadyInv
  <2>2. CASE i \in Members(Ready)
    <3>1. PICK k \in 1 .. len[Ready] : Chain(Ready)[k] = i
      BY <2>2, ReadyWalk DEF ReadyInv
    <3>2. IF k <= TurnOf(Ready) THEN waited[i] + (len[Ready] - TurnOf(Ready)) <= CAPACITY - 1
          ELSE waited[i] + (k - TurnOf(Ready)) <= 2 * CAPACITY - 1
      BY <3>1 DEF ReadyInv, TurnsLeft
    <3>3. len[Ready] \in Nat /\ TurnOf(Ready) \in 0 .. len[Ready] /\ waited[i] \in Nat
          /\ CAPACITY \in Nat /\ CAPACITY > 0
      BY ReadyWalk, ReadyFits DEF ReadyInv
    <3> QED BY <3>1, <3>2, <3>3
  <2> QED BY <2>1, <2>2
<1> QED BY <1>1, ReadyHolds, PTL

=============================================================================
