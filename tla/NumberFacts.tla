----------------------------- MODULE NumberFacts -----------------------------
(***************************************************************************)
(* Division with remainder, as the handles and the conversions use it, and *)
(* two facts about sets of numbers that stand for induction.               *)
(***************************************************************************)
EXTENDS Integers, WellFoundedInduction, TLAPS

(* Division with remainder is unique.                                      *)
LEMMA DivUnique ==
  ASSUME NEW a \in Int, NEW q \in Int, NEW r \in Nat, NEW m \in Nat \ {0},
         a = q * m + r, r < m
  PROVE  a \div m = q /\ a % m = r
<1>1. a \div m \in Int /\ a % m \in 0 .. m - 1 /\ a = ((a \div m) * m) + (a % m)
  BY SMTT(30)
<1> DEFINE d == a \div m
           e == a % m
<1>2. d \in Int /\ e \in Nat /\ e < m /\ d * m + e = q * m + r
  BY <1>1
<1> HIDE DEF d, e
<1>3. ~(d < q)
  <2>1. d < q => d + 1 <= q BY <1>2
  <2>2. d + 1 <= q => (d + 1) * m <= q * m BY <1>2, SMTT(30)
  <2>3. (d + 1) * m = d * m + m BY <1>2, SMTT(30)
  <2>4. d * m \in Int /\ q * m \in Int BY <1>2, SMTT(30)
  <2> QED BY <1>2, <2>1, <2>2, <2>3, <2>4
<1>4. ~(q < d)
  <2>1. q < d => q + 1 <= d BY <1>2
  <2>2. q + 1 <= d => (q + 1) * m <= d * m BY <1>2, SMTT(30)
  <2>3. (q + 1) * m = q * m + m BY <1>2, SMTT(30)
  <2>4. d * m \in Int /\ q * m \in Int BY <1>2, SMTT(30)
  <2> QED BY <1>2, <2>1, <2>2, <2>3, <2>4
<1>5. d = q BY <1>2, <1>3, <1>4
<1>6. e = r
  <2>1. q * m \in Int BY SMTT(30)
  <2> QED BY <1>2, <1>5, <2>1
<1> QED BY <1>5, <1>6 DEF d, e

(* What is below the modulus stays, what is one round above or below it    *)
(* comes back by one.                                                      *)
LEMMA OneRound ==
  ASSUME NEW a \in Int, NEW m \in Nat \ {0}
  PROVE  /\ 0 <= a /\ a < m => a % m = a
         /\ m <= a /\ a < 2 * m => a % m = a - m
         /\ -m <= a /\ a < 0 => a % m = a + m
<1>1. a = 0 * m + a /\ a = 1 * m + (a - m) /\ a = (-1) * m + (a + m)
  OBVIOUS
<1>2. ASSUME 0 <= a, a < m PROVE a % m = a
  BY <1>1, <1>2, DivUnique
<1>3. ASSUME m <= a, a < 2 * m PROVE a % m = a - m
  <2>1. a - m \in Nat /\ a - m < m BY <1>3
  <2> QED BY <1>1, <2>1, DivUnique
<1>4. ASSUME -m <= a, a < 0 PROVE a % m = a + m
  <2>1. a + m \in Nat /\ a + m < m BY <1>4
  <2> QED BY <1>1, <2>1, DivUnique
<1> QED BY <1>2, <1>3, <1>4

(* The parts of a quotient with remainder.                                 *)
LEMMA DivParts ==
  ASSUME NEW a \in Nat, NEW m \in Nat \ {0}
  PROVE  /\ a \div m \in Nat /\ a % m \in Nat /\ a % m < m
         /\ a = (a \div m) * m + (a % m)
BY SMTT(30)

(* A multiple of the divisor passes through.                               *)
LEMMA DivShift ==
  ASSUME NEW a \in Nat, NEW b \in Nat, NEW m \in Nat \ {0}
  PROVE  (a * m + b) \div m = a + (b \div m)
<1> DEFINE d == b \div m
           r == b % m
<1>1. d \in Nat /\ r \in Nat /\ r < m /\ b = d * m + r
  BY DivParts
<1> HIDE DEF d, r
<1>2. (a + d) * m = a * m + d * m /\ a * m \in Nat /\ d * m \in Nat
  BY <1>1, SMTT(30)
<1> DEFINE x == a * m + b
           j == a + d
<1>3. x \in Int /\ j \in Int /\ x = j * m + r
  BY <1>1, <1>2
<1> HIDE DEF x, j
<1>4. x \div m = j BY <1>1, <1>3, DivUnique
<1> QED BY <1>4 DEF x, j, d

(* A quotient is at least k exactly if the dividend is at least k times    *)
(* the divisor.                                                            *)
LEMMA DivAtLeast ==
  ASSUME NEW a \in Nat, NEW k \in Nat, NEW m \in Nat \ {0}
  PROVE  a \div m >= k <=> a >= k * m
<1> DEFINE d == a \div m
           r == a % m
<1>1. d \in Nat /\ r \in Nat /\ r < m /\ a = d * m + r
  BY DivParts
<1> HIDE DEF d, r
<1>2. k * m \in Nat /\ d * m \in Nat BY <1>1, SMTT(30)
<1>3. CASE d >= k
  <2>1. d * m >= k * m BY <1>1, <1>3, SMTT(30)
  <2> QED BY <1>1, <1>2, <1>3, <2>1 DEF d
<1>4. CASE ~(d >= k)
  <2>1. d + 1 <= k BY <1>1, <1>4
  <2>2. (d + 1) * m <= k * m BY <1>1, <2>1, SMTT(30)
  <2>3. (d + 1) * m = d * m + m BY <1>1, SMTT(30)
  <2> QED BY <1>1, <1>2, <1>4, <2>2, <2>3 DEF d
<1> QED BY <1>3, <1>4

(* Division keeps the order.                                               *)
LEMMA DivMonotone ==
  ASSUME NEW a \in Nat, NEW b \in Nat, NEW m \in Nat \ {0}, a <= b
  PROVE  a \div m <= b \div m
<1>1. a \div m \in Nat /\ b \div m \in Nat BY DivParts
<1>2. a >= (a \div m) * m BY <1>1, DivAtLeast
<1>3. (a \div m) * m \in Nat BY <1>1, SMTT(30)
<1>4. b >= (a \div m) * m BY <1>2, <1>3
<1>5. b \div m >= a \div m BY <1>1, <1>4, DivAtLeast
<1> QED BY <1>1, <1>5

(* A factor of both sides cancels.                                         *)
LEMMA DivCancel ==
  ASSUME NEW a \in Nat, NEW m \in Nat \ {0}
  PROVE  (a * m) \div (m * m) = a \div m
<1> DEFINE d == a \div m
           r == a % m
<1>1. d \in Nat /\ r \in Nat /\ r < m /\ a = d * m + r
  BY DivParts
<1> HIDE DEF d, r
<1> DEFINE x == a * m
           mm == m * m
           rr == r * m
<1>2. x \in Int /\ mm \in Nat \ {0} /\ rr \in Nat
  BY <1>1, SMTT(30)
<1>3. rr < mm
  <2>1. r + 1 <= m BY <1>1
  <2>2. (r + 1) * m <= m * m BY <1>1, <2>1, SMTT(30)
  <2>3. (r + 1) * m = rr + m BY <1>1, SMTT(30)
  <2> QED BY <1>2, <2>2, <2>3
<1>4. x = d * mm + rr
  <2>1. (d * m + r) * m = d * (m * m) + r * m BY <1>1, SMTT(30)
  <2> QED BY <1>1, <2>1
<1> HIDE DEF x, mm, rr
<1>5. x \div mm = d BY <1>1, <1>2, <1>3, <1>4, DivUnique
<1> QED BY <1>5 DEF x, mm, d

-----------------------------------------------------------------------------
(* A set of numbers has a least one; a set with 0 and every successor in   *)
(* it has them all.                                                        *)
LEMMA Least ==
  ASSUME NEW T \in SUBSET Nat, T # {}
  PROVE  \E x \in T : \A y \in T : x <= y
<1>1. PICK x \in T : \A y \in T : ~ (<<y, x>> \in OpToRel(<, Nat))
  BY NatLessThanWellFounded, WFMin, Zenon
<1>2. \A y \in T : <<y, x>> \in Nat \X Nat /\ <<y, x>>[1] = y /\ <<y, x>>[2] = x
  BY SMT
<1>3. \A y \in T : ~ (y < x)
  BY <1>1, <1>2, Zenon DEF OpToRel
<1> QED BY <1>3

LEMMA AllNumbers ==
  ASSUME NEW T, 0 \in T, \A n \in Nat : n \in T => n + 1 \in T
  PROVE  Nat \subseteq T
<1> DEFINE Rest == Nat \ T
<1>1. SUFFICES ASSUME Rest # {} PROVE FALSE
  OBVIOUS
<1>2. PICK x \in Rest : \A y \in Rest : x <= y
  BY <1>1, Least
<1>3. x \in Nat /\ x # 0 /\ x - 1 \in Nat /\ x - 1 \notin Rest
  BY <1>2
<1> QED BY <1>2, <1>3
=============================================================================
