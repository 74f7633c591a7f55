---------------------------- MODULE KernelProofs ----------------------------
(***************************************************************************)
(* The conversions of time and the start of a kernel, for every width of   *)
(* the count and of the words, every rate and every configuration: the     *)
(* code's products and sums, which saturate or are split on the way, come  *)
(* to what exact arithmetic says; what the checks of a start let through   *)
(* fits what it runs on; and a running kernel, whenever it started and     *)
(* whatever else it does, times waits as one that is there from the first. *)
(***************************************************************************)
EXTENDS Boot, TickHooks, NumberFacts

-----------------------------------------------------------------------------
(* The conversions.                                                        *)

(* A count is as wide as a word, or at most half of one.                   *)
LEMMA Widths ==
  /\ TickMax \in Nat \ {0} /\ WordMax \in Nat /\ TickMax <= WordMax
  /\ TickMax = WordMax \/ 2 * (TickMax + 1) <= WordMax + 1
<1>1. PICK k \in 1 .. WordMax + 1 : WordMax + 1 = k * (TickMax + 1)
  BY WidthsFit
<1>2. TickMax \in Nat \ {0} /\ WordMax \in Nat /\ k \in Nat \ {0}
  BY WidthsFit, <1>1
<1>3. CASE k = 1 BY <1>1, <1>2, <1>3
<1>4. CASE k >= 2
  <2>1. k * (TickMax + 1) >= 2 * (TickMax + 1) BY <1>2, <1>4, SMTT(30)
  <2> QED BY <1>1, <1>2, <2>1
<1> QED BY <1>2, <1>3, <1>4

(* What the constants give, in the form the steps below use.               *)
LEMMA RateFacts ==
  /\ Million \in Nat \ {0} /\ Thousand \in Nat \ {0}
  /\ \A rate \in Rates : rate \in Nat \ {0} /\ Million * rate <= WordMax
<1>1. Thousand \in Nat \ {0} BY ConfigsFit
<1>2. Million \in Nat \ {0} BY <1>1, SMTT(30) DEF Million
<1> QED BY <1>1, <1>2, ConfigsFit

(* Duration::to_ticks multiplies seconds and the rest apart, so as not to  *)
(* overflow; what it returns is the product, floored, or the greatest      *)
(* count if that is less (time.rs:52-72).                                  *)
THEOREM ToTicksExact ==
  ASSUME NEW us \in Words, NEW rate \in Rates
  PROVE  ToTicks(us, rate) = LeastOf((us * rate) \div Million, TickMax)
<1> DEFINE M == Million
           q == us \div M
           r == us % M
<1>1. M \in Nat \ {0} /\ rate \in Nat \ {0} /\ M * rate <= WordMax /\ us \in Nat
  BY RateFacts, Widths DEF Words
<1>2. q \in Nat /\ r \in Nat /\ r < M /\ us = q * M + r
  BY <1>1, DivParts
<1>3. ToTicks(us, rate) =
        IF q * rate <= WordMax /\ r * rate <= WordMax
        THEN LeastOf(LeastOf(q * rate + ((r * rate) \div M), WordMax), TickMax)
        ELSE TickMax
  BY DEF ToTicks, Fits, SaturatingAdd
<1> HIDE DEF M, q, r
<1> DEFINE a == q * rate
           b == r * rate
<1>4. a \in Nat /\ b \in Nat BY <1>1, <1>2, SMTT(30)
<1>5. us * rate = a * M + b
  <2>1. (q * M + r) * rate = (q * rate) * M + r * rate BY <1>1, <1>2, SMTT(30)
  <2> QED BY <1>2, <2>1
<1>6. b <= WordMax
  <2>1. r * rate <= M * rate BY <1>1, <1>2, SMTT(30)
  <2>2. M * rate \in Nat BY <1>1, SMTT(30)
  <2> QED BY <1>1, <1>4, <2>1, <2>2, Widths
<1> HIDE DEF a, b
<1>7. (us * rate) \div M = a + (b \div M) /\ b \div M \in Nat
  <2>1. (a * M + b) \div M = a + (b \div M) BY <1>1, <1>4, DivShift
  <2>2. b \div M \in Nat BY <1>1, <1>4, DivParts
  <2> QED BY <1>5, <2>1, <2>2
<1>8. CASE a <= WordMax
  <2>1. ToTicks(us, rate) = LeastOf(LeastOf(a + (b \div M), WordMax), TickMax)
    BY <1>3, <1>6, <1>8 DEF a, b
  <2> QED BY <1>4, <1>7, <2>1, Widths DEF LeastOf, M
<1>9. CASE ~(a <= WordMax)
  <2>1. ToTicks(us, rate) = TickMax BY <1>3, <1>9 DEF a, b
  <2> QED BY <1>4, <1>7, <1>9, <2>1, Widths DEF LeastOf, M
<1> QED BY <1>8, <1>9

(* A longer Duration converts to no fewer ticks.                           *)
LEMMA ToTicksMonotone ==
  ASSUME NEW us \in Words, NEW vs \in Words, NEW rate \in Rates, us <= vs
  PROVE  ToTicks(us, rate) <= ToTicks(vs, rate)
<1>1. us \in Nat /\ vs \in Nat /\ rate \in Nat /\ Million \in Nat \ {0}
  BY RateFacts, Widths DEF Words
<1>2. us * rate <= vs * rate /\ us * rate \in Nat /\ vs * rate \in Nat
  BY <1>1, SMTT(30)
<1> DEFINE x == us * rate
           y == vs * rate
<1>3. x \in Nat /\ y \in Nat /\ x <= y BY <1>2
<1>4. ToTicks(us, rate) = LeastOf(x \div Million, TickMax)
      /\ ToTicks(vs, rate) = LeastOf(y \div Million, TickMax)
  BY ToTicksExact
<1> HIDE DEF x, y
<1>5. x \div Million <= y \div Million /\ x \div Million \in Nat /\ y \div Million \in Nat
  BY <1>1, <1>3, DivMonotone, DivParts
<1> QED BY <1>4, <1>5, Widths DEF LeastOf

-----------------------------------------------------------------------------
(* The invariant: what each stage of a wait holds of what was asked.       *)

Narrow == Million * TickMax <= WordMax

TimeInv ==
  /\ hz \in Rates
  /\ stage \in {"idle", "asked", "converted", "blocked", "called"}
  /\ asked \in Nat
  /\ stage \in {"asked", "converted"} => span = LeastOf(asked, WordMax)
  /\ stage = "converted" => timeout = After(span, hz)
  /\ stage \in {"blocked", "called"} => timeout = FromTicks(ticks) /\ (Narrow => ticks = Floored)

(* A Timeout made of a count gives the count back.                         *)
LEMMA TimeoutRoundTrip ==
  ASSUME NEW n \in Counts
  PROVE  TimeoutTicks(FromTicks(n)) = n
<1>1. n \in Nat /\ n <= TickMax BY Widths DEF Counts
<1>2. CASE n = 0
  BY <1>2 DEF FromTicks, TimeoutTicks, Timeout
<1>3. CASE n # 0 /\ n >= TickMax
  <2>1. FromTicks(n).kind = "Forever" BY <1>3 DEF FromTicks, Timeout
  <2> QED BY <1>1, <1>3, <2>1, Widths DEF TimeoutTicks
<1>4. CASE n # 0 /\ ~(n >= TickMax)
  <2>1. FromTicks(n).kind = "Ticks" /\ FromTicks(n).ticks = n
    BY <1>4 DEF FromTicks, Timeout
  <2> QED BY <1>1, <2>1, Widths DEF TimeoutTicks, LeastOf
<1> QED BY <1>2, <1>3, <1>4

(* A Duration that was cut off at the end of the word is worth the         *)
(* greatest count all the same, as long as the count is narrow.            *)
LEMMA CutOff ==
  ASSUME Narrow, NEW meant \in Nat, NEW rate \in Rates
  PROVE  ToTicks(LeastOf(meant, WordMax), rate) = LeastOf((meant * rate) \div Million, TickMax)
<1>1. /\ Million \in Nat \ {0} /\ rate \in Nat \ {0}
      /\ WordMax \in Nat /\ TickMax \in Nat
  BY RateFacts, Widths
<1>2. CASE meant <= WordMax
  <2>1. meant \in Words BY <1>2, Widths DEF Words
  <2> QED BY <1>2, <2>1, ToTicksExact DEF LeastOf
<1>3. CASE ~(meant <= WordMax)
  <2>1. LeastOf(meant, WordMax) = WordMax /\ WordMax \in Words
    BY <1>3, Widths DEF LeastOf, Words
  <2>2. meant * rate \in Nat /\ WordMax * rate \in Nat
        /\ meant * rate >= WordMax * rate /\ WordMax * rate >= WordMax
    BY <1>1, <1>3, SMTT(30)
  <2>3. TickMax * Million = Million * TickMax /\ Million * TickMax \in Nat
    BY <1>1, SMTT(30)
  <2>4. WordMax * rate >= TickMax * Million /\ meant * rate >= TickMax * Million
    BY <1>1, <2>2, <2>3 DEF Narrow
  <2>5. (WordMax * rate) \div Million >= TickMax /\ (WordMax * rate) \div Million \in Nat
    BY <1>1, <2>2, <2>4, DivAtLeast, DivParts
  <2>6. (meant * rate) \div Million >= TickMax /\ (meant * rate) \div Million \in Nat
    BY <1>1, <2>2, <2>4, DivAtLeast, DivParts
  <2>7. LeastOf((WordMax * rate) \div Million, TickMax) = TickMax
    BY <1>1, <2>5 DEF LeastOf
  <2>8. LeastOf((meant * rate) \div Million, TickMax) = TickMax
    BY <1>1, <2>6 DEF LeastOf
  <2> QED BY <2>1, <2>7, <2>8, ToTicksExact
<1> QED BY <1>2, <1>3

(* pdMS_TO_TICKS is the product, floored: where ms * rate overflows, it is *)
(* worth the greatest count if that is narrow.                             *)
LEMMA MsExact ==
  ASSUME Narrow, NEW ms \in Words, NEW rate \in Rates
  PROVE  MsToTicks(ms, rate) = LeastOf((ms * Thousand * rate) \div Million, TickMax)
<1>1. /\ Thousand \in Nat \ {0} /\ Million \in Nat \ {0} /\ rate \in Nat \ {0}
      /\ WordMax \in Nat /\ TickMax \in Nat /\ ms \in Nat
  BY RateFacts, Widths DEF Words
<1> DEFINE p == ms * rate
<1>2. p \in Nat /\ ms * Thousand * rate = p * Thousand
  BY <1>1, SMTT(30)
<1>3. MsToTicks(ms, rate) =
        LeastOf(IF p <= WordMax THEN p \div Thousand ELSE TickMax, TickMax)
  BY DEF MsToTicks, Fits
<1> HIDE DEF p
<1>4. (p * Thousand) \div Million = p \div Thousand
  BY <1>1, <1>2, DivCancel DEF Million
<1>5. p \div Thousand \in Nat BY <1>1, <1>2, DivParts
<1>6. CASE p <= WordMax BY <1>2, <1>3, <1>4, <1>6
<1>7. CASE ~(p <= WordMax)
  <2>1. Million * TickMax \in Nat /\ TickMax * Thousand \in Nat
        /\ TickMax * Thousand <= Million * TickMax
    <3>1. Thousand <= Thousand * Thousand BY <1>1, SMTT(30)
    <3>2. TickMax * Thousand <= TickMax * Million BY <1>1, <3>1, SMTT(30) DEF Million
    <3> QED BY <1>1, <3>2, SMTT(30)
  <2>2. p >= TickMax * Thousand BY <1>1, <1>2, <1>7, <2>1 DEF Narrow
  <2>3. p \div Thousand >= TickMax BY <1>1, <1>2, <2>2, DivAtLeast
  <2> QED BY <1>1, <1>2, <1>3, <1>4, <1>5, <1>7, <2>3 DEF LeastOf
<1> QED BY <1>6, <1>7

(* What the conversions return is a count.                                 *)
LEMMA ToTicksIsCount ==
  ASSUME NEW us \in Words, NEW rate \in Rates
  PROVE  ToTicks(us, rate) \in Counts
<1>1. us \in Nat /\ rate \in Nat \ {0} /\ Million \in Nat \ {0}
  BY RateFacts, Widths DEF Words
<1>2. us * rate \in Nat BY <1>1, SMTT(30)
<1>3. (us * rate) \div Million \in Nat BY <1>1, <1>2, DivParts
<1> QED BY <1>3, ToTicksExact, Widths DEF LeastOf, Counts

(* Each way to ask keeps the span at what is meant, cut off at the word.   *)
LEMMA AskStep ==
  ASSUME TimeInv, NEW n \in Inputs,
         AskSecs(n) \/ AskMillis(n) \/ AskMicros(n)
  PROVE  TimeInv'
<1>1. /\ n \in Words /\ n \in Nat /\ n <= WordMax
      /\ Million \in Nat \ {0} /\ Thousand \in Nat \ {0} /\ WordMax \in Nat
  BY ConfigsFit, RateFacts, Widths DEF Words
<1>2. n * Million \in Nat /\ n * Thousand \in Nat
  BY <1>1, SMTT(30)
<1>3. PICK meant \in Nat : Ask(meant, LeastOf(meant, WordMax))
  <2>1. LeastOf(n, WordMax) = n BY <1>1 DEF LeastOf
  <2> QED BY <1>1, <1>2, <2>1
          DEF AskSecs, AskMillis, AskMicros, Secs, Millis, SaturatingMul
<1> QED BY <1>3 DEF Ask, TimeInv

(* Every step keeps the invariant.                                         *)
LEMMA TimeStep == TimeInv /\ [TimeNext]_timeVars => TimeInv'
<1> SUFFICES ASSUME TimeInv, [TimeNext]_timeVars PROVE TimeInv'
  OBVIOUS
<1>1. ASSUME NEW n \in Inputs, AskSecs(n) \/ AskMillis(n) \/ AskMicros(n) PROVE TimeInv'
  BY <1>1, AskStep
<1>2. ASSUME NEW ms \in Inputs, CallMs(ms) PROVE TimeInv'
  <2>1. ms \in Words /\ ms \in Nat /\ Thousand \in Nat
    BY ConfigsFit, RateFacts, Widths DEF Words
  <2>2. ms * Thousand \in Nat BY <2>1, SMTT(30)
  <2>3. hz \in Rates BY DEF TimeInv
  <2>4. Narrow => MsToTicks(ms, hz) = LeastOf((ms * Thousand * hz) \div Million, TickMax)
    BY <2>1, <2>3, MsExact
  <2> QED BY <1>2, <2>2, <2>3, <2>4 DEF CallMs, TimeInv, Floored
<1>3. CASE Convert
  BY <1>3 DEF Convert, TimeInv
<1>4. CASE Block
  <2>1. hz \in Rates /\ asked \in Nat /\ span = LeastOf(asked, WordMax)
        /\ timeout = FromTicks(ToTicks(span, hz))
    BY <1>4 DEF Block, TimeInv, After
  <2>2. span \in Words BY <2>1, Widths DEF LeastOf, Words
  <2>3. ToTicks(span, hz) \in Counts BY <2>1, <2>2, ToTicksIsCount
  <2>4. ticks' = ToTicks(span, hz)
    BY <1>4, <2>1, <2>3, TimeoutRoundTrip DEF Block
  <2>5. Narrow => ToTicks(span, hz) = Floored
    BY <2>1, CutOff DEF Floored
  <2> QED BY <1>4, <2>1, <2>4, <2>5 DEF Block, TimeInv, Floored
<1>5. CASE Return
  BY <1>5 DEF Return, TimeInv
<1>6. CASE UNCHANGED timeVars
  BY <1>6 DEF timeVars, TimeInv, After, Floored
<1> QED BY <1>1, <1>2, <1>3, <1>4, <1>5, <1>6 DEF TimeNext

(* The invariant holds of every behaviour.                                 *)
LEMMA TimeInductive == TimeSpec => []TimeInv
<1>1. TimeInit => TimeInv
  BY DEF TimeInit, TimeInv
<1> QED BY <1>1, TimeStep, PTL DEF TimeSpec

(* What the invariant says of a wait about to begin, if the count is       *)
(* narrow.                                                                 *)
LEMMA WaitExactInv ==
  ASSUME Narrow
  PROVE  TimeInv => WaitExact
<1>1. ASSUME TimeInv, stage \in {"blocked", "called"}
      PROVE  /\ ticks = Floored
             /\ Blocks(timeout) <=> asked * hz >= Million
             /\ timeout.kind = "Forever" <=> asked * hz >= TickMax * Million
  <2> DEFINE p == asked * hz
             d == p \div Million
  <2>1. /\ hz \in Nat \ {0} /\ asked \in Nat /\ Million \in Nat \ {0}
        /\ TickMax \in Nat \ {0} /\ ticks = LeastOf(d, TickMax) /\ timeout = FromTicks(ticks)
    BY <1>1, RateFacts, Widths DEF TimeInv, Floored
  <2>2. p \in Nat BY <2>1, SMTT(30)
  <2> HIDE DEF p
  <2>3. d \in Nat BY <2>1, <2>2, DivParts
  <2>4. d >= 1 <=> p >= 1 * Million BY <2>1, <2>2, DivAtLeast
  <2>5. d >= TickMax <=> p >= TickMax * Million BY <2>1, <2>2, DivAtLeast
  <2>6. 1 * Million = Million BY <2>1
  <2> HIDE DEF d
  <2>7. Blocks(timeout) <=> ticks # 0
    BY <2>1 DEF Blocks, FromTicks, Timeout
  <2>8. timeout.kind = "Forever" <=> ticks # 0 /\ ticks >= TickMax
    BY <2>1 DEF FromTicks, Timeout
  <2>9. ticks # 0 <=> d >= 1 BY <2>1, <2>3 DEF LeastOf
  <2>10. ticks >= TickMax <=> d >= TickMax BY <2>1, <2>3 DEF LeastOf
  <2>11. ticks = Floored BY <2>1 DEF Floored, d, p
  <2>12. timeout.kind = "Forever" <=> d >= TickMax
    BY <2>1, <2>3, <2>8, <2>9, <2>10
  <2> QED BY <2>4, <2>5, <2>6, <2>7, <2>9, <2>11, <2>12 DEF p
<1> QED BY <1>1 DEF WaitExact

(* However a wait is asked for, the call waits exactly the ticks it is     *)
(* long, for every rate and every count narrow enough that its greatest    *)
(* value in microseconds is a word (16 and 32 bits in a u64).              *)
THEOREM WaitsAreExact ==
  ASSUME Narrow
  PROVE  TimeSpec => []WaitExact
BY WaitExactInv, TimeInductive, PTL

(* What the invariant says of a Duration about to be converted.            *)
LEMMA LongerInv == TimeInv => LongerWaitsLonger
<1> SUFFICES ASSUME TimeInv, stage = "asked", NEW us \in Words
             PROVE  /\ us <= span => ToTicks(us, hz) <= ToTicks(span, hz)
                    /\ us >= span => ToTicks(us, hz) >= ToTicks(span, hz)
  BY DEF LongerWaitsLonger
<1>1. hz \in Rates /\ asked \in Nat /\ span = LeastOf(asked, WordMax)
  BY DEF TimeInv
<1>2. span \in Words BY <1>1, Widths DEF LeastOf, Words
<1>3. ToTicks(us, hz) \in Counts /\ ToTicks(span, hz) \in Counts
  BY <1>1, <1>2, ToTicksIsCount
<1>4. us \in Int /\ span \in Int BY <1>2 DEF Words
<1>5. us <= span => ToTicks(us, hz) <= ToTicks(span, hz)
  BY <1>1, <1>2, ToTicksMonotone
<1>6. span <= us => ToTicks(span, hz) <= ToTicks(us, hz)
  BY <1>1, <1>2, ToTicksMonotone
<1> QED BY <1>3, <1>4, <1>5, <1>6 DEF Counts

(* A longer Duration never waits fewer ticks, at any width.                *)
THEOREM LongerWaits == TimeSpec => []LongerWaitsLonger
BY LongerInv, TimeInductive, PTL

(* A count read back in milliseconds and converted again: no more than it  *)
(* was, and at most one tick less where a tick is no shorter than a        *)
(* millisecond.                                                            *)
LEMMA ThereAndBack ==
  ASSUME Narrow, NEW n \in Nat, n < TickMax, NEW rate \in Rates
  PROVE  LET ms == TicksToMs(n, rate)
         IN /\ ms \in Nat /\ ms * rate <= n * Thousand
            /\ MsToTicks(ms, rate) <= n
            /\ rate <= Thousand => MsToTicks(ms, rate) >= n - 1
<1> DEFINE p == n * Thousand
           ms == p \div rate
           r == p % rate
           b == ms * rate
<1>1. /\ Thousand \in Nat \ {0} /\ Million \in Nat \ {0} /\ rate \in Nat \ {0}
      /\ WordMax \in Nat /\ TickMax \in Nat
  BY RateFacts, Widths
<1>2. p \in Nat /\ p <= WordMax
  <2>1. Thousand <= Million BY <1>1, SMTT(30) DEF Million
  <2>2. n * Thousand <= n * Million BY <1>1, <2>1, SMTT(30)
  <2>3. n * Million <= TickMax * Million BY <1>1, SMTT(30)
  <2>4. TickMax * Million = Million * TickMax BY <1>1, SMTT(30)
  <2>5. n * Thousand \in Nat /\ n * Million \in Nat /\ Million * TickMax \in Nat
    BY <1>1, SMTT(30)
  <2> QED BY <1>1, <2>2, <2>3, <2>4, <2>5 DEF Narrow
<1>3. TicksToMs(n, rate) = ms
  BY <1>2 DEF TicksToMs, Fits
<1> HIDE DEF p
<1>4. ms \in Nat /\ r \in Nat /\ r < rate /\ p = b + r
  BY <1>1, <1>2, DivParts
<1> HIDE DEF ms, r
<1>5. b \in Nat BY <1>1, <1>4, SMTT(30)
<1> HIDE DEF b
<1>6. b <= p /\ b <= WordMax BY <1>1, <1>2, <1>4, <1>5
<1>7. MsToTicks(ms, rate) = LeastOf(b \div Thousand, TickMax)
  BY <1>6 DEF MsToTicks, Fits, b
<1>8. b \div Thousand \in Nat BY <1>1, <1>5, DivParts
<1>9. b \div Thousand <= n
  <2>1. (n * Thousand + 0) \div Thousand = n + (0 \div Thousand)
    BY <1>1, DivShift
  <2>2. 0 \div Thousand = 0 BY <1>1, DivUnique
  <2>3. p \div Thousand = n BY <1>1, <1>2, <2>1, <2>2 DEF p
  <2> QED BY <1>1, <1>2, <1>5, <1>6, <2>3, DivMonotone
<1>10. ASSUME rate <= Thousand PROVE b \div Thousand >= n - 1
  <2>1. CASE n = 0 BY <1>8, <2>1
  <2>2. CASE n # 0
    <3>1. n - 1 \in Nat /\ (n - 1) * Thousand = p - Thousand
      BY <1>1, <2>2, SMTT(30) DEF p
    <3>2. b >= (n - 1) * Thousand
      BY <1>1, <1>2, <1>4, <1>5, <1>10, <3>1
    <3> QED BY <1>1, <1>5, <3>1, <3>2, DivAtLeast
  <2> QED BY <2>1, <2>2
<1>11. MsToTicks(ms, rate) <= n /\ (rate <= Thousand => MsToTicks(ms, rate) >= n - 1)
  BY <1>1, <1>7, <1>8, <1>9, <1>10 DEF LeastOf
<1> QED BY <1>3, <1>4, <1>6, <1>11 DEF b, p

(* What the invariant says of a finite wait that is read back.             *)
LEMMA ReadBackInv ==
  ASSUME Narrow
  PROVE  TimeInv => ReadBack
<1> SUFFICES ASSUME TimeInv, stage \in {"blocked", "called"}, timeout.kind # "Forever"
             PROVE  LET ms == TicksToMs(ticks, hz)
                    IN /\ ms * Thousand <= asked
                       /\ MsToTicks(ms, hz) <= ticks
                       /\ hz <= Thousand => MsToTicks(ms, hz) >= ticks - 1
  BY DEF ReadBack
<1> DEFINE ms == TicksToMs(ticks, hz)
           q == asked * hz
           d == q \div Million
<1>1. /\ hz \in Rates /\ hz \in Nat \ {0} /\ asked \in Nat /\ TickMax \in Nat \ {0}
      /\ Thousand \in Nat \ {0} /\ Million \in Nat \ {0}
      /\ ticks = LeastOf(d, TickMax) /\ timeout = FromTicks(ticks)
  BY RateFacts, Widths DEF TimeInv, Floored
<1>2. q \in Nat BY <1>1, SMTT(30)
<1> HIDE DEF q
<1>3. d \in Nat BY <1>1, <1>2, DivParts
<1> HIDE DEF d
<1>4. ticks \in Nat /\ ticks < TickMax /\ ticks <= d
  <2>1. ticks \in Nat /\ ticks <= d BY <1>1, <1>3 DEF LeastOf
  <2>2. ticks = 0 \/ ~(ticks >= TickMax) BY <1>1 DEF FromTicks, Timeout
  <2> QED BY <1>1, <2>1, <2>2
<1>5. /\ ms \in Nat /\ ms * hz <= ticks * Thousand
      /\ MsToTicks(ms, hz) <= ticks
      /\ hz <= Thousand => MsToTicks(ms, hz) >= ticks - 1
  BY <1>1, <1>4, ThereAndBack
<1> HIDE DEF ms
<1>6. ticks * Million <= q
  <2>1. d * Million <= q /\ d * Million \in Nat
    <3>1. d * Million \in Nat BY <1>1, <1>3, SMTT(30)
    <3>2. q \div Million >= d => q >= d * Million BY <1>1, <1>2, <1>3, DivAtLeast
    <3> QED BY <1>2, <1>3, <3>1, <3>2 DEF d
  <2>2. ticks * Million <= d * Million /\ ticks * Million \in Nat
    BY <1>1, <1>3, <1>4, SMTT(30)
  <2> QED BY <1>2, <2>1, <2>2
<1>7. (ms * Thousand) * hz <= asked * hz
  <2>1. (ms * hz) * Thousand <= (ticks * Thousand) * Thousand
    <3>1. ms * hz \in Nat /\ ticks * Thousand \in Nat BY <1>1, <1>4, <1>5, SMTT(30)
    <3> QED BY <1>1, <1>5, <3>1, SMTT(30)
  <2>2. (ticks * Thousand) * Thousand = ticks * Million
    BY <1>1, <1>4, SMTT(30) DEF Million
  <2>3. (ms * hz) * Thousand = (ms * Thousand) * hz
    BY <1>1, <1>5, SMTT(30)
  <2>4. (ms * Thousand) * hz \in Nat BY <1>1, <1>5, SMTT(30)
  <2>5. ticks * Million \in Nat BY <1>1, <1>4, SMTT(30)
  <2>6. (ms * Thousand) * hz <= ticks * Million BY <2>1, <2>2, <2>3
  <2> QED BY <1>2, <1>6, <2>4, <2>5, <2>6 DEF q
<1>8. ms * Thousand <= asked
  <2>1. ms * Thousand \in Nat BY <1>1, <1>5, SMTT(30)
  <2>2. ASSUME NEW x \in Nat, x * hz <= asked * hz PROVE x <= asked
    BY <1>1, <2>2, SMTT(30)
  <2> QED BY <1>7, <2>1, <2>2
<1> QED BY <1>5, <1>8 DEF ms

(* A finite wait read back in milliseconds is never longer than what was   *)
(* asked, and costs at most a tick when it is asked for again.             *)
THEOREM WaitsReadBack ==
  ASSUME Narrow
  PROVE  TimeSpec => []ReadBack
BY ReadBackInv, TimeInductive, PTL

-----------------------------------------------------------------------------
(* The constants the checks read are numbers.                              *)
LEMMA KnobFacts ==
  ASSUME NEW c \in Configs
  PROVE  /\ c["MAX_PRIORITIES"] \in Nat /\ c["TIMER_TASK_PRIORITY"] \in Nat
         /\ c["MAX_TASKS"] \in Nat /\ c["INITIAL_TICK_COUNT"] \in Nat
         /\ c["NOTIFICATION_ARRAY_ENTRIES"] \in Nat /\ c["TIMER_QUEUE_LENGTH"] \in Nat
         /\ c["TICK_RATE_HZ"] \in Rates \cup {0}
<1>1. c \in [Knobs -> Nat]
  BY ConfigsTyped
<1>2. /\ "MAX_PRIORITIES" \in Knobs /\ "TIMER_TASK_PRIORITY" \in Knobs
      /\ "MAX_TASKS" \in Knobs /\ "INITIAL_TICK_COUNT" \in Knobs
      /\ "NOTIFICATION_ARRAY_ENTRIES" \in Knobs /\ "TIMER_QUEUE_LENGTH" \in Knobs
  BY DEF Knobs, TickConstants, TaskConstants, NotifyConstants, TimerConstants, Capacities
<1> QED BY <1>1, <1>2, ConfigsTyped

(* A pool built for some items and lists has a slot for each.              *)
LEMMA RoomForAll ==
  ASSUME NEW m \in Nat, m <= 65536
  PROVE  NextPowerOfTwo(m) \in Nat /\ NextPowerOfTwo(m) >= m
<1> DEFINE P(n) == n >= m /\ (n = 1 \/ n \div 2 < m)
<1>1. \E n \in PowersOfTwo : P(n)
  <2>1. \/ P(1) \/ P(2) \/ P(4) \/ P(8) \/ P(16) \/ P(32) \/ P(64) \/ P(128) \/ P(256)
        \/ P(512) \/ P(1024) \/ P(2048) \/ P(4096) \/ P(8192) \/ P(16384) \/ P(32768)
        \/ P(65536)
    OBVIOUS
  <2> HIDE DEF P
  <2> QED BY <2>1 DEF PowersOfTwo
<1>2. NextPowerOfTwo(m) = CHOOSE n \in PowersOfTwo : P(n)
  BY DEF NextPowerOfTwo
<1> HIDE DEF P
<1>3. NextPowerOfTwo(m) \in PowersOfTwo /\ P(NextPowerOfTwo(m))
  BY <1>1, <1>2
<1> QED BY <1>3 DEF P, PowersOfTwo

-----------------------------------------------------------------------------
(* The inductive invariant. Until the kernel has started nothing has been  *)
(* asked of it; from then on its configuration has passed both checks, its *)
(* timing is what TimeInv says and its priorities are below the number of  *)
(* them.                                                                   *)

NothingAsked ==
  asked = 0 /\ span = 0 /\ ticks = 0 /\ timeout = Timeout("None", 0)

BootInv ==
  /\ config \in Configs /\ hz = config["TICK_RATE_HZ"]
  /\ stage = "off" => Builds(config)
  /\ ~Started => NothingAsked /\ priorities = {}
  /\ Started =>
       /\ TimeInv
       /\ Builds(config) /\ Validates(config)
       /\ tick = New(config["INITIAL_TICK_COUNT"])
       /\ daemon = PriorityNew(config["TIMER_TASK_PRIORITY"], config["MAX_PRIORITIES"])
       /\ priorities \subseteq {p \in Nat : p < config["MAX_PRIORITIES"]}

(* A configuration that passes has a rate to time with.                    *)
LEMMA StartStep == BootInv /\ Start => BootInv'
<1> SUFFICES ASSUME BootInv, Start PROVE BootInv'
  OBVIOUS
<1>1. /\ UNCHANGED <<hz, asked, span, timeout, ticks, config, priorities>>
      /\ NothingAsked /\ priorities = {} /\ Builds(config)
  BY DEF Start, BootInv, Started
<1>2. CASE ~Validates(config)
  BY <1>1, <1>2 DEF Start, BootInv, Started, NothingAsked
<1>3. CASE Validates(config)
  <2>1. stage' = "idle" /\ tick' = New(config["INITIAL_TICK_COUNT"])
        /\ daemon' = PriorityNew(config["TIMER_TASK_PRIORITY"], config["MAX_PRIORITIES"])
    BY <1>3 DEF Start
  <2>2. hz \in Rates
    BY <1>3, KnobFacts DEF BootInv, Validates
  <2>3. TimeInv'
    BY <1>1, <2>1, <2>2 DEF TimeInv, NothingAsked
  <2> QED BY <1>1, <1>3, <2>1, <2>3 DEF BootInv, Started
<1> QED BY <1>2, <1>3

(* The calls that time waits leave the rest alone, and need a kernel that  *)
(* has started.                                                            *)
LEMMA RunningStep == BootInv /\ Running => BootInv'
<1> SUFFICES ASSUME BootInv, Running PROVE BootInv'
  OBVIOUS
<1>1. Started /\ Started' /\ hz' = hz
  BY DEF Running, TimeNext, AskSecs, AskMillis, AskMicros, Ask, CallMs, Convert, Block,
         Return, Started
<1>2. TimeInv'
  BY <1>1, TimeStep DEF Running, BootInv
<1> QED BY <1>1, <1>2 DEF Running, BootInv, Started

(* Every step keeps the invariant.                                         *)
LEMMA BootStep == BootInv /\ [BootNext]_bootVars => BootInv'
<1> SUFFICES ASSUME BootInv, [BootNext]_bootVars PROVE BootInv'
  OBVIOUS
<1>1. CASE Build
  BY <1>1 DEF Build, BootInv, Started, NothingAsked
<1>2. ASSUME NEW raw \in Raws, AskPriority(raw) PROVE BootInv'
  <2>1. UNCHANGED <<hz, asked, span, timeout, ticks, stage, config, tick, daemon>> /\ Started
    BY <1>2 DEF AskPriority, timeVars, Started
  <2>2. TimeInv'
    BY <2>1 DEF BootInv, TimeInv, After, Floored
  <2>3. PriorityNew(raw, config["MAX_PRIORITIES"]) \subseteq
          {p \in Nat : p < config["MAX_PRIORITIES"]}
    BY ConfigsTyped DEF PriorityNew
  <2> QED BY <1>2, <2>1, <2>2, <2>3 DEF AskPriority, BootInv, Started
<1>3. CASE UNCHANGED bootVars
  BY <1>3 DEF bootVars, timeVars, BootInv, TimeInv, After, Floored, Started, NothingAsked
<1> QED BY <1>1, <1>2, <1>3, StartStep, RunningStep DEF BootNext

LEMMA BootInductive == BootSpec => []BootInv
<1>1. BootInit => BootInv
  BY DEF BootInit, BootInv, Started, NothingAsked
<1> QED BY <1>1, BootStep, PTL DEF BootSpec

-----------------------------------------------------------------------------
(* Whatever configuration is given, a kernel that starts has a list for    *)
(* every priority it can come to hold, an item for every task, a rate, and *)
(* the count it was told to start at: what fits the lists and the arenas   *)
(* and what validate looks at leave nothing out between them.              *)
THEOREM StartedKernelsFit == BootSpec => []StartedFits
<1>1. BootInv => StartedFits
  <2> SUFFICES ASSUME BootInv, Started PROVE StartedFits
    BY DEF StartedFits
  <2> DEFINE most == config["MAX_PRIORITIES"]
             tasks == config["MAX_TASKS"]
             count == config["INITIAL_TICK_COUNT"]
  <2>1. /\ Builds(config) /\ Validates(config) /\ hz = config["TICK_RATE_HZ"]
        /\ tick = New(count) /\ priorities \subseteq {p \in Nat : p < most}
        /\ daemon = PriorityNew(config["TIMER_TASK_PRIORITY"], most)
    BY DEF BootInv
  <2>2. /\ most \in Nat /\ tasks \in Nat /\ count \in Nat /\ most >= 1 /\ tasks >= 2
        /\ config["TIMER_TASK_PRIORITY"] \in Nat /\ config["TIMER_TASK_PRIORITY"] < most
        /\ count <= TickMax /\ OtherLists \in Nat
    BY <2>1, KnobFacts, ConfigsTyped DEF BootInv, Validates, TimerFits
  <2>3. Highest(most) = {most - 1} /\ daemon = {config["TIMER_TASK_PRIORITY"]}
    BY <2>1, <2>2 DEF Highest, PriorityNew
  <2>4. /\ \A p \in priorities \cup daemon \cup {IDLE} : p <= most - 1
        /\ most - 1 < ListCount(config)
    BY <2>1, <2>2, <2>3 DEF IDLE, ListCount
  <2>5. Slots(config) - ListCount(config) >= tasks
    <3>1. ListCount(config) \in Nat /\ tasks + ListCount(config) <= 65536
      BY <2>1, <2>2 DEF ListCount, Builds
    <3>2. /\ Slots(config) = NextPowerOfTwo(tasks + ListCount(config))
          /\ Slots(config) \in Nat /\ Slots(config) >= tasks + ListCount(config)
      BY <2>2, <3>1, RoomForAll DEF Slots, SlotsFor
    <3> QED BY <2>2, <3>1, <3>2
  <2>6. tick = count
    <3>1. count \in Int /\ TickMax + 1 \in Nat \ {0} /\ 0 <= count /\ count < TickMax + 1
      BY <2>2, Widths
    <3> HIDE DEF count
    <3>2. count % (TickMax + 1) = count
      BY <3>1, OneRound
    <3> QED BY <2>1, <3>2 DEF New
  <2>7. hz > 0 /\ config["NOTIFICATION_ARRAY_ENTRIES"] <= 4
        /\ config["TIMER_QUEUE_LENGTH"] <= 32
    BY <2>1, KnobFacts DEF BootInv, Validates
  <2> QED BY <2>2, <2>3, <2>4, <2>5, <2>6, <2>7 DEF StartedFits
<1> QED BY <1>1, BootInductive, PTL

(* A kernel that started waits exactly the ticks asked for, if its counts  *)
(* are narrow enough; what is proved of the conversions holds of it.       *)
THEOREM StartedWaitsAreExact ==
  ASSUME Narrow
  PROVE  BootSpec => []WaitExact
<1>1. BootInv => WaitExact
  <2>1. TimeInv => WaitExact
    BY WaitExactInv
  <2>2. ~Started => WaitExact
    BY DEF Started, WaitExact
  <2> QED BY <2>1, <2>2 DEF BootInv
<1> QED BY <1>1, BootInductive, PTL

(* And a longer Duration never waits fewer ticks there.                    *)
THEOREM StartedLongerWaits == BootSpec => []LongerWaitsLonger
<1>1. BootInv => LongerWaitsLonger
  <2>1. ~Started => LongerWaitsLonger
    BY DEF Started, LongerWaitsLonger
  <2> QED BY <2>1, LongerInv DEF BootInv
<1> QED BY <1>1, BootInductive, PTL

(* A finite wait that such a kernel reads back in milliseconds is no       *)
(* longer than what was asked, and costs at most a tick when asked again.  *)
THEOREM StartedReadsBack ==
  ASSUME Narrow
  PROVE  BootSpec => []ReadBack
<1>1. BootInv => ReadBack
  <2>1. TimeInv => ReadBack
    BY ReadBackInv
  <2>2. ~Started => ReadBack
    BY DEF Started, ReadBack
  <2> QED BY <2>1, <2>2 DEF BootInv
<1> QED BY <1>1, BootInductive, PTL

-----------------------------------------------------------------------------
(* The tick hook: its state is never overwritten by an old copy, for every *)
(* number of parts and every range of their counts.                        *)

(* One write leaves a state a state.                                       *)
LEMMA OneMoreTyped == \A state \in States, c \in Cells : OneMore(state, c) \in States
  BY CellsFit DEF States, OneMore

LEMMA InitOneCopy == Init => OneCopy
  BY CellsFit DEF Init, OneCopy, InTick, States

LEMMA StepOneCopy == OneCopy /\ [Next]_vars => OneCopy'
<1> SUFFICES ASSUME OneCopy, [Next]_vars PROVE OneCopy'
  OBVIOUS
<1>1. CASE TickEntry
  BY <1>1 DEF TickEntry, OneCopy, InTick
<1>2. CASE TickReturn
  <2>1. copies = <<done>> /\ Top = 1 /\ copies[Top] = done
    BY <1>2 DEF TickReturn, OneCopy, InTick, Top
  <2>2. copies' = <<>>
    BY <1>2, <2>1 DEF TickReturn
  <2> QED
    BY <1>2, <2>1, <2>2 DEF TickReturn, OneCopy, InTick
<1>3. CASE CallbackBegin
  BY <1>3 DEF CallbackBegin, OneCopy, InTick
<1>4. CASE CallbackEnd
  BY <1>4 DEF CallbackEnd, OneCopy, InTick
<1>5. CASE KernelCall
  BY <1>5 DEF KernelCall, LeavesCounted, OneCopy, InTick
<1>6. ASSUME NEW c \in Cells, TickWrites(c) PROVE OneCopy'
  <2>1. copies = <<done>> /\ Top = 1
    BY <1>6 DEF TickWrites, OneCopy, InTick, Top
  <2>2. copies' = <<OneMore(done, c)>>
    BY <1>6, <2>1 DEF TickWrites
  <2> QED
    BY <1>6, <2>1, <2>2, OneMoreTyped DEF TickWrites, OneCopy, InTick
<1>7. ASSUME NEW c \in Cells, CallbackWrites(c) PROVE OneCopy'
  BY <1>7, OneMoreTyped DEF CallbackWrites, OneCopy, InTick
<1>8. CASE UNCHANGED vars
  BY <1>8 DEF vars, OneCopy, InTick
<1> QED
  BY <1>1, <1>2, <1>3, <1>4, <1>5, <1>6, <1>7, <1>8 DEF Next

(* There is never a second copy of the tick hook (hooks.rs:94-99), and no  *)
(* write to its state is lost, by a tick or by a callback (124-125).       *)
THEOREM CopiesDontNest == Spec => []OneCopy
  BY InitOneCopy, StepOneCopy, PTL DEF Spec

(* While the copy is out the kernel's own state does not move.             *)
THEOREM OldStateStays == Spec => StoredBehindCopy
<1>1. ASSUME OneCopy, [Next]_vars, InTick
      PROVE  Top = 1 /\ (copies' # <<>> => hook' = hook)
  <2>1. copies = <<done>> /\ Top = 1 /\ ~open
    BY <1>1 DEF OneCopy, InTick, Top
  <2>2. CASE TickReturn
    <3>1. copies' = <<>>
      BY <2>1, <2>2 DEF TickReturn
    <3> QED
      BY <2>1, <3>1
  <2>3. CASE ~TickReturn
    BY <1>1, <2>1, <2>3 DEF Next, TickEntry, CallbackBegin, CallbackEnd, KernelCall,
                             TickWrites, CallbackWrites, InTick, vars
  <2> QED
    BY <2>2, <2>3
<1> QED
  BY <1>1, CopiesDontNest, PTL DEF Spec, StoredBehindCopy
=============================================================================
