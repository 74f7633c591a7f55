-------------------------------- MODULE Ticks --------------------------------
(***************************************************************************)
(* The arithmetic of the tick count (tick.rs): a count of 16, 32 or 64     *)
(* bits kept in a u64 and masked to its width. The mask W::MAX is one less *)
(* than a power of two, so `& W::MAX` is `% (TickMax + 1)`.                *)
(***************************************************************************)
EXTENDS Integers

CONSTANTS
  TickMax,   \* W::MAX, the largest count
  WordMax    \* u64::MAX, the largest number the arithmetic is done in

ASSUME WidthsFit ==
  /\ TickMax \in Nat \ {0} /\ WordMax \in Nat
  /\ \E k \in 1 .. WordMax + 1 : WordMax + 1 = k * (TickMax + 1)

Counts == 0 .. TickMax
Words == 0 .. WordMax

New(raw) == raw % (TickMax + 1)

WrappingAdd(t, n) == New((t + n) % (WordMax + 1))
WrappingSub(t, n) == New((t - n) % (WordMax + 1))

(* Slip: the difference is not masked to the width.                        *)
SinceUnmasked(t, earlier) == (t - earlier) % (WordMax + 1)

(* Ticks elapsed from `earlier` to t.                                      *)
Since(t, earlier) == ((t - earlier) % (WordMax + 1)) % (TickMax + 1)

(* Slip: a sum of exactly 0 is not taken for a wrap.                       *)
OverflowsPastZero(t, n) == (WrappingAdd(t, n) < t /\ WrappingAdd(t, n) # 0) \/ n > TickMax

(* checked_add is None.                                                    *)
OverflowsBy(t, n) == WrappingAdd(t, n) < t \/ n > TickMax

(* checked_add is Some.                                                    *)
CheckedAdd(t, n) == IF OverflowsBy(t, n) THEN {} ELSE {WrappingAdd(t, n)}
=============================================================================
