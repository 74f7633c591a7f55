------------------------------ MODULE Timeouts ------------------------------
(***************************************************************************)
(* What becomes of the wait a caller asks for (time.rs, config.rs): a      *)
(* Duration in microseconds, or milliseconds as the C macro takes them;    *)
(* ticks at the configured rate; a Timeout, one count of which means for   *)
(* ever; and the count a blocking call waits. All in u64, which multiplies *)
(* with care or saturates.                                                 *)
(***************************************************************************)
EXTENDS Ticks

CONSTANTS
  Thousand,   \* milliseconds in a second, microseconds in a millisecond
  Rates,      \* the values of TICK_RATE_HZ
  Inputs      \* the numbers the callers pass

Million == Thousand * Thousand

ASSUME ConfigsFit ==
  /\ Thousand \in Nat \ {0}
  /\ \A hz \in Rates : hz \in Nat \ {0} /\ Million * hz <= WordMax
  /\ Inputs \subseteq Words

LeastOf(a, b) == IF a <= b THEN a ELSE b

SaturatingMul(a, b) == LeastOf(a * b, WordMax)
SaturatingAdd(a, b) == LeastOf(a + b, WordMax)
Fits(n) == n <= WordMax         \* checked_mul is Some

Millis(ms) == SaturatingMul(ms, Thousand)
Secs(s) == SaturatingMul(s, Million)

(* Slip: the seconds are multiplied without a check.                       *)
ToTicksWrapping(us, hz) ==
  LET fromSecs == ((us \div Million) * hz) % (WordMax + 1)
      fromRem == ((us % Million) * hz) \div Million
  IN LeastOf(SaturatingAdd(fromSecs, fromRem), TickMax)

(* Duration::to_ticks                                                      *)
ToTicks(us, hz) ==
  LET fromSecs == (us \div Million) * hz
      fromRem == (us % Million) * hz
  IN IF Fits(fromSecs) /\ Fits(fromRem)
     THEN LeastOf(SaturatingAdd(fromSecs, fromRem \div Million), TickMax)
     ELSE TickMax

MsToTicks(ms, hz) ==
  LeastOf(IF Fits(ms * hz) THEN (ms * hz) \div Thousand ELSE TickMax, TickMax)

(* Slip: rounded up.                                                       *)
TicksToMsUp(ticks, hz) == (ticks * Thousand + hz) \div hz

TicksToMs(ticks, hz) ==
  IF Fits(ticks * Thousand) THEN (ticks * Thousand) \div hz ELSE WordMax

Timeout(kind, n) == [kind |-> kind, ticks |-> n]

(* Slip: only counts above the greatest mean for ever.                     *)
FromTicksAbove(n) ==
  IF n = 0 THEN Timeout("None", 0)
  ELSE IF n > TickMax THEN Timeout("Forever", 0) ELSE Timeout("Ticks", n)

(* Timeout::from_ticks                                                     *)
FromTicks(n) ==
  IF n = 0 THEN Timeout("None", 0)
  ELSE IF n >= TickMax THEN Timeout("Forever", 0) ELSE Timeout("Ticks", n)

(* Timeout::to_ticks                                                       *)
TimeoutTicks(t) ==
  CASE t.kind = "None" -> 0
    [] t.kind = "Ticks" -> LeastOf(t.ticks, TickMax)
    [] t.kind = "Forever" -> TickMax

After(us, hz) == FromTicks(ToTicks(us, hz))
Blocks(t) == t.kind # "None"

-----------------------------------------------------------------------------
VARIABLES
  hz,        \* TICK_RATE_HZ of the configuration
  asked,     \* the microseconds the caller means; no number in the code
  span,      \* Duration::micros
  timeout,
  ticks,     \* what the blocking call waits
  stage

timeVars == <<hz, asked, span, timeout, ticks, stage>>

TimeInit ==
  /\ hz \in Rates
  /\ asked = 0 /\ span = 0 /\ ticks = 0
  /\ timeout = Timeout("None", 0)
  /\ stage = "idle"

Ask(meant, micros) ==
  /\ stage = "idle"
  /\ asked' = meant /\ span' = micros
  /\ stage' = "asked"
  /\ UNCHANGED <<hz, timeout, ticks>>

AskSecs(s) == Ask(s * Million, Secs(s))
AskMillis(ms) == Ask(ms * Thousand, Millis(ms))
AskMicros(us) == Ask(us, us)

Convert ==
  /\ stage = "asked"
  /\ timeout' = After(span, hz)
  /\ stage' = "converted"
  /\ UNCHANGED <<hz, asked, span, ticks>>

Block ==
  /\ stage = "converted"
  /\ ticks' = TimeoutTicks(timeout)
  /\ stage' = "blocked"
  /\ UNCHANGED <<hz, asked, span, timeout>>

(* The C way: pdMS_TO_TICKS and a count, which the call reads as a Timeout. *)
CallMs(ms) ==
  /\ stage = "idle"
  /\ asked' = ms * Thousand
  /\ ticks' = MsToTicks(ms, hz)
  /\ timeout' = FromTicks(ticks')
  /\ stage' = "called"
  /\ UNCHANGED <<hz, span>>

Return ==
  /\ stage \in {"blocked", "called"}
  /\ stage' = "idle" /\ asked' = 0 /\ span' = 0 /\ ticks' = 0
  /\ timeout' = Timeout("None", 0)
  /\ UNCHANGED hz

TimeNext ==
  \/ \E n \in Inputs : AskSecs(n) \/ AskMillis(n) \/ AskMicros(n) \/ CallMs(n)
  \/ Convert \/ Block \/ Return

TimeSpec == TimeInit /\ [][TimeNext]_timeVars

-----------------------------------------------------------------------------
(* What was asked, in ticks, exactly: floored, at most the greatest count. *)
Floored == LeastOf((asked * hz) \div Million, TickMax)

(* However a wait is asked for, the call waits the ticks it is long, no    *)
(* product or sum on the way having been cut off; it does not block only   *)
(* if that is no tick, and it is for ever only if it is the greatest count *)
(* or more (docs/threat-model.md:35, "a delay that overflows into never"). *)
WaitExact ==
  stage \in {"blocked", "called"} =>
    /\ ticks = Floored
    /\ Blocks(timeout) <=> asked * hz >= Million
    /\ timeout.kind = "Forever" <=> asked * hz >= TickMax * Million

(* A longer Duration never waits fewer ticks, a shorter one never more.    *)
LongerWaitsLonger ==
  stage = "asked" =>
    \A us \in Words :
      /\ us <= span => ToTicks(us, hz) <= ToTicks(span, hz)
      /\ us >= span => ToTicks(us, hz) >= ToTicks(span, hz)

(* A finite wait read back in milliseconds is no longer than what was      *)
(* asked, and asked for again it loses at most a tick where a tick is no   *)
(* shorter than a millisecond.                                             *)
ReadBack ==
  LET ms == TicksToMs(ticks, hz)
  IN stage \in {"blocked", "called"} /\ timeout.kind # "Forever" =>
       /\ ms * Thousand <= asked
       /\ MsToTicks(ms, hz) <= ticks
       /\ hz <= Thousand => MsToTicks(ms, hz) >= ticks - 1

(* "floored, saturating at the tick width's maximum" (config.rs:193-194).  *)
MsFloored == stage = "called" => ticks = Floored
=============================================================================
