------------------------------- MODULE Delays -------------------------------
(***************************************************************************)
(* Tasks that wait for a tick: the two delayed lists the tick arithmetic   *)
(* (tick.rs) and the ordered lists (list.rs) are made for. One holds the   *)
(* wake times up to the wrap of the count, the other those past it; at the *)
(* wrap they change roles. The kernel that keeps them is not in this       *)
(* repository; it is modelled from what tick.rs, list.rs and port.rs say   *)
(* each call is for. An idle kernel may have its port sleep through ticks  *)
(* and wind the count forward (port.rs:84-105).                            *)
(***************************************************************************)
EXTENDS Lists, Ticks

CONSTANT IdleFloor   \* EXPECTED_IDLE_TIME_BEFORE_SLEEP

(* Two lists at least; a wake time is a value; an idle worth sleeping lasts. *)
ASSUME DelaysFit == L >= 2 /\ TickMax <= MaxValue /\ IdleFloor \in Nat \ {0}

VARIABLES
  tick,      \* the count
  current,   \* the list of wake times before the next wrap
  phase,     \* "tasks" run, the tick is "waking" them, or a tick is "owed"
  left       \* left[i]: the ticks task i has still to wait; no such number
             \* is stored in the kernel

delayVars == <<vars, tick, current, phase, left>>

Past == 1 - current          \* the overflow list
Late == -1
Waiting == Members(0) \cup Members(1)

(* Tasks run, and no call is under way: a critical section is one call.    *)
Calm == phase = "tasks" /\ ~walk.on

DelaysInit ==
  /\ Init
  /\ tick \in Counts                       \* INITIAL_TICK_COUNT
  /\ current = 0
  /\ phase = "tasks"
  /\ left = [i \in Items |-> 0]

(* A task that runs puts itself to sleep for n ticks.                      *)
Delay(i, n) ==
  /\ Calm /\ container[i] = NO_LIST
  /\ InsertSorted(IF OverflowsBy(tick, n) THEN Past ELSE current, i, WrappingAdd(tick, n))
  /\ left' = [left EXCEPT ![i] = n]
  /\ UNCHANGED <<tick, current, phase>>

(* The search of an ordered insert goes on to its end.                     *)
Search == (WalkOn \/ WalkStop) /\ UNCHANGED <<tick, current, phase, left>>

(* What a task waits for comes, or its delay is aborted, before the time.  *)
Abort(i) ==
  /\ Calm /\ i \in Waiting
  /\ Remove(i)
  /\ left' = [left EXCEPT ![i] = 0]
  /\ UNCHANGED <<tick, current, phase>>

(* n ticks pass for those who wait; a wake that is late is Late, however   *)
(* late it is.                                                             *)
Elapse(n) ==
  left' = [i \in Items |-> IF i \notin Waiting THEN left[i]
                           ELSE IF left[i] - n < Late THEN Late ELSE left[i] - n]

Tick ==
  /\ phase \in {"tasks", "owed"} /\ ~walk.on
  /\ tick' = WrappingAdd(tick, 1)
  /\ current' = IF tick' = 0 THEN Past ELSE current
  /\ Elapse(1)
  /\ phase' = "waking"
  /\ UNCHANGED vars

(* Slip: the tick after the wake time is waited for.                       *)
DueStrictly == Head(current) # Nothing /\ HeadValue(current) < tick

(* head_value alone does not tell an empty list from a wake time of MAX.   *)
Due == Head(current) # Nothing /\ HeadValue(current) <= tick

Wake ==
  /\ phase = "waking" /\ Due
  /\ Remove(Head(current).answer)
  /\ UNCHANGED <<tick, current, phase, left>>

Settle ==
  /\ phase = "waking" /\ ~Due
  /\ phase' = "tasks"
  /\ UNCHANGED <<vars, tick, current, left>>

(* The ticks until the next wake time, or until the count's last.          *)
ExpectedIdle ==
  (IF HeadValue(current) < TickMax THEN HeadValue(current) ELSE TickMax) - tick

(* Slip: the port's answer is trusted.                                     *)
WoundTrusting(slept) == slept

(* A port that claims more than it was asked for is clamped.               *)
Wound(slept) == IF slept < ExpectedIdle THEN slept ELSE ExpectedIdle

(* The port sleeps, and the count is wound forward; a sleep that reaches   *)
(* the wake time leaves its last tick to be taken as a tick.               *)
Sleep(slept) ==
  /\ Calm /\ ExpectedIdle >= IdleFloor
  /\ LET n == IF Wound(slept) = ExpectedIdle THEN Wound(slept) - 1 ELSE Wound(slept)
     IN /\ tick' = WrappingAdd(tick, n)
        /\ Elapse(n)
        /\ phase' = IF Wound(slept) = ExpectedIdle THEN "owed" ELSE "tasks"
  /\ UNCHANGED <<vars, current>>

DelaysNext ==
  \/ \E i \in Items, n \in 1 .. TickMax : Delay(i, n)
  \/ \E i \in Items : Abort(i)
  \/ \E slept \in 0 .. TickMax + 1 : Sleep(slept)
  \/ Search \/ Tick \/ Wake \/ Settle

DelaysSafe == DelaysInit /\ [][DelaysNext]_delayVars

(* What the tick interrupt and a critical section have begun they finish;  *)
(* and the interrupt comes again and again: raised while it is masked, it  *)
(* stays pending and is taken between two critical sections (SF).          *)
TicksGoOn ==
  WF_delayVars(Search) /\ SF_delayVars(Tick) /\ WF_delayVars(Wake \/ Settle)

-----------------------------------------------------------------------------
(* The stored wake times, which wrap, say what is left of every wait,      *)
(* which does not: on the current list after the count, on the other past  *)
(* the wrap; and both lists are in order.                                  *)
WakeTimesAgree ==
  /\ \A i \in Members(current) : value[i] = tick + left[i]
  /\ \A i \in Members(Past) : value[i] + TickMax + 1 = tick + left[i]
  /\ InOrder(0) /\ InOrder(1)

(* What `since` says lies between the count and a wake time is what is     *)
(* left, across the wrap too, and going back from the wake time by it      *)
(* comes to the count.                                                     *)
SinceAgrees ==
  \A i \in Waiting :
    /\ Since(value[i], tick) = left[i]
    /\ WrappingSub(value[i], left[i]) = tick
    /\ i \in Members(current) <=> CheckedAdd(tick, left[i]) = {value[i]}

(* Nobody is woken early (docs/threat-model.md:35, "a timeout that fires   *)
(* early after a wrap"), whichever list the time went to.                  *)
NeverEarly == [][Wake => left[Head(current).answer] = 0]_delayVars

(* Nobody is woken late: while tasks run, all who wait have ticks to wait. *)
NeverLate == phase # "waking" => \A i \in Waiting : left[i] > 0

(* When the lists change roles, the one whose round is over is empty.      *)
SwapFindsEmpty == [][current' # current => Members(current) = {}]_delayVars
=============================================================================
