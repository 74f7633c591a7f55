------------------------------- MODULE Tickless -------------------------------
(***************************************************************************)
(* The trace of a kernel that may sleep through ticks, as it reaches a     *)
(* sink behind trace::Scheduling (trace.rs:338-422): the projection drops  *)
(* the events a sleep may change, and what is left is to be a schedule in  *)
(* which nobody can tell a sleep from the ticks it took.                   *)
(***************************************************************************)
EXTENDS Delays, MCLists

S == INSTANCE SequencesExt

VARIABLE heard   \* what reached the sink of the last call that sent it any

ticklessVars == <<delayVars, heard>>

Event(count, kind, i) == [at |-> count, kind |-> kind, task |-> i]
Nobody == CAPACITY

(* Slip: the end of a sleep is taken for a part of the schedule.           *)
IsSuppressibleNotEnd(e) == e.kind \in {"TaskIncrementTick", "LowPowerIdleBegin"}

(* The events a tickless sleep is allowed to change.                       *)
IsSuppressible(e) ==
  e.kind \in {"TaskIncrementTick", "LowPowerIdleBegin", "LowPowerIdleEnd"}

(* One event more comes to the projection.                                 *)
Pass(passed, e) == IF IsSuppressible(e) THEN passed ELSE S!Append(passed, e)

Fire(passed) == heard' = IF passed = <<>> THEN heard ELSE passed
FireOne(e) == Fire(Pass(<<>>, e))
FireTwo(e, f) == Fire(Pass(Pass(<<>>, e), f))

TicklessInit == DelaysInit /\ heard = <<>>

(* A delay, traced in the critical section that puts the task on its list. *)
TracedDelay ==
  /\ Search \/ \E i \in Items, n \in 1 .. TickMax : Delay(i, n)
  /\ LET entered == {i \in Items : container[i] = NO_LIST /\ container'[i] # NO_LIST}
     IN \/ entered = {} /\ UNCHANGED heard
        \/ \E i \in entered :
             FireTwo(Event(tick, "TaskDelay", i),
                     Event(tick, IF container'[i] = current THEN "MovedTaskToDelayedList"
                                 ELSE "MovedTaskToOverflowDelayedList", i))

TracedAbort ==
  \E i \in Items : Abort(i) /\ FireOne(Event(tick, "MovedTaskToReadyState", i))

TracedWake ==
  Wake /\ FireOne(Event(tick, "MovedTaskToReadyState", Head(current).answer))

TracedTick == Tick /\ FireOne(Event(tick, "TaskIncrementTick", Nobody))

TracedSleep ==
  \E slept \in 0 .. TickMax + 1 :
    /\ Sleep(slept)
    /\ FireTwo(Event(tick, "LowPowerIdleBegin", Nobody),
               Event(tick', "LowPowerIdleEnd", Nobody))

TicklessNext ==
  \/ TracedDelay \/ TracedAbort \/ TracedWake \/ TracedTick \/ TracedSleep
  \/ Settle /\ UNCHANGED heard

TicklessSpec == TicklessInit /\ [][TicklessNext]_ticklessVars /\ TicksGoOn

-----------------------------------------------------------------------------
(* Every delay ends, asleep or awake, whatever the other tasks do.         *)
DelayEnds == \A i \in Items : i \in Waiting ~> i \notin Waiting

(* Who waits at place k of list l; those on the current list come first.   *)
Waiter(l, k) == [task |-> OrderOf(l)[k], left |-> left[OrderOf(l)[k]]]

Waiters ==
  [k \in 1 .. len[current] + len[Past] |->
     IF k <= len[current] THEN Waiter(current, k) ELSE Waiter(Past, k - len[current])]

Plan == INSTANCE Schedule WITH
          Tasks <- Items, now <- tick, queue <- Waiters

(* What the sink hears is a schedule: whoever is woken, is woken in the    *)
(* order of the wake times, ties in the order of the delays, and with the  *)
(* count a kernel that never sleeps would have given, "a run that slept    *)
(* through its ticks and a run that did not project to the SAME thing"     *)
(* (trace.rs:486-487); across the wrap too.                                *)
ImplementsSchedule == Plan!Spec
=============================================================================
