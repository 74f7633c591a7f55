------------------------------- MODULE Schedule -------------------------------
(***************************************************************************)
(* What a schedule is made of (trace.rs:338-374): who delays itself and    *)
(* who becomes ready, in which order and at which count. The tasks that    *)
(* wait are a queue, the next to wake first; time passes, in steps of any  *)
(* length that pass nobody's wake time, and nobody hears it pass.          *)
(***************************************************************************)
EXTENDS Integers, Sequences

CONSTANTS Tasks, TickMax

S == INSTANCE SequencesExt

VARIABLES
  now,     \* the count
  queue,   \* those who wait: [task, left], left the ticks still to wait
  heard    \* the events of the last call that fired any, each with its count

vars == <<now, queue, heard>>

Event(kind, i) == [at |-> now, kind |-> kind, task |-> i]

Init == now \in 0 .. TickMax /\ queue = <<>> /\ heard = <<>>

NobodyDue == \A k \in DOMAIN queue : queue[k].left > 0

(* Behind all who wait as long or less.                                    *)
Delay(i, n) ==
  /\ NobodyDue /\ \A k \in DOMAIN queue : queue[k].task # i
  /\ LET later == S!SelectInSeq(queue, LAMBDA w : w.left > n)
         place == IF later = 0 THEN Len(queue) + 1 ELSE later
     IN queue' = S!InsertAt(queue, place, [task |-> i, left |-> n])
  /\ heard' = << Event("TaskDelay", i),
                 Event(IF now + n <= TickMax THEN "MovedTaskToDelayedList"
                       ELSE "MovedTaskToOverflowDelayedList", i) >>
  /\ UNCHANGED now

Leave(k) ==
  /\ queue' = S!RemoveAt(queue, k)
  /\ heard' = << Event("MovedTaskToReadyState", queue[k].task) >>
  /\ UNCHANGED now

Abort == NobodyDue /\ \E k \in DOMAIN queue : Leave(k)

Wake == queue # <<>> /\ Head(queue).left = 0 /\ Leave(1)

Elapse(n) ==
  /\ \A k \in DOMAIN queue : queue[k].left >= n
  /\ now' = (now + n) % (TickMax + 1)
  /\ queue' = [k \in DOMAIN queue |-> [queue[k] EXCEPT !.left = @ - n]]
  /\ UNCHANGED heard

Next ==
  \/ \E i \in Tasks, n \in 1 .. TickMax : Delay(i, n)
  \/ Abort \/ Wake
  \/ \E n \in 1 .. TickMax : Elapse(n)

Spec == Init /\ [][Next]_vars
=============================================================================
