------------------------------ MODULE ReadyList ------------------------------
(***************************************************************************)
(* One ready list under the scheduler that uses it. The scheduler is not   *)
(* in this repository; it is modelled from what list.rs says each call is  *)
(* for: a task that becomes ready is inserted at the end, one that blocks  *)
(* is removed, the round robin picks who runs next, and a multicore        *)
(* scheduler moves the running task to the end on a switch. These happen   *)
(* in any order; that a next task is picked again and again is the tick.   *)
(***************************************************************************)
EXTENDS Lists

VARIABLES
  running,   \* the item picked last, or Nobody
  waited     \* waited[i]: turns given to others since i entered or had a
             \* turn, counted up to Patience

readyVars == <<vars, running, waited>>

Ready == 0             \* the one list
Nobody == CAPACITY     \* no item
Patience == 2 * CAPACITY

ReadyInit ==
  /\ Init
  /\ running = Nobody
  /\ waited = [i \in Items |-> 0]

(* A task that waits for nothing any more enters the ready list.           *)
Wake(i) ==
  /\ container[i] = NO_LIST
  /\ InsertEnd(Ready, i)
  /\ UNCHANGED <<running, waited>>

(* A ready task, running or not, blocks, is suspended or is deleted.       *)
Block(i) ==
  /\ container[i] = Ready
  /\ Remove(i)
  /\ waited' = [waited EXCEPT ![i] = 0]
  /\ UNCHANGED running

(* The next task is picked.                                                *)
Select ==
  /\ len[Ready] # 0
  /\ NextRoundRobin(Ready)
  /\ running' = ret'.answer
  /\ waited' = [i \in Items |->
                 IF i \notin Members(Ready) \ {ret'.answer} THEN 0
                 ELSE IF waited[i] < Patience THEN waited[i] + 1 ELSE Patience]

(* The running task, if it is still ready, goes to the end of the list.    *)
Rotate ==
  /\ running \in Members(Ready)
  /\ MoveToEnd(Ready, running)
  /\ UNCHANGED <<running, waited>>

ReadyNext == (\E i \in Items : Wake(i) \/ Block(i)) \/ Select \/ Rotate

ReadySpec == ReadyInit /\ [][ReadyNext]_readyVars /\ WF_readyVars(Select)

-----------------------------------------------------------------------------
(* A ready task is passed over by at most two turns of every other task,   *)
(* whoever wakes, blocks or is moved meanwhile: insert_end and move_to_end *)
(* put a task in front of the cursor, the furthest place from the turn,    *)
(* and remove lets the cursor step back and give the same turn again.      *)
BoundedBypass == \A i \in Items : waited[i] <= 2 * (CAPACITY - 1)

(* A task that stays ready runs again and again.                           *)
NoStarvation == \A i \in Items : <>[](i \in Members(Ready)) => []<>(running = i)
=============================================================================
