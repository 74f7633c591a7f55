------------------------------ MODULE TickHooks ------------------------------
(***************************************************************************)
(* The tick hook's state under the kernel that holds it (hooks.rs:52-151). *)
(* A tick copies the hook out, runs it and stores what comes back; a timer *)
(* callback, a pended function or a finished send runs on a task, in the   *)
(* middle of which a tick may come, and takes no copy. The kernel and the  *)
(* hook are in other repositories; they are what hooks.rs asks of both.    *)
(***************************************************************************)
EXTENDS Integers, Sequences

CONSTANTS
  Cells,   \* the parts of the hook's state
  Rounds   \* each counts modulo this

ASSUME CellsFit == Rounds \in Nat \ {0}

VARIABLES
  hook,      \* the state, as the kernel stores it
  copies,    \* the copies that ticks under way have taken, innermost last
  callback,  \* whether a callback is running on a task
  open,      \* whether the kernel has just left a counted critical section
             \* (or no code of the application runs), so that a tick may come
  done       \* every write so far; no such state is stored

vars == <<hook, copies, callback, open, done>>

States == [Cells -> 0 .. Rounds - 1]
InTick == copies # <<>>
Top == Len(copies)
OneMore(state, c) == [state EXCEPT ![c] = (@ + 1) % Rounds]

Init ==
  /\ hook = [c \in Cells |-> 0]
  /\ copies = <<>> /\ callback = FALSE /\ open = TRUE
  /\ done = hook

(* The tick interrupt calls the hook, with a copy.                         *)
TickEntry ==
  /\ open
  /\ copies' = Append(copies, hook)
  /\ open' = FALSE
  /\ UNCHANGED <<hook, callback, done>>

(* Slip: a from-ISR call leaves a critical section like any other call.    *)
LeavesAlways == callback \/ InTick

(* Whether a kernel call leaves a counted section: one made by a tick is   *)
(* a from-ISR call, which takes none.                                      *)
LeavesCounted == callback /\ ~InTick

(* Whoever runs, the tick or else the callback, calls the kernel.          *)
KernelCall ==
  /\ callback \/ InTick
  /\ open' = LeavesCounted
  /\ UNCHANGED <<hook, copies, callback, done>>

(* The tick writes its copy.                                               *)
TickWrites(c) ==
  /\ InTick
  /\ copies' = [copies EXCEPT ![Top] = OneMore(@, c)]
  /\ done' = OneMore(done, c)
  /\ open' = FALSE
  /\ UNCHANGED <<hook, callback>>

(* The callback writes through the kernel, in one read-modify-write.       *)
CallbackWrites(c) ==
  /\ callback /\ ~InTick
  /\ hook' = OneMore(hook, c)
  /\ done' = OneMore(done, c)
  /\ open' = FALSE
  /\ UNCHANGED <<copies, callback>>

(* What the hook returns is stored.                                        *)
TickReturn ==
  /\ InTick
  /\ hook' = copies[Top]
  /\ copies' = SubSeq(copies, 1, Top - 1)
  /\ open' = (~callback /\ Top = 1)
  /\ UNCHANGED <<callback, done>>

CallbackBegin ==
  /\ ~callback /\ ~InTick
  /\ callback' = TRUE /\ open' = FALSE
  /\ UNCHANGED <<hook, copies, done>>

CallbackEnd ==
  /\ callback /\ ~InTick
  /\ callback' = FALSE /\ open' = TRUE
  /\ UNCHANGED <<hook, copies, done>>

Next ==
  \/ TickEntry \/ TickReturn \/ CallbackBegin \/ CallbackEnd \/ KernelCall
  \/ \E c \in Cells : TickWrites(c) \/ CallbackWrites(c)

Spec == Init /\ [][Next]_vars

-----------------------------------------------------------------------------
(* At most one copy is out, it holds every write so far, and while it is   *)
(* out no tick can come; when none is out the kernel's state holds them,   *)
(* so that no write "would be lost the moment a copy taken beforehand was  *)
(* stored back over it" (hooks.rs:124-125).                                *)
OneCopy ==
  /\ hook \in States /\ done \in States
  /\ copies = <<>> \/ (copies = <<done>> /\ ~open)
  /\ ~InTick => hook = done

(* Only one copy is ever out, and the kernel's own state stays as it was   *)
(* before the call (hooks.rs:70-71) until the copy is stored back.         *)
StoredBehindCopy ==
  [][InTick => Top = 1 /\ (copies' # <<>> => hook' = hook)]_vars
=============================================================================
