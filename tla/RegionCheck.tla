---------------------------- MODULE RegionCheck ----------------------------
(***************************************************************************)
(* The firmware that gates the fixed-region allocator                      *)
(* (mps2-an385-qemu-region; esp32s3-devkit-region makes the same checks):  *)
(* it gives the allocator its region, allocates, looks where the blocks    *)
(* lie, and outruns the region to see that freeing gives the bytes back.   *)
(* The allocator is outside, and may have a fault the checks are there for.*)
(***************************************************************************)
EXTENDS Integers, Sequences

CONSTANTS
  ROUNDS, BLOCK,   \* as in the code
  RegionSize,      \* bytes of the region, more than two of the blocks
  BoxSize,         \* bytes of the Box
  Growth           \* bytes of the Vec, each time it grows, in order

VARIABLES
  fault,                         \* what the allocator does wrong
  live, lost,                    \* its blocks in use, and those it never took back
  step,                          \* where main is
  box, vec, grown,               \* the Box, the Vec, and how often it grew
  turn, first, inside, reused,   \* the rounds
  failed, exit,                  \* the tally of failed checks, and the exit code
  seen                           \* history: what the allocator did, whoever looked

blocks == <<box, vec, grown>>
rounds == <<turn, first, inside, reused>>
regionVars == <<fault, live, lost, step, blocks, rounds, failed, exit, seen>>

NULL == -1
OUTSIDE == RegionSize            \* an address the region does not contain
region_contains(at) == at \in 0 .. RegionSize - 1

Faults == {"none", "outside", "wanders", "leaks", "corrupts", "twice", "refuses",
           "misjudges"}
Block(at, size) == [at |-> at, size |-> size]

-----------------------------------------------------------------------------
(* The allocator, external: the lowest gap that fits, unless at fault.     *)

Gaps(size) ==
  {a \in 0 .. RegionSize - size :
     \A b \in live \cup lost : a + size <= b.at \/ b.at + b.size <= a}

Places(size) ==
  {a \in Gaps(size) : fault = "wanders" \/ \A b \in Gaps(size) : a <= b}
    \cup (IF fault = "outside" THEN {OUTSIDE} ELSE {})

(* The bytes it says it can use of its region.                             *)
Usable == IF fault = "misjudges" THEN 0 .. RegionSize + 1 ELSE 1 .. RegionSize

(* Whether a block that is freed is given back, and what is in one.        *)
Loses == IF fault = "leaks" THEN BOOLEAN ELSE {FALSE}
Intact == IF fault = "corrupts" THEN BOOLEAN ELSE {TRUE}

LostWith(b, loses) == IF loses /\ b.at # OUTSIDE THEN lost \cup {b} ELSE lost

-----------------------------------------------------------------------------
(* One check (Tally::check): the failures decide the exit code.            *)
Check(tally, ok) == IF ok THEN tally ELSE tally + 1

Running(s) == step = s /\ exit = "none"

RegionInit ==
  /\ fault \in Faults
  /\ live = {} /\ lost = {} /\ step = "give"
  /\ box = NULL /\ vec = NULL /\ grown = 0
  /\ turn = 0 /\ first = 0 /\ inside = 0 /\ reused = 0
  /\ failed = 0 /\ exit = "none"
  /\ seen = [wrong |-> FALSE, twice |-> FALSE, outside |-> FALSE, corrupt |-> FALSE,
             lost |-> FALSE, moved |-> FALSE]

(* The region is given, and what can be used of it is not nothing, nor     *)
(* more than there is; or it is refused, which ends the run.               *)
Give ==
  /\ Running("give")
  /\ \/ /\ fault # "refuses"
        /\ \E usable \in Usable :
             /\ failed' = Check(Check(failed, usable > 0), usable <= RegionSize)
             /\ seen' = [seen EXCEPT !.wrong = @ \/ usable \notin 1 .. RegionSize]
        /\ step' = "again"
        /\ UNCHANGED exit
     \/ /\ fault = "refuses"
        /\ exit' = "failure"
        /\ UNCHANGED <<step, failed, seen>>
  /\ UNCHANGED <<fault, live, lost, blocks, rounds>>

(* A second give of the region is to be refused as registered.             *)
GiveAgain ==
  /\ Running("again")
  /\ failed' = Check(failed, fault # "twice")
  /\ seen' = [seen EXCEPT !.twice = (fault = "twice")]
  /\ step' = "box"
  /\ UNCHANGED <<fault, live, lost, blocks, rounds, exit>>

MakeBox ==
  /\ Running("box")
  /\ \E a \in Places(BoxSize), intact \in Intact :
       /\ box' = a
       /\ live' = live \cup {Block(a, BoxSize)}
       /\ failed' = Check(Check(failed, region_contains(a)), intact)
       /\ seen' = [seen EXCEPT !.outside = @ \/ ~region_contains(a), !.corrupt = @ \/ ~intact]
  /\ step' = "vec"
  /\ UNCHANGED <<fault, lost, vec, grown, rounds, exit>>

(* The Vec grows: a new block, the old one freed. Only the last one's      *)
(* address is looked at.                                                   *)
GrowVec ==
  /\ Running("vec") /\ grown < Len(Growth)
  /\ \E a \in Places(Growth[grown + 1]), loses \in Loses :
       LET old == {Block(vec, Growth[k]) : k \in {grown} \ {0}} IN
       /\ vec' = a
       /\ live' = (live \ old) \cup {Block(a, Growth[grown + 1])}
       /\ lost' = UNION ({lost} \cup {LostWith(b, loses) : b \in old})
  /\ grown' = grown + 1
  /\ UNCHANGED <<fault, step, box, rounds, failed, exit, seen>>

(* Its elements are summed, and both blocks dropped.                       *)
DropBoth ==
  /\ Running("vec") /\ grown = Len(Growth)
  /\ \E intact \in Intact, loses \in Loses :
       /\ failed' = Check(Check(failed, region_contains(vec)), intact)
       /\ seen' = [seen EXCEPT !.outside = @ \/ ~region_contains(vec), !.corrupt = @ \/ ~intact]
       /\ live' = {}
       /\ lost' = UNION {LostWith(b, loses) : b \in live}
  /\ step' = "rounds"
  /\ UNCHANGED <<fault, blocks, rounds, exit>>

(* Slip: the first round's block is taken for one that came again.         *)
ReusedAtOnce(a) == IF a = first THEN reused + 1 ELSE reused

Reused(a) == IF turn > 0 /\ a = first THEN reused + 1 ELSE reused

(* One round: a block is filled, its address and both its ends are looked  *)
(* at, and it is freed.                                                    *)
Round ==
  /\ Running("rounds") /\ turn < ROUNDS
  /\ \E a \in Places(BLOCK), intact \in Intact, loses \in Loses :
       /\ inside' = IF region_contains(a) THEN inside + 1 ELSE inside
       /\ first' = IF turn = 0 THEN a ELSE first
       /\ reused' = Reused(a)
       /\ failed' = Check(failed, intact)
       /\ lost' = LostWith(Block(a, BLOCK), loses)
       /\ seen' = [seen EXCEPT !.outside = @ \/ ~region_contains(a),
                               !.corrupt = @ \/ ~intact,
                               !.lost = @ \/ (loses /\ turn < ROUNDS - 1),
                               !.moved = @ \/ (turn > 0 /\ a # first)]
  /\ turn' = turn + 1
  /\ UNCHANGED <<fault, live, step, blocks, exit>>

ExitCode(failures) == IF failures = 0 THEN "success" ELSE "failure"

Verdict ==
  /\ Running("rounds") /\ turn = ROUNDS
  /\ failed' = Check(Check(failed, inside = ROUNDS), reused = ROUNDS - 1)
  /\ exit' = ExitCode(failed')
  /\ UNCHANGED <<fault, live, lost, step, blocks, rounds, seen>>

Asked ==
  CASE step = "box" -> BoxSize
    [] step = "vec" /\ grown < Len(Growth) -> Growth[grown + 1]
    [] step = "rounds" /\ turn < ROUNDS -> BLOCK
    [] OTHER -> 0

(* Out of memory, the program aborts; the panic handler exits with failure.*)
OutOfMemory ==
  /\ exit = "none" /\ Asked > 0 /\ Places(Asked) = {}
  /\ exit' = "abort"
  /\ UNCHANGED <<fault, live, lost, step, blocks, rounds, failed, seen>>

RegionNext == OutOfMemory \/ Give \/ GiveAgain \/ MakeBox \/ GrowVec \/ DropBoth \/ Round \/ Verdict

-----------------------------------------------------------------------------
(* The gate exits with success only if the region was given once, with a   *)
(* usable size that can be true (main.rs:122-123), every block it looked   *)
(* at lay in the region and kept what was written, and every round's block *)
(* was given back before the next ("reclamation, not luck", main.rs:200);  *)
(* and an allocator without a fault, or with one that shows nowhere the    *)
(* gate looks, is let through when the region is large enough for it.      *)
SuccessMeansReclaimed ==
  /\ exit = "success" => seen = [f \in DOMAIN seen |-> FALSE]
  /\ exit = "failure" => fault = "refuses" \/ \E f \in DOMAIN seen : seen[f]
  /\ exit = "abort" => lost # {} \/ fault = "wanders"
=============================================================================
