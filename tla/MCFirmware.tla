----------------------------- MODULE MCFirmware -----------------------------
(***************************************************************************)
(* The firmware cells, one of which a board runs: the three programs on    *)
(* small heaps and tables, and what they print held against what happened. *)
(***************************************************************************)
EXTENDS AllocRounds

CONSTANTS
  RegionRounds, RegionBlock,                      \* ROUNDS and BLOCK of RegionCheck
  RegionSize, BoxSize, Growth,
  COUNT_OPS, SIZES, HISTORY_DEPENDENT, ROUTING,   \* those of CycleCell, which has
  COUNTED, DirectMax, Sweep, W,                   \* OPS, ROUNDS and WARMUP of AllocRounds
  Harness, Costs, Noise

(* An allocator that takes the lowest gap, and loses nothing, has room for *)
(* every block the region gate asks for, while the Vec it copies is still  *)
(* there.                                                                  *)
ASSUME RegionFits ==
  /\ {RegionRounds, RegionBlock, BoxSize} \subseteq Nat \ {0}
  /\ RegionSize \in Nat /\ Growth \in Seq(Nat \ {0}) /\ Growth # <<>>
  /\ RegionBlock <= RegionSize /\ BoxSize <= RegionSize
  /\ \A k \in DOMAIN Growth :
       BoxSize + (IF k = 1 THEN Growth[k] ELSE Growth[k - 1] + 2 * Growth[k]) <= RegionSize

(* A round of one pair has the checksum 0; no round takes as long as the   *)
(* counter takes to come round.                                            *)
ASSUME CyclesFit ==
  /\ OPS > 1 /\ {W, Sweep} \subseteq Nat \ {0} /\ {Harness, COUNT_OPS} \subseteq Nat
  /\ {SIZES, ROUTING, COUNTED} \subseteq Seq(Nat)
  /\ Costs \subseteq Nat /\ Noise \subseteq Nat /\ 0 \in Noise
  /\ \A c \in Costs \cup {0}, n \in Noise : OPS * (Harness + c) + n < W

(* Rows and tables for TLC; of AllocRounds, with holes enough for the      *)
(* limit on held blocks to bite.                                           *)
RowSizes == <<1, 3>>
RowHoles == <<0, 1, 4>>
RowPools == <<2, 5>>
RowSplits == <<1, 2>>
VecGrowth == <<1, 2, 4>>
CellSizes == <<1, 2>>
CellRouting == <<1>>

VARIABLES
  cell,                                                   \* the program on the board
  fault, live, lost, step, box, vec, grown,               \* those of RegionCheck
  block, first, inside, reused, misses, exit, seen,
  ccount, measure, cost, repeat, lo, checksum,            \* those of CycleCell
  floor, up, faults, expected, outcome, quiet, paid, regular

regionVars == <<fault, live, lost, step, box, vec, grown, block, first, inside, reused,
                misses, exit, seen>>
cycleVars == <<ccount, measure, cost, repeat, lo, checksum, floor, up, faults, expected,
               outcome, quiet, paid, regular>>
firmwareVars == <<cell, roundVars, regionVars, cycleVars>>

Region == INSTANCE RegionCheck WITH
            ROUNDS <- RegionRounds, BLOCK <- RegionBlock, turn <- block, failed <- misses

Cycles == INSTANCE CycleCell WITH
            job <- measure, turn <- repeat, sum <- checksum,
            failed <- faults, result <- outcome

(* The two programs not on the board stand at their first initial state.   *)
FirmwareInit ==
  /\ cell \in {"alloc-ab", "region", "alloc-cycles"}
  /\ RoundsInit /\ Region!RegionInit /\ Cycles!CellInit
  /\ cell # "region" => fault = "none"
  /\ cell # "alloc-cycles" => ccount = 0

FirmwareNext ==
  \/ cell = "alloc-ab" /\ RoundsNext /\ UNCHANGED <<cell, regionVars, cycleVars>>
  \/ cell = "region" /\ Region!RegionNext /\ UNCHANGED <<cell, roundVars, cycleVars>>
  \/ cell = "alloc-cycles" /\ Cycles!CellNext /\ UNCHANGED <<cell, roundVars, regionVars>>

FirmwareSpec == FirmwareInit /\ [][FirmwareNext]_firmwareVars

-----------------------------------------------------------------------------
(* What a measuring cell says at the end is what happened on the board:    *)
(* PASS of the comparison that every row was good, of the cycle cell that  *)
(* costs depend on the size.                                               *)
VerdictTrue == PassMeansRows /\ PoolServes /\ Cycles!PassMeansRegular

(* The region gate exits with success only for an allocator whose faults   *)
(* it cannot show (mps2-an385-qemu-region, main.rs), and with failure only *)
(* for one it has caught.                                                  *)
GateTrue == Region!SuccessMeansReclaimed
=============================================================================
