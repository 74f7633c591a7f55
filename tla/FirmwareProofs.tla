--------------------------- MODULE FirmwareProofs ---------------------------
(***************************************************************************)
(* What the firmware cells print is what happened on the board, for every  *)
(* heap, table and number of rounds: the region gate first, the cycle cell *)
(* next, and the comparison of two allocators last. Each has an inductive  *)
(* invariant of its own, a conjunction of named parts; one program runs on *)
(* a board, so that the three together are inductive too.                  *)
(***************************************************************************)
EXTENDS MCFirmware, NumberFacts, FiniteSetTheorems

-----------------------------------------------------------------------------
(* The region gate (mps2-an385-qemu-region, esp32s3-devkit-region).        *)

Signs == [wrong : BOOLEAN, twice : BOOLEAN, outside : BOOLEAN, corrupt : BOOLEAN,
          lost : BOOLEAN, moved : BOOLEAN]
Shown == seen.wrong \/ seen.twice \/ seen.outside \/ seen.corrupt \/ seen.lost \/ seen.moved

RegionTypes ==
  /\ fault \in Region!Faults /\ seen \in Signs
  /\ step \in {"give", "again", "box", "vec", "rounds"}
  /\ exit \in {"none", "success", "failure", "abort"}
  /\ misses \in Nat /\ grown \in 0 .. Len(Growth)
  /\ block \in 0 .. RegionRounds /\ inside \in 0 .. block /\ reused \in Nat
  /\ box \in Int /\ vec \in Int /\ first \in Int

(* What was seen, the fault that shows so, and what the tally makes of it. *)
RegionTallies ==
  /\ seen.twice => fault = "twice"
  /\ seen.outside => fault = "outside"
  /\ lost # {} \/ seen.lost => fault = "leaks"
  /\ misses = 0 => ~seen.wrong /\ ~seen.twice /\ ~seen.corrupt
                   /\ (seen.outside => inside < block)
  /\ exit = "none" /\ ~seen.wrong /\ ~seen.twice /\ ~seen.corrupt /\ ~seen.outside =>
       misses = 0
  /\ ~seen.outside => inside = block
  /\ step # "rounds" => block = 0
  /\ block = 0 => reused = 0 /\ ~seen.moved /\ ~seen.lost
  /\ block > 0 => reused <= block - 1 /\ (reused = block - 1 <=> ~seen.moved)
  /\ seen.lost => seen.moved
                  \/ (block < RegionRounds /\ Region!Block(first, RegionBlock) \in lost)

(* Where the blocks of an allocator that finds the lowest gap lie.         *)
RegionBlocks ==
  /\ step # "vec" => live = {}
  /\ step = "vec" /\ grown > 0 => Region!region_contains(vec) \/ fault = "outside"
  /\ step \in {"give", "again", "box"} => grown = 0
  /\ step = "vec" /\ fault \notin {"wanders", "outside"} /\ lost = {} =>
       /\ grown > 0 => vec >= BoxSize
       /\ live = {Region!Block(0, BoxSize)}
                   \cup {Region!Block(vec, Growth[k]) : k \in {grown} \ {0}}

RegionVerdict ==
  /\ exit = "success" => ~Shown
  /\ exit = "failure" => fault = "refuses" \/ Shown
  /\ exit = "abort" => lost # {} \/ fault = "wanders"

RegionInv == RegionTypes /\ RegionTallies /\ RegionBlocks /\ RegionVerdict

(* What the code returned is what was seen.                                *)
LEMMA RegionMeans == RegionInv => Region!SuccessMeansReclaimed
<1> SUFFICES ASSUME RegionInv PROVE Region!SuccessMeansReclaimed
  OBVIOUS
<1>1. seen \in Signs /\ DOMAIN seen = {"wrong", "twice", "outside", "corrupt", "lost", "moved"}
  BY DEF RegionInv, RegionTypes, Signs
<1>2. Shown <=> \E f \in DOMAIN seen : seen[f]
  BY <1>1 DEF Shown
<1>3. ~Shown => seen = [f \in DOMAIN seen |-> FALSE]
  <2>1. seen = [f \in DOMAIN seen |-> seen[f]] /\ \A f \in DOMAIN seen : seen[f] \in BOOLEAN
    BY <1>1 DEF Signs
  <2> QED BY <1>2, <2>1, Zenon
<1> QED BY <1>2, <1>3 DEF RegionInv, RegionVerdict, Region!SuccessMeansReclaimed

(* A step of the gate that is not at fault finds the lowest gap, if there  *)
(* is any.                                                                 *)
LEMMA RegionFinds ==
  ASSUME NEW size \in Nat, NEW u \in Region!Gaps(size), size <= RegionSize
  PROVE  Region!Places(size) # {}
<1>1. Region!Gaps(size) \in SUBSET Nat
  BY RegionFits DEF Region!Gaps
<1>2. PICK a \in Region!Gaps(size) : \A b \in Region!Gaps(size) : a <= b
  BY <1>1, Least
<1> QED BY <1>2 DEF Region!Places

(* Where an allocator places a block.                                      *)
LEMMA RegionPlaced ==
  ASSUME NEW size \in Nat \ {0}, NEW a \in Region!Places(size)
  PROVE  /\ a \in Int
         /\ Region!region_contains(a) \/ fault = "outside"
         /\ a \in Region!Gaps(size) \/ fault = "outside"
         /\ fault \notin {"wanders", "outside"} => \A b \in Region!Gaps(size) : a <= b
<1>1. RegionSize \in Nat
  BY RegionFits
<1>2. Region!Gaps(size) \subseteq 0 .. RegionSize - 1
  BY <1>1 DEF Region!Gaps
<1> QED
  BY <1>1, <1>2 DEF Region!Places, Region!region_contains, Region!OUTSIDE

(* What two checks add to the tally.                                       *)
LEMMA RegionTwo ==
  ASSUME NEW n \in Nat, NEW a \in BOOLEAN, NEW b \in BOOLEAN
  PROVE  /\ Region!Check(n, b) \in Nat
         /\ Region!Check(n, b) >= n /\ (Region!Check(n, b) = n <=> b)
         /\ Region!Check(Region!Check(n, a), b) \in Nat
         /\ Region!Check(Region!Check(n, a), b) >= n
         /\ Region!Check(Region!Check(n, a), b) = n <=> a /\ b
BY DEF Region!Check

LEMMA RegionBooleans ==
  /\ Region!Intact \subseteq BOOLEAN /\ Region!Loses \subseteq BOOLEAN
  /\ \A a : Region!region_contains(a) \in BOOLEAN
<1>1. Region!Intact \subseteq BOOLEAN /\ Region!Loses \subseteq BOOLEAN
  BY DEF Region!Intact, Region!Loses
<1>2. \A a : Region!region_contains(a) \in BOOLEAN
  BY DEF Region!region_contains
<1> QED BY <1>1, <1>2

(* The gate before its first check.                                        *)
LEMMA RegionStarts == Region!RegionInit => RegionInv
BY RegionFits DEF Region!RegionInit, RegionInv, RegionTypes, RegionTallies, RegionBlocks,
     RegionVerdict, Region!NULL, Signs, Shown

(* The region is given, or refused.                                        *)
LEMMA RegionGives == RegionInv /\ Region!Give => RegionInv'
<1> SUFFICES ASSUME RegionInv, Region!Give PROVE RegionInv'
  OBVIOUS
<1> USE DEF RegionInv, RegionTypes
<1>1. /\ step = "give" /\ exit = "none"
      /\ UNCHANGED <<fault, live, lost, box, vec, grown, block, first, inside, reused>>
  BY DEF Region!Give, Region!Running, Region!blocks, Region!rounds
<1>2. CASE fault = "refuses"
  <2>1. exit' = "failure" /\ UNCHANGED <<step, misses, seen>>
    BY <1>2 DEF Region!Give
  <2> QED BY <1>1, <1>2, <2>1 DEF RegionTallies, RegionBlocks, RegionVerdict, Region!Block
<1>3. CASE fault # "refuses"
  <2>1. PICK usable \in Region!Usable :
          /\ misses' = Region!Check(Region!Check(misses, usable > 0), usable <= RegionSize)
          /\ seen' = [seen EXCEPT !.wrong = @ \/ usable \notin 1 .. RegionSize]
    BY <1>3 DEF Region!Give
  <2>2. step' = "again" /\ exit' = exit
    BY <1>3 DEF Region!Give
  <2>3. RegionSize \in Nat /\ usable \in Nat
    BY RegionFits DEF Region!Usable
  <2>4. /\ misses' \in Nat /\ misses' >= misses
        /\ misses' = misses <=> usable > 0 /\ usable <= RegionSize
    <3>1. (usable > 0) \in BOOLEAN /\ (usable <= RegionSize) \in BOOLEAN
      OBVIOUS
    <3> QED BY <2>1, <3>1, RegionTwo
  <2>5. usable \notin 1 .. RegionSize <=> ~ (usable > 0 /\ usable <= RegionSize)
    BY <2>3
  <2>6. /\ seen' \in Signs /\ (seen'.wrong <=> seen.wrong \/ usable \notin 1 .. RegionSize)
        /\ seen'.twice = seen.twice /\ seen'.outside = seen.outside
        /\ seen'.corrupt = seen.corrupt /\ seen'.lost = seen.lost /\ seen'.moved = seen.moved
    <3> DEFINE no == usable \notin 1 .. RegionSize
    <3>1. no \in BOOLEAN /\ seen' = [seen EXCEPT !.wrong = @ \/ no]
      BY <2>1
    <3> HIDE DEF no
    <3> QED BY <3>1 DEF Signs, no
  <2>7. /\ seen' \in Signs
        /\ seen'.wrong <=> seen.wrong \/ ~ (usable > 0 /\ usable <= RegionSize)
        /\ seen'.twice = seen.twice /\ seen'.outside = seen.outside
        /\ seen'.corrupt = seen.corrupt /\ seen'.lost = seen.lost /\ seen'.moved = seen.moved
    BY <2>5, <2>6
  <2>8. RegionTypes' /\ RegionBlocks' /\ RegionVerdict'
    BY <1>1, <2>2, <2>4, <2>7 DEF RegionBlocks, RegionVerdict, Region!Block
  <2>9. RegionTallies'
    BY <1>1, <2>2, <2>4, <2>7 DEF RegionTallies, Region!Block
  <2> QED BY <2>8, <2>9
<1> QED BY <1>2, <1>3

(* A second time, to be refused.                                           *)
LEMMA RegionGivesAgain == RegionInv /\ Region!GiveAgain => RegionInv'
<1> SUFFICES ASSUME RegionInv, Region!GiveAgain PROVE RegionInv'
  OBVIOUS
<1>1. /\ seen' \in Signs /\ (seen'.twice <=> fault = "twice") /\ (seen'.wrong <=> seen.wrong)
      /\ (seen'.outside <=> seen.outside) /\ (seen'.corrupt <=> seen.corrupt)
      /\ (seen'.lost <=> seen.lost) /\ (seen'.moved <=> seen.moved)
      /\ misses' = IF fault = "twice" THEN misses + 1 ELSE misses
  BY DEF Region!GiveAgain, Region!Check, RegionInv, RegionTypes, Signs
<1>2. RegionTypes'
  BY <1>1 DEF Region!GiveAgain, Region!Running, Region!Check, RegionInv,
     RegionTypes, Region!blocks, Region!rounds
<1>3. RegionTallies'
  BY <1>1 DEF Region!GiveAgain, Region!Running, Region!Check, RegionInv,
     RegionTypes, RegionTallies, Region!blocks, Region!rounds
<1>4. RegionBlocks'
  BY <1>1 DEF Region!GiveAgain, Region!Running, Region!Check, RegionInv,
     RegionTypes, RegionBlocks, Region!blocks, Region!rounds
<1>5. RegionVerdict'
  BY <1>1 DEF Region!GiveAgain, Region!Running, Region!Check, RegionInv,
     RegionVerdict
<1> QED
  BY <1>2, <1>3, <1>4, <1>5 DEF RegionInv

(* The Box.                                                                *)
LEMMA RegionBoxes == RegionInv /\ Region!MakeBox => RegionInv'
<1> SUFFICES ASSUME RegionInv, Region!MakeBox PROVE RegionInv'
  OBVIOUS
<1> USE DEF RegionInv, RegionTypes
<1>1. PICK a \in Region!Places(BoxSize), intact \in Region!Intact :
        /\ box' = a /\ live' = live \cup {Region!Block(a, BoxSize)}
        /\ misses' = Region!Check(Region!Check(misses, Region!region_contains(a)), intact)
        /\ seen' = [seen EXCEPT !.outside = @ \/ ~Region!region_contains(a),
                                !.corrupt = @ \/ ~intact]
  BY DEF Region!MakeBox
<1>2. /\ seen' \in Signs /\ (seen'.wrong <=> seen.wrong)
      /\ (seen'.twice <=> seen.twice) /\ (seen'.lost <=> seen.lost)
      /\ (seen'.outside <=> seen.outside \/ ~Region!region_contains(a))
      /\ (seen'.corrupt <=> seen.corrupt \/ ~intact) /\ (seen'.moved <=> seen.moved)
  BY <1>1 DEF Signs, Region!Intact
<1>3. intact \in BOOLEAN /\ Region!region_contains(a) \in BOOLEAN
  BY RegionBooleans
<1>4. misses' \in Nat /\ misses' >= misses
      /\ (misses' = misses <=> Region!region_contains(a) /\ intact)
  BY <1>1, <1>3, RegionTwo
<1>5. BoxSize \in Nat \ {0} /\ BoxSize <= RegionSize /\ RegionSize \in Nat
  BY RegionFits
<1>6. a \in Int /\ (Region!region_contains(a) \/ fault = "outside")
  BY <1>5, RegionPlaced
<1>7. lost = {} /\ fault \notin {"wanders", "outside"} => a = 0
  <2>1. lost = {} => 0 \in Region!Gaps(BoxSize)
    BY <1>5 DEF Region!Gaps, Region!MakeBox, Region!Running, RegionBlocks
  <2>2. a \in Region!Gaps(BoxSize) => a >= 0
    BY <1>5 DEF Region!Gaps
  <2> QED BY <1>5, <1>6, <2>1, <2>2, RegionPlaced
<1>8. RegionTypes'
  BY <1>1, <1>2, <1>4, <1>6 DEF Region!MakeBox, Region!rounds
<1>9. RegionTallies'
  BY <1>2, <1>3, <1>4, <1>6 DEF Region!MakeBox, Region!Running, RegionTallies, Region!rounds,
    Region!region_contains
<1>10. RegionVerdict'
  BY <1>1, <1>2, <1>3 DEF Region!MakeBox, Region!Running, RegionVerdict
<1>11. RegionBlocks'
  <2>1. grown' = 0 /\ grown = 0 /\ live = {} /\ lost' = lost /\ fault' = fault
        /\ step' = "vec"
    BY DEF Region!MakeBox, Region!Running, RegionBlocks
  <2>2. {Region!Block(vec', Growth[k]) : k \in {0} \ {0}} = {}
    OBVIOUS
  <2> QED
    BY <1>1, <1>7, <2>1, <2>2 DEF RegionBlocks
<1> QED BY <1>8, <1>9, <1>10, <1>11

(* The Vec, and the block it leaves.                                       *)
LEMMA RegionGrows == RegionInv /\ Region!GrowVec => RegionInv'
<1> SUFFICES ASSUME RegionInv, Region!GrowVec PROVE RegionInv'
  OBVIOUS
<1> USE DEF RegionInv, RegionTypes
<1> DEFINE size == Growth[grown + 1]
           old == {Region!Block(vec, Growth[k]) : k \in {grown} \ {0}}
<1>1. PICK a \in Region!Places(size), loses \in Region!Loses :
        /\ vec' = a /\ live' = (live \ old) \cup {Region!Block(a, size)}
        /\ lost' = UNION ({lost} \cup {Region!LostWith(b, loses) : b \in old})
  BY DEF Region!GrowVec
<1>2. /\ grown < Len(Growth) /\ grown' = grown + 1 /\ grown' \in 0 .. Len(Growth)
      /\ grown + 1 \in DOMAIN Growth /\ size \in Nat \ {0} /\ step = "vec" /\ step' = "vec"
  <2>1. Len(Growth) \in Nat /\ DOMAIN Growth = 1 .. Len(Growth)
        /\ \A k \in DOMAIN Growth : Growth[k] \in Nat \ {0}
    BY RegionFits
  <2>2. grown < Len(Growth) /\ grown' = grown + 1 /\ step = "vec" /\ step' = "vec"
    BY DEF Region!GrowVec, Region!Running
  <2> QED BY <2>1, <2>2
<1>3. a \in Int /\ (Region!region_contains(a) \/ fault = "outside")
  BY <1>2, RegionPlaced
<1>4. lost \subseteq lost' /\ (fault # "leaks" => lost' = lost)
  <2>1. fault # "leaks" => ~loses
    BY <1>1 DEF Region!Loses
  <2>2. \A b \in old : lost \subseteq Region!LostWith(b, loses)
                       /\ (~loses => Region!LostWith(b, loses) = lost)
    BY DEF Region!LostWith
  <2> HIDE DEF old
  <2> QED BY <1>1, <2>1, <2>2
<1>5. RegionTypes'
  BY <1>2, <1>3, <1>1 DEF Region!GrowVec, Region!rounds
<1>6. RegionTallies'
  BY <1>2, <1>4 DEF Region!GrowVec, RegionTallies, Region!rounds
<1>7. RegionVerdict'
  BY <1>4 DEF Region!GrowVec, Region!Running, RegionVerdict, Shown
<1>8. RegionBlocks'
  <2> SUFFICES ASSUME fault \notin {"wanders", "outside"}, lost' = {}
               PROVE  /\ vec' >= BoxSize
                      /\ live' = {Region!Block(0, BoxSize)}
                                  \cup {Region!Block(vec', Growth[k]) : k \in {grown'} \ {0}}
    BY <1>1, <1>2, <1>3 DEF Region!GrowVec, RegionBlocks, Region!region_contains
  <2>1. /\ lost = {} /\ live = {Region!Block(0, BoxSize)} \cup old
        /\ grown > 0 => vec >= BoxSize
    BY <1>2, <1>4 DEF RegionBlocks
  <2>2. {Region!Block(vec', Growth[k]) : k \in {grown'} \ {0}} = {Region!Block(a, size)}
    BY <1>1, <1>2
  <2>3. Region!Block(0, BoxSize) \notin old
    <3>1. \A b \in old : b.at = vec /\ grown > 0
      BY DEF Region!Block
    <3>2. Region!Block(0, BoxSize).at = 0 /\ BoxSize \in Nat \ {0}
      BY RegionFits DEF Region!Block
    <3> HIDE DEF old
    <3> QED BY <2>1, <3>1, <3>2
  <2>4. a \in Region!Gaps(size)
    BY <1>2, RegionPlaced
  <2>5. a >= BoxSize
    <3>1. Region!Block(0, BoxSize) \in live /\ Region!Block(0, BoxSize).at = 0
          /\ Region!Block(0, BoxSize).size = BoxSize
      BY <2>1 DEF Region!Block
    <3>2. a + size <= 0 \/ 0 + BoxSize <= a
      BY <2>4, <3>1 DEF Region!Gaps
    <3>3. a \in Nat /\ BoxSize \in Nat
      BY <1>2, <2>4, RegionFits DEF Region!Gaps
    <3> HIDE DEF size
    <3> QED BY <1>2, <3>2, <3>3
  <2> HIDE DEF old, size
  <2> QED BY <1>1, <2>1, <2>2, <2>3, <2>5
<1> QED BY <1>5, <1>6, <1>7, <1>8

(* Both are dropped, and looked at.                                        *)
LEMMA RegionDrops == RegionInv /\ Region!DropBoth => RegionInv'
<1> SUFFICES ASSUME RegionInv, Region!DropBoth PROVE RegionInv'
  OBVIOUS
<1> USE DEF RegionInv, RegionTypes
<1>1. PICK intact \in Region!Intact, loses \in Region!Loses :
        /\ misses' = Region!Check(Region!Check(misses, Region!region_contains(vec)), intact)
        /\ seen' = [seen EXCEPT !.outside = @ \/ ~Region!region_contains(vec),
                                !.corrupt = @ \/ ~intact]
        /\ lost' = UNION {Region!LostWith(b, loses) : b \in live}
  BY DEF Region!DropBoth
<1>2. grown = Len(Growth) /\ grown > 0 /\ step = "vec" /\ block = 0
      /\ (Region!region_contains(vec) \/ fault = "outside")
  BY RegionFits DEF Region!DropBoth, Region!Running, RegionBlocks, RegionTallies
<1>3. intact \in BOOLEAN /\ Region!region_contains(vec) \in BOOLEAN
  BY RegionBooleans
<1>4. /\ seen' \in Signs /\ (seen'.wrong <=> seen.wrong)
      /\ (seen'.twice <=> seen.twice) /\ (seen'.lost <=> seen.lost)
      /\ (seen'.outside <=> seen.outside \/ ~Region!region_contains(vec))
      /\ (seen'.corrupt <=> seen.corrupt \/ ~intact) /\ (seen'.moved <=> seen.moved)
  BY <1>1, <1>3 DEF Signs
<1>5. misses' \in Nat /\ misses' >= misses
      /\ (misses' = misses <=> Region!region_contains(vec) /\ intact)
  BY <1>1, <1>3, RegionTwo
<1>6. lost' # {} => fault = "leaks"
  <2>1. fault # "leaks" => lost = {} /\ ~loses
    BY <1>1 DEF Region!Loses, RegionTallies
  <2>2. \A b \in live : ~loses => Region!LostWith(b, loses) = lost
    BY DEF Region!LostWith
  <2> QED BY <1>1, <2>1, <2>2
<1>7. RegionTypes'
  BY <1>4, <1>5 DEF Region!DropBoth, Region!blocks, Region!rounds
<1>8. RegionTallies'
  <2>1. fault' = fault /\ exit' = exit /\ block' = block /\ inside' = inside
        /\ reused' = reused /\ step' = "rounds" /\ first' = first
    BY DEF Region!DropBoth, Region!rounds
  <2> HIDE DEF Region!region_contains
  <2> QED BY <1>2, <1>3, <1>4, <1>5, <1>6, <2>1 DEF RegionTallies
<1>9. RegionVerdict' /\ RegionBlocks'
  BY DEF Region!DropBoth, Region!Running, RegionVerdict, RegionBlocks, Shown
<1> QED BY <1>7, <1>8, <1>9

(* One of the rounds.                                                      *)
LEMMA RegionRound == RegionInv /\ Region!Round => RegionInv'
<1> SUFFICES ASSUME RegionInv, Region!Round PROVE RegionInv'
  OBVIOUS
<1> USE DEF RegionInv, RegionTypes
<1>1. PICK a \in Region!Places(RegionBlock), intact \in Region!Intact, loses \in Region!Loses :
        /\ inside' = IF Region!region_contains(a) THEN inside + 1 ELSE inside
        /\ first' = IF block = 0 THEN a ELSE first
        /\ reused' = Region!Reused(a)
        /\ misses' = Region!Check(misses, intact)
        /\ lost' = Region!LostWith(Region!Block(a, RegionBlock), loses)
        /\ seen' = [seen EXCEPT !.outside = @ \/ ~Region!region_contains(a),
                                !.corrupt = @ \/ ~intact,
                                !.lost = @ \/ (loses /\ block < RegionRounds - 1),
                                !.moved = @ \/ (block > 0 /\ a # first)]
  BY DEF Region!Round
<1>2. /\ step = "rounds" /\ step' = "rounds" /\ block < RegionRounds /\ block' = block + 1
      /\ exit = "none" /\ exit' = "none" /\ fault' = fault /\ live' = live
      /\ grown' = grown /\ box' = box /\ vec' = vec /\ RegionRounds \in Nat
  BY RegionFits DEF Region!Round, Region!Running, Region!blocks
<1>3. intact \in BOOLEAN /\ loses \in BOOLEAN /\ Region!region_contains(a) \in BOOLEAN
  BY RegionBooleans
<1>4. /\ seen' \in Signs /\ (seen'.wrong <=> seen.wrong)
      /\ (seen'.twice <=> seen.twice)
      /\ (seen'.lost <=> seen.lost \/ (loses /\ block < RegionRounds - 1))
      /\ (seen'.outside <=> seen.outside \/ ~Region!region_contains(a))
      /\ (seen'.corrupt <=> seen.corrupt \/ ~intact)
      /\ (seen'.moved <=> seen.moved \/ (block > 0 /\ a # first))
  BY <1>1, <1>3 DEF Signs
<1>5. misses' \in Nat /\ misses' >= misses /\ (misses' = misses <=> intact)
  BY <1>1, <1>3, RegionTwo
<1>6. /\ a \in Int /\ (Region!region_contains(a) \/ fault = "outside")
      /\ a \in Region!Gaps(RegionBlock) \/ fault = "outside"
  BY RegionFits, RegionPlaced
<1>7. /\ lost \subseteq lost' /\ (loses => fault = "leaks")
      /\ ~loses => lost' = lost
      /\ loses => Region!Block(a, RegionBlock) \in lost'
  <2>1. loses => fault = "leaks"
    BY DEF Region!Loses
  <2>2. a \in Region!Gaps(RegionBlock) => a # RegionSize
    BY RegionFits DEF Region!Gaps
  <2> QED BY <1>1, <1>6, <2>1, <2>2 DEF Region!LostWith, Region!Block, Region!OUTSIDE
(* Where a block was lost, no other can be placed.                         *)
<1>8. Region!Block(first, RegionBlock) \in lost /\ fault # "outside" => a # first
  <2> SUFFICES ASSUME Region!Block(first, RegionBlock) \in lost, a \in Region!Gaps(RegionBlock)
               PROVE  a # first
    BY <1>6
  <2>1. a + RegionBlock <= first \/ first + RegionBlock <= a
    BY DEF Region!Gaps, Region!Block
  <2> QED BY <1>6, <2>1, RegionFits
<1>9. RegionTypes'
  <2>1. reused' \in Nat /\ first' \in Int /\ inside' \in 0 .. block'
    BY <1>1, <1>2, <1>6 DEF Region!Reused
  <2> QED BY <1>2, <1>4, <1>5, <2>1
<1>10. RegionTallies'
  <2> HIDE DEF Region!region_contains
  <2>1. /\ (seen.twice => fault = "twice")' /\ (seen.outside => fault = "outside")'
        /\ (lost # {} \/ seen.lost => fault = "leaks")'
    BY <1>2, <1>3, <1>4, <1>6, <1>7 DEF RegionTallies
  <2>2. (misses = 0 => ~seen.wrong /\ ~seen.twice /\ ~seen.corrupt
                       /\ (seen.outside => inside < block))'
    BY <1>1, <1>2, <1>3, <1>4, <1>5 DEF RegionTallies
  <2>3. (exit = "none" /\ ~seen.wrong /\ ~seen.twice /\ ~seen.corrupt /\ ~seen.outside => misses = 0)'
    BY <1>2, <1>3, <1>4, <1>5 DEF RegionTallies
  <2>4. (~seen.outside => inside = block)'
    BY <1>1, <1>2, <1>3, <1>4 DEF RegionTallies
  <2>5. reused' <= block' - 1 /\ (reused' = block' - 1 <=> ~seen'.moved)
    BY <1>1, <1>2, <1>4 DEF RegionTallies, Region!Reused
  <2>6. seen'.lost => seen'.moved
          \/ (block' < RegionRounds /\ Region!Block(first', RegionBlock) \in lost')
    <3>1. CASE seen.lost
      BY <1>1, <1>2, <1>4, <1>7, <1>8, <3>1 DEF RegionTallies
    <3>2. CASE ~seen.lost
      BY <1>1, <1>2, <1>4, <1>7, <3>2 DEF RegionTallies
    <3> QED BY <3>1, <3>2
  <2> QED BY <1>2, <2>1, <2>2, <2>3, <2>4, <2>5, <2>6 DEF RegionTallies
<1>11. RegionVerdict' /\ RegionBlocks'
  BY <1>2 DEF RegionVerdict, RegionBlocks
<1> QED BY <1>9, <1>10, <1>11

LEMMA RegionJudges == RegionInv /\ Region!Verdict => RegionInv'
<1> SUFFICES ASSUME RegionInv, Region!Verdict PROVE RegionInv'
  OBVIOUS
<1> USE DEF RegionInv, RegionTypes
<1>1. /\ step = "rounds" /\ step' = "rounds" /\ block = RegionRounds /\ exit = "none"
      /\ exit' = IF misses' = 0 THEN "success" ELSE "failure"
      /\ UNCHANGED <<fault, live, lost, box, vec, grown, block, first, inside, reused, seen>>
      /\ RegionRounds \in Nat \ {0}
  BY RegionFits DEF Region!Verdict, Region!Running, Region!ExitCode, Region!blocks, Region!rounds
<1>2. /\ misses' \in Nat /\ misses' >= misses
      /\ misses' = misses <=> inside = RegionRounds /\ reused = RegionRounds - 1
  <2>1. (inside = RegionRounds) \in BOOLEAN /\ (reused = RegionRounds - 1) \in BOOLEAN
    OBVIOUS
  <2> QED BY <2>1, RegionTwo DEF Region!Verdict
<1>3. RegionTypes'
  BY <1>1, <1>2
<1>4. RegionTallies' /\ RegionBlocks'
  BY <1>1, <1>2 DEF RegionTallies, RegionBlocks
<1>5. RegionVerdict'
  BY <1>1, <1>2 DEF RegionTallies, RegionVerdict, Shown
<1> QED BY <1>3, <1>4, <1>5

(* Nothing is free: a block was lost, or the allocator wanders.            *)
LEMMA RegionRunsOut == RegionInv /\ Region!OutOfMemory => RegionInv'
<1> SUFFICES ASSUME RegionInv, Region!OutOfMemory PROVE RegionInv'
  OBVIOUS
<1> USE DEF RegionInv, RegionTypes
<1>1. /\ exit' = "abort" /\ Region!Asked > 0 /\ Region!Places(Region!Asked) = {}
      /\ UNCHANGED <<fault, live, lost, step, box, vec, grown, block, first, inside, reused,
                     misses, seen>>
  BY DEF Region!OutOfMemory, Region!blocks, Region!rounds
<1>2. fault # "outside"
  BY <1>1 DEF Region!Places
<1>3. ASSUME lost = {}, fault # "wanders" PROVE FALSE
  <2>1. CASE step = "box"
    <3>1. Region!Asked = BoxSize /\ 0 \in Region!Gaps(BoxSize) /\ BoxSize \in Nat
          /\ BoxSize <= RegionSize
      BY <1>3, <2>1, RegionFits DEF Region!Asked, Region!Gaps, RegionBlocks
    <3> QED BY <1>1, <3>1, RegionFinds
  <2>2. CASE step = "rounds"
    <3>1. Region!Asked = RegionBlock
      BY <1>1, <2>2 DEF Region!Asked
    <3>2. 0 \in Region!Gaps(RegionBlock) /\ RegionBlock \in Nat /\ RegionBlock <= RegionSize
      BY <1>3, <2>2, RegionFits DEF Region!Gaps, RegionBlocks
    <3> QED BY <1>1, <3>1, <3>2, RegionFinds
  <2>3. CASE step = "vec"
    <3> DEFINE size == Growth[grown + 1]
               before == IF grown = 0 THEN 0 ELSE Growth[grown]
               old == {Region!Block(vec, Growth[k]) : k \in {grown} \ {0}}
    <3>1. grown < Len(Growth) /\ Region!Asked = size
      BY <1>1, <2>3 DEF Region!Asked
    <3>2. /\ size \in Nat \ {0} /\ before \in Nat /\ BoxSize \in Nat \ {0} /\ RegionSize \in Nat
          /\ BoxSize + before + (IF grown = 0 THEN size ELSE 2 * size) <= RegionSize
      <4>1. grown + 1 \in DOMAIN Growth /\ (grown > 0 => grown \in DOMAIN Growth)
            /\ \A k \in DOMAIN Growth : Growth[k] \in Nat \ {0}
        BY <3>1, RegionFits
      <4>2. PICK k \in DOMAIN Growth : k = grown + 1
        BY <4>1
      <4>3. BoxSize + (IF k = 1 THEN Growth[k] ELSE Growth[k - 1] + 2 * Growth[k]) <= RegionSize
        BY RegionFits
      <4>4. k - 1 = grown /\ (k = 1 <=> grown = 0) /\ size = Growth[k]
        BY <4>2
      <4> QED BY <4>1, <4>3, <4>4, RegionFits
    <3>3. live = {Region!Block(0, BoxSize)} \cup old /\ (grown > 0 => vec >= BoxSize)
      BY <1>2, <1>3, <2>3 DEF RegionBlocks
    <3>4. \A b \in live : (b.at = 0 /\ b.size = BoxSize)
                          \/ (grown > 0 /\ b.at = vec /\ b.size = before)
      BY <3>3 DEF Region!Block
    <3> DEFINE u == IF grown = 0 \/ vec >= BoxSize + size THEN BoxSize ELSE vec + before
    <3> HIDE DEF size, before, old
    <3>5. u \in 0 .. RegionSize - size /\ size <= RegionSize
      BY <3>2, <3>3
    <3>6. \A b \in live : u + size <= b.at \/ b.at + b.size <= u
      BY <3>2, <3>3, <3>4
    <3>7. u \in Region!Gaps(size)
      BY <1>3, <3>5, <3>6 DEF Region!Gaps
    <3> QED BY <1>1, <3>1, <3>2, <3>5, <3>7, RegionFinds
  <2>4. step \in {"box", "vec", "rounds"}
    BY <1>1 DEF Region!Asked
  <2> QED BY <2>1, <2>2, <2>3, <2>4
<1>4. RegionVerdict'
  BY <1>1, <1>3 DEF RegionVerdict
<1> QED BY <1>1, <1>4 DEF RegionTallies, RegionBlocks

(* Every step of the gate.                                                 *)
LEMMA RegionSteps == RegionInv /\ [Region!RegionNext]_regionVars => RegionInv'
<1>1. RegionInv /\ UNCHANGED regionVars => RegionInv'
  BY DEF regionVars, RegionInv, RegionTypes, RegionTallies, RegionBlocks, RegionVerdict, Shown
<1> QED
  BY <1>1, RegionGives, RegionGivesAgain, RegionBoxes, RegionGrows, RegionDrops, RegionRound,
    RegionJudges, RegionRunsOut DEF Region!RegionNext

-----------------------------------------------------------------------------
(* Tables, one behind the other.                                           *)

(* What the entries of two tables are, one behind the other.               *)
Join(T, s, t) ==
  /\ s \o t \in Seq(T) /\ Len(s \o t) = Len(s) + Len(t)
  /\ \A j \in 1 .. Len(s) : (s \o t)[j] = s[j]
  /\ \A j \in 1 .. Len(t) : (s \o t)[Len(s) + j] = t[j]

LEMMA Joined ==
  ASSUME NEW T, NEW s \in Seq(T), NEW t \in Seq(T)
  PROVE  Join(T, s, t)
BY DEF Join

LEMMA Table ==
  ASSUME NEW T, NEW n \in Nat, NEW f \in [1 .. n -> T]
  PROVE  f \in Seq(T) /\ Len(f) = n
OBVIOUS

-----------------------------------------------------------------------------
(* The cycle cell (esp32s3-devkit-alloc-cycles).                           *)

CycleKinds == {"floor", "up", "down", "routing", "counted", "probe"}
CycleRow == [kind : CycleKinds, size : Nat, at : Nat]
CycleRows == 2 + 2 * Len(SIZES) + Len(ROUTING) + Len(COUNTED)

(* The rows of one kind.                                                   *)
CycleTable(kind, s) ==
  /\ Cycles!Kind(kind, s) \in Seq(CycleRow) /\ Len(Cycles!Kind(kind, s)) = Len(s)
  /\ \A k \in 1 .. Len(s) :
       Cycles!Kind(kind, s)[k] = [kind |-> kind, size |-> s[k], at |-> k]

LEMMA CycleTables ==
  ASSUME NEW kind \in CycleKinds, NEW s \in Seq(Nat)
  PROVE  CycleTable(kind, s)
<1>1. DOMAIN s = 1 .. Len(s) /\ Len(s) \in Nat /\ \A k \in 1 .. Len(s) : s[k] \in Nat
  OBVIOUS
<1>2. Cycles!Kind(kind, s) = [k \in 1 .. Len(s) |-> [kind |-> kind, size |-> s[k], at |-> k]]
  BY <1>1, Zenon DEF Cycles!Kind
<1>3. [k \in 1 .. Len(s) |-> [kind |-> kind, size |-> s[k], at |-> k]]
         \in [1 .. Len(s) -> CycleRow]
  BY <1>1 DEF CycleRow
<1>4. Cycles!Kind(kind, s) \in Seq(CycleRow) /\ Len(Cycles!Kind(kind, s)) = Len(s)
  <2> DEFINE f == [k \in 1 .. Len(s) |-> [kind |-> kind, size |-> s[k], at |-> k]]
  <2>1. f \in [1 .. Len(s) -> CycleRow]
    BY <1>3
  <2> HIDE DEF f
  <2>2. f \in Seq(CycleRow) /\ Len(f) = Len(s)
    BY <1>1, <2>1, Table, Zenon
  <2> QED BY <1>2, <2>2 DEF f
<1>5. \A k \in 1 .. Len(s) :
        Cycles!Kind(kind, s)[k] = [kind |-> kind, size |-> s[k], at |-> k]
  BY <1>2
<1> QED BY <1>4, <1>5 DEF CycleTable

(* The order of the measurements: the floor, every size going up, then     *)
(* coming down, and the rest.                                              *)
LEMMA CycleJobs ==
  LET n == Len(SIZES) IN
  /\ n \in Nat /\ DOMAIN Cycles!Jobs = 1 .. CycleRows /\ CycleRows \in Nat
  /\ Cycles!Jobs[1].kind = "floor"
  /\ \A j \in 2 .. n + 1 : /\ Cycles!Jobs[j].kind = "up" /\ Cycles!Jobs[j].at = j - 1
                           /\ Cycles!Jobs[j].size = SIZES[j - 1]
  /\ \A j \in n + 2 .. 2 * n + 1 :
       /\ Cycles!Jobs[j].kind = "down" /\ Cycles!Jobs[j].at = 2 * n + 2 - j
       /\ Cycles!Jobs[j].size = SIZES[2 * n + 2 - j]
  /\ \A j \in 2 * n + 2 .. CycleRows : Cycles!Jobs[j].kind \in {"routing", "counted", "probe"}
<1> DEFINE n == Len(SIZES)
           r == Len(ROUTING)
           c == Len(COUNTED)
           F == << [kind |-> "floor", size |-> 0, at |-> 0] >>
           U == Cycles!Kind("up", SIZES)
           D == Cycles!Down
           R == Cycles!Kind("routing", ROUTING)
           C == Cycles!Kind("counted", COUNTED)
           P == << [kind |-> "probe", size |-> 0, at |-> 0] >>
<1>1. /\ SIZES \in Seq(Nat) /\ ROUTING \in Seq(Nat) /\ COUNTED \in Seq(Nat)
      /\ n \in Nat /\ r \in Nat /\ c \in Nat /\ DOMAIN SIZES = 1 .. n /\ \A k \in 1 .. n : SIZES[k] \in Nat
  BY CyclesFit
<1>2. F \in Seq(CycleRow) /\ P \in Seq(CycleRow) /\ Len(F) = 1 /\ Len(P) = 1
      /\ F[1].kind = "floor" /\ P[1].kind = "probe"
  <2>1. /\ [kind |-> "floor", size |-> 0, at |-> 0] \in CycleRow
        /\ [kind |-> "probe", size |-> 0, at |-> 0] \in CycleRow
    BY DEF CycleRow, CycleKinds
  <2> QED BY <2>1
<1>3. /\ U \in Seq(CycleRow) /\ Len(U) = n
      /\ \A k \in 1 .. n : U[k] = [kind |-> "up", size |-> SIZES[k], at |-> k]
  <2>1. "up" \in CycleKinds
    BY DEF CycleKinds
  <2> QED BY <1>1, <2>1, CycleTables, Zenon DEF CycleTable
<1>4. /\ D \in Seq(CycleRow) /\ Len(D) = n
      /\ \A k \in 1 .. n : D[k] = [kind |-> "down", size |-> SIZES[n + 1 - k], at |-> n + 1 - k]
  <2>1. D = [k \in 1 .. n |-> [kind |-> "down", size |-> SIZES[n + 1 - k], at |-> n + 1 - k]]
    BY <1>1, Zenon DEF Cycles!Down
  <2>2. [k \in 1 .. n |-> [kind |-> "down", size |-> SIZES[n + 1 - k], at |-> n + 1 - k]]
           \in [1 .. n -> CycleRow]
    <3>1. \A k \in 1 .. n : n + 1 - k \in 1 .. n /\ n + 1 - k \in Nat
      BY <1>1
    <3>2. \A k \in 1 .. n : SIZES[n + 1 - k] \in Nat
      BY <1>1, <3>1
    <3> QED BY <3>1, <3>2 DEF CycleRow, CycleKinds
  <2>3. D \in Seq(CycleRow) /\ Len(D) = n
    <3>1. D \in [1 .. n -> CycleRow]
      BY <2>1, <2>2
    <3> HIDE DEF D, n
    <3> QED BY <1>1, <3>1, Table, Zenon
  <2> QED BY <2>1, <2>3
<1>5. /\ R \in Seq(CycleRow) /\ Len(R) = r
      /\ \A k \in 1 .. r : R[k].kind = "routing"
  <2>1. "routing" \in CycleKinds
    BY DEF CycleKinds
  <2>2. CycleTable("routing", ROUTING)
    BY <1>1, <2>1, CycleTables, Zenon
  <2>3. R \in Seq(CycleRow) /\ Len(R) = r
    BY <2>2, Zenon DEF CycleTable
  <2>4. \A k \in 1 .. r : R[k] = [kind |-> "routing", size |-> ROUTING[k], at |-> k]
    BY <2>2, Zenon DEF CycleTable
  <2> HIDE DEF R, r
  <2> QED BY <2>3, <2>4
<1>6. /\ C \in Seq(CycleRow) /\ Len(C) = c
      /\ \A k \in 1 .. c : C[k].kind = "counted"
  <2>1. "counted" \in CycleKinds
    BY DEF CycleKinds
  <2>2. CycleTable("counted", COUNTED)
    BY <1>1, <2>1, CycleTables, Zenon
  <2>3. C \in Seq(CycleRow) /\ Len(C) = c
    BY <2>2, Zenon DEF CycleTable
  <2>4. \A k \in 1 .. c : C[k] = [kind |-> "counted", size |-> COUNTED[k], at |-> k]
    BY <2>2, Zenon DEF CycleTable
  <2> HIDE DEF C, c
  <2> QED BY <2>3, <2>4
<1> HIDE DEF F, U, D, R, C, P
<1>7. Cycles!Jobs = F \o U \o D \o R \o C \o P
  BY DEF Cycles!Jobs, Cycles!EmptyLoop, Cycles!Ascending, Cycles!Boundaries, Cycles!Mechanism,
         Cycles!InRegion, F, U, D, R, C, P
<1>8. CycleRows = 2 * n + r + c + 2
  BY <1>1 DEF CycleRows
<1> HIDE DEF n, r, c
<1> DEFINE A == F \o U
           B == A \o D
           G == B \o R
           H == G \o C
<1> HIDE DEF A, B, G, H
<1>10. /\ A \in Seq(CycleRow) /\ Len(A) = 1 + n
       /\ \A j \in 1 .. 1 : A[j] = F[j]
       /\ \A j \in 1 .. n : A[1 + j] = U[j]
  <2>1. Join(CycleRow, F, U)
    BY <1>2, <1>3, Joined, Zenon
  <2> QED BY <1>2, <1>3, <2>1, Zenon DEF Join, A
<1>11. /\ B \in Seq(CycleRow) /\ Len(B) = 1 + n + n
       /\ \A j \in 1 .. 1 + n : B[j] = A[j]
       /\ \A j \in 1 .. n : B[1 + n + j] = D[j]
  <2>1. Join(CycleRow, A, D)
    BY <1>10, <1>4, Joined, Zenon
  <2> QED BY <1>10, <1>4, <2>1, Zenon DEF Join, B
<1>12. /\ G \in Seq(CycleRow) /\ Len(G) = 1 + n + n + r
       /\ \A j \in 1 .. 1 + n + n : G[j] = B[j]
       /\ \A j \in 1 .. r : G[1 + n + n + j] = R[j]
  <2>1. Join(CycleRow, B, R)
    BY <1>11, <1>5, Joined, Zenon
  <2> QED BY <1>11, <1>5, <2>1, Zenon DEF Join, G
<1>13. /\ H \in Seq(CycleRow) /\ Len(H) = 1 + n + n + r + c
       /\ \A j \in 1 .. 1 + n + n + r : H[j] = G[j]
       /\ \A j \in 1 .. c : H[1 + n + n + r + j] = C[j]
  <2>1. Join(CycleRow, G, C)
    BY <1>12, <1>6, Joined, Zenon
  <2> QED BY <1>12, <1>6, <2>1, Zenon DEF Join, H
<1>14. /\ Cycles!Jobs \in Seq(CycleRow) /\ Len(Cycles!Jobs) = 1 + n + n + r + c + 1
       /\ \A j \in 1 .. 1 + n + n + r + c : Cycles!Jobs[j] = H[j]
       /\ \A j \in 1 .. 1 : Cycles!Jobs[1 + n + n + r + c + j] = P[j]
  <2>1. Cycles!Jobs = H \o P
    BY <1>7 DEF H, G, B, A
  <2>2. Join(CycleRow, H, P)
    BY <1>13, <1>2, Joined, Zenon
  <2> QED BY <1>2, <1>13, <2>1, <2>2, Zenon DEF Join
<1> HIDE DEF P
<1>15. CycleRows \in Nat /\ DOMAIN Cycles!Jobs = 1 .. CycleRows
  BY <1>1, <1>8, <1>14
<1>16. Cycles!Jobs[1].kind = "floor"
  BY <1>1, <1>2, <1>10, <1>11, <1>12, <1>13, <1>14
<1>17. ASSUME NEW k \in 1 .. n
       PROVE  Cycles!Jobs[1 + k] = U[k] /\ Cycles!Jobs[1 + n + k] = D[k]
  <2>1. /\ 1 + k \in 1 .. 1 + n /\ 1 + k \in 1 .. 1 + n + n
        /\ 1 + k \in 1 .. 1 + n + n + r /\ 1 + k \in 1 .. 1 + n + n + r + c
        /\ 1 + n + k \in 1 .. 1 + n + n /\ 1 + n + k \in 1 .. 1 + n + n + r
        /\ 1 + n + k \in 1 .. 1 + n + n + r + c
    BY <1>1
  <2>2. Cycles!Jobs[1 + k] = H[1 + k] /\ Cycles!Jobs[1 + n + k] = H[1 + n + k]
    BY <2>1, <1>14, Zenon
  <2>3. H[1 + k] = G[1 + k] /\ H[1 + n + k] = G[1 + n + k]
    BY <2>1, <1>13, Zenon
  <2>4. G[1 + k] = B[1 + k] /\ G[1 + n + k] = B[1 + n + k]
    BY <2>1, <1>12, Zenon
  <2>5. B[1 + k] = A[1 + k] /\ B[1 + n + k] = D[k] /\ A[1 + k] = U[k]
    BY <2>1, <1>10, <1>11, Zenon
  <2> QED BY <2>2, <2>3, <2>4, <2>5, Zenon
<1>18. ASSUME NEW j \in 2 * n + 2 .. CycleRows
       PROVE  Cycles!Jobs[j].kind \in {"routing", "counted", "probe"}
  <2>1. CASE j <= 1 + n + n + r
    <3> PICK k \in 1 .. r : j = 1 + n + n + k
      <4>1. j - (1 + n + n) \in 1 .. r /\ j = 1 + n + n + (j - (1 + n + n))
        BY <1>1, <2>1
      <4> QED BY <4>1
    <3>1. j \in 1 .. 1 + n + n + r /\ j \in 1 .. 1 + n + n + r + c
      BY <1>1, <2>1
    <3>2. Cycles!Jobs[j] = H[j] /\ H[j] = G[j]
      BY <3>1, <1>13, <1>14, Zenon
    <3>3. G[j] = R[k]
      BY <1>12, Zenon
    <3> QED BY <3>2, <3>3, <1>5
  <2>2. CASE j > 1 + n + n + r /\ j <= 1 + n + n + r + c
    <3> PICK k \in 1 .. c : j = 1 + n + n + r + k
      <4>1. j - (1 + n + n + r) \in 1 .. c /\ j = 1 + n + n + r + (j - (1 + n + n + r))
        BY <1>1, <2>2
      <4> QED BY <4>1
    <3>1. j \in 1 .. 1 + n + n + r + c
      BY <1>1, <2>2
    <3> QED BY <3>1, <1>6, <1>13, <1>14, Zenon
  <2>3. CASE j > 1 + n + n + r + c
    <3>1. j = 1 + n + n + r + c + 1 /\ 1 \in 1 .. 1
      BY <1>1, <1>8, <2>3
    <3> QED BY <3>1, <1>2, <1>14, Zenon
  <2> QED BY <1>1, <2>1, <2>2, <2>3
<1>19. ASSUME NEW j \in 2 .. n + 1
       PROVE  /\ Cycles!Jobs[j].kind = "up" /\ Cycles!Jobs[j].at = j - 1
              /\ Cycles!Jobs[j].size = SIZES[j - 1]
  <2> PICK k \in 1 .. n : k = j - 1
    BY <1>1
  <2>1. j = 1 + k
    BY <1>1
  <2> QED BY <2>1, <1>3, <1>17
<1>20. ASSUME NEW j \in n + 2 .. 2 * n + 1
       PROVE  /\ Cycles!Jobs[j].kind = "down" /\ Cycles!Jobs[j].at = 2 * n + 2 - j
              /\ Cycles!Jobs[j].size = SIZES[2 * n + 2 - j]
  <2> PICK k \in 1 .. n : k = j - (1 + n)
    BY <1>1
  <2>1. j = 1 + n + k
    BY <1>1
  <2>2. n + 1 - k = 2 * n + 2 - j
    BY <1>1
  <2>3. Cycles!Jobs[j] = D[k]
    BY <2>1, <1>17
  <2>4. D[k] = [kind |-> "down", size |-> SIZES[n + 1 - k], at |-> n + 1 - k]
    BY <1>4
  <2> QED BY <2>2, <2>3, <2>4
<1> QED BY <1>1, <1>15, <1>16, <1>18, <1>19, <1>20 DEF n
(* Where main is, from what it measures.                                   *)
LEMMA CycleWhere ==
  ASSUME NEW j \in DOMAIN Cycles!Jobs
  PROVE  /\ j \in Nat \ {0}
         /\ Cycles!Jobs[j].kind = "floor" <=> j = 1
         /\ Cycles!Jobs[j].kind = "up" =>
              /\ Cycles!Jobs[j].at \in DOMAIN SIZES /\ Cycles!Jobs[j].at \in Nat \ {0}
              /\ j = Cycles!Jobs[j].at + 1
         /\ Cycles!Jobs[j].kind = "down" =>
              /\ Cycles!Jobs[j].at \in DOMAIN SIZES /\ Cycles!Jobs[j].at \in Nat \ {0}
              /\ j > Cycles!Jobs[j].at + 1
<1> DEFINE n == Len(SIZES)
<1>1. n \in Nat /\ CycleRows \in Nat /\ j \in 1 .. CycleRows /\ DOMAIN SIZES = 1 .. n
  BY CycleJobs, CyclesFit
<1>2. CASE j = 1
  BY <1>2, CycleJobs
<1>3. CASE j \in 2 .. n + 1
  <2>1. Cycles!Jobs[j].kind = "up" /\ Cycles!Jobs[j].at = j - 1
    BY <1>3, CycleJobs
  <2> QED BY <1>1, <1>3, <2>1
<1>4. CASE j \in n + 2 .. 2 * n + 1
  <2>1. Cycles!Jobs[j].kind = "down" /\ Cycles!Jobs[j].at = 2 * n + 2 - j
    BY <1>4, CycleJobs
  <2> QED BY <1>1, <1>4, <2>1
<1>5. CASE j \in 2 * n + 2 .. CycleRows
  <2>1. Cycles!Jobs[j].kind \in {"routing", "counted", "probe"}
    BY <1>5, CycleJobs
  <2> QED BY <1>1, <1>5, <2>1
<1> QED BY <1>1, <1>2, <1>3, <1>4, <1>5

(* The cycles of an undisturbed round whose pairs cost c.                  *)
Full(c) == OPS * (Harness + c)
OfCosts == Costs \cup {0}

CycleTypes ==
  /\ ccount \in 0 .. W - 1 /\ measure \in Nat /\ repeat \in Nat /\ lo \in 0 .. W - 1
  /\ cost \in OfCosts /\ checksum \in {0, Cycles!Checksum}
  /\ floor \in Nat /\ up \in [DOMAIN SIZES -> Nat] /\ paid \in [DOMAIN SIZES -> OfCosts]
  /\ faults \in Nat /\ expected \in Nat /\ outcome \in {"none", "PASS", "FAIL"}
  /\ quiet \in [best : BOOLEAN, all : BOOLEAN] /\ regular \in BOOLEAN

(* No round is quicker than an undisturbed one, and one of those that      *)
(* count is all it takes to measure it.                                    *)
CycleBest ==
  /\ measure <= 1 => cost = 0
  /\ lo >= Full(cost)
  /\ quiet.best /\ measure > 0 => lo = Full(cost) /\ checksum = Cycles!Checksum

(* What main has kept of the measurements behind it.                       *)
CycleKept ==
  quiet.all =>
    /\ measure > 1 => floor = Full(0)
    /\ \A k \in DOMAIN SIZES : measure > k + 1 => up[k] = Full(paid[k])

CycleJudged ==
  /\ quiet.all => (faults = 0 <=> regular)
  /\ measure > 0 /\ outcome # "none" => (outcome = "PASS" <=> faults = 0)

CycleInv == CycleTypes /\ CycleBest /\ CycleKept /\ CycleJudged

(* PASS is what the regularity of the costs calls for.                     *)
LEMMA CycleMeans == CycleInv => Cycles!PassMeansRegular
BY DEF CycleInv, CycleTypes, CycleJudged, Cycles!PassMeansRegular

(* An undisturbed round tells the cost from its cycles.                    *)
LEMMA FullCosts ==
  /\ \A c \in OfCosts : Full(c) \in 0 .. W - 1 /\ Full(0) <= Full(c)
  /\ \A c \in OfCosts, n \in Noise : Full(c) + n \in Nat /\ Full(c) + n < W
  /\ \A c, d \in OfCosts : Full(c) = Full(d) => c = d
  /\ \A c \in OfCosts : (Full(c) - Full(0)) \div OPS = c
<1>1. /\ OPS \in Nat \ {0} /\ Harness \in Nat /\ OfCosts \subseteq Nat /\ W \in Nat \ {0}
      /\ Noise \subseteq Nat /\ 0 \in Noise /\ 0 \in OfCosts
      /\ \A c \in OfCosts, n \in Noise : OPS * (Harness + c) + n < W
  BY RoundsFit, CyclesFit DEF OfCosts
<1>2. ASSUME NEW c \in OfCosts
      PROVE  /\ Full(c) \in Nat /\ Full(c) = Full(0) + c * OPS /\ c * OPS \in Nat
             /\ (c * OPS) \div OPS = c
  <2>1. c \in Nat /\ 0 \in Nat
    BY <1>1
  <2>2. \A x \in Nat : OPS * x \in Nat
    BY <1>1, SMTT(30)
  <2>3. OPS * (Harness + c) = OPS * (Harness + 0) + c * OPS /\ c * OPS \in Nat
    BY <1>1, <2>1, SMTT(30)
  <2>4. (c * OPS) \div OPS = c
    <3>1. c * OPS \in Int /\ c * OPS = c * OPS + 0
      BY <2>3
    <3> QED BY <1>1, <2>1, <3>1, DivUnique
  <2> QED BY <1>1, <2>1, <2>2, <2>3, <2>4 DEF Full
<1>3. ASSUME NEW c \in OfCosts, NEW n \in Noise
      PROVE  Full(c) + n \in Nat /\ Full(c) + n < W
  BY <1>1, <1>2 DEF Full
<1>4. ASSUME NEW c \in OfCosts
      PROVE  Full(c) \in 0 .. W - 1 /\ Full(0) <= Full(c) /\ (Full(c) - Full(0)) \div OPS = c
  <2>1. Full(c) + 0 < W
    BY <1>1, <1>3
  <2> QED BY <1>1, <1>2, <2>1
<1>5. ASSUME NEW c \in OfCosts, NEW d \in OfCosts, Full(c) = Full(d)
      PROVE  c = d
  BY <1>4, <1>5, Zenon
<1> QED BY <1>3, <1>4, <1>5

(* A round reads its cycles off the counter, wherever it comes round.      *)
LEMMA CounterReads ==
  ASSUME NEW start \in 0 .. W - 1, NEW cycles \in Nat, cycles < W
  PROVE  /\ (start + cycles) % W \in 0 .. W - 1
         /\ Cycles!Elapsed(start, (start + cycles) % W) = cycles
<1>1. W \in Nat \ {0}
  BY CyclesFit
<1>2. CASE start + cycles < W
  <2>1. (start + cycles) % W = start + cycles
    BY <1>1, <1>2, OneRound
  <2>2. start + cycles - start + W = cycles + W /\ (cycles + W) % W = cycles
    BY <1>1, <1>2, OneRound
  <2> QED BY <1>1, <1>2, <2>1, <2>2 DEF Cycles!Elapsed
<1>3. CASE start + cycles >= W
  <2>0. start + cycles \in Int /\ W <= start + cycles /\ start + cycles < 2 * W
    BY <1>1, <1>3
  <2>1. (start + cycles) % W = start + cycles - W
    <3> PICK a \in Int : a = start + cycles
      BY <2>0
    <3>1. W <= a /\ a < 2 * W
      BY <2>0
    <3>2. a % W = a - W
      BY <1>1, <3>1, OneRound
    <3>3. a - W = start + cycles - W
      BY <1>1
    <3>4. a % W = (start + cycles) % W
      BY Zenon
    <3> QED BY <3>2, <3>3, <3>4, Zenon
  <2>2. start + cycles - W - start + W = cycles /\ cycles % W = cycles
    BY <1>1, <1>3, OneRound
  <2> QED BY <1>1, <1>3, <2>1, <2>2 DEF Cycles!Elapsed
<1> QED BY <1>1, <1>2, <1>3

(* The cycle cell before its first measurement.                            *)
LEMMA CycleStarts == Cycles!CellInit => CycleInv
<1> SUFFICES ASSUME Cycles!CellInit PROVE CycleInv
  OBVIOUS
<1>1. CycleTypes
  <2>1. W \in Nat \ {0} /\ 0 \in OfCosts
    BY CyclesFit DEF OfCosts
  <2> QED BY <2>1 DEF CycleTypes, Cycles!CellInit
<1>2. Full(0) \in 0 .. W - 1 /\ lo = W - 1 /\ cost = 0 /\ measure = 0
  BY FullCosts DEF OfCosts, Cycles!CellInit
<1>3. CycleBest /\ CycleKept /\ CycleJudged
  <2>1. /\ faults = 0 /\ regular = TRUE
    BY DEF Cycles!CellInit
  <2>2. \A k \in DOMAIN SIZES : ~ (0 > k + 1)
    BY CycleJobs, CyclesFit
  <2> QED BY <1>2, <2>1, <2>2, CyclesFit DEF CycleBest, CycleKept, CycleJudged
<1> QED BY <1>1, <1>3 DEF CycleInv
(* A round of two pairs or more has a checksum that shows.                 *)
LEMMA ChecksumCounts == Cycles!Checksum \in Nat \ {0}
<1>1. OPS \in Nat /\ OPS > 1
  BY RoundsFit, CyclesFit
<1>2. OPS * (OPS - 1) \in Nat /\ OPS * (OPS - 1) >= 1 * 2
  BY <1>1, SMTT(30)
<1>3. (OPS * (OPS - 1)) \div 2 >= 1
  BY <1>2, DivAtLeast
<1> QED BY <1>2, <1>3, DivParts DEF Cycles!Checksum

(* A round of best.                                                        *)
LEMMA CycleRound == CycleInv /\ Cycles!Round => CycleInv'
<1> SUFFICES ASSUME CycleInv, Cycles!Round PROVE CycleInv'
  OBVIOUS
<1> USE DEF CycleInv
<1>1. measure \in DOMAIN Cycles!Jobs /\ measure > 0 /\ outcome = "none"
  BY CycleJobs DEF Cycles!Round, Cycles!Timed, Cycles!Running
<1>2. PICK noise \in Noise :
        LET cycles == OPS * (Harness + (IF Cycles!Now.kind = "floor" THEN 0 ELSE cost)) + noise
            elapsed == Cycles!Elapsed(ccount, (ccount + cycles) % W)
        IN /\ ccount' = (ccount + cycles) % W
           /\ lo' = IF Cycles!Counts(repeat) /\ elapsed < lo THEN elapsed ELSE lo
           /\ checksum' = IF Cycles!Counts(repeat) THEN Cycles!Checksum ELSE checksum
           /\ quiet' = [quiet EXCEPT !.best = @ \/ (repeat >= WARMUP /\ noise = 0)]
  BY DEF Cycles!Round
<1>3. Cycles!Now.kind = "floor" => cost = 0
  <2>1. measure > 1 => Cycles!Now.kind # "floor"
    BY <1>1, CycleWhere DEF Cycles!Now
  <2> QED BY <2>1 DEF CycleBest, CycleTypes
<1>4. OPS * (Harness + (IF Cycles!Now.kind = "floor" THEN 0 ELSE cost)) + noise
        = Full(cost) + noise
  BY <1>3 DEF Full
<1>5. Full(cost) + noise \in Nat /\ Full(cost) + noise < W /\ noise \in Nat
      /\ Full(cost) \in 0 .. W - 1
  BY FullCosts, CyclesFit DEF CycleTypes
<1>6. /\ (ccount + (Full(cost) + noise)) % W \in 0 .. W - 1
      /\ Cycles!Elapsed(ccount, (ccount + (Full(cost) + noise)) % W) = Full(cost) + noise
  BY <1>5, CounterReads DEF CycleTypes
<1>7. /\ ccount' \in 0 .. W - 1
      /\ lo' = IF repeat >= WARMUP /\ Full(cost) + noise < lo THEN Full(cost) + noise ELSE lo
      /\ checksum' = IF repeat >= WARMUP THEN Cycles!Checksum ELSE checksum
      /\ quiet' = [quiet EXCEPT !.best = @ \/ (repeat >= WARMUP /\ noise = 0)]
  BY <1>2, <1>4, <1>6 DEF Cycles!Counts
<1>8. /\ quiet' \in [best : BOOLEAN, all : BOOLEAN] /\ quiet'.all = quiet.all
      /\ quiet'.best => quiet.best \/ (repeat >= WARMUP /\ noise = 0)
  BY <1>7 DEF CycleTypes
<1>9. /\ repeat' = repeat + 1
      /\ UNCHANGED <<measure, cost, floor, up, faults, expected, outcome, paid, regular>>
  BY DEF Cycles!Round, Cycles!tally
<1>10. CycleTypes'
  <2>0. W \in Nat /\ lo \in 0 .. W - 1 /\ repeat \in Nat
    BY CyclesFit DEF CycleTypes
  <2>1. lo' \in 0 .. W - 1 /\ repeat' \in Nat
    <3>1. lo' = Full(cost) + noise \/ lo' = lo
      BY <1>7
    <3>2. Full(cost) + noise \in 0 .. W - 1
      BY <1>5, <2>0
    <3> QED BY <1>9, <2>0, <3>1, <3>2
  <2>2. checksum' \in {0, Cycles!Checksum} /\ Cycles!Checksum' = Cycles!Checksum
    BY <1>7 DEF CycleTypes, Cycles!Checksum
  <2> QED BY <1>7, <1>8, <1>9, <2>1, <2>2 DEF CycleTypes
<1>11. CycleBest'
  <2>1. Full(cost)' = Full(cost)
    BY <1>9 DEF Full
  <2> QED BY <1>1, <1>5, <1>7, <1>8, <1>9, <2>1 DEF CycleBest, CycleTypes
<1>12. CycleKept'
  <2>1. \A k \in DOMAIN SIZES : Full(paid[k])' = Full(paid[k])
    BY <1>9 DEF Full
  <2> QED BY <1>8, <1>9, <2>1 DEF CycleKept, Full
<1>13. CycleJudged'
  BY <1>8, <1>9 DEF CycleJudged, CycleTypes
<1> QED BY <1>10, <1>11, <1>12, <1>13

(* The next measurement starts over.                                       *)
LEMMA CycleStartsOver ==
  ASSUME CycleInv, Cycles!NewJob, measure > 0
  PROVE  /\ cost' \in OfCosts /\ repeat' \in Nat /\ lo' \in 0 .. W - 1
         /\ checksum' \in {0, Cycles!Checksum} /\ measure' = measure + 1 /\ measure' \in Nat
         /\ quiet' \in [best : BOOLEAN, all : BOOLEAN]
         /\ quiet'.all => quiet.all /\ quiet.best
         /\ CycleBest'
<1>1. /\ measure' = measure + 1 /\ repeat' = 0 /\ lo' = W - 1 /\ checksum' = 0
      /\ cost' \in Costs /\ quiet' = [best |-> FALSE, all |-> quiet.all /\ quiet.best]
  BY DEF Cycles!NewJob
<1>2. cost' \in OfCosts /\ Full(cost') \in 0 .. W - 1 /\ lo' \in 0 .. W - 1
  BY <1>1, FullCosts, CyclesFit DEF OfCosts
<1>3. CycleBest'
  <2>1. Full(cost)' = Full(cost')
    BY DEF Full
  <2> QED BY <1>1, <1>2, <2>1, CyclesFit DEF CycleBest, CycleInv, CycleTypes
<1> QED BY <1>1, <1>2, <1>3 DEF CycleInv, CycleTypes

(* Behind the sizes going up, what is kept of them stays.                  *)
LEMMA CyclePast ==
  ASSUME CycleInv, measure \in DOMAIN Cycles!Jobs, Cycles!Now.kind \notin {"floor", "up"},
         measure' = measure + 1, UNCHANGED <<floor, up, paid>>, quiet'.all => quiet.all
  PROVE  CycleKept'
<1>1. /\ measure \in Nat /\ measure > Len(SIZES) + 1 /\ Len(SIZES) \in Nat
      /\ DOMAIN SIZES = 1 .. Len(SIZES)
  <2>1. measure \in 1 .. CycleRows /\ measure # 1 /\ CycleRows \in Nat
    BY CycleJobs, CycleWhere DEF Cycles!Now
  <2>2. ~ (measure \in 2 .. Len(SIZES) + 1)
    BY CycleJobs DEF Cycles!Now
  <2>3. Len(SIZES) \in Nat /\ DOMAIN SIZES = 1 .. Len(SIZES)
    BY CyclesFit
  <2> QED BY <2>1, <2>2, <2>3
<1>2. \A k \in DOMAIN SIZES : measure > k + 1
  BY <1>1
<1> QED BY <1>1, <1>2 DEF CycleInv, CycleKept, Full

(* The floor is what the loop takes.                                       *)
LEMMA CycleFloor == CycleInv /\ Cycles!Floor => CycleInv'
<1> SUFFICES ASSUME CycleInv, Cycles!Floor PROVE CycleInv'
  OBVIOUS
<1> USE DEF CycleInv
<1>1. /\ measure \in DOMAIN Cycles!Jobs /\ Cycles!Now.kind = "floor" /\ outcome = "none"
  BY DEF Cycles!Floor, Cycles!Ended, Cycles!Timed, Cycles!Running
<1>2. measure = 1
  BY <1>1, CycleWhere DEF Cycles!Now
<1>3. /\ floor' = lo /\ Cycles!NewJob
      /\ UNCHANGED <<ccount, up, faults, expected, outcome, paid, regular>>
  BY DEF Cycles!Floor
<1>4. /\ cost' \in OfCosts /\ repeat' \in Nat /\ lo' \in 0 .. W - 1
      /\ checksum' \in {0, Cycles!Checksum} /\ measure' = measure + 1 /\ measure' \in Nat
      /\ quiet' \in [best : BOOLEAN, all : BOOLEAN]
      /\ quiet'.all => quiet.all /\ quiet.best
      /\ CycleBest'
  BY <1>2, <1>3, CycleStartsOver
<1>5. CycleTypes'
  BY <1>3, <1>4 DEF CycleTypes
<1>6. CycleKept'
  <2>1. quiet'.all => floor' = Full(0)
    BY <1>2, <1>3, <1>4 DEF CycleBest
  <2>2. Full(0)' = Full(0) /\ \A k \in DOMAIN SIZES : ~ (2 > k + 1)
    BY CyclesFit DEF Full
  <2> QED BY <1>2, <1>3, <1>4, <2>1, <2>2 DEF CycleKept, Full
<1>7. CycleJudged'
  BY <1>1, <1>3, <1>4 DEF CycleJudged, CycleTypes
<1> QED BY <1>4, <1>5, <1>6, <1>7

(* A size going up: it costs more than the loop exactly if it costs.       *)
LEMMA CycleUp == CycleInv /\ Cycles!Up => CycleInv'
<1> SUFFICES ASSUME CycleInv, Cycles!Up PROVE CycleInv'
  OBVIOUS
<1> USE DEF CycleInv
<1> DEFINE k == Cycles!Now.at
<1>1. /\ measure \in DOMAIN Cycles!Jobs /\ Cycles!Now.kind = "up" /\ outcome = "none"
  BY DEF Cycles!Up, Cycles!Ended, Cycles!Timed, Cycles!Running
<1>2. k \in DOMAIN SIZES /\ k \in Nat \ {0} /\ measure = k + 1
  BY <1>1, CycleWhere DEF Cycles!Now
<1> HIDE DEF k
<1>3. /\ up' = [up EXCEPT ![k] = lo]
      /\ faults' = faults + Cycles!If(checksum = 0) + Cycles!If(Cycles!PerOp(lo) = 0)
      /\ paid' = [paid EXCEPT ![k] = cost]
      /\ regular' = (regular /\ cost # 0)
      /\ Cycles!NewJob
      /\ UNCHANGED <<ccount, floor, expected, outcome>>
  BY DEF Cycles!Up, k
<1>4. /\ cost' \in OfCosts /\ repeat' \in Nat /\ lo' \in 0 .. W - 1
      /\ checksum' \in {0, Cycles!Checksum} /\ measure' = measure + 1 /\ measure' \in Nat
      /\ quiet' \in [best : BOOLEAN, all : BOOLEAN]
      /\ quiet'.all => quiet.all /\ quiet.best
      /\ CycleBest'
  BY <1>2, <1>3, CycleStartsOver
<1>5. CycleTypes'
  BY <1>2, <1>3, <1>4 DEF CycleTypes, Cycles!If
<1>6. CycleKept'
  <2> SUFFICES ASSUME quiet'.all
               PROVE  /\ floor' = Full(0)
                      /\ \A m \in DOMAIN SIZES : measure' > m + 1 => up'[m] = Full(paid'[m])
    BY DEF CycleKept, Full
  <2>1. floor' = Full(0) /\ lo = Full(cost)
    BY <1>2, <1>3, <1>4 DEF CycleKept, CycleBest
  <2>2. ASSUME NEW m \in DOMAIN SIZES, measure' > m + 1
        PROVE  up'[m] = Full(paid'[m])
    <3>1. m \in Nat
      BY CyclesFit
    <3>2. CASE m = k
      BY <1>2, <1>3, <2>1, <3>2 DEF CycleTypes
    <3>3. CASE m # k
      <4>1. measure > m + 1
        BY <1>2, <1>4, <2>2, <3>1, <3>3
      <4>2. up[m] = Full(paid[m])
        BY <1>4, <4>1 DEF CycleKept
      <4> QED BY <1>3, <3>3, <4>2 DEF CycleTypes
    <3> QED BY <3>2, <3>3
  <2> QED BY <2>1, <2>2
<1>7. CycleJudged'
  <2>1. ASSUME quiet'.all PROVE faults' = 0 <=> regular'
    <3>1. lo = Full(cost) /\ checksum = Cycles!Checksum /\ floor = Full(0)
          /\ (faults = 0 <=> regular)
      BY <1>2, <1>4, <2>1 DEF CycleBest, CycleKept, CycleJudged
    <3>2. Cycles!PerOp(lo) = cost
      <4>1. Full(cost) >= Full(0) /\ (Full(cost) - Full(0)) \div OPS = cost
        BY FullCosts DEF CycleTypes, OfCosts
      <4> QED BY <3>1, <4>1 DEF Cycles!PerOp
    <3>3. Cycles!Checksum # 0
      BY ChecksumCounts
    <3>4. faults' = faults + Cycles!If(cost = 0)
      BY <1>3, <3>1, <3>2, <3>3 DEF Cycles!If, CycleTypes
    <3>5. CASE cost = 0
      <4>1. faults' = faults + 1 /\ faults \in Nat
        BY <3>4, <3>5 DEF Cycles!If, CycleTypes
      <4>2. ~ regular'
        BY <1>3, <3>5, Zenon
      <4> QED BY <4>1, <4>2
    <3>6. CASE cost # 0
      <4>1. faults' = faults /\ (regular' <=> regular)
        BY <1>3, <3>4, <3>6 DEF Cycles!If, CycleTypes
      <4> QED BY <3>1, <4>1
    <3> QED BY <3>5, <3>6
  <2> QED BY <1>1, <1>3, <2>1 DEF CycleJudged
<1> QED BY <1>4, <1>5, <1>6, <1>7

(* A size coming down: it takes what it took going up exactly if it costs  *)
(* the same.                                                               *)
LEMMA CycleComesDown == CycleInv /\ Cycles!ComeDown => CycleInv'
<1> SUFFICES ASSUME CycleInv, Cycles!ComeDown PROVE CycleInv'
  OBVIOUS
<1> USE DEF CycleInv
<1> DEFINE k == Cycles!Now.at
           told == Cycles!Now.size = HISTORY_DEPENDENT
<1>1. /\ measure \in DOMAIN Cycles!Jobs /\ Cycles!Now.kind = "down" /\ outcome = "none"
  BY DEF Cycles!ComeDown, Cycles!Ended, Cycles!Timed, Cycles!Running
<1>2. k \in DOMAIN SIZES /\ measure \in Nat /\ measure > k + 1 /\ measure > 1
  BY <1>1, CycleWhere DEF Cycles!Now
<1> HIDE DEF k
<1>3. /\ \/ lo = up[k] /\ faults' = faults
         \/ lo # up[k] /\ told /\ faults' = faults
         \/ lo # up[k] /\ ~told /\ faults' = faults + 1
      /\ expected' \in {expected, expected + 1}
      /\ regular' = (regular /\ (told \/ paid[k] = cost))
      /\ Cycles!NewJob
      /\ UNCHANGED <<ccount, floor, up, outcome, paid>>
  BY DEF Cycles!ComeDown, Cycles!Declared, k
<1> HIDE DEF told
<1>4. /\ cost' \in OfCosts /\ repeat' \in Nat /\ lo' \in 0 .. W - 1
      /\ checksum' \in {0, Cycles!Checksum} /\ measure' = measure + 1 /\ measure' \in Nat
      /\ quiet' \in [best : BOOLEAN, all : BOOLEAN]
      /\ quiet'.all => quiet.all /\ quiet.best
      /\ CycleBest'
  BY <1>2, <1>3, CycleStartsOver
<1>5. CycleTypes'
  <2>1. faults' \in Nat /\ expected' \in Nat
    BY <1>3 DEF CycleTypes
  <2>2. regular' \in BOOLEAN
    BY <1>3, Zenon
  <2> QED BY <1>3, <1>4, <2>1, <2>2 DEF CycleTypes
<1>6. CycleKept'
  BY <1>1, <1>3, <1>4, CyclePast
<1>7. CycleJudged'
  <2>1. ASSUME quiet'.all PROVE faults' = 0 <=> regular'
    <3>1. /\ lo = Full(cost) /\ up[k] = Full(paid[k]) /\ paid[k] \in OfCosts
          /\ (faults = 0 <=> regular)
      BY <1>2, <1>4, <2>1 DEF CycleBest, CycleKept, CycleJudged, CycleTypes
    <3>2. lo = up[k] <=> paid[k] = cost
      BY <3>1, FullCosts DEF CycleTypes
    <3>3. CASE told \/ paid[k] = cost
      <4>1. faults' = faults /\ (regular' <=> regular)
        BY <1>3, <3>2, <3>3
      <4> QED BY <3>1, <4>1
    <3>4. CASE ~told /\ paid[k] # cost
      <4>1. faults' = faults + 1 /\ faults \in Nat
        BY <1>3, <3>2, <3>4 DEF CycleTypes
      <4>2. ~ regular'
        BY <1>3, <3>4, Zenon
      <4> QED BY <4>1, <4>2
    <3> QED BY <3>3, <3>4
  <2> QED BY <1>1, <1>3, <2>1 DEF CycleJudged
<1> QED BY <1>4, <1>5, <1>6, <1>7

(* A size at a boundary is not judged.                                     *)
LEMMA CycleRouting == CycleInv /\ Cycles!Routing => CycleInv'
<1> SUFFICES ASSUME CycleInv, Cycles!Routing PROVE CycleInv'
  OBVIOUS
<1> USE DEF CycleInv
<1>1. /\ measure \in DOMAIN Cycles!Jobs /\ Cycles!Now.kind = "routing" /\ outcome = "none"
  BY DEF Cycles!Routing, Cycles!Ended, Cycles!Timed, Cycles!Running
<1>2. measure \in Nat /\ measure > 0
  BY <1>1, CycleWhere
<1>3. /\ faults' = faults + Cycles!If(checksum = 0)
      /\ Cycles!NewJob
      /\ UNCHANGED <<ccount, floor, up, expected, outcome, paid, regular>>
  BY DEF Cycles!Routing
<1>4. /\ cost' \in OfCosts /\ repeat' \in Nat /\ lo' \in 0 .. W - 1
      /\ checksum' \in {0, Cycles!Checksum} /\ measure' = measure + 1 /\ measure' \in Nat
      /\ quiet' \in [best : BOOLEAN, all : BOOLEAN]
      /\ quiet'.all => quiet.all /\ quiet.best
      /\ CycleBest'
  BY <1>2, <1>3, CycleStartsOver
<1>5. CycleTypes'
  BY <1>3, <1>4 DEF CycleTypes, Cycles!If
<1>6. CycleKept'
  BY <1>1, <1>3, <1>4, CyclePast
<1>7. CycleJudged'
  <2>1. quiet'.all => faults' = faults
    BY <1>2, <1>3, <1>4, ChecksumCounts DEF CycleBest, CycleTypes, Cycles!If
  <2> QED BY <1>1, <1>3, <1>4, <2>1 DEF CycleJudged
<1> QED BY <1>4, <1>5, <1>6, <1>7

(* The counters of a counted size.                                         *)
LEMMA CycleCount == CycleInv /\ Cycles!Count => CycleInv'
<1> SUFFICES ASSUME CycleInv, Cycles!Count PROVE CycleInv'
  OBVIOUS
<1> USE DEF CycleInv
<1>1. /\ measure \in DOMAIN Cycles!Jobs /\ Cycles!Now.kind = "counted" /\ outcome = "none"
  BY DEF Cycles!Count, Cycles!Running
<1>2. measure \in Nat /\ measure > 1
  BY <1>1, CycleWhere DEF Cycles!Now
<1>3. /\ faults' \in {faults, faults + 1, faults + 2}
      /\ regular' <=> regular /\ faults' = faults
      /\ regular' \in BOOLEAN
      /\ measure' = measure + 1
      /\ UNCHANGED <<ccount, cost, repeat, lo, checksum, floor, up, expected, outcome, quiet,
                     paid>>
  <2>1. PICK generic \in 0 .. COUNT_OPS, retired \in 0 .. COUNT_OPS :
       /\ faults' = faults +
            IF Cycles!Now.size <= DirectMax
            THEN Cycles!If(generic >= COUNT_OPS) + Cycles!If(retired > COUNT_OPS \div Sweep)
            ELSE Cycles!If(retired # 0)
       /\ regular' = (regular /\ Cycles!AsRouted(Cycles!Now.size, generic, retired))
    BY DEF Cycles!Count
  <2>2. faults' \in {faults, faults + 1, faults + 2}
    BY <2>1 DEF CycleTypes, Cycles!If
  <2>4. /\ retired > COUNT_OPS \div Sweep <=> ~ (retired * Sweep <= COUNT_OPS)
        /\ generic \in Nat /\ retired \in Nat /\ COUNT_OPS \in Nat
    <3>1. generic \in Nat /\ retired \in Nat /\ COUNT_OPS \in Nat /\ Sweep \in Nat \ {0}
      BY CyclesFit
    <3> DEFINE d == COUNT_OPS \div Sweep
               m == retired * Sweep
    <3>2. (d >= retired <=> COUNT_OPS >= m) /\ d \in Nat /\ m \in Nat
      BY <3>1, DivAtLeast, DivParts, SMTT(30)
    <3> HIDE DEF d, m
    <3>3. retired > d <=> ~ (m <= COUNT_OPS)
      BY <3>1, <3>2
    <3> QED BY <3>1, <3>3 DEF d, m
  <2>5. Cycles!AsRouted(Cycles!Now.size, generic, retired) \in BOOLEAN
    BY DEF Cycles!AsRouted
  <2>6. faults' = faults <=> Cycles!AsRouted(Cycles!Now.size, generic, retired)
    <3> DEFINE many == retired > COUNT_OPS \div Sweep
               few == retired * Sweep <= COUNT_OPS
    <3>1. faults \in Nat
      BY DEF CycleTypes
    <3>2. many <=> ~few
      BY <2>4
    <3> HIDE DEF many, few
    <3>3. CASE Cycles!Now.size <= DirectMax
      <4>1. faults' = faults + (Cycles!If(generic >= COUNT_OPS) + Cycles!If(many))
        BY <2>1, <3>3 DEF many
      <4>2. Cycles!AsRouted(Cycles!Now.size, generic, retired) <=> generic < COUNT_OPS /\ few
        BY <3>3 DEF Cycles!AsRouted, few
      <4> QED BY <2>4, <3>1, <3>2, <4>1, <4>2 DEF Cycles!If
    <3>4. CASE ~ (Cycles!Now.size <= DirectMax)
      <4>1. faults' = faults + Cycles!If(retired # 0)
        BY <2>1, <3>4
      <4>2. Cycles!AsRouted(Cycles!Now.size, generic, retired) <=> retired = 0
        BY <3>4 DEF Cycles!AsRouted
      <4> QED BY <2>4, <3>1, <4>1, <4>2 DEF Cycles!If
    <3> QED BY <3>3, <3>4
  <2>7. (regular' <=> regular /\ faults' = faults) /\ regular' \in BOOLEAN
    BY <2>1, <2>5, <2>6, Zenon
  <2>3. /\ measure' = measure + 1
        /\ UNCHANGED <<ccount, cost, repeat, lo, checksum, floor, up, expected, outcome, quiet,
                       paid>>
    BY DEF Cycles!Count, Cycles!best
  <2> QED BY <2>2, <2>3, <2>7
<1>4. CycleTypes'
  <2>1. faults' \in Nat /\ measure' \in Nat
    BY <1>2, <1>3 DEF CycleTypes
  <2>2. regular' \in BOOLEAN
    BY <1>3
  <2>3. Cycles!Checksum' = Cycles!Checksum
    BY DEF Cycles!Checksum
  <2> QED BY <1>3, <2>1, <2>2, <2>3 DEF CycleTypes
<1>5. CycleBest'
  <2>1. Full(cost)' = Full(cost) /\ Cycles!Checksum' = Cycles!Checksum
    BY <1>3 DEF Full, Cycles!Checksum
  <2> QED BY <1>2, <1>3, <2>1 DEF CycleBest
<1>6. CycleKept'
  BY <1>1, <1>3, CyclePast
<1>7. CycleJudged'
  <2>1. ASSUME quiet'.all PROVE faults' = 0 <=> regular'
    <3>1. (faults = 0 <=> regular) /\ faults \in Nat
      BY <1>3, <2>1 DEF CycleJudged, CycleTypes
    <3>2. CASE faults' = faults
      BY <1>3, <3>1, <3>2
    <3>3. CASE faults' # faults
      <4>1. ~ regular'
        BY <1>3, <3>3, Zenon
      <4> QED BY <1>3, <3>1, <3>3, <4>1
    <3> QED BY <3>2, <3>3
  <2> QED BY <1>1, <1>3, <2>1 DEF CycleJudged
<1> QED BY <1>4, <1>5, <1>6, <1>7

(* The probe, and what is printed of it all.                               *)
LEMMA CycleProbe == CycleInv /\ Cycles!Probe => CycleInv'
<1> SUFFICES ASSUME CycleInv, Cycles!Probe PROVE CycleInv'
  OBVIOUS
<1> USE DEF CycleInv
<1>1. PICK seeing \in BOOLEAN :
        faults' = faults + Cycles!If(~seeing) /\ regular' = (regular /\ seeing)
  BY DEF Cycles!Probe
<1>2. /\ outcome' = IF faults' = 0 THEN "PASS" ELSE "FAIL"
      /\ UNCHANGED <<ccount, measure, cost, repeat, lo, checksum, floor, up, expected, quiet,
                     paid>>
  BY DEF Cycles!Probe, Cycles!best
<1>3. CycleTypes'
  <2>1. faults' \in Nat
    BY <1>1 DEF CycleTypes, Cycles!If
  <2>2. regular' \in BOOLEAN
    BY <1>1, Zenon
  <2>3. Cycles!Checksum' = Cycles!Checksum
    BY DEF Cycles!Checksum
  <2> QED BY <1>2, <2>1, <2>2, <2>3 DEF CycleTypes
<1>4. CycleBest' /\ CycleKept'
  <2>1. Cycles!Checksum' = Cycles!Checksum
    BY DEF Cycles!Checksum
  <2> QED BY <1>2, <2>1 DEF CycleBest, CycleKept, Full
<1>5. CycleJudged'
  <2>1. ASSUME quiet'.all PROVE faults' = 0 <=> regular'
    <3>1. (faults = 0 <=> regular) /\ faults \in Nat
      BY <1>2, <2>1 DEF CycleJudged, CycleTypes
    <3>2. CASE seeing
      <4>1. faults' = faults
        BY <1>1, <3>1, <3>2 DEF Cycles!If
      <4>2. regular' <=> regular
        BY <1>1, <3>2
      <4> QED BY <3>1, <4>1, <4>2
    <3>3. CASE ~seeing
      <4>1. ~ regular'
        BY <1>1, <3>3, Zenon
      <4> QED BY <1>1, <3>1, <3>3, <4>1 DEF Cycles!If
    <3> QED BY <3>2, <3>3
  <2> QED BY <1>2, <2>1 DEF CycleJudged
<1> QED BY <1>3, <1>4, <1>5

(* The region given, or refused.                                           *)
LEMMA CycleGives == CycleInv /\ Cycles!Give => CycleInv'
<1> SUFFICES ASSUME CycleInv, Cycles!Give PROVE CycleInv'
  OBVIOUS
<1> USE DEF CycleInv
<1>1. /\ measure = 0 /\ measure' \in {0, 1}
      /\ measure' = 1 => outcome' = "none"
      /\ outcome' \in {"none", "FAIL"}
      /\ quiet' = [quiet EXCEPT !.best = FALSE]
      /\ UNCHANGED <<ccount, cost, repeat, lo, checksum, floor, up, faults, expected, paid,
                     regular>>
  BY DEF Cycles!Give, Cycles!best
<1>2. quiet' \in [best : BOOLEAN, all : BOOLEAN] /\ quiet'.all = quiet.all /\ ~quiet'.best
  BY <1>1 DEF CycleTypes
<1>3. Cycles!Checksum' = Cycles!Checksum
  BY DEF Cycles!Checksum
<1>4. CycleTypes'
  BY <1>1, <1>2, <1>3 DEF CycleTypes
<1>5. CycleBest'
  BY <1>1, <1>2 DEF CycleBest, Full
<1>6. CycleKept'
  <2>1. \A k \in DOMAIN SIZES : ~ (measure' > k + 1)
    BY <1>1, CyclesFit
  <2> QED BY <1>1, <2>1 DEF CycleKept
<1>7. CycleJudged'
  BY <1>1, <1>2 DEF CycleJudged
<1> QED BY <1>4, <1>5, <1>6, <1>7

(* Every step of the cycle cell.                                           *)
LEMMA CycleSteps == CycleInv /\ [Cycles!CellNext]_cycleVars => CycleInv'
<1> SUFFICES ASSUME CycleInv, [Cycles!CellNext]_cycleVars PROVE CycleInv'
  OBVIOUS
<1>1. CASE UNCHANGED cycleVars
  <2>1. Cycles!Checksum' = Cycles!Checksum
    BY DEF Cycles!Checksum
  <2> QED BY <1>1, <2>1
          DEF CycleInv, CycleTypes, CycleBest, CycleKept, CycleJudged, Full, cycleVars
<1> QED BY <1>1, CycleGives, CycleRound, CycleFloor, CycleUp, CycleComesDown, CycleRouting,
           CycleCount, CycleProbe DEF Cycles!CellNext

-----------------------------------------------------------------------------
(* The comparison of two allocators (esp32s3-devkit-alloc-ab).             *)

PairKinds == {"floor", "null", "clean", "holes"}
AllocKinds == PairKinds \cup {"pool", "split", "probe"}
AllocArms == {<<"empty", "empty">>, <<"rust", "rust">>, <<"rust", "c">>}
AllocRow == [kind : AllocKinds, arms : AllocArms, size : Nat, holes : Nat]
AllocRows == 3 + Len(Sizes) + Len(PoolSizes) + Len(SplitSizes) + Len(HoleCounts)

Slots == 0 .. MAX_HELD - 1
InPair == job \in DOMAIN Jobs /\ Now.kind \in PairKinds
InSplit == job \in DOMAIN Jobs /\ Now.kind = "split"
InPool == job \in DOMAIN Jobs /\ Now.kind = "pool"

(* What a round that met no null has answered after k pairs.               *)
Answer[k \in 0 .. OPS] == IF k = 0 THEN 0 ELSE Answer[k - 1] + Work(k - 1)
Pairs == IF phase \in {"fill", "punch"} THEN 0 ELSE IF phase = "time" THEN i ELSE OPS

Fresh == phase = "fill" /\ i = 0 /\ held = NoneHeld /\ p = NULL /\ sum = 0 /\ bad = FALSE
Begun == /\ Fresh /\ turn = 0 /\ arm = 1 /\ sums = <<0, 0>> /\ anyBad = FALSE
         /\ done = 0 /\ refused = FALSE /\ pool = NoPool

AllocTypes ==
  /\ heap \in [Arms -> SUBSET [at : Int, size : Int]]
  /\ job \in 0 .. AllocRows
  /\ turn \in 0 .. WARMUP + ROUNDS /\ arm \in {1, 2}
  /\ phase \in {"fill", "punch", "time", "drain", "end"} /\ i \in Nat
  /\ held \in [Slots -> Nat \cup {NULL}] /\ p \in Nat \cup {NULL}
  /\ sum \in Nat /\ bad \in BOOLEAN /\ sums \in Nat \X Nat /\ anyBad \in BOOLEAN
  /\ failed \in Nat /\ rows \in Seq({"ok", "null", "differ", "outside"})
  /\ result \in {"none", "PASS", "FAIL", "stopped"} /\ done \in Nat /\ refused \in BOOLEAN
  /\ asserted = FALSE

(* Where a row stands when.                                                *)
AllocControl ==
  /\ job = 0 => Begun
  /\ result # "none" => job \in {0, AllocRows}
  /\ InPair /\ turn = WARMUP + ROUNDS => Fresh /\ arm = 1
  /\ InPair /\ phase = "fill" => i <= Taken(Now.holes)
  /\ InPair /\ phase = "time" => i <= OPS
  /\ InSplit => phase \in {"fill", "drain"} /\ i <= SplitCount(Now.size)
  /\ ~InPair /\ ~InSplit => phase = "fill" /\ ~bad
  /\ p # NULL => InPair /\ phase = "time" /\ i < OPS /\ Arm \in Arms

(* Which slots may have a block; no two have the same.                     *)
May(k) ==
  \/ /\ InPair /\ k < Taken(Now.holes) /\ phase # "end"
     /\ phase = "fill" => k < i
     /\ phase = "drain" => k >= i
  \/ InSplit /\ k < SplitCount(Now.size) /\ (phase = "fill" => k < i)

AllocHeld ==
  /\ \A k \in Slots : held[k] # NULL => May(k)
  /\ \A k, m \in Slots : k # m /\ held[k] # NULL => held[k] # held[m]
  /\ p # NULL => \A k \in Slots : held[k] # p

(* What is on the heaps is what the round has in hand.                     *)
BlockAt(at, size) == [at |-> at, size |-> size]
Owner == IF InPair THEN Arm ELSE "rust"
Unit == IF InSplit THEN Now.size ELSE HoleSize
Lives(k) == held[k] # NULL /\ (InSplit /\ phase = "drain" => k >= i)
InHand == {BlockAt(held[k], Unit) : k \in {m \in Slots : Lives(m)}}
            \cup (IF p = NULL THEN {} ELSE {BlockAt(p, Now.size)})

AllocHeap == \A a \in Arms : heap[a] = IF a = Owner THEN InHand ELSE {}

(* Where heap_4 puts the blocks, as long as it finds room for each.        *)
AllocGaps ==
  InPair /\ Arm = "c" /\ ~bad =>
    /\ \A k \in Slots : held[k] # NULL => held[k] = k * HoleSize
    /\ phase = "fill" => \A k \in 0 .. i - 1 : held[k] # NULL
    /\ phase = "punch" =>
         i % 2 = 0 /\ \A k \in 0 .. Taken(Now.holes) - 1 : held[k] = NULL <=> k % 2 = 0 /\ k < i
    /\ phase = "time" => \A k \in 0 .. Taken(Now.holes) - 1 : held[k] = NULL <=> k % 2 = 0
    /\ p # NULL => p = 2 * (Taken(Now.holes) \div 2) * HoleSize

(* What the rounds so far say.                                             *)
AllocFigures ==
  InPair =>
    /\ refused <=> anyBad \/ (Counted /\ bad)
    /\ ~bad => sum = Answer[Pairs]
    /\ ~Counted => done = 0 /\ ~anyBad
    /\ Counted /\ ~refused =>
         /\ done = OPS * (2 * (turn - WARMUP) + (arm - 1)) + Pairs
         /\ turn > WARMUP \/ arm = 2 => sums[1] = Answer[OPS]
         /\ turn > WARMUP => sums[2] = Answer[OPS]

(* How many rows are printed before row j, and what they are.              *)
Printed(j) ==
  LET n == Len(Sizes)
      m == n + Len(PoolSizes) + Len(SplitSizes) + 3
  IN (IF j <= 3 THEN 0 ELSE IF j <= n + 3 THEN j - 3 ELSE n) + (IF j <= m THEN 0 ELSE j - m)

AllocRowsPrinted ==
  /\ Len(rows) = Printed(job) + (IF job > 0 /\ result # "none" THEN 1 ELSE 0)
  /\ failed = 0 => \A k \in 1 .. Len(rows) : rows[k] = "ok"
  /\ result = "PASS" => failed = 0 /\ job = AllocRows

(* The pool is whole, or wants the one block that is out.                  *)
AllocPool ==
  \/ pool = NoPool
  \/ InPool /\ pool = NewPool(Now.size)
  \/ InPool /\ pool = [NewPool(Now.size) EXCEPT !.top = BLOCKS - 1,
                                                !.out = (BLOCKS - 1) * Stride(Now.size)]

AllocInv == /\ AllocTypes /\ AllocControl /\ AllocHeld /\ AllocHeap /\ AllocGaps
            /\ AllocFigures /\ AllocRowsPrinted /\ AllocPool

(* The rows of one kind.                                                   *)
AllocTable(kind, s) ==
  /\ Each(kind, s) \in Seq(AllocRow) /\ Len(Each(kind, s)) = Len(s)
  /\ \A k \in 1 .. Len(s) : Each(kind, s)[k] = Row(kind, <<"rust", "c">>, s[k], 0)

LEMMA AllocTables ==
  ASSUME NEW kind \in AllocKinds, NEW s \in Seq(Nat)
  PROVE  AllocTable(kind, s)
<1> DEFINE f == [k \in 1 .. Len(s) |-> Row(kind, <<"rust", "c">>, s[k], 0)]
<1>1. DOMAIN s = 1 .. Len(s) /\ Len(s) \in Nat /\ \A k \in 1 .. Len(s) : s[k] \in Nat
  OBVIOUS
<1>2. Each(kind, s) = f
  BY <1>1, Zenon DEF Each
<1>3. f \in [1 .. Len(s) -> AllocRow]
  BY <1>1 DEF AllocRow, Row, AllocArms
<1>4. \A k \in 1 .. Len(s) : f[k] = Row(kind, <<"rust", "c">>, s[k], 0)
  OBVIOUS
<1> HIDE DEF f
<1>5. f \in Seq(AllocRow) /\ Len(f) = Len(s)
  BY <1>1, <1>3, Table, Zenon
<1> QED BY <1>2, <1>4, <1>5, Zenon DEF AllocTable

(* The order of the rows.                                                  *)
LEMMA AllocJobs ==
  LET n == Len(Sizes)
      q == n + Len(PoolSizes)
      t == q + Len(SplitSizes)
      h == t + Len(HoleCounts)
  IN
  /\ n \in Nat /\ q \in Nat /\ t \in Nat /\ h \in Nat /\ n <= q /\ q <= t /\ t <= h
  /\ DOMAIN Jobs = 1 .. AllocRows /\ AllocRows = h + 3
  /\ Jobs[1] = Row("floor", <<"empty", "empty">>, 0, 0)
  /\ Jobs[2] = Row("null", <<"rust", "rust">>, ProbeSize, 0)
  /\ \A j \in 3 .. n + 2 : \E size \in Nat \ {0} : Jobs[j] = Row("clean", <<"rust", "c">>, size, 0)
  /\ \A j \in n + 3 .. q + 2 : \E size \in Nat : Jobs[j] = Row("pool", <<"rust", "c">>, size, 0)
  /\ \A j \in q + 3 .. t + 2 :
       \E size \in Nat \ {0} : Jobs[j] = Row("split", <<"rust", "c">>, size, 0)
  /\ \A j \in t + 3 .. h + 2 :
       \E holes \in Nat : Jobs[j] = Row("holes", <<"rust", "c">>, HoledSize, holes)
  /\ Jobs[h + 3] = Row("probe", <<"rust", "c">>, ProbeSize, 0)
<1> DEFINE n == Len(Sizes)
           q == Len(PoolSizes)
           t == Len(SplitSizes)
           h == Len(HoleCounts)
           F == << Row("floor", <<"empty", "empty">>, 0, 0),
                   Row("null", <<"rust", "rust">>, ProbeSize, 0) >>
           C == Each("clean", Sizes)
           Q == Each("pool", PoolSizes)
           D == Each("split", SplitSizes)
           H == [k \in DOMAIN HoleCounts |->
                   Row("holes", <<"rust", "c">>, HoledSize, HoleCounts[k])]
           P == << Row("probe", <<"rust", "c">>, ProbeSize, 0) >>
<1>1. /\ Sizes \in Seq(Nat \ {0}) /\ PoolSizes \in Seq(Nat) /\ SplitSizes \in Seq(Nat \ {0})
      /\ HoleCounts \in Seq(Nat) /\ ProbeSize \in Nat /\ HoledSize \in Nat
      /\ n \in Nat /\ q \in Nat /\ t \in Nat /\ h \in Nat
      /\ Sizes \in Seq(Nat) /\ SplitSizes \in Seq(Nat)
      /\ DOMAIN Sizes = 1 .. n /\ DOMAIN PoolSizes = 1 .. q
      /\ DOMAIN SplitSizes = 1 .. t /\ DOMAIN HoleCounts = 1 .. h
  <2>1. /\ Sizes \in Seq(Nat \ {0}) /\ PoolSizes \in Seq(Nat) /\ SplitSizes \in Seq(Nat \ {0})
        /\ HoleCounts \in Seq(Nat) /\ ProbeSize \in Nat /\ HoledSize \in Nat
    BY RoundsFit
  <2>2. \A s \in Seq(Nat \ {0}) : s \in Seq(Nat)
    OBVIOUS
  <2> QED BY <2>1, <2>2
<1>2. F \in Seq(AllocRow) /\ P \in Seq(AllocRow) /\ Len(F) = 2 /\ Len(P) = 1
      /\ F[1] = Row("floor", <<"empty", "empty">>, 0, 0)
      /\ F[2] = Row("null", <<"rust", "rust">>, ProbeSize, 0)
      /\ P[1] = Row("probe", <<"rust", "c">>, ProbeSize, 0)
  <2>1. /\ Row("floor", <<"empty", "empty">>, 0, 0) \in AllocRow
        /\ Row("null", <<"rust", "rust">>, ProbeSize, 0) \in AllocRow
        /\ Row("probe", <<"rust", "c">>, ProbeSize, 0) \in AllocRow
    BY <1>1 DEF Row, AllocRow, AllocKinds, PairKinds, AllocArms
  <2> QED BY <2>1
<1>3. AllocTable("clean", Sizes) /\ AllocTable("pool", PoolSizes) /\ AllocTable("split", SplitSizes)
  <2>1. {"clean", "pool", "split"} \subseteq AllocKinds
    BY DEF AllocKinds, PairKinds
  <2> QED BY <1>1, <2>1, AllocTables
<1>4. C \in Seq(AllocRow) /\ Len(C) = n
      /\ \A k \in 1 .. n : C[k] = Row("clean", <<"rust", "c">>, Sizes[k], 0)
  BY <1>3, Zenon DEF AllocTable
<1>5. Q \in Seq(AllocRow) /\ Len(Q) = q
      /\ \A k \in 1 .. q : Q[k] = Row("pool", <<"rust", "c">>, PoolSizes[k], 0)
  BY <1>3, Zenon DEF AllocTable
<1>6. D \in Seq(AllocRow) /\ Len(D) = t
      /\ \A k \in 1 .. t : D[k] = Row("split", <<"rust", "c">>, SplitSizes[k], 0)
  BY <1>3, Zenon DEF AllocTable
<1>7. H \in Seq(AllocRow) /\ Len(H) = h
      /\ \A k \in 1 .. h : H[k] = Row("holes", <<"rust", "c">>, HoledSize, HoleCounts[k])
  <2>1. H \in [1 .. h -> AllocRow]
    <3>1. \A k \in 1 .. h : Row("holes", <<"rust", "c">>, HoledSize, HoleCounts[k]) \in AllocRow
      BY <1>1 DEF Row, AllocRow, AllocKinds, PairKinds, AllocArms
    <3> QED BY <1>1, <3>1
  <2>2. \A k \in 1 .. h : H[k] = Row("holes", <<"rust", "c">>, HoledSize, HoleCounts[k])
    BY <1>1
  <2>3. h \in Nat
    BY <1>1
  <2> HIDE DEF H, h
  <2>4. H \in Seq(AllocRow) /\ Len(H) = h
    BY <2>1, <2>3, Table, Zenon
  <2> QED BY <2>2, <2>4
<1> HIDE DEF F, C, Q, D, H, P
<1>8. Jobs = F \o C \o Q \o D \o H \o P
  BY DEF Jobs, NullArm, NullAB, CleanTable, PoolTable, HalvesTable, HolesTable, OwnHeap,
         F, C, Q, D, H, P
<1>9. AllocRows = n + q + t + h + 3
  BY <1>1 DEF AllocRows
<1> HIDE DEF n, q, t, h
<1> DEFINE A == F \o C
           B == A \o Q
           G == B \o D
           K == G \o H
<1> HIDE DEF A, B, G, K
<1>10. /\ A \in Seq(AllocRow) /\ Len(A) = 2 + n
       /\ \A j \in 1 .. 2 : A[j] = F[j]
       /\ \A j \in 1 .. n : A[2 + j] = C[j]
  <2>1. Join(AllocRow, F, C)
    BY <1>2, <1>4, Joined, Zenon
  <2> QED BY <1>2, <1>4, <2>1, Zenon DEF Join, A
<1>11. /\ B \in Seq(AllocRow) /\ Len(B) = 2 + n + q
       /\ \A j \in 1 .. 2 + n : B[j] = A[j]
       /\ \A j \in 1 .. q : B[2 + n + j] = Q[j]
  <2>1. Join(AllocRow, A, Q)
    BY <1>10, <1>5, Joined, Zenon
  <2> QED BY <1>10, <1>5, <2>1, Zenon DEF Join, B
<1>12. /\ G \in Seq(AllocRow) /\ Len(G) = 2 + n + q + t
       /\ \A j \in 1 .. 2 + n + q : G[j] = B[j]
       /\ \A j \in 1 .. t : G[2 + n + q + j] = D[j]
  <2>1. Join(AllocRow, B, D)
    BY <1>11, <1>6, Joined, Zenon
  <2> QED BY <1>11, <1>6, <2>1, Zenon DEF Join, G
<1>13. /\ K \in Seq(AllocRow) /\ Len(K) = 2 + n + q + t + h
       /\ \A j \in 1 .. 2 + n + q + t : K[j] = G[j]
       /\ \A j \in 1 .. h : K[2 + n + q + t + j] = H[j]
  <2>1. Join(AllocRow, G, H)
    BY <1>12, <1>7, Joined, Zenon
  <2> QED BY <1>12, <1>7, <2>1, Zenon DEF Join, K
<1>14. /\ Jobs \in Seq(AllocRow) /\ Len(Jobs) = 2 + n + q + t + h + 1
       /\ \A j \in 1 .. 2 + n + q + t + h : Jobs[j] = K[j]
       /\ \A j \in 1 .. 1 : Jobs[2 + n + q + t + h + j] = P[j]
  <2>1. Jobs = K \o P
    BY <1>8 DEF K, G, B, A
  <2>2. Join(AllocRow, K, P)
    BY <1>13, <1>2, Joined, Zenon
  <2> QED BY <1>2, <1>13, <2>1, <2>2, Zenon DEF Join
<1>15. AllocRows = n + q + t + h + 3 /\ DOMAIN Jobs = 1 .. AllocRows
  BY <1>1, <1>9, <1>14
<1>16. /\ Jobs[1] = Row("floor", <<"empty", "empty">>, 0, 0)
       /\ Jobs[2] = Row("null", <<"rust", "rust">>, ProbeSize, 0)
  <2>1. /\ 1 \in 1 .. 2 /\ 2 \in 1 .. 2 /\ {1, 2} \subseteq 1 .. 2 + n
        /\ {1, 2} \subseteq 1 .. 2 + n + q /\ {1, 2} \subseteq 1 .. 2 + n + q + t
        /\ {1, 2} \subseteq 1 .. 2 + n + q + t + h
    BY <1>1
  <2>2. Jobs[1] = K[1] /\ Jobs[2] = K[2] /\ K[1] = G[1] /\ K[2] = G[2]
    BY <2>1, <1>13, <1>14
  <2>3. G[1] = B[1] /\ G[2] = B[2] /\ B[1] = A[1] /\ B[2] = A[2] /\ A[1] = F[1] /\ A[2] = F[2]
    BY <2>1, <1>10, <1>11, <1>12
  <2> QED BY <2>2, <2>3, <1>2
<1>17. ASSUME NEW j \in 3 .. n + 2
       PROVE  \E size \in Nat \ {0} : Jobs[j] = Row("clean", <<"rust", "c">>, size, 0)
  <2> PICK k \in 1 .. n : k = j - 2
    BY <1>1
  <2>1. /\ j = 2 + k /\ j \in 1 .. 2 + n /\ j \in 1 .. 2 + n + q /\ j \in 1 .. 2 + n + q + t
        /\ j \in 1 .. 2 + n + q + t + h
    BY <1>1
  <2>2. Jobs[j] = K[j] /\ K[j] = G[j]
    BY <2>1, <1>13, <1>14, Zenon
  <2>3. G[j] = B[j] /\ B[j] = A[j] /\ A[j] = C[k]
    BY <2>1, <1>10, <1>11, <1>12, Zenon
  <2>4. Sizes[k] \in Nat \ {0}
    BY <1>1
  <2> QED BY <2>2, <2>3, <2>4, <1>4
<1>18. ASSUME NEW j \in n + 3 .. n + q + 2
       PROVE  \E size \in Nat : Jobs[j] = Row("pool", <<"rust", "c">>, size, 0)
  <2> PICK k \in 1 .. q : k = j - (2 + n)
    BY <1>1
  <2>1. /\ j = 2 + n + k /\ j \in 1 .. 2 + n + q /\ j \in 1 .. 2 + n + q + t
        /\ j \in 1 .. 2 + n + q + t + h
    BY <1>1
  <2>2. Jobs[j] = K[j] /\ K[j] = G[j]
    BY <2>1, <1>13, <1>14, Zenon
  <2>3. G[j] = B[j] /\ B[j] = Q[k]
    BY <2>1, <1>11, <1>12, Zenon
  <2>4. PoolSizes[k] \in Nat
    BY <1>1
  <2> QED BY <2>2, <2>3, <2>4, <1>5
<1>19. ASSUME NEW j \in n + q + 3 .. n + q + t + 2
       PROVE  \E size \in Nat \ {0} : Jobs[j] = Row("split", <<"rust", "c">>, size, 0)
  <2> PICK k \in 1 .. t : k = j - (2 + n + q)
    BY <1>1
  <2>1. /\ j = 2 + n + q + k /\ j \in 1 .. 2 + n + q + t /\ j \in 1 .. 2 + n + q + t + h
    BY <1>1
  <2>2. Jobs[j] = K[j] /\ K[j] = G[j] /\ G[j] = D[k]
    BY <2>1, <1>12, <1>13, <1>14, Zenon
  <2>4. SplitSizes[k] \in Nat \ {0}
    BY <1>1
  <2> QED BY <2>2, <2>4, <1>6
<1>20. ASSUME NEW j \in n + q + t + 3 .. n + q + t + h + 2
       PROVE  \E holes \in Nat : Jobs[j] = Row("holes", <<"rust", "c">>, HoledSize, holes)
  <2> PICK k \in 1 .. h : k = j - (2 + n + q + t)
    BY <1>1
  <2>1. j = 2 + n + q + t + k /\ j \in 1 .. 2 + n + q + t + h
    BY <1>1
  <2>2. Jobs[j] = K[j] /\ K[j] = H[k]
    BY <2>1, <1>13, <1>14, Zenon
  <2>4. HoleCounts[k] \in Nat
    BY <1>1
  <2> QED BY <2>2, <2>4, <1>7
<1>21. Jobs[n + q + t + h + 3] = Row("probe", <<"rust", "c">>, ProbeSize, 0)
  <2>1. n + q + t + h + 3 = 2 + n + q + t + h + 1 /\ 1 \in 1 .. 1
    BY <1>1
  <2>2. Jobs[2 + n + q + t + h + 1] = P[1]
    BY <2>1, <1>14, Zenon
  <2> QED BY <2>1, <2>2, <1>2
<1>22. /\ n + q \in Nat /\ n + q + t \in Nat /\ n + q + t + h \in Nat
       /\ n <= n + q /\ n + q <= n + q + t /\ n + q + t <= n + q + t + h
  BY <1>1
<1> QED BY <1>1, <1>15, <1>16, <1>17, <1>18, <1>19, <1>20, <1>21, <1>22 DEF n, q, t, h

(* What the rest of the proof needs of a row.                              *)
LEMMA AllocWhere ==
  ASSUME NEW j \in 1 .. AllocRows
  PROVE  /\ Jobs[j].kind \in AllocKinds /\ Jobs[j].arms \in AllocArms
         /\ Jobs[j].size \in Nat /\ Jobs[j].holes \in Nat
         /\ Jobs[j].kind = "probe" <=> j = AllocRows
         /\ Jobs[j].arms = <<"empty", "empty">> => Jobs[j].holes = 0
         /\ Jobs[j].arms # <<"empty", "empty">> /\ Jobs[j].kind \in PairKinds =>
              Jobs[j].size > 0 /\ (Jobs[j].holes = 0 \/ Jobs[j].size > HoleSize)
         /\ Jobs[j].kind = "split" => Jobs[j].size > 0
         /\ Printed(j) \in Nat
         /\ Jobs[j].kind # "probe" =>
              Printed(j + 1) = Printed(j) + (IF Jobs[j].kind \in {"clean", "holes"} THEN 1 ELSE 0)
         /\ Jobs[j].kind \in {"clean", "holes"} => Jobs[j].kind \in PairKinds
<1> DEFINE n == Len(Sizes)
           q == n + Len(PoolSizes)
           t == q + Len(SplitSizes)
           h == t + Len(HoleCounts)
<1>1. /\ n \in Nat /\ q \in Nat /\ t \in Nat /\ h \in Nat /\ n <= q /\ q <= t /\ t <= h
      /\ AllocRows = h + 3 /\ ProbeSize \in Nat \ {0} /\ HoledSize \in Nat /\ HoleSize \in Nat
      /\ HoleSize < HoledSize
  BY AllocJobs, RoundsFit
<1>2. \A k \in Nat : Printed(k) = (IF k <= 3 THEN 0 ELSE IF k <= n + 3 THEN k - 3 ELSE n)
                                  + (IF k <= t + 3 THEN 0 ELSE k - (t + 3))
  BY DEF Printed
<1>3. Jobs[1] = Row("floor", <<"empty", "empty">>, 0, 0)
      /\ Jobs[2] = Row("null", <<"rust", "rust">>, ProbeSize, 0)
      /\ Jobs[h + 3] = Row("probe", <<"rust", "c">>, ProbeSize, 0)
  BY AllocJobs
<1>4. ASSUME j \in 3 .. n + 2
      PROVE  \E size \in Nat \ {0} : Jobs[j] = Row("clean", <<"rust", "c">>, size, 0)
  BY <1>4, AllocJobs
<1>5. ASSUME j \in n + 3 .. q + 2
      PROVE  \E size \in Nat : Jobs[j] = Row("pool", <<"rust", "c">>, size, 0)
  BY <1>5, AllocJobs
<1>6. ASSUME j \in q + 3 .. t + 2
      PROVE  \E size \in Nat \ {0} : Jobs[j] = Row("split", <<"rust", "c">>, size, 0)
  BY <1>6, AllocJobs
<1>7. ASSUME j \in t + 3 .. h + 2
      PROVE  \E holes \in Nat : Jobs[j] = Row("holes", <<"rust", "c">>, HoledSize, holes)
  BY <1>7, AllocJobs
<1> HIDE DEF n, q, t, h
<1>8. <<"empty", "empty">> # <<"rust", "c">> /\ <<"empty", "empty">> # <<"rust", "rust">>
  OBVIOUS
<1>10. CASE j = 1
  <2>1. /\ Jobs[j].kind = "floor" /\ Jobs[j].arms = <<"empty", "empty">>
        /\ Jobs[j].size = 0 /\ Jobs[j].holes = 0
    BY <1>10, <1>3, <1>1 DEF Row
  <2>2. Printed(j) \in Nat /\ Printed(j + 1) = Printed(j)
    BY <1>1, <1>2, <1>10
  <2> QED BY <1>1, <1>8, <1>10, <2>1, <2>2 DEF AllocKinds, PairKinds, AllocArms
<1>11. CASE j = 2
  <2>1. /\ Jobs[j].kind = "null" /\ Jobs[j].arms = <<"rust", "rust">>
        /\ Jobs[j].size = ProbeSize /\ Jobs[j].holes = 0
    BY <1>11, <1>3, <1>1 DEF Row
  <2>2. Printed(j) \in Nat /\ Printed(j + 1) = Printed(j)
    BY <1>1, <1>2, <1>11
  <2> QED BY <1>1, <1>8, <1>11, <2>1, <2>2 DEF AllocKinds, PairKinds, AllocArms
<1>12. CASE j \in 3 .. n + 2
  <2> PICK size \in Nat \ {0} : Jobs[j] = Row("clean", <<"rust", "c">>, size, 0)
    BY <1>12, <1>4
  <2>1. /\ Jobs[j].kind = "clean" /\ Jobs[j].arms = <<"rust", "c">>
        /\ Jobs[j].size = size /\ Jobs[j].holes = 0
    BY <1>1 DEF Row
  <2>2. Printed(j) \in Nat /\ Printed(j + 1) = Printed(j) + 1
    BY <1>1, <1>2, <1>12
  <2> QED BY <1>1, <1>8, <1>12, <2>1, <2>2 DEF AllocKinds, PairKinds, AllocArms
<1>13. CASE j \in n + 3 .. q + 2
  <2> PICK size \in Nat : Jobs[j] = Row("pool", <<"rust", "c">>, size, 0)
    BY <1>13, <1>5
  <2>1. /\ Jobs[j].kind = "pool" /\ Jobs[j].arms = <<"rust", "c">>
        /\ Jobs[j].size = size /\ Jobs[j].holes = 0
    BY <1>1 DEF Row
  <2>2. Printed(j) \in Nat /\ Printed(j + 1) = Printed(j)
    BY <1>1, <1>2, <1>13
  <2> QED BY <1>1, <1>8, <1>13, <2>1, <2>2 DEF AllocKinds, PairKinds, AllocArms
<1>14. CASE j \in q + 3 .. t + 2
  <2> PICK size \in Nat \ {0} : Jobs[j] = Row("split", <<"rust", "c">>, size, 0)
    BY <1>14, <1>6
  <2>1. /\ Jobs[j].kind = "split" /\ Jobs[j].arms = <<"rust", "c">>
        /\ Jobs[j].size = size /\ Jobs[j].holes = 0
    BY <1>1 DEF Row
  <2>2. Printed(j) \in Nat /\ Printed(j + 1) = Printed(j)
    BY <1>1, <1>2, <1>14
  <2> QED BY <1>1, <1>8, <1>14, <2>1, <2>2 DEF AllocKinds, PairKinds, AllocArms
<1>15. CASE j \in t + 3 .. h + 2
  <2> PICK holes \in Nat : Jobs[j] = Row("holes", <<"rust", "c">>, HoledSize, holes)
    BY <1>15, <1>7
  <2>1. /\ Jobs[j].kind = "holes" /\ Jobs[j].arms = <<"rust", "c">>
        /\ Jobs[j].size = HoledSize /\ Jobs[j].holes = holes
    BY <1>1 DEF Row
  <2>2. Printed(j) \in Nat /\ Printed(j + 1) = Printed(j) + 1
    BY <1>1, <1>2, <1>15
  <2> QED BY <1>1, <1>8, <1>15, <2>1, <2>2 DEF AllocKinds, PairKinds, AllocArms
<1>16. CASE j = h + 3
  <2>1. /\ Jobs[j].kind = "probe" /\ Jobs[j].arms = <<"rust", "c">>
        /\ Jobs[j].size = ProbeSize /\ Jobs[j].holes = 0
    BY <1>16, <1>3, <1>1 DEF Row
  <2>2. Printed(j) \in Nat
    BY <1>1, <1>2, <1>16
  <2> QED BY <1>1, <1>8, <1>16, <2>1, <2>2 DEF AllocKinds, PairKinds, AllocArms
<1> QED BY <1>1, <1>10, <1>11, <1>12, <1>13, <1>14, <1>15, <1>16

(* The answers add up, pair by pair.                                       *)
LEMMA AnswerFacts ==
  /\ Answer \in [0 .. OPS -> Nat] /\ Answer[0] = 0
  /\ \A k \in 0 .. OPS - 1 : Answer[k + 1] = Answer[k] + Work(k)
<1> DEFINE Adds(f, n) == /\ f \in [0 .. n -> Nat] /\ f[0] = 0
                         /\ \A k \in 0 .. n - 1 : f[k + 1] = f[k] + Work(k)
           S == {n \in Nat : \E f : Adds(f, n)}
<1>1. \A k \in Nat : Work(k) \in Nat
  <2> TAKE k \in Nat
  <2>1. k % 256 \in Nat /\ k % 2 \in Nat
    BY DivParts
  <2> QED BY <2>1 DEF Work
<1>2. 0 \in S
  <2>1. Adds([k \in 0 .. 0 |-> 0], 0)
    OBVIOUS
  <2> QED BY <2>1
<1>3. ASSUME NEW n \in Nat, n \in S PROVE n + 1 \in S
  <2> PICK f : Adds(f, n)
    BY <1>3
  <2> DEFINE g == [k \in 0 .. n + 1 |-> IF k <= n THEN f[k] ELSE f[n] + Work(n)]
  <2>1. g \in [0 .. n + 1 -> Nat]
    BY <1>1
  <2>2. g[0] = 0 /\ \A k \in 0 .. (n + 1) - 1 : g[k + 1] = g[k] + Work(k)
    OBVIOUS
  <2> HIDE DEF g
  <2>3. Adds(g, n + 1)
    BY <2>1, <2>2
  <2> HIDE DEF Adds
  <2> QED BY <2>3
<1>4. OPS \in Nat /\ OPS \in S
  BY <1>2, <1>3, AllNumbers, RoundsFit
<1> PICK f : Adds(f, OPS)
  BY <1>4
<1> DEFINE Def(g) == [k \in 0 .. OPS |-> IF k = 0 THEN 0 ELSE g[k - 1] + Work(k - 1)]
<1>5. f = Def(f)
  <2>1. \A k \in 0 .. OPS : f[k] = IF k = 0 THEN 0 ELSE f[k - 1] + Work(k - 1)
    <3> TAKE k \in 0 .. OPS
    <3>1. CASE k = 0
      BY <3>1
    <3>2. CASE k # 0
      <4>1. k - 1 \in 0 .. OPS - 1 /\ (k - 1) + 1 = k
        BY <1>4, <3>2
      <4> QED BY <3>2, <4>1
    <3> QED BY <3>1, <3>2
  <2> QED BY <2>1
<1>6. Answer = Def(Answer)
  <2>1. Answer = CHOOSE g : g = Def(g)
    BY DEF Answer
  <2> HIDE DEF Def
  <2> QED BY <1>5, <2>1
<1>7. \A k \in 0 .. OPS : Answer[k] = IF k = 0 THEN 0 ELSE Answer[k - 1] + Work(k - 1)
  BY <1>6, Zenon
<1>8. \A k \in 0 .. OPS - 1 : Answer[k + 1] = Answer[k] + Work(k)
  <2> TAKE k \in 0 .. OPS - 1
  <2>1. k + 1 \in 0 .. OPS /\ k + 1 # 0 /\ (k + 1) - 1 = k
    BY <1>4
  <2> QED BY <1>7, <2>1
<1>9. Answer[0] = 0
  BY <1>4, <1>7
<1> DEFINE R == {k \in Nat : k <= OPS => Answer[k] \in Nat}
<1>10. Nat \subseteq R
  <2>1. 0 \in R
    BY <1>9
  <2>2. ASSUME NEW k \in Nat, k \in R PROVE k + 1 \in R
    <3>1. CASE k + 1 <= OPS
      <4>1. k \in 0 .. OPS - 1 /\ Answer[k] \in Nat
        BY <1>4, <2>2, <3>1
      <4>2. Answer[k + 1] = Answer[k] + Work(k) /\ Work(k) \in Nat
        BY <1>1, <1>8, <4>1
      <4> QED BY <4>1, <4>2
    <3> QED BY <3>1
  <2> QED BY <2>1, <2>2, AllNumbers
<1>11. \A k \in 0 .. OPS : Answer[k] \in Nat
  BY <1>4, <1>10
<1>12. Answer = [k \in 0 .. OPS |-> Answer[k]]
  BY <1>6
<1> QED BY <1>8, <1>9, <1>11, <1>12

(* What the constants are.                                                 *)
LEMMA Bounds ==
  /\ {OPS, ROUNDS, MAX_HELD, BLOCKS, MAX_BLOCK, HoleSize, ProbeSize} \subseteq Nat \ {0}
  /\ {WARMUP, SplitBytes, HeapSize, HoledSize} \subseteq Nat
  /\ \A h \in Nat : Taken(h) \in 0 .. MAX_HELD /\ (h = 0 => Taken(h) = 0)
  /\ \A size \in Nat : SplitCount(size) \in 0 .. MAX_HELD
<1>1. /\ {OPS, ROUNDS, MAX_HELD, BLOCKS, MAX_BLOCK, HoleSize, ProbeSize} \subseteq Nat \ {0}
      /\ {WARMUP, SplitBytes, HeapSize, HoledSize} \subseteq Nat
  BY RoundsFit
<1>2. \A h \in Nat : Taken(h) \in 0 .. MAX_HELD /\ (h = 0 => Taken(h) = 0)
  BY <1>1 DEF Taken, Smaller
<1>3. ASSUME NEW size \in Nat PROVE SplitCount(size) \in 0 .. MAX_HELD
  <2>1. SplitBytes \div (IF size = 0 THEN 1 ELSE size) \in Nat
    <3> PICK m \in Nat \ {0} : m = IF size = 0 THEN 1 ELSE size
      OBVIOUS
    <3>1. SplitBytes \div m \in Nat
      BY <1>1, DivParts
    <3> QED BY <3>1, Zenon
  <2> QED BY <1>1, <2>1 DEF SplitCount, Smaller
<1> QED BY <1>1, <1>2, <1>3

(* Where an allocator puts a block: nowhere, or where it is free, heap_4   *)
(* lowest and whenever there is a place.                                   *)
LEMMA PlacesFacts ==
  ASSUME NEW a \in Arms, NEW size \in Nat, NEW at \in Places(a, size)
  PROVE  /\ at # NULL => /\ at \in Nat /\ at \in Fits(a, size)
                         /\ \A w \in Fits(a, size) : at <= w
         /\ a = "c" /\ at = NULL => Fits(a, size) = {}
<1> DEFINE lowest == {u \in Fits(a, size) : \A w \in Fits(a, size) : u <= w}
<1>1. at \in lowest \/ (at = NULL /\ (a = "c" => lowest = {}))
  BY DEF Places
<1>2. Fits(a, size) \in SUBSET Nat
  BY Bounds DEF Fits
<1>3. Fits(a, size) # {} => lowest # {}
  BY <1>2, Least
<1>4. NULL \notin Nat
  BY DEF NULL
<1> QED BY <1>1, <1>2, <1>3, <1>4

(* What a step leaves of the row it is in.                                 *)
LEMMA SameRow ==
  ASSUME UNCHANGED job
  PROVE  Now' = Now /\ (InPair' <=> InPair) /\ (InSplit' <=> InSplit) /\ (InPool' <=> InPool)
BY DEF Now, InPair, InSplit, InPool

(* What a row allows.                                                      *)
LEMMA RowFacts ==
  ASSUME AllocTypes, job \in DOMAIN Jobs
  PROVE  /\ job \in 1 .. AllocRows /\ AllocRows \in Nat
         /\ Now.kind \in AllocKinds /\ Now.arms \in AllocArms /\ Now.size \in Nat
         /\ Taken(Now.holes) \in 0 .. MAX_HELD /\ SplitCount(Now.size) \in 0 .. MAX_HELD
         /\ Now.kind = "probe" <=> job = AllocRows
         /\ Arm \in Arms \cup {"empty"}
         /\ InPair /\ Arm = "empty" => Taken(Now.holes) = 0
         /\ InPair /\ Arm # "empty" =>
              Now.size > 0 /\ (Taken(Now.holes) = 0 \/ Now.size > HoleSize)
         /\ InSplit => Now.size > 0
         /\ Judged => InPair
<1>1. job \in 1 .. AllocRows /\ AllocRows \in Nat
  BY AllocJobs
<1>2. /\ Now.kind \in AllocKinds /\ Now.arms \in AllocArms
      /\ Now.size \in Nat /\ Now.holes \in Nat
      /\ Now.kind = "probe" <=> job = AllocRows
      /\ Now.arms = <<"empty", "empty">> => Now.holes = 0
      /\ Now.arms # <<"empty", "empty">> /\ Now.kind \in PairKinds =>
           Now.size > 0 /\ (Now.holes = 0 \/ Now.size > HoleSize)
      /\ Now.kind = "split" => Now.size > 0
      /\ Now.kind \in {"clean", "holes"} => Now.kind \in PairKinds
  BY <1>1, AllocWhere DEF Now
<1>3. Taken(Now.holes) \in 0 .. MAX_HELD /\ SplitCount(Now.size) \in 0 .. MAX_HELD
      /\ (Now.holes = 0 => Taken(Now.holes) = 0)
  BY <1>2, Bounds
<1>4. Arm \in Arms \cup {"empty"} /\ (Arm = "empty" <=> Now.arms = <<"empty", "empty">>)
  BY <1>2 DEF Arm, Arms, AllocArms, AllocTypes
<1> QED BY <1>1, <1>2, <1>3, <1>4 DEF InPair, InSplit, Judged

(* A step inside a row prints nothing, and leaves the pool alone.          *)
LEMMA InsideRow ==
  ASSUME AllocInv, Paired,
         UNCHANGED <<job, pool, verdict>>, turn' \in 0 .. WARMUP + ROUNDS, arm' \in {1, 2}
  PROVE  /\ AllocRowsPrinted' /\ AllocPool' /\ pool = NoPool
         /\ InPair /\ InPair' /\ ~InSplit /\ ~InSplit' /\ ~InPool' /\ Now' = Now
         /\ job # 0 /\ job # AllocRows /\ result = "none"
         /\ turn < WARMUP + ROUNDS /\ turn \in Nat /\ WARMUP \in Nat /\ ROUNDS \in Nat \ {0}
<1>1. job \in DOMAIN Jobs /\ Now.kind \in PairKinds /\ result = "none" /\ turn < WARMUP + ROUNDS
  BY DEF Paired, Running, PairKinds
<1>2. Now' = Now /\ (InPair' <=> InPair) /\ (InSplit' <=> InSplit) /\ (InPool' <=> InPool)
  BY SameRow
<1>3. InPair /\ ~InSplit /\ ~InPool
  BY <1>1 DEF InPair, InSplit, InPool, PairKinds
<1>4. job # 0 /\ job # AllocRows
  BY <1>1, RowFacts DEF AllocInv, PairKinds
<1>5. AllocRowsPrinted' /\ AllocPool' /\ pool = NoPool
  BY <1>2, <1>3 DEF AllocInv, AllocRowsPrinted, AllocPool, verdict, Printed
<1> QED BY <1>1, <1>2, <1>3, <1>4, <1>5, Bounds DEF AllocInv, AllocTypes

(* A loop of the round is through.                                         *)
LEMMA AllocLeavesLoop == AllocInv /\ LeaveLoop => AllocInv'
<1> SUFFICES ASSUME AllocInv, LeaveLoop PROVE AllocInv'
  OBVIOUS
<1> USE DEF AllocInv
<1> DEFINE T == Taken(Now.holes)
<1>1. /\ Paired /\ phase \in {"fill", "punch", "time", "drain"} /\ p = NULL
      /\ i >= (IF phase = "time" THEN OPS ELSE T)
      /\ phase' = IF phase = "fill" THEN "punch" ELSE IF phase = "punch" THEN "time"
                  ELSE IF phase = "time" THEN "drain" ELSE "end"
      /\ i' = 0
      /\ UNCHANGED <<heap, job, held, p, sum, bad, turn, arm, sums, anyBad, done, refused,
                     pool, verdict, asserted>>
  BY DEF LeaveLoop, LoopEnd, AfterLoop, pair
<1>2. /\ AllocRowsPrinted' /\ AllocPool'
      /\ InPair /\ InPair' /\ ~InSplit /\ ~InSplit' /\ Now' = Now
      /\ job # 0 /\ job # AllocRows /\ result = "none"
      /\ turn < WARMUP + ROUNDS /\ turn \in Nat
  BY <1>1, InsideRow DEF AllocTypes
<1>3. T \in 0 .. MAX_HELD /\ MAX_HELD \in Nat /\ OPS \in Nat \ {0} /\ T' = T /\ Arm' = Arm
  BY <1>1, <1>2, RowFacts, Bounds DEF InPair, Arm
<1> HIDE DEF T
<1>4. AllocTypes'
  BY <1>1 DEF AllocTypes, verdict
<1>5. AllocControl'
  BY <1>1, <1>2, <1>3, Bounds DEF AllocControl, verdict
<1>6. AllocHeld'
  BY <1>1, <1>2, <1>3 DEF AllocHeld, AllocTypes, May, T, Slots
<1>7. AllocHeap'
  BY <1>1, <1>2, <1>3 DEF AllocHeap, Owner, Unit, InHand, Lives
<1>8. AllocGaps'
  BY <1>1, <1>2, <1>3 DEF AllocGaps, AllocTypes, T
<1>9. AllocFigures'
  BY <1>1, <1>2, <1>3 DEF AllocFigures, Counted, Pairs, AllocControl, AllocTypes
<1> QED BY <1>2, <1>4, <1>5, <1>6, <1>7, <1>8, <1>9

(* Blocks of one size laid side by side from 0.                            *)
LEMMA Grid ==
  ASSUME NEW H \in Nat \ {0}
  PROVE  /\ \A k \in Nat : k * H \in Nat /\ (k + 1) * H = k * H + H
         /\ \A k, m \in Nat : k < m => k * H + H <= m * H
         /\ \A u, m \in Nat : u < m * H => \E b \in 0 .. m - 1 : b * H <= u /\ u < b * H + H
<1>1. \A k \in Nat : k * H \in Nat /\ (k + 1) * H = k * H + H
  BY SMTT(30)
<1>2. ASSUME NEW k \in Nat, NEW m \in Nat, k < m PROVE k * H + H <= m * H
  <2>1. PICK d \in Nat : m = (k + 1) + d
    <3>1. m - (k + 1) \in Nat /\ m = (k + 1) + (m - (k + 1))
      BY <1>2
    <3> QED BY <3>1
  <2>2. m * H = (k + 1) * H + d * H
    BY <2>1, SMTT(30)
  <2> QED BY <1>1, <2>2
<1>3. ASSUME NEW u \in Nat, NEW m \in Nat, u < m * H
      PROVE  \E b \in 0 .. m - 1 : b * H <= u /\ u < b * H + H
  <2> DEFINE b == u \div H
             r == u % H
  <2>1. b \in Nat /\ r \in Nat /\ r < H /\ u = b * H + r
    BY DivParts
  <2>2. b < m
    <3>1. ~ (b >= m)
      BY <1>1, <1>3, <2>1, DivAtLeast
    <3> QED BY <2>1, <3>1
  <2> HIDE DEF b, r
  <2>3. b \in 0 .. m - 1 /\ b * H <= u /\ u < b * H + H
    BY <1>1, <2>1, <2>2
  <2> QED BY <2>3
<1> QED BY <1>1, <1>2, <1>3

(* The lowest place is the first that is free.                             *)
LEMMA FirstFree ==
  ASSUME NEW e \in Nat, NEW size \in Nat, NEW at \in Fits("c", size),
         \A w \in Fits("c", size) : at <= w,
         FreeAt(heap["c"], e, size), \A u \in 0 .. e - 1 : ~FreeAt(heap["c"], u, size)
  PROVE  at = e
<1>1. HeapSize \in Nat
  BY Bounds
<1>2. at \in 0 .. HeapSize - size /\ at \notin 0 .. e - 1
  BY DEF Fits
<1>3. e <= HeapSize - size => e \in Fits("c", size)
  BY <1>1 DEF Fits
<1> QED BY <1>1, <1>2, <1>3

(* A hole block, or a null, into the next slot.                            *)
LEMMA AllocFills == AllocInv /\ Fill => AllocInv'
<1> SUFFICES ASSUME AllocInv, Fill PROVE AllocInv'
  OBVIOUS
<1> USE DEF AllocInv
<1> DEFINE T == Taken(Now.holes)
<1> PICK at \in Places(Arm, HoleSize) :
       /\ heap' = Placed(Arm, at, HoleSize)
       /\ held' = [held EXCEPT ![i] = at]
       /\ bad' = (bad \/ at = NULL)
       /\ refused' = (refused \/ (Counted /\ at = NULL))
  BY DEF Fill
<1>1. /\ Paired /\ phase = "fill" /\ i < T /\ p = NULL /\ i' = i + 1
      /\ UNCHANGED <<job, phase, p, sum, turn, arm, sums, anyBad, done, pool, verdict, asserted>>
  BY DEF Fill, InLoop, LoopEnd
<1>2. /\ AllocRowsPrinted' /\ AllocPool'
      /\ InPair /\ InPair' /\ ~InSplit /\ ~InSplit' /\ Now' = Now
      /\ job # 0 /\ job # AllocRows /\ result = "none"
      /\ turn < WARMUP + ROUNDS /\ turn \in Nat /\ WARMUP \in Nat /\ ROUNDS \in Nat
  BY <1>1, InsideRow DEF AllocTypes
<1>3. /\ T \in 0 .. MAX_HELD /\ MAX_HELD \in Nat /\ OPS \in Nat \ {0} /\ T' = T /\ Arm' = Arm
      /\ i \in 0 .. T - 1 /\ i \in Slots /\ Arm \in Arms /\ HoleSize \in Nat \ {0}
  <2>1. T \in 0 .. MAX_HELD /\ Arm \in Arms \cup {"empty"} /\ (Arm = "empty" => T = 0)
    BY <1>2, RowFacts DEF InPair
  <2>2. MAX_HELD \in Nat /\ OPS \in Nat \ {0} /\ HoleSize \in Nat \ {0}
    BY Bounds
  <2>3. T' = T /\ Arm' = Arm
    BY <1>1, <1>2 DEF Arm
  <2> HIDE DEF T
  <2> QED BY <1>1, <2>1, <2>2, <2>3 DEF AllocTypes, Slots
<1>4. at # NULL => /\ at \in Nat /\ at \in Fits(Arm, HoleSize)
                   /\ \A w \in Fits(Arm, HoleSize) : at <= w
  BY <1>3, PlacesFacts
<1> HIDE DEF T
<1>5. \A k \in Slots : k >= i => held[k] = NULL
  BY <1>1, <1>2, <1>3 DEF AllocHeld, AllocTypes, May, Slots
<1>6. /\ held' \in [Slots -> Nat \cup {NULL}] /\ held'[i] = at
      /\ \A k \in Slots : k # i => held'[k] = held[k]
  BY <1>3, <1>4 DEF AllocTypes
<1>7. heap[Arm] = InHand /\ InHand = {BlockAt(held[k], HoleSize) : k \in {m \in Slots : held[m] # NULL}}
  BY <1>1, <1>2, <1>3 DEF AllocHeap, Owner, Unit, InHand, Lives
<1>8. at # NULL => \A k \in Slots : held[k] # NULL => held[k] # at
  <2> SUFFICES ASSUME at # NULL, NEW k \in Slots, held[k] # NULL PROVE held[k] # at
    OBVIOUS
  <2>1. BlockAt(held[k], HoleSize) \in heap[Arm]
    BY <1>7
  <2>2. FreeAt(heap[Arm], at, HoleSize)
    BY <1>4 DEF Fits
  <2>3. at + HoleSize <= held[k] \/ held[k] + HoleSize <= at
    BY <2>1, <2>2 DEF FreeAt, BlockAt
  <2> QED BY <1>3, <1>4, <2>3
<1>9. AllocTypes'
  <2>1. heap' \in [Arms -> SUBSET [at : Int, size : Int]]
    BY <1>3, <1>4 DEF AllocTypes, Placed
  <2>2. bad' \in BOOLEAN /\ refused' \in BOOLEAN
    BY DEF AllocTypes
  <2> QED BY <1>1, <1>6, <2>1, <2>2 DEF AllocTypes, verdict
<1>10. AllocControl'
  BY <1>1, <1>2, <1>3 DEF AllocControl, verdict, AllocTypes, T
<1>11. AllocHeld'
  <2>1. \A k \in Slots : held'[k] # NULL => May(k)'
    BY <1>1, <1>2, <1>3, <1>5, <1>6 DEF AllocHeld, AllocTypes, May, T, Slots
  <2>2. ASSUME NEW k \in Slots, NEW m \in Slots, k # m, held'[k] # NULL PROVE held'[k] # held'[m]
    BY <1>6, <1>8, <2>2 DEF AllocHeld
  <2> QED BY <1>1, <2>1, <2>2 DEF AllocHeld
<1>12. AllocHeap'
  <2>1. InHand' = {BlockAt(held'[k], HoleSize) : k \in {m \in Slots : held'[m] # NULL}}
    BY <1>1, <1>2, <1>3 DEF Unit, InHand, Lives
  <2>2. InHand' = InHand \cup (IF at = NULL THEN {} ELSE {BlockAt(at, HoleSize)})
    <3>1. ASSUME NEW b \in InHand' PROVE b \in InHand \cup (IF at = NULL THEN {} ELSE {BlockAt(at, HoleSize)})
      <4> PICK k \in Slots : held'[k] # NULL /\ b = BlockAt(held'[k], HoleSize)
        BY <2>1, <3>1
      <4> QED BY <1>6, <1>7
    <3>2. ASSUME NEW b \in InHand PROVE b \in InHand'
      <4> PICK k \in Slots : held[k] # NULL /\ b = BlockAt(held[k], HoleSize)
        BY <1>7, <3>2
      <4>1. k # i
        BY <1>3, <1>5
      <4> QED BY <1>6, <2>1, <4>1
    <3>3. at # NULL => BlockAt(at, HoleSize) \in InHand'
      BY <1>3, <1>6, <2>1
    <3> QED BY <3>1, <3>2, <3>3
  <2>3. \A a \in Arms : heap'[a] = IF a = Arm THEN InHand' ELSE {}
    BY <1>2, <1>3, <1>7, <2>2 DEF AllocHeap, AllocTypes, Placed, Owner, BlockAt
  <2> QED BY <1>2, <1>3, <2>3 DEF AllocHeap, Owner
<1>13. AllocGaps'
  <2> SUFFICES ASSUME Arm = "c", ~bad'
               PROVE  /\ \A k \in Slots : held'[k] # NULL => held'[k] = k * HoleSize
                      /\ \A k \in 0 .. i' - 1 : held'[k] # NULL
    BY <1>1, <1>3 DEF AllocGaps
  <2>1. ~bad /\ at # NULL
    OBVIOUS
  <2>2. /\ \A k \in Slots : held[k] # NULL => held[k] = k * HoleSize
        /\ \A k \in 0 .. i - 1 : held[k] # NULL
    BY <1>1, <1>2, <2>1 DEF AllocGaps
  <2>3. at = i * HoleSize
    <3>1. FreeAt(heap["c"], i * HoleSize, HoleSize)
      <4> SUFFICES ASSUME NEW k \in Slots, held[k] # NULL
                   PROVE  k * HoleSize + HoleSize <= i * HoleSize
        BY <1>7, <2>2 DEF FreeAt, BlockAt
      <4>1. k \in Nat /\ i \in Nat /\ k < i
        BY <1>3, <1>5 DEF Slots
      <4> QED BY <1>3, <4>1, Grid
    <3>2. ASSUME NEW u \in 0 .. i * HoleSize - 1, FreeAt(heap["c"], u, HoleSize) PROVE FALSE
      <4>1. i \in Nat /\ i * HoleSize \in Nat /\ u \in Nat /\ u < i * HoleSize
        BY <1>3, Grid
      <4> PICK k \in 0 .. i - 1 : k * HoleSize <= u /\ u < k * HoleSize + HoleSize
        BY <1>3, <4>1, Grid
      <4>2. k \in Slots /\ held[k] # NULL /\ held[k] = k * HoleSize /\ k * HoleSize \in Nat
        BY <1>3, <2>2, Grid DEF Slots
      <4>3. BlockAt(k * HoleSize, HoleSize) \in heap["c"]
        BY <1>7, <4>2
      <4>4. u + HoleSize <= k * HoleSize \/ k * HoleSize + HoleSize <= u
        BY <3>2, <4>3 DEF FreeAt, BlockAt
      <4> QED BY <1>3, <4>1, <4>2, <4>4
    <3>3. i * HoleSize \in Nat /\ HoleSize \in Nat
      BY <1>3, Grid
    <3> QED BY <1>4, <2>1, <3>1, <3>2, <3>3, FirstFree
  <2>4. \A k \in 0 .. i' - 1 : k \in Slots /\ (k = i \/ k \in 0 .. i - 1)
    BY <1>1, <1>3 DEF Slots
  <2> QED BY <1>6, <2>1, <2>2, <2>3, <2>4
<1>14. AllocFigures'
  <2>1. Pairs' = Pairs
    BY <1>1 DEF Pairs
  <2>2. bad' <=> bad \/ at = NULL
    OBVIOUS
  <2>3. refused' <=> refused \/ (Counted /\ at = NULL)
    OBVIOUS
  <2>4. Counted' = Counted
    BY <1>1 DEF Counted
  <2> QED BY <1>1, <1>2, <2>1, <2>2, <2>3, <2>4 DEF AllocFigures, AllocTypes, Counted
<1> QED BY <1>2, <1>9, <1>10, <1>11, <1>12, <1>13, <1>14

(* A slot of the round is emptied: its block was on the heap.              *)
LEMMA AllocGivesBack ==
  ASSUME AllocInv, NEW next, GiveBack(next), Paired, phase \in {"punch", "drain"}, p = NULL,
         i < Taken(Now.holes)
  PROVE  /\ i \in Slots /\ i' = next
         /\ held' \in [Slots -> Nat \cup {NULL}] /\ held'[i] = NULL
         /\ \A k \in Slots : k # i => held'[k] = held[k]
         /\ heap' \in [Arms -> SUBSET [at : Int, size : Int]]
         /\ asserted' = FALSE /\ AllocHeap'
         /\ UNCHANGED <<job, phase, p, sum, bad, turn, arm, sums, anyBad, done, refused, pool, verdict>>
<1> USE DEF AllocInv
<1>1. /\ i' = next
      /\ UNCHANGED <<job, phase, p, sum, bad, turn, arm, sums, anyBad, done, refused, pool, verdict>>
      /\ \/ held[i] = NULL /\ UNCHANGED <<heap, held, asserted>>
         \/ /\ held[i] # NULL
            /\ Release(Arm, held[i], HoleSize)
            /\ held' = [held EXCEPT ![i] = NULL]
  BY DEF GiveBack, pair
<1>2. InPair /\ InPair' /\ ~InSplit /\ ~InSplit' /\ Now' = Now
  BY <1>1, InsideRow DEF AllocTypes
<1>3. i \in Slots /\ Arm \in Arms /\ Arm' = Arm /\ HoleSize \in Nat \ {0}
  <2>1. /\ Taken(Now.holes) \in 0 .. MAX_HELD /\ Arm \in Arms \cup {"empty"}
        /\ Arm = "empty" => Taken(Now.holes) = 0
    BY <1>2, RowFacts DEF InPair
  <2>2. MAX_HELD \in Nat /\ HoleSize \in Nat \ {0} /\ Arm' = Arm
    BY <1>1, <1>2, Bounds DEF Arm
  <2> QED BY <2>1, <2>2 DEF AllocTypes, Slots
<1>4. heap[Arm] = InHand /\ InHand = {BlockAt(held[k], HoleSize) : k \in {m \in Slots : held[m] # NULL}}
  BY <1>2, <1>3 DEF AllocHeap, Owner, Unit, InHand, Lives
<1>5. InHand' = {BlockAt(held'[k], HoleSize) : k \in {m \in Slots : held'[m] # NULL}}
  BY <1>1, <1>2 DEF Unit, InHand, Lives
<1>6. CASE held[i] = NULL
  <2>1. UNCHANGED <<heap, held, asserted>>
    BY <1>1, <1>6
  <2>2. AllocHeap'
    BY <1>2, <1>3, <1>4, <1>5, <2>1 DEF AllocHeap, Owner
  <2> QED BY <1>1, <1>3, <1>6, <2>1, <2>2 DEF AllocTypes
<1>7. CASE held[i] # NULL
  <2>1. /\ heap' = [heap EXCEPT ![Arm] = @ \ {BlockAt(held[i], HoleSize)}]
        /\ asserted' = (BlockAt(held[i], HoleSize) \notin heap[Arm])
        /\ held' = [held EXCEPT ![i] = NULL]
    BY <1>1, <1>7 DEF Release, BlockAt
  <2>2. asserted' = FALSE
    <3>1. BlockAt(held[i], HoleSize) \in heap[Arm]
      BY <1>3, <1>4, <1>7
    <3> QED BY <2>1, <3>1
  <2>3. /\ held' \in [Slots -> Nat \cup {NULL}] /\ held'[i] = NULL
        /\ \A k \in Slots : k # i => held'[k] = held[k]
    BY <1>3, <2>1 DEF AllocTypes
  <2>4. InHand' = InHand \ {BlockAt(held[i], HoleSize)}
    <3>1. ASSUME NEW b \in InHand' PROVE b \in InHand \ {BlockAt(held[i], HoleSize)}
      <4> PICK k \in Slots : held'[k] # NULL /\ b = BlockAt(held'[k], HoleSize)
        BY <1>5, <3>1
      <4>1. k # i /\ held'[k] = held[k]
        BY <2>3
      <4>2. held[k] # held[i]
        BY <1>3, <1>7, <4>1 DEF AllocHeld
      <4>3. b \in InHand
        BY <1>4, <4>1
      <4> QED BY <4>1, <4>2, <4>3 DEF BlockAt
    <3>2. ASSUME NEW b \in InHand, b # BlockAt(held[i], HoleSize) PROVE b \in InHand'
      <4> PICK k \in Slots : held[k] # NULL /\ b = BlockAt(held[k], HoleSize)
        BY <1>4, <3>2
      <4> QED BY <1>5, <2>3, <3>2
    <3> QED BY <3>1, <3>2
  <2>5. heap' \in [Arms -> SUBSET [at : Int, size : Int]]
    BY <1>3, <2>1 DEF AllocTypes
  <2>6. \A a \in Arms : heap'[a] = IF a = Arm THEN InHand' ELSE {}
    BY <1>2, <1>3, <1>4, <2>1, <2>4 DEF AllocHeap, AllocTypes, Owner
  <2>7. AllocHeap'
    BY <1>2, <1>3, <2>6 DEF AllocHeap, Owner
  <2> QED BY <1>1, <1>3, <2>2, <2>3, <2>5, <2>7
<1> QED BY <1>6, <1>7

(* Every other block is released.                                          *)
LEMMA AllocPunches == AllocInv /\ Punch => AllocInv'
<1> SUFFICES ASSUME AllocInv, Punch PROVE AllocInv'
  OBVIOUS
<1> USE DEF AllocInv
<1> DEFINE T == Taken(Now.holes)
<1>1. /\ Paired /\ phase = "punch" /\ i < T /\ p = NULL /\ GiveBack(i + 2)
  BY DEF Punch, InLoop, LoopEnd, Punched
<1>2. /\ i \in Slots /\ i' = i + 2
      /\ held' \in [Slots -> Nat \cup {NULL}] /\ held'[i] = NULL
      /\ \A k \in Slots : k # i => held'[k] = held[k]
      /\ heap' \in [Arms -> SUBSET [at : Int, size : Int]]
      /\ asserted' = FALSE /\ AllocHeap'
      /\ UNCHANGED <<job, phase, p, sum, bad, turn, arm, sums, anyBad, done, refused, pool, verdict>>
  BY <1>1, AllocGivesBack
<1>3. /\ AllocRowsPrinted' /\ AllocPool'
      /\ InPair /\ InPair' /\ ~InSplit /\ ~InSplit' /\ Now' = Now
      /\ job # 0 /\ job # AllocRows /\ result = "none"
      /\ turn < WARMUP + ROUNDS /\ turn \in Nat
  BY <1>1, <1>2, InsideRow DEF AllocTypes
<1>4. T \in 0 .. MAX_HELD /\ MAX_HELD \in Nat /\ T' = T /\ Arm' = Arm
  BY <1>2, <1>3, RowFacts, Bounds DEF InPair, Arm
<1>5. AllocTypes'
  BY <1>2 DEF AllocTypes, verdict
<1>6. AllocControl'
  BY <1>1, <1>2, <1>3 DEF AllocControl, verdict, AllocTypes
<1>7. AllocHeld'
  <2>1. \A k \in Slots : held'[k] # NULL => May(k)'
    BY <1>1, <1>2, <1>3, <1>4 DEF AllocHeld, May
  <2>2. ASSUME NEW k \in Slots, NEW m \in Slots, k # m, held'[k] # NULL PROVE held'[k] # held'[m]
    BY <1>2, <2>2 DEF AllocHeld
  <2> QED BY <1>1, <1>2, <2>1, <2>2 DEF AllocHeld
<1>8. AllocGaps'
  <2> SUFFICES ASSUME Arm = "c", ~bad
               PROVE  /\ \A k \in Slots : held'[k] # NULL => held'[k] = k * HoleSize
                      /\ i' % 2 = 0
                      /\ \A k \in 0 .. T - 1 : held'[k] = NULL <=> k % 2 = 0 /\ k < i'
    BY <1>1, <1>2, <1>3, <1>4 DEF AllocGaps
  <2>1. /\ \A k \in Slots : held[k] # NULL => held[k] = k * HoleSize
        /\ i % 2 = 0 /\ i \in Nat
        /\ \A k \in 0 .. T - 1 : held[k] = NULL <=> k % 2 = 0 /\ k < i
    BY <1>1, <1>3 DEF AllocGaps, AllocTypes
  <2>2. i' % 2 = 0 /\ (i + 1) % 2 # 0
    BY <1>2, <2>1
  <2>3. ASSUME NEW k \in 0 .. T - 1 PROVE held'[k] = NULL <=> k % 2 = 0 /\ k < i'
    <3>1. k \in Slots /\ k \in Nat
      BY <1>4 DEF Slots
    <3>2. CASE k = i
      BY <1>2, <2>1, <3>2
    <3>3. CASE k # i
      <4>1. k < i' /\ k % 2 = 0 <=> k < i /\ k % 2 = 0
        <5>1. k < i' => k < i \/ k = i + 1
          BY <1>2, <2>1, <3>1, <3>3
        <5>2. k < i => k < i'
          BY <1>2, <2>1, <3>1
        <5> QED BY <2>2, <5>1, <5>2
      <4> QED BY <1>2, <2>1, <3>1, <3>3, <4>1
    <3> QED BY <3>2, <3>3
  <2> HIDE DEF T
  <2> QED BY <1>2, <2>1, <2>2, <2>3
<1>9. AllocFigures'
  BY <1>1, <1>2, <1>3 DEF AllocFigures, Pairs, Counted
<1> QED BY <1>2, <1>3, <1>5, <1>6, <1>7, <1>8, <1>9

(* What the round still holds is released.                                 *)
LEMMA AllocDrains == AllocInv /\ Drain => AllocInv'
<1> SUFFICES ASSUME AllocInv, Drain PROVE AllocInv'
  OBVIOUS
<1> USE DEF AllocInv
<1>1. /\ Paired /\ phase = "drain" /\ i < Taken(Now.holes) /\ p = NULL /\ GiveBack(i + 1)
  BY DEF Drain, InLoop, LoopEnd
<1>2. /\ i \in Slots /\ i' = i + 1
      /\ held' \in [Slots -> Nat \cup {NULL}] /\ held'[i] = NULL
      /\ \A k \in Slots : k # i => held'[k] = held[k]
      /\ heap' \in [Arms -> SUBSET [at : Int, size : Int]]
      /\ asserted' = FALSE /\ AllocHeap'
      /\ UNCHANGED <<job, phase, p, sum, bad, turn, arm, sums, anyBad, done, refused, pool, verdict>>
  BY <1>1, AllocGivesBack
<1>3. /\ AllocRowsPrinted' /\ AllocPool'
      /\ InPair /\ InPair' /\ ~InSplit /\ ~InSplit' /\ Now' = Now
      /\ job # 0 /\ job # AllocRows /\ result = "none"
      /\ turn < WARMUP + ROUNDS /\ turn \in Nat
  BY <1>1, <1>2, InsideRow DEF AllocTypes
<1>4. AllocTypes'
  BY <1>2 DEF AllocTypes, verdict
<1>5. AllocControl'
  BY <1>1, <1>2, <1>3 DEF AllocControl, verdict, AllocTypes
<1>6. AllocHeld'
  <2>1. \A k \in Slots : held'[k] # NULL => May(k)'
    <3> SUFFICES ASSUME NEW k \in Slots, held'[k] # NULL PROVE k < Taken(Now.holes) /\ k >= i'
      BY <1>1, <1>2, <1>3 DEF May
    <3>1. k # i /\ held[k] # NULL
      BY <1>2
    <3>2. k < Taken(Now.holes) /\ k >= i
      BY <1>1, <1>3, <3>1 DEF AllocHeld, May
    <3> QED BY <1>2, <3>1, <3>2, Bounds DEF Slots, AllocTypes
  <2>2. ASSUME NEW k \in Slots, NEW m \in Slots, k # m, held'[k] # NULL PROVE held'[k] # held'[m]
    BY <1>2, <2>2 DEF AllocHeld
  <2> QED BY <1>1, <1>2, <2>1, <2>2 DEF AllocHeld
<1>7. AllocGaps'
  <2>1. Arm' = Arm
    BY <1>2, <1>3 DEF Arm
  <2> QED BY <1>1, <1>2, <1>3, <2>1 DEF AllocGaps
<1>8. AllocFigures'
  BY <1>1, <1>2, <1>3 DEF AllocFigures, Pairs, Counted
<1> QED BY <1>2, <1>3, <1>4, <1>5, <1>6, <1>7, <1>8

(* The timed request of the C arm goes behind the last block that is held. *)
LEMMA AllocBehindHoles ==
  ASSUME AllocInv, Paired, phase = "time", Arm = "c", ~bad, p = NULL,
         NEW at \in Places(Arm, Now.size), at # NULL
  PROVE  at = 2 * (Taken(Now.holes) \div 2) * HoleSize
<1> USE DEF AllocInv
<1> DEFINE T == Taken(Now.holes)
           H == HoleSize
           m == T \div 2
           size == Now.size
<1>1. InPair /\ ~InSplit
  BY DEF Paired, Running, InPair, InSplit, PairKinds
<1>2. /\ T \in 0 .. MAX_HELD /\ MAX_HELD \in Nat /\ H \in Nat \ {0} /\ size \in Nat \ {0}
      /\ T = 0 \/ size > H
  <2>1. /\ T \in 0 .. MAX_HELD /\ size \in Nat /\ size > 0 /\ (T = 0 \/ size > H)
    BY <1>1, RowFacts DEF InPair
  <2> QED BY <2>1, Bounds
<1>3. /\ \A k \in Slots : held[k] # NULL => held[k] = k * H /\ k \in 0 .. T - 1
      /\ \A k \in 0 .. T - 1 : held[k] = NULL <=> k % 2 = 0
  <2>1. \A k \in Slots : held[k] # NULL => k < T
    BY <1>1 DEF AllocHeld, May
  <2> QED BY <1>1, <1>2, <2>1 DEF AllocGaps, Slots
<1>4. heap["c"] = {BlockAt(held[k], H) : k \in {n \in Slots : held[n] # NULL}}
  BY <1>1 DEF AllocHeap, Owner, Unit, InHand, Lives, Arms
<1>5. m \in Nat /\ (T = 2 * m \/ T = 2 * m + 1)
  BY <1>2
<1>6. /\ at \in Nat /\ at \in Fits("c", size) /\ \A w \in Fits("c", size) : at <= w
  BY <1>2, PlacesFacts DEF Arms
<1> HIDE DEF T, H, m, size
<1>7. 2 * m \in Nat /\ (2 * m) * H \in Nat
  BY <1>2, <1>5, Grid
<1>8. FreeAt(heap["c"], (2 * m) * H, size)
  <2> SUFFICES ASSUME NEW k \in Slots, held[k] # NULL
               PROVE  held[k] + H <= (2 * m) * H
    BY <1>4 DEF FreeAt, BlockAt
  <2>1. k \in Nat /\ k < 2 * m /\ held[k] = k * H
    <3>1. k \in 0 .. T - 1 /\ k % 2 # 0 /\ held[k] = k * H
      BY <1>3
    <3>2. k # 2 * m
      BY <1>5, <3>1
    <3> QED BY <1>2, <1>5, <3>1, <3>2
  <2> QED BY <1>2, <1>7, <2>1, Grid
<1>9. ASSUME NEW u \in 0 .. (2 * m) * H - 1, FreeAt(heap["c"], u, size) PROVE FALSE
  <2>1. u \in Nat /\ u < (2 * m) * H /\ m # 0 /\ size > H
    BY <1>2, <1>5, <1>7
  <2> PICK b \in 0 .. 2 * m - 1 : b * H <= u /\ u < b * H + H
    BY <1>2, <1>7, <2>1, Grid
  <2> DEFINE k == IF b % 2 = 0 THEN b + 1 ELSE b
  <2>2. k \in 0 .. 2 * m - 1 /\ k % 2 # 0
    BY <1>5
  <2>3. /\ b \in Nat /\ b * H \in Nat /\ (b + 1) * H = b * H + H
        /\ k * H = b * H \/ k * H = b * H + H
    BY <1>2, <1>5, Grid
  <2> HIDE DEF k
  <2>4. k \in 0 .. T - 1 /\ k \in Slots
    BY <1>2, <1>5, <2>2 DEF Slots
  <2>5. held[k] = k * H /\ BlockAt(k * H, H) \in heap["c"]
    BY <1>3, <1>4, <2>2, <2>4
  <2>6. u + size <= k * H \/ k * H + H <= u
    BY <1>9, <2>5 DEF FreeAt, BlockAt
  <2> QED BY <1>2, <2>1, <2>3, <2>6
<1>10. at = (2 * m) * H
  BY <1>2, <1>6, <1>7, <1>8, <1>9, FirstFree
<1> QED BY <1>10 DEF m, T, H

(* A pair begins, or a null ends the timed loop.                           *)
LEMMA AllocBeginsPair == AllocInv /\ TimedAlloc => AllocInv'
<1> SUFFICES ASSUME AllocInv, TimedAlloc PROVE AllocInv'
  OBVIOUS
<1> USE DEF AllocInv
<1> DEFINE T == Taken(Now.holes)
<1> PICK at \in Places(Arm, Now.size) :
       /\ \/ at = NULL /\ Break
          \/ /\ at # NULL
             /\ heap' = Placed(Arm, at, Now.size)
             /\ p' = at
             /\ UNCHANGED <<phase, i, bad>>
       /\ refused' = (refused \/ (Counted /\ at = NULL))
  BY DEF TimedAlloc
<1>1. /\ Paired /\ phase = "time" /\ i < OPS /\ p = NULL /\ Arm \in Arms
      /\ UNCHANGED <<job, held, sum, turn, arm, sums, anyBad, done, pool, verdict, asserted>>
  BY DEF TimedAlloc, InLoop, LoopEnd
<1>2. /\ AllocRowsPrinted' /\ AllocPool'
      /\ InPair /\ InPair' /\ ~InSplit /\ ~InSplit' /\ Now' = Now
      /\ job # 0 /\ job # AllocRows /\ result = "none"
      /\ turn < WARMUP + ROUNDS /\ turn \in Nat
  BY <1>1, InsideRow DEF AllocTypes
<1>3. /\ Now.size \in Nat \ {0} /\ HoleSize \in Nat \ {0} /\ Arm' = Arm /\ T \in Nat
  <2>1. Now.size \in Nat /\ Now.size > 0 /\ T \in 0 .. MAX_HELD
    BY <1>1, <1>2, RowFacts DEF InPair, Arms
  <2> QED BY <1>1, <1>2, <2>1, Bounds DEF Arm
<1>4. at # NULL => /\ at \in Nat /\ at \in Fits(Arm, Now.size)
  BY <1>1, <1>3, PlacesFacts
<1>5. heap[Arm] = InHand /\ InHand = {BlockAt(held[k], HoleSize) : k \in {m \in Slots : held[m] # NULL}}
  BY <1>1, <1>2 DEF AllocHeap, Owner, Unit, InHand, Lives
<1>6. CASE at = NULL
  <2>1. /\ bad' = TRUE /\ phase' = "drain" /\ i' = 0 /\ UNCHANGED <<heap, p>>
        /\ refused' = (refused \/ Counted)
    BY <1>4, <1>6 DEF Break
  <2>2. AllocTypes'
    <3>1. refused' \in BOOLEAN
      BY <2>1 DEF AllocTypes, Counted
    <3> QED BY <1>1, <2>1, <3>1 DEF AllocTypes, verdict
  <2>3. AllocControl'
    BY <1>1, <1>2, <2>1 DEF AllocControl, verdict
  <2>4. AllocHeld'
    BY <1>1, <1>2, <2>1 DEF AllocHeld, May, Slots
  <2>5. AllocHeap'
    BY <1>1, <1>2, <1>3, <2>1 DEF AllocHeap, Owner, Unit, InHand, Lives
  <2>6. AllocGaps'
    BY <2>1 DEF AllocGaps
  <2>7. AllocFigures'
    BY <1>1, <1>2, <2>1 DEF AllocFigures, Counted, AllocTypes
  <2> QED BY <1>2, <2>2, <2>3, <2>4, <2>5, <2>6, <2>7
<1>7. CASE at # NULL
  <2>1. /\ heap' = Placed(Arm, at, Now.size) /\ p' = at /\ UNCHANGED <<phase, i, bad>>
        /\ refused' = refused /\ at \in Nat
    BY <1>4, <1>7 DEF AllocTypes
  <2>2. AllocTypes'
    <3>1. heap' \in [Arms -> SUBSET [at : Int, size : Int]]
      BY <1>1, <1>3, <1>7, <2>1 DEF AllocTypes, Placed
    <3> QED BY <1>1, <2>1, <3>1 DEF AllocTypes, verdict
  <2>3. AllocControl'
    BY <1>1, <1>2, <1>3, <2>1 DEF AllocControl, verdict
  <2>4. AllocHeld'
    <3>1. ASSUME NEW k \in Slots PROVE held[k] # at
      <4> SUFFICES ASSUME held[k] # NULL PROVE held[k] # at
        BY <1>7
      <4>1. BlockAt(held[k], HoleSize) \in heap[Arm]
        BY <1>5
      <4>2. FreeAt(heap[Arm], at, Now.size)
        BY <1>4, <1>7 DEF Fits
      <4>3. at + Now.size <= held[k] \/ held[k] + HoleSize <= at
        BY <4>1, <4>2 DEF FreeAt, BlockAt
      <4> QED BY <1>3, <2>1, <4>3
    <3> QED BY <1>1, <1>2, <2>1, <3>1 DEF AllocHeld, May
  <2>5. AllocHeap'
    <3>1. InHand' = InHand \cup {BlockAt(at, Now.size)}
      BY <1>1, <1>2, <1>5, <1>7, <2>1 DEF Unit, InHand, Lives
    <3>2. \A a \in Arms : heap'[a] = IF a = Arm THEN InHand' ELSE {}
      BY <1>1, <1>2, <1>5, <1>7, <2>1, <3>1 DEF AllocHeap, AllocTypes, Placed, Owner, BlockAt
    <3> QED BY <1>2, <1>3, <3>2 DEF AllocHeap, Owner
  <2>6. AllocGaps'
    <3>1. Arm = "c" /\ ~bad => at = 2 * (T \div 2) * HoleSize
      BY <1>1, <1>7, AllocBehindHoles
    <3> QED BY <1>1, <1>2, <1>3, <2>1, <3>1 DEF AllocGaps
  <2>7. AllocFigures'
    BY <1>1, <1>2, <2>1 DEF AllocFigures, Counted, Pairs
  <2> QED BY <1>2, <2>2, <2>3, <2>4, <2>5, <2>6, <2>7
<1> QED BY <1>6, <1>7

(* One more pair is done.                                                  *)
LEMMA AllocCountsPair ==
  ASSUME AllocInv, Paired, phase = "time", PairDone, i < OPS,
         UNCHANGED <<job, phase, bad, turn, arm, sums, anyBad, refused>>
  PROVE  AllocFigures' /\ sum' \in Nat /\ done' \in Nat /\ i' = i + 1 /\ i' <= OPS
<1> USE DEF AllocInv
<1>1. InPair /\ InPair'
  BY SameRow DEF Paired, Running, InPair, PairKinds
<1>2. /\ sum' = sum + Work(i) /\ i' = i + 1 /\ done' = done + (IF Counted THEN 1 ELSE 0)
  BY DEF PairDone
<1>3. i \in 0 .. OPS - 1 /\ OPS \in Nat /\ i' \in 0 .. OPS
  <2>1. OPS \in Nat \ {0} /\ i \in Nat
    BY Bounds DEF AllocTypes
  <2> QED BY <1>2, <2>1
<1>4. Answer[i + 1] = Answer[i] + Work(i) /\ Answer[i] \in Nat /\ Answer[i + 1] \in Nat
  BY <1>3, AnswerFacts
<1>5. Pairs' = Pairs + 1 /\ Pairs = i
  BY <1>2, <1>3 DEF Pairs
<1>6. AllocFigures'
  <2>1. ~bad => sum' = Answer[Pairs']
    BY <1>1, <1>2, <1>4, <1>5 DEF AllocFigures
  <2>2. ~Counted => done' = 0
    BY <1>1, <1>2 DEF AllocFigures
  <2>3. Counted /\ ~refused => done' = OPS * (2 * (turn - WARMUP) + (arm - 1)) + Pairs'
    <3> SUFFICES ASSUME Counted, ~refused
                 PROVE  done' = OPS * (2 * (turn - WARMUP) + (arm - 1)) + Pairs'
      OBVIOUS
    <3> DEFINE all == OPS * (2 * (turn - WARMUP) + (arm - 1))
    <3>1. done = all + Pairs /\ done' = done + 1 /\ done \in Nat /\ Pairs \in Nat
      BY <1>1, <1>2, <1>3, <1>5 DEF AllocFigures, AllocTypes
    <3>2. all \in Int
      <4>1. 2 * (turn - WARMUP) + (arm - 1) \in Int
        <5>1. turn \in Int /\ WARMUP \in Int /\ arm \in Int
          BY InsideRow, Bounds DEF AllocTypes
        <5> QED BY <5>1
      <4> QED BY <1>3, <4>1, SMTT(30)
    <3> HIDE DEF all
    <3>3. done' = all + Pairs'
      BY <1>5, <3>1, <3>2
    <3> QED BY <3>3 DEF all
  <2>4. Counted' = Counted
    BY DEF Counted
  <2> QED BY <1>1, <2>1, <2>2, <2>3, <2>4 DEF AllocFigures
<1>7. sum' \in Nat
  <2>1. Work(i) \in Nat
    BY <1>3, DivParts DEF Work
  <2> QED BY <1>2, <2>1 DEF AllocTypes
<1> QED BY <1>2, <1>3, <1>6, <1>7 DEF AllocTypes

(* The block of a pair is released: it was on the heap.                    *)
LEMMA AllocEndsPair == AllocInv /\ TimedFree => AllocInv'
<1> SUFFICES ASSUME AllocInv, TimedFree PROVE AllocInv'
  OBVIOUS
<1> USE DEF AllocInv
<1>1. /\ Paired /\ phase = "time" /\ p # NULL /\ p' = NULL /\ PairDone
      /\ heap' = [heap EXCEPT ![Arm] = @ \ {BlockAt(p, Now.size)}]
      /\ asserted' = (BlockAt(p, Now.size) \notin heap[Arm])
      /\ UNCHANGED <<job, phase, held, bad, turn, arm, sums, anyBad, refused, pool, verdict>>
  BY DEF TimedFree, Release, BlockAt
<1>2. /\ AllocRowsPrinted' /\ AllocPool'
      /\ InPair /\ InPair' /\ ~InSplit /\ ~InSplit' /\ Now' = Now
      /\ job # 0 /\ job # AllocRows /\ result = "none"
      /\ turn < WARMUP + ROUNDS /\ turn \in Nat
  BY <1>1, InsideRow DEF AllocTypes
<1>3. Arm \in Arms /\ i < OPS /\ Arm' = Arm
  BY <1>1, <1>2 DEF AllocControl, Arm
<1>4. AllocFigures' /\ sum' \in Nat /\ done' \in Nat /\ i' = i + 1 /\ i' <= OPS
  BY <1>1, <1>3, AllocCountsPair
<1> DEFINE Rest == {BlockAt(held[k], HoleSize) : k \in {m \in Slots : held[m] # NULL}}
<1>5. heap[Arm] = Rest \cup {BlockAt(p, Now.size)}
  BY <1>1, <1>2, <1>3 DEF AllocHeap, Owner, Unit, InHand, Lives
<1>6. BlockAt(p, Now.size) \notin Rest
  BY <1>1 DEF AllocHeld, BlockAt
<1>7. InHand' = Rest
  BY <1>1, <1>2 DEF Unit, InHand, Lives
<1>8. AllocTypes'
  <2>1. heap' \in [Arms -> SUBSET [at : Int, size : Int]]
    BY <1>1, <1>3 DEF AllocTypes
  <2>2. asserted' = FALSE
    BY <1>1, <1>5
  <2> QED BY <1>1, <1>4, <2>1, <2>2 DEF AllocTypes, verdict
<1>9. AllocControl'
  BY <1>1, <1>2, <1>4 DEF AllocControl, verdict
<1>10. AllocHeld'
  BY <1>1, <1>2 DEF AllocHeld, May
<1> HIDE DEF Rest
<1>11. AllocHeap'
  <2>1. \A a \in Arms : heap'[a] = IF a = Arm THEN Rest ELSE {}
    <3>1. heap'[Arm] = heap[Arm] \ {BlockAt(p, Now.size)}
      BY <1>1, <1>3 DEF AllocTypes
    <3>2. heap'[Arm] = Rest
      BY <1>5, <1>6, <3>1
    <3>3. \A a \in Arms : a # Arm => heap'[a] = heap[a] /\ heap[a] = {}
      BY <1>1, <1>2, <1>3 DEF AllocTypes, AllocHeap, Owner
    <3> QED BY <3>2, <3>3
  <2> QED BY <1>2, <1>3, <1>7, <2>1 DEF AllocHeap, Owner
<1>12. AllocGaps'
  BY <1>1, <1>2, <1>3 DEF AllocGaps
<1> QED BY <1>2, <1>4, <1>8, <1>9, <1>10, <1>11, <1>12

(* A pair of the arm that allocates nothing.                               *)
LEMMA AllocEmptyPair == AllocInv /\ EmptyOp => AllocInv'
<1> SUFFICES ASSUME AllocInv, EmptyOp PROVE AllocInv'
  OBVIOUS
<1> USE DEF AllocInv
<1>1. /\ Paired /\ phase = "time" /\ i < OPS /\ p = NULL /\ Arm = "empty" /\ PairDone
      /\ UNCHANGED <<heap, job, phase, held, p, bad, turn, arm, sums, anyBad, refused, pool,
                     verdict, asserted>>
  BY DEF EmptyOp, InLoop, LoopEnd
<1>2. /\ AllocRowsPrinted' /\ AllocPool'
      /\ InPair /\ InPair' /\ ~InSplit /\ ~InSplit' /\ Now' = Now
      /\ job # 0 /\ job # AllocRows /\ result = "none"
      /\ turn < WARMUP + ROUNDS /\ turn \in Nat
  BY <1>1, InsideRow DEF AllocTypes
<1>3. AllocFigures' /\ sum' \in Nat /\ done' \in Nat /\ i' = i + 1 /\ i' <= OPS
  BY <1>1, AllocCountsPair
<1>4. AllocTypes'
  BY <1>1, <1>3 DEF AllocTypes, verdict
<1>5. AllocControl'
  BY <1>1, <1>2, <1>3 DEF AllocControl, verdict
<1>6. AllocHeld'
  BY <1>1, <1>2 DEF AllocHeld, May
<1>7. AllocHeap'
  BY <1>1, <1>2 DEF AllocHeap, Owner, Unit, InHand, Lives, Arm
<1>8. AllocGaps'
  BY <1>1, <1>2 DEF AllocGaps, Arm
<1> QED BY <1>2, <1>3, <1>4, <1>5, <1>6, <1>7, <1>8

(* Nothing in hand, nothing on the heaps.                                  *)
LEMMA AllocAllBack ==
  ASSUME AllocInv, \A k \in Slots : ~Lives(k), p = NULL
  PROVE  \A a \in Arms : heap[a] = {}
BY DEF AllocInv, AllocHeap, InHand

(* Where a round begins, whichever it is.                                  *)
LEMMA AllocBeginsRound ==
  ASSUME Fresh', \A a \in Arms : heap'[a] = {}, job' \in 1 .. AllocRows, result' = "none",
         turn' = WARMUP + ROUNDS => arm' = 1
  PROVE  AllocControl' /\ AllocHeld' /\ AllocHeap' /\ AllocGaps'
<1>1. /\ phase' = "fill" /\ i' = 0 /\ held' = NoneHeld /\ p' = NULL /\ ~bad'
      /\ \A k \in Slots : held'[k] = NULL
  BY DEF Fresh, NoneHeld, Slots
<1>2. Taken(Now'.holes) \in 0 .. MAX_HELD /\ SplitCount(Now'.size) \in 0 .. MAX_HELD
  <2>1. Now'.size \in Nat /\ Now'.holes \in Nat
    BY AllocWhere DEF Now
  <2> QED BY <2>1, Bounds
<1>3. AllocControl'
  BY <1>1, <1>2, Bounds DEF AllocControl, Fresh
<1>4. AllocHeld'
  BY <1>1 DEF AllocHeld
<1>5. AllocHeap'
  <2>1. InHand' = {}
    BY <1>1 DEF InHand, Lives
  <2> QED BY <2>1 DEF AllocHeap
<1>6. AllocGaps'
  BY <1>1 DEF AllocGaps
<1> QED BY <1>3, <1>4, <1>5, <1>6

(* Where a row begins, once the row before is printed.                     *)
LEMMA AllocBeginsRow ==
  ASSUME AllocTypes, NewJob, \A a \in Arms : heap[a] = {}, job \in 1 .. AllocRows - 1,
         rows' \in Seq({"ok", "null", "differ", "outside"}), failed' \in Nat,
         Len(rows') = Printed(job + 1), failed' = 0 => \A k \in 1 .. Len(rows') : rows'[k] = "ok",
         pool' = NoPool, result = "none", UNCHANGED <<heap, result, asserted>>
  PROVE  AllocInv'
<1>1. /\ job' = job + 1 /\ turn' = 0 /\ arm' = 1 /\ sums' = <<0, 0>> /\ anyBad' = FALSE
      /\ done' = 0 /\ refused' = FALSE /\ phase' = "fill" /\ i' = 0 /\ held' = NoneHeld
      /\ p' = NULL /\ sum' = 0 /\ bad' = FALSE
  BY DEF NewJob, NewRound
<1>2. job' \in 1 .. AllocRows /\ AllocRows \in Nat /\ WARMUP \in Nat /\ ROUNDS \in Nat \ {0}
  <2>1. AllocRows \in Nat
    BY AllocJobs
  <2>2. WARMUP \in Nat /\ ROUNDS \in Nat \ {0}
    BY Bounds
  <2> QED BY <1>1, <2>1, <2>2
<1>3. AllocControl' /\ AllocHeld' /\ AllocHeap' /\ AllocGaps'
  <2>1. Fresh'
    BY <1>1 DEF Fresh
  <2>2. \A a \in Arms : heap'[a] = {}
    OBVIOUS
  <2>3. WARMUP + ROUNDS # 0
    BY <1>2
  <2> QED BY <1>1, <1>2, <2>1, <2>2, <2>3, AllocBeginsRound
<1>4. AllocTypes'
  <2>1. held' \in [Slots -> Nat \cup {NULL}]
    BY <1>1 DEF NoneHeld, Slots
  <2>2. heap' \in [Arms -> SUBSET [at : Int, size : Int]] /\ asserted' = FALSE
        /\ result' \in {"none", "PASS", "FAIL", "stopped"} /\ sums' \in Nat \X Nat
    BY <1>1 DEF AllocTypes
  <2>3. job' \in 0 .. AllocRows /\ turn' \in 0 .. WARMUP + ROUNDS
    BY <1>1, <1>2
  <2>4. sum' \in Nat /\ done' \in Nat /\ i' \in Nat /\ p' \in Nat \cup {NULL}
        /\ bad' \in BOOLEAN /\ anyBad' \in BOOLEAN /\ refused' \in BOOLEAN
        /\ arm' \in {1, 2} /\ phase' \in {"fill", "punch", "time", "drain", "end"}
    BY <1>1
  <2> QED BY <2>1, <2>2, <2>3, <2>4 DEF AllocTypes
<1>5. AllocFigures'
  <2>1. Pairs' = 0 /\ Answer[0] = 0
    BY <1>1, AnswerFacts DEF Pairs
  <2>2. Counted' => WARMUP = 0
    BY <1>1, <1>2 DEF Counted
  <2>3. OPS \in Nat
    BY Bounds
  <2> QED BY <1>1, <1>2, <2>1, <2>2, <2>3 DEF AllocFigures
<1>6. AllocRowsPrinted'
  BY <1>1 DEF AllocRowsPrinted
<1>7. AllocPool'
  BY DEF AllocPool
<1> QED BY <1>3, <1>4, <1>5, <1>6, <1>7 DEF AllocInv

(* A round of one arm is over.                                             *)
LEMMA AllocEndsRound == AllocInv /\ EndRound => AllocInv'
<1> SUFFICES ASSUME AllocInv, EndRound PROVE AllocInv'
  OBVIOUS
<1> USE DEF AllocInv
<1>1. /\ Paired /\ phase = "end"
      /\ sums' = IF Counted THEN [sums EXCEPT ![arm] = sum] ELSE sums
      /\ anyBad' = IF Counted THEN (anyBad \/ bad) ELSE anyBad
      /\ arm' = 3 - arm
      /\ turn' = IF arm = 2 THEN turn + 1 ELSE turn
      /\ phase' = "fill" /\ i' = 0 /\ held' = NoneHeld /\ p' = NULL
      /\ sum' = 0 /\ bad' = FALSE
      /\ UNCHANGED <<heap, job, pool, verdict, done, refused, asserted>>
  BY DEF EndRound, NewRound, BadOf
<1>2. turn' \in 0 .. WARMUP + ROUNDS /\ arm' \in {1, 2} /\ (turn' = WARMUP + ROUNDS => arm' = 1)
  <2>1. WARMUP \in Nat /\ ROUNDS \in Nat
    BY Bounds
  <2>2. turn \in Nat /\ turn < WARMUP + ROUNDS /\ arm \in {1, 2}
    BY <1>1, <2>1 DEF AllocTypes, Paired
  <2> QED BY <1>1, <2>1, <2>2
<1>3. /\ AllocRowsPrinted' /\ AllocPool'
      /\ InPair /\ InPair' /\ ~InSplit /\ ~InSplit' /\ Now' = Now
      /\ job # 0 /\ job # AllocRows /\ result = "none"
      /\ turn < WARMUP + ROUNDS /\ turn \in Nat /\ WARMUP \in Nat /\ ROUNDS \in Nat \ {0}
  BY <1>1, <1>2, InsideRow
<1>4. p = NULL /\ \A k \in Slots : held[k] = NULL
  BY <1>1, <1>3 DEF AllocControl, AllocHeld, May
<1>5. \A a \in Arms : heap'[a] = {}
  BY <1>1, <1>4, AllocAllBack DEF Lives
<1>6. AllocControl' /\ AllocHeld' /\ AllocHeap' /\ AllocGaps'
  <2>1. Fresh'
    BY <1>1 DEF Fresh
  <2>2. job' \in 1 .. AllocRows /\ result' = "none"
    BY <1>1, <1>3, AllocJobs DEF InPair, verdict
  <2> QED BY <1>2, <1>5, <2>1, <2>2, AllocBeginsRound
<1>7. sums' \in Nat \X Nat /\ (Counted => sums'[arm] = sum /\ sums'[3 - arm] = sums[3 - arm])
  <2>1. PICK a \in Nat, b \in Nat : sums = <<a, b>>
    BY DEF AllocTypes
  <2>2. sums' = IF Counted THEN IF arm = 1 THEN <<sum, b>> ELSE <<a, sum>> ELSE <<a, b>>
    BY <1>1, <2>1 DEF AllocTypes
  <2> QED BY <2>1, <2>2 DEF AllocTypes
<1>8. AllocTypes'
  <2>1. held' \in [Slots -> Nat \cup {NULL}]
    BY <1>1 DEF NoneHeld, Slots
  <2>2. anyBad' \in BOOLEAN
    BY <1>1 DEF AllocTypes
  <2> QED BY <1>1, <1>2, <1>7, <2>1, <2>2 DEF AllocTypes, verdict
<1>9. AllocFigures'
  <2>1. Pairs' = 0 /\ Pairs = OPS /\ Answer[0] = 0 /\ OPS \in Nat
    BY <1>1, AnswerFacts, Bounds DEF Pairs
  <2>2. CASE ~Counted
    <3>1. done = 0 /\ ~anyBad /\ ~refused /\ turn < WARMUP
      BY <1>3, <2>2 DEF AllocFigures, Counted, AllocTypes
    <3>2. Counted' => turn' = WARMUP /\ arm' = 1
      BY <1>1, <1>3, <3>1 DEF Counted, AllocTypes
    <3>3. ~refused' /\ ~anyBad' /\ ~bad' /\ done' = 0 /\ sum' = 0
      BY <1>1, <2>2, <3>1
    <3>4. Counted' => done' = OPS * (2 * (turn' - WARMUP) + (arm' - 1)) + Pairs'
      BY <1>3, <2>1, <3>2, <3>3
    <3>5. Counted' => ~(turn' > WARMUP \/ arm' = 2)
      BY <1>3, <3>2
    <3> QED BY <2>1, <3>3, <3>4, <3>5 DEF AllocFigures
  <2>3. CASE Counted
    <3>1. Counted' /\ turn >= WARMUP
      BY <1>1, <1>3, <2>3 DEF Counted, AllocTypes
    <3>2. refused' <=> anyBad'
      BY <1>1, <1>3, <2>3 DEF AllocFigures
    <3>3. ASSUME ~refused'
          PROVE  /\ done' = OPS * (2 * (turn' - WARMUP) + (arm' - 1)) + Pairs'
                 /\ turn' > WARMUP \/ arm' = 2 => sums'[1] = Answer[OPS]
                 /\ turn' > WARMUP => sums'[2] = Answer[OPS]
      <4>1. ~refused /\ ~bad
        BY <1>1, <1>3, <2>3, <3>3 DEF AllocFigures
      <4>2. /\ done = OPS * (2 * (turn - WARMUP) + (arm - 1)) + OPS /\ sum = Answer[OPS]
            /\ turn > WARMUP \/ arm = 2 => sums[1] = Answer[OPS]
            /\ turn > WARMUP => sums[2] = Answer[OPS]
        BY <1>3, <2>1, <2>3, <4>1 DEF AllocFigures
      <4>3. CASE arm = 1
        <5>1. turn' = turn /\ arm' = 2 /\ sums'[1] = sum /\ sums'[2] = sums[2]
          BY <1>1, <1>7, <2>3, <4>3
        <5>2. done' = OPS * (2 * (turn' - WARMUP) + (arm' - 1)) + Pairs'
          <6> DEFINE d == 2 * (turn - WARMUP)
          <6>1. d \in Int /\ OPS * (d + 1) = OPS * (d + 0) + OPS
            BY <1>3, <2>1
          <6> QED BY <1>1, <1>3, <2>1, <4>2, <4>3, <5>1, <6>1
        <5> QED BY <4>2, <5>1, <5>2
      <4>4. CASE arm = 2
        <5>1. turn' = turn + 1 /\ arm' = 1 /\ sums'[2] = sum /\ sums'[1] = sums[1]
          BY <1>1, <1>7, <2>3, <4>4
        <5>2. done' = OPS * (2 * (turn' - WARMUP) + (arm' - 1)) + Pairs'
          <6> DEFINE d == 2 * (turn - WARMUP)
          <6>1. d \in Int /\ OPS * (d + 2) = OPS * (d + 1) + OPS /\ 2 * (turn' - WARMUP) = d + 2
            BY <1>3, <2>1, <5>1
          <6> HIDE DEF d
          <6>2. OPS * (2 * (turn' - WARMUP) + (arm' - 1)) = OPS * (d + 2)
            BY <5>1, <6>1
          <6>3. done = OPS * (d + 1) + OPS
            BY <4>2, <4>4 DEF d
          <6>4. OPS * (d + 2) \in Int
            BY <2>1, <6>1, SMTT(30)
          <6> QED BY <1>1, <2>1, <6>1, <6>2, <6>3, <6>4
        <5> QED BY <4>2, <4>4, <5>1, <5>2
      <4> QED BY <4>3, <4>4 DEF AllocTypes
    <3> QED BY <1>1, <2>1, <3>1, <3>2, <3>3 DEF AllocFigures
  <2> QED BY <2>2, <2>3
<1> QED BY <1>3, <1>6, <1>8, <1>9

(* What is charged is given back at once.                                  *)
LEMMA ChargeGivesBack ==
  ASSUME AllocTypes, \A a \in Arms : heap[a] = {}, NEW size, Charge(size)
  PROVE  heap' = heap
<1> PICK at \in Places("c", size) :
      heap' = [Placed("c", at, size) EXCEPT !["c"] = @ \ {[at |-> at, size |-> size]}]
  BY DEF Charge
<1> DEFINE piece == [at |-> at, size |-> size]
<1>1. heap \in [Arms -> SUBSET [at : Int, size : Int]] /\ "c" \in Arms
  BY DEF AllocTypes, Arms
<1>2. (heap["c"] \cup {piece}) \ {piece} = heap["c"] /\ heap["c"] \ {piece} = heap["c"]
  BY <1>1
<1>3. CASE at = NULL
  BY <1>1, <1>2, <1>3 DEF Placed
<1>4. CASE at # NULL
  BY <1>1, <1>2, <1>4 DEF Placed
<1> QED BY <1>3, <1>4

(* A row is judged and printed.                                            *)
LEMMA AllocReports ==
  AllocInv /\ Report => AllocInv' /\ (Judged => /\ Verdict = "ok" <=> done = 2 * ROUNDS * OPS /\ ~refused
                                                /\ Verdict = "null" <=> refused)
<1> SUFFICES ASSUME AllocInv, Report
             PROVE  AllocInv' /\ (Judged => /\ Verdict = "ok" <=> done = 2 * ROUNDS * OPS /\ ~refused
                                            /\ Verdict = "null" <=> refused)
  OBVIOUS
<1> USE DEF AllocInv
<1>1. /\ Running(PairKinds) /\ turn = WARMUP + ROUNDS
      /\ rows' = IF Judged THEN Append(rows, Verdict) ELSE rows
      /\ failed' = IF Judged /\ Verdict # "ok" THEN failed + 1 ELSE failed
      /\ NewJob
      /\ UNCHANGED <<pool, result, asserted>>
      /\ UNCHANGED heap \/ Charge(Now.size)
  <2>1. CASE ReportFloor
    <3>1. Running({"floor", "null"}) /\ ~Judged
      BY <2>1 DEF ReportFloor, Ended, Running, Judged
    <3> QED BY <2>1, <3>1 DEF ReportFloor, Ended, Running, PairKinds, verdict
  <2>2. CASE ReportClean
    <3>1. Running({"clean"}) /\ Judged
      BY <2>2 DEF ReportClean, Ended, Running, Judged
    <3>2. UNCHANGED heap \/ Charge(Now.size)
      BY <2>2 DEF ReportClean
    <3> QED BY <2>2, <3>1, <3>2 DEF ReportClean, Tally, Fails, Ended, Running, PairKinds
  <2>3. CASE ReportHoles
    <3>1. Running({"holes"}) /\ Judged
      BY <2>3 DEF ReportHoles, Ended, Running, Judged
    <3> QED BY <2>3, <3>1 DEF ReportHoles, Tally, Fails, Ended, Running, PairKinds
  <2> QED BY <2>1, <2>2, <2>3 DEF Report
<1>2. /\ InPair /\ ~InPool /\ result = "none" /\ job \in DOMAIN Jobs
      /\ Now.kind \in PairKinds
  BY <1>1 DEF Running, InPair, InPool, PairKinds
<1>3. Fresh /\ arm = 1
  BY <1>1, <1>2 DEF AllocControl
<1>4. \A a \in Arms : heap[a] = {}
  BY <1>3, AllocAllBack DEF Fresh, NoneHeld, Slots, Lives
<1>11. UNCHANGED heap
  BY <1>1, <1>4, ChargeGivesBack
<1>5. job \in 1 .. AllocRows - 1 /\ Judged \in BOOLEAN
      /\ Printed(job + 1) = Printed(job) + (IF Judged THEN 1 ELSE 0) /\ Printed(job) \in Nat
  <2>1. job \in 1 .. AllocRows /\ AllocRows \in Nat /\ job # AllocRows
    BY <1>2, RowFacts DEF PairKinds
  <2>2. Jobs[job].kind # "probe"
    BY <1>2 DEF Now, PairKinds
  <2>3. /\ Printed(job) \in Nat
        /\ Printed(job + 1) = Printed(job) + (IF Jobs[job].kind \in {"clean", "holes"} THEN 1 ELSE 0)
    BY <2>1, <2>2, AllocWhere
  <2> QED BY <2>1, <2>3 DEF Judged, Now
<1>6. /\ refused <=> anyBad
      /\ ~refused => done = 2 * ROUNDS * OPS /\ sums[1] = sums[2]
  <2>1. /\ Counted /\ ~bad /\ Pairs = 0 /\ turn > WARMUP
        /\ ROUNDS \in Nat /\ OPS \in Nat /\ WARMUP \in Nat
    <3>1. WARMUP \in Nat /\ ROUNDS \in Nat \ {0} /\ OPS \in Nat
      BY Bounds
    <3> QED BY <1>1, <1>3, <3>1 DEF Counted, Fresh, Pairs
  <2>2. /\ refused <=> anyBad
        /\ ~refused => /\ done = OPS * (2 * (turn - WARMUP) + (arm - 1)) + 0
                       /\ sums[1] = Answer[OPS] /\ sums[2] = Answer[OPS]
    BY <1>2, <2>1 DEF AllocFigures
  <2>3. OPS * (2 * (turn - WARMUP) + (arm - 1)) + 0 = 2 * ROUNDS * OPS
    <3>1. 2 * (turn - WARMUP) + (arm - 1) = 2 * ROUNDS
      BY <1>1, <1>3, <2>1
    <3>2. OPS * (2 * ROUNDS) + 0 = 2 * ROUNDS * OPS
      BY <2>1
    <3> QED BY <3>1, <3>2, Zenon
  <2> QED BY <2>2, <2>3
<1>7. Judged => /\ Verdict = "ok" <=> done = 2 * ROUNDS * OPS /\ ~refused
                /\ Verdict = "null" <=> refused
  BY <1>6 DEF Verdict
<1>8. rows \in Seq({"ok", "null", "differ", "outside"}) /\ failed \in Nat
      /\ Verdict \in {"ok", "null", "differ", "outside"}
      /\ Len(rows) = Printed(job) /\ (failed = 0 => \A k \in 1 .. Len(rows) : rows[k] = "ok")
  BY <1>2, <1>5 DEF AllocTypes, Verdict, AllocRowsPrinted
<1>9. /\ rows' \in Seq({"ok", "null", "differ", "outside"}) /\ failed' \in Nat
      /\ Len(rows') = Printed(job + 1)
      /\ failed' = 0 => \A k \in 1 .. Len(rows') : rows'[k] = "ok"
  <2>1. CASE ~Judged
    BY <1>1, <1>5, <1>8, <2>1
  <2>2. CASE Judged
    <3>1. rows' = Append(rows, Verdict) /\ failed' = IF Verdict # "ok" THEN failed + 1 ELSE failed
      BY <1>1, <2>2
    <3> QED BY <1>5, <1>8, <2>2, <3>1
  <2> QED BY <2>1, <2>2
<1>10. AllocInv'
  <2>1. pool' = NoPool
    BY <1>1, <1>2 DEF AllocPool
  <2> HIDE DEF AllocInv
  <2>2. AllocTypes
    BY DEF AllocInv
  <2> QED BY <1>1, <1>2, <1>4, <1>5, <1>9, <1>11, <2>1, <2>2, AllocBeginsRow
<1> QED BY <1>7, <1>10

(* A round of the pool or of the halves is over.                           *)
LEMMA AllocEndsTurn ==
  ASSUME AllocInv, Running({"pool", "split"}), \A a \in Arms : heap[a] = {}, pool' = NoPool,
         IF turn + 1 < WARMUP + ROUNDS
         THEN /\ turn' = turn + 1
              /\ NewRound
              /\ UNCHANGED <<job, arm, sums, anyBad, done, refused>>
         ELSE NewJob,
         UNCHANGED <<heap, verdict, asserted>>
  PROVE  AllocInv'
<1> USE DEF AllocInv
<1>1. job \in 1 .. AllocRows - 1 /\ result = "none" /\ Now.kind \in {"pool", "split"}
      /\ ~InPair /\ job \in 1 .. AllocRows /\ AllocRows \in Nat
  <2>1. job \in DOMAIN Jobs /\ result = "none" /\ Now.kind \in {"pool", "split"}
    BY DEF Running
  <2>2. job \in 1 .. AllocRows /\ AllocRows \in Nat /\ (Now.kind = "probe" <=> job = AllocRows)
    BY <2>1, RowFacts
  <2> QED BY <2>1, <2>2 DEF InPair, PairKinds
<1>2. CASE turn + 1 < WARMUP + ROUNDS
  <2>1. /\ turn' = turn + 1 /\ phase' = "fill" /\ i' = 0 /\ held' = NoneHeld /\ p' = NULL
        /\ sum' = 0 /\ bad' = FALSE
        /\ UNCHANGED <<heap, job, arm, sums, anyBad, done, refused, verdict, asserted>>
    BY <1>2 DEF NewRound
  <2>2. WARMUP + ROUNDS \in Nat /\ turn' \in 0 .. WARMUP + ROUNDS /\ turn' # WARMUP + ROUNDS
    <3>1. WARMUP \in Nat /\ ROUNDS \in Nat
      BY Bounds
    <3> QED BY <1>2, <2>1, <3>1 DEF AllocTypes
  <2>3. AllocTypes'
    <3>1. held' \in [Slots -> Nat \cup {NULL}]
      BY <2>1 DEF NoneHeld, Slots
    <3> QED BY <2>1, <2>2, <3>1 DEF AllocTypes, verdict
  <2>4. AllocControl' /\ AllocHeld' /\ AllocHeap' /\ AllocGaps'
    <3>1. Fresh'
      BY <2>1 DEF Fresh
    <3>2. job' \in 1 .. AllocRows /\ result' = "none"
      BY <1>1, <2>1 DEF verdict
    <3> QED BY <2>1, <2>2, <3>1, <3>2, AllocBeginsRound
  <2>5. AllocFigures'
    BY <1>1, <2>1, SameRow DEF AllocFigures
  <2>6. AllocRowsPrinted'
    BY <2>1 DEF AllocRowsPrinted, verdict, Printed
  <2>7. AllocPool'
    BY DEF AllocPool
  <2> QED BY <2>3, <2>4, <2>5, <2>6, <2>7
<1>3. CASE ~(turn + 1 < WARMUP + ROUNDS)
  <2>1. NewJob
    BY <1>3
  <2>2. Printed(job + 1) = Printed(job) /\ Printed(job) \in Nat
    <3>1. Jobs[job].kind \in {"pool", "split"}
      BY <1>1 DEF Now
    <3>2. /\ Printed(job) \in Nat
          /\ Jobs[job].kind # "probe" =>
               Printed(job + 1) = Printed(job) + (IF Jobs[job].kind \in {"clean", "holes"} THEN 1 ELSE 0)
      BY <1>1, AllocWhere
    <3> QED BY <3>1, <3>2
  <2>3. /\ rows \in Seq({"ok", "null", "differ", "outside"}) /\ failed \in Nat
        /\ Len(rows) = Printed(job) /\ (failed = 0 => \A k \in 1 .. Len(rows) : rows[k] = "ok")
        /\ AllocTypes
    BY <1>1, <2>2 DEF AllocTypes, AllocRowsPrinted
  <2>4. UNCHANGED <<heap, failed, rows, result, asserted>>
    BY DEF verdict
  <2>5. Len(rows') = Printed(job + 1) /\ (failed' = 0 => \A k \in 1 .. Len(rows') : rows'[k] = "ok")
        /\ rows' \in Seq({"ok", "null", "differ", "outside"}) /\ failed' \in Nat
    BY <2>2, <2>3, <2>4
  <2> HIDE DEF AllocInv
  <2> QED BY <1>1, <2>1, <2>3, <2>4, <2>5, AllocBeginsRow
<1> QED BY <1>2, <1>3

(* A step of the pool leaves the rest alone.                               *)
LEMMA AllocPoolStep ==
  ASSUME AllocInv, Running({"pool"}), AllocPool', i' \in Nat, sum' \in Nat,
         UNCHANGED <<heap, job, phase, held, p, bad, pair, verdict, asserted>>
  PROVE  AllocInv'
<1> USE DEF AllocInv
<1>1. InPool /\ ~InPair /\ ~InSplit /\ ~InPair' /\ ~InSplit' /\ Now' = Now
      /\ job # 0 /\ job # AllocRows
  <2>1. job \in DOMAIN Jobs /\ Now.kind = "pool"
    BY DEF Running
  <2>2. job # 0 /\ job # AllocRows
    BY <2>1, RowFacts
  <2> QED BY <2>1, <2>2, SameRow DEF InPool, InPair, InSplit, PairKinds
<1>2. AllocTypes'
  BY DEF AllocTypes, pair, verdict
<1>3. AllocControl'
  BY <1>1 DEF AllocControl, AllocTypes, pair, verdict
<1>4. AllocHeld'
  BY <1>1 DEF AllocHeld, May
<1>5. AllocHeap'
  BY <1>1 DEF AllocHeap, InHand, Lives, Owner, Unit
<1>6. AllocGaps' /\ AllocFigures'
  BY <1>1 DEF AllocGaps, AllocFigures
<1>7. AllocRowsPrinted'
  BY DEF AllocRowsPrinted, verdict, Printed
<1> QED BY <1>2, <1>3, <1>4, <1>5, <1>6, <1>7

(* The offsets of the pool.                                                *)
LEMMA PoolFacts ==
  ASSUME AllocInv, Running({"pool"})
  PROVE  /\ InPool /\ BLOCKS \in Nat \ {0} /\ MAX_BLOCK \in Nat
         /\ Stride(Now.size) \in Nat \ {0} /\ Stride(Now.size) <= MAX_BLOCK
         /\ NewPool(Now.size).free \in [1 .. BLOCKS -> Nat]
         /\ \A k \in 1 .. BLOCKS : NewPool(Now.size).free[k] = (k - 1) * Stride(Now.size)
         /\ NewPool(Now.size).out = NULL /\ NewPool(Now.size).top = BLOCKS
         /\ \A k \in 1 .. BLOCKS - 1 : (k - 1) * Stride(Now.size) < (BLOCKS - 1) * Stride(Now.size)
         /\ (BLOCKS - 1) * Stride(Now.size) \in Nat
         /\ (BLOCKS - 1) * Stride(Now.size) < MAX_BLOCK * BLOCKS
<1> DEFINE S == Stride(Now.size)
<1>1. BLOCKS \in Nat \ {0} /\ MAX_BLOCK \in Nat \ {0} /\ Now.size \in Nat /\ InPool
  <2>1. BLOCKS \in Nat \ {0} /\ MAX_BLOCK \in Nat \ {0}
    BY Bounds
  <2>2. InPool /\ job \in DOMAIN Jobs
    BY DEF Running, InPool
  <2> QED BY <2>1, <2>2, RowFacts DEF AllocInv
<1>2. S \in Nat \ {0} /\ S <= MAX_BLOCK
  BY <1>1 DEF Stride, Smaller
<1> HIDE DEF S
<1>3. \A k \in Nat : k * S \in Nat /\ (k + 1) * S = k * S + S
  BY <1>2, Grid
<1>4. \A k \in 1 .. BLOCKS : (k - 1) * S \in Nat
  BY <1>1, <1>3
<1>5. /\ NewPool(Now.size).free = [k \in 1 .. BLOCKS |-> (k - 1) * S]
      /\ NewPool(Now.size).out = NULL /\ NewPool(Now.size).top = BLOCKS
  BY DEF NewPool, S
<1>6. ASSUME NEW k \in 1 .. BLOCKS - 1 PROVE (k - 1) * S < (BLOCKS - 1) * S
  <2>1. k - 1 \in Nat /\ BLOCKS - 1 \in Nat /\ k - 1 < BLOCKS - 1
    BY <1>1
  <2> QED BY <1>2, <1>3, <2>1, Grid
<1>7. (BLOCKS - 1) * S \in Nat /\ (BLOCKS - 1) * S < MAX_BLOCK * BLOCKS
  <2> PICK n \in Nat : BLOCKS = n + 1
    <3>1. BLOCKS - 1 \in Nat /\ BLOCKS = (BLOCKS - 1) + 1
      BY <1>1
    <3> QED BY <3>1, Zenon
  <2> PICK d \in Nat : MAX_BLOCK = S + d
    <3>1. MAX_BLOCK - S \in Nat /\ MAX_BLOCK = S + (MAX_BLOCK - S)
      BY <1>1, <1>2
    <3> QED BY <3>1, Zenon
  <2>1. BLOCKS - 1 = n
    OBVIOUS
  <2>2. MAX_BLOCK * BLOCKS = n * S + S + d * (n + 1)
    BY <1>2, SMTT(30)
  <2>3. d * (n + 1) \in Nat
    BY SMTT(30)
  <2>4. n * S \in Nat
    BY <1>3
  <2> QED BY <1>2, <2>1, <2>2, <2>3, <2>4
<1> QED BY <1>1, <1>2, <1>4, <1>5, <1>6, <1>7 DEF S

(* The pool is made.                                                       *)
LEMMA AllocPoolStarts == AllocInv /\ PoolStart => AllocInv'
<1> SUFFICES ASSUME AllocInv, PoolStart PROVE AllocInv'
  OBVIOUS
<1>1. /\ Running({"pool"}) /\ pool' = NewPool(Now.size)
      /\ UNCHANGED <<heap, job, phase, i, held, p, sum, bad, pair, verdict, asserted>>
  BY DEF PoolStart, round
<1>2. InPool' /\ Now' = Now
  BY <1>1, PoolFacts, SameRow
<1>3. AllocPool'
  BY <1>1, <1>2 DEF AllocPool, NewPool, Stride
<1>4. i' \in Nat /\ sum' \in Nat
  BY <1>1 DEF AllocInv, AllocTypes
<1> QED BY <1>1, <1>3, <1>4, AllocPoolStep

(* A pop.                                                                  *)
LEMMA AllocPoolPops == AllocInv /\ PoolPop => AllocInv'
<1> SUFFICES ASSUME AllocInv, PoolPop PROVE AllocInv'
  OBVIOUS
<1> DEFINE N == NewPool(Now.size)
           S == Stride(Now.size)
<1>1. /\ Running({"pool"}) /\ pool # NoPool /\ pool.out = NULL
      /\ IF pool.top = 0 THEN bad' = TRUE /\ UNCHANGED pool
         ELSE pool' = [pool EXCEPT !.top = @ - 1, !.out = pool.free[pool.top]] /\ UNCHANGED bad
      /\ UNCHANGED <<heap, job, phase, i, held, p, sum, pair, verdict, asserted>>
  BY DEF PoolPop
<1>2. /\ InPool /\ BLOCKS \in Nat \ {0} /\ N.free[BLOCKS] = (BLOCKS - 1) * S
      /\ (BLOCKS - 1) * S \in Nat /\ N.top = BLOCKS /\ InPool' /\ Now' = Now
  <2>1. InPool' = InPool /\ Now' = Now
    BY <1>1, SameRow DEF InPool
  <2>2. /\ InPool /\ BLOCKS \in Nat \ {0} /\ N.out = NULL /\ N.top = BLOCKS
        /\ (BLOCKS - 1) * S \in Nat /\ N.free \in [1 .. BLOCKS -> Nat]
        /\ \A k \in 1 .. BLOCKS : N.free[k] = (k - 1) * S
    BY <1>1, PoolFacts, Zenon
  <2>3. BLOCKS \in 1 .. BLOCKS
    BY <2>2
  <2> QED BY <2>1, <2>2, <2>3, Zenon
<1>3. pool = N
  <2>1. [N EXCEPT !.top = BLOCKS - 1, !.out = (BLOCKS - 1) * S].out = (BLOCKS - 1) * S
    BY DEF NewPool
  <2>2. (BLOCKS - 1) * S # NULL
    BY <1>2 DEF NULL
  <2> QED BY <1>1, <2>1, <2>2 DEF AllocInv, AllocPool
<1> HIDE DEF S
<1>4. pool' = [N EXCEPT !.top = BLOCKS - 1, !.out = (BLOCKS - 1) * S] /\ bad' = bad
  BY <1>1, <1>2, <1>3 DEF NewPool
<1>5. AllocPool'
  BY <1>2, <1>4 DEF AllocPool, NewPool, Stride, S
<1>6. i' \in Nat /\ sum' \in Nat
  BY <1>1 DEF AllocInv, AllocTypes
<1> QED BY <1>1, <1>4, <1>5, <1>6, AllocPoolStep

(* A push.                                                                 *)
LEMMA AllocPoolPushes == AllocInv /\ PoolPush => AllocInv'
<1> SUFFICES ASSUME AllocInv, PoolPush PROVE AllocInv'
  OBVIOUS
<1> DEFINE N == NewPool(Now.size)
           S == Stride(Now.size)
<1>1. /\ Running({"pool"}) /\ pool.out # NULL
      /\ pool' = [pool EXCEPT !.free[pool.top + 1] = pool.out, !.out = NULL, !.top = @ + 1]
      /\ i' = i + 1 /\ sum' = sum + Work(i)
      /\ UNCHANGED <<heap, job, phase, held, p, bad, pair, verdict, asserted>>
  BY DEF PoolPush, Push
<1>2. /\ InPool /\ BLOCKS \in Nat \ {0} /\ N.free[BLOCKS] = (BLOCKS - 1) * S /\ N.out = NULL
      /\ N.top = BLOCKS /\ InPool' /\ Now' = Now /\ N.free \in [1 .. BLOCKS -> Nat]
  <2>1. InPool' = InPool /\ Now' = Now
    BY <1>1, SameRow DEF InPool
  <2>2. /\ InPool /\ BLOCKS \in Nat \ {0} /\ N.out = NULL /\ N.top = BLOCKS
        /\ (BLOCKS - 1) * S \in Nat /\ N.free \in [1 .. BLOCKS -> Nat]
        /\ \A k \in 1 .. BLOCKS : N.free[k] = (k - 1) * S
    BY <1>1, PoolFacts, Zenon
  <2>3. BLOCKS \in 1 .. BLOCKS
    BY <2>2
  <2> QED BY <2>1, <2>2, <2>3, Zenon
<1>3. pool = [N EXCEPT !.top = BLOCKS - 1, !.out = (BLOCKS - 1) * S]
  BY <1>1, <1>2 DEF AllocInv, AllocPool, NoPool
<1> HIDE DEF S
<1>4. pool' = N
  <2>1. N = [free |-> N.free, top |-> N.top, out |-> N.out]
    BY DEF NewPool
  <2> HIDE DEF N
  <2>2. pool = [free |-> N.free, top |-> BLOCKS - 1, out |-> (BLOCKS - 1) * S]
    BY <1>3, <2>1
  <2>3. [N.free EXCEPT ![BLOCKS] = (BLOCKS - 1) * S] = N.free
    BY <1>2
  <2>4. (BLOCKS - 1) + 1 = BLOCKS
    BY <1>2
  <2>5. pool' = [free |-> [N.free EXCEPT ![BLOCKS] = (BLOCKS - 1) * S], top |-> BLOCKS, out |-> NULL]
    BY <1>1, <2>2, <2>4
  <2> QED BY <1>2, <2>1, <2>3, <2>5
<1>5. AllocPool'
  BY <1>2, <1>4 DEF AllocPool, NewPool, Stride
<1>6. i' \in Nat /\ sum' \in Nat
  <2>1. i \in Nat /\ sum \in Nat
    BY DEF AllocInv, AllocTypes
  <2>2. Work(i) \in Nat
    BY <2>1, DivParts DEF Work
  <2> QED BY <1>1, <2>1, <2>2
<1> QED BY <1>1, <1>5, <1>6, AllocPoolStep

(* A round of the pool is over.                                            *)
LEMMA AllocPoolEnds == AllocInv /\ PoolEnd => AllocInv'
<1> SUFFICES ASSUME AllocInv, PoolEnd PROVE AllocInv'
  OBVIOUS
<1>1. Running({"pool"}) /\ Running({"pool", "split"})
  BY DEF PoolEnd, Running
<1>2. ~InPair /\ ~InSplit
  BY <1>1 DEF Running, InPair, InSplit, PairKinds
<1>3. \A a \in Arms : heap[a] = {}
  <2>1. p = NULL /\ \A k \in Slots : ~Lives(k)
    BY <1>2 DEF AllocInv, AllocControl, AllocHeld, May, Lives
  <2> QED BY <2>1, AllocAllBack
<1> QED BY <1>1, <1>3, AllocEndsTurn DEF PoolEnd

(* What holds throughout a row of the halves.                              *)
LEMMA InsideSplit ==
  ASSUME AllocInv, Running({"split"}), UNCHANGED <<job, pool, verdict, p, bad, pair>>
  PROVE  /\ InSplit /\ InSplit' /\ ~InPair /\ ~InPair' /\ Now' = Now
         /\ AllocRowsPrinted' /\ AllocPool' /\ AllocGaps' /\ AllocFigures'
         /\ p = NULL /\ p' = NULL /\ job # 0 /\ job # AllocRows
         /\ SplitCount(Now.size) \in 0 .. MAX_HELD /\ MAX_HELD \in Nat
         /\ Now.size \in Nat \ {0} /\ i \in Nat /\ i <= SplitCount(Now.size)
<1> USE DEF AllocInv
<1>1. InSplit /\ ~InPair /\ ~InPool /\ job \in DOMAIN Jobs
  BY DEF Running, InSplit, InPair, InPool, PairKinds
<1>2. InSplit' /\ ~InPair' /\ Now' = Now
  BY <1>1, SameRow
<1>3. job # 0 /\ job # AllocRows /\ Now.size \in Nat \ {0} /\ SplitCount(Now.size) \in 0 .. MAX_HELD
  <2>1. job \in 1 .. AllocRows /\ (Now.kind = "probe" <=> job = AllocRows) /\ Now.kind = "split"
        /\ Now.size \in Nat /\ Now.size > 0 /\ SplitCount(Now.size) \in 0 .. MAX_HELD
    BY <1>1, RowFacts DEF InSplit
  <2> QED BY <2>1
<1>4. AllocGaps' /\ AllocFigures'
  BY <1>2 DEF AllocGaps, AllocFigures
<1>5. AllocRowsPrinted'
  BY DEF AllocRowsPrinted, verdict, Printed
<1>6. AllocPool'
  BY <1>1 DEF AllocPool
<1>7. p = NULL /\ i \in Nat /\ i <= SplitCount(Now.size)
  BY <1>1 DEF AllocControl, AllocTypes
<1>8. MAX_HELD \in Nat
  BY Bounds
<1> QED BY <1>1, <1>2, <1>3, <1>4, <1>5, <1>6, <1>7, <1>8

(* What is on the heap of a row of the halves.                             *)
SplitHand == {BlockAt(held[k], Now.size) : k \in {m \in Slots : Lives(m)}}

LEMMA SplitHeap ==
  ASSUME AllocInv, InSplit, p = NULL, ~InPair
  PROVE  heap["rust"] = SplitHand /\ heap["c"] = {} /\ InHand = SplitHand
BY DEF AllocInv, AllocHeap, InHand, Unit, Owner, SplitHand, Arms

(* A block, or a null, into the next slot of the halves.                   *)
LEMMA AllocSplitAllocs == AllocInv /\ SplitAlloc => AllocInv'
<1> SUFFICES ASSUME AllocInv, SplitAlloc PROVE AllocInv'
  OBVIOUS
<1> USE DEF AllocInv
<1> DEFINE size == Now.size
           n == SplitCount(Now.size)
<1> PICK at \in Places("rust", size) :
      heap' = Placed("rust", at, size) /\ held' = [held EXCEPT ![i] = at]
  BY DEF SplitAlloc
<1>1. /\ Running({"split"}) /\ phase = "fill" /\ i < n /\ i' = i + 1
      /\ UNCHANGED <<job, phase, p, sum, bad, pair, pool, verdict, asserted>>
  BY DEF SplitAlloc
<1>2. /\ InSplit /\ InSplit' /\ ~InPair /\ ~InPair' /\ Now' = Now
      /\ AllocRowsPrinted' /\ AllocPool' /\ AllocGaps' /\ AllocFigures'
      /\ p = NULL /\ p' = NULL /\ job # 0 /\ job # AllocRows
      /\ n \in 0 .. MAX_HELD /\ MAX_HELD \in Nat /\ size \in Nat \ {0} /\ i \in Nat
  BY <1>1, InsideSplit
<1>3. at # NULL => at \in Nat /\ at \in Fits("rust", size)
  BY <1>2, PlacesFacts DEF Arms
<1>4. i \in Slots
  BY <1>1, <1>2 DEF Slots
<1>5. \A k \in Slots : k >= i => held[k] = NULL
  BY <1>1, <1>2 DEF AllocHeld, May, Slots
<1>6. /\ held' \in [Slots -> Nat \cup {NULL}] /\ held'[i] = at
      /\ \A k \in Slots : k # i => held'[k] = held[k]
  BY <1>3, <1>4 DEF AllocTypes
<1>7. heap["rust"] = {BlockAt(held[k], size) : k \in {m \in Slots : held[m] # NULL}}
      /\ heap["c"] = {}
  BY <1>1, <1>2, SplitHeap DEF SplitHand, Lives
<1>8. at # NULL => \A k \in Slots : held[k] # NULL => held[k] # at
  <2> SUFFICES ASSUME at # NULL, NEW k \in Slots, held[k] # NULL PROVE held[k] # at
    OBVIOUS
  <2>1. BlockAt(held[k], size) \in heap["rust"]
    BY <1>7
  <2>2. FreeAt(heap["rust"], at, size)
    BY <1>3 DEF Fits
  <2>3. at + size <= held[k] \/ held[k] + size <= at
    BY <2>1, <2>2 DEF FreeAt, BlockAt
  <2> QED BY <1>2, <1>3, <2>3
<1> HIDE DEF n, size
<1>9. AllocTypes'
  <2>1. heap' \in [Arms -> SUBSET [at : Int, size : Int]]
    BY <1>2, <1>3 DEF AllocTypes, Placed, Arms
  <2>2. i' \in Nat
    BY <1>1, <1>2
  <2> QED BY <1>1, <1>6, <2>1, <2>2 DEF AllocTypes, pair, verdict
<1>10. AllocControl'
  BY <1>1, <1>2 DEF AllocControl, pair, verdict, n
<1>11. AllocHeld'
  <2>1. ASSUME NEW k \in Slots, held'[k] # NULL PROVE May(k)'
    <3>1. k = i \/ held[k] # NULL
      BY <1>6, <2>1
    <3>2. k < n /\ k < i'
      BY <1>1, <1>2, <1>5, <3>1 DEF Slots, AllocHeld, May, n
    <3> QED BY <1>1, <1>2, <3>2 DEF May, n
  <2>2. ASSUME NEW k \in Slots, NEW m \in Slots, k # m, held'[k] # NULL PROVE held'[k] # held'[m]
    BY <1>6, <1>8, <2>2 DEF AllocHeld
  <2> QED BY <1>2, <2>1, <2>2 DEF AllocHeld
<1>12. AllocHeap'
  <2>1. InHand' = {BlockAt(held'[k], size) : k \in {m \in Slots : held'[m] # NULL}}
    BY <1>1, <1>2 DEF Unit, InHand, Lives, size
  <2>2. InHand' = heap["rust"] \cup (IF at = NULL THEN {} ELSE {BlockAt(at, size)})
    <3>1. ASSUME NEW b \in InHand'
          PROVE  b \in heap["rust"] \cup (IF at = NULL THEN {} ELSE {BlockAt(at, size)})
      <4> PICK k \in Slots : held'[k] # NULL /\ b = BlockAt(held'[k], size)
        BY <2>1, <3>1
      <4> QED BY <1>6, <1>7
    <3>2. ASSUME NEW b \in heap["rust"] PROVE b \in InHand'
      <4> PICK k \in Slots : held[k] # NULL /\ b = BlockAt(held[k], size)
        BY <1>7, <3>2
      <4>1. k # i
        BY <1>2, <1>5
      <4> QED BY <1>6, <2>1, <4>1
    <3>3. at # NULL => BlockAt(at, size) \in InHand'
      BY <1>4, <1>6, <2>1
    <3> QED BY <3>1, <3>2, <3>3
  <2>3. heap'["rust"] = InHand' /\ heap'["c"] = {}
    BY <1>7, <2>2 DEF AllocTypes, Arms, Placed, BlockAt
  <2> QED BY <1>2, <2>3 DEF AllocHeap, Owner, Arms
<1> QED BY <1>2, <1>9, <1>10, <1>11, <1>12

(* From allocating to releasing.                                           *)
LEMMA AllocSplitTurns == AllocInv /\ SplitTurn => AllocInv'
<1> SUFFICES ASSUME AllocInv, SplitTurn PROVE AllocInv'
  OBVIOUS
<1> USE DEF AllocInv
<1>1. /\ Running({"split"}) /\ phase = "fill" /\ i = SplitCount(Now.size)
      /\ phase' = "drain" /\ i' = 0
      /\ UNCHANGED <<heap, job, held, p, sum, bad, pair, pool, verdict, asserted>>
  BY DEF SplitTurn
<1>2. /\ InSplit /\ InSplit' /\ ~InPair /\ ~InPair' /\ Now' = Now
      /\ AllocRowsPrinted' /\ AllocPool' /\ AllocGaps' /\ AllocFigures'
      /\ p = NULL /\ p' = NULL /\ job # 0 /\ job # AllocRows
      /\ SplitCount(Now.size) \in 0 .. MAX_HELD /\ MAX_HELD \in Nat
  BY <1>1, InsideSplit
<1>3. AllocTypes'
  BY <1>1 DEF AllocTypes, pair, verdict
<1>4. AllocControl'
  BY <1>1, <1>2 DEF AllocControl, pair, verdict
<1>5. AllocHeld'
  BY <1>1, <1>2 DEF AllocHeld, May
<1>6. AllocHeap'
  <2>1. \A k \in Slots : Lives(k)' <=> Lives(k)
    BY <1>1, <1>2 DEF Lives, Slots
  <2> QED BY <1>1, <1>2, <2>1 DEF AllocHeap, InHand, Unit, Owner
<1> QED BY <1>2, <1>3, <1>4, <1>5, <1>6

(* A slot of the halves is released; a null is passed over.                *)
LEMMA AllocSplitFrees == AllocInv /\ SplitFree => AllocInv'
<1> SUFFICES ASSUME AllocInv, SplitFree PROVE AllocInv'
  OBVIOUS
<1> USE DEF AllocInv
<1> DEFINE size == Now.size
           n == SplitCount(Now.size)
<1>1. /\ Running({"split"}) /\ phase = "drain" /\ i < n /\ i' = i + 1
      /\ IF held[i] = NULL THEN UNCHANGED <<heap, asserted>>
         ELSE /\ heap' = [heap EXCEPT !["rust"] = @ \ {BlockAt(held[i], size)}]
              /\ asserted' = (BlockAt(held[i], size) \notin heap["rust"])
      /\ UNCHANGED <<job, phase, held, p, sum, bad, pair, pool, verdict>>
  BY DEF SplitFree, Release, BlockAt
<1>2. /\ InSplit /\ InSplit' /\ ~InPair /\ ~InPair' /\ Now' = Now
      /\ AllocRowsPrinted' /\ AllocPool' /\ AllocGaps' /\ AllocFigures'
      /\ p = NULL /\ p' = NULL /\ job # 0 /\ job # AllocRows
      /\ n \in 0 .. MAX_HELD /\ MAX_HELD \in Nat /\ size \in Nat \ {0} /\ i \in Nat
  BY <1>1, InsideSplit
<1>3. i \in Slots
  BY <1>1, <1>2 DEF Slots
<1>4. heap["rust"] = {BlockAt(held[k], size) : k \in {m \in Slots : held[m] # NULL /\ m >= i}}
      /\ heap["c"] = {}
  BY <1>1, <1>2, SplitHeap DEF SplitHand, Lives
<1>5. InHand' = {BlockAt(held[k], size) : k \in {m \in Slots : held[m] # NULL /\ m >= i + 1}}
  BY <1>1, <1>2 DEF InHand, Unit, Lives
<1> HIDE DEF size, n
<1>6. asserted' = FALSE /\ heap' \in [Arms -> SUBSET [at : Int, size : Int]]
      /\ heap'["rust"] = InHand' /\ heap'["c"] = {}
  <2>1. CASE held[i] = NULL
    <3>1. UNCHANGED <<heap, asserted>>
      BY <1>1, <2>1
    <3>2. \A m \in Slots : held[m] # NULL /\ m >= i <=> held[m] # NULL /\ m >= i + 1
      BY <1>2, <2>1 DEF Slots
    <3>3. heap["rust"] = InHand'
      BY <1>4, <1>5, <3>2
    <3> QED BY <1>4, <3>1, <3>3 DEF AllocTypes
  <2>2. CASE held[i] # NULL
    <3>1. /\ heap' = [heap EXCEPT !["rust"] = @ \ {BlockAt(held[i], size)}]
          /\ asserted' = (BlockAt(held[i], size) \notin heap["rust"])
      BY <1>1, <2>2
    <3>2. BlockAt(held[i], size) \in heap["rust"]
      BY <1>2, <1>3, <1>4, <2>2
    <3>3. /\ heap' \in [Arms -> SUBSET [at : Int, size : Int]]
          /\ heap'["rust"] = heap["rust"] \ {BlockAt(held[i], size)} /\ heap'["c"] = {}
      BY <1>4, <3>1 DEF AllocTypes, Arms
    <3>4. ASSUME NEW b \in heap["rust"], b # BlockAt(held[i], size) PROVE b \in InHand'
      <4> PICK k \in Slots : held[k] # NULL /\ k >= i /\ b = BlockAt(held[k], size)
        BY <1>4, <3>4
      <4>1. k >= i + 1
        BY <1>2, <3>4 DEF Slots
      <4> QED BY <1>5, <4>1
    <3>5. ASSUME NEW b \in InHand' PROVE b \in heap["rust"] /\ b # BlockAt(held[i], size)
      <4> PICK k \in Slots : held[k] # NULL /\ k >= i + 1 /\ b = BlockAt(held[k], size)
        BY <1>5, <3>5
      <4>1. k >= i /\ k # i
        BY <1>2 DEF Slots
      <4>2. held[k] # held[i]
        BY <1>3, <4>1 DEF AllocHeld
      <4>3. b \in heap["rust"]
        BY <1>4, <4>1
      <4> QED BY <4>2, <4>3 DEF BlockAt
    <3>6. heap'["rust"] = InHand'
      BY <3>3, <3>4, <3>5
    <3>7. asserted' = FALSE
      BY <3>1, <3>2
    <3> QED BY <3>3, <3>6, <3>7
  <2> QED BY <2>1, <2>2
<1>7. AllocTypes'
  <2>1. i' \in Nat
    BY <1>1, <1>2
  <2> QED BY <1>1, <1>6, <2>1 DEF AllocTypes, pair, verdict
<1>8. AllocControl'
  BY <1>1, <1>2 DEF AllocControl, pair, verdict, n
<1>9. AllocHeld'
  BY <1>1, <1>2 DEF AllocHeld, May
<1>10. AllocHeap'
  BY <1>2, <1>6 DEF AllocHeap, Owner, Arms
<1> QED BY <1>2, <1>7, <1>8, <1>9, <1>10

(* A round of the halves is over.                                          *)
LEMMA AllocSplitEnds == AllocInv /\ SplitEnd => AllocInv'
<1> SUFFICES ASSUME AllocInv, SplitEnd PROVE AllocInv'
  OBVIOUS
<1>1. Running({"split"}) /\ Running({"pool", "split"}) /\ phase = "drain" /\ i = SplitCount(Now.size)
  BY DEF SplitEnd, Running
<1>2. InSplit /\ ~InPair /\ ~InPool
  BY <1>1 DEF Running, InSplit, InPair, InPool, PairKinds
<1>3. \A a \in Arms : heap[a] = {}
  <2>1. p = NULL
    BY <1>2 DEF AllocInv, AllocControl
  <2>2. ASSUME NEW k \in Slots, Lives(k) PROVE FALSE
    <3>1. k < i /\ k >= i /\ k \in Int /\ i \in Int
      BY <1>1, <1>2, <2>2, Bounds DEF AllocInv, AllocTypes, AllocHeld, May, Lives, Slots
    <3> QED BY <3>1
  <2> QED BY <2>1, <2>2, AllocAllBack
<1>4. pool' = NoPool
  BY <1>2 DEF AllocInv, AllocPool, SplitEnd
<1> QED BY <1>1, <1>3, <1>4, AllocEndsTurn DEF SplitEnd

-----------------------------------------------------------------------------
(* Before the first row.                                                   *)
LEMMA AllocStarts == RoundsInit => AllocInv
<1> SUFFICES ASSUME RoundsInit PROVE AllocInv
  OBVIOUS
<1>1. job = 0 /\ 0 \notin DOMAIN Jobs /\ AllocRows \in Nat /\ 0 \in 0 .. AllocRows
  <2>1. DOMAIN Jobs = 1 .. AllocRows /\ AllocRows \in Nat
    BY AllocJobs
  <2> QED BY <2>1 DEF RoundsInit
<1>2. ~InPair /\ ~InSplit
  BY <1>1 DEF InPair, InSplit
<1>3. \A k \in Slots : held[k] = NULL
  BY DEF RoundsInit, NoneHeld, Slots
<1>4. AllocTypes
  <2>1. held \in [Slots -> Nat \cup {NULL}]
    BY DEF RoundsInit, NoneHeld, Slots
  <2>2. 0 \in 0 .. WARMUP + ROUNDS
    <3>1. WARMUP \in Nat /\ ROUNDS \in Nat
      BY Bounds
    <3> QED BY <3>1
  <2>3. heap \in [Arms -> SUBSET [at : Int, size : Int]] /\ sums \in Nat \X Nat
    BY DEF RoundsInit
  <2>4. rows \in Seq({"ok", "null", "differ", "outside"}) /\ failed \in Nat /\ asserted = FALSE
        /\ result \in {"none", "PASS", "FAIL", "stopped"} /\ job \in 0 .. AllocRows
    BY <1>1 DEF RoundsInit
  <2> QED BY <2>1, <2>2, <2>3, <2>4 DEF RoundsInit, AllocTypes
<1>5. AllocControl
  BY <1>2 DEF RoundsInit, AllocControl, Begun, Fresh
<1>6. AllocHeld
  BY <1>3 DEF RoundsInit, AllocHeld
<1>7. AllocHeap
  BY <1>3 DEF RoundsInit, AllocHeap, InHand, Lives
<1>8. AllocGaps /\ AllocFigures
  BY <1>2 DEF AllocGaps, AllocFigures
<1>9. AllocRowsPrinted
  <2>1. Printed(0) = 0
    <3>1. Len(Sizes) + Len(PoolSizes) + Len(SplitSizes) \in Nat
      BY RoundsFit
    <3> QED BY <3>1 DEF Printed
  <2> QED BY <2>1 DEF RoundsInit, AllocRowsPrinted
<1>10. AllocPool
  BY DEF RoundsInit, AllocPool
<1> QED BY <1>4, <1>5, <1>6, <1>7, <1>8, <1>9, <1>10 DEF AllocInv

(* The region is given, and the first row begins; or the run is over.      *)
LEMMA AllocGives == AllocInv /\ Give => AllocInv'
<1> SUFFICES ASSUME AllocInv, Give PROVE AllocInv'
  OBVIOUS
<1> USE DEF AllocInv
<1>0. /\ job = 0 /\ result = "none"
      /\ \/ job' = 1 /\ UNCHANGED result
         \/ result' = "FAIL" /\ UNCHANGED job
      /\ UNCHANGED <<phase, i, held, p, sum, bad, turn, arm, sums, anyBad, done, refused,
                     pool, failed, rows, asserted>>
      /\ UNCHANGED heap \/ Charge(HoleSize)
  BY DEF Give, round, pair
<1>2. DOMAIN Jobs = 1 .. AllocRows /\ AllocRows \in Nat /\ AllocRows >= 3
  BY AllocJobs
<1>3. Begun /\ Fresh /\ ~InPair /\ ~InSplit
  BY <1>0, <1>2 DEF AllocControl, Begun, InPair, InSplit
<1>4. /\ \A k \in Slots : held[k] = NULL
      /\ \A a \in Arms : heap[a] = {}
  BY <1>3, AllocAllBack DEF Fresh, NoneHeld, Slots, Lives
<1>1. /\ job = 0 /\ result = "none"
      /\ \/ job' = 1 /\ UNCHANGED result
         \/ result' = "FAIL" /\ UNCHANGED job
      /\ UNCHANGED <<heap, phase, i, held, p, sum, bad, turn, arm, sums, anyBad, done, refused,
                     pool, failed, rows, asserted>>
  <2>1. UNCHANGED heap
    BY <1>0, <1>4, ChargeGivesBack
  <2> QED BY <1>0, <2>1
<1>5. Printed(0) = 0 /\ Printed(1) = 0
  <2>1. Len(Sizes) + Len(PoolSizes) + Len(SplitSizes) \in Nat
    BY RoundsFit
  <2> QED BY <2>1 DEF Printed
<1>6. WARMUP \in Nat /\ ROUNDS \in Nat \ {0} /\ OPS \in Nat
  BY Bounds
<1>7. rows = <<>> /\ Len(rows) = 0
  BY <1>1, <1>5 DEF AllocRowsPrinted, AllocTypes
<1>8. CASE job' = 1 /\ UNCHANGED result
  <2>1. AllocTypes'
    BY <1>1, <1>2, <1>8 DEF AllocTypes
  <2>2. AllocControl' /\ AllocHeld' /\ AllocHeap' /\ AllocGaps'
    <3>1. Fresh' /\ turn' = 0 /\ arm' = 1
      BY <1>1, <1>3 DEF Fresh, Begun
    <3> QED BY <1>1, <1>2, <1>4, <1>6, <1>8, <3>1, AllocBeginsRound
  <2>3. AllocFigures'
    <3>1. /\ turn' = 0 /\ arm' = 1 /\ sum' = 0 /\ ~bad' /\ ~anyBad' /\ ~refused' /\ done' = 0
          /\ Pairs' = 0 /\ Answer[0] = 0 /\ (Counted' => WARMUP = 0)
      BY <1>1, <1>3, <1>6, AnswerFacts DEF Fresh, Begun, Pairs, Counted
    <3> QED BY <1>6, <3>1 DEF AllocFigures
  <2>4. AllocRowsPrinted'
    BY <1>1, <1>5, <1>7, <1>8 DEF AllocRowsPrinted, Printed
  <2>5. AllocPool'
    BY <1>1, <1>3 DEF AllocPool, Begun
  <2> QED BY <2>1, <2>2, <2>3, <2>4, <2>5
<1>9. CASE result' = "FAIL" /\ UNCHANGED job
  <2>1. ~InPair' /\ ~InSplit'
    BY <1>3, <1>9, SameRow
  <2>2. AllocTypes'
    BY <1>1, <1>9 DEF AllocTypes
  <2>3. AllocControl'
    BY <1>1, <1>3, <1>9, <2>1 DEF AllocControl, Begun, Fresh
  <2>4. AllocHeld'
    BY <1>1, <1>3, <1>4 DEF AllocHeld, Fresh
  <2>5. AllocHeap'
    BY <1>1, <1>3, <1>4 DEF AllocHeap, InHand, Lives, Fresh
  <2>6. AllocGaps' /\ AllocFigures'
    BY <2>1 DEF AllocGaps, AllocFigures
  <2>7. AllocRowsPrinted'
    BY <1>1, <1>5, <1>7, <1>9 DEF AllocRowsPrinted, Printed
  <2>8. AllocPool'
    BY <1>1, <1>3 DEF AllocPool, Begun
  <2> QED BY <2>2, <2>3, <2>4, <2>5, <2>6, <2>7, <2>8
<1> QED BY <1>1, <1>8, <1>9

(* The last row is printed, and the verdict.                               *)
LEMMA AllocProbes == AllocInv /\ Probe => AllocInv'
<1> SUFFICES ASSUME AllocInv, Probe PROVE AllocInv'
  OBVIOUS
<1> USE DEF AllocInv
<1> PICK within \in BOOLEAN :
      /\ failed' = IF within THEN failed ELSE failed + 1
      /\ rows' = Append(rows, IF within THEN "ok" ELSE "outside")
  BY DEF Probe
<1>1. /\ Running({"probe"})
      /\ result' = (IF failed' = 0 THEN "PASS" ELSE "FAIL") \/ result' = "stopped"
      /\ UNCHANGED <<heap, job, phase, i, held, p, sum, bad, turn, arm, sums, anyBad, done,
                     refused, pool, asserted>>
  BY DEF Probe, round, pair
<1>2. job \in DOMAIN Jobs /\ Now.kind = "probe" /\ result = "none"
  BY <1>1 DEF Running
<1>3. job = AllocRows /\ job > 0 /\ ~InPair /\ ~InSplit /\ ~InPair' /\ ~InSplit'
  <2>1. job = AllocRows /\ job \in 1 .. AllocRows
    BY <1>2, RowFacts
  <2> QED BY <1>1, <1>2, <2>1, SameRow DEF InPair, InSplit, PairKinds
<1>4. /\ failed \in Nat /\ rows \in Seq({"ok", "null", "differ", "outside"})
      /\ Len(rows) = Printed(job) /\ (failed = 0 => \A k \in 1 .. Len(rows) : rows[k] = "ok")
  <2>1. Printed(job) \in Nat
    BY <1>3, AllocWhere, AllocJobs DEF AllocTypes
  <2> QED BY <1>2, <2>1 DEF AllocTypes, AllocRowsPrinted
<1>5. /\ failed' \in Nat /\ rows' \in Seq({"ok", "null", "differ", "outside"})
      /\ Len(rows') = Printed(job) + 1 /\ (failed' = 0 => \A k \in 1 .. Len(rows') : rows'[k] = "ok")
  BY <1>4
<1>6. AllocTypes'
  BY <1>1, <1>5 DEF AllocTypes
<1>7. AllocControl'
  BY <1>1, <1>3 DEF AllocControl, Begun, Fresh
<1>8. AllocHeld'
  BY <1>1, <1>3 DEF AllocHeld, May
<1>9. AllocHeap'
  BY <1>1, <1>3 DEF AllocHeap, InHand, Lives, Owner, Unit, Now
<1>10. AllocGaps' /\ AllocFigures'
  BY <1>3 DEF AllocGaps, AllocFigures
<1>11. AllocRowsPrinted'
  <2>1. Printed(job)' = Printed(job)
    BY <1>1 DEF Printed
  <2>2. result' # "none" /\ (result' = "PASS" => failed' = 0) /\ job' = job
    BY <1>1
  <2> QED BY <1>3, <1>5, <2>1, <2>2 DEF AllocRowsPrinted
<1>12. AllocPool'
  BY <1>1 DEF AllocPool, InPool, Now, NewPool, Stride
<1> QED BY <1>6, <1>7, <1>8, <1>9, <1>10, <1>11, <1>12

(* Nothing happens.                                                        *)
LEMMA AllocStutters == AllocInv /\ UNCHANGED roundVars => AllocInv'
<1> SUFFICES ASSUME AllocInv, UNCHANGED roundVars PROVE AllocInv'
  OBVIOUS
<1>1. UNCHANGED <<heap, job, phase, i, held, p, sum, bad, turn, arm, sums, anyBad, done, refused,
                  pool, failed, rows, result, asserted>>
  BY DEF roundVars, round, pair, verdict
<1>2. Now' = Now /\ (InPair' <=> InPair) /\ (InSplit' <=> InSplit) /\ (InPool' <=> InPool)
  BY <1>1, SameRow
<1>3. AllocTypes'
  BY <1>1 DEF AllocInv, AllocTypes
<1>4. AllocControl'
  BY <1>1, <1>2 DEF AllocInv, AllocControl, Begun, Fresh, Arm
<1>5. AllocHeld'
  BY <1>1, <1>2 DEF AllocInv, AllocHeld, May
<1>6. AllocHeap'
  BY <1>1, <1>2 DEF AllocInv, AllocHeap, InHand, Lives, Owner, Unit, Arm
<1>7. AllocGaps'
  BY <1>1, <1>2 DEF AllocInv, AllocGaps, Arm
<1>8. AllocFigures'
  BY <1>1, <1>2 DEF AllocInv, AllocFigures, Pairs, Counted
<1>9. AllocRowsPrinted'
  BY <1>1 DEF AllocInv, AllocRowsPrinted, Printed
<1>10. AllocPool'
  BY <1>1, <1>2 DEF AllocInv, AllocPool, NewPool, Stride
<1> QED BY <1>3, <1>4, <1>5, <1>6, <1>7, <1>8, <1>9, <1>10 DEF AllocInv

(* Every step of the comparison.                                           *)
LEMMA AllocSteps == AllocInv /\ [RoundsNext]_roundVars => AllocInv'
<1> SUFFICES ASSUME AllocInv, [RoundsNext]_roundVars PROVE AllocInv'
  OBVIOUS
<1> QED
  BY AllocGives, AllocProbes, AllocLeavesLoop, AllocFills, AllocPunches, AllocDrains,
     AllocBeginsPair, AllocEndsPair, AllocEmptyPair, AllocEndsRound, AllocReports,
     AllocPoolStarts, AllocPoolPops, AllocPoolPushes, AllocPoolEnds, AllocSplitAllocs,
     AllocSplitTurns, AllocSplitFrees, AllocSplitEnds, AllocStutters
     DEF RoundsNext

(* Between two rounds the heaps are empty.                                 *)
LEMMA LeavesHeap == AllocInv => RoundLeavesHeap
<1> SUFFICES ASSUME AllocInv PROVE RoundLeavesHeap
  OBVIOUS
<1>1. ~asserted
  BY DEF AllocInv, AllocTypes
<1>2. ASSUME (phase = "fill" /\ i = 0) \/ result # "none"
      PROVE  \A a \in Arms : heap[a] = {}
  <2>1. result # "none" => (phase = "fill" /\ i = 0) \/ (~InPair /\ ~InSplit)
    <3>1. ASSUME job = AllocRows PROVE ~InPair /\ ~InSplit
      <4>1. job \in DOMAIN Jobs => Now.kind = "probe"
        BY <3>1, RowFacts DEF AllocInv
      <4> QED BY <4>1 DEF InPair, InSplit, PairKinds
    <3>2. job = 0 => phase = "fill" /\ i = 0
      BY DEF AllocInv, AllocControl, Begun, Fresh
    <3> QED BY <3>1, <3>2 DEF AllocInv, AllocControl
  <2>2. p = NULL
    BY <1>2, <2>1 DEF AllocInv, AllocControl
  <2>3. \A k \in Slots : ~Lives(k)
    BY <1>2, <2>1 DEF AllocInv, AllocHeld, May, Lives, Slots
  <2> QED BY <2>2, <2>3, AllocAllBack
<1> QED BY <1>1, <1>2 DEF RoundLeavesHeap

(* PASS needs every row, and every row good.                               *)
LEMMA PassMeans == AllocInv => PassMeansRows
<1> SUFFICES ASSUME AllocInv, result = "PASS"
             PROVE  rows = [k \in 1 .. Len(Sizes) + Len(HoleCounts) + 1 |-> "ok"]
  BY DEF PassMeansRows
<1> DEFINE n == Len(Sizes)
           h == Len(HoleCounts)
           m == Len(PoolSizes) + Len(SplitSizes)
<1>1. n \in Nat /\ h \in Nat /\ m \in Nat /\ AllocRows = n + m + h + 3
  <2>1. Len(PoolSizes) \in Nat /\ Len(SplitSizes) \in Nat /\ n \in Nat /\ h \in Nat
    BY RoundsFit
  <2> QED BY <2>1 DEF AllocRows
<1>2. failed = 0 /\ job = AllocRows /\ rows \in Seq({"ok", "null", "differ", "outside"})
      /\ Len(rows) = Printed(job) + (IF job > 0 THEN 1 ELSE 0)
      /\ \A k \in 1 .. Len(rows) : rows[k] = "ok"
  BY DEF AllocInv, AllocTypes, AllocRowsPrinted
<1>3. Printed(AllocRows) = (IF AllocRows <= 3 THEN 0 ELSE IF AllocRows <= n + 3 THEN AllocRows - 3 ELSE n)
                           + (IF AllocRows <= n + m + 3 THEN 0 ELSE AllocRows - (n + m + 3))
  <2>1. n + Len(PoolSizes) + Len(SplitSizes) + 3 = n + m + 3
    BY RoundsFit
  <2> QED BY <2>1, Zenon DEF Printed
<1> HIDE DEF n, h, m
<1>4. Len(rows) = n + h + 1
  <2>1. Printed(AllocRows) = n + h
    BY <1>1, <1>3
  <2> QED BY <1>1, <1>2, <2>1
<1> QED BY <1>2, <1>4 DEF n, h

(* A pop finds a block, and gives one nobody else has.                     *)
LEMMA PoolGives == AllocInv => PoolServes
<1> SUFFICES ASSUME AllocInv PROVE PoolServes
  OBVIOUS
<1>1. Running({"pool"}) => ~bad
  BY DEF Running, AllocInv, AllocControl, InPair, InSplit, PairKinds
<1>2. ASSUME pool.out # NULL
      PROVE  /\ pool.out < MAX_BLOCK * BLOCKS
             /\ \A k \in 1 .. pool.top : pool.free[k] # pool.out
  <2> DEFINE S == Stride(Now.size)
             N == NewPool(Now.size)
  <2>1. InPool /\ pool = [N EXCEPT !.top = BLOCKS - 1, !.out = (BLOCKS - 1) * S]
    BY <1>2 DEF AllocInv, AllocPool, NoPool, NewPool
  <2>2. Running({"pool"})
    <3>1. job \in DOMAIN Jobs /\ Now.kind = "pool" /\ asserted = FALSE
      BY <2>1 DEF InPool, AllocInv, AllocTypes
    <3>2. result = "none"
      <4>1. job \in 1 .. AllocRows /\ job # AllocRows
        BY <3>1, RowFacts DEF AllocInv
      <4> QED BY <4>1 DEF AllocInv, AllocControl
    <3> QED BY <3>1, <3>2 DEF Running
  <2>3. /\ BLOCKS \in Nat \ {0} /\ \A k \in 1 .. BLOCKS : N.free[k] = (k - 1) * S
        /\ \A k \in 1 .. BLOCKS - 1 : (k - 1) * S < (BLOCKS - 1) * S
        /\ (BLOCKS - 1) * S \in Nat /\ (BLOCKS - 1) * S < MAX_BLOCK * BLOCKS /\ S \in Nat
        /\ N.free \in [1 .. BLOCKS -> Nat]
    BY <2>2, PoolFacts
  <2>4. pool.out = (BLOCKS - 1) * S /\ pool.top = BLOCKS - 1 /\ pool.free = N.free
    BY <2>1 DEF NewPool
  <2> HIDE DEF S, N
  <2>5. ASSUME NEW k \in 1 .. BLOCKS - 1 PROVE N.free[k] # (BLOCKS - 1) * S
    <3>1. k \in 1 .. BLOCKS /\ N.free[k] \in Nat
      BY <2>3
    <3>2. N.free[k] = (k - 1) * S /\ (k - 1) * S < (BLOCKS - 1) * S
      BY <2>3, <3>1
    <3> QED BY <2>3, <3>1, <3>2
  <2> QED BY <2>3, <2>4, <2>5
<1> QED BY <1>1, <1>2 DEF PoolServes

(* As many gaps in front of the timed request as slots that were punched.  *)
LEMMA HolesApart == AllocInv => HolesStandApart
<1> DEFINE gap(u) == FreeAt(heap["c"], u, 1)
           starts == {u \in 0 .. p - 1 : gap(u) /\ (u = 0 \/ ~gap(u - 1))}
<1> SUFFICES ASSUME AllocInv, Paired, Arm = "c", p # NULL, ~bad
             PROVE  Cardinality(starts) = Taken(Now.holes) \div 2
  BY DEF HolesStandApart
<1> USE DEF AllocInv
<1> DEFINE T == Taken(Now.holes)
           H == HoleSize
           m == T \div 2
<1>1. InPair /\ ~InSplit /\ phase = "time"
  BY DEF Paired, Running, InPair, InSplit, PairKinds, AllocControl
<1>2. T \in 0 .. MAX_HELD /\ MAX_HELD \in Nat /\ H \in Nat \ {0}
  BY <1>1, RowFacts, Bounds DEF InPair
<1>3. /\ \A k \in Slots : held[k] # NULL => held[k] = k * H /\ k \in 0 .. T - 1
      /\ \A k \in 0 .. T - 1 : held[k] = NULL <=> k % 2 = 0
      /\ p = 2 * m * H
  <2>1. \A k \in Slots : held[k] # NULL => k < T
    BY <1>1 DEF AllocHeld, May
  <2> QED BY <1>1, <1>2, <2>1 DEF AllocGaps, Slots
<1>4. heap["c"] = {BlockAt(held[k], H) : k \in {n \in Slots : held[n] # NULL}} \cup {BlockAt(p, Now.size)}
  BY <1>1 DEF AllocHeap, Owner, Unit, InHand, Lives, Arms
<1>5. m \in Nat /\ (T = 2 * m \/ T = 2 * m + 1)
  BY <1>2
<1> HIDE DEF T, H, m
<1>6. p \in Nat /\ p = (2 * m) * H /\ 2 * m \in Nat
  BY <1>2, <1>3, <1>5, Grid
<1>7. /\ \A k \in Nat : k * H \in Nat /\ (k + 1) * H = k * H + H
      /\ \A k, n \in Nat : k < n => k * H + H <= n * H
      /\ \A u, n \in Nat : u < n * H => \E b \in 0 .. n - 1 : b * H <= u /\ u < b * H + H
  BY <1>2, Grid
(* A byte in front of the request is taken if it is in an odd slot.        *)
<1>8. ASSUME NEW u \in 0 .. p - 1, NEW b \in 0 .. 2 * m - 1, b * H <= u, u < b * H + H
      PROVE  gap(u) <=> b % 2 = 0
  <2>1. b \in Nat /\ b * H \in Nat /\ b \in 0 .. T - 1 /\ b \in Slots /\ u \in Nat
    BY <1>2, <1>5, <1>6, <1>7 DEF Slots
  <2>2. ASSUME b % 2 # 0 PROVE ~gap(u)
    <3>1. BlockAt(b * H, H) \in heap["c"]
      <4>1. held[b] # NULL /\ held[b] = b * H
        BY <1>3, <2>1, <2>2
      <4> QED BY <1>4, <2>1, <4>1
    <3> SUFFICES ASSUME gap(u) PROVE FALSE
      OBVIOUS
    <3>2. u + 1 <= b * H \/ b * H + H <= u
      BY <3>1 DEF FreeAt, BlockAt
    <3> QED BY <1>2, <1>8, <2>1, <3>2
  <2>3. ASSUME b % 2 = 0 PROVE gap(u)
    <3> SUFFICES ASSUME NEW c \in heap["c"] PROVE u + 1 <= c.at \/ c.at + c.size <= u
      BY DEF FreeAt
    <3>1. CASE c = BlockAt(p, Now.size)
      BY <1>6, <2>1, <3>1 DEF BlockAt
    <3>2. CASE c # BlockAt(p, Now.size)
      <4> PICK k \in Slots : held[k] # NULL /\ c = BlockAt(held[k], H)
        BY <1>4, <3>2
      <4>1. held[k] = k * H /\ k \in Nat /\ k % 2 # 0 /\ k # b
        BY <1>3, <2>3
      <4>2. k < b \/ b < k
        BY <2>1, <4>1
      <4>3. k * H + H <= b * H \/ b * H + H <= k * H
        BY <1>7, <2>1, <4>1, <4>2
      <4>4. k * H \in Nat /\ c.at = k * H /\ c.size = H
        BY <1>7, <4>1 DEF BlockAt
      <4> QED BY <1>2, <1>8, <2>1, <4>3, <4>4
    <3> QED BY <3>1, <3>2
  <2> HIDE DEF gap
  <2> QED BY <2>2, <2>3
<1>9. starts = {u \in 0 .. p - 1 : \E j \in 0 .. m - 1 : u = (2 * j) * H}
  <2>1. ASSUME NEW u \in 0 .. p - 1, gap(u), u = 0 \/ ~gap(u - 1)
        PROVE  \E j \in 0 .. m - 1 : u = (2 * j) * H
    <3> HIDE DEF gap
    <3>1. u \in Nat /\ u < (2 * m) * H
      BY <1>6
    <3> PICK b \in 0 .. 2 * m - 1 : b * H <= u /\ u < b * H + H
      BY <1>6, <1>7, <3>1
    <3>2. b % 2 = 0 /\ b \in Nat /\ b * H \in Nat
      BY <1>5, <1>7, <1>8, <2>1
    <3>3. u = b * H
      <4> SUFFICES ASSUME u # b * H PROVE FALSE
        OBVIOUS
      <4>1. u # 0 /\ u - 1 \in 0 .. p - 1 /\ b * H <= u - 1 /\ u - 1 < b * H + H
        <5>1. u \in 0 .. p - 1 /\ b * H < u
          BY <3>1, <3>2
        <5>2. u # 0 /\ u - 1 \in 0 .. p - 1 /\ b * H <= u - 1
          BY <1>6, <3>2, <5>1
        <5> QED BY <1>2, <3>1, <3>2, <5>2
      <4>2. gap(u - 1)
        BY <1>8, <3>2, <4>1
      <4> QED BY <2>1, <4>1, <4>2
    <3>4. PICK j \in 0 .. m - 1 : b = 2 * j
      <4>1. b \div 2 \in 0 .. m - 1 /\ b = 2 * (b \div 2)
        BY <1>5, <3>2
      <4> QED BY <4>1
    <3> QED BY <3>3, <3>4
  <2>2. ASSUME NEW u \in 0 .. p - 1, NEW j \in 0 .. m - 1, u = (2 * j) * H
        PROVE  gap(u) /\ (u = 0 \/ ~gap(u - 1))
    <3> HIDE DEF gap
    <3> PICK b \in 0 .. 2 * m - 1 : b = 2 * j
      BY <1>5
    <3>1. b \in Nat /\ b * H \in Nat /\ u = b * H /\ b % 2 = 0 /\ u < b * H + H
      BY <1>2, <1>5, <1>7, <2>2
    <3>2. gap(u)
      BY <1>8, <3>1
    <3>3. ASSUME u # 0 PROVE ~gap(u - 1)
      <4>0. b # 0
        BY <1>2, <3>1, <3>3
      <4> PICK c \in 0 .. 2 * m - 1 : b = c + 1
        <5>1. b - 1 \in 0 .. 2 * m - 1 /\ b = (b - 1) + 1
          BY <1>5, <4>0
        <5> QED BY <5>1
      <4>1. c \in Nat /\ c * H \in Nat /\ b * H = c * H + H /\ c % 2 # 0
        <5>1. c \in Nat
          BY <1>5
        <5>2. c * H \in Nat /\ (c + 1) * H = c * H + H
          BY <1>7, <5>1
        <5>3. c % 2 # 0
          BY <3>1, <5>1
        <5> QED BY <5>1, <5>2, <5>3
      <4>2. u - 1 \in 0 .. p - 1 /\ c * H <= u - 1 /\ u - 1 < c * H + H
        BY <1>2, <1>6, <3>1, <3>3, <4>1
      <4> QED BY <1>8, <4>1, <4>2
    <3> QED BY <3>2, <3>3
  <2> HIDE DEF gap
  <2> QED BY <2>1, <2>2
<1> DEFINE f == [j \in 1 .. m |-> (2 * (j - 1)) * H]
<1>10. \A j \in 1 .. m : 2 * (j - 1) \in Nat /\ (2 * (j - 1)) * H \in 0 .. p - 1
  <2> TAKE j \in 1 .. m
  <2>1. 2 * (j - 1) \in Nat /\ 2 * (j - 1) < 2 * m
    BY <1>5
  <2>2. (2 * (j - 1)) * H \in Nat /\ (2 * (j - 1)) * H + H <= (2 * m) * H
    BY <1>6, <1>7, <2>1
  <2> QED BY <1>2, <1>6, <2>1, <2>2
<1> HIDE DEF gap
<1>11. \A u \in starts : \E j \in 1 .. m : f[j] = u
  <2> TAKE u \in starts
  <2> PICK j \in 0 .. m - 1 : u = (2 * j) * H
    BY <1>9
  <2>1. j + 1 \in 1 .. m /\ (j + 1) - 1 = j
    BY <1>5
  <2> QED BY <2>1
<1>12. \A j \in 1 .. m : f[j] \in starts
  <2> TAKE j \in 1 .. m
  <2>1. f[j] \in 0 .. p - 1 /\ j - 1 \in 0 .. m - 1 /\ f[j] = (2 * (j - 1)) * H
    BY <1>5, <1>10
  <2> QED BY <1>9, <2>1
<1>13. \A j, k \in 1 .. m : f[j] = f[k] => j = k
  <2> SUFFICES ASSUME NEW j \in 1 .. m, NEW k \in 1 .. m, j < k PROVE f[j] # f[k]
    BY <1>5
  <2>1. 2 * (j - 1) \in Nat /\ 2 * (k - 1) \in Nat /\ 2 * (j - 1) < 2 * (k - 1)
    BY <1>5
  <2>2. (2 * (j - 1)) * H + H <= (2 * (k - 1)) * H
    BY <1>7, <2>1
  <2> QED BY <1>2, <1>7, <2>1, <2>2
<1> HIDE DEF starts, f
<1>14. f \in Bijection(1 .. m, starts)
  <2>1. f \in [1 .. m -> starts]
    BY <1>12 DEF f
  <2> QED BY <1>11, <1>13, <2>1, Zenon DEF Bijection, Injection, Surjection, IsInjective
<1>15. IsFiniteSet(1 .. m) /\ Cardinality(1 .. m) = m
  BY <1>5, FS_Interval
<1>16. ExistsBijection(1 .. m, starts)
  BY <1>14 DEF ExistsBijection
<1>17. Cardinality(starts) = m
  BY <1>15, <1>16, FS_Bijection
<1> QED BY <1>17 DEF m, T

-----------------------------------------------------------------------------
(* The programs that are not on the board stand still.                     *)
FirmwareInv == RegionInv /\ CycleInv /\ AllocInv

(* A board before its first step.                                          *)
LEMMA FirmwareStarts == FirmwareInit => FirmwareInv
BY RegionStarts, CycleStarts, AllocStarts DEF FirmwareInit, FirmwareInv

(* A step of whichever program is on it.                                   *)
LEMMA FirmwareSteps == FirmwareInv /\ [FirmwareNext]_firmwareVars => FirmwareInv'
<1> SUFFICES ASSUME FirmwareInv, [FirmwareNext]_firmwareVars PROVE FirmwareInv'
  OBVIOUS
<1>1. /\ [RoundsNext]_roundVars
      /\ [Region!RegionNext]_regionVars
      /\ [Cycles!CellNext]_cycleVars
  BY DEF FirmwareNext, firmwareVars
<1>2. AllocInv'
  BY <1>1, AllocSteps DEF FirmwareInv
<1>3. RegionInv'
  BY <1>1, RegionSteps DEF FirmwareInv
<1>4. CycleInv'
  BY <1>1, CycleSteps DEF FirmwareInv
<1> QED BY <1>2, <1>3, <1>4 DEF FirmwareInv

(* And so of every behaviour.                                              *)
LEMMA FirmwareHolds == FirmwareSpec => []FirmwareInv
<1>1. FirmwareInit => FirmwareInv
  BY FirmwareStarts
<1>2. FirmwareInv /\ [FirmwareNext]_firmwareVars => FirmwareInv'
  BY FirmwareSteps
<1> QED BY <1>1, <1>2, PTL DEF FirmwareSpec

(* What a cell says at the end is what happened on the board: PASS of the  *)
(* comparison that every row was good (alloc-ab, main.rs), PASS of the     *)
(* cycle cell that costs depend on the size alone (alloc-cycles, main.rs); *)
(* and the pool never runs dry.                                            *)
THEOREM VerdictsTrue == FirmwareSpec => []VerdictTrue
<1>1. FirmwareInv => VerdictTrue
  BY PassMeans, PoolGives, CycleMeans DEF FirmwareInv, VerdictTrue
<1> QED BY <1>1, FirmwareHolds, PTL

(* The region gate lets through what gave all back and nothing it caught   *)
(* at a fault (mps2-an385-qemu-region, main.rs:122-201).                   *)
THEOREM GateIsTrue == FirmwareSpec => []GateTrue
<1>1. FirmwareInv => GateTrue
  BY RegionMeans DEF FirmwareInv, GateTrue
<1> QED BY <1>1, FirmwareHolds, PTL

(* Every round of the comparison starts on empty heaps, and heap_4 is      *)
(* never handed a block it did not give (round_rust, round_c and           *)
(* split_alloc_free of alloc-ab, main.rs).                                 *)
THEOREM RoundsLeaveHeap == FirmwareSpec => []RoundLeavesHeap
<1>1. FirmwareInv => RoundLeavesHeap
  BY LeavesHeap DEF FirmwareInv
<1> QED BY <1>1, FirmwareHolds, PTL

(* The timed request of heap_4 stands behind half as many gaps as slots    *)
(* were filled, whatever the sizes: no two holes are next to each other    *)
(* (alloc-ab, main.rs:137-139).                                            *)
THEOREM HolesNeverMeet == FirmwareSpec => []HolesStandApart
<1>1. FirmwareInv => HolesStandApart
  BY HolesApart DEF FirmwareInv
<1> QED BY <1>1, FirmwareHolds, PTL

(* A row with figures stands for all pairs of all counted rounds of both   *)
(* arms and no refusal, a row of nulls for a refusal in one of them, and   *)
(* the checksums never differ (best_pair of alloc-ab, main.rs).            *)
THEOREM RowsAreHonest == FirmwareSpec => RowsHonest
<1>1. FirmwareInv /\ [FirmwareNext]_firmwareVars =>
        [Report /\ Judged =>
           /\ Verdict = "ok" <=> done = 2 * ROUNDS * OPS /\ ~refused
           /\ Verdict = "null" <=> refused]_roundVars
  BY AllocReports DEF FirmwareInv
<1> QED BY <1>1, FirmwareHolds, PTL DEF FirmwareSpec, RowsHonest
=============================================================================
