---------------------------- MODULE AllocRounds ----------------------------
(***************************************************************************)
(* The firmware that compares two allocators on a board                    *)
(* (esp32s3-devkit-alloc-ab): it fragments a heap, times pairs of          *)
(* allocation and release on it, empties it, and judges the rows it prints.*)
(* The allocators are outside: "c" (heap_4) takes the lowest gap that fits *)
(* and joins what is freed to its neighbours, "rust" also refuses whenever *)
(* it likes. What a round costs in cycles is printed only, and left out.   *)
(***************************************************************************)
EXTENDS Integers, FiniteSets, Sequences

CONSTANTS
  OPS, ROUNDS, WARMUP, MAX_HELD,   \* as in the code
  Sizes, HoleCounts,               \* the rows of the two tables, in order
  PoolSizes, SplitSizes,           \* the rows of the pool and of the halves
  HoleSize, HoledSize, ProbeSize,  \* 16 and 512, of the table of holes; 64
  SplitBytes,                      \* 32 * 1024, what the halves hold at most
  BLOCKS, MAX_BLOCK,               \* the pool
  HeapSize                         \* bytes of either heap

ASSUME RoundsFit ==
  /\ {OPS, ROUNDS, MAX_HELD, BLOCKS, MAX_BLOCK, HoleSize, ProbeSize} \subseteq Nat \ {0}
  /\ {WARMUP, SplitBytes, HeapSize, HoledSize} \subseteq Nat
  /\ Sizes \in Seq(Nat \ {0}) /\ HoleCounts \in Seq(Nat)
  /\ PoolSizes \in Seq(Nat) /\ SplitSizes \in Seq(Nat \ {0})
  /\ OPS <= 256 /\ HoleSize < HoledSize

VARIABLES
  heap,                       \* heap[a]: the live blocks of allocator a
  job,                        \* which row of the run is at work; 0 before
  turn, arm,                  \* best_pair: the round, and which of its two
  phase, i, held, p,          \* the round: its loop, and the blocks it has
  sum, bad,                   \* and what it answers
  sums, anyBad,               \* best_pair: what the counted rounds answered
  pool,                       \* the pool's free offsets, how many, and the one out
  failed, rows, result,       \* main's tally, the rows it printed, its verdict
  done, refused,              \* history of a row's counted rounds: pairs, nulls
  asserted                    \* an allocator was given a block it had not given

round == <<phase, i, held, p, sum, bad>>
pair == <<turn, arm, sums, anyBad, done, refused>>
verdict == <<failed, rows, result>>
roundVars == <<heap, job, round, pair, pool, verdict, asserted>>

NULL == -1
Arms == {"rust", "c"}
Smaller(a, b) == IF a <= b THEN a ELSE b

Row(kind, arms, size, holes) == [kind |-> kind, arms |-> arms, size |-> size, holes |-> holes]
Each(kind, sizes) == [k \in DOMAIN sizes |-> Row(kind, <<"rust", "c">>, sizes[k], 0)]

(* The tables of main, and what stands before and behind them.             *)
NullArm == Row("floor", <<"empty", "empty">>, 0, 0)
NullAB == Row("null", <<"rust", "rust">>, ProbeSize, 0)
CleanTable == Each("clean", Sizes)
PoolTable == Each("pool", PoolSizes)
HalvesTable == Each("split", SplitSizes)
HolesTable ==
  [k \in DOMAIN HoleCounts |-> Row("holes", <<"rust", "c">>, HoledSize, HoleCounts[k])]
OwnHeap == Row("probe", <<"rust", "c">>, ProbeSize, 0)

Jobs ==
  <<NullArm, NullAB>> \o CleanTable \o PoolTable \o HalvesTable \o HolesTable \o <<OwnHeap>>

Now == Jobs[job]
Running(kinds) == job \in DOMAIN Jobs /\ Now.kind \in kinds /\ result = "none" /\ ~asserted
Paired == Running({"floor", "null", "clean", "holes"}) /\ turn < WARMUP + ROUNDS
Judged == Now.kind \in {"clean", "holes"}
Arm == Now.arms[arm]
Counted == turn >= WARMUP

NoneHeld == [k \in 0 .. MAX_HELD - 1 |-> NULL]
NoPool == [free |-> <<>>, top |-> 0, out |-> NULL]

-----------------------------------------------------------------------------
(* The allocators, external.                                               *)

FreeAt(live, a, size) == \A b \in live : a + size <= b.at \/ b.at + b.size <= a
Fits(a, size) == {u \in 0 .. HeapSize - size : FreeAt(heap[a], u, size)}

Places(a, size) ==
  LET lowest == {u \in Fits(a, size) : \A w \in Fits(a, size) : u <= w}
  IN IF a = "c" /\ lowest # {} THEN lowest ELSE lowest \cup {NULL}

Placed(a, at, size) ==
  IF at = NULL THEN heap ELSE [heap EXCEPT ![a] = @ \cup {[at |-> at, size |-> size]}]

Release(a, at, size) ==
  /\ heap' = [heap EXCEPT ![a] = @ \ {[at |-> at, size |-> size]}]
  /\ asserted' = ([at |-> at, size |-> size] \notin heap[a])

(* charge_c: a block of heap_4, or a null, is taken and released at once.  *)
Charge(size) ==
  \E at \in Places("c", size) :
    heap' = [Placed("c", at, size) EXCEPT !["c"] = @ \ {[at |-> at, size |-> size]}]

-----------------------------------------------------------------------------
(* One round of one arm (round_rust, round_c, and round_empty).            *)

Taken(holes) == Smaller(holes * 2, MAX_HELD)

(* Slip: every block is released, not every other one.                     *)
PunchAll(k) == k + 1
Punched(k) == k + 2

LoopEnd == [fill |-> Taken(Now.holes), punch |-> Taken(Now.holes), time |-> OPS,
            drain |-> Taken(Now.holes)]
AfterLoop == [fill |-> "punch", punch |-> "time", time |-> "drain", drain |-> "end"]

InLoop(name) == Paired /\ phase = name /\ i < LoopEnd[name] /\ p = NULL

LeaveLoop ==
  /\ Paired /\ phase \in DOMAIN LoopEnd /\ i >= LoopEnd[phase] /\ p = NULL
  /\ phase' = AfterLoop[phase]
  /\ i' = 0
  /\ UNCHANGED <<heap, job, held, p, sum, bad, pair, pool, verdict, asserted>>

Fill ==
  /\ InLoop("fill")
  /\ \E at \in Places(Arm, HoleSize) :
       /\ heap' = Placed(Arm, at, HoleSize)
       /\ held' = [held EXCEPT ![i] = at]
       /\ bad' = (bad \/ at = NULL)
       /\ refused' = (refused \/ (Counted /\ at = NULL))
  /\ i' = i + 1
  /\ UNCHANGED <<job, phase, p, sum, turn, arm, sums, anyBad, done, pool, verdict, asserted>>

(* Slip: the slot keeps the block it released.                             *)
GiveBackKept(next) ==
  /\ held[i] # NULL /\ Release(Arm, held[i], HoleSize)
  /\ i' = next
  /\ UNCHANGED <<held, job, phase, p, sum, bad, pair, pool, verdict>>

(* The block in slot i, if there is one, is released and forgotten.        *)
GiveBack(next) ==
  /\ \/ held[i] = NULL /\ UNCHANGED <<heap, held, asserted>>
     \/ /\ held[i] # NULL
        /\ Release(Arm, held[i], HoleSize)
        /\ held' = [held EXCEPT ![i] = NULL]
  /\ i' = next
  /\ UNCHANGED <<job, phase, p, sum, bad, pair, pool, verdict>>

Punch == InLoop("punch") /\ GiveBack(Punched(i))
Drain == InLoop("drain") /\ GiveBack(i + 1)

(* Slip: a null ends the round, and what it holds is never released.       *)
BreakLeaks ==
  /\ bad' = TRUE
  /\ phase' = "end" /\ i' = 0
  /\ UNCHANGED <<heap, p>>

(* A null ends the timed loop, not the round.                              *)
Break ==
  /\ bad' = TRUE
  /\ phase' = "drain" /\ i' = 0
  /\ UNCHANGED <<heap, p>>

TimedAlloc ==
  /\ InLoop("time") /\ Arm \in Arms
  /\ \E at \in Places(Arm, Now.size) :
       /\ \/ at = NULL /\ Break
          \/ /\ at # NULL
             /\ heap' = Placed(Arm, at, Now.size)
             /\ p' = at
             /\ UNCHANGED <<phase, i, bad>>
       /\ refused' = (refused \/ (Counted /\ at = NULL))
  /\ UNCHANGED <<job, held, sum, turn, arm, sums, anyBad, done, pool, verdict, asserted>>

Work(k) == (k % 256) + (k % 2)
PairDone ==
  /\ sum' = sum + Work(i)
  /\ i' = i + 1
  /\ done' = done + (IF Counted THEN 1 ELSE 0)

TimedFree ==
  /\ Paired /\ phase = "time" /\ p # NULL
  /\ Release(Arm, p, Now.size)
  /\ p' = NULL
  /\ PairDone
  /\ UNCHANGED <<job, phase, held, bad, turn, arm, sums, anyBad, refused, pool, verdict>>

EmptyOp ==
  /\ InLoop("time") /\ Arm = "empty"
  /\ PairDone
  /\ UNCHANGED <<heap, job, phase, held, p, bad, turn, arm, sums, anyBad, refused, pool,
                 verdict, asserted>>

(* The next round starts over: its locals are new.                         *)
NewRound ==
  /\ phase' = "fill" /\ i' = 0 /\ held' = NoneHeld /\ p' = NULL
  /\ sum' = 0 /\ bad' = FALSE

-----------------------------------------------------------------------------
(* best_pair: the two arms take turns; only the rounds after the warm-up   *)
(* count.                                                                  *)

(* Slip: what the last round answered is what all answered.                *)
BadOfLast(seen, now) == now

BadOf(seen, now) == seen \/ now

EndRound ==
  /\ Paired /\ phase = "end"
  /\ sums' = IF Counted THEN [sums EXCEPT ![arm] = sum] ELSE sums
  /\ anyBad' = IF Counted THEN BadOf(anyBad, bad) ELSE anyBad
  /\ arm' = 3 - arm
  /\ turn' = IF arm = 2 THEN turn + 1 ELSE turn
  /\ NewRound
  /\ UNCHANGED <<heap, job, pool, verdict, done, refused, asserted>>

NewJob ==
  /\ job' = job + 1
  /\ turn' = 0 /\ arm' = 1 /\ sums' = <<0, 0>> /\ anyBad' = FALSE
  /\ done' = 0 /\ refused' = FALSE
  /\ NewRound

(* The verdict on a pair.                                                  *)
Verdict ==
  IF anyBad THEN "null" ELSE IF sums[1] # sums[2] THEN "differ" ELSE "ok"

(* Slip: a row of nulls is printed, and not counted.                       *)
FailsIfDiffer(row) == row = "differ"
Fails(row) == row # "ok"

Tally(row) ==
  /\ rows' = Append(rows, row)
  /\ failed' = IF Fails(row) THEN failed + 1 ELSE failed

Ended(kinds) == Running(kinds) /\ turn = WARMUP + ROUNDS

(* The two null arms are printed, whatever they answer.                    *)
ReportFloor ==
  /\ Ended({"floor", "null"})
  /\ NewJob
  /\ UNCHANGED <<heap, pool, verdict, asserted>>

(* A good row of the clean table also prints what heap_4 charges.          *)
ReportClean ==
  /\ Ended({"clean"})
  /\ Tally(Verdict)
  /\ IF Verdict = "ok" THEN Charge(Now.size) ELSE UNCHANGED heap
  /\ NewJob
  /\ UNCHANGED <<pool, result, asserted>>

ReportHoles ==
  /\ Ended({"holes"})
  /\ Tally(Verdict)
  /\ NewJob
  /\ UNCHANGED <<heap, pool, result, asserted>>

Report == ReportFloor \/ ReportClean \/ ReportHoles

-----------------------------------------------------------------------------
(* The pool of fixed blocks: a stack of free offsets.                      *)

Stride(size) == IF Smaller(size, MAX_BLOCK) = 0 THEN 1 ELSE Smaller(size, MAX_BLOCK)
NewPool(size) == [free |-> [k \in 1 .. BLOCKS |-> (k - 1) * Stride(size)], top |-> BLOCKS,
                  out |-> NULL]

PoolStart ==
  /\ Running({"pool"}) /\ turn < WARMUP + ROUNDS /\ pool = NoPool
  /\ pool' = NewPool(Now.size)
  /\ UNCHANGED <<heap, job, round, pair, verdict, asserted>>

PoolPop ==
  /\ Running({"pool"}) /\ pool # NoPool /\ pool.out = NULL /\ i < OPS /\ ~bad
  /\ IF pool.top = 0 THEN bad' = TRUE /\ UNCHANGED pool
     ELSE pool' = [pool EXCEPT !.top = @ - 1, !.out = pool.free[pool.top]] /\ UNCHANGED bad
  /\ UNCHANGED <<heap, job, phase, i, held, p, sum, pair, verdict, asserted>>

(* Slip: the top is not raised again.                                      *)
PushForgets(at) == [pool EXCEPT !.free[pool.top + 1] = at, !.out = NULL]
Push(at) == [pool EXCEPT !.free[pool.top + 1] = at, !.out = NULL, !.top = @ + 1]

PoolPush ==
  /\ Running({"pool"}) /\ pool.out # NULL
  /\ pool' = Push(pool.out)
  /\ i' = i + 1 /\ sum' = sum + Work(i)
  /\ UNCHANGED <<heap, job, phase, held, p, bad, pair, verdict, asserted>>

PoolEnd ==
  /\ Running({"pool"}) /\ pool # NoPool /\ pool.out = NULL /\ (bad \/ i = OPS)
  /\ pool' = NoPool
  /\ IF turn + 1 < WARMUP + ROUNDS
     THEN /\ turn' = turn + 1
          /\ NewRound
          /\ UNCHANGED <<job, arm, sums, anyBad, done, refused>>
     ELSE NewJob
  /\ UNCHANGED <<heap, verdict, asserted>>

-----------------------------------------------------------------------------
(* The two halves of the pair apart (split_alloc_free): a null is passed   *)
(* over, and reported to nobody.                                           *)

SplitCount(size) == Smaller(Smaller(MAX_HELD, SplitBytes \div (IF size = 0 THEN 1 ELSE size)), OPS)

SplitAlloc ==
  /\ Running({"split"}) /\ phase = "fill" /\ i < SplitCount(Now.size)
  /\ \E at \in Places("rust", Now.size) :
       heap' = Placed("rust", at, Now.size) /\ held' = [held EXCEPT ![i] = at]
  /\ i' = i + 1
  /\ UNCHANGED <<job, phase, p, sum, bad, pair, pool, verdict, asserted>>

SplitTurn ==
  /\ Running({"split"}) /\ phase = "fill" /\ i = SplitCount(Now.size)
  /\ phase' = "drain" /\ i' = 0
  /\ UNCHANGED <<heap, job, held, p, sum, bad, pair, pool, verdict, asserted>>

SplitFree ==
  /\ Running({"split"}) /\ phase = "drain" /\ i < SplitCount(Now.size)
  /\ IF held[i] = NULL THEN UNCHANGED <<heap, asserted>>
     ELSE Release("rust", held[i], Now.size)
  /\ i' = i + 1
  /\ UNCHANGED <<job, phase, held, p, sum, bad, pair, pool, verdict>>

SplitEnd ==
  /\ Running({"split"}) /\ phase = "drain" /\ i = SplitCount(Now.size)
  /\ IF turn + 1 < WARMUP + ROUNDS
     THEN /\ turn' = turn + 1
          /\ NewRound
          /\ UNCHANGED <<job, arm, sums, anyBad, done, refused>>
     ELSE NewJob
  /\ UNCHANGED <<heap, pool, verdict, asserted>>

-----------------------------------------------------------------------------
RoundsInit ==
  /\ heap = [a \in Arms |-> {}] /\ job = 0
  /\ turn = 0 /\ arm = 1 /\ sums = <<0, 0>> /\ anyBad = FALSE /\ done = 0 /\ refused = FALSE
  /\ phase = "fill" /\ i = 0 /\ held = NoneHeld /\ p = NULL /\ sum = 0 /\ bad = FALSE
  /\ pool = NoPool /\ failed = 0 /\ rows = <<>> /\ result = "none" /\ asserted = FALSE

(* The region is given, and heap_4 is primed, with 16 bytes as well; or it *)
(* is refused, which ends the run.                                         *)
Give ==
  /\ job = 0 /\ result = "none"
  /\ \/ Charge(HoleSize) /\ job' = 1 /\ UNCHANGED result
     \/ result' = "FAIL" /\ UNCHANGED <<heap, job>>
  /\ UNCHANGED <<round, pair, pool, failed, rows, asserted>>

(* The probe: a block, or a null, which is in no region. It is released    *)
(* where it was allocated, a null as well (main.rs:549): dealloc then gets  *)
(* what no allocation ever is, and may leave no verdict to print.          *)
Probe ==
  /\ Running({"probe"})
  /\ \E at \in Places("rust", ProbeSize), inside \in BOOLEAN :
       /\ inside => at # NULL
       /\ failed' = IF inside THEN failed ELSE failed + 1
       /\ rows' = Append(rows, IF inside THEN "ok" ELSE "outside")
       /\ \/ result' = IF failed' = 0 THEN "PASS" ELSE "FAIL"
          \/ at = NULL /\ result' = "stopped"
  /\ UNCHANGED <<heap, job, round, pair, pool, asserted>>

RoundsNext ==
  \/ Give \/ Probe
  \/ LeaveLoop \/ Fill \/ Punch \/ Drain \/ TimedAlloc \/ TimedFree \/ EmptyOp
  \/ EndRound \/ Report
  \/ PoolStart \/ PoolPop \/ PoolPush \/ PoolEnd
  \/ SplitAlloc \/ SplitTurn \/ SplitFree \/ SplitEnd

RoundsSpec == RoundsInit /\ [][RoundsNext]_roundVars

-----------------------------------------------------------------------------
(* A round starts on empty heaps, whatever the round before met, a null in *)
(* the middle included: what one row held never stands in the way of the   *)
(* next, at the end everything was given back (main.rs:551), and no block  *)
(* is released twice or under another size than its own, so that heap_4's  *)
(* configASSERT (main.rs:101) never traps.                                 *)
RoundLeavesHeap ==
  /\ (phase = "fill" /\ i = 0) \/ result # "none" => \A a \in Arms : heap[a] = {}
  /\ ~asserted

(* The timed request of the C arm stands behind taken / 2 gaps it cannot   *)
(* use: "no two free blocks are adjacent and heap_4 cannot coalesce them"  *)
(* (main.rs:137-139), whichever round it is.                               *)
HolesStandApart ==
  LET gap(u) == FreeAt(heap["c"], u, 1)
  IN Paired /\ Arm = "c" /\ p # NULL /\ ~bad =>
       Cardinality({u \in 0 .. p - 1 : gap(u) /\ (u = 0 \/ ~gap(u - 1))}) = Taken(Now.holes) \div 2

(* A row with figures stands for OPS pairs in every counted round of both  *)
(* arms and no refusal in any of them, a row of nulls for a refusal in one *)
(* of them, the first or the last, while filling or while timed; and the   *)
(* checksums of rounds that met none never differ.                         *)
RowsHonest ==
  [][Report /\ Judged =>
       /\ Verdict = "ok" <=> done = 2 * ROUNDS * OPS /\ ~refused
       /\ Verdict = "null" <=> refused]_roundVars

(* PASS says that every row was good, the probe's too.                     *)
PassMeansRows ==
  result = "PASS" =>
    rows = [k \in 1 .. Len(Sizes) + Len(HoleCounts) + 1 |-> "ok"]

(* The pool never runs dry, and the offset that is out is a block of the   *)
(* arena nobody else can pop.                                              *)
PoolServes ==
  /\ Running({"pool"}) => ~bad
  /\ pool.out # NULL =>
       /\ pool.out < MAX_BLOCK * BLOCKS
       /\ \A k \in 1 .. pool.top : pool.free[k] # pool.out
=============================================================================
