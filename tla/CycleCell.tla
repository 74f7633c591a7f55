----------------------------- MODULE CycleCell -----------------------------
(***************************************************************************)
(* The firmware that measures one allocator on a board's cycle counter     *)
(* (esp32s3-devkit-alloc-cycles): the best of ROUNDS rounds, an empty one  *)
(* subtracted, every size once going up and once coming down, because a    *)
(* cost that depends on what ran before is not a cost of the size. What an *)
(* allocation costs, and what interrupts a round, is outside.              *)
(***************************************************************************)
EXTENDS Integers, Sequences

CONSTANTS
  OPS, ROUNDS, WARMUP, COUNT_OPS,   \* as in the code
  SIZES, HISTORY_DEPENDENT,
  ROUTING,                          \* the sizes around the routing boundaries
  COUNTED, DirectMax, Sweep,        \* the counted sizes, 128 words, 512
  W,                                \* the counter has W values: 2^32
  Harness, Costs, Noise             \* cycles: of the loop and of the allocator per
                                    \* op, of the interrupts per round; no round
                                    \* takes W of them

VARIABLES
  ccount,                \* the counter
  job, cost,             \* what main measures, and what an allocation costs now
  turn, lo, sum,         \* best
  floor, up, failed, expected, result,   \* main
  quiet,                 \* history: this best, and all before, had a quiet round
  paid, regular          \* history: what each size cost going up; whether what
                         \* the allocator did calls for PASS

best == <<turn, lo, sum>>
tally == <<floor, up, failed, expected, result>>
cellVars == <<ccount, job, cost, best, tally, quiet, paid, regular>>

Kind(kind, sizes) == [k \in DOMAIN sizes |-> [kind |-> kind, size |-> sizes[k], at |-> k]]

(* The tables of main, and what stands before and behind them.             *)
EmptyLoop == [kind |-> "floor", size |-> 0, at |-> 0]
Ascending == Kind("up", SIZES)
Down == [k \in DOMAIN SIZES |-> LET at == Len(SIZES) + 1 - k
                                IN [kind |-> "down", size |-> SIZES[at], at |-> at]]
Boundaries == Kind("routing", ROUTING)
Mechanism == Kind("counted", COUNTED)
InRegion == [kind |-> "probe", size |-> 0, at |-> 0]

Jobs == <<EmptyLoop>> \o Ascending \o Down \o Boundaries \o Mechanism \o <<InRegion>>

Now == Jobs[job]
Running == job \in DOMAIN Jobs /\ result = "none"
Timed == Running /\ Now.kind \in {"floor", "up", "down", "routing"}

CellInit ==
  /\ ccount \in 0 .. W - 1
  /\ job = 0 /\ cost = 0
  /\ turn = 0 /\ lo = W - 1 /\ sum = 0
  /\ floor = 0 /\ up = [k \in DOMAIN SIZES |-> 0] /\ failed = 0 /\ expected = 0
  /\ result = "none"
  /\ quiet = [best |-> TRUE, all |-> TRUE] /\ paid = up /\ regular = TRUE

(* The region is given, or refused, which ends the run; an allocator has a *)
(* cost for the rounds of the next best, a new one for each.               *)
Give ==
  /\ job = 0 /\ result = "none"
  /\ \/ job' = 1 /\ UNCHANGED result
     \/ result' = "FAIL" /\ UNCHANGED job
  /\ quiet' = [quiet EXCEPT !.best = FALSE]
  /\ UNCHANGED <<ccount, cost, best, floor, up, failed, expected, paid, regular>>

(* The checksum of a round: 0, 1, ... OPS - 1 in a byte each.              *)
Checksum == (OPS * (OPS - 1)) \div 2

(* Slip: the difference is taken as if the counter did not wrap.           *)
ElapsedUnwrapped(start, end) == IF end >= start THEN end - start ELSE 0
Elapsed(start, end) == (end - start + W) % W

(* The warm-up does not count.                                             *)
Counts(k) == k >= WARMUP

(* One round of best: its cycles are the difference of two reads.          *)
Round ==
  /\ Timed /\ turn < WARMUP + ROUNDS
  /\ \E noise \in Noise :
       LET cycles == OPS * (Harness + (IF Now.kind = "floor" THEN 0 ELSE cost)) + noise
           elapsed == Elapsed(ccount, (ccount + cycles) % W)
       IN /\ ccount' = (ccount + cycles) % W
          /\ lo' = IF Counts(turn) /\ elapsed < lo THEN elapsed ELSE lo
          /\ sum' = IF Counts(turn) THEN Checksum ELSE sum
          /\ quiet' = [quiet EXCEPT !.best = @ \/ (turn >= WARMUP /\ noise = 0)]
  /\ turn' = turn + 1
  /\ UNCHANGED <<job, cost, tally, paid, regular>>

PerOp(cycles) == (IF cycles >= floor THEN cycles - floor ELSE 0) \div OPS

NewJob ==
  /\ job' = job + 1
  /\ turn' = 0 /\ lo' = W - 1 /\ sum' = 0
  /\ cost' \in Costs
  /\ quiet' = [best |-> FALSE, all |-> quiet.all /\ quiet.best]

Ended(kind) == Timed /\ turn = WARMUP + ROUNDS /\ Now.kind = kind

Floor ==
  /\ Ended("floor")
  /\ floor' = lo
  /\ NewJob
  /\ UNCHANGED <<ccount, up, failed, expected, result, paid, regular>>

If(failing) == IF failing THEN 1 ELSE 0

(* Going up: the total is kept; a size below the floor cannot be measured. *)
Up ==
  /\ Ended("up")
  /\ up' = [up EXCEPT ![Now.at] = lo]
  /\ failed' = failed + If(sum = 0) + If(PerOp(lo) = 0)
  /\ paid' = [paid EXCEPT ![Now.at] = cost]
  /\ regular' = (regular /\ cost # 0)
  /\ NewJob
  /\ UNCHANGED <<ccount, floor, expected, result>>

(* Slip: the declared asymmetry is not set apart.                          *)
NoneDeclared(size) == FALSE
Declared(size) == size = HISTORY_DEPENDENT

(* Coming down: the same total to the cycle, except for the one size whose *)
(* cost is declared to depend on history.                                  *)
ComeDown ==
  /\ Ended("down")
  /\ \/ lo = up[Now.at] /\ UNCHANGED <<failed, expected>>
     \/ /\ lo # up[Now.at] /\ Declared(Now.size)
        /\ expected' = expected + 1
        /\ UNCHANGED failed
     \/ /\ lo # up[Now.at] /\ ~Declared(Now.size)
        /\ failed' = failed + 1
        /\ UNCHANGED expected
  /\ regular' = (regular /\ (Now.size = HISTORY_DEPENDENT \/ paid[Now.at] = cost))
  /\ NewJob
  /\ UNCHANGED <<ccount, floor, up, result, paid>>

(* Across the routing boundaries the figures are printed, not judged.      *)
Routing ==
  /\ Ended("routing")
  /\ failed' = failed + If(sum = 0)
  /\ NewJob
  /\ UNCHANGED <<ccount, floor, up, expected, result, paid, regular>>

(* What the counters are to show: of a size served directly some pair was  *)
(* served so, and a page retired per Sweep pairs at most; else no page.    *)
AsRouted(size, generic, retired) ==
  IF size <= DirectMax THEN generic < COUNT_OPS /\ retired * Sweep <= COUNT_OPS ELSE retired = 0

(* The allocator's own counters over COUNT_OPS pairs: a size it serves     *)
(* directly is not to take the generic path every time, nor to retire more *)
(* than a page a sweep; any other is to retire none. The history takes no  *)
(* verdict: a page is retired by a sweep of pairs, of COUNT_OPS in all.    *)
Count ==
  /\ Running /\ Now.kind = "counted"
  /\ \E generic, retired \in 0 .. COUNT_OPS :
       /\ failed' = failed +
            IF Now.size <= DirectMax
            THEN If(generic >= COUNT_OPS) + If(retired > COUNT_OPS \div Sweep)
            ELSE If(retired # 0)
       /\ regular' = (regular /\ AsRouted(Now.size, generic, retired))
  /\ job' = job + 1
  /\ UNCHANGED <<ccount, cost, best, floor, up, expected, result, quiet, paid>>

Probe ==
  /\ Running /\ Now.kind = "probe"
  /\ \E inside \in BOOLEAN :
       failed' = failed + If(~inside) /\ regular' = (regular /\ inside)
  /\ result' = IF failed' = 0 THEN "PASS" ELSE "FAIL"
  /\ UNCHANGED <<ccount, job, cost, best, floor, up, expected, quiet, paid>>

CellNext == Give \/ Round \/ Floor \/ Up \/ ComeDown \/ Routing \/ Count \/ Probe

-----------------------------------------------------------------------------
(* If in every measurement one counted round was left alone, the cell says *)
(* PASS exactly when every size but the declared one cost the same up and  *)
(* down, and more than the loop, whatever the other rounds suffered and    *)
(* wherever the counter wrapped ("the floor is what survives an interrupt  *)
(* landing mid-round", main.rs:20).                                        *)
PassMeansRegular ==
  result # "none" /\ job > 0 /\ quiet.all => (result = "PASS" <=> regular)
=============================================================================
