# Verification of rusty_rtos_core

TLA+ models of `src/crates/rusty_rtos_core`, the shared vocabulary of an RTOS:
the index-threaded lists, the generational arena and its handles, the wrapping
tick count, the conversions of durations and timeouts, the configuration a
kernel is built and started under, the projection of traces and the tick hook;
and of `src/firmware`, the programs that gate and measure an allocator on a
board. Line numbers below are of `src/crates/rusty_rtos_core/src/` unless a
path says otherwise.

    tlc -workers 2 -config <cfg> <module>     model-check one run
    tlapm <component>Proofs.tla               check proofs

## 1. The system

The crate is a library without threads of its own. Every operation takes
`&mut self` (or is a pure function), so a call is atomic with respect to other
calls; what is hard is not data races but *sequences* of legal calls, refused
calls in between, values at the edge of their width, and what callers keep
across calls: a cursor, a handle, a wake time. The kernel that calls it (the
scheduler, queues, timers, ports) is in other repositories. The firmware cells
are single programs too; their hard part is what surrounds them: an allocator
that may refuse, lose or misplace blocks, a counter that wraps, interrupts that
lengthen a round, and a verdict that has to be true of all of it.

| component | state | operations | what makes it correct |
|---|---|---|---|
| **list** (`list.rs`) | `nodes[N]`: value, prev, next, container, the last L of them end markers; per list a cursor and a count | `insert`, `insert_keeping_value`, `insert_sorted`, `insert_end`, `move_to_end`, `remove`, `set_value`, `next_round_robin`; readers `head`, `head_value`, `tail_value`, `next`, `iter`, `is_sorted`, ... | one ring per list in both directions; count = members; cursor in the ring; markers untouched; searches end; order kept and stable; turns go round; a refused call changes nothing |
| **arena, handle** (`arena.rs`, `handle.rs`) | per slot a value and a generation whose 17th bit means free; a count | `insert`/`try_insert`, `get_mut`/`resolve_mut`, `remove`, `discard`; `get`, `resolve`, `contains`, `iter` | a handle names its object or nothing; count right; full and stale answered, not obeyed |
| **tick** (`tick.rs`) | a count in a u64 masked to 16, 32 or 64 bits | `wrapping_add`, `wrapping_sub`, `checked_add`, `since`, `overflows_by` | agrees with exact arithmetic around the wrap |
| **time, config** (`time.rs`, `config.rs`) | none; constants per configuration | `Duration::{secs,millis,micros,to_ticks}`, `Timeout::{to_ticks,from_ticks,after}`, `ms_to_ticks`, `ticks_to_ms`, `validate` | the wait waited is the wait asked for; a configuration that passes leaves a kernel all it takes for granted |
| **priority** (`priority.rs`) | a number below `MAX_PRIORITIES` | `new`, `highest` | every priority a kernel holds has a list |
| **error, isr** | value types | codes, one `or` | nothing takes two steps |
| **trace** (`trace.rs`) | none | 42 events; `Scheduling` drops three of them | two runs that differ only in sleeping project to the same events |
| **hooks** (`hooks.rs`) | a tick hook's state, kept by the kernel | `tick` on a copy that is stored back; `timer`, `pended`, `send_completed` through the kernel | no copy undoes a write |
| **port, heap** (`port.rs`, `heap.rs`) | none here | traits with empty defaults | rules for those who implement and call them |
| **firmware** (`src/firmware/*`) | blocks held, tallies, best figures, the verdict | rounds of allocation and release, pool and split rounds, the region gate, sweeps up and down | rounds give back what they took; rows void when an allocation was refused; the verdict is what happened |
| **alloc, bench, fuzz, oracle, tools** | – | re-exports, harnesses, reports | no part of the program's own logic |

How they interact: a scheduler keeps tasks in an arena, names them by handles,
and threads them through lists: a *ready* list per priority used round robin,
and two *delayed* lists of wake times, one before the wrap of the tick count
and one past it, which change roles at the wrap. Durations become tick counts,
tick counts become wake times, wake times become the values a list sorts by. So
the values that `insert_sorted` sees come from `checked_add`, and the guarantee
of a timeout needs all of them.

The hard behaviours, each with its line, are the "hazards" of `PROJECT.json`.

## 2. The modules

| module | models | how |
|---|---|---|
| `Lists` | `list.rs` | one action per `&mut self` operation, refusals included; the search loop of `insert_inner` is one step per turn (`WalkOn`, `WalkStop`), during which no other call starts; the readers, `is_empty` to `next_and_value`, are operators |
| `ListOrder` | the contract of a list | sequences with a turn position, no links |
| `MCLists` | – | the mapping from rings to `ListOrder` |
| `ReadyList` | one ready list under a scheduler (external) | extends `Lists`; wake, block, select, rotate in any order |
| `Arena` | `arena.rs`, `handle.rs` | one action per operation; every word a C caller can hold, and the handle `from_raw` makes of it; `Parts`, what `from_parts` makes of wider ones |
| `ObjectTable` | the contract of the arena | a partial function from handles to objects |
| `MCArena` | – | the mapping from slots to `ObjectTable` |
| `StaleHandle` | a caller that keeps a handle | extends `Arena`; others remove the object and reuse the slot |
| `Ticks` | `tick.rs` | operators over `% (TickMax + 1)` and `% (WordMax + 1)` |
| `Delays` | the two delayed lists under a kernel (external), tickless sleep (`port.rs`) | extends `Lists` and `Ticks` |
| `Timeouts` | `time.rs`, `config.rs` conversions | the way of one wait: asked, converted, blocked |
| `Boot` | `config.rs` (`validate`, profiles, defaults), `priority.rs`, the size assertions of `list.rs` and `arena.rs` | extends `Timeouts`: a kernel (external) that is compiled if its sizes fit, starts if its constants do, then hands out priorities and waits |
| `MCBoot` | – | the configurations near the two profiles |
| `Tickless` | `trace.rs`: `is_suppressible`, `Scheduling` | extends `Delays` with the events the kernel (external) fires and what of them the sink hears |
| `Schedule` | the contract of delays and their trace | a queue of who waits and how long; time in steps of any length |
| `TickHooks` | the copy-out, copy-back protocol of `hooks.rs` | a kernel (external); ticks that come where a counted critical section ends, in a callback or between |
| `AllocRounds` | `esp32s3-devkit-alloc-ab`: rounds, pairs of arms, pool, halves, rows, verdict | two heaps of live blocks (external allocators); every loop turn an action |
| `RegionCheck` | `mps2-an385-qemu-region`: the gate | one allocator (external) with one fault or none: it refuses, takes the region twice, misjudges what of it can be used, leaks, corrupts, wanders, lays blocks outside |
| `CycleCell` | `esp32s3-devkit-alloc-cycles`: best of, sweeps up and down, counts | a wrapping counter, a cost per allocation and noise per round (external) |
| `MCFirmware` | – | the cells, one of which is on the board |
| `ListsProofs`, `OrderProofs`, `ReadyProofs`, `ArenaProofs`, `DelaysProofs` (delays and their trace), `KernelProofs` (time, start, tick hook), `FirmwareProofs` | – | theorems |
| `NumberFacts` | – | what the proofs need of `\div`, of `%` and of sets of numbers |

Correspondence. In `Lists`, `value`, `prev`, `next`, `container` are the
fields of `nodes[s]`, `cursor` and `len` those of `meta[l]`; slots
`0 .. CAPACITY-1` are items and `CAPACITY + l` the marker of list `l`, as in
the code. A link is followed through `At`, which masks it; an id a caller
passes is checked, not masked. `ret` is what the last call answered, so that
answers can be compared with the contract's. Counts wrap at 16 bits. `walk` is
the local state of the search. `DebugBuild` chooses between the builds with
and without the debug guard of the loop. In `Arena`, `generation` holds the
counter and, `FREE` above it, the mark of a free slot; `GenMax` stands for
65,535. `from_raw` checks nothing, so inputs are all handles. `from_parts` is
public and takes two whole u32: parts above 16 bits are in `Parts`, which only
lookups see. No word and no call of the arena makes such a handle ("The arena
is the only intended caller", `handle.rs:103`), but it may be made, and one
whose generation repeats the FREE bit of a free slot would resolve;
`OnlyLiveResolves` says that this is the only way.

In `AllocRounds`, `phase` and `i` are where the round's loops stand, `held`,
`p`, `sum`, `bad` its locals, and `turn`, `arm`, `sums`, `anyBad` those of
`best_pair`; `job` is the row of `main`'s tables at work. `done` and `refused`
are history: what a row's counted rounds really met. `asserted` is `heap_4`'s
`configASSERT`. The two arms are one macro in the code and one set of actions
here. In `RegionCheck`, `seen` is history, what the allocator did whether or
not a check looked. In `CycleCell`, `quiet` records whether every measurement
so far had one counted round without noise, which is what "best of" relies on;
`paid` and `regular` are history too, kept from the allocator's true costs and
not from the figures the cell compares.

A definition marked "Slip" next to an operation is that operation with a
plausible mistake in it. It is used by no specification; it is there to show,
by substitution, that a property notices the mistake.

`ReadyList`, `Delays`, `Tickless` and `TickHooks` need a caller that is not in
this repository: their actions are external in the map, the kernel's part of
`Delays` and all of `TickHooks` among them. They take from `list.rs`, `tick.rs`, `port.rs`, `trace.rs` and
`hooks.rs` what each call is for (ready tasks enter by `insert_end`; a wake
time that overflows goes to the other list; a sleep that claims too much is
clamped; a tick's own kernel calls leave no counted critical section) and leave
the order of events open. In `Tickless` a delay is traced in the critical
section that ends with the task on its list, so its events are heard then;
`heard` is what the last call that got any event through the projection sent.

## 3. The runs

| run | cfg | asks | states |
|---|---|---|---|
| rings | `MCListsRings` | do links, counts, cursors and markers survive every sequence of calls, bad ids included; do they implement sequences | 113,000 |
| order | `MCListsOrder` | does the search stand right and end, do readers agree, who may break the order, are ties stable; do the rings implement sequences, answer for answer | 286,000 |
| ready | `ReadyList` | is anybody passed over for long, or for ever | 328,000 |
| arena | `StaleHandle` | do only live objects resolve, is it a table of objects, and what can a stale handle do | 17,000 |
| stale_reuse | `StaleHandleReuse` | does a stale handle stay dead for ever (no) | – |
| parity | `MCArenaParity` | is a live slot's generation odd (no) | – |
| delays | `Delays` | is anybody woken early or late, around the wrap and across sleeps | 3,172,000 |
| tickless | `Tickless` | can a sleep be told from the ticks it took, and does every delay end | 96,000 |
| tick_hook | `TickHooks` | can two copies of the hook be out, or one that misses a write; who may write behind it | 560 |
| timeouts | `MCBoot` | does a kernel that starts fit its configuration, and is the wait waited the wait asked for | 94,000 |
| ms_wide | `TimeoutsWide` | is `ms_to_ticks` floored at 64-bit ticks (no) | – |
| firmware | `MCFirmware` | do rounds leave the heap as they found it, do the holes stand apart, are rows and verdicts true, does the gate tell good allocators from bad | 298,000 |

**Bounds, and why they do.** *Lists*: two items in two lists, or three in one,
are enough for every shape an operation distinguishes: the ring empty, of one,
of more; the item first, last, between, under the cursor, elsewhere, nowhere;
values equal, below, above, greatest. Ids are bad in each way there is: another
list's marker, past the arena, `NO_LIST`. The proofs cover the other sizes.
`rings` is the debug build, `order` the
release build; the contract is checked in both. Items of the marker's own value
(`V::MAX`, a branch of its own in `insert_inner`) are in `rings`, where `ImplementsOrder`
says where they go; `order` has the values below it, for
the ties and lists out of order that need three items in one ring, and so never takes that
branch. The theorems `SearchHolds`, `InsertsAreStable`, `OrderImplemented` have all values. *Arena*: two slots and three
generations: the wrap to 1 comes after three uses of a slot, while another slot
is free, taken or wrapped too; indices go past the arena. *Ready*: four tasks,
so that there is one more than insertion before, removal at and moving to the
cursor can involve; `waited` is counted up to `Patience`, above the bound that
is claimed. *Delays*: a 2-bit count in a 3-bit word: every wait ends before,
at or past the wrap, including waits of a whole round; three tasks for the
search to pass one and stop at another. The marker's value is the greatest
count, as with a list of the tick's own width, which is the harder case. A wake
that is late is `Late` however late. `Tickless` has two tasks: enough to wake in an
order and, equal wake times, in the order of the delays. *Tick hook*: two parts
of a state that count modulo four; the proof covers the rest.
*Timeouts*: a 3-bit count in a 6-bit word and a second of four microseconds:
small enough to try every input, and in the same proportion as 32 bits, 64 bits
and a million: `10^6 * 2^32 < 2^64`, rates both below and above the scale. The
configurations are the two profiles with each constant in turn at and past its
limits (0, the greatest that passes, the least that does not), and every two of
the three that are compared with each other (priorities, the timer task's,
tasks). The kernel is given five lists beside those for priorities; the proof
covers any number.
*Firmware*: two operations, one warm-up and two counted rounds: a null can come
in the first, in between and in the last, in either arm, while filling or
while timed. Holes of 0, 1 and 4 pairs with at most six blocks held, so that the
limit bites. The region holds three blocks and there are four rounds, so that an
allocator that gives nothing back runs out; the Vec grows three times. The
counter has nine values and a round takes up to eight, from any start: it
wraps in every place, and no round goes round it.

**Fairness.** `Lists!FairSpec`: weak on a turn of the search, which is a
sequential loop inside one call. `ReadySpec`: weak on `Select`: the next task
is picked again and again, by the tick at the latest. `TicksGoOn`, in `TicklessSpec`: weak on the
search and on finishing a tick that has begun, both sequential; strong on
`Tick`: an interrupt raised while it is masked stays pending and is taken when
the critical section ends. Nothing else is assumed to happen. Two runs turn the
deadlock check off: in `timeouts` a configuration that is refused stops the
kernel, and in `firmware` the programs end in `loop {}` or an exit.

**What the violations show.** `stale_reuse`: `remove` says that "no copy of
this handle resolves again" (`arena.rs:283`); after 65,535 further uses of its
slot one does. `parity`: the comments on `Slot` (`arena.rs:18-20, 31`)
describe odd and even generations, an encoding the code no longer has. `ms_wide`:
`ms_to_ticks` is documented as floored and saturating at the greatest count
(`config.rs:193`), but returns the greatest count whenever `ms * rate`
overflows the word; with 64-bit ticks that is a thousandth of it, and a finite
wait becomes `Forever`. At 16 and 32 bits the result is right, which
`timeouts` checks and `WaitsAreExact` proves.

**Met while modelling,** and not runs of their own:

- `alloc-ab` says that "the harness holds exactly ONE allocation live at a
  time, so heap size is not on the measured path"
  (`esp32s3-devkit-alloc-ab/src/main.rs:85-86`); the table of holes holds up to
  256 blocks beside it and the split rounds up to 32 KiB.
- A null in `split_alloc_free` is passed over and its row printed as if every
  allocation had succeeded (`:285-317`), and the `bad` of the pool rounds and of
  the null A/B is not looked at (`:435`, `:482`). Only judged rows are honest
  rows, and `RowsHonest` is about those.
- `alloc-ab` releases its probe block without looking at it (`:549`): after a null,
  which it has just reported, `dealloc` gets a pointer no allocation gave, which
  is undefined. `Probe` has it that the run may stop there without a verdict
  (`"stopped"`).
- `alloc-cycles` prints that "every other size reproduced its ascending total
  to the CYCLE" (`:237-238`) also below the FAIL rows that say which did not;
  the verdict is right all the same.
- The region gates say that what they allocate lies in the region; of a growing
  Vec they look at the last block only (`mps2-an385-qemu-region/src/main.rs:147`),
  and a last round that is not given back shows nowhere. `seen` says what they
  do look at.
- `validate` lets `MAX_TASKS` up to 0x7FFF pass (`config.rs:181`) although a pool of
  lists has at most 0x8000 slots, markers included (`list.rs:467`): with more than
  one list, the greatest counts that pass cannot be built. `Build` comes first,
  so no kernel starts in that state.

## 4. The proofs

All for every value of the constants that satisfies the ASSUMEs of the modules
(sizes and widths the code's own assertions and types give).

*Lists.* `IInv = ListInv /\ walk \in Searches /\ SearchInv`, and `ListInv` is
the types and `RingInv = OneRing /\ CountAndCursor /\ MarkersIntact`. The types
alone are not inductive: that a link is a slot needs that it stays in its ring,
that the ring is one cycle needs both directions, that a removal leaves the
cursor in the ring needs the count, and that the search stands between
neighbours needs the markers, whose greatest value stops it. `OneCycle` says
without recursion that a ring is one cycle: a nonempty set of its slots that is
closed under `next` is all of it. Two lemmas carry the proof: `LinkRing`,
linking a new slot between neighbours, and `SkipRing`, unlinking one, keep a
ring a ring; `FrameRing` keeps the rings they do not touch. Each operation has
a lemma that reduces it to these. From `IInv`: `TypeCorrect`, `RingsHold`,
`CountsHold`, `MarkersHold`, `SearchHolds`, `EmptinessAgrees`, `HeadLeast`,
`TurnsGoToMembers`, `OrderKept`, `InsertsAreStable`.
`HeadLeast` is an induction round the ring, done with the closed set of members
that are at least the head.

*Order and turns.* What an iterator meets and where a cursor stands is said by
walking: `Chain` is a recursive function of the number of steps. That a walk
round a ring of `n + 1` slots meets each once and is back after one more
(`RoundWalk`) needs no induction over it: the least counterexample to "two
places, one slot" would have a smaller one before it, since `prev` undoes
`next`, and the part walked until the first return is closed under `next`, hence
the ring. That the function is a walk at all needs that walks of every length
exist (`WalkExists`). So every ring is spelled by its first `len` steps
(`ListsSpelled`), which gives `WalksHold`. `Put` and `Drop` are what linking
behind a place and skipping a place do to the walk; `Entered`, `Left`, `Moved`
and `Turned` say so of the operations, the place of the cursor included. From
these, call by call, `OrderImplemented`: the rings implement the sequences of
`ListOrder`. Its inductive invariant is `IInv` with `WalkPlaced` and `WalkAsked`:
a search stands at a place up to which nothing is above its value, so that where
it stops is where the sequences put the item in one step (`WalkEnds`), and it
searches for what a call asked for. `BypassHolds` (in `ReadyProofs`) rests on
`TurnsLeft`: a task in front of the cursor waits for as many turns as there are
places between, one behind it until the walk has come to the marker and round
to it; what enters, enters behind the cursor's back. Hence at most two turns of
every other task, and not one.

*Arena.* `IInv` is types and `LenCounts`; `ArenaTypes`, `CountHolds`;
`RawRoundTrip`, that words and handles are the same, from which `LookupsHold`
for every word; `ClientsCallTheArena`, that a caller who keeps a handle takes
only steps of the arena, so that all of this holds for it; `TableImplemented`, the refinement of `ObjectTable`, step by
step; and for a kept handle `KeptInv`: while `reuses` is short of a round, the
counter of the slot is exactly `Ahead` of the kept generation by that many,
round the wrap, hence different. `StaleHandlesStayDead`,
`StaleHandlesTouchNothing`.

*Delays.* The wake times are stored modulo the width, the waits are not, so the
invariant has to tie them together list by list: `Away(l, v, n)`, wake time `v`
on list `l` is `n` ticks off, short of the wrap on the current list and past it
on the other, with `n` itself a count. `DelayInv` says this of every member,
that outside the tick's own work everybody has some left, that both lists are in
order, the same of a search that has not yet linked its sleeper, and `IInv` of
the rings, whose step lemmas and order lemmas it reuses. The kernel
has two lists at least (`DelaysFit`). That `n` is a count is
what makes the current list empty at the greatest count (`SwapIsSafe`); that the
head of a list in order is least (`HeadLeastInv`) is what lets the tick and the
idle task look at the head only (`NobodyLate`); together with the arithmetic of
the counts (`AddFacts`, `SinceFacts`) they give `WakeTimesHold`,
`SinceHolds`, `NobodyEarly`.

*The trace.* `ScheduleImplemented`: what the sink hears is a schedule. `Waiters`
is the refinement mapping: the walk along the current list and then the one
along the other, each task with what is left of its wait, so that no wake time
and no list is seen any more (`QueueRead`). Its inductive invariant is
`DelayInv` with `WalkPlaced`. A place on either list is a place in the queue
(`Behind`), and since by `Away` everybody on the other list is past the wrap,
whoever is on the current one, where a wake time belongs on its list is where
the wait belongs in the queue (`PlaceInQueue`): behind all who wait as long or
less, ties included. Then step by step: an ordered insert enters the queue
where the search ends and not before (`DelayMaps`, `SearchMaps`, by `Entered`
and `WalkEnds`); a removal leaves it (`RemoveLeaves`, `AbortMaps`, `WakeMaps`,
the one woken being the queue's first); a tick, and a sleep of any length, takes
as many ticks from everyone and passes nobody (`TimeElapses`); when the lists
change roles the first of them is empty, so the queue stays what it is. The
events that a sleep changes are those the projection drops (`Kinds`,
`FireFacts`).

*Time.* `DivUnique` (quotient and remainder are determined) gives what the
wraps and divisions do: `OverflowExact`, `SinceUndoesAdd` (in `DelaysProofs`),
`ToTicksExact`; then `TimeInv`, what each stage of a wait holds of what was
asked, gives `LongerWaits` at every width, and `WaitsAreExact` and
`WaitsReadBack` where `Million * TickMax <= WordMax`. `BootInv` is `TimeInv` once the kernel runs,
and before that what `Build` and `Start` have looked at; `StartedKernelsFit` is
that these two leave nothing out, for any number of lists the kernel adds;
`StartedWaitsAreExact`, `StartedLongerWaits`, `StartedReadsBack` carry the rest
over to every kernel that starts.

*Hook.* `OneCopy` is inductive as it stands: at most one copy is out, it holds
every write so far, and no tick can come while it is out; no write is lost when
none is. `CopiesDontNest`, `OldStateStays`.

*Firmware.* Each cell has its own invariant and the cells that are not on the
board stand still, so that `FirmwareInv == RegionInv /\ CycleInv /\ AllocInv`
is inductive. `AllocInv` ties three things together for every phase of a round:
what the locals say is in hand (`InHand`) and the heap; where the blocks of
`heap_4` lie, the lowest gap first (`AllocGaps`), from which no two holes meet;
and the best figures, which depend on what a round of the row must come to
(`Answer`). `RegionInv` relates what is live to the checks made so far,
`CycleInv` the best figures to the costs without noise, round the wrap of the
counter. The assumptions are that the region has room for the blocks
the gate asks for (`RegionFits`: a gate that cannot be served says nothing) and
that a round is shorter than the counter's own round (`CyclesFit`, with `OPS`
above one), which the code's constants satisfy by far. `charge_c` and the
priming of `heap_4` take a block and give it back in one step (`Charge`,
`ChargeGivesBack`). `VerdictsTrue`, `GateIsTrue`,
`RoundsLeaveHeap`, `HolesNeverMeet`, `RowsAreHonest`.

**Only model-checked.** The liveness properties `SearchEnds`, `NoStarvation` and
`DelayEnds`, which are out of the prover's reach.

## 5. Not modelled

Formatting, `Error`, `Isr` (one flag), the names and subjects of trace events,
the counting sink, `TickHook::wants_tick` (a shortcut that promises not to be
seen), the default bodies of `Port`, `Hooks` and `Heap` (empty), the constants of
`Config` that `validate` does not look at (flags and sizes for a kernel in
another repository), the allocator seam (re-exports), the benches, the fuzz target
and the oracle's driver (drivers, read for what callers do). `iter_mut` of the
arena is a sequence of writes through live handles. Of the firmware, what is
printed and never judged: cycle figures and ratios, what `charge_c` measures, the statistics of
the region, what QEMU's counters show; `esp32s3-devkit-region` makes the same checks
as `mps2-an385-qemu-region`, in the same order, and is not modelled twice.

## 6. Plan

Done: the lists and their contract, the ready list, the arena with its C words
and its contract, stale handles, ticks, delays and their contract, the
projection of traces, timeouts, the configuration of a kernel and its start,
the tick hook, the firmware cells, and the proofs above. What would come next:

1. What a switch owes the clock (`Port::begin_unwind`, `end_unwind`,
   `port.rs:155-194`): a task that is resumed pays the exits its tail made.
