-------------------------------- MODULE Boot --------------------------------
(***************************************************************************)
(* A kernel built and started under a configuration (config.rs,            *)
(* priority.rs). Sizes are checked where a type is built (list.rs,         *)
(* arena.rs), the other constants once, by validate; nothing asks again    *)
(* whether they fit the priorities, the ticks, the arenas and the lists of *)
(* the kernel that runs, which is outside.                                 *)
(***************************************************************************)
EXTENDS Timeouts, FiniteSets

CONSTANTS
  Configs,      \* the configurations, with the constants that are checked
  Raws,         \* the numbers callers ask for as priorities (u8)
  OtherLists    \* how many lists a kernel has beside one for each priority

Capacities == {"MAX_TASKS", "MAX_QUEUES", "MAX_TIMERS", "MAX_EVENT_GROUPS", "MAX_STREAM_BUFFERS"}

(* The constants that are checked, beside the capacities.                  *)
TickConstants == {"TICK_RATE_HZ", "INITIAL_TICK_COUNT"}
TaskConstants == {"MAX_PRIORITIES", "MINIMAL_STACK_SIZE", "MAX_TASK_NAME_LEN"}
NotifyConstants == {"NOTIFICATION_ARRAY_ENTRIES"}
TimerConstants == {"TIMER_TASK_PRIORITY", "TIMER_QUEUE_LENGTH", "TIMER_TASK_STACK_DEPTH"}
LimitConstants == {"CHECK_FOR_STACK_OVERFLOW", "NUMBER_OF_CORES"}

(* What those that need not be given are if they are not.                  *)
Defaults == [INITIAL_TICK_COUNT |-> 0, NOTIFICATION_ARRAY_ENTRIES |-> 1,
             TIMER_QUEUE_LENGTH |-> 10, CHECK_FOR_STACK_OVERFLOW |-> 2, NUMBER_OF_CORES |-> 1]
ArenaDefaults == [MAX_TASKS |-> 16, MAX_QUEUES |-> 16, MAX_TIMERS |-> 8,
                  MAX_EVENT_GROUPS |-> 4, MAX_STREAM_BUFFERS |-> 4]

Knobs == TickConstants \cup TaskConstants \cup NotifyConstants \cup TimerConstants
           \cup LimitConstants \cup Capacities

Config(given) ==
  [k \in Knobs |-> IF k \in DOMAIN given THEN given[k]
                   ELSE IF k \in Capacities THEN ArenaDefaults[k] ELSE Defaults[k]]

DefaultConfig ==
  Config([TICK_RATE_HZ |-> 100, MAX_PRIORITIES |-> 5, MINIMAL_STACK_SIZE |-> 128,
          MAX_TASK_NAME_LEN |-> 16, TIMER_TASK_PRIORITY |-> 4, TIMER_TASK_STACK_DEPTH |-> 128])

PosixDemoConfig ==
  Config([TICK_RATE_HZ |-> 1000, MAX_PRIORITIES |-> 7, MINIMAL_STACK_SIZE |-> 128,
          MAX_TASK_NAME_LEN |-> 12, TIMER_TASK_PRIORITY |-> 6, TIMER_QUEUE_LENGTH |-> 20,
          TIMER_TASK_STACK_DEPTH |-> 256, CHECK_FOR_STACK_OVERFLOW |-> 0,
          NOTIFICATION_ARRAY_ENTRIES |-> 3, MAX_TASKS |-> 64, MAX_QUEUES |-> 64,
          MAX_TIMERS |-> 32, MAX_EVENT_GROUPS |-> 8, MAX_STREAM_BUFFERS |-> 16])

ASSUME ConfigsTyped ==
  /\ Configs \subseteq [Knobs -> Nat]
  /\ \A c \in Configs : c["TICK_RATE_HZ"] \in Rates \cup {0} /\ c["MAX_PRIORITIES"] <= 255
  /\ Raws \subseteq Nat /\ OtherLists \in Nat

-----------------------------------------------------------------------------
(* Slip: the timer task may have the number of priorities for its own.     *)
TimerFitsLoosely(c) == c["TIMER_TASK_PRIORITY"] <= c["MAX_PRIORITIES"]
TimerFits(c) == c["TIMER_TASK_PRIORITY"] < c["MAX_PRIORITIES"]

(* Config::validate                                                        *)
Validates(c) ==
  /\ c["TICK_RATE_HZ"] > 0
  /\ c["MAX_PRIORITIES"] >= 1
  /\ TimerFits(c)
  /\ c["MINIMAL_STACK_SIZE"] > 0
  /\ c["TIMER_TASK_STACK_DEPTH"] >= c["MINIMAL_STACK_SIZE"]
  /\ c["MAX_TASK_NAME_LEN"] >= 1
  /\ c["NOTIFICATION_ARRAY_ENTRIES"] \in 1 .. 4
  /\ c["TIMER_QUEUE_LENGTH"] \in 1 .. 32
  /\ c["CHECK_FOR_STACK_OVERFLOW"] <= 2
  /\ c["NUMBER_OF_CORES"] >= 1
  /\ c["MAX_TASKS"] >= 2
  /\ c["INITIAL_TICK_COUNT"] <= TickMax
  /\ \A k \in Capacities : c[k] <= 32767

(* Priority::new and Priority::highest: a set, empty where they refuse.    *)
IDLE == 0
PriorityNew(raw, most) == IF raw < most THEN {raw} ELSE {}
Highest(most) == IF most = 0 THEN {} ELSE {most - 1}

(* next_power_of_two, up to one power more than a pool of lists may have.  *)
PowersOfTwo == {1, 2, 4, 8, 16, 32, 64, 128, 256, 512, 1024, 2048, 4096, 8192, 16384,
                32768, 65536}
NextPowerOfTwo(m) == CHOOSE n \in PowersOfTwo : n >= m /\ (n = 1 \/ n \div 2 < m)

(* Slip: the markers are not counted.                                      *)
SlotsForItems(items, lists) == NextPowerOfTwo(items)
SlotsFor(items, lists) == NextPowerOfTwo(items + lists)

ListCount(c) == c["MAX_PRIORITIES"] + OtherLists
Slots(c) == SlotsFor(c["MAX_TASKS"], ListCount(c))

(* SIZES_FIT of the lists and CAPACITY_FITS of the arenas.                 *)
Builds(c) ==
  /\ c["MAX_TASKS"] + ListCount(c) <= 65536
  /\ ListCount(c) \in 1 .. Slots(c) - 1 /\ Slots(c) <= 32768 /\ ListCount(c) <= 255
  /\ \A k \in Capacities : c[k] <= 65534

-----------------------------------------------------------------------------
VARIABLES
  config,
  tick,         \* the count the kernel starts at
  daemon,       \* the timer task's priority, in a set
  priorities    \* those its callers hold

bootVars == <<timeVars, config, tick, daemon, priorities>>

BootInit ==
  /\ config \in Configs
  /\ hz = config["TICK_RATE_HZ"]
  /\ asked = 0 /\ span = 0 /\ ticks = 0 /\ timeout = Timeout("None", 0)
  /\ stage = "source" /\ tick = 0 /\ daemon = {} /\ priorities = {}

(* A configuration whose sizes do not fit does not compile.                *)
Build ==
  /\ stage = "source"
  /\ stage' = IF Builds(config) THEN "off" ELSE "refused"
  /\ UNCHANGED <<hz, asked, span, timeout, ticks, config, tick, daemon, priorities>>

(* "The kernel refuses to start on Err" (config.rs:159-160).               *)
Start ==
  /\ stage = "off"
  /\ IF Validates(config)
     THEN /\ stage' = "idle"
          /\ tick' = New(config["INITIAL_TICK_COUNT"])
          /\ daemon' = PriorityNew(config["TIMER_TASK_PRIORITY"], config["MAX_PRIORITIES"])
     ELSE stage' = "refused" /\ UNCHANGED <<tick, daemon>>
  /\ UNCHANGED <<hz, asked, span, timeout, ticks, config, priorities>>

AskPriority(raw) ==
  /\ stage = "idle"
  /\ priorities' = priorities \cup PriorityNew(raw, config["MAX_PRIORITIES"])
  /\ UNCHANGED <<timeVars, config, tick, daemon>>

Running == TimeNext /\ UNCHANGED <<config, tick, daemon, priorities>>

BootNext == Build \/ Start \/ Running \/ \E raw \in Raws : AskPriority(raw)

BootSpec == BootInit /\ [][BootNext]_bootVars

-----------------------------------------------------------------------------
Started == stage \notin {"source", "off", "refused"}

(* What a kernel that started goes on to take for granted, and two checks  *)
(* far apart, one of sizes and one of constants, have to have made sure    *)
(* of: every priority it holds, the timer task's too, has a list of its    *)
(* own and none is above the highest ("every Priority a kernel holds is    *)
(* valid", priority.rs:6); every task, idle and timer task included, has   *)
(* an item besides the markers; a tick rate that can be divided by, an     *)
(* initial count the width does not cut off, arrays of fixed size that are *)
(* large enough.                                                           *)
StartedFits ==
  Started =>
    /\ \E top \in Highest(config["MAX_PRIORITIES"]) :
         /\ daemon # {}
         /\ \A p \in priorities \cup daemon \cup {IDLE} : p <= top
         /\ top < ListCount(config)
    /\ Slots(config) - ListCount(config) >= config["MAX_TASKS"] /\ config["MAX_TASKS"] >= 2
    /\ hz > 0 /\ tick = config["INITIAL_TICK_COUNT"]
    /\ config["NOTIFICATION_ARRAY_ENTRIES"] <= 4 /\ config["TIMER_QUEUE_LENGTH"] <= 32
=============================================================================
