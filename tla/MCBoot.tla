-------------------------------- MODULE MCBoot --------------------------------
(* Boot on the profiles of the code, with the rates of a narrow clock, and *)
(* on what differs from one of them in a constant, or in two of the three  *)
(* that the checks compare with others.                                    *)
EXTENDS Boot

Values(k) ==
  IF k = "TICK_RATE_HZ" THEN {0} \cup Rates
  ELSE IF k = "INITIAL_TICK_COUNT" THEN {TickMax, TickMax + 1}
  ELSE IF k = "MAX_PRIORITIES" THEN {0, 1, 255}
  ELSE IF k = "TIMER_TASK_PRIORITY" THEN {0, 5, 7}
  ELSE IF k = "MAX_TASKS" THEN {1, 2, 32760, 32767, 32768}
  ELSE IF k \in Capacities THEN {0, 32767, 65535}
  ELSE {0, 5, 33}

Profiles == {[DefaultConfig EXCEPT !["TICK_RATE_HZ"] = 2],
             [PosixDemoConfig EXCEPT !["TICK_RATE_HZ"] = 15]}

Coupled == {"MAX_PRIORITIES", "TIMER_TASK_PRIORITY", "MAX_TASKS"}

NearProfiles ==
  UNION {{[c EXCEPT ![j] = v] : v \in Values(j)} : c \in Profiles, j \in Knobs}
    \cup UNION {{[c EXCEPT ![j] = v, ![k] = w] : v \in Values(j), w \in Values(k)} :
                 c \in Profiles, j \in Coupled, k \in Coupled}
=============================================================================
