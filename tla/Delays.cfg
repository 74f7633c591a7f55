SPECIFICATION DelaysSafe
CONSTANTS
  N = 8
  L = 5
  MaxValue = 3
  Values = {}
  ItemIds = {}
  ListIds = {}
  DebugBuild = FALSE
  TickMax = 3
  WordMax = 7
  IdleFloor = 2
INVARIANTS
  WakeTimesAgree
  SinceAgrees
  NeverLate
PROPERTIES
  NeverEarly
  SwapFindsEmpty
