SPECIFICATION FirmwareSpec
CHECK_DEADLOCK FALSE
CONSTANTS
  OPS = 2
  ROUNDS = 2
  WARMUP = 1
  MAX_HELD = 6
  HoleSize = 1
  HoledSize = 3
  ProbeSize = 2
  SplitBytes = 4
  BLOCKS = 2
  MAX_BLOCK = 4
  HeapSize = 12
  RegionRounds = 4
  RegionBlock = 4
  RegionSize = 12
  BoxSize = 1
  Growth <- VecGrowth
  COUNT_OPS = 2
  SIZES <- CellSizes
  HISTORY_DEPENDENT = 2
  ROUTING <- CellRouting
  COUNTED <- CellSizes
  DirectMax = 1
  Sweep = 2
  W = 9
  Harness = 1
  Costs = {0, 1, 2}
  Noise = {0, 2}
  Sizes <- RowSizes
  HoleCounts <- RowHoles
  PoolSizes <- RowPools
  SplitSizes <- RowSplits
INVARIANTS
  RoundLeavesHeap
  HolesStandApart
  VerdictTrue
  GateTrue
PROPERTIES
  RowsHonest
