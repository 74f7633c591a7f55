SPECIFICATION ReadySpec
CONSTANTS
  N = 8
  L = 4
  MaxValue = 2
  Values = {}
  ItemIds = {}
  ListIds = {}
  DebugBuild = FALSE
INVARIANTS
  BoundedBypass
PROPERTIES
  NoStarvation
