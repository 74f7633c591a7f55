SPECIFICATION TicklessSpec
CONSTANTS
  N = 4
  L = 2
  MaxValue = 3
  Values = {}
  ItemIds = {}
  ListIds = {}
  DebugBuild = FALSE
  TickMax = 3
  WordMax = 7
  IdleFloor = 2
PROPERTIES
  DelayEnds
  ImplementsSchedule
