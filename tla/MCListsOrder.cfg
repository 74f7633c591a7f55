SPECIFICATION FairSpec
CONSTANTS
  N = 4
  L = 1
  MaxValue = 2
  Values = {0, 1}
  ItemIds = {0, 1, 2}
  ListIds = {0}
  DebugBuild = FALSE
INVARIANTS
  SearchInv
  WalksAgree
  HeadIsLeast
PROPERTIES
  OnlyEndOpsUnsort
  StableInsert
  ImplementsOrder
  SearchEnds
