SPECIFICATION Spec
CONSTANTS
  N = 4
  L = 2
  MaxValue = 2
  Values = {0, 1, 2}
  ItemIds = {0, 1, 2, 65535}
  ListIds = {0, 1, 2, 255}
  DebugBuild = TRUE
INVARIANTS
  TypeOK
  OneRing
  CountAndCursor
  MarkersIntact
  EmptyAgrees
PROPERTIES
  TurnGoesToMember
  ImplementsOrder
