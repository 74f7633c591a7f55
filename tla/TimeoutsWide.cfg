SPECIFICATION TimeSpec
CONSTANTS
  TickMax = 63
  WordMax = 63
  Thousand = 2
  Rates = {3}
  Inputs = {0, 1, 2, 7, 20, 21, 22, 31, 63}
INVARIANTS
  MsFloored
