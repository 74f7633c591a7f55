SPECIFICATION Spec
CONSTANTS
  Cells = {"posted", "expired"}
  Rounds = 4
INVARIANTS
  OneCopy
PROPERTIES
  StoredBehindCopy
