SPECIFICATION ClientSpec
CONSTANTS
  N = 2
  GenMax = 3
  MaxIndex = 3
  Payloads = {"a", "b"}
  Default = "default"
  NeedsDrop = FALSE
INVARIANTS
  TypeOK
  LenCounts
  OnlyLiveResolves
  StaleStaysDead
PROPERTIES
  ImplementsTable
  StaleTouchesNothing
