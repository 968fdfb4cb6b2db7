SPECIFICATION FairSpec
CONSTANTS
  Conns = {c1, c2}
  MaxLines = 2
  MaxStops = 2
  PairSize = 1
  Nobody = Nobody
CHECK_DEADLOCK FALSE
INVARIANTS
  TypeOK
  PassThenTakeOver
  WaitsAccounted
PROPERTIES
  HangsUp
  PassedIsTakenOver
