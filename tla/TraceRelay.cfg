SPECIFICATION RelaySpec
CONSTANTS
  NoId = NoId
  MaxEventBytes = 1
  TurnCaps = {1, 4}
  MaxCapHits = 2
  Specialists = {s1, s2}
  Paths <- AllPaths
  MaxCalls = 2
  MaxInFlight = 1
  MaxBreaks = 1
SYMMETRY Symmetry
CHECK_DEADLOCK FALSE
INVARIANTS
  NotUnderEnded
  OneHierarchy
  CountedWithoutHop
