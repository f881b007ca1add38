SPECIFICATION Spec
CONSTANTS
  Calls = {c1, c2, c3, c4}
  Traces = {t1, t2}
  NoTrace = NoTrace
  Cap = 2
  Persistent = TRUE
  Faults <- AllFaults
  MaxEvents = 2
  MaxActive = 2
  MaxRestarts = 1
SYMMETRY Symmetry
CHECK_DEADLOCK FALSE
INVARIANTS
  RingShape
  RingIsDocument
  StoredIsNewest
