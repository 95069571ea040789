SPECIFICATION Spec
CONSTANTS
  Conns = {c1, c2}
  k1 = k1
  k2 = k2
  n1 = n1
  NoNullifier = NoNullifier
  BadNullifier = BadNullifier
  Packets <- GatePackets
  MaxTime = 1
  MaxInFlight = 2
  DbFaults = TRUE
  ClockFaults = FALSE
  LostWrites = FALSE
  MaxCrashes = 0
SYMMETRY ConnSymmetry
CHECK_DEADLOCK FALSE
INVARIANTS
  DecisionResponseIsBacked
