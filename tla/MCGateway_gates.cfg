SPECIFICATION Spec
CONSTANTS
  Conns = {c1, c2}
  k1 = k1
  k2 = k2
  n1 = n1
  NoNullifier = NoNullifier
  BadNullifier = BadNullifier
  Packets <- GatePackets
  MaxTime = 2
  MaxInFlight = 2
  DbFaults = TRUE
  ClockFaults = FALSE
  LostWrites = TRUE
  MaxCrashes = 1
SYMMETRY ConnSymmetry
CHECK_DEADLOCK FALSE
INVARIANTS
  NullifierRunsOnce
  RunInv
  ResponseTruth
  ProfiledResponseIsBacked
  RejectionNamesItsStage
  AcceptedReceiptMeansRan
