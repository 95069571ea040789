SPECIFICATION FairSpec
CONSTANTS
  Conns = {c1, c2}
  k1 = k1
  k2 = k2
  n1 = n1
  NoNullifier = NoNullifier
  BadNullifier = BadNullifier
  Packets <- EndPackets
  MaxTime = 1
  MaxInFlight = 1
  DbFaults = TRUE
  ClockFaults = TRUE
  LostWrites = TRUE
  MaxCrashes = 1
CHECK_DEADLOCK FALSE
PROPERTIES
  AcceptedConnectionsEnd
