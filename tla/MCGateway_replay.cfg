SPECIFICATION ReplaySpec
CONSTANTS
  Conns = {c1, c2, c3}
  k1 = k1
  k2 = k2
  n1 = n1
  NoNullifier = NoNullifier
  BadNullifier = BadNullifier
  Packets <- ReplayPackets
  MaxTime = 2
  MaxInFlight = 2
  DbFaults = FALSE
  ClockFaults = TRUE
  LostWrites = FALSE
  MaxCrashes = 1
SYMMETRY ConnSymmetry
CHECK_DEADLOCK FALSE
INVARIANTS
  TypeOK
  OneReservationPerWindow
  HandlerOnlyAfterGates
  SlotInv
  AuditComplete
  PermitsAccounted
PROPERTIES
  LedgerOnlyForgetsExpired
  ImplementsReplayGuard
