SPECIFICATION FairSpec
CONSTANTS
  MaxTime = 4
  PRE_OPEN_SECONDS = 3
  SIGNED_WINDOW_SECONDS = 2
  CONNECTION_READ_SECONDS = 1
  ClockFaults = TRUE
  AcceptFaults = TRUE
CHECK_DEADLOCK FALSE
INVARIANTS
  TypeOK
  CeremonyInv
  PresentationInWindow
  ConsumedMeansClosed
  ResultIsTrue
PROPERTIES
  OnlyTokenConsumes
  WindowNeverExtended
  CeremonyEnds
