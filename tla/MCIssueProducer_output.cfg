SPECIFICATION Spec
CONSTANTS
  Procs = {p1, p2}
  k1 = k1
  w1 = w1
  w2 = w2
  o1 = o1
  o2 = o2
  Absent = Absent
  Invocations <- ScopeInvocations
  Policies <- MCPolicies
  MaxTime = 2
  DbFaults = TRUE
  IoFaults = TRUE
  ClockFaults = TRUE
  MaxPowerLoss = 1
SYMMETRY ProcSymmetry
CHECK_DEADLOCK FALSE
INVARIANTS
  SuccessIsDurable
  NoPartialProjection
PROPERTIES
  OutputNeverReplaced
