SPECIFICATION ScopeSpec
CONSTANTS
  Procs = {p1, p2, p3}
  k1 = k1
  w1 = w1
  w2 = w2
  o1 = o1
  o2 = o2
  Absent = Absent
  Invocations <- ScopeInvocations
  Policies <- MCPolicies
  MaxTime = 2
  DbFaults = FALSE
  IoFaults = FALSE
  ClockFaults = TRUE
  MaxPowerLoss = 0
SYMMETRY ProcSymmetry
CHECK_DEADLOCK FALSE
INVARIANTS
  TypeOK
  OneBindingPerScope
  FreshOnce
  PublishedAgree
