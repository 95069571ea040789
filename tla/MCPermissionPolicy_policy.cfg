SPECIFICATION MCSpec
CONSTANTS
  k1 = k1
  k2 = k2
  p1 = p1
  p2 = p2
  p3 = p3
  NoKey = NoKey
  Keys = {k1, k2}
  Ctls = {p1, p2, p3}
  Resources <- ResourcesOfRequests
  Grantable <- EvaluationRecords
  MaxTime = 2
  MaxRecords = 3
  Crashes = {p2, p3}
INVARIANTS
  TypeOK
  AllowsExactlyTheGranted
  DenialIsWitnessed
PROPERTIES
  OperatorEditsAreKept
  GatewayPolicyIsWhole
