\* Two callers, one session, two records, one call of each other kind.
CONSTANTS
  None = None
  t1 = t1
  t2 = t2
  s1 = s1
  s2 = s2
  r1 = r1
  r2 = r2
  r3 = r3
  insurer = insurer
  broker = broker
  Threads = {t1, t2}
  Sessions = {s1}
  Records = {r1, r2}
  Stakeholders = {insurer, broker}
  Endpoints <- MCEndpoints
  DataTypes <- MCDataTypes
  TypeOf <- MCTypeOf
  Manifests <- MCManifests
  Budget <- AllCalls
SPECIFICATION Spec
SYMMETRY ThreadSymmetry
INVARIANTS
  SealedAfterEnd
  OneLateCallEach
  CountersMatchLog
\* Every behaviour ends: ids, records and calls are bounded.
CHECK_DEADLOCK FALSE
