\* Two callers and two sessions, one session ended twice or both once.
CONSTANTS
  None = None
  t1 = t1
  t2 = t2
  s1 = s1
  s2 = s2
  r1 = r1
  r2 = r2
  r3 = r3
  insurer = insurer
  broker = broker
  Threads = {t1, t2}
  Sessions = {s1, s2}
  Records = {r3}
  Stakeholders = {insurer, broker}
  Endpoints <- MCEndpoints
  DataTypes <- MCDataTypes
  TypeOf <- MCTypeOf
  Manifests <- MCManifests
  Budget <- TwoEnds
SPECIFICATION Spec
INVARIANTS
  TypeOK
  SealInv
  OneTrueCertificate
PROPERTIES
  SealedSessionSpec
\* Every behaviour ends: ids, records and calls are bounded.
CHECK_DEADLOCK FALSE
