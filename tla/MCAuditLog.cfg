\* Two threads, two sessions, two payloads, one failing read, one altered row.
CONSTANTS
  t1 = t1
  t2 = t2
  s1 = s1
  s2 = s2
  p1 = p1
  p2 = p2
  Threads = {t1, t2}
  Sessions = {s1, s2}
  EventTypes = {"DataGenerated"}
  Payloads = {p1, p2}
  Bound <- MCBound
SPECIFICATION Spec
SYMMETRY Symmetry
INVARIANTS
  TypeOK
  VerifyExact
  VerdictExact
  SummaryCovered
