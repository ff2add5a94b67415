CONSTANTS
  Sessions = {s1, s2}
  Manifests <- MCManifests
  Records <- MCRecords
  Bound <- LocalBound
  Analyses <- MCAnalyses
  MaxCalls = 2
  Fleet = 1
  Duration = 3
  Schedule <- MCSchedule
  Batches <- MCBatches
  MaxBatches = 2
SYMMETRY Symmetry
SPECIFICATION ProcessSpec
INVARIANTS
  ProcessTypeOK
  AuditAccounts
  SilentAfterwards
  PositionsBlurred
  CoversRust
  LikeWithLike
  ReportMatchesRun
\* The rows of the log and the calls of the analyser are bounded.
CHECK_DEADLOCK FALSE
