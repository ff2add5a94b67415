\* Two callback threads, two sensors; bounds of each plan in MCPlanOf.
CONSTANTS
  None = None
  c1 = c1
  c2 = c2
  gnss = gnss
  imu = imu
  Sensors = {gnss, imu}
  Threads = {c1, c2}
  SensorOrder <- MCOrder
  Gnss = gnss
  PreSeconds = 1
  PostSeconds = 1
  RotationInterval = 1
  Bound <- CarlaBound
  PlanOf <- MCPlanOf
SPECIFICATION PlanSpec
SYMMETRY ThreadSymmetry
INVARIANTS
  TypeOK
  CaptureSound
  EachSampleReported
\* Every behaviour ends: samples, collisions and time are bounded.
CHECK_DEADLOCK FALSE
