CONSTANTS
  Depth = 1
  a1 = a1
  a2 = a2
  Ego = hero
  CamInterval = 2
  RotationInterval = 2
  TotalSteps = 5
  Vehicles = {a1, a2}
  Traffic = {a1, a2}
  Period = 2
  Samples <- SumoSamples
  Bound <- SumoBound
  RosBound <- MCRosBound
SPECIFICATION ProcessSpec
INVARIANTS
  ProcessTypeOK
  KnownHaveSessions
  StayRecorded
  QueueServed
  FollowedBriefly
  LeavesClean
PROPERTIES
  ReturnLeavesNothing
  StopsPromptly
\* The runs of all three programs are bounded, so their behaviours end.
CHECK_DEADLOCK FALSE
