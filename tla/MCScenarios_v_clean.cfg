CONSTANTS
  Ego = ego
  gnss = gnss
  collision = collision
  Sensors = {gnss, collision}
  SensorOrder <- MCOrder
  Collision = collision
  Vehicles = {car}
  Walkers = {w}
  MaxSize = 2
  GatewayInterval = 2
  TotalSteps = 3
  MaxReadings <- MCReadings
  WindowBefore = 2
  WindowAfter = 2
  DemoSteps = 5
  MaxHits = 2
  DemoReadings = 2
SPECIFICATION ProcessSpec
INVARIANT AllActorsDestroyed
CHECK_DEADLOCK FALSE
