CONSTANTS
  Loops = {"server", "network", "client"}
  FixedTimestep = 600
  TickPeriod = 3600
  MaxElapsed = 72000
  MaxSleep = 36000
  Window = 3
  LightWork = {200}
  Frames = {250, 600, 1200}
  HeavyWork = {900, 8000}
  MaxHeavy = 2
  MaxBacklog = 16000
SPECIFICATION FairSpec
INVARIANTS
  TypeOK
PROPERTIES
  MakesUp
  GainsGround
  KeepsStepping
CHECK_DEADLOCK FALSE
