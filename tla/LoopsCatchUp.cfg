CONSTANTS
  Loops = {"server"}
  FixedTimestep = 600
  TickPeriod = 3600
  MaxElapsed = 72000
  MaxSleep = 36000
  Window = 3
  LightWork = {200}
  Frames = {420}
  HeavyWork = {12000}
  MaxHeavy = 3
  MaxBacklog = 12000
SPECIFICATION FairSpec
PROPERTIES
  CatchesUp
CHECK_DEADLOCK FALSE
