SPECIFICATION IdleSpec
CONSTANTS
  TPS = 4
  SECS = 12
  MINS = 2
  HOURS = 2
  DAYS = 2
  Starts <- AnyTick
PROPERTY SleepReturns
