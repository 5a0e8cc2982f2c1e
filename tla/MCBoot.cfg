SPECIFICATION BootSpec
CONSTANTS
  TPS = 5
  SECS = 4
  MINS = 1
  HOURS = 1
  DAYS = 2
  Starts <- SomeTicks
  Vectors <- SomeVectors
  Numbers <- SomeNumbers
  Hosts = 2
  Slots = 2
  Physical = 2
  Fields <- FieldSizes
  ModuleSizes <- SomeSizes
  ModuleStarts <- SomeStarts
  WSIZE = 16
INVARIANTS
  CalibrationExact CallsDispatched MemoryApart ModuleLoaded
  NoDanglingDMA UsbReady LateLossOnly
PROPERTY BootEnds
