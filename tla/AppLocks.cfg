SPECIFICATION LocksSpec
CONSTANTS
  NULL = NULL
  Thread = {"window", "render", "sensor"}
  MutexId = {"FRAME", "FILE", "MEMORY", "SENSOR", "USB"}
  MaxMutex = 12
  MaxOwners = 12
INVARIANTS
  NoDeadlock
  HeldBetween
  NoSmallCore
PROPERTY
  SensorServed
CHECK_DEADLOCK FALSE
