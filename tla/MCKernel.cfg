SPECIFICATION Spec
CONSTANTS
  NULL = NULL
  Thread = {idle, t1, t2}
  Idle = idle
  MutexId = {m1}
  Event = {e1}
  NPrio = 2
  MaxMutex = 1
  MaxOwners = 1
  MaxTable = 2
  Api = {"yield", "sleep", "create", "call", "exit", "lock", "notify", "sync", "wait", "event", "critical", "fault", "reset"}
SYMMETRY Symmetry
INVARIANTS
  TypeOK
  OneList
  RunningIsReady
  ReadyCount
  ReadyIsRunnable
  LinkedIsLive
  CallersSuspended
  WaitersBlocked
PROPERTIES
  RoundsComplete
  CallReturns
