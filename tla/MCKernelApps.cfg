SPECIFICATION Spec
CONSTANTS
  NULL = NULL
  Thread = {idle, t1, t2, t3}
  Idle = idle
  MutexId = {m1}
  Event = {e1}
  NPrio = 2
  MaxMutex = 1
  MaxOwners = 2
  MaxTable = 3
  Api = {"yield", "create", "call", "exit", "lock"}
SYMMETRY Symmetry
INVARIANT
  KernelInv
