SPECIFICATION LiveSpec
CONSTANTS
  NULL = NULL
  render = render
  main = main
  Thread = {idle, render, main, app}
  Idle = idle
  Boot <- MCBoot
  BootPrio <- MCBootPrio
  MutexId = {m1}
  Event = {e1}
  NPrio = 3
  MaxMutex = 1
  MaxOwners = 2
  MaxTable = 4
  Api = {"yield", "call", "exit", "lock"}
PROPERTY
  NoStarvation
