SPECIFICATION Spec
CONSTANTS
  NULL = NULL
  Ui = ui
  Adc = {a1, a2}
  Thread = {ui, a1, a2}
  ADC = adc
  MutexId = {adc}
  MaxMutex = 2
  MaxOwners = 2
INVARIANTS
  ExclusiveUntilRaced
  NobodyForgotten
  BuffersLive
PROPERTY
  ExitAnswered
