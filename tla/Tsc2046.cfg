SPECIFICATION Spec
CONSTANTS
  TSC_CD_TIMEOUT = 2
  TSC_HOLD_TIMEOUT = 3
  Word = 7
INVARIANTS
  TypeOK
  PressSeen
PROPERTIES
  KeepsPromise
  DoubleClick
