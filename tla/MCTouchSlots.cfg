SPECIFICATION Spec
CONSTANTS
  Slots <- MCSlots
  Calls <- MCCalls
  MaxEvents = 4
  MaxDepth = 4
INVARIANTS
  TypeOK
  Fresh
  Whole
  NotDeaf
CHECK_DEADLOCK FALSE
