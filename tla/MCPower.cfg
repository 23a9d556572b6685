SPECIFICATION Spec
CONSTANTS
  Limits = {3, 4}
  Period = 1
INVARIANT
  DarkOnlyAsleep
PROPERTY
  WholeGestures
CONSTRAINT
  NotRaised
