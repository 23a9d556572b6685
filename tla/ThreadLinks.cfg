SPECIFICATION LinksSpec
CONSTANTS
  Thread = {t1, t2, t3}
  Lists = {"ready", "drop"}
  NULL = NULL
INVARIANT
  BothWays
PROPERTY
  ImplementsQueues
CHECK_DEADLOCK FALSE
