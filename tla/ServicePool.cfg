SPECIFICATION LiveSpec
CONSTANTS
  Conns = {c1, c2, c3}
  Workers = {w1, w2}
  None = none
  Capacity = 2
  QueueCapacity = 1
  Preheat = {w1}
  IdleFloor = 1
  IdleTimeouts = TRUE
  Closes = TRUE
  Graceful = TRUE
INVARIANTS GateCounts OneHolder
PROPERTIES ServedUnlessDeserted CloseReturns
CHECK_DEADLOCK FALSE
