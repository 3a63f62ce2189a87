SPECIFICATION Spec
CONSTANTS
  Senders = {s1, s2}
  Receivers = {r1, r2}
  Closer = closer
  NoThread = none
  Levels = 2
  Reverse = FALSE
  MaxSends = 1
  Timeouts = TRUE
SYMMETRY Symmetry
INVARIANTS CountersAccount NoLostWakeup PriorityRespected SendAfterCloseFails ClosedParksNobody
CHECK_DEADLOCK FALSE
