SPECIFICATION Spec
CONSTANTS
  MaxReqs = 3
  Limit = 1
  Wide = 64
  Troubles = {{"rst"}}
INVARIANTS LimitKept
CHECK_DEADLOCK FALSE
