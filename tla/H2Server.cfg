SPECIFICATION Spec
CONSTANTS
  MaxReqs = 2
  Limit = 1
  Wide = 64
  Troubles = {{"rst"}, {"timeout"}}
INVARIANTS CountsBalance ResponseInOrder HandledIsPurged
CHECK_DEADLOCK FALSE
