SPECIFICATION StreamSpec
CONSTANTS
  BufferSize = 3
  SizeLimit = 12
  CompactThreshold = 0
  Scenarios <- AllScenarios
INVARIANT NeverMisused
CHECK_DEADLOCK FALSE
PROPERTIES StreamIsTwoPipes ClosedReleasesAll ReadDelivers
