SPECIFICATION Spec
CONSTANTS
  r1 = r1
  r2 = r2
  r3 = r3
  Reqs = {r1, r2}
  PoolSize = 1
  MaxNodes = 2
  Scenes <- LeakScenes
INVARIANTS FinishedLetsGo
CHECK_DEADLOCK FALSE
