SPECIFICATION Spec
CONSTANTS
  r1 = r1
  r2 = r2
  r3 = r3
  Reqs = {r1, r2, r3}
  PoolSize = 2
  MaxNodes = 3
  Scenes <- PoolScenes
INVARIANTS StaleNeverKills PooledIsFree HeldIsListed NumAccounts
SYMMETRY Symmetry
CHECK_DEADLOCK FALSE
