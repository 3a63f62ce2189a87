SPECIFICATION LiveSpec
CONSTANTS
  Clients = {a, b}
  MaxPosts = 2
  MaxCalls = 3
  Priorities = 2
  Capacity = 2
  Timeouts = TRUE
  NoCall = nocall
INVARIANTS PermitsAccount HighestFirst InOrder NothingAbandoned
PROPERTIES PostedIsExecuted GetReturns
CHECK_DEADLOCK FALSE
