SPECIFICATION Spec
CONSTANTS
  Reqs = {a, b}
  NoReq = none
  MaxStreams = 2
  FirstAlone = TRUE
  Kinds = {"plain"}
  Troubles = {{"fail"}}
INVARIANTS AwaitedComes
CHECK_DEADLOCK FALSE
