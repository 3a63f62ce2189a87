SPECIFICATION LiveSpec
CONSTANTS
  Reqs = {a, b, c}
  NoReq = none
  MaxStreams = 1
  FirstAlone = TRUE
  Kinds = {"plain"}
  Troubles = {{}}
INVARIANTS OpenedInOrder StreamsBounded
PROPERTIES HeadersAreSent
CHECK_DEADLOCK FALSE
