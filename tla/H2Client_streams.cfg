SPECIFICATION Spec
CONSTANTS
  Reqs = {a, b}
  NoReq = none
  MaxStreams = 1
  FirstAlone = TRUE
  Kinds = {"trailers"}
  Troubles = {{"fail"}, {"reset"}, {"peer"}}
SYMMETRY Symmetry
INVARIANTS FramesInOrder EndedIsPurged ShutdownReleases
CHECK_DEADLOCK FALSE
