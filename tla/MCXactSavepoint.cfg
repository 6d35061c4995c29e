CONSTANTS
  Path = {p1, p2}
  MaxNest = 2
  UnlinkMayFail = FALSE
  TwoPhase = FALSE
SPECIFICATION Spec
INVARIANTS CommittedFilesKept
