CONSTANTS
  Path = {p1, p2}
  MaxNest = 3
  UnlinkMayFail = FALSE
  TwoPhase = TRUE
  Loads <- MCLoads
  SKIP_PAGES_THRESHOLD = 1
  MaxXid = 4
SPECIFICATION MCSpec
INVARIANTS UncommittedFilesScheduled RelfrozenxidTrue VacuumAdvances
PROPERTIES UnlinkOnlyAtDroppersCommit FreezeKeepsRows
CHECK_DEADLOCK FALSE
