CONSTANTS
  p1 = p1
  p2 = p2
  Backend = {p1, p2}
  Work <- MCWork
  MaxWork = 1
  MaxBlocks = 4
  MAX_BUFFERS_TO_EXTEND_BY = 2
  Cap = 2
  SaveFree = 0
  HEAPBLOCKS_PER_PAGE = 2
  Tables <- MCTables
SPECIFICATION Spec
CHECK_DEADLOCK FALSE
INVARIANTS NoPanic RowsStay MapTrue
PROPERTIES OperationsEnd
