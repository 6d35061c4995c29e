CONSTANTS
  MaxXid = 3
  MaxTid = 3
  Loaded = {{1}}
  PageCap = 2
  FlushAt = 2
  MaxOps = 4
  MaxFaultOps = 1
  MaxCkpt = 1
  MaxCrash = 2
SPECIFICATION Spec
CHECK_DEADLOCK FALSE
INVARIANTS RowsKept ChainsKept MovesRecorded
