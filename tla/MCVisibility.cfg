CONSTANTS
  Backend = {b1, b2}
  MaxXid = 4
  MaxCid = 1
  MaxWal = 5
  MaxCrashes = 1
  Workloads <- MCWorkloads
SPECIFICATION Spec
SYMMETRY Symmetry
VIEW View
CHECK_DEADLOCK FALSE
INVARIANTS
  OneDeleter
  LocksExclude
  MVCCExact
  DirtyConclusive
  NeverInvisible
  HintBitsTrue
  DeadIsInvisible
