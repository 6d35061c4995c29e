CONSTANTS
  Reader = {r1}
  Key = {k1, k2}
  Lag = 1
  Loaded = {{2}}
  MaxXid = 3
  MaxOff = 3
  Space = 2
  MinFree = 1
  MaxTuples = 2
SPECIFICATION Spec
SYMMETRY Symmetry
CHECK_DEADLOCK FALSE
INVARIANTS CollectedStayDead PruneLeavesNoDead LookupStable ScansExact AllVisibleTrue
