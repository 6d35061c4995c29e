CONSTANTS
  Backend = {b1, b2}
  RelNumber = {r1, r2}
  Tablespace = {t1, t2}
  MaxKey = 2
  MaxCrashes = 2
  Env <- Kept
SPECIFICATION Spec
SYMMETRY Symmetry
INVARIANTS RowsReadableUnlessExposed LoggedKeysRecovered
PROPERTIES ImplementsRelationKeys
CHECK_DEADLOCK FALSE
