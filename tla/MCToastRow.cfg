CONSTANTS
  Attr = {1, 2}
  Text <- MCText
  Compressible <- MCCompressible
  MaxDataLen = 3
  MaxStmt = 3
SPECIFICATION RowSpec
CHECK_DEADLOCK FALSE
INVARIANTS RowsExact
