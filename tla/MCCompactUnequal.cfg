CONSTANTS
  Special = 18
  Align = 2
  HeaderSize = 2
  HOff = {2}
  TupleLen = {3, 6}
  NItems = 3
  MaxLines = 3
  Fraction = 2
  Kinds = {"table"}
SPECIFICATION Spec
INVARIANTS TuplesReadable
CHECK_DEADLOCK FALSE
