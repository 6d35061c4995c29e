CONSTANTS
  Backend = {b1, b2}
  Providers = {"vault"}
  Cap = 4
  MaxVersion = 0
  MaxData = 2
  MaxForks = 2
  MayFail = {FALSE}
SPECIFICATION Spec
PROPERTIES ForkKeyKept
