CONSTANTS
  Backend = {b1, b2}
  Providers = {"file", "vault", "unknown"}
  Cap = 4
  MaxVersion = 1
  MaxData = 2
  MaxForks = 2
  MayFail = {TRUE, FALSE}
SPECIFICATION Spec
INVARIANTS ForksRecoverable DecryptsWithForksKey CacheMatchesStore
PROPERTIES CallsEnd
