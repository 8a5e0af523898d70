SPECIFICATION Spec
CONSTANTS
  None = None
  Symbols = {"SOXX", "MU", "SKHY", "NVDA", "AMD", "AVGO"}
  Missing <- MissingTried
  Moves <- MovesTried
  Matrices <- MatricesTried
  Indicative = TRUE
  CacheAge = 1
  QuoteAge = 2
  OldAge = 0
  SessionLength = 3
  LastMinute = 3
  MaxBatches = 3
  MaxFaults = 1
  MaxOverlaps = 1
INVARIANTS
  TypeOK
  InputLifetime
  CachedRowsAreTraceable
  CalculationAgrees
CHECK_DEADLOCK FALSE
