CONSTANTS
  NULL = NULL
  MantissaBits = 2
  ByteBits = 2
  Values = {NULL, 5, 6}
  Thresholds = {3, 5}
  MaxSegments = 2
  MaxRows = 4
  MaxQueryRows = 6
  Lanes = 2
  BatchSize = 3
SPECIFICATION QuerySpec
INVARIANTS EngineIsExact PruningMatchesEvaluate
PROPERTY QueryReturns
CHECK_DEADLOCK FALSE
