CONSTANTS
  MaxTxns = 2
  BaseRows = {1}
  Writes = {"insert", "update", "delete"}
  MaxPos = 3
  MaxRow = 2
  MaxScans = 0
  MaxCompactions = 3
  DeltaRowThreshold = 2
  Stoppers = {"owner", "other"}
SPECIFICATION CompactorSpec
INVARIANTS TypeOK MetricsAddUp QuietWhenStopped
PROPERTIES StopReturns DeltaDrains
CHECK_DEADLOCK FALSE
