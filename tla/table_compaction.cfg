CONSTANTS
  MaxTxns = 3
  BaseRows = {}
  Writes = {"insert", "update", "delete"}
  MaxPos = 5
  MaxRow = 1
  MaxScans = 1
  MaxCompactions = 1
SPECIFICATION Spec
INVARIANTS ScanReturnsSnapshot ClaimIsExact FirstClaimerWins TableInv SnapshotsTracked WatermarkSafe SnapshotIsBeginOrder SnapshotInv
PROPERTIES ImplementsSI WatermarkMonotone SnapshotFixed
CHECK_DEADLOCK FALSE
