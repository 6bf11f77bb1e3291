CONSTANTS
  MaxTxns = 6
  BaseRows = {}
  Writes = {"insert", "update", "delete"}
  MaxPos = 4
  MaxRow = 2
  MaxScans = 0
  MaxCompactions = 1
  Durability = "kSyncEveryCommit"
  MaxLog = 7
  NumWorkers = 1
  MaxCheckpoints = 1
  ClientTxns = 2
  ClientLives = 2
  MaxCrashes = 1
  Crashes = {"kill"}
  Aborts = FALSE
SPECIFICATION DbSpec
INVARIANTS RecoveryRestores CheckpointCapturesLog  LsnsIncrease LsnInv
CHECK_DEADLOCK FALSE
