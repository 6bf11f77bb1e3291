CONSTANTS
  MaxTxns = 6
  BaseRows = {}
  Writes = {"insert", "update", "delete"}
  MaxPos = 3
  MaxRow = 1
  MaxScans = 0
  MaxCompactions = 1
  Durability = "kSyncEveryCommit"
  MaxLog = 8
  NumWorkers = 1
  MaxCheckpoints = 1
  ClientTxns = 2
  ClientLives = 1
  MaxCrashes = 1
  Crashes = {"kill"}
  Aborts = TRUE
SPECIFICATION DbSpec
INVARIANT CheckpointCapturesLog
CHECK_DEADLOCK FALSE
