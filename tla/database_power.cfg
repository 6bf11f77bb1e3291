CONSTANTS
  MaxTxns = 6
  BaseRows = {}
  Writes = {"insert", "delete"}
  MaxPos = 3
  MaxRow = 2
  MaxScans = 0
  MaxCompactions = 1
  Durability = "kSyncEveryRecord"
  MaxLog = 6
  NumWorkers = 1
  MaxCheckpoints = 1
  ClientTxns = 2
  ClientLives = 2
  MaxCrashes = 2
  Crashes = {"kill", "power"}
  Aborts = TRUE
SPECIFICATION DbSpec
INVARIANT DbInv
PROPERTY RecoveryEnds
CHECK_DEADLOCK FALSE
