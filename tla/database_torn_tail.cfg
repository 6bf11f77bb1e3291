CONSTANTS
  MaxTxns = 6
  BaseRows = {}
  Writes = {"insert"}
  MaxPos = 3
  MaxRow = 2
  MaxScans = 0
  MaxCompactions = 0
  Durability = "kSyncEveryCommit"
  MaxLog = 6
  NumWorkers = 1
  MaxCheckpoints = 0
  ClientTxns = 2
  ClientLives = 2
  MaxCrashes = 1
  Crashes = {"kill"}
  Aborts = FALSE
SPECIFICATION DbSpec
INVARIANT AckedCommitsSurvive
CHECK_DEADLOCK FALSE
