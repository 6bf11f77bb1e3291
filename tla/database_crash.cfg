CONSTANTS
  MaxTxns = 5
  BaseRows = {}
  Writes = {"insert", "update", "delete"}
  MaxPos = 3
  MaxRow = 2
  MaxScans = 0
  MaxCompactions = 0
  Durability = "kSyncEveryCommit"
  MaxLog = 6
  NumWorkers = 2
  MaxCheckpoints = 0
  ClientTxns = 2
  ClientLives = 1
  MaxCrashes = 2
  Crashes = {"kill", "power"}
  Aborts = TRUE
SPECIFICATION DbSpec
INVARIANTS DbTypeOK RecoveryRestores AckedCommitsSurvive ReplayNeverRefused RowIdsFresh AckInv
CHECK_DEADLOCK FALSE
