CONSTANTS
  MaxTxns = 2
  BaseRows = {1}
  Writes = {"update"}
  MaxPos = 2
  MaxRow = 1
  MaxScans = 1
  MaxCompactions = 1
SPECIFICATION Spec
INVARIANT OneVersionPerRow
CHECK_DEADLOCK FALSE
