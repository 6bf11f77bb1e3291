CONSTANTS
  MaxTxns = 3
  BaseRows = {1}
  Writes = {"insert", "delete"}
  MaxPos = 3
  MaxRow = 2
  MaxScans = 1
  MaxCompactions = 2
SPECIFICATION Spec
PROPERTY ImplementsSI
CHECK_DEADLOCK FALSE
