SPECIFICATION Spec
CONSTANTS
  MaxSize = 32
  MaxBatchSize = 12
  Strategies = {"all_at_once", "rolling", "canary", "blue_green"}
INVARIANTS BatchesPartition
CHECK_DEADLOCK FALSE
