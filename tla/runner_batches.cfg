SPECIFICATION Spec
CONSTANTS
  a = a
  b = b
  Instance = {a, b}
  Handler = {h1}
  Requests <- ThreeTargets
  MaxTargets = 3
  MaxCrashes = 0
INVARIANTS BatchOrder RollbackIsContained
PROPERTIES ImplementsRollout GoroutineAdvances
CHECK_DEADLOCK FALSE
