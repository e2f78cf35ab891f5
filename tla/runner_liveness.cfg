SPECIFICATION FairSpec
CONSTANTS
  a = a
  b = b
  Instance = {a, b}
  Handler = {h1}
  Requests <- TwoBatches
  MaxTargets = 2
  MaxCrashes = 1
PROPERTIES RunnerReturns DeploymentSettles
CHECK_DEADLOCK FALSE
