SPECIFICATION Spec
CONSTANTS
  Deployment = {d1}
  MaxVersion = 2
  MaxPushes = 0
  MaxStarts = 1
  NoDeployment = NoDeployment
  NoFile = NoFile
  Empty = Empty
  Torn = Torn
INVARIANTS ConfigIsWhole
CHECK_DEADLOCK FALSE
