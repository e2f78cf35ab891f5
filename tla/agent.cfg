SPECIFICATION FairSpec
CONSTANTS
  Deployment = {d1}
  MaxVersion = 2
  MaxPushes = 1
  MaxStarts = 2
  NoDeployment = NoDeployment
  NoFile = NoFile
  Empty = Empty
  Torn = Torn
INVARIANTS TypeOK WorkIsOnRecord InterruptedMeansUnfinished ClaimIsFile WholeUnlessOverlapped
PROPERTIES LoopEndsWithStream
CHECK_DEADLOCK FALSE
