SPECIFICATION Spec
CONSTANTS
  a = a
  b = b
  Instance = {a, b}
  Handler = {h1}
  Requests <- TwoInstances
  MaxTargets = 2
  MaxCrashes = 1
INVARIANTS TypeOK CompletedIsRecorded NoOrphan RecoveryIsWhole
PROPERTIES FinalStatusStays
CHECK_DEADLOCK FALSE
