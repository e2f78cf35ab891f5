SPECIFICATION Spec
CONSTANTS
  Config = {c1}
  Request = {r1, r2, r3}
  Content = {x, y}
  NoContent = NoContent
  MaxVersion = 3
  MaxDeployments = 1
SYMMETRY Interchangeable
INVARIANTS TypeOK CurrentIsLatest AcknowledgedIsCurrent RollbackRestores VersionsAreThere
PROPERTIES DeletedStaysDeleted ImplementsHistory
CHECK_DEADLOCK FALSE
