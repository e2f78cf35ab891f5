SPECIFICATION Spec
CONSTANTS
  Config = {c1, c2}
  Start = {c1}
  Growing = {c1}
  NoConfig = NoConfig
  Deployment = {d1}
  Call = Call
  Other = Other
  Reported = {"online"}
  Edited = {"draining"}
  MaxVersion = 2
  MaxEdits = 1
  MaxFaults = 1
INVARIANT RolledBackStaysOff
CHECK_DEADLOCK FALSE
