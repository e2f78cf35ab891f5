SPECIFICATION Spec
CONSTANTS
  Instance = {a}
  Token = {t1}
  Stream = {s1, s2, s3}
  Closer = {c1}
  Sender = {x1}
  Capacity = 1
  MaxEvents = 2
  MaxRestarts = 1
  NoInstance = NoInstance
  NoStream = NoStream
SYMMETRY Interchangeable
INVARIANTS SendsReturnErrors
CHECK_DEADLOCK FALSE
