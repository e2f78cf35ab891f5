SPECIFICATION FairSpec
CONSTANTS
  Instance = {a}
  Token = {t1, t2}
  Stream = {s1, s2}
  Closer = {c1}
  Sender = {x1}
  Capacity = 2
  MaxEvents = 3
  MaxRestarts = 1
  NoInstance = NoInstance
  NoStream = NoStream
INVARIANTS TypeOK MapMatchesLoops
PROPERTIES ImplementsStreams AcceptedArrives ReplacedStreamsEnd
CHECK_DEADLOCK FALSE
