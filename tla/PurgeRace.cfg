SPECIFICATION Spec
CONSTANTS
  None = None
  Requests = {r1, r2, r3}
  MaxVersion = 2
  MaxTime = 4
  LastArrival = 2
  TTL = 1
  FetchMax = 1
  LockTimeout = 1
  LockAge = 1
PROPERTY PurgeSticks
CHECK_DEADLOCK FALSE
