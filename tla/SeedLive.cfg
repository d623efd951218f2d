SPECIFICATION Spec
CONSTANTS
  None = None
  Requests = {r1, r2}
  MaxVersion = 2
  MaxTime = 4
  LastArrival = 3
  TTL = 1
  FetchMax = 1
  LockTimeout = 1
  LockAge = 1
PROPERTIES
  UpdatingReleased
  ImplementsSeedServer
CHECK_DEADLOCK FALSE
