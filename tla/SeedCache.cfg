SPECIFICATION Spec
CONSTANTS
  None = None
  Requests = {r1, r2, r3}
  MaxVersion = 2
  MaxTime = 4
  LastArrival = 4
  TTL = 1
  FetchMax = 2
  LockTimeout = 1
  LockAge = 1
SYMMETRY symmetry
CONSTRAINT SomeoneWaits
INVARIANTS
  TypeOK
  OneFillAtATime
  RefreshTakesEffect
PROPERTY FreshAnswers
CHECK_DEADLOCK FALSE
