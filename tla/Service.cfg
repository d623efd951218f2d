SPECIFICATION Spec
CONSTANTS
  None = None
  V6 = V6
  VlanNames <- mcVlanNames
  RoceNames = {"gpu0", "gpu1"}
  IbNames = {"ib0"}
  UnderlayCount = 1
  Addrs <- mcAddrs
  Slugs <- mcSlugs
  VlanTitles <- mcVlanTitles
  Requests = {r1, r2, r3}
  Kinds = {"user-data", "healthz", "readyz"}
  BrokenTemplates <- mcBroken
  InitialHosts <- mcOneHost
  NewIfaces <- mcOneEdit
  NewIps <- mcNone
  NewSlugs <- mcNone
  MaxEdits = 1
  MaxRestarts = 1
INVARIANT CountersExact
CHECK_DEADLOCK FALSE
