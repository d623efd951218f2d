SPECIFICATION Spec
CONSTANTS
  None = None
  V6 = V6
  VlanNames <- mcVlanNames
  RoceNames = {"gpu0", "gpu1"}
  IbNames = {"ib0"}
  UnderlayCount = 1
  Addrs <- mcAddrs
  Slugs <- mcSlugs
  VlanTitles <- mcVlanTitles
  Requests = {r1, r2}
  Kinds = {"user-data", "healthz", "readyz"}
  BrokenTemplates <- mcBroken
  InitialHosts <- mcOneHost
  NewIfaces <- mcNone
  NewIps <- mcNone
  NewSlugs <- mcNone
  MaxEdits = 0
  MaxRestarts = 0
PROPERTY LivenessIndependentOfNetbox
CHECK_DEADLOCK FALSE
