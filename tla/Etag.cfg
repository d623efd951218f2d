SPECIFICATION Spec
CONSTANTS
  None = None
  V6 = V6
  VlanNames <- mcVlanNames
  RoceNames = {"gpu0", "gpu1"}
  IbNames = {"ib0"}
  UnderlayCount = 1
  Addrs <- mcAddrs
  Slugs <- mcSlugs
  VlanTitles <- mcVlanTitles
  Requests = {r1, r2}
  Kinds = {"user-data"}
  BrokenTemplates <- mcBroken
  InitialHosts <- mcOneHost
  NewIfaces <- mcNewMtu
  NewIps <- mcNone
  NewSlugs <- mcNone
  MaxEdits = 1
  MaxRestarts = 0
INVARIANT EtagIdentifiesBody
CHECK_DEADLOCK FALSE
