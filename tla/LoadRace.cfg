SPECIFICATION Spec
CONSTANTS
  None = None
  V6 = V6
  VlanNames <- mcVlanNames
  RoceNames = {"gpu0", "gpu1", "gpu2"}
  IbNames = {"ib0", "ib1", "ib2"}
  NameRank <- srvNameRank
  UnderlayCount = 2
  Addrs <- srvAddrs
  Slugs <- mcSlugs
  VlanTitles <- mcVlanTitles
  Requests = {r1}
  Kinds = {"user-data", "meta-data"}
  BrokenTemplates <- mcBroken
  InitialHosts <- srvInitialHosts
  NewIfaces <- srvNewIfaces
  NewIps <- srvNewIps
  NewSlugs <- srvNewSlugs
  MaxEdits = 2
  MaxRestarts = 0
INVARIANTS
  TypeOK
  RenderedIsBootable
  RenderDeterministic
  ServedHostValidates
PROPERTY QuietLoadExact
CHECK_DEADLOCK FALSE
