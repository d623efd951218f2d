SPECIFICATION PopulateSpec
CONSTANTS
  None = None
  V6 = V6
  VlanNames <- mcVlanNames
  RoceNames = {"gpu0"}
  IbNames = {}
  UnderlayCount = 1
  Addrs <- mcAddrs
  Slugs <- mcSlugs
  VlanTitles <- mcVlanTitles
  Requests = {r1}
  Kinds = {"network-config"}
  BrokenTemplates <- mcNone
  InitialHosts <- mcEmptyHosts
  NewIfaces <- mcNone
  NewIps <- mcNone
  NewSlugs <- mcNone
  MaxEdits = 0
  MaxRestarts = 0
  Fixture <- mcFixture
  interfaces <- mcInterfaces
  InitialForeign <- mcForeign
  MaxCrashes = 2
INVARIANTS
  PopulateTypeOK
  NoPartialIntent
  PopulateCompletes
PROPERTY PopulateConverges
