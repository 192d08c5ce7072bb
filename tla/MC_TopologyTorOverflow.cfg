CONSTANTS
  NumHosts = 3
  TopoNumTors = 2
  TorChoices = {0, 1, 2}
  Placements = {"manual", "random"}
  AttrOrders <- MC_TorFirst
  Unbound = NoTor
  NoTor = NoTor
  NumTor = 2
  HostsPerTor = 2
  AnyServer = AnyServerPrefix
  AnyServerPrefix = AnyServerPrefix

SPECIFICATION Spec

INVARIANT ActiveClientsPlaced
