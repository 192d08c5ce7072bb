CONSTANTS
  NumHosts = 3
  TopoNumTors = 2
  TorChoices = {0, 1, 2}
  Placements = {"manual", "random"}
  AttrOrders <- MC_AnyOrder
  Unbound = NoTor
  NoTor = NoTor
  NumTor = 2
  HostsPerTor = 3
  AnyServer = AnyServerPrefix
  AnyServerPrefix = AnyServerPrefix

SPECIFICATION Spec

INVARIANT RolesFiledUnderOwnTor
