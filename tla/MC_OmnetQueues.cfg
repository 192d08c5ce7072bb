CONSTANTS
  NumAggr = 1
  NumTor = 2
  HostsPerTor = 2
  Ifaces <- MC_Ifaces
  Periods = 2
  QLens = {0, 1}

SPECIFICATION Spec

INVARIANT LinksAreInterfaces
INVARIANT AssertsAcceptTopology
INVARIANT QtsFilePerInterface
