CONSTANTS
  DirKinds = {"dcpim", "omnet", "ns2"}
  Links <- MC_Links
  QLens = {0, 1}
  Periods = 3
  FlowSizes = {1, 2}
  Slowdowns = {1, 2}
  MaxFlows = 2
  RatioChoices <- MC_Ratios
  IncastSize = 2
  IncastSizeW5 = 1
  SizeGroups <- MC_SizeGroups
  MinGroupMsgs = 1
  Skipped = Skipped
  NumAggr = 1
  NumTor = 2
  HostsPerTor = 2
  Ifaces <- MC_Ifaces
  OPeriods = 2
  SizeChoices = {1, 2, 3}
  SlowdownChoices = {1, 2}
  MaxRows = 3
  RowsPerBin = 1
  MaxBinCount = 2
  CcHosts <- MC_CcHosts
  CcVars <- MC_CcVars
  CcGlobalVars = {"global_budget_bytes"}
  CcSchemes = {"micro-hybrid", "other-hybrid", "noop"}
  CcHybridSchemes = {"micro-hybrid", "other-hybrid"}
  CcTimes = {1, 3}
  CcValues = {0}
  CcSimStart = 1
  CcSimDur = 1
  CcMaxRows = 2

SPECIFICATION DirSpec

INVARIANT QueueSumsCoverLinks
