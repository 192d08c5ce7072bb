CONSTANTS
  Links <- MC_Links
  QLens = {0, 1}
  Periods = 3
  FlowSizes = {1, 2}
  Slowdowns = {1, 2}
  MaxFlows = 2
  RatioChoices <- MC_Ratios
  IncastSize = 2
  IncastSizeW5 = 1
  SizeGroups <- MC_SizeGroups
  MinGroupMsgs = 1
  Skipped = Skipped

SPECIFICATION ResultsSpec

INVARIANT SeriesAreLinks
INVARIANT AppCountsTrace
INVARIANT GroupStatsFaithful
INVARIANT GoodputDivisorPositive
