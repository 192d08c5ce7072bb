CONSTANTS
  Hosts <- MC_Hosts
  Vars <- MC_Vars
  GlobalVars = {"global_budget_bytes"}
  Schemes = {"micro-hybrid", "other-hybrid", "noop"}
  HybridSchemes = {"micro-hybrid", "other-hybrid"}
  Times = {1, 3}
  Values = {0, 1}
  SimStartParam = 1
  SimDurParam = 1
  MaxRows = 2

SPECIFICATION Spec

INVARIANT CcSeriesFaithful
