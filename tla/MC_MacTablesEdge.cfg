CONSTANTS
  MacDigits = 6
  HostChoices = {1, 2}
  AggChoices = {1, 2, 3}
  SpineChoices = {1, 2}
  BaseChoices <- MC_EdgeBases
  BaseIface = 100

SPECIFICATION Spec

INVARIANT AllTablesWritten
