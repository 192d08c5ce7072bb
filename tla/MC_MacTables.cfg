CONSTANTS
  MacDigits = 6
  HostChoices = {0, 1, 2, 3}
  AggChoices = {1, 2, 3}
  SpineChoices = {1, 2}
  BaseChoices <- MC_Bases
  BaseIface = 100

SPECIFICATION Spec

INVARIANT TypeOK
INVARIANT MacTablesConsistent
