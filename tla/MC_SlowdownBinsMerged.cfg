CONSTANTS
  SizeChoices = {1, 2, 3}
  SlowdownChoices = {1, 2}
  MaxRows = 4
  RowsPerBin = 1
  MaxBinCount = 3

SPECIFICATION Spec

INVARIANT EverySampleReported
