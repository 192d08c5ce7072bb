CONSTANTS
  b1 = b1
  b2 = b2
  s1 = s1
  s2 = s2
  Empty = Empty
  Stop = Stop
  Initial <- MC_Initial
  Spawns <- MC_Spawns
  HW = 2
  GetTimeout = 15
  Tries = 3
  MaxBatchSecs = 16
  MoverPrompt = FALSE

SPECIFICATION Spec

INVARIANT AllTasksRun
