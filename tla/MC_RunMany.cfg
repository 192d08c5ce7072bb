CONSTANTS
  j1 = j1
  j2 = j2
  j3 = j3
  NoDecl = NoDecl
  NoCode = NoCode
  sh_files <- MC_sh_files
  LogName <- MC_LogName
  total_threads = 4
  ReqChoices = {1, 2, 3, 4, 5}
  ExitCodes = {0, 1}
  LaunchCanFail = TRUE

SPECIFICATION Spec

INVARIANT TypeOK
INVARIANT CapacityNeverExceeded
INVARIANT NoJobLostOrDuplicated
INVARIANT FirstFitMaximal
INVARIANT ReportFaithful

PROPERTY Terminates
PROPERTY ImplementsJobBatch
