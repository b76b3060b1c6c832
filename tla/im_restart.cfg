CONSTANTS
  Job = {1}
  UserOf <- OneUser
  Dispatcher = {d1}
  JobRequest = {q1}
  Selections = {1, 2}
  LeaseCheckEvery = 1
  GlobalCap = 1
  UserCap = 1
  RunBound = 2
  RequestBound = 2
  Faults = {}
  FaultBound = 1
SPECIFICATION FairImportSpec
CHECK_DEADLOCK FALSE
PROPERTY EveryImportEnds
