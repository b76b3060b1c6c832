CONSTANTS
  Upload = {u1}
  Request = {q1, q2}
  Expected = 2
  Crashes = TRUE
  NoFile = NoFile
  Job = {1}
  UserOf <- OneUser
  Dispatcher = {d1}
  JobRequest = {p1}
  Selections = {1, 2}
  LeaseCheckEvery = 1
  GlobalCap = 1
  UserCap = 1
  RunBound = 2
  RequestBound = 2
  Faults = {"redis", "crash", "slow", "raise"}
  FaultBound = 1
SPECIFICATION IntakeSpec
INVARIANT TypeOK
INVARIANT AssembledComplete
INVARIANT OneTrackPerUpload
INVARIANT RawFileKept
INVARIANT ImportTypes
INVARIANT CountersExact
INVARIANT DoneIsComplete
INVARIANT LateItemsBounded
PROPERTY IntakeEnds
CHECK_DEADLOCK FALSE
