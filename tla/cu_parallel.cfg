CONSTANTS
  Upload = {u1}
  Request = {q1, q2}
  Expected = 3
  Crashes = FALSE
  NoFile = NoFile
SPECIFICATION Spec
CHECK_DEADLOCK FALSE
INVARIANT AckedChunksKept
