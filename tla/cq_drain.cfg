\* Pausing a type with drain while a row of it is active.
CONSTANTS
  Job = {j1}
  Worker = {w1}
  Request = {q1}
  Reaper = {p1}
  None = None
  LocalJob = {}
  RaisingJob = {}
  FallbackAfter = 2
  MaxAttempts = 2
  ReapLimit = 1
  AdminOps = {"drain"}
  ClaimBound = 2
  RowBound = 1
SPECIFICATION Spec
PROPERTY DrainCancels
CHECK_DEADLOCK FALSE
