\* Two compute jobs, one of them with a local handler, one worker and one reaper
\* whose flushes do not overlap, the same with all flushes under fairness, and a
\* window of one row; a background job, a process that does not die, two requests
\* that cancel and drain; two calls and one slot.
CONSTANTS
  Job = {j1, j2}
  Worker = {w1}
  Request = {q1}
  Reaper = {p1}
  None = None
  LocalJob = {j1}
  RaisingJob = {}
  FallbackAfter = 2
  MaxAttempts = 2
  ReapLimit = 1
  AdminOps = {"purge"}
  ClaimBound = 3
  RowBound = 1
  Process = {w1}
  Caller = {k1, k2}
  Token = {n1, n2, n3}
  MaxActive = 1
SPECIFICATION MachinesSpec
INVARIANT CapRespected
INVARIANT AttemptsBounded
PROPERTY ImplementsLifecycle
PROPERTY ExpiredClaimsReaped
PROPERTY LocalJobsReaped
PROPERTY JobsSettle
PROPERTY SlotsComeBack
CHECK_DEADLOCK FALSE
