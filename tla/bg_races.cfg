\* Two rows, two processes, an administrator, crashes and faults.
CONSTANTS
  Job = {j1, j2}
  Worker = {w1, w2}
  Admin = {a1}
  None = None
  MaxAttempts = 2
  AdminOps = {"cancel", "cancel_active", "drain", "purge"}
  Crashes = TRUE
  Faults = TRUE
SPECIFICATION Spec
SYMMETRY Symmetry
INVARIANT TypeOK
INVARIANT OneExecutionAtATime
INVARIANT NothingAfterTheEnd
INVARIANT RetryBudget
PROPERTY FollowsLifecycle
CHECK_DEADLOCK FALSE
