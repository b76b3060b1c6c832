\* One job, a worker, a request, a reaper and a process of tasks, which overlap.
CONSTANTS
  Job = {j1}
  Worker = {w1}
  Request = {q1}
  Reaper = {p1}
  Executor = {e1}
  Plan <- DefaultPlan
  None = None
  AdminOps = {"route", "cancel", "revoke"}
  Faults = {"rollback", "crash", "return"}
  FaultBound = 2
SPECIFICATION Spec
INVARIANT TypeOK
INVARIANT RunningHasLease
INVARIANT NoJobForgotten
INVARIANT PaidOnce
CHECK_DEADLOCK FALSE
