\* One key and two rows of it, a reaper and a request that overlap, and all
\* operations of the administrators.
CONSTANTS
  Job = {j1}
  Worker = {w1, w2}
  Request = {q1}
  Reaper = {p1}
  None = None
  LocalJob = {j1}
  RaisingJob = {}
  FallbackAfter = 2
  MaxAttempts = 2
  ReapLimit = 1
  AdminOps = {"release", "route", "drain", "purge", "pause", "revoke", "hold"}
  ClaimBound = 2
  RowBound = 2
SPECIFICATION Spec
SYMMETRY Symmetry
INVARIANT TypeOK
INVARIANT ClaimFieldsAgree
PROPERTY OneOwnerPerAttempt
CHECK_DEADLOCK FALSE
