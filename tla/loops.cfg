\* A track, two listeners, two drains and two faults; a schedule and two
\* processes; a lyrics job with one of every handler; two
\* sockets of a user.
CONSTANTS
  Track = {t1}
  Listener = {l1, l2}
  Client = {q1, q2}
  Drain = {d1, d2}
  Faults = {"index", "redis", "session", "crash"}
  FaultBound = 2
  Sched = {s1}
  Process = {p1, p2}
  Cron = {c1}
  MaxTick = 3
  PollFaultBound = 2
  Nobody = None
  Departed = Departed
  User = {"u"}
  Server = {"a", "b"}
  Socket = {1, 2, 3}
  UserOf <- OneUser
  ServerOf <- Homes
  Cap = 1
  QueueMax = 1
  Eviction = {"e"}
  ClientBound = 2
  SocketFaultBound = 1
  Job = {j1}
  Worker = {w1}
  Reaper = {r1}
  Executor = {e1}
  None = None
SPECIFICATION LoopsSpec
INVARIANT TypeOK
INVARIANT IndexKeepsUp
INVARIANT TickOnce
INVARIANT ChannelsFollow
PROPERTY DocumentsCatchUp
PROPERTY DueHandled
PROPERTY JobsMoveOn
PROPERTY PresenceSettles
CHECK_DEADLOCK FALSE
