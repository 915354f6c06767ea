SPECIFICATION FairSpec
CONSTANTS
  a1 = a1
  a2 = a2
  u1 = u1
  p1 = p1
  p2 = p2
  Agent = {a1, a2}
  Root = root
  UnlockLoop = {u1}
  PendingLoop = {p1, p2}
  Databases = {"mariadb", "postgresql"}
  AfterPending = {"closed", "none"}
  UnlockAfter = 1
  Interval = 1
  MaxTime = 2
  MaxCalls = 2
  MaxFaults = 1
CHECK_DEADLOCK FALSE
INVARIANTS TypeOK
PROPERTIES AcquireIsSafe TimersAreCareful TimersAct
