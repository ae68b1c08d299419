SPECIFICATION FairSpec
CONSTANTS
  Pids = {p1, p2, p3, p4}
  Max = 1
  MaxDequeue = 1
  Hook = FALSE
  LeaveOpen = TRUE
  Timers = {"dead", "dequeue"}
  Signals = {"HUP"}
  ForkMayFail = FALSE
  MaxRestarts = 2
INVARIANTS
  AllTracked
PROPERTIES
  PoolRecovers
