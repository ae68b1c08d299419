SPECIFICATION FairSpec
CONSTANTS
  Pids = {p1, p2, p3}
  Serialize = "pipe"
  LockFile = TRUE
  LeaveOpen = FALSE
  MaxRestarts = 0
PROPERTIES
  SomeoneSelects
