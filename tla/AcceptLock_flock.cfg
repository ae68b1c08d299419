SPECIFICATION FairSpec
CONSTANTS
  Pids = {p1, p2, p3}
  Serialize = "flock"
  LockFile = TRUE
  LeaveOpen = TRUE
  MaxRestarts = 1
INVARIANTS
  OneSelects
  TurnNotLost
PROPERTIES
  SomeoneSelects
  ClosesDown
  ImplementsTurn
