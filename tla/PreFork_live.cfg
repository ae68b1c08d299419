SPECIFICATION FairSpec
CONSTANTS
  Pids = {p1, p2}
  Min = 1
  MinSpare = 1
  MaxSpare = 1
  Max = 2
  MaxDequeue = 0
  Timers = {"spawn", "surplus", "dead", "idle"}
  PipeCapacity = 1
  ReadSize = 1
  DriftBound = 0
PROPERTIES
  PassKeepsMin
  DeadIsForgotten
  MinServersKept
  ClosesDown
