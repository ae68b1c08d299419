SPECIFICATION FairSpec
CONSTANTS
  Pids = {p1, p2, p3}
  Min = 2
  MinSpare = 1
  MaxSpare = 1
  Max = 3
  MaxDequeue = 0
  Timers = {"spawn", "surplus", "dead", "idle"}
  PipeCapacity = 2
  ReadSize = 2
  DriftBound = 0
PROPERTIES
  SparesAvailable
