SPECIFICATION Spec
CONSTANTS
  Pids = {p1, p2, p3}
  Min = 1
  MinSpare = 1
  MaxSpare = 1
  Max = 2
  MaxDequeue = 1
  Timers = {"spawn", "surplus", "dequeue"}
  PipeCapacity = 2
  ReadSize = 1
  DriftBound = 1
SYMMETRY Interchangeable
INVARIANTS
  TallyMatchesTable
  ServingBound
  TalkingIsTracked
  LastWordIsTrue
  ReapedAreGone
  DequeueNotOvercounted
