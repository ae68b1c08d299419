SPECIFICATION Spec
CONSTANTS
  CommitAnswers = {"ok", "refused"}
  MaxFrames = 1
  MaxRows = 1
  MaxSavepoints = 1
  MaxFaults = 1
CHECK_DEADLOCK FALSE
INVARIANT ReturnedIsKept
