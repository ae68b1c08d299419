SPECIFICATION Spec
CONSTANTS
  CommitAnswers <- Answers
  MaxFrames = 3
  MaxRows = 2
  MaxSavepoints = 2
  MaxFaults = 2
\* The application may have nothing left to do.
CHECK_DEADLOCK FALSE
INVARIANTS
  TypeOK
  NeverAPart
  UndoneStaysOut
  DepthIsNesting
  SavepointsMatch

  
