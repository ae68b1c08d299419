SPECIFICATION Spec
CONSTANTS
  f = f
  g = g
  Cvs = {f, g}
  MaxContexts = 4
  MaxLevels = 4
  MaxScopes = 6
\* The program ends.
CHECK_DEADLOCK FALSE
SYMMETRY Interchangeable
INVARIANTS
  TypeOK
  DepthIsFrames
  RefsExact
  PadAndArgsAreCurrent
  EvalResumesInItsLoop
  MustCatchInCallback
  StacksMatchCallbacks
