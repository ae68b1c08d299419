SPECIFICATION Spec
CONSTANTS
  s1 = s1
  s2 = s2
  s3 = s3
  Sths = {s1, s2, s3}
\* Both processes end.
CHECK_DEADLOCK FALSE
SYMMETRY Interchangeable
INVARIANTS
  KidsExact
  ActiveIsOpen
  NothingAstray
  NoImplicitCommit
PROPERTIES
  ChildLeavesSession
