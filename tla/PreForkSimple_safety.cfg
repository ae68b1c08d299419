SPECIFICATION Spec
CONSTANTS
  Pids = {p1, p2, p3, p4, p5}
  Max = 2
  MaxDequeue = 1
  Hook = TRUE
  LeaveOpen = FALSE
  Timers = {"dead", "dequeue"}
  Signals = {"HUP", "TERM"}
  ForkMayFail = TRUE
  MaxRestarts = 1
SYMMETRY Interchangeable
INVARIANTS
  OursTracked
  OursBounded
