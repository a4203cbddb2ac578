SPECIFICATION Spec
CONSTANTS
  Threads = 3
  Stages = 1
  MaxProcs = 2
  Source = {u1, u2}
  MaxDepth = 2
  MayRaise = FALSE
CHECK_DEADLOCK FALSE
INVARIANT
  Invariant
