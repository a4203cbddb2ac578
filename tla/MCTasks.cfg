SPECIFICATION UnionSpec
CONSTANTS
  Threads = 3
  Stages = 2
  MaxProcs = 2
  Source = {u1, u2}
  MaxDepth = 2
  MayRaise = TRUE
  SyncThread = {t1, t2}
  Client = {c1, c2}
  Instance = sh
  Timed = TRUE
  Retry = TRUE
CHECK_DEADLOCK FALSE
INVARIANTS
  ProgressIsExclusive
  CountersAgree
  CriticalSection
  CommandsTrue
  SharedSound
PROPERTIES
  EventuallyTerminates
  CommandsEnd
