SPECIFICATION MonadSpec
CONSTANTS
  SyncThread = {t1, t2, t3}
  Client = {}
  Instance = sh
  Timed = FALSE
  Retry = FALSE
CHECK_DEADLOCK FALSE
INVARIANT
  OneAtATime
