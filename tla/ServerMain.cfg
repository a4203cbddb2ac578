SPECIFICATION FairSpec
CONSTANTS
  Ids = {r1, r2, r3}
  None = None
  MaxRequests = 2
  Rate = 1
ACTION_CONSTRAINT Numbered
CHECK_DEADLOCK FALSE
INVARIANTS
  TypeOK
  NoRequestLost
  ResponsesInOrder
PROPERTIES
  AnswersKept
  ShutdownStops
  EventuallyAnswered
