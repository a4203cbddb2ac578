SPECIFICATION Spec
CHECK_DEADLOCK FALSE
INVARIANTS
  RecordSound
  AnswersTrue
  TemporalExact
PROPERTY
  ImplementsMemory
