SPECIFICATION FormatSpec
CHECK_DEADLOCK FALSE
INVARIANTS
  RespectiveArguments
