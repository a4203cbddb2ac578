SPECIFICATION Spec
CHECK_DEADLOCK FALSE
INVARIANTS
  StringsMeetContracts
  NumbersMeetContracts
  LibcStateKept
  ReplacementsExact
  PrintfReadsBack
  FormatsChecked
  WordsExact
  CommandOutputs
  LayoutSound
  FailuresReported
