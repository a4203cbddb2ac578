SPECIFICATION UnionSpec
CONSTANTS
  Elem = {p1, p2, p3}
  MaxSize = 4
  Project = {p1, p2, p3}
  UserHooks <- TwoHooks
  OtherHooks <- OneHook
  NoHook = None
  MaxDepth = 2
  Data = {d0, d1}
  Default = d0
  Absent = Absent
  None = None
  s1 = s1
  s2 = s2
  h1 = h1
  h2 = h2
  h3 = h3
VIEW View
SYMMETRY Symmetry
CHECK_DEADLOCK FALSE
INVARIANTS
  StatesIsolated
  NthCountsFromTop
  HooksSound
PROPERTIES
  ImplementsProjects
  ImplementsStack
