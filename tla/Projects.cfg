SPECIFICATION Spec
CONSTANTS
  Project = {p1, p2, p3, p4, p5}
  Copies = 2
  Data = {d0}
  Default = d0
  Absent = Absent
  Transient = {}
  Replaced = {}
  State = {s1}
  Selections <- FullOnly
  Switches <- FullOnly
  None = None
  Debug = TRUE
  MayPoint = TRUE
  MaySave = TRUE
  MayFail = TRUE
  MaxOn = 1
  MaxCalls = 5
VIEW CallsView
SYMMETRY Symmetry
CHECK_DEADLOCK FALSE
INVARIANTS
  StatesIsolated
PROPERTIES
  RemovedIsForgotten
  ImplementsProjects
