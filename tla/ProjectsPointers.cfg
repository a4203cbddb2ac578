SPECIFICATION Spec
CONSTANTS
  Project = {p1, p2, p3, p4}
  Copies = 3
  Data = {d0}
  Default = d0
  Absent = Absent
  Transient = {}
  Replaced = {}
  State = {s1}
  Selections <- FullOnly
  Switches <- FullOnly
  None = None
  Debug = FALSE
  MayPoint = TRUE
  MaySave = FALSE
  MayFail = FALSE
  MaxOn = 0
  MaxCalls = 1000
VIEW View
SYMMETRY Symmetry
CHECK_DEADLOCK FALSE
INVARIANT
  PointersExist
