SPECIFICATION Spec
CHECK_DEADLOCK FALSE
CONSTANTS
  MALLOC_ALIGNMENT = 4
  NSMALLBINS = 16
  TREEBIN_SHIFT = 4
  NTREEBINS = 8
  MAX_SIZE_T = 4095
  PageSize = 32
  MAX_RELEASE_CHECK_RATE = 2
  MstateSize = 7
  Requests <- MCRequests
  Layouts <- MCLayouts
  Capacities <- MCCapacities
  Base = 512
  Alignments <- MCAlignments
  Limits <- MCLimits
  Options <- MCOptions
  Outcomes <- MCOutcomes
  Profiles <- MCProfiles
  DEFAULT_GRANULARITY = 128
  DEFAULT_MMAP_THRESHOLD = 60
  DEFAULT_TRIM_THRESHOLD = 90
INVARIANTS
  StateConsistent
  LiveBlocksUsable
  SpaceAccounted
PROPERTIES
  PlacementSound
  ImplementsHeap
