SPECIFICATION Spec
CONSTANTS
  None = None
  Threads = {"t1", "t2"}
  Workloads <- MCWorkloads
  NumLevels = 3
  MaxMemCompactLevel = 1
  L0CompactionTrigger = 2
  MaxLevelSize = 2
  MaxGrandParentOverlap = 2
  ExpandedLimit = 4
  MemLimit = 0
  L0StopTrigger = 3
INVARIANT SyncSurvives
