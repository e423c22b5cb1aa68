SPECIFICATION Spec
CONSTANTS
  u1 = u1
  u2 = u2
  theWorker = theWorker
  c1 = c1
  l1 = l1
  None = None
  Users = {u1, u2}
  Worker = theWorker
  MaxTasks = 3
  MaxCalls = 2
  MaxReads = 2
  MaxWrites = 3
  CallIds = {c1, l1}
  Lookups = {l1}
  MaxResponses = 1
  MaxChanges = 1
  MapKeys = {1, 2, 3, 4, 5, 6, 7}
  MapValues = {1, 2}
  kFixedSize = 2
  Schema <- MCSchema
  Writer <- MCWriter
  Messages <- MCMessages
  Bits64 = 22
  Bits32 = 10
  kFixed = 2
  MaxMessages = 2
  InitialDelay = 2
  MaxDelay = 3
  MaxFailures = 1
  MaxPendingWrites = 2
  Targets = {"all", "one"}
  Keys = {"d1", "d2"}
  DocumentTargets = {"one"}
  Matching <- MCMatching
  Scenarios <- MCScenarios
  kBlockSize = 7
  Sizes = {0, 2, 4, 9}
  MaxRecords = 3
  Zero = Zero
  Damaged = Damaged
  Tables = {1, 2, 3}
  Capacity = 1
  MinLength = 1
  MaxHandles = 4
  kMaxHeight = 2
  UserKeys <- MCUserKeys
  TableSequence = 3
  Top = 3
  block_restart_interval = 2
  block_size = 8
  kFilterBase = 6
  BloomHash <- MCHash
  IterKeys = {1, 3}
  IterSequence = 4
  Children = 2
  ListKeys = {1, 2, 3}
  Parts = {"sorted map", "nanopb", "log", "cache", "skip list", "table", "iterator"}
INVARIANTS
  MeansTheSame
  FilesReadBack
