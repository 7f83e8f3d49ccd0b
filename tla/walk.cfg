CONSTANTS
  Dirs = {"r", "d1", "d2"}
  Files = {}
  Names <- TwoNames
  OldNames <- Roots
  Writers = {}
  Pinned = {"r"}
  Outside = {}
  Unreadable = {}
  InitLoc <- OneDir
  FsOps = {"rename"}
  MaxOps = 1
  MaxQueued = 20
  MaxWatches = 5
  RecursiveArgs <- WatchRoot
  FilesArgs = {}
  Masks <- AllEvents
  InsertPolicies = {"keep", "replace"}
  Capacity = {20}
  Faults = {}
  Calm <- InMemory
  MaxCalls = 2
SPECIFICATION Spec
INVARIANTS Complete
CHECK_DEADLOCK FALSE
