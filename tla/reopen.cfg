CONSTANTS
  Dirs = {"r", "d1", "d2"}
  Files = {}
  Names <- TwoNames
  OldNames <- Roots
  Writers = {}
  Pinned = {"r"}
  Outside = {}
  Unreadable = {}
  InitLoc <- Chain
  FsOps = {}
  MaxOps = 4
  MaxQueued = 20
  MaxWatches = 5
  RecursiveArgs <- WatchTwo
  FilesArgs = {}
  Masks <- AllEvents
  InsertPolicies = {"keep", "replace"}
  Capacity = {20}
  Faults = {}
  Calm <- InMemory
  MaxCalls = 4
SPECIFICATION Spec
INVARIANTS NeverAborts
CHECK_DEADLOCK FALSE
