CONSTANTS
  Dirs = {"r", "d1", "d2"}
  Files = {}
  Names <- NestedNames
  OldNames <- Roots
  Writers = {}
  Pinned = {"r"}
  Outside = {}
  Unreadable = {}
  InitLoc <- Siblings
  FsOps = {"rename"}
  MaxOps = 1
  MaxQueued = 20
  MaxWatches = 5
  RecursiveArgs <- WatchRoot
  FilesArgs = {}
  Masks <- AllEvents
  InsertPolicies = {"keep", "replace"}
  Capacity = {20}
  Faults = {}
  Calm <- Walking
  MaxCalls = 2
SPECIFICATION Spec
INVARIANTS PathsRight
CHECK_DEADLOCK FALSE
