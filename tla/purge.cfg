CONSTANTS
  Dirs = {"r", "o", "d1", "d2"}
  Files = {}
  Names <- TwoNames
  OldNames <- Roots
  Writers = {}
  Pinned = {"r", "o"}
  Outside = {"o"}
  Unreadable = {}
  InitLoc <- TwoDirs
  FsOps = {"moveout", "list"}
  MaxOps = 2
  MaxQueued = 20
  MaxWatches = 5
  RecursiveArgs <- WatchRoot
  FilesArgs = {}
  Masks <- AllEvents
  InsertPolicies = {"keep", "replace"}
  Capacity = {20}
  Faults = {}
  Calm <- Walking
  MaxCalls = 2
SPECIFICATION Spec
PROPERTIES StopsMovedOut
CHECK_DEADLOCK FALSE
