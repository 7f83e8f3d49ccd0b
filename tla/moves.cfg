CONSTANTS
  Dirs = {"r", "o", "d1", "d2", "d3", "d4"}
  Files = {}
  Names <- TwoNames
  OldNames <- Roots
  Writers = {}
  Pinned = {"r", "o", "d4"}
  Outside = {"o"}
  Unreadable = {}
  InitLoc <- Nested
  FsOps = {"rename", "movein"}
  MaxOps = 4
  MaxQueued = 20
  MaxWatches = 5
  RecursiveArgs <- WatchRoot
  FilesArgs = {}
  Masks <- AllEvents
  InsertPolicies = {"keep", "replace"}
  Capacity = {20}
  Faults = {}
  Calm <- Walking
  MaxCalls = 2
SPECIFICATION Spec
INVARIANTS Complete PathsRight NeverAborts
PROPERTIES ReportsInOrder
