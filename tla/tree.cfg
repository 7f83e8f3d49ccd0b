CONSTANTS
  Dirs = {"r", "d1", "d2"}
  Files = {}
  Names <- TwoNames
  OldNames <- Roots
  Writers = {}
  Pinned = {"r"}
  Outside = {}
  Unreadable = {}
  InitLoc <- EmptyRoot
  FsOps = {"mkdir", "rmdir", "unmount"}
  MaxOps = 3
  MaxQueued = 20
  MaxWatches = 5
  RecursiveArgs <- WatchRoot
  FilesArgs = {}
  Masks <- AllEvents
  InsertPolicies = {"keep", "replace"}
  Capacity = {1, 3, 20}
  Faults = {"init", "select", "ioctl", "read", "opendir", "lstat"}
  Calm <- InMemory
  MaxCalls = 2
SPECIFICATION Spec
INVARIANTS IndInv MarkKnown AbortExplained Complete PathsRight
PROPERTIES ReportsInOrder
CHECK_DEADLOCK FALSE
