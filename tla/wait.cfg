CONSTANTS
  Dirs = {"r", "d1", "d2"}
  Files = {"f1", "f2"}
  Names <- OneName
  OldNames <- FileRoots
  Writers = {}
  Pinned = {"r"}
  Outside = {}
  Unreadable = {}
  InitLoc <- TwoFiles
  FsOps = {"mkdir", "list", "replace", "truncate"}
  MaxOps = 2
  MaxQueued = 20
  MaxWatches = 5
  RecursiveArgs <- WatchRoot
  FilesArgs = {}
  Masks <- AllEvents
  InsertPolicies = {"keep", "replace"}
  Capacity = {20}
  Faults = {}
  Calm <- InMemory
  MaxCalls = 2
SPECIFICATION FairSpec
PROPERTIES CallsReturn NewDirWatched Drained
