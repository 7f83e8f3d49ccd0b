CONSTANTS
  Dirs = {"r", "d1"}
  Files = {"f1"}
  Names <- OneName
  OldNames <- Roots
  Writers = {"w1", "w2"}
  Pinned = {"r"}
  Outside = {}
  Unreadable = {}
  InitLoc <- OneDir
  FsOps = {"create", "open", "write", "close"}
  MaxOps = 5
  MaxQueued = 20
  MaxWatches = 5
  RecursiveArgs <- WatchRoot
  FilesArgs = {}
  Masks <- AllEvents
  InsertPolicies = {"keep", "replace"}
  Capacity = {1, 3, 20}
  Faults = {}
  Calm <- InMemory
  MaxCalls = 2
SPECIFICATION Spec
INVARIANTS ModifyReported HeldBack
PROPERTIES NoPhantomModify ReportsInOrder
