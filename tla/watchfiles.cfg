CONSTANTS
  Dirs = {"r", "o", "d1"}
  Files = {"f1"}
  Names <- TwoNames
  OldNames <- Roots
  Writers = {"w1"}
  Pinned = {"r", "o"}
  Outside = {"o"}
  Unreadable = {}
  InitLoc <- FilesTree
  FsOps = {"movein", "moveout", "open", "rename", "rmdir", "close", "unlink"}
  MaxOps = 3
  MaxQueued = 4
  MaxWatches = 2
  RecursiveArgs = {}
  FilesArgs <- FileMany
  Masks <- AllOrNone
  InsertPolicies = {"keep", "replace"}
  Capacity = {20}
  Faults = {}
  Calm <- InMemory
  MaxCalls = 3
SPECIFICATION Spec
INVARIANTS IndInv EntryBacked MarkKnown
PROPERTIES ReportsInOrder AbortsExplained
CHECK_DEADLOCK FALSE
