CONSTANTS
  Lease = 3
  Probe = 1
  Wrap = 8
  MaxFaults = 2
  LoopRuns = TRUE
SPECIFICATION FairSpec
INVARIANTS AppInv DeviceValid NothingLeft
PROPERTIES StopExits
