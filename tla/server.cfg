CONSTANTS
  Lease = 2
  MaxFaults = 1
  LoopRuns = FALSE
  Probe = 1
  Wrap = 16
  Codes = {c1, c2}
  Nobody = Nobody
SPECIFICATION ServerFairSpec
INVARIANTS HttpInv LoginWhole CodeNotWasted NothingLeft
PROPERTIES LoginLasts Answered
