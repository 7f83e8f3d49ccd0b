CONSTANTS
  Lease = 3
  Probe = 1
  Wrap = 8
  MaxFaults = 2
  LoopRuns = FALSE
SPECIFICATION LoopSpec
PROPERTIES ProbeRegisters
