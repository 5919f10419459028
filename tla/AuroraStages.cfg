\* Runs of one to three ticks; a hung thread meets the function's timeout.
CONSTANTS
  Settings <- MCSettings
  Grace = 1
  LambdaLimit = 5
  MaxOps = 2
SPECIFICATION StagesSpec
INVARIANTS
  
  PeakAsReported
  LoadIsKept
