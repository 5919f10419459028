\* Twelve environments; one thread left behind at most.
CONSTANTS
  Configs <- All
  MaxFills = 2
  MaxMemory = 9
  MaxFaults = 2
  MaxTimeouts = 1
  BatchSize = 2
  MaxRepeats = 0
SPECIFICATION Spec
CHECK_DEADLOCK FALSE
INVARIANTS
  PhaseReachesTarget
  RampWithinTarget
  ReportCoversKeys
  NothingLeftBehind
