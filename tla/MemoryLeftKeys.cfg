\* Nothing fails, but one thread is left behind.
CONSTANTS
  Configs <- Short
  MaxFills = 2
  MaxMemory = 9
  MaxFaults = 0
  MaxTimeouts = 1
  BatchSize = 2
  MaxRepeats = 0
SPECIFICATION Spec
CHECK_DEADLOCK FALSE
INVARIANTS
  NoKeysAfterReturn
