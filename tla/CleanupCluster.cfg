\* Four keys on two nodes, two late writes.
CONSTANTS
  StressKeys <- MCKeys
  FirstNode <- MCFirstNode
  ClusterMode = TRUE
  BatchSize = 2
  MaxRepeats = 1
  MaxWrites = 2
SPECIFICATION CleanupSpec
CHECK_DEADLOCK FALSE
INVARIANTS
  TypeOK
  FullSweepRemovesOldKeys
  DeletedCoversUnlinked
