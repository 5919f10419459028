\* Three threads racing for a pool of two; the peak is four descriptors.
CONSTANTS
  Threads = 3
  Target = 2
  BatchSize = 2
  RapidChurn = FALSE
  FdLimit = 5
  Duration = 1
  JoinGrace = 0
  LambdaLimit = 2
SPECIFICATION Spec
INVARIANTS
  OvershootBound
  PoolKeptUntilEnd
PROPERTY KeepsPoolPromise
