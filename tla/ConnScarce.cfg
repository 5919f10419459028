\* Fewer descriptors than the peak: threads die of OSError.
CONSTANTS
  Threads = 2
  Target = 2
  BatchSize = 2
  RapidChurn = TRUE
  FdLimit = 3
  Duration = 1
  JoinGrace = 1
  LambdaLimit = 4
SPECIFICATION FairSpec
INVARIANTS
  TypeOK
  CounterExact
  NoSocketLost
  CompleteResponseMeansDrained
PROPERTY WorkersWindDown
