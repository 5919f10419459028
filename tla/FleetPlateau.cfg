SPECIFICATION FairSpec
CONSTANTS
  WorkerCount = 2
  Desired = 3
  MaxPerWorker = 1
  EventTarget = 0
  WorkerThreads = 2
  Duration = 1
  Grace = 1
  Attempts = 2
  MaxCopies = 2
  MaxLate = 1
  WindDown = 0
  MaxLag = 1
INVARIANTS FleetBound AfterReadsDrained ListedWorkersRan
PROPERTY OrchestratorReturns
