\* Runs of up to three ticks; hung threads outlast the joins' deadline.
CONSTANTS
  Environments <- MCEnvironments
  Grace = 1
  Attempts = 3
  MaxJitter = 1
  MaxSamples = 2
SPECIFICATION Spec
INVARIANTS
  ReturnsInTime
  ResultsSayWhatRan
  NoCatchUp
  ReportAddsUp
