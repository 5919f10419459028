\* What failover_initiated = false means.
CONSTANTS
  Handlers = {h1, h2}
  Members = {m1, m2}
  MaxPolls = 2
SPECIFICATION Spec
INVARIANT NotInitiatedMeansNone
