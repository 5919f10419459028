\* Stress Lambdas, the clean-up and fault Lambdas on one cluster.
SPECIFICATION Spec
CONSTANTS
  s1 = s1
  s2 = s2
  clean = clean
  crash = crash
  disk = disk
  Creators <- MCCreators
  Cleaner = clean
  Crashers <- MCCrashers
  Disturbers <- MCDisturbers
  Clients <- MCClients
  Scenarios <- MCScenarios
INVARIANTS HalfMadeMeansFailure ListedTablesAreGone AnswersAreTrue RefusedOnlyAfterRotation
CHECK_DEADLOCK FALSE
