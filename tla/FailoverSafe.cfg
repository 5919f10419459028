\* Three concurrent invocations, three members.
CONSTANTS
  Handlers = {h1, h2, h3}
  Members = {m1, m2, m3}
  MaxPolls = 2
SPECIFICATION FairSpec
INVARIANTS
  TypeOK
  InitiatedMeansAccepted
  WaitedMeansComplete
PROPERTY AlwaysAnswers
