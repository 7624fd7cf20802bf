SPECIFICATION FairSpec
CONSTANTS
  w1 = w1
  w2 = w2
  Worker = {w1, w2}
  Files = 5
  MaxToggles = 2
INVARIANTS
  NoFileTwice
  SampleIsComplete
  FailureIsReported
PROPERTIES
  SampleReturns
CHECK_DEADLOCK FALSE
