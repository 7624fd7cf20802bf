SPECIFICATION FairParentSpec
CONSTANTS
  Frames = 2
  Samples = 2
  Timeout = 2
INVARIANTS
  ChildIsOwned
  ReportIsEarned
  NothingIsLeft
PROPERTIES
  RunEnds
CHECK_DEADLOCK FALSE
