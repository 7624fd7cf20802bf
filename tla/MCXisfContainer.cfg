CONSTANTS
  MaxInt = 40
  PrefixLen = 2
  MinHistory = 4
  Files <- MCFiles
  MaxHeader = 3
  MaxStructures = 7
  MaxDecoded = 13
  MaxWorking = 16
  MaxHistory = 8
  Scratch = 4
  Ahead = 2
SPECIFICATION Spec
INVARIANTS
  NothingIsIgnored
  WorkIsAdmitted
  LoaderAgrees
  PixelsAreSamples
CHECK_DEADLOCK FALSE
