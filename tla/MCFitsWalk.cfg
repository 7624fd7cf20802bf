SPECIFICATION Spec
CONSTANTS
  CardSize = 1
  BlockSize = 5
  MaxInt = 40
  MaxAxes = 2
  MaxHeader = 17
  MaxStructures = 15
  MaxDecoded = 4
  Sizes = {14, 20}
  Cards <- MCCards
  TileBytes = 2
  MaxExtra = 2
INVARIANTS
  ReadUnitsAreLegal
  
  UnitsAreAccounted
CHECK_DEADLOCK FALSE
