CONSTANTS
  Plans <- MCPlans
  Table <- MCTable
  MaxStructures = 14
  MaxDecoded = 12
  MaxBlock = 65536
  MaxHigh = 16777215
  MaxInt = 100000
  MaxFields = 4
SPECIFICATION Spec
INVARIANTS
  ColumnsAndPayloadsFit
  TilesFillTheImage
  StreamsAreExact
  PathsAgree
CHECK_DEADLOCK FALSE
