SPECIFICATION FairSpec
CONSTANTS
  i1 = i1
  i2 = i2
  a = a
  b = b
  x = x
  NoFile = NoFile
  Special = Special
  Inode = {i1, i2}
  Value = {a, b, x}
  Signature = {a, b}
  Contiguous = {a}
  Whole = 2
  Codec = {"zlib", "zstd"}
  MaxEvents = 2
INVARIANTS
  FindingsAreTrue
  OutcomeIsOwed
PROPERTIES
  CallReturns
CHECK_DEADLOCK FALSE
