SPECIFICATION Spec
CONSTANTS
  i1 = i1
  a = a
  x = x
  NoFile = NoFile
  Special = Special
  Inode = {i1}
  Value = {a, x}
  Signature = {a}
  Contiguous = {}
  Whole = 3
  Codec = {"none", "zstd"}
  MaxEvents = 1
INVARIANT CancelledIsNotCorrupt
CHECK_DEADLOCK FALSE
