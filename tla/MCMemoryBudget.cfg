SPECIFICATION FairSpec
CONSTANTS
  c1 = c1
  c2 = c2
  h1 = h1
  r1 = r1
  r2 = r2
  Call = {c1, c2}
  Host = {h1}
  Slot = {r1, r2}
  Request = {1, 2, 3}
  Capacity = 2
  Limit = 3
  MaxAttempts = 3
INVARIANTS
  UsedIsHeld
  WithinCapacity
  PeakIsHighWater
  LedgersAgree
PROPERTIES
  VerdictsAreRight
  ImplementsAllowance
  CallsReturn
CHECK_DEADLOCK FALSE
