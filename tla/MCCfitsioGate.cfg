SPECIFICATION FairGateSpec
CONSTANTS
  t1 = t1
  t2 = t2
  t3 = t3
  NoThread = NoThread
  Thread = {t1, t2, t3}
  MaxCalls = 2
INVARIANTS
  OneThreadInside
  GateMatchesPermits
  NoLostWakeup
PROPERTIES
  ImplementsSection
  CallersServed
CHECK_DEADLOCK FALSE
