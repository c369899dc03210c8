SPECIFICATION FairSpec
CONSTANTS
  p1 = p1
  p2 = p2
  p3 = p3
  a = a
  b = b
  none = none
  Procs = {p1, p2, p3}
  Values = {a, b}
  NoValue = none
  MaxSize = 2
  Ops <- DeathOps
  MaxCalls = 2
  Endless = {}
  MaxCrashes = 1
  MaxSpurious = 0
  MaxRestarts = 1
  EventFds = {}
INVARIANTS MutualExclusion AttachSucceeds RingConsistent NoLostWakeup
PROPERTIES ImplementsFifo CallsSettle
CHECK_DEADLOCK FALSE
