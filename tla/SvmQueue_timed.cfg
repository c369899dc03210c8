SPECIFICATION FairSpec
CONSTANTS
  p1 = p1
  p2 = p2
  p3 = p3
  a = a
  b = b
  none = none
  Procs = {p1, p2, p3}
  Values = {a, b}
  NoValue = none
  MaxSize = 2
  Ops <- TimedOps
  MaxCalls = 1
  Endless = {p3}
  MaxCrashes = 1
  MaxSpurious = 0
  MaxRestarts = 0
  EventFds = {}
PROPERTIES TimedCallsReturn
CHECK_DEADLOCK FALSE
