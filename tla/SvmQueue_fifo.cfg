SPECIFICATION FairSpec
CONSTANTS
  p1 = p1
  p2 = p2
  p3 = p3
  a = a
  b = b
  none = none
  Procs = {p1, p2, p3}
  Values = {a, b}
  NoValue = none
  MaxSize = 2
  Ops <- EventOps
  MaxCalls = 2
  Endless = {}
  MaxCrashes = 0
  MaxSpurious = 1
  MaxRestarts = 0
  EventFds = {"producer", "consumer"}
INVARIANTS TypeOK CommitMatchesResult
PROPERTIES ImplementsFifo CallsSettle
CHECK_DEADLOCK FALSE
