SPECIFICATION FairSpec
CONSTANTS
  b1 = b1
  b3 = b3
  b2 = b2
  m1 = m1
  Free = Free
  None = None
  Buffers = {b1, b2, b3}
  Methods = {m1}
  Table = {m1}
  OwnTable = {"Delete", "KeepaliveReply"}
  Flaws = {"none"}
  handle_keepalives = TRUE
  InputCapacity = 1
  ResponseSize = 2
  ContextModulus = 4
  MaxCalls = 3
  MaxFaults = 1
  MaxPings = 2
PROPERTIES CallsReturn
CHECK_DEADLOCK FALSE
