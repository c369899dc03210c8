SPECIFICATION Spec
CONSTANTS
  b1 = b1
  b2 = b2
  b3 = b3
  m1 = m1
  m2 = m2
  m3 = m3
  Free = Free
  None = None
  Buffers = {b1, b2, b3}
  Methods = {m1, m2, m3}
  Table = {m1, m2}
  OwnTable = {"Delete", "KeepaliveReply"}
  Flaws = {"none", "frame", "id", "body", "table"}
  handle_keepalives = TRUE
  InputCapacity = 1
  ResponseSize = 2
  ContextModulus = 3
  MaxCalls = 4
  MaxFaults = 1
  MaxPings = 1
SYMMETRY Symmetry
INVARIANTS TypeOK BufferOwnership OwnReply PairingKept QueueOutlivesUsers
CHECK_DEADLOCK FALSE
