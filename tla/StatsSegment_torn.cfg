SPECIFICATION Spec
CONSTANTS
  x = x
  y = y
  z = z
  names = names
  Names = {x, y, z}
  Listing = names
  Directories <- BusyDirectories
  First <- Base
  Capacity = 3
  Buffers = {1, 2}
  RetryLimit = 2
  SymlinkLimit = 3
  Loads <- WordLoads
  NotAfter <- AnyOrder
  MaxCalls = 1
  MaxPublications = 1
INVARIANTS ValuesArePublished

CHECK_DEADLOCK FALSE
