SPECIFICATION FairSpec
CONSTANTS
  x = x
  y = y
  z = z
  names = names
  Names = {x, y, z}
  Listing = names
  Directories <- AllDirectories
  First <- Base
  Capacity = 3
  Buffers = {1, 2}
  RetryLimit = 2
  SymlinkLimit = 3
  Loads <- PairLoads
  NotAfter <- SoundOrder
  MaxCalls = 2
  MaxPublications = 1
INVARIANTS TypeOK QuietReadsAnswer ValuesArePublished
PROPERTIES ReadsReturn
CHECK_DEADLOCK FALSE
