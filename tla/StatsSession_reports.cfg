SPECIFICATION SessionSpec
CONSTANTS
  n1 = n1
  n2 = n2
  Directories <- AllDirectories
  HeapColumns = 2
  Requests <- Callers
  MaxTicks = 1
  MaxPublications = 2
  MaxMisses = 1
  Segments <- Handed
  HeaderBytes = 2
  Version = 2
  ControlFds = 2
  MaxSent = 3
  MaxConnects = 2
  MaxTroubles = 1
  MaxEvents = 3
INVARIANTS
    SessionTypeOK
    QuietReportsAnswer
    ShapesAgree
    ErrorsComplete
    NodesKeepTheirCounters
    RatesAreWhatTheLoopsRan
    NothingHeld
PROPERTIES ConnectEnds
CHECK_DEADLOCK FALSE
