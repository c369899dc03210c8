SPECIFICATION DecodingSpec
CONSTANTS
    Radix = 8
    NameBytes = 4
    Samples <- MCSamples
    Tables <- MCTables
    Rests <- MCRests
    Cells = 6
    Words = {0, 1, 4, 6, 7}
    Bases = {0, 1}
    AddressSpace = 16
    Regions <- MCRegions
    Halves = {0, 1, 2, 3}
    PrefixSize = 2
    PrefixAlign = 2
    HeaderSize = 3
    HeaderAlign = 2
    QueueSize = 2
    CacheLine = 4
    PointerSize = 2
INVARIANTS
    DecodingTypeOK
    WholeMessagesDecode
    DecodedIsTheWire
    NamesArrive
    TablesAreImported
    VectorsAreRead
    PanicsAreKnown
    OnlyTheRegionIsFollowed
CHECK_DEADLOCK FALSE
