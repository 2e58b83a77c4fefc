SPECIFICATION BlockSpec
CONSTANTS
    NSectors = 2
    MaxCount = 2
    a = a
    b = b
    Values = {a, b}
    None = None
    Images <- TwoSectors
    OpenTypes <- AllOpenTypes
    HostFails = TRUE
    HEADER_SIZE = 1
    SECTOR_SIZE = 2
    IdLen = 1
    Requests <- Anywhere
INVARIANTS
    StatusExact
    DiskFaithful
PROPERTIES
    ChainsFinished
