\* A bus or a device memory that is full, a VM that is set up or has ended, stops.
SPECIFICATION VmSpec
CONSTANTS
    Bases = {0, 1, 2, 3, 4, 5, 6, 7}
    Lens = {0, 1, 2, 3, 4}
    Pages = 4
    Ram = 2
    Sizes = {0, 1, 2}
    KvmFaults = TRUE
    NCpus = 3
    Devices = {"disk"}
    MaxTerms = 2
    Vms = {"v1", "v2"}
    NoVm = "none"
    MaxStarts = 2
    NameLens = {1, 2, 3, 4, 5, 14, 15}
INVARIANTS RoutedToOwner MemoryIntact VcpusTogether NetworkExplained 
PROPERTIES ResourcesApart StartsAndEnds
CHECK_DEADLOCK FALSE
