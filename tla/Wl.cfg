\* The guest and the compositor may have nothing more to say.
SPECIFICATION Spec
CONSTANTS
    Pages = 3
    Ram = 1
    Sizes = {1}
    KvmFaults = TRUE
    GuestIds = 1
    HostIds = 3
    MaxOut = 1
    MaxIn = 1
    MaxInbox = 1
    MaxPending = 2
    Items = {"eof", "two files"}
    Ops = {"NEW", "NEW_CTX", "CLOSE"}
    ShortChains = FALSE
INVARIANTS TablesAgree InputInOrder
PROPERTIES CommandsAnswered
CHECK_DEADLOCK FALSE
